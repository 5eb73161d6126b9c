---------------------------- MODULE PluginProofs ----------------------------
(***************************************************************************)
(* Proofs about the supervisor of a machine's endpoints                    *)
(* (EndpointSupervisor), the socket between the supervisor and a plugin    *)
(* (PluginBroker) and the forward plugin (ForwardPlugin), for any number   *)
(* of endpoints, tasks, streams, ports and clients.                        *)
(***************************************************************************)
EXTENDS EndpointSupervisor, PluginBroker, ForwardPlugin, TLAPS

-----------------------------------------------------------------------------
(* EndpointSupervisor *)

\* A live plugin of an endpoint is the one that its run watches.
Watching(x) == IF x.pc \in {"ready", "loop"} THEN {x.slot} ELSE {}
EndpointInv == EndpointsTypeOK /\ \A e \in Endpoints : live[e] \subseteq Watching(ep[e])

PortStates == {"free", "run", "orphan", "gone"}

\* No plugin has been started (Init).
LEMMA EndpointStart == ASSUME EndpointsInit PROVE EndpointInv
<1> DEFINE x == [pc |-> "check", outcome |-> None, delay |-> Initial, slot |-> 0,
                 exit |-> None, event |-> None, control |-> "none", handle |-> "none"]
<1>1. x \in Endpoint /\ x.pc = "check"
  BY SMTT(30) DEF Endpoint, Outcomes
<1>2. ep = [e \in Endpoints |-> x] /\ live = [e \in Endpoints |-> {}] /\ port = [e \in Endpoints |-> "free"]
  BY Zenon DEF EndpointsInit
<1> HIDE DEF x
<1>3. EndpointsTypeOK
  BY <1>1, <1>2, Zenon DEF EndpointsInit, EndpointsTypeOK
<1> QED BY <1>2, <1>3, Zenon DEF EndpointInv

\* A step of one endpoint that leaves the others alone.
LEMMA EndpointMoves ==
  ASSUME EndpointInv, NEW e \in Endpoints, NEW x \in Endpoint, ep' = [ep EXCEPT ![e] = x],
         NEW l \in SUBSET (0..1), live' = [live EXCEPT ![e] = l], l \subseteq Watching(x),
         NEW q \in PortStates, port' = [port EXCEPT ![e] = q], UNCHANGED worldVars
  PROVE EndpointInv'
<1>0. UNCHANGED <<backend, config, machine, shutdown, sup>>
  BY Zenon DEF worldVars
<1>1. ep' \in [Endpoints -> Endpoint] /\ ep'[e] = x /\ \A f \in Endpoints \ {e} : ep'[f] = ep[f]
  BY Zenon DEF EndpointInv, EndpointsTypeOK
<1>2. live' \in [Endpoints -> SUBSET (0..1)] /\ live'[e] = l /\ \A f \in Endpoints \ {e} : live'[f] = live[f]
  BY Zenon DEF EndpointInv, EndpointsTypeOK
<1>3. port' \in [Endpoints -> PortStates]
  BY Zenon DEF EndpointInv, EndpointsTypeOK, PortStates
<1>4. EndpointsTypeOK'
  BY <1>0, <1>1, <1>2, <1>3, Zenon DEF EndpointInv, EndpointsTypeOK, PortStates
<1>5. \A f \in Endpoints : live'[f] \subseteq Watching(ep'[f])
  BY <1>1, <1>2, Zenon DEF EndpointInv
<1> QED BY <1>4, <1>5, Zenon DEF EndpointInv

\* A step that only changes what the task knows.
LEMMA EndpointThinks ==
  ASSUME EndpointInv, NEW e \in Endpoints, NEW x \in Endpoint, ep' = [ep EXCEPT ![e] = x],
         UNCHANGED <<live, port>>, UNCHANGED worldVars, Watching(ep[e]) \subseteq Watching(x)
  PROVE EndpointInv'
<1>1. live' = [live EXCEPT ![e] = live[e]] /\ port' = [port EXCEPT ![e] = port[e]]
      /\ live[e] \in SUBSET (0..1) /\ port[e] \in PortStates /\ live[e] \subseteq Watching(x)
  BY Zenon DEF EndpointInv, EndpointsTypeOK, PortStates
<1> QED BY <1>1, EndpointMoves, Zenon

\* The run of an endpoint ends (EndRun).
LEMMA Endpoint_EndRun ==
  ASSUME EndpointInv, NEW e \in Endpoints, NEW o \in Outcomes, NEW h, EndRun(e, o, h)
  PROVE EndpointInv'
<1> DEFINE x == [ep[e] EXCEPT !.pc = "ended", !.outcome = o, !.exit = None,
                  !.event = None, !.control = "none", !.handle = "none"]
           l == live[e] \ {ep[e].slot}
           q == IF port[e] # "run" THEN port[e]
                  ELSE IF h = "lost" /\ ep[e].control = "run" THEN "orphan" ELSE Dropped
<1>1. ep[e] \in Endpoint /\ live[e] \in SUBSET (0..1) /\ port[e] \in PortStates
  BY Zenon DEF EndpointInv, EndpointsTypeOK, PortStates
<1>2. x \in Endpoint
  BY <1>1, ZenonT(60) DEF Endpoint
<1>3. l \in SUBSET (0..1) /\ l = {}
  BY <1>1, Zenon DEF EndpointInv, Watching
<1>4. q \in PortStates
  BY <1>1, Zenon DEF PortStates, Dropped
<1>5. ep' = [ep EXCEPT ![e] = x] /\ live' = [live EXCEPT ![e] = l] /\ port' = [port EXCEPT ![e] = q]
      /\ UNCHANGED worldVars
  BY Zenon DEF EndRun, Drop
<1> HIDE DEF x, l, q
<1> QED BY <1>2, <1>3, <1>4, <1>5, EndpointMoves, Zenon

\* The steps of an endpoint's task.
LEMMA Endpoint_Move ==
  ASSUME EndpointInv, NEW e \in Endpoints, NEW pc \in {"check", "listen", "spawn", "backoff", "done"},
         NEW d \in {Initial} \cup 0..Max, Move(e, pc, d), ep[e].pc \in {"check", "ended", "backoff"}
  PROVE EndpointInv'
<1> DEFINE x == [ep[e] EXCEPT !.pc = pc, !.delay = d, !.outcome = None]
<1>1. ep[e] \in Endpoint
  BY Zenon DEF EndpointInv, EndpointsTypeOK
<1>2. x \in Endpoint
  BY <1>1, ZenonT(60) DEF Endpoint
<1>3. ep' = [ep EXCEPT ![e] = x] /\ UNCHANGED <<live, port>> /\ UNCHANGED worldVars
  BY Zenon DEF Move
<1>4. Watching(ep[e]) = {}
  BY Zenon DEF Watching
<1> HIDE DEF x
<1> QED BY <1>2, <1>3, <1>4, EndpointThinks, Zenon

LEMMA DoubledStays == ASSUME NEW d \in {Initial} \cup 0..Max PROVE Doubled(d) \in 0..Max
  BY EndpointAssumption, SMT DEF Doubled

LEMMA Endpoint_supervise ==
  ASSUME EndpointInv, NEW e \in Endpoints, Check(e) \/ supervise_endpoint(e) \/ Backoff(e)
  PROVE EndpointInv'
<1>1. ep[e].delay \in {Initial} \cup 0..Max
  BY SMT DEF EndpointInv, EndpointsTypeOK, Endpoint
<1>2. PICK pc \in {"check", "listen", "spawn", "backoff", "done"},
           d \in {ep[e].delay, Initial, Doubled(ep[e].delay)} :
        Move(e, pc, d) /\ ep[e].pc \in {"check", "ended", "backoff"}
  <2>1. CASE Check(e)
    BY <2>1, Zenon DEF Check
  <2>2. CASE supervise_endpoint(e)
    BY <2>2, Zenon DEF supervise_endpoint
  <2>3. CASE Backoff(e)
    BY <2>3, Zenon DEF Backoff
  <2> QED BY <2>1, <2>2, <2>3, Zenon
<1>3. d \in {Initial} \cup 0..Max
  BY <1>1, <1>2, DoubledStays, Zenon
<1> QED BY <1>2, <1>3, Endpoint_Move, Zenon

LEMMA Endpoint_listen ==
  ASSUME EndpointInv, NEW e \in Endpoints, supervisor_listen(e) PROVE EndpointInv'
<1> DEFINE x == [ep[e] EXCEPT !.pc = "spawn"]
<1>1. ep[e] \in Endpoint /\ live[e] \in SUBSET (0..1)
  BY Zenon DEF EndpointInv, EndpointsTypeOK
<1>2. x \in Endpoint
  BY <1>1, SMTT(30) DEF Endpoint
<1>3. ASSUME port' = [port EXCEPT ![e] = "run"], ep' = [ep EXCEPT ![e].pc = "spawn"],
             UNCHANGED worldVars, live' = live
      PROVE EndpointInv'
  <2>1. ep' = [ep EXCEPT ![e] = x] /\ live' = [live EXCEPT ![e] = live[e]]
    BY <1>3, Zenon DEF EndpointInv, EndpointsTypeOK
  <2>2. live[e] \subseteq Watching(x)
    BY Zenon DEF EndpointInv, Watching, supervisor_listen
  <2> HIDE DEF x
  <2> QED BY <1>1, <1>2, <1>3, <2>1, <2>2, EndpointMoves, Zenon DEF PortStates
<1>4. ASSUME EndRun(e, "failed", "none") PROVE EndpointInv'
  BY <1>4, Endpoint_EndRun, Zenon DEF Outcomes
<1> QED BY <1>3, <1>4, Zenon DEF supervisor_listen

LEMMA Endpoint_start ==
  ASSUME EndpointInv, NEW e \in Endpoints, start_endpoint_plugin(e) PROVE EndpointInv'
<1> DEFINE x == [ep[e] EXCEPT !.pc = "ready", !.slot = 1 - ep[e].slot,
                        !.control = IF Listens(e) THEN "none" ELSE "run",
                        !.handle = IF Listens(e) THEN "none" ELSE "held"]
           l == live[e] \cup {1 - ep[e].slot}
<1>1. ep[e] \in Endpoint /\ live[e] \in SUBSET (0..1) /\ port[e] \in PortStates /\ ep[e].pc = "spawn"
  BY Zenon DEF EndpointInv, EndpointsTypeOK, start_endpoint_plugin, PortStates
<1>2. 1 - ep[e].slot \in 0..1
  BY <1>1, SMTT(30) DEF Endpoint
<1>3. x \in Endpoint /\ x.pc = "ready" /\ x.slot = 1 - ep[e].slot
  <2> DEFINE n == 1 - ep[e].slot
             c == IF Listens(e) THEN "none" ELSE "run"
             h == IF Listens(e) THEN "none" ELSE "held"
  <2>1. c \in {"none", "run", "ok", "err"} /\ h \in {"none", "held", "lost"} /\ n \in 0..1
    BY <1>2, Zenon
  <2>2. x = [ep[e] EXCEPT !.pc = "ready", !.slot = n, !.control = c, !.handle = h]
    OBVIOUS
  <2> HIDE DEF n, c, h, x
  <2>3. x \in Endpoint /\ x.pc = "ready" /\ x.slot = n
    BY <1>1, <2>1, <2>2, ZenonT(60) DEF Endpoint
  <2> QED BY <2>3, Zenon DEF n
<1>4. l \in SUBSET (0..1)
  BY <1>1, <1>2, Zenon
<1>5. live[e] = {}
  BY <1>1, Zenon DEF EndpointInv, Watching
<1>6. l \subseteq Watching(x)
  BY <1>3, <1>5, Zenon DEF Watching
<1>7. ASSUME ep' = [ep EXCEPT ![e] = x], live' = [live EXCEPT ![e] = l], UNCHANGED worldVars, port' = port
      PROVE EndpointInv'
  <2>1. port' = [port EXCEPT ![e] = port[e]]
    BY <1>7, Zenon DEF EndpointInv, EndpointsTypeOK
  <2> HIDE DEF x, l
  <2> QED BY <1>1, <1>3, <1>4, <1>6, <1>7, <2>1, EndpointMoves, Zenon
<1>8. ASSUME EndRun(e, "failed", "none") PROVE EndpointInv'
  BY <1>8, Endpoint_EndRun, Zenon DEF Outcomes
<1> QED BY <1>7, <1>8, Zenon DEF start_endpoint_plugin

LEMMA EndpointLoops ==
  ASSUME EndpointInv, NEW e \in Endpoints, ep[e].pc \in {"ready", "loop"}, NEW x \in Endpoint,
         ep' = [ep EXCEPT ![e] = x], x.pc = "loop", x.slot = ep[e].slot,
         UNCHANGED <<live, port>>, UNCHANGED worldVars
  PROVE EndpointInv'
<1>1. Watching(ep[e]) \subseteq Watching(x)
  BY Zenon DEF Watching
<1> QED BY <1>1, EndpointThinks, Zenon

LEMMA Endpoint_run ==
  ASSUME EndpointInv, NEW e \in Endpoints,
         wait_for_plugin_ready(e) \/ run_plugin_event_loop(e) \/ await_broker(e)
  PROVE EndpointInv'
<1>1. ep[e] \in Endpoint /\ ep[e].pc \in {"ready", "loop"}
  BY Zenon DEF EndpointInv, EndpointsTypeOK, wait_for_plugin_ready, run_plugin_event_loop, await_broker
<1>2. ep[e].handle \in {"none", "held", "lost"} /\ ep[e].control \in {"none", "run", "ok", "err"}
      /\ ep[e].exit \in {"clean", "failed", None}
  BY <1>1, Zenon DEF Endpoint
<1>5. ASSUME NEW o \in Outcomes, NEW h, EndRun(e, o, h) PROVE EndpointInv'
  BY <1>5, Endpoint_EndRun, Zenon
<1>6. CASE wait_for_plugin_ready(e)
  <2> DEFINE c == IF Listens(e) THEN "run" ELSE ep[e].control
             x == [ep[e] EXCEPT !.pc = "loop", !.event = None, !.handle = "held", !.control = c]
  <2>1. c \in {"none", "run", "ok", "err"}
    BY <1>2, Zenon
  <2>2. \/ ep' = [ep EXCEPT ![e] = x] /\ UNCHANGED <<live, port>> /\ UNCHANGED worldVars
        \/ \E o \in Outcomes, h \in {ep[e].handle} : EndRun(e, o, h)
    BY <1>2, <1>6, ZenonT(60) DEF wait_for_plugin_ready, Outcomes
  <2> HIDE DEF c
  <2>3. x \in Endpoint /\ x.pc = "loop" /\ x.slot = ep[e].slot
    BY <1>1, <2>1, ZenonT(60) DEF Endpoint
  <2> HIDE DEF x
  <2> QED BY <1>1, <1>5, <2>2, <2>3, EndpointLoops, Zenon
<1>7. CASE run_plugin_event_loop(e)
  <2>1. PICK h \in Handles(e) :
         \/ shutdown /\ EndRun(e, "shutdown", h)
         \/ ep[e].exit # None /\ EndRun(e, ep[e].exit, h)
         \/ ep[e].event \in {"failed", "closed"} /\ EndRun(e, "failed", h)
         \/ /\ ep' = [ep EXCEPT ![e] = [ep[e] EXCEPT !.event = None, !.handle = h]]
            /\ UNCHANGED <<live, port>> /\ UNCHANGED worldVars
    BY <1>7, Zenon DEF run_plugin_event_loop
  <2> DEFINE x == [ep[e] EXCEPT !.event = None, !.handle = h]
  <2>2. h \in {"none", "held", "lost"} /\ ep[e].pc = "loop"
    BY <1>2, <1>7, <2>1, Zenon DEF Handles, run_plugin_event_loop
  <2>3. x \in Endpoint /\ x.pc = "loop" /\ x.slot = ep[e].slot
    BY <1>1, <2>2, ZenonT(60) DEF Endpoint
  <2>4. \/ ep' = [ep EXCEPT ![e] = x] /\ UNCHANGED <<live, port>> /\ UNCHANGED worldVars
        \/ \E o \in Outcomes : EndRun(e, o, h)
    BY <1>2, <2>1, Zenon DEF Outcomes
  <2> HIDE DEF x
  <2> QED BY <1>1, <1>5, <2>3, <2>4, EndpointLoops, Zenon
<1>8. CASE await_broker(e)
  <2> DEFINE x == [ep[e] EXCEPT !.control = "none", !.handle = "none"]
  <2>1. ep[e].pc = "loop"
    BY <1>8, Zenon DEF await_broker
  <2>2. x \in Endpoint /\ x.pc = "loop" /\ x.slot = ep[e].slot
    BY <1>1, <2>1, ZenonT(60) DEF Endpoint
  <2>3. \/ ep' = [ep EXCEPT ![e] = x] /\ UNCHANGED <<live, port>> /\ UNCHANGED worldVars
        \/ \E o \in Outcomes, h \in {"held"} : EndRun(e, o, h)
    BY <1>8, Zenon DEF await_broker, Outcomes
  <2> HIDE DEF x
  <2> QED BY <1>1, <1>5, <2>2, <2>3, EndpointLoops, Zenon
<1> QED BY <1>6, <1>7, <1>8, Zenon

\* What the control task, a task left behind and the plugin do.
LEMMA Endpoint_others ==
  ASSUME EndpointInv, NEW e \in Endpoints,
         ControlEnds(e) \/ OrphanEnds(e) \/ PluginSays(e) \/ PluginExits(e)
  PROVE EndpointInv'
<1>1. ep[e] \in Endpoint /\ live[e] \in SUBSET (0..1) /\ port[e] \in PortStates
  BY Zenon DEF EndpointInv, EndpointsTypeOK, PortStates
<1>2. /\ Dropped \in PortStates /\ ep = [ep EXCEPT ![e] = ep[e]]
      /\ live = [live EXCEPT ![e] = live[e]] /\ port = [port EXCEPT ![e] = port[e]]
      /\ live[e] \subseteq Watching(ep[e])
  BY Zenon DEF Dropped, PortStates, EndpointInv, EndpointsTypeOK
<1>3. CASE ControlEnds(e)
  <2>1. PICK result \in {"ok", "err"} : ep' = [ep EXCEPT ![e].control = result]
    BY <1>3, Zenon DEF ControlEnds
  <2> DEFINE x == [ep[e] EXCEPT !.control = result]
             q == IF port[e] = "run" THEN Dropped ELSE port[e]
  <2>2. x \in Endpoint /\ x.pc = ep[e].pc /\ x.slot = ep[e].slot
    BY <1>1, SMTT(30) DEF Endpoint
  <2>3. ep' = [ep EXCEPT ![e] = x] /\ port' = [port EXCEPT ![e] = q] /\ live' = live /\ UNCHANGED worldVars
    BY <1>3, <2>1, Zenon DEF ControlEnds
  <2>4. q \in PortStates
    BY <1>1, <1>2, Zenon
  <2> HIDE DEF x, q
  <2>5. live[e] \subseteq Watching(x)
    BY <1>2, <2>2, Zenon DEF Watching
  <2>6. live' = [live EXCEPT ![e] = live[e]]
    BY <1>2, <2>3, Zenon
  <2> QED BY <1>1, <2>2, <2>3, <2>4, <2>5, <2>6, EndpointMoves, Zenon
<1>4. CASE OrphanEnds(e)
  <2>1. port' = [port EXCEPT ![e] = Dropped] /\ ep' = ep /\ live' = live /\ UNCHANGED worldVars
    BY <1>4, Zenon DEF OrphanEnds
  <2>2. live' = [live EXCEPT ![e] = live[e]] /\ ep' = [ep EXCEPT ![e] = ep[e]]
    BY <1>2, <2>1, Zenon
  <2> QED BY <1>1, <1>2, <2>1, <2>2, EndpointMoves, Zenon
<1>5. CASE PluginSays(e)
  <2>1. PICK event \in {"ready", "failed", "closed"} : ep' = [ep EXCEPT ![e].event = event]
    BY <1>5, Zenon DEF PluginSays
  <2> DEFINE x == [ep[e] EXCEPT !.event = event]
  <2>2. x \in Endpoint /\ x.pc = ep[e].pc /\ x.slot = ep[e].slot
    BY <1>1, SMTT(30) DEF Endpoint
  <2>3. ep' = [ep EXCEPT ![e] = x] /\ UNCHANGED <<live, port>> /\ UNCHANGED worldVars
    BY <1>5, <2>1, Zenon DEF PluginSays
  <2> HIDE DEF x
  <2>4. Watching(ep[e]) \subseteq Watching(x)
    BY <2>2, Zenon DEF Watching
  <2> QED BY <2>2, <2>3, <2>4, EndpointThinks, Zenon
<1>6. CASE PluginExits(e)
  <2>1. PICK status \in {"clean", "failed"} : ep' = [ep EXCEPT ![e].exit = status]
    BY <1>6, Zenon DEF PluginExits
  <2> DEFINE x == [ep[e] EXCEPT !.exit = status]
             l == live[e] \ {ep[e].slot}
  <2>2. x \in Endpoint
    BY <1>1, SMTT(30) DEF Endpoint
  <2>3. ep' = [ep EXCEPT ![e] = x] /\ live' = [live EXCEPT ![e] = l] /\ port' = port /\ UNCHANGED worldVars
    BY <1>6, <2>1, Zenon DEF PluginExits
  <2>4. l = {} /\ l \in SUBSET (0..1)
    BY <1>1, <1>2, Zenon DEF Watching
  <2> HIDE DEF x, l
  <2>5. port' = [port EXCEPT ![e] = port[e]] /\ l \subseteq Watching(x)
    BY <1>2, <2>3, <2>4, Zenon
  <2> QED BY <1>1, <2>2, <2>3, <2>4, <2>5, EndpointMoves, Zenon
<1> QED BY <1>3, <1>4, <1>5, <1>6, Zenon

\* Every step of the supervisor keeps the invariant.
LEMMA EndpointKeeps == ASSUME EndpointInv, [EndpointsNext]_endpointVars PROVE EndpointInv'
<1>1. ASSUME NEW e \in Endpoints, EndpointStep(e) PROVE EndpointInv'
  BY <1>1, Endpoint_supervise, Endpoint_listen, Endpoint_start, Endpoint_run, Zenon DEF EndpointStep
<1>2. ASSUME NEW e \in Endpoints,
             ControlEnds(e) \/ OrphanEnds(e) \/ PluginSays(e) \/ PluginExits(e)
      PROVE EndpointInv'
  BY <1>2, Endpoint_others, Zenon
<1>3. ASSUME UNCHANGED <<backend, config, port, live, ep>>, machine' \in BOOLEAN, shutdown' \in BOOLEAN,
             sup' \in {"waiting", "joining", "done"}
      PROVE EndpointInv'
  BY <1>3, Zenon DEF EndpointInv, EndpointsTypeOK
<1>4. CASE start_endpoint_supervisor \/ MachineStops \/ Cancel
  BY <1>3, <1>4, Zenon DEF start_endpoint_supervisor, MachineStops, Cancel, EndpointInv, EndpointsTypeOK
<1>5. CASE UNCHANGED endpointVars
  BY <1>3, <1>5, Zenon DEF endpointVars, EndpointInv, EndpointsTypeOK
<1> QED BY <1>1, <1>2, <1>4, <1>5, Zenon DEF EndpointsNext

\* One plugin at a time.
LEMMA EndpointPromise == ASSUME EndpointInv PROVE OnePlugin
<1> SUFFICES ASSUME NEW e \in Endpoints
             PROVE (\A p, q \in live[e] : p = q) /\ (~ Watched(e) => live[e] = {})
  BY Zenon DEF OnePlugin
<1>1. live[e] \subseteq Watching(ep[e])
  BY Zenon DEF EndpointInv
<1> QED BY <1>1, Zenon DEF Watching, Watched

\* For any number of endpoints: an endpoint has one live plugin at most, and none between two
\* runs, whichever way a run ended (run_endpoint_plugin, wait_for_plugin_ready,
\* run_plugin_event_loop).
THEOREM EndpointHasOnePlugin == EndpointsSpec => []OnePlugin
<1>1. EndpointsInit => EndpointInv
  BY EndpointStart, Zenon
<1>2. EndpointInv /\ [EndpointsNext]_(endpointVars) => EndpointInv'
  BY EndpointKeeps, Zenon DEF endpointVars
<1>3. EndpointInv => OnePlugin
  BY EndpointPromise, Zenon
<1> QED BY <1>1, <1>2, <1>3, PTL DEF EndpointsSpec

-----------------------------------------------------------------------------
(* PluginBroker *)

\* What the queues are made of.
LEMMA Lengths == ASSUME NEW S, NEW s \in Seq(S) PROVE Len(s) \in Nat /\ s \in [1..Len(s) -> S] /\ DOMAIN s = 1..Len(s)
  BY SMTT(30)

LEMMA Elements == ASSUME NEW S, NEW s \in Seq(S), NEW n \in 1..Len(s) PROVE s[n] \in S
  BY SMTT(30)

LEMMA Appended ==
  ASSUME NEW S, NEW s \in Seq(S), NEW x \in S
  PROVE /\ Append(s, x) \in Seq(S) /\ Len(Append(s, x)) = Len(s) + 1 /\ Append(s, x)[Len(s) + 1] = x
        /\ \A i \in 1..Len(s) : Append(s, x)[i] = s[i]
  BY SMTT(30)

LEMMA Joined ==
  ASSUME NEW S, NEW s \in Seq(S), NEW t \in Seq(S)
  PROVE /\ s \o t \in Seq(S) /\ Len(s \o t) = Len(s) + Len(t)
        /\ \A i \in 1..(Len(s) + Len(t)) : (s \o t)[i] = IF i <= Len(s) THEN s[i] ELSE t[i - Len(s)]
  BY SMTT(30)

\* Streams on their way to accept, held by the reader, in the queue and with the dispatcher
\* (busy is 1 or 0), of n connections made so far.
Order(inc, held, rep, busy, n) ==
    LET h == IF held = None THEN 0 ELSE 1
        base == n - (Len(inc) + h + Len(rep) + busy)
    IN  /\ \A i \in 1..Len(inc) : inc[i] = base + i
        /\ held # None => held = base + Len(inc) + 1
        /\ \A i \in 1..Len(rep) : rep[i].fd = base + Len(inc) + h + i

\* The next connection is taken up.
LEMMA OrderTakes ==
  ASSUME NEW S, NEW T, NEW inc \in Seq(S), NEW rep \in Seq(T), NEW held, NEW n \in Nat, Order(inc, held, rep, 0, n)
  PROVE Order(inc, held, rep, 1, n + 1)
<1>1. Len(inc) \in Nat /\ Len(rep) \in Nat
  BY Lengths, Zenon
<1> QED BY <1>1, SMTT(30) DEF Order

\* It is sent.
LEMMA OrderSends ==
  ASSUME NEW S, NEW T, NEW inc \in Seq(S), NEW rep \in Seq(T), NEW f \in T, NEW held, NEW n \in Nat,
         f.fd = n, Order(inc, held, rep, 1, n)
  PROVE Order(inc, held, Append(rep, f), 0, n)
<1>1. Len(inc) \in Nat /\ Len(rep) \in Nat
  BY Lengths, Zenon
<1>2. Len(Append(rep, f)) = Len(rep) + 1 /\ Append(rep, f)[Len(rep) + 1] = f
      /\ \A i \in 1..Len(rep) : Append(rep, f)[i] = rep[i]
  BY Appended
<1> DEFINE rest == Append(rep, f)
           h == IF held = None THEN 0 ELSE 1
<1> HIDE DEF rest
<1>3. Len(rest) = Len(rep) + 1 /\ rest[Len(rep) + 1] = f /\ \A i \in 1..Len(rep) : rest[i] = rep[i]
  BY <1>2, Zenon DEF rest
<1>7. \A i \in 1..Len(rep) : rep[i].fd = n - (Len(inc) + h + Len(rep) + 1) + Len(inc) + h + i
  BY Zenon DEF Order
<1>4. ASSUME NEW i \in 1..Len(rest) PROVE rest[i].fd = n - (Len(inc) + h + Len(rest) + 0) + Len(inc) + h + i
  <2>1. CASE i = Len(rep) + 1
    BY <1>1, <1>3, <2>1, SMTT(30)
  <2>2. CASE i \in 1..Len(rep)
    <3>1. rest[i].fd = n - (Len(inc) + h + Len(rep) + 1) + Len(inc) + h + i
      BY <1>3, <1>7, <2>2, Zenon
    <3>2. h \in {0, 1}
      BY Zenon
    <3> HIDE DEF h
    <3> QED BY <1>1, <1>3, <2>2, <3>1, <3>2, SMTT(30)
  <2>3. i = Len(rep) + 1 \/ i \in 1..Len(rep)
    BY <1>1, <1>3, SMT
  <2> QED BY <2>1, <2>2, <2>3, Zenon
<1>5. /\ \A i \in 1..Len(inc) : inc[i] = n - (Len(inc) + h + Len(rest) + 0) + i
      /\ held # None => held = n - (Len(inc) + h + Len(rest) + 0) + Len(inc) + 1
  BY <1>1, <1>3, SMTT(30) DEF Order
<1>6. Order(inc, held, rest, 0, n)
  BY <1>4, <1>5, Zenon DEF Order
<1> QED BY <1>6, Zenon DEF rest

\* The first frame of a queue and the others.
LEMMA Split ==
  ASSUME NEW S, NEW s \in Seq(S), s # <<>>
  PROVE /\ Head(s) = s[1] /\ Tail(s) \in Seq(S) /\ Len(Tail(s)) = Len(s) - 1 /\ Len(s) \in Nat \ {0}
        /\ Head(s) \in S /\ \A i \in 1..(Len(s) - 1) : Tail(s)[i] = s[i + 1]
  BY SMTT(30)

\* The reader puts it into the channel,
LEMMA OrderReads ==
  ASSUME NEW S, NEW T, NEW inc \in Seq(S), NEW rep \in Seq(T), NEW busy \in 0..1, NEW n \in Nat,
         rep # <<>>, Head(rep).fd \in S, Order(inc, None, rep, busy, n)
  PROVE Order(Append(inc, Head(rep).fd), None, Tail(rep), busy, n)
<1> DEFINE in == Append(inc, Head(rep).fd)
           rest == Tail(rep)
           base == n - (Len(inc) + 0 + Len(rep) + busy)
<1>1. Len(inc) \in Nat
  BY Lengths, Zenon
<1>2. /\ Head(rep) = rep[1] /\ Len(rest) = Len(rep) - 1 /\ Len(rep) \in Nat \ {0}
      /\ \A i \in 1..(Len(rep) - 1) : rest[i] = rep[i + 1]
  BY Split, Zenon
<1>3. Len(in) = Len(inc) + 1 /\ in[Len(inc) + 1] = Head(rep).fd /\ \A i \in 1..Len(inc) : in[i] = inc[i]
  BY Appended
<1>4. /\ \A i \in 1..Len(inc) : inc[i] = base + i
      /\ \A i \in 1..Len(rep) : rep[i].fd = base + Len(inc) + 0 + i
  BY Zenon DEF Order
<1> HIDE DEF in, rest
<1>5. base = n - (Len(in) + 0 + Len(rest) + busy)
  BY <1>1, <1>2, <1>3, SMT
<1>6. ASSUME NEW i \in 1..Len(in) PROVE in[i] = base + i
  <2>1. CASE i \in 1..Len(inc)
    BY <1>3, <1>4, <2>1, Zenon
  <2>2. CASE i = Len(inc) + 1
    <3>1. rep[1].fd = base + Len(inc) + 0 + 1
      <4>1. 1 \in 1..Len(rep)
        BY <1>2, SMT
      <4> QED BY <1>4, <4>1, Zenon
    <3> QED BY <1>1, <1>2, <1>3, <2>2, <3>1, SMT
  <2> QED BY <1>1, <1>3, <2>1, <2>2, SMT
<1>7. ASSUME NEW i \in 1..Len(rest) PROVE rest[i].fd = base + Len(in) + 0 + i
  <2>1. i \in 1..(Len(rep) - 1) /\ i + 1 \in 1..Len(rep) /\ i \in Nat
    BY <1>2, SMT
  <2>2. rest[i].fd = base + Len(inc) + 0 + (i + 1)
    BY <1>2, <1>4, <2>1, Zenon
  <2> QED BY <1>1, <1>2, <1>3, <2>1, <2>2, SMT
<1>8. Order(in, None, rest, busy, n)
  BY <1>5, <1>6, <1>7, Zenon DEF Order
<1> QED BY <1>8, Zenon DEF in, rest

\* or keeps it while that is full,
LEMMA OrderHolds ==
  ASSUME NEW S, NEW T, NEW inc \in Seq(S), NEW rep \in Seq(T), NEW busy \in 0..1, NEW n \in Nat,
         rep # <<>>, Head(rep).fd # None, Order(inc, None, rep, busy, n)
  PROVE Order(inc, Head(rep).fd, Tail(rep), busy, n)
<1> DEFINE held == Head(rep).fd
           rest == Tail(rep)
           base == n - (Len(inc) + 0 + Len(rep) + busy)
<1>1. Len(inc) \in Nat
  BY Lengths, Zenon
<1>2. /\ held = rep[1].fd /\ Len(rest) = Len(rep) - 1 /\ Len(rep) \in Nat \ {0}
      /\ \A i \in 1..(Len(rep) - 1) : rest[i] = rep[i + 1]
  BY Split, Zenon
<1>4. /\ \A i \in 1..Len(inc) : inc[i] = base + i
      /\ \A i \in 1..Len(rep) : rep[i].fd = base + Len(inc) + 0 + i
  BY Zenon DEF Order
<1> HIDE DEF held, rest
<1>5. base = n - (Len(inc) + 1 + Len(rest) + busy)
  BY <1>1, <1>2, SMT
<1>6. held = base + Len(inc) + 1
  <2>1. 1 \in 1..Len(rep)
    BY <1>2, SMT
  <2> QED BY <1>1, <1>2, <1>4, <2>1, SMT
<1>7. ASSUME NEW i \in 1..Len(rest) PROVE rest[i].fd = base + Len(inc) + 1 + i
  <2>1. i \in 1..(Len(rep) - 1) /\ i + 1 \in 1..Len(rep) /\ i \in Nat
    BY <1>2, SMT
  <2>2. rest[i].fd = base + Len(inc) + 0 + (i + 1)
    BY <1>2, <1>4, <2>1, Zenon
  <2> QED BY <1>1, <1>2, <2>1, <2>2, SMT
<1>8. Order(inc, held, rest, busy, n)
  <2>1. held # None
    BY Zenon DEF held
  <2> QED BY <1>4, <1>5, <1>6, <1>7, <2>1, Zenon DEF Order
<1> QED BY <1>8, Zenon DEF held, rest

\* and puts it into the channel later.
LEMMA OrderDelivers ==
  ASSUME NEW S, NEW T, NEW inc \in Seq(S), NEW rep \in Seq(T), NEW busy \in 0..1, NEW n \in Nat,
         NEW held \in S, held # None, Order(inc, held, rep, busy, n)
  PROVE Order(Append(inc, held), None, rep, busy, n)
<1> DEFINE in == Append(inc, held)
           base == n - (Len(inc) + 1 + Len(rep) + busy)
<1>1. Len(inc) \in Nat /\ Len(rep) \in Nat
  BY Lengths, Zenon
<1>3. Len(in) = Len(inc) + 1 /\ in[Len(inc) + 1] = held /\ \A i \in 1..Len(inc) : in[i] = inc[i]
  BY Appended
<1>4. /\ \A i \in 1..Len(inc) : inc[i] = base + i
      /\ held = base + Len(inc) + 1
      /\ \A i \in 1..Len(rep) : rep[i].fd = base + Len(inc) + 1 + i
  BY Zenon DEF Order
<1> HIDE DEF in
<1>5. base = n - (Len(in) + 0 + Len(rep) + busy)
  BY <1>1, <1>3, SMT
<1>9. base \in Int
  BY <1>1, SMT
<1> HIDE DEF base
<1>6. ASSUME NEW i \in 1..Len(in) PROVE in[i] = base + i
  <2>1. i \in 1..Len(inc) \/ i = Len(inc) + 1
    BY <1>1, <1>3, SMT
  <2>2. CASE i \in 1..Len(inc)
    BY <1>3, <1>4, <2>2, Zenon
  <2>3. CASE i = Len(inc) + 1
    <3>1. base + Len(inc) + 1 = base + i
      BY <1>1, <1>9, <2>3, SMT
    <3>2. in[i] = held
      BY <1>3, <2>3, Zenon
    <3> QED BY <1>4, <3>1, <3>2, Zenon
  <2> QED BY <2>1, <2>2, <2>3, Zenon
<1>7. ASSUME NEW i \in 1..Len(rep) PROVE rep[i].fd = base + Len(in) + 0 + i
  <2>1. base + Len(inc) + 1 + i = base + Len(in) + 0 + i
    BY <1>1, <1>3, <1>9, SMT
  <2> QED BY <1>4, <2>1, Zenon
<1>8. Order(in, None, rep, busy, n)
  BY <1>5, <1>6, <1>7, Zenon DEF Order
<1> QED BY <1>8, Zenon DEF in

\* accept takes the oldest one.
LEMMA OrderAccepts ==
  ASSUME NEW S, NEW T, NEW inc \in Seq(S), NEW rep \in Seq(T), NEW busy \in 0..1, NEW n \in Nat,
         NEW held, inc # <<>>, Order(inc, held, rep, busy, n)
  PROVE Order(Tail(inc), held, rep, busy, n)
<1> DEFINE in == Tail(inc)
           h == IF held = None THEN 0 ELSE 1
           base == n - (Len(inc) + h + Len(rep) + busy)
<1>1. Len(rep) \in Nat /\ h \in {0, 1}
  BY Lengths, Zenon
<1>2. Len(in) = Len(inc) - 1 /\ Len(inc) \in Nat \ {0} /\ \A i \in 1..(Len(inc) - 1) : in[i] = inc[i + 1]
  BY Split, Zenon
<1>4. /\ \A i \in 1..Len(inc) : inc[i] = base + i
      /\ held # None => held = base + Len(inc) + 1
      /\ \A i \in 1..Len(rep) : rep[i].fd = base + Len(inc) + h + i
  BY Zenon DEF Order
<1> DEFINE up == n - (Len(in) + h + Len(rep) + busy)
<1> HIDE DEF in, h
<1>5. up = base + 1 /\ base \in Int
  BY <1>1, <1>2, SMT
<1> HIDE DEF base, up
<1>6. ASSUME NEW i \in 1..Len(in) PROVE in[i] = up + i
  <2>1. i \in 1..(Len(inc) - 1) /\ i + 1 \in 1..Len(inc) /\ i \in Nat
    BY <1>2, SMT
  <2>2. in[i] = base + (i + 1)
    BY <1>2, <1>4, <2>1, Zenon
  <2> QED BY <1>5, <2>1, <2>2, SMT
<1>7. ASSUME NEW i \in 1..Len(rep) PROVE rep[i].fd = up + Len(in) + h + i
  <2>1. rep[i].fd = base + Len(inc) + h + i
    BY <1>4, Zenon
  <2> QED BY <1>1, <1>2, <1>5, <2>1, SMT
<1>8. held # None => held = up + Len(in) + 1
  BY <1>1, <1>2, <1>4, <1>5, SMT
<1>9. Order(in, held, rep, busy, n)
  BY <1>6, <1>7, <1>8, Zenon DEF Order, up, h
<1> QED BY <1>9, Zenon DEF in

Consecutive(s, base) == \A i \in 1..Len(s) : s[i] = base + i

\* Consecutive numbers followed by the next ones are consecutive numbers.
LEMMA RunOn ==
  ASSUME NEW U, NEW s \in Seq(U), NEW t \in Seq(U), NEW base \in Int,
         Consecutive(s, base), Consecutive(t, base + Len(s))
  PROVE s \o t \in Seq(U) /\ Len(s \o t) = Len(s) + Len(t) /\ Consecutive(s \o t, base)
<1> DEFINE u == s \o t
<1>1. /\ u \in Seq(U) /\ Len(u) = Len(s) + Len(t)
      /\ \A i \in 1..(Len(s) + Len(t)) : u[i] = IF i <= Len(s) THEN s[i] ELSE t[i - Len(s)]
  BY Joined
<1>2. Len(s) \in Nat /\ Len(t) \in Nat
  BY Lengths, Zenon
<1> HIDE DEF u
<1>3. ASSUME NEW i \in 1..Len(u) PROVE u[i] = base + i
  <2>0. i \in 1..(Len(s) + Len(t)) /\ i \in Nat
    BY <1>1, <1>2, SMT
  <2>1. CASE i <= Len(s)
    <3>1. i \in 1..Len(s) /\ u[i] = s[i]
      BY <1>1, <1>2, <2>0, <2>1, SMT
    <3> QED BY <3>1, Zenon DEF Consecutive
  <2>2. CASE ~ (i <= Len(s))
    <3>1. i - Len(s) \in 1..Len(t) /\ u[i] = t[i - Len(s)]
      BY <1>1, <1>2, <2>0, <2>2, SMT
    <3>2. u[i] = base + Len(s) + (i - Len(s))
      BY <3>1, Zenon DEF Consecutive
    <3> QED BY <1>2, <2>0, <3>2, SMT
  <2> QED BY <2>1, <2>2, Zenon
<1> QED BY <1>1, <1>3, Zenon DEF u, Consecutive

\* What is with the reader, or with the dispatcher: one stream or none.
LEMMA AtMostOne == ASSUME NEW m \in {0, 1}, NEW i \in 1..m PROVE m = 1 /\ i = 1
  BY SMT

LEMMA OneOrNone ==
  ASSUME NEW U, NEW v \in U, NEW yes \in BOOLEAN
  PROVE /\ (IF yes THEN <<v>> ELSE <<>>) \in Seq(U)
        /\ Len(IF yes THEN <<v>> ELSE <<>>) = IF yes THEN 1 ELSE 0
        /\ yes => (IF yes THEN <<v>> ELSE <<>>)[1] = v
<1>1. CASE yes
  BY <1>1, SMTT(30)
<1>2. CASE ~ yes
  BY <1>2, SMTT(30)
<1> QED BY <1>1, <1>2, Zenon

\* The streams of the frames in a queue.
LEMMA FdsOf ==
  ASSUME NEW T, NEW rep \in Seq(T), NEW U, \A i \in 1..Len(rep) : rep[i].fd \in U
  PROVE /\ [i \in 1..Len(rep) |-> rep[i].fd] \in Seq(U)
        /\ Len([i \in 1..Len(rep) |-> rep[i].fd]) = Len(rep)
        /\ \A i \in 1..Len(rep) : [j \in 1..Len(rep) |-> rep[j].fd][i] = rep[i].fd
<1> DEFINE r == [i \in 1..Len(rep) |-> rep[i].fd]
<1>1. Len(rep) \in Nat
  BY Lengths, Zenon
<1>2. r \in [1..Len(rep) -> U]
  BY Zenon
<1> HIDE DEF r
<1>3. r \in Seq(U)
  BY <1>1, <1>2, SMTT(30)
<1>4. DOMAIN r = 1..Len(rep) /\ DOMAIN r = 1..Len(r) /\ Len(r) \in Nat
  BY <1>2, <1>3, Lengths, Zenon
<1>5. Len(r) = Len(rep)
  BY <1>1, <1>4, SMTT(30)
<1> QED BY <1>3, <1>5, Zenon DEF r

\* So the streams on their way are the last ones made, in the order they were made.
LEMMA OrderShows ==
  ASSUME NEW inc, NEW U, inc \in Seq(U), NEW a \in Seq(U), NEW r \in Seq(U), NEW b \in Seq(U),
         NEW base \in Int,
         Consecutive(inc, base), Consecutive(a, base + Len(inc)), Consecutive(r, base + Len(inc) + Len(a)),
         Consecutive(b, base + Len(inc) + Len(a) + Len(r))
  PROVE /\ Len(inc \o a \o r \o b) = Len(inc) + Len(a) + Len(r) + Len(b)
        /\ inc \o a \o r \o b = [i \in 1..Len(inc \o a \o r \o b) |-> base + i]
<1>1. Len(inc) \in Nat /\ Len(a) \in Nat /\ Len(r) \in Nat /\ Len(b) \in Nat
  BY Lengths, Zenon
<1> DEFINE p == inc \o a
           q == p \o r
           way == q \o b
<1>2. p \in Seq(U) /\ Len(p) = Len(inc) + Len(a) /\ Consecutive(p, base)
  BY RunOn, Zenon
<1> HIDE DEF p
<1>3. base + Len(p) = base + Len(inc) + Len(a)
  BY <1>1, <1>2, SMT
<1>4. q \in Seq(U) /\ Len(q) = Len(p) + Len(r) /\ Consecutive(q, base)
  BY <1>2, <1>3, RunOn, Zenon
<1> HIDE DEF q
<1>6. base + Len(q) = base + Len(inc) + Len(a) + Len(r)
  BY <1>1, <1>2, <1>4, SMT
<1>7. way \in Seq(U) /\ Len(way) = Len(q) + Len(b) /\ Consecutive(way, base)
  BY <1>4, <1>6, RunOn, Zenon
<1> HIDE DEF way
<1>8. Len(way) = Len(inc) + Len(a) + Len(r) + Len(b)
  BY <1>2, <1>4, <1>7, Zenon
<1>9. way = [i \in 1..Len(way) |-> base + i]
  BY <1>7, Lengths, Zenon DEF Consecutive
<1> QED BY <1>8, <1>9, Zenon DEF p, q, way

\* Frames that vmmon sends: an answer carries the stream of its own request.
Replies == {f \in Frames :
               /\ f.kind = "connect_open_ok" => f.fd = f.id
               /\ mode = "connect" => f.kind # "listen_incoming"
               /\ mode = "listen" => f.kind = "listen_incoming" /\ f.fd \in Streams}
PluginState == [alive: BOOLEAN, reader: {"recv", "deliver", "done"}, held: Streams \cup {None},
                pending: SUBSET Streams, next: 1..(MaxStreams + 1), incoming: Seq(Streams \cup {Err})]
CallState == [pc: {"idle", "send", "wait", "done"}, id: Streams \cup {None}, result: Results]
ControlState == [pc: {"recv", "connect", "reply", "dispatch", "backoff", "ended"},
                 frame: Frames \cup {None}, conns: 0..MaxStreams]
Modes == mode \in {"connect", "listen"} /\ resets \in BOOLEAN /\ cancelled \in BOOLEAN

\* The plugin: its reader holds a stream exactly while it waits with it.
PluginInv == /\ plug \in PluginState
             /\ plug.reader = "recv" => plug.held = None
             /\ plug.reader = "deliver" => plug.held \in Streams
\* A call that asks has a request of its own, and no stream but the one of its request.
CallInv == /\ call \in [Calls -> CallState]
           /\ \A c \in Calls : call[c].pc = "send" => call[c].id \in Streams
           /\ \A c \in Calls : mode = "connect" /\ call[c].result \in Streams => call[c].result = call[c].id
\* The control task: what it is about to send.
ControlInv == /\ broker \in ControlState /\ arrived \in 0..MaxStreams /\ broker.conns <= arrived
              /\ broker.pc = "connect" => mode = "connect" /\ broker.frame \in Frames
              /\ broker.pc = "reply" => mode = "connect" /\ broker.frame \in Replies
              /\ broker.pc \in {"dispatch", "backoff"} =>
                     mode = "listen" /\ broker.frame \in Replies /\ broker.frame.fd = broker.conns
QueueInv == requests \in Seq(Frames) /\ replies \in Seq(Replies)
Busy(b) == IF b.pc \in {"dispatch", "backoff"} THEN 1 ELSE 0
Ordered == mode = "listen" /\ plug.alive /\ broker.pc # "ended" =>
               Order(plug.incoming, plug.held, replies, Busy(broker), broker.conns)
BrokerInv == Modes /\ PluginInv /\ CallInv /\ ControlInv /\ QueueInv /\ Ordered

\* Nothing has been asked for (BrokerInit).
LEMMA BrokerStart == ASSUME BrokerInit PROVE BrokerInv
<1> USE BrokerAssumption
<1> DEFINE p == [alive |-> TRUE, reader |-> "recv", held |-> None, pending |-> {}, next |-> 1, incoming |-> <<>>]
           x == [pc |-> "idle", id |-> None, result |-> None]
           b == [pc |-> "recv", frame |-> None, conns |-> 0]
<1>0. /\ plug = p /\ call = [c \in Calls |-> x] /\ broker = b /\ requests = <<>> /\ replies = <<>> /\ arrived = 0
      /\ mode \in {"connect", "listen"} /\ resets \in BOOLEAN /\ cancelled = FALSE
  BY Zenon DEF BrokerInit, PluginStarted
<1>1. p.reader = "recv" /\ p.held = None /\ p.incoming = <<>> /\ p.alive
  BY Zenon
<1>2. p \in PluginState
  <2>1. 1 \in 1..(MaxStreams + 1) /\ <<>> \in Seq(Streams \cup {Err})
    BY SMT
  <2> QED BY <2>1, Zenon DEF PluginState
<1>3. x \in CallState /\ x.result = None /\ x.pc = "idle"
  BY Zenon DEF CallState, Results
<1>4. 0 \in 0..MaxStreams /\ 0 <= 0
  BY SMT
<1>5. b \in ControlState /\ b.pc = "recv" /\ b.conns = 0
  BY <1>4, Zenon DEF ControlState
<1>6. QueueInv
  BY <1>0, SMT DEF QueueInv
<1> HIDE DEF p, x, b
<1>7. None \notin Streams
  BY Zenon DEF Streams
<1>8. PluginInv
  BY <1>0, <1>1, <1>2, Zenon DEF PluginInv
<1>9. CallInv
  BY <1>0, <1>3, <1>7, Zenon DEF CallInv
<1>10. ControlInv
  BY <1>0, <1>4, <1>5, Zenon DEF ControlInv
<1>11. Order(<<>>, None, <<>>, 0, 0)
  BY SMTT(30) DEF Order
<1>12. Ordered
  BY <1>0, <1>1, <1>5, <1>11, Zenon DEF Ordered, Busy
<1>13. Modes
  BY <1>0, Zenon DEF Modes
<1> QED BY <1>6, <1>8, <1>9, <1>10, <1>12, <1>13, Zenon DEF BrokerInv

\* What holds of the parts that a step leaves alone.
LEMMA SameModes == ASSUME Modes, UNCHANGED <<mode, resets, cancelled>> PROVE Modes'
  BY Zenon DEF Modes
LEMMA SameReplies == ASSUME mode' = mode PROVE Replies' = Replies
  BY Zenon DEF Replies
LEMMA SamePlugin == ASSUME PluginInv, plug' = plug PROVE PluginInv'
  BY Zenon DEF PluginInv
LEMMA SameCalls == ASSUME CallInv, call' = call, mode' = mode PROVE CallInv'
  BY Zenon DEF CallInv
LEMMA SameControl == ASSUME ControlInv, broker' = broker, arrived' = arrived, mode' = mode PROVE ControlInv'
  BY SameReplies, Zenon DEF ControlInv
LEMMA SameQueues == ASSUME QueueInv, requests' = requests, replies' = replies, mode' = mode PROVE QueueInv'
  BY SameReplies, Zenon DEF QueueInv
LEMMA SameOrder ==
  ASSUME Ordered, mode' = mode, broker'.pc # "ended" => broker.pc # "ended", plug'.alive => plug.alive,
         plug'.incoming = plug.incoming, plug'.held = plug.held, replies' = replies,
         Busy(broker') = Busy(broker), broker'.conns = broker.conns
  PROVE Ordered'
<1>1. mode' = "listen" /\ plug'.alive /\ broker'.pc # "ended" =>
          Order(plug'.incoming, plug'.held, replies', Busy(broker'), broker'.conns)
  BY Zenon DEF Ordered
<1> QED BY <1>1, ZenonT(60) DEF Ordered, Order, Busy

\* One call changes to x.
LEMMA CallMoves ==
  ASSUME CallInv, NEW c \in Calls, NEW x \in CallState, call' = [call EXCEPT ![c] = x], mode' = mode,
         mode = "connect" /\ x.result \in Streams => x.result = x.id,
         x.pc = "send" => x.id \in Streams
  PROVE CallInv'
<1>1. call' \in [Calls -> CallState] /\ call'[c] = x /\ \A d \in Calls \ {c} : call'[d] = call[d]
  BY Zenon DEF CallInv
<1> QED BY <1>1, Zenon DEF CallInv

\* A task asks for a stream (connect).
LEMMA Broker_connect == ASSUME BrokerInv, NEW c \in Calls, connect(c) PROVE BrokerInv'
<1> USE BrokerAssumption
<1> DEFINE x == [pc |-> "send", id |-> plug.next, result |-> None]
           up == plug.next + 1
           all == plug.pending \cup {plug.next}
           p == [plug EXCEPT !.next = up, !.pending = all]
<1>0. /\ plug.next \in Streams /\ call' = [call EXCEPT ![c] = x] /\ plug' = p
      /\ UNCHANGED <<mode, resets, cancelled, requests, replies, broker, arrived>>
  BY Zenon DEF connect
<1>1. plug \in PluginState /\ None \notin Streams
  BY Zenon DEF BrokerInv, PluginInv, Streams
<1>2. up \in 1..(MaxStreams + 1)
  BY <1>0, SMT DEF Streams
<1>3. all \in SUBSET Streams
  BY <1>0, <1>1, Zenon DEF PluginState
<1>4. x \in CallState /\ x.result = None /\ x.id = plug.next
  BY <1>0, Zenon DEF CallState, Results
<1> HIDE DEF x, up, all
<1>5. p \in PluginState /\ p.reader = plug.reader /\ p.held = plug.held /\ p.incoming = plug.incoming /\ p.alive = plug.alive
  BY <1>1, <1>2, <1>3, ZenonT(60) DEF PluginState
<1> HIDE DEF p
<1>6. PluginInv'
  BY <1>0, <1>5, Zenon DEF BrokerInv, PluginInv
<1>7. CallInv'
  BY <1>0, <1>1, <1>4, CallMoves, Zenon DEF BrokerInv
<1>8. Ordered'
  BY <1>0, <1>5, SameOrder, Zenon DEF BrokerInv
<1> QED BY <1>0, <1>6, <1>7, <1>8, SameModes, SameControl, SameQueues, Zenon DEF BrokerInv

\* Its frame is sent or refused (send_message).
LEMMA Broker_send == ASSUME BrokerInv, NEW c \in Calls, send_message(c) PROVE BrokerInv'
<1> USE BrokerAssumption
<1>0. plug \in PluginState /\ call[c] \in CallState /\ Err \notin Streams /\ call[c].pc = "send"
      /\ requests \in Seq(Frames)
  BY Zenon DEF BrokerInv, PluginInv, CallInv, Streams, send_message, QueueInv
<1>1. CASE /\ requests' = Append(requests, Frame("connect_open", call[c].id, None))
           /\ call' = [call EXCEPT ![c].pc = "wait"]
           /\ UNCHANGED <<plug, mode, resets, cancelled, replies, broker, arrived>>
           /\ call[c].id \in Streams
  <2> DEFINE x == [call[c] EXCEPT !.pc = "wait"]
             f == Frame("connect_open", call[c].id, None)
  <2>1. x \in CallState /\ x.result = call[c].result /\ x.id = call[c].id /\ x.pc = "wait"
    BY <1>0, Zenon DEF CallState
  <2>2. call' = [call EXCEPT ![c] = x] /\ requests' = Append(requests, f)
    BY <1>1, Zenon
  <2>3. f \in Frames
    BY <1>1, SMTT(30) DEF Frame, Frames
  <2> HIDE DEF x, f
  <2>4. QueueInv'
    <3>1. requests' \in Seq(Frames)
      BY <1>0, <2>2, <2>3, SMT
    <3> QED BY <1>1, <3>1, SameReplies, Zenon DEF BrokerInv, QueueInv
  <2>5. CallInv'
    BY <1>1, <2>1, <2>2, CallMoves, Zenon DEF BrokerInv, CallInv
  <2>6. Ordered'
    BY <1>1, SameOrder, Zenon DEF BrokerInv
  <2> QED BY <1>1, <2>4, <2>5, <2>6, SameModes, SamePlugin, SameControl, Zenon DEF BrokerInv
<1>2. CASE /\ plug' = [plug EXCEPT !.pending = plug.pending \ {call[c].id}]
           /\ call' = [call EXCEPT ![c] = [call[c] EXCEPT !.pc = "done", !.result = Err]]
           /\ UNCHANGED <<requests, mode, resets, cancelled, replies, broker, arrived>>
  <2> DEFINE x == [call[c] EXCEPT !.pc = "done", !.result = Err]
             left == plug.pending \ {call[c].id}
             p == [plug EXCEPT !.pending = left]
  <2>1. x \in CallState /\ x.result = Err /\ x.pc = "done"
    BY <1>0, Zenon DEF CallState, Results
  <2>2. left \in SUBSET Streams
    BY <1>0, Zenon DEF PluginState
  <2> HIDE DEF x, left
  <2>3. p \in PluginState /\ p.reader = plug.reader /\ p.held = plug.held /\ p.incoming = plug.incoming /\ p.alive = plug.alive
    BY <1>0, <2>2, ZenonT(60) DEF PluginState
  <2>4. plug' = p /\ call' = [call EXCEPT ![c] = x]
    BY <1>2, Zenon DEF left, x
  <2> HIDE DEF p
  <2>5. PluginInv'
    BY <2>3, <2>4, Zenon DEF BrokerInv, PluginInv
  <2>6. CallInv'
    BY <1>0, <1>2, <2>1, <2>4, CallMoves, Zenon DEF BrokerInv
  <2>7. Ordered'
    BY <1>2, <2>3, <2>4, SameOrder, Zenon DEF BrokerInv
  <2> QED BY <1>2, <2>5, <2>6, <2>7, SameModes, SameControl, SameQueues, Zenon DEF BrokerInv
<1>3. call[c].id \in Streams
  BY <1>0, Zenon DEF BrokerInv, CallInv
<1> QED BY <1>1, <1>2, <1>3, Zenon DEF send_message

\* accept takes the oldest stream.
LEMMA Broker_accept == ASSUME BrokerInv, NEW c \in Calls, accept(c) PROVE BrokerInv'
<1> USE BrokerAssumption
<1> DEFINE got == IF plug.incoming # <<>> THEN Head(plug.incoming) ELSE Err
           x == [pc |-> "done", id |-> None, result |-> got]
           rest == IF plug.incoming = <<>> THEN plug.incoming ELSE Tail(plug.incoming)
           p == [plug EXCEPT !.incoming = rest]
<1>0. /\ mode = "listen" /\ call' = [call EXCEPT ![c] = x] /\ plug' = p
      /\ UNCHANGED <<mode, resets, cancelled, requests, replies, broker, arrived>>
  BY Zenon DEF accept, expect_listen
<1>1. plug \in PluginState /\ plug.incoming \in Seq(Streams \cup {Err}) /\ replies \in Seq(Replies)
      /\ broker \in ControlState
  BY Zenon DEF BrokerInv, PluginInv, PluginState, QueueInv, ControlInv
<1>2. plug.incoming # <<>> => Tail(plug.incoming) \in Seq(Streams \cup {Err}) /\ Head(plug.incoming) \in Streams \cup {Err}
  BY <1>1, Split, Zenon
<1>3. got \in Results /\ rest \in Seq(Streams \cup {Err})
  BY <1>1, <1>2, Zenon DEF Results
<1>4. rest = plug.incoming \/ (plug.incoming # <<>> /\ rest = Tail(plug.incoming))
  BY Zenon
<1> HIDE DEF got, rest
<1>5. x \in CallState /\ x.pc = "done"
  BY <1>3, Zenon DEF CallState
<1>6. p \in PluginState /\ p.reader = plug.reader /\ p.held = plug.held /\ p.incoming = rest /\ p.alive = plug.alive
  BY <1>1, <1>3, ZenonT(60) DEF PluginState
<1> HIDE DEF x, p
<1>7. PluginInv'
  BY <1>0, <1>6, Zenon DEF BrokerInv, PluginInv
<1>8. CallInv'
  BY <1>0, <1>5, CallMoves, Zenon DEF BrokerInv
<1>9. Ordered'
  <2>1. CASE rest = plug.incoming
    BY <1>0, <1>6, <2>1, SameOrder, Zenon DEF BrokerInv
  <2>2. CASE plug.incoming # <<>> /\ rest = Tail(plug.incoming)
    <3>1. Busy(broker) \in 0..1 /\ broker.conns \in Nat
      BY <1>1, SMT DEF Busy, ControlState
    <3>2. Order(plug.incoming, plug.held, replies, Busy(broker), broker.conns) =>
          Order(rest, plug.held, replies, Busy(broker), broker.conns)
      BY <1>1, <2>2, <3>1, OrderAccepts, Zenon
    <3>3. mode = "listen" /\ p.alive /\ broker.pc # "ended" =>
          Order(p.incoming, p.held, replies, Busy(broker), broker.conns)
      BY <1>6, <3>2, Zenon DEF BrokerInv, Ordered
    <3> QED BY <1>0, <3>3, Zenon DEF Ordered, Busy, Order
  <2> QED BY <1>4, <2>1, <2>2, Zenon
<1> QED BY <1>0, <1>7, <1>8, <1>9, SameModes, SameControl, SameQueues, Zenon DEF BrokerInv

\* A task is through with its stream (CallAgain).
LEMMA Broker_again == ASSUME BrokerInv, NEW c \in Calls, CallAgain(c) PROVE BrokerInv'
<1> USE BrokerAssumption
<1> DEFINE x == [pc |-> "idle", id |-> None, result |-> None]
<1>0. /\ call' = [call EXCEPT ![c] = x]
      /\ UNCHANGED <<mode, resets, cancelled, requests, replies, plug, broker, arrived>>
  BY Zenon DEF CallAgain
<1>1. x \in CallState /\ x.result = None /\ x.pc = "idle" /\ None \notin Streams
  BY Zenon DEF CallState, Results, Streams
<1> HIDE DEF x
<1>2. CallInv'
  BY <1>0, <1>1, CallMoves, Zenon DEF BrokerInv
<1>3. Ordered'
  BY <1>0, SameOrder, Zenon DEF BrokerInv
<1> QED BY <1>0, <1>2, <1>3, SameModes, SamePlugin, SameControl, SameQueues, Zenon DEF BrokerInv

\* A frame is taken from the queue of answers.
LEMMA FrameTaken ==
  ASSUME BrokerInv, replies # <<>>
  PROVE /\ Head(replies) \in Replies /\ Tail(replies) \in Seq(Replies)
        /\ Head(replies).kind \in {"connect_open", "connect_open_ok", "connect_open_err", "listen_incoming"}
        /\ Head(replies).id \in Streams /\ Head(replies).fd \in Streams \cup {None}
<1>1. Head(replies) \in Replies /\ Tail(replies) \in Seq(Replies)
  BY Split, Zenon DEF BrokerInv, QueueInv
<1>2. Head(replies) \in Frames
  BY <1>1, Zenon DEF Replies
<1> QED BY <1>1, <1>2, Zenon DEF Frames

\* An answer goes to its request (satisfy_pending).
LEMMA Broker_satisfy ==
  ASSUME BrokerInv, replies # <<>>, NEW id \in Streams, NEW result \in Results,
         satisfy_pending(id, result), mode = "connect",
         result \in Streams => result = id,
         replies' = Tail(replies), UNCHANGED <<mode, resets, cancelled, requests, broker, arrived>>
  PROVE BrokerInv'
<1> DEFINE left == plug.pending \ {id}
           p == [plug EXCEPT !.pending = left]
           next(c) == IF id \in plug.pending /\ call[c].id = id
                        THEN [call[c] EXCEPT !.pc = "done", !.result = result] ELSE call[c]
<1>0. plug' = p /\ call' = [c \in Calls |-> next(c)]
  BY Zenon DEF satisfy_pending
<1>1. plug \in PluginState /\ call \in [Calls -> CallState]
  BY Zenon DEF BrokerInv, PluginInv, CallInv
<1>2. left \in SUBSET Streams
  BY <1>1, Zenon DEF PluginState
<1> HIDE DEF left
<1>3. p \in PluginState /\ p.reader = plug.reader /\ p.held = plug.held /\ p.incoming = plug.incoming /\ p.alive = plug.alive
  BY <1>1, <1>2, ZenonT(60) DEF PluginState
<1>4. \A c \in Calls :
         /\ next(c) \in CallState
         /\ next(c) = call[c] \/ (next(c).pc = "done" /\ next(c).result = result /\ next(c).id = id)
  <2> TAKE c \in Calls
  <2> DEFINE x == [call[c] EXCEPT !.pc = "done", !.result = result]
  <2>1. call[c] \in CallState
    BY <1>1, Zenon
  <2>2. x \in CallState /\ x.pc = "done" /\ x.result = result /\ x.id = call[c].id
    BY <2>1, Zenon DEF CallState
  <2>3. next(c) = call[c] \/ (next(c) = x /\ call[c].id = id)
    BY Zenon
  <2> HIDE DEF x, next
  <2> QED BY <2>1, <2>2, <2>3, ZenonT(60)
<1> HIDE DEF p, next
<1>5. CallInv'
  <2>1. call' \in [Calls -> CallState] /\ \A c \in Calls : call'[c] = next(c)
    BY <1>0, <1>4, Zenon
  <2> QED BY <1>4, <2>1, Zenon DEF BrokerInv, CallInv
<1>6. PluginInv'
  BY <1>0, <1>3, Zenon DEF BrokerInv, PluginInv
<1>7. QueueInv'
  BY FrameTaken, SameReplies, Zenon DEF BrokerInv, QueueInv
<1>8. Ordered'
  BY Zenon DEF Ordered
<1> QED BY <1>5, <1>6, <1>7, <1>8, SameModes, SameControl, Zenon DEF BrokerInv

\* A connection goes to accept, or waits with the reader (run_control_reader).
LEMMA Broker_incoming ==
  ASSUME BrokerInv, replies # <<>>, Head(replies).kind = "listen_incoming", plug.reader = "recv",
         \/ plug' = [plug EXCEPT !.incoming = Append(plug.incoming, Head(replies).fd)]
         \/ plug' = [plug EXCEPT !.reader = "deliver", !.held = Head(replies).fd],
         replies' = Tail(replies), UNCHANGED <<mode, resets, cancelled, requests, call, broker, arrived>>
  PROVE BrokerInv'
<1> USE BrokerAssumption
<1> DEFINE fd == Head(replies).fd
           more == Append(plug.incoming, fd)
<1>0. /\ plug \in PluginState /\ replies \in Seq(Replies) /\ broker \in ControlState /\ plug.held = None
      /\ plug.incoming \in Seq(Streams \cup {Err})
  BY Zenon DEF BrokerInv, PluginInv, PluginState, QueueInv, ControlInv
<1>1. mode = "listen" /\ fd \in Streams /\ fd # None
  BY FrameTaken, Zenon DEF BrokerInv, Modes, Replies, Streams
<1>2. Busy(broker) \in 0..1 /\ broker.conns \in Nat
  BY <1>0, SMT DEF Busy, ControlState
<1>3. QueueInv'
  BY FrameTaken, SameReplies, Zenon DEF BrokerInv, QueueInv
<1>4. ASSUME NEW p \in PluginState, plug' = p, p.alive = plug.alive,
             p.reader = "recv" => p.held = None, p.reader = "deliver" => p.held \in Streams,
             Order(plug.incoming, None, replies, Busy(broker), broker.conns) =>
                 Order(p.incoming, p.held, Tail(replies), Busy(broker), broker.conns)
      PROVE BrokerInv'
  <2>1. PluginInv'
    BY <1>4, Zenon DEF PluginInv
  <2>2. mode = "listen" /\ p.alive /\ broker.pc # "ended" =>
           Order(p.incoming, p.held, Tail(replies), Busy(broker), broker.conns)
    BY <1>0, <1>4, Zenon DEF BrokerInv, Ordered
  <2>3. Ordered'
    BY <1>4, <2>2, Zenon DEF Ordered, Busy, Order
  <2> QED BY <1>3, <2>1, <2>3, SameModes, SameCalls, SameControl, Zenon DEF BrokerInv
<1>5. CASE plug' = [plug EXCEPT !.incoming = more]
  <2>1. more \in Seq(Streams \cup {Err})
    BY <1>0, <1>1, SMT
  <2>2. Order(plug.incoming, None, replies, Busy(broker), broker.conns) =>
           Order(more, None, Tail(replies), Busy(broker), broker.conns)
    BY <1>0, <1>1, <1>2, OrderReads, ZenonT(60)
  <2> HIDE DEF more
  <2> DEFINE p == [plug EXCEPT !.incoming = more]
  <2>3. p \in PluginState /\ p.reader = plug.reader /\ p.held = plug.held /\ p.incoming = more /\ p.alive = plug.alive
    BY <1>0, <2>1, ZenonT(60) DEF PluginState
  <2> HIDE DEF p
  <2> QED BY <1>0, <1>4, <1>5, <2>2, <2>3, Zenon DEF p
<1>6. CASE plug' = [plug EXCEPT !.reader = "deliver", !.held = fd]
  <2>2. Order(plug.incoming, None, replies, Busy(broker), broker.conns) =>
           Order(plug.incoming, fd, Tail(replies), Busy(broker), broker.conns)
    BY <1>0, <1>1, <1>2, OrderHolds, Zenon
  <2> HIDE DEF fd
  <2> DEFINE p == [plug EXCEPT !.reader = "deliver", !.held = fd]
  <2>3. p \in PluginState /\ p.reader = "deliver" /\ p.held = fd /\ p.incoming = plug.incoming /\ p.alive = plug.alive
    BY <1>0, <1>1, ZenonT(60) DEF PluginState
  <2> HIDE DEF p
  <2> QED BY <1>1, <1>4, <1>6, <2>2, <2>3, Zenon DEF p
<1> QED BY <1>5, <1>6, Zenon

\* The reader takes a frame (run_control_reader).
LEMMA Broker_reader == ASSUME BrokerInv, run_control_reader PROVE BrokerInv'
<1> USE BrokerAssumption
<1> DEFINE f == Head(replies)
<1>0. /\ plug.reader = "recv" /\ replies # <<>> /\ replies' = Tail(replies)
      /\ UNCHANGED <<mode, resets, cancelled, requests, broker, arrived>>
  BY Zenon DEF run_control_reader
<1>1. /\ f \in Replies /\ f.id \in Streams /\ f.fd \in Results /\ Err \in Results /\ Err \notin Streams
  BY <1>0, FrameTaken, Zenon DEF Results, Streams
<1>2. CASE f.kind = "connect_open_ok" /\ satisfy_pending(f.id, f.fd)
  <2>1. f.fd = f.id /\ mode = "connect"
    BY <1>1, <1>2, Zenon DEF Replies, BrokerInv, Modes
  <2> QED BY <1>0, <1>1, <1>2, <2>1, Broker_satisfy, Zenon
<1>3. CASE f.kind = "connect_open_err" /\ satisfy_pending(f.id, Err)
  <2>1. mode = "connect"
    BY <1>1, <1>3, Zenon DEF Replies, BrokerInv, Modes
  <2> QED BY <1>0, <1>1, <1>3, <2>1, Broker_satisfy, Zenon
<1>4. CASE /\ f.kind = "listen_incoming"
           /\ plug' = IF Len(plug.incoming) < Incoming
                        THEN [plug EXCEPT !.incoming = Append(plug.incoming, f.fd)]
                        ELSE [plug EXCEPT !.reader = "deliver", !.held = f.fd]
           /\ UNCHANGED call
  <2>1. \/ plug' = [plug EXCEPT !.incoming = Append(plug.incoming, f.fd)]
        \/ plug' = [plug EXCEPT !.reader = "deliver", !.held = f.fd]
    BY <1>4, Zenon
  <2> QED BY <1>0, <1>4, <2>1, Broker_incoming, Zenon
<1> QED BY <1>2, <1>3, <1>4, Zenon DEF run_control_reader

\* The stream that the reader held is handed over (deliver_incoming).
LEMMA Broker_deliver == ASSUME BrokerInv, deliver_incoming PROVE BrokerInv'
<1> USE BrokerAssumption
<1> DEFINE more == Append(plug.incoming, plug.held)
           p == [plug EXCEPT !.incoming = more, !.held = None, !.reader = "recv"]
<1>0. /\ plug.reader = "deliver" /\ plug' = p
      /\ UNCHANGED <<mode, resets, cancelled, requests, replies, call, broker, arrived>>
  BY Zenon DEF deliver_incoming
<1>1. /\ plug \in PluginState /\ replies \in Seq(Replies) /\ broker \in ControlState /\ plug.held \in Streams
      /\ plug.incoming \in Seq(Streams \cup {Err}) /\ plug.held # None
  BY <1>0, Zenon DEF BrokerInv, PluginInv, PluginState, QueueInv, ControlInv, Streams
<1>2. Busy(broker) \in 0..1 /\ broker.conns \in Nat
  BY <1>1, SMT DEF Busy, ControlState
<1>3. more \in Seq(Streams \cup {Err})
  BY <1>1, SMT
<1>4. Order(plug.incoming, plug.held, replies, Busy(broker), broker.conns) =>
        Order(more, None, replies, Busy(broker), broker.conns)
  BY <1>1, <1>2, OrderDelivers, Zenon
<1> HIDE DEF more
<1>5. p \in PluginState /\ p.reader = "recv" /\ p.held = None /\ p.incoming = more /\ p.alive = plug.alive
  BY <1>1, <1>3, ZenonT(60) DEF PluginState
<1> HIDE DEF p
<1>6. PluginInv'
  BY <1>0, <1>5, Zenon DEF PluginInv
<1>7. mode = "listen" /\ p.alive /\ broker.pc # "ended" => Order(p.incoming, p.held, replies, Busy(broker), broker.conns)
  BY <1>4, <1>5, Zenon DEF BrokerInv, Ordered
<1>8. Ordered'
  BY <1>0, <1>7, Zenon DEF Ordered, Busy, Order
<1> QED BY <1>0, <1>6, <1>8, SameModes, SameCalls, SameControl, SameQueues, Zenon DEF BrokerInv

\* The read fails (fail_all_pending).
LEMMA Broker_fail == ASSUME BrokerInv, fail_all_pending PROVE BrokerInv'
<1> USE BrokerAssumption
<1> DEFINE more == Append(plug.incoming, Err)
           p == [plug EXCEPT !.pending = {}, !.reader = "done", !.incoming = more]
           next(c) == IF call[c].pc \in {"send", "wait"} /\ call[c].id \in plug.pending
                        THEN [call[c] EXCEPT !.pc = "done", !.result = Err] ELSE call[c]
<1>0. /\ broker.pc = "ended" /\ plug' = p /\ call' = [c \in Calls |-> next(c)]
      /\ UNCHANGED <<mode, resets, cancelled, requests, replies, broker, arrived>>
  BY Zenon DEF fail_all_pending
<1>1. plug \in PluginState /\ plug.incoming \in Seq(Streams \cup {Err}) /\ call \in [Calls -> CallState] /\ Err \notin Streams
  BY Zenon DEF BrokerInv, PluginInv, PluginState, CallInv, Streams
<1>2. more \in Seq(Streams \cup {Err})
  BY <1>1, SMT
<1> HIDE DEF more
<1>3. p \in PluginState /\ p.reader = "done"
  BY <1>1, <1>2, ZenonT(60) DEF PluginState
<1>4. \A c \in Calls :
         next(c) \in CallState /\ (next(c) = call[c] \/ (next(c).pc = "done" /\ next(c).result = Err))
  <2> TAKE c \in Calls
  <2> DEFINE x == [call[c] EXCEPT !.pc = "done", !.result = Err]
  <2>1. call[c] \in CallState
    BY <1>1, Zenon
  <2>2. x \in CallState /\ x.pc = "done" /\ x.result = Err
    BY <2>1, Zenon DEF CallState, Results
  <2>3. next(c) = call[c] \/ next(c) = x
    BY Zenon
  <2> HIDE DEF x, next
  <2> QED BY <2>1, <2>2, <2>3, ZenonT(60)
<1> HIDE DEF p, next
<1>5. CallInv'
  <2>1. call' \in [Calls -> CallState] /\ \A c \in Calls : call'[c] = next(c)
    BY <1>0, <1>4, Zenon
  <2> QED BY <1>0, <1>1, <1>4, <2>1, Zenon DEF BrokerInv, CallInv
<1>6. PluginInv'
  BY <1>0, <1>3, Zenon DEF PluginInv
<1>7. Ordered'
  BY <1>0, Zenon DEF Ordered
<1> QED BY <1>0, <1>5, <1>6, <1>7, SameModes, SameControl, SameQueues, Zenon DEF BrokerInv

\* The control task is over (Ended).
LEMMA EndedIs == ASSUME BrokerInv
                 PROVE Ended \in ControlState /\ Ended.pc = "ended" /\ Ended.conns = broker.conns
<1>1. broker.conns \in 0..MaxStreams
  BY Zenon DEF BrokerInv, ControlInv, ControlState
<1> QED BY <1>1, Zenon DEF Ended, ControlState

LEMMA Broker_ends ==
  ASSUME BrokerInv, broker' = Ended \/ (broker.pc = "ended" /\ broker' = broker),
         plug' = plug \/ plug' = [plug EXCEPT !.alive = FALSE],
         requests' = requests \/ requests' = <<>>, replies' = replies \/ replies' = <<>>,
         UNCHANGED <<mode, resets, cancelled, call, arrived>>
  PROVE BrokerInv'
<1>0. broker' \in ControlState /\ broker'.pc = "ended" /\ broker'.conns = broker.conns
  BY EndedIs, Zenon DEF BrokerInv, ControlInv
<1>1. ControlInv'
  BY <1>0, Zenon DEF BrokerInv, ControlInv
<1>2. PluginInv'
  <2>1. plug \in PluginState
    BY Zenon DEF BrokerInv, PluginInv
  <2> DEFINE p == [plug EXCEPT !.alive = FALSE]
  <2>2. p \in PluginState /\ p.reader = plug.reader /\ p.held = plug.held
    BY <2>1, ZenonT(60) DEF PluginState
  <2>3. plug' = plug \/ plug' = p
    BY Zenon
  <2> HIDE DEF p
  <2> QED BY <2>1, <2>2, <2>3, Zenon DEF BrokerInv, PluginInv
<1>3. QueueInv'
  <2>1. <<>> \in Seq(Frames) /\ <<>> \in Seq(Replies)
    BY SMT
  <2> QED BY <2>1, SameReplies, Zenon DEF BrokerInv, QueueInv
<1>4. Ordered'
  BY <1>0, Zenon DEF Ordered
<1> QED BY <1>1, <1>2, <1>3, <1>4, SameModes, SameCalls, Zenon DEF BrokerInv

\* The broker takes up a request (recv_message).
LEMMA Broker_recv == ASSUME BrokerInv, recv_message PROVE BrokerInv'
<1>0. UNCHANGED <<mode, resets, cancelled, replies, plug, call, arrived>> /\ mode = "connect" /\ broker \in ControlState
      /\ requests \in Seq(Frames)
  BY Zenon DEF recv_message, BrokerInv, ControlInv, QueueInv
<1>1. CASE requests # <<>> /\ broker' = [broker EXCEPT !.pc = "connect", !.frame = Head(requests)] /\ requests' = Tail(requests)
  <2> DEFINE f == Head(requests)
             b == [broker EXCEPT !.pc = "connect", !.frame = f]
  <2>1. f \in Frames /\ Tail(requests) \in Seq(Frames)
    BY <1>0, <1>1, Split, Zenon
  <2> HIDE DEF f
  <2>2. b \in ControlState /\ b.pc = "connect" /\ b.frame = f /\ b.conns = broker.conns
    BY <1>0, <2>1, Zenon DEF ControlState
  <2>3. broker' = b
    BY <1>1, Zenon DEF f
  <2> HIDE DEF b
  <2>4. ControlInv'
    BY <1>0, <2>1, <2>2, <2>3, Zenon DEF BrokerInv, ControlInv
  <2>5. QueueInv'
    BY <1>0, <1>1, <2>1, SameReplies, Zenon DEF BrokerInv, QueueInv
  <2>6. Ordered'
    BY <1>0, Zenon DEF Ordered
  <2> QED BY <1>0, <2>4, <2>5, <2>6, SameModes, SamePlugin, SameCalls, Zenon DEF BrokerInv
<1>2. CASE broker' = Ended /\ UNCHANGED requests
  BY <1>0, <1>2, Broker_ends, Zenon
<1> QED BY <1>1, <1>2, Zenon DEF recv_message

\* It has a stream or an error for the one who asked (connect_vsock).
LEMMA Broker_vsock == ASSUME BrokerInv, connect_vsock PROVE BrokerInv'
<1>0. /\ UNCHANGED <<mode, resets, cancelled, requests, replies, plug, call, arrived>> /\ broker \in ControlState
      /\ mode = "connect" /\ broker.frame \in Frames /\ broker.frame.id \in Streams
  BY Zenon DEF connect_vsock, BrokerInv, ControlInv, Frames
<1> DEFINE id == broker.frame.id
<1>1. ASSUME NEW k \in {"connect_open_ok", "connect_open_err"}, NEW fd \in {id, None}, k = "connect_open_ok" => fd = id,
             broker' = [broker EXCEPT !.pc = "reply", !.frame = Frame(k, id, fd)]
      PROVE BrokerInv'
  <2> DEFINE f == Frame(k, id, fd)
             b == [broker EXCEPT !.pc = "reply", !.frame = f]
  <2>1. f \in Frames /\ f.kind = k /\ f.id = id /\ f.fd = fd
    BY <1>0, <1>1, Zenon DEF Frames, Frame
  <2> HIDE DEF f
  <2>2. f \in Replies
    BY <1>0, <1>1, <2>1, Zenon DEF Replies
  <2>3. b \in ControlState /\ b.pc = "reply" /\ b.frame = f /\ b.conns = broker.conns
    BY <1>0, <2>1, Zenon DEF ControlState
  <2>4. broker' = b
    BY <1>1, Zenon DEF f
  <2> HIDE DEF b
  <2>5. ControlInv'
    BY <1>0, <2>2, <2>3, <2>4, SameReplies, Zenon DEF BrokerInv, ControlInv
  <2>6. Ordered'
    BY <1>0, Zenon DEF Ordered
  <2> QED BY <1>0, <2>5, <2>6, SameModes, SamePlugin, SameCalls, SameQueues, Zenon DEF BrokerInv
<1>2. CASE broker' = Ended
  BY <1>0, <1>2, Broker_ends, Zenon
<1>3. \/ broker' = [broker EXCEPT !.pc = "reply", !.frame = Frame("connect_open_ok", id, id)]
      \/ broker' = [broker EXCEPT !.pc = "reply", !.frame = Frame("connect_open_err", id, None)]
      \/ broker' = Ended
  BY Zenon DEF connect_vsock
<1> HIDE DEF id
<1> QED BY <1>1, <1>2, <1>3, Zenon

\* A frame is sent to the plugin (send_reply, send_incoming_conn_with_retry).
LEMMA Broker_sends ==
  ASSUME BrokerInv, broker.pc \in {"reply", "dispatch"}, replies' = Append(replies, broker.frame),
         broker' = [broker EXCEPT !.pc = "recv", !.frame = None],
         UNCHANGED <<mode, resets, cancelled, requests, plug, call, arrived>>
  PROVE BrokerInv'
<1> DEFINE b == [broker EXCEPT !.pc = "recv", !.frame = None]
<1>0. /\ broker \in ControlState /\ replies \in Seq(Replies) /\ broker.frame \in Replies
      /\ plug.incoming \in Seq(Streams \cup {Err})
  BY Zenon DEF BrokerInv, ControlInv, QueueInv, PluginInv, PluginState
<1>1. b \in ControlState /\ b.pc = "recv" /\ b.conns = broker.conns
  BY <1>0, Zenon DEF ControlState
<1> HIDE DEF b
<1>2. broker' = b
  BY Zenon DEF b
<1>3. ControlInv'
  BY <1>1, <1>2, Zenon DEF BrokerInv, ControlInv
<1>4. QueueInv'
  <2>1. replies' \in Seq(Replies)
    BY <1>0, SMT
  <2> QED BY <2>1, SameReplies, Zenon DEF BrokerInv, QueueInv
<1>5. Ordered'
  <2>1. CASE broker.pc = "reply"
    BY <2>1, Zenon DEF BrokerInv, ControlInv, Ordered
  <2>2. CASE broker.pc = "dispatch"
    <3>1. broker.frame.fd = broker.conns /\ Busy(broker) = 1 /\ Busy(b) = 0
      BY <1>1, <2>2, Zenon DEF BrokerInv, ControlInv, Busy
    <3>2. broker.conns \in Nat
      BY <1>0, SMT DEF ControlState
    <3>3. Order(plug.incoming, plug.held, replies, 1, broker.conns) =>
          Order(plug.incoming, plug.held, Append(replies, broker.frame), 0, broker.conns)
      BY <1>0, <3>1, <3>2, OrderSends, Zenon
    <3>4. mode = "listen" /\ plug.alive =>
          Order(plug.incoming, plug.held, Append(replies, broker.frame), Busy(b), b.conns)
      BY <1>1, <2>2, <3>1, <3>3, Zenon DEF BrokerInv, Ordered
    <3> QED BY <1>2, <3>4, ZenonT(60) DEF Ordered, Busy, Order
  <2> QED BY <2>1, <2>2, Zenon
<1> QED BY <1>3, <1>4, <1>5, SameModes, SamePlugin, SameCalls, Zenon DEF BrokerInv

LEMMA Broker_reply == ASSUME BrokerInv, send_reply PROVE BrokerInv'
<1>1. UNCHANGED <<mode, resets, cancelled, requests, plug, call, arrived>> /\ broker.pc = "reply"
  BY Zenon DEF send_reply
<1>2. CASE replies' = Append(replies, broker.frame) /\ broker' = [broker EXCEPT !.pc = "recv", !.frame = None]
  BY <1>1, <1>2, Broker_sends, Zenon
<1>3. CASE broker' = Ended /\ UNCHANGED replies
  BY <1>1, <1>3, Broker_ends, Zenon
<1> QED BY <1>2, <1>3, Zenon DEF send_reply

\* The dispatcher waits with its frame and tries again.
LEMMA Broker_waits ==
  ASSUME BrokerInv, broker.pc \in {"dispatch", "backoff"}, NEW pc \in {"dispatch", "backoff"},
         broker' = [broker EXCEPT !.pc = pc],
         UNCHANGED <<mode, resets, cancelled, requests, replies, plug, call, arrived>>
  PROVE BrokerInv'
<1> DEFINE b == [broker EXCEPT !.pc = pc]
<1>0. broker \in ControlState
  BY Zenon DEF BrokerInv, ControlInv
<1>1. b \in ControlState /\ b.pc = pc /\ b.conns = broker.conns /\ b.frame = broker.frame
  BY <1>0, Zenon DEF ControlState
<1> HIDE DEF b
<1>2. broker' = b
  BY Zenon DEF b
<1>3. ControlInv'
  BY <1>1, <1>2, SameReplies, Zenon DEF BrokerInv, ControlInv
<1>4. Busy(broker') = Busy(broker)
  BY <1>1, <1>2, Zenon DEF Busy
<1>5. Ordered'
  BY <1>1, <1>2, <1>4, SameOrder, Zenon DEF BrokerInv
<1> QED BY <1>3, <1>5, SameModes, SamePlugin, SameCalls, SameQueues, Zenon DEF BrokerInv

LEMMA Broker_incoming_conn == ASSUME BrokerInv, send_incoming_conn_with_retry \/ retry_backoff PROVE BrokerInv'
<1>1. UNCHANGED <<mode, resets, cancelled, requests, plug, call, arrived>> /\ broker.pc \in {"dispatch", "backoff"}
  BY Zenon DEF send_incoming_conn_with_retry, retry_backoff
<1>2. CASE broker.pc = "dispatch" /\ replies' = Append(replies, broker.frame) /\ broker' = [broker EXCEPT !.pc = "recv", !.frame = None]
  BY <1>1, <1>2, Broker_sends, Zenon
<1>3. CASE broker' = Ended /\ UNCHANGED replies
  BY <1>1, <1>3, Broker_ends, Zenon
<1>4. CASE UNCHANGED replies /\ \E pc \in {"dispatch", "backoff"} : broker' = [broker EXCEPT !.pc = pc]
  BY <1>1, <1>4, Broker_waits, Zenon
<1> QED BY <1>2, <1>3, <1>4, Zenon DEF send_incoming_conn_with_retry, retry_backoff

\* The dispatcher takes the next connection (run_listen_dispatch).
LEMMA Broker_dispatch == ASSUME BrokerInv, run_listen_dispatch PROVE BrokerInv'
<1> USE BrokerAssumption
<1>0. /\ UNCHANGED <<mode, resets, cancelled, requests, replies, plug, call, arrived>> /\ broker \in ControlState
      /\ broker.pc = "recv" /\ mode = "listen" /\ arrived \in 0..MaxStreams /\ broker.conns \in 0..MaxStreams
      /\ plug.incoming \in Seq(Streams \cup {Err}) /\ replies \in Seq(Replies)
  BY Zenon DEF run_listen_dispatch, BrokerInv, ControlInv, ControlState, PluginInv, PluginState, QueueInv
<1>1. CASE broker' = Ended
  BY <1>0, <1>1, Broker_ends, Zenon
<1>2. CASE /\ broker.conns < arrived
           /\ broker' = [broker EXCEPT !.pc = "dispatch", !.conns = broker.conns + 1,
                            !.frame = Frame("listen_incoming", broker.conns + 1, broker.conns + 1)]
  <2> DEFINE k == broker.conns + 1
             f == Frame("listen_incoming", k, k)
             b == [broker EXCEPT !.pc = "dispatch", !.conns = k, !.frame = f]
  <2>1. k \in 0..MaxStreams /\ k \in 1..MaxStreams /\ k <= arrived
    BY <1>0, <1>2, SMT
  <2>2. broker' = b
    BY <1>2, Zenon
  <2> HIDE DEF k
  <2>3. k \in Streams
    BY <2>1, Zenon DEF Streams
  <2>4. f \in Frames /\ f.kind = "listen_incoming" /\ f.fd = k /\ f.id = k
    BY <2>3, Zenon DEF Frame, Frames
  <2> HIDE DEF f
  <2>5. f \in Replies
    BY <1>0, <2>3, <2>4, Zenon DEF Replies
  <2>6. b \in ControlState /\ b.pc = "dispatch" /\ b.frame = f /\ b.conns = k
    BY <1>0, <2>1, <2>4, Zenon DEF ControlState
  <2> HIDE DEF b
  <2>7. ControlInv'
    BY <1>0, <2>1, <2>2, <2>4, <2>5, <2>6, SameReplies, Zenon DEF BrokerInv, ControlInv
  <2>8. Ordered'
    <3>1. Busy(broker) = 0 /\ Busy(b) = 1
      BY <1>0, <2>6, Zenon DEF Busy
    <3>2. broker.conns \in Nat
      BY <1>0, SMT
    <3>3. Order(plug.incoming, plug.held, replies, 0, broker.conns) =>
          Order(plug.incoming, plug.held, replies, 1, k)
      BY <1>0, <3>2, OrderTakes, Zenon DEF k
    <3>4. plug.alive => Order(plug.incoming, plug.held, replies, Busy(b), b.conns)
      BY <1>0, <2>6, <3>1, <3>3, Zenon DEF BrokerInv, Ordered
    <3> QED BY <1>0, <2>2, <3>4, ZenonT(60) DEF Ordered, Busy, Order
  <2> QED BY <1>0, <2>7, <2>8, SameModes, SamePlugin, SameCalls, SameQueues, Zenon DEF BrokerInv
<1> QED BY <1>1, <1>2, Zenon DEF run_listen_dispatch

\* The guest connects, vmmon is cancelled, the plugin exits or its run ends.
LEMMA Broker_around ==
  ASSUME BrokerInv, GuestConnects \/ BrokerCancel \/ PluginDies \/ SupervisorEnds PROVE BrokerInv'
<1> USE BrokerAssumption
<1>1. CASE GuestConnects
  <2>0. arrived < MaxStreams /\ arrived' = arrived + 1 /\ arrived \in 0..MaxStreams /\ broker.conns <= arrived
        /\ broker.conns \in 0..MaxStreams /\ UNCHANGED <<mode, resets, cancelled, requests, replies, plug, call, broker>>
    BY <1>1, Zenon DEF GuestConnects, BrokerInv, ControlInv, ControlState
  <2>1. arrived' \in 0..MaxStreams /\ broker.conns <= arrived'
    BY <2>0, SMT
  <2>2. ControlInv'
    BY <2>0, <2>1, SameReplies, Zenon DEF BrokerInv, ControlInv
  <2>3. Ordered'
    BY <2>0, SameOrder, Zenon DEF BrokerInv
  <2> QED BY <2>0, <2>2, <2>3, SameModes, SamePlugin, SameCalls, SameQueues, Zenon DEF BrokerInv
<1>2. CASE BrokerCancel
  <2>0. cancelled' = TRUE /\ UNCHANGED <<mode, resets, requests, replies, plug, call, broker, arrived>>
    BY <1>2, Zenon DEF BrokerCancel
  <2>1. Modes'
    BY <2>0, Zenon DEF BrokerInv, Modes
  <2>2. Ordered'
    BY <2>0, SameOrder, Zenon DEF BrokerInv
  <2> QED BY <2>0, <2>1, <2>2, SamePlugin, SameCalls, SameControl, SameQueues, Zenon DEF BrokerInv
<1>3. CASE PluginDies
  <2> DEFINE p == [plug EXCEPT !.alive = FALSE]
  <2>0. plug' = p /\ replies' = <<>> /\ UNCHANGED <<mode, resets, cancelled, requests, call, broker, arrived>>
        /\ plug \in PluginState
    BY <1>3, Zenon DEF PluginDies, BrokerInv, PluginInv
  <2>1. p \in PluginState /\ p.reader = plug.reader /\ p.held = plug.held /\ p.alive = FALSE
    BY <2>0, ZenonT(60) DEF PluginState
  <2> HIDE DEF p
  <2>2. PluginInv'
    BY <2>0, <2>1, Zenon DEF BrokerInv, PluginInv
  <2>3. QueueInv'
    <3>1. <<>> \in Seq(Replies)
      BY SMT
    <3> QED BY <2>0, <3>1, SameReplies, Zenon DEF BrokerInv, QueueInv
  <2>4. Ordered'
    BY <2>0, <2>1, Zenon DEF Ordered
  <2> QED BY <2>0, <2>2, <2>3, <2>4, SameModes, SameCalls, SameControl, Zenon DEF BrokerInv
<1>4. CASE SupervisorEnds
  BY <1>4, Broker_ends, Zenon DEF SupervisorEnds
<1> QED BY <1>1, <1>2, <1>3, <1>4, Zenon

\* Every step of the plugin and of vmmon keeps the invariant.
LEMMA BrokerKeeps == ASSUME BrokerInv, [BrokerNext]_brokerVars PROVE BrokerInv'
<1>1. CASE UNCHANGED brokerVars
  <2>0. UNCHANGED <<mode, resets, cancelled>> /\ UNCHANGED <<requests, replies, plug, call, broker, arrived>>
    BY <1>1, Zenon DEF brokerVars
  <2>1. Ordered'
    BY <2>0, SameOrder, Zenon DEF BrokerInv
  <2> QED BY <2>0, <2>1, SameModes, SamePlugin, SameCalls, SameControl, SameQueues, Zenon DEF BrokerInv
<1>2. CASE \E c \in Calls : PluginStep(c)
  BY <1>2, Broker_connect, Broker_send, Broker_accept, Broker_again, Zenon DEF PluginStep
<1>3. CASE ReaderStep
  BY <1>3, Broker_reader, Broker_deliver, Broker_fail, Zenon DEF ReaderStep
<1>4. CASE BrokerStep
  BY <1>4, Broker_recv, Broker_vsock, Broker_reply, Broker_incoming_conn, Broker_dispatch, Zenon DEF BrokerStep
<1> QED BY <1>1, <1>2, <1>3, <1>4, Broker_around, Zenon DEF BrokerNext

\* What the invariant says of the streams.
LEMMA BrokerPromises == ASSUME BrokerInv PROVE BrokerTypeOK /\ AnswerIsMine /\ ConnectionsInOrder
<1> USE BrokerAssumption
<1>1. AnswerIsMine
  BY Zenon DEF BrokerInv, CallInv, AnswerIsMine
<1>2. BrokerTypeOK
  <2>1. \A i \in DOMAIN requests : requests[i] \in Frames
    BY SMT DEF BrokerInv, QueueInv
  <2>2. \A i \in DOMAIN replies : replies[i] \in Frames
    <3>1. Replies \subseteq Frames
      BY Zenon DEF Replies
    <3>2. \A i \in DOMAIN replies : replies[i] \in Replies
      BY SMT DEF BrokerInv, QueueInv
    <3> QED BY <3>1, <3>2, Zenon
  <2>3. plug.reader \in {"recv", "deliver", "done"} /\ plug.pending \subseteq Streams
    BY Zenon DEF BrokerInv, PluginInv, PluginState
  <2>4. \A c \in Calls : call[c].pc \in {"idle", "send", "wait", "done"} /\ call[c].result \in Results
    BY Zenon DEF BrokerInv, CallInv, CallState
  <2>5. broker.pc \in {"recv", "connect", "reply", "dispatch", "backoff", "ended"} /\ broker.frame \in Frames \cup {None}
    BY Zenon DEF BrokerInv, ControlInv, ControlState
  <2> QED BY <2>1, <2>2, <2>3, <2>4, <2>5, Zenon DEF BrokerInv, Modes, ControlInv, BrokerTypeOK
<1>3. ASSUME mode = "listen", plug.alive, broker.pc # "ended"
      PROVE OnTheirWay = [i \in 1..Len(OnTheirWay) |-> broker.conns - Len(OnTheirWay) + i]
  <2> DEFINE S == Streams \cup {Err, None}
             busy == broker.pc \in {"dispatch", "backoff"}
             holds == ~ (plug.held = None)
             inc == plug.incoming
             a == IF holds THEN <<plug.held>> ELSE <<>>
             r == [i \in 1..Len(replies) |-> replies[i].fd]
             b == IF busy THEN <<broker.frame.fd>> ELSE <<>>
             U == S \cup {broker.frame.fd}
             n == broker.conns
             base == n - (Len(inc) + (IF plug.held = None THEN 0 ELSE 1) + Len(replies) + Busy(broker))
  <2>0. /\ inc \in Seq(Streams \cup {Err}) /\ replies \in Seq(Replies) /\ plug.held \in U
        /\ broker \in ControlState /\ Order(inc, plug.held, replies, Busy(broker), n)
        /\ busy => broker.frame.fd = n
    BY <1>3, Zenon DEF BrokerInv, PluginInv, PluginState, QueueInv, ControlInv, Ordered
  <2>1. inc \in Seq(U) /\ Len(inc) \in Nat /\ Len(replies) \in Nat
    BY <2>0, SMTT(30)
  <2>2. n \in Nat
    BY <2>0, SMT DEF ControlState
  <2>3. a \in Seq(U) /\ Len(a) = (IF holds THEN 1 ELSE 0) /\ (holds => a[1] = plug.held)
    BY <2>0, OneOrNone, Zenon
  <2>4. b \in Seq(U) /\ Len(b) = (IF busy THEN 1 ELSE 0) /\ (busy => b[1] = broker.frame.fd)
    BY OneOrNone, Zenon
  <2>5. r \in Seq(U) /\ Len(r) = Len(replies) /\ \A i \in 1..Len(replies) : r[i] = replies[i].fd
    <3>1. \A i \in 1..Len(replies) : replies[i] \in Replies
      BY <2>0, Elements, Zenon
    <3>2. \A i \in 1..Len(replies) : replies[i].fd \in U
      BY <3>1, Zenon DEF Replies, Frames
    <3> QED BY <2>0, <3>2, FdsOf, Zenon
  <2>6. Len(a) = (IF plug.held = None THEN 0 ELSE 1) /\ Len(b) = Busy(broker)
    BY <2>3, <2>4, Zenon DEF Busy
  <2>7. /\ \A i \in 1..Len(inc) : inc[i] = base + i
        /\ plug.held # None => plug.held = base + Len(inc) + 1
        /\ \A i \in 1..Len(replies) : replies[i].fd = base + Len(inc) + (IF plug.held = None THEN 0 ELSE 1) + i
    BY <2>0, Zenon DEF Order
  <2>8. OnTheirWay = inc \o a \o r \o b
    BY Zenon DEF OnTheirWay
  <2>9. base = n - (Len(inc) + Len(a) + Len(r) + Len(b))
    BY <2>5, <2>6, Zenon
  <2>10. Len(a) \in {0, 1} /\ Len(b) \in {0, 1}
    BY <2>3, <2>4, Zenon
  <2>19. (Len(a) = 1 => holds) /\ (Len(b) = 1 => busy)
    <3>1. 0 # 1
      BY SMT
    <3> QED BY <2>3, <2>4, <3>1, Zenon
  <2>11. Consecutive(inc, base)
    BY <2>7, Zenon DEF Consecutive
  <2> HIDE DEF base, a, r, b, inc, U, n, busy, holds
  <2>12. base \in Int
    BY <2>1, <2>2, <2>5, <2>9, <2>10, SMT
  <2>13. Consecutive(a, base + Len(inc))
    <3>1. ASSUME NEW i \in 1..Len(a) PROVE Len(a) = 1 /\ i = 1
      BY <2>10, <3>1, AtMostOne, Zenon
    <3>2. Len(a) = 1 => a[1] = base + Len(inc) + 1
      BY <2>3, <2>7, <2>19, Zenon DEF holds
    <3> QED BY <3>1, <3>2, Zenon DEF Consecutive
  <2>14. Consecutive(r, base + Len(inc) + Len(a))
    BY <2>5, <2>6, <2>7, Zenon DEF Consecutive
  <2>15. Consecutive(b, base + Len(inc) + Len(a) + Len(r))
    <3>1. ASSUME NEW i \in 1..Len(b) PROVE Len(b) = 1 /\ i = 1
      BY <2>10, <3>1, AtMostOne, Zenon
    <3>2. Len(b) = 1 => b[1] = n
      BY <2>0, <2>4, <2>19, Zenon
    <3>3. Len(b) = 1 => n = base + Len(inc) + Len(a) + Len(r) + 1
      BY <2>1, <2>2, <2>5, <2>9, <2>10, SMT
    <3> QED BY <3>1, <3>2, <3>3, Zenon DEF Consecutive
  <2> DEFINE way == inc \o a \o r \o b
  <2>16. Len(way) = Len(inc) + Len(a) + Len(r) + Len(b) /\ way = [i \in 1..Len(way) |-> base + i]
    <3>1. inc \in Seq(U) /\ a \in Seq(U) /\ r \in Seq(U) /\ b \in Seq(U)
      BY <2>1, <2>3, <2>4, <2>5, Zenon
    <3> QED BY <2>11, <2>12, <2>13, <2>14, <2>15, <3>1, OrderShows, SMTT(60)
  <2> HIDE DEF way
  <2>17. base = n - Len(way)
    BY <2>9, <2>16, Zenon
  <2>18. way = [i \in 1..Len(way) |-> n - Len(way) + i]
    BY <2>16, <2>17, Zenon
  <2> QED BY <2>8, <2>18, Zenon DEF way, n
<1> QED BY <1>1, <1>2, <1>3, Zenon DEF ConnectionsInOrder

\* For any number of tasks and any size of the queues: a task gets the stream of its own
\* request, and the guest's connections come to accept in the order they were made, none
\* skipped and none twice (satisfy_pending, run_control_reader, run_connect_broker,
\* run_listen_dispatch).
THEOREM StreamsReachTheirTask == BrokerSpec => [](AnswerIsMine /\ ConnectionsInOrder)
<1>1. BrokerInit => BrokerInv
  BY BrokerStart, Zenon
<1>2. BrokerInv /\ [BrokerNext]_(brokerVars) => BrokerInv'
  BY BrokerKeeps, Zenon DEF brokerVars
<1>3. BrokerInv => AnswerIsMine /\ ConnectionsInOrder
  BY BrokerPromises, Zenon
<1> QED BY <1>1, <1>2, <1>3, PTL DEF BrokerSpec

-----------------------------------------------------------------------------
(* ForwardPlugin *)

Discovery == [pc: {"start", "list", "sync", "sleep", "failed"}, told: SUBSET HostPorts]
Connection == [at: {"idle", "proxy", "relay", "closed"}, host: HostPorts \cup {None}, guest: HostPorts \cup {None}]

\* What the plugin was told holds no service of the image; a port has one listener; a
\* connection that is relayed goes where its port leads.
Inside == /\ discover.told \cap (baseline \cup Low) = {}
          /\ \A p \in HostPorts : dynamic[p] # None => p \notin baseline \cup Low \cup StaticPorts
Relayed == \A c \in Clients : conn[c].at = "relay" => conn[c].guest = guest_port(conn[c].host)
ForwardTypes ==
    /\ guestOpen \subseteq HostPorts /\ baseline \subseteq HostPorts /\ hostTaken \subseteq HostPorts
    /\ discover \in Discovery /\ dynamic \in [HostPorts -> {"live", "dead", None}]
    /\ closing \subseteq HostPorts /\ conn \in [Clients -> Connection]
ForwardInv == ForwardTypes /\ Inside /\ PortHeldOnce /\ Relayed

\* Nothing is forwarded (ForwardInit).
LEMMA ForwardStart == ASSUME ForwardInit PROVE ForwardInv
<1> USE ForwardAssumption
<1> DEFINE d == [pc |-> "start", told |-> {}]
           x == [at |-> "idle", host |-> None, guest |-> None]
<1>1. d \in Discovery /\ d.told = {} /\ x \in Connection /\ x.at = "idle"
  BY Zenon DEF Discovery, Connection
<1>2. /\ discover = d /\ conn = [c \in Clients |-> x] /\ dynamic = [p \in HostPorts |-> None]
      /\ baseline \in SUBSET HostPorts /\ guestOpen = baseline /\ hostTaken = {} /\ closing = {}
  BY Zenon DEF ForwardInit, Unlistened
<1> HIDE DEF d, x
<1>3. ForwardTypes
  BY <1>1, <1>2, Zenon DEF ForwardTypes
<1>4. Inside /\ PortHeldOnce /\ Relayed
  BY <1>1, <1>2, Zenon DEF Inside, PortHeldOnce, Relayed
<1> QED BY <1>3, <1>4, Zenon DEF ForwardInv

\* A step of the plugin's loop that touches no listener.
LEMMA ForwardLoops ==
  ASSUME ForwardInv, discover' \in Discovery, discover'.told \cap (baseline \cup Low) = {},
         UNCHANGED <<guestOpen, baseline, hostTaken, dynamic, closing, conn>>
  PROVE ForwardInv'
<1>1. ForwardTypes'
  BY Zenon DEF ForwardInv, ForwardTypes
<1>2. Inside' /\ PortHeldOnce' /\ Relayed'
  BY Zenon DEF ForwardInv, Inside, PortHeldOnce, Relayed
<1> QED BY <1>1, <1>2, Zenon DEF ForwardInv

LEMMA Forward_loop ==
  ASSUME ForwardInv, run \/ list_tcp_ports \/ list_tcp_ports_fails \/ Wake
  PROVE ForwardInv'
<1>0. /\ UNCHANGED <<guestOpen, baseline, hostTaken, dynamic, closing, conn>>
      /\ \/ \E pc \in {"list", "failed"} : discover' = [discover EXCEPT !.pc = pc]
         \/ discover' = [pc |-> "sync", told |-> (guestOpen \ baseline) \ Low]
         \/ discover' = [pc |-> "list", told |-> {}]
  BY ZenonT(60) DEF run, list_tcp_ports, list_tcp_ports_fails, Wake, discover_promoted_tcp_ports, surroundings
<1>1. discover \in Discovery /\ discover.told \cap (baseline \cup Low) = {} /\ guestOpen \subseteq HostPorts
  BY Zenon DEF ForwardInv, ForwardTypes, Inside
<1>2. CASE \E pc \in {"list", "failed"} : discover' = [discover EXCEPT !.pc = pc]
  <2>1. PICK pc \in {"list", "failed"} : discover' = [discover EXCEPT !.pc = pc]
    BY <1>2, Zenon
  <2>2. discover' \in Discovery /\ discover'.told = discover.told
    BY <1>1, <2>1, SMTT(30) DEF Discovery
  <2> QED BY <1>0, <1>1, <2>2, ForwardLoops, Zenon
<1>3. ASSUME NEW pc \in {"sync", "list"}, NEW told \in SUBSET guestOpen, told \cap (baseline \cup Low) = {},
             discover' = [pc |-> pc, told |-> told]
      PROVE ForwardInv'
  <2>1. discover' \in Discovery /\ discover'.told = told
    BY <1>1, <1>3, SMTT(30) DEF Discovery
  <2> QED BY <1>0, <1>3, <2>1, ForwardLoops, Zenon
<1>4. (guestOpen \ baseline) \ Low \in SUBSET guestOpen
      /\ ((guestOpen \ baseline) \ Low) \cap (baseline \cup Low) = {} /\ {} \in SUBSET guestOpen
  BY Zenon
<1>5. CASE discover' = [pc |-> "sync", told |-> (guestOpen \ baseline) \ Low]
  BY <1>3, <1>4, <1>5, Zenon
<1>6. CASE discover' = [pc |-> "list", told |-> {}]
  BY <1>3, <1>4, <1>6, Zenon
<1> QED BY <1>0, <1>2, <1>5, <1>6, Zenon

LEMMA Forward_sync == ASSUME ForwardInv, run_auto_discover PROVE ForwardInv'
<1> USE ForwardAssumption
<1> DEFINE desired == discover.told \ StaticPorts
           listens == {p \in HostPorts : dynamic[p] # None}
           stale == listens \ desired
           next(p) == IF p \in stale THEN None
                      ELSE IF p \in desired \ listens /\ ~ Bound(p) THEN "live" ELSE dynamic[p]
<1>0. /\ dynamic' = [p \in HostPorts |-> next(p)] /\ closing' = closing \cup {p \in stale : dynamic[p] = "live"}
      /\ discover' = [discover EXCEPT !.pc = "sleep"] /\ UNCHANGED <<guestOpen, baseline, hostTaken, conn>>
  BY Zenon DEF run_auto_discover, Listening, surroundings
<1>1. discover \in Discovery /\ dynamic \in [HostPorts -> {"live", "dead", None}]
  BY Zenon DEF ForwardInv, ForwardTypes
<1>2. discover' \in Discovery /\ discover'.told = discover.told
  BY <1>0, <1>1, SMTT(30) DEF Discovery
<1>3. \A p \in HostPorts :
         \/ next(p) = None
         \/ next(p) = "live" /\ p \in discover.told /\ p \notin StaticPorts /\ p \notin hostTaken
            /\ p \notin closing /\ p \notin stale
         \/ next(p) = dynamic[p] /\ p \notin stale
  BY Zenon DEF Bound
<1>4. dynamic' \in [HostPorts -> {"live", "dead", None}] /\ \A p \in HostPorts : dynamic'[p] = next(p)
  <2> HIDE DEF next
  <2>1. \A p \in HostPorts : next(p) \in {"live", "dead", None}
    BY <1>1, <1>3, Zenon
  <2> QED BY <1>0, <2>1, Zenon
<1>5. stale \subseteq HostPorts /\ \A p \in stale : next(p) = None
  BY Zenon
<1>6. \A p \in HostPorts \ StaticPorts : p \in closing' => p \in closing \/ (p \in stale /\ dynamic[p] = "live")
  BY <1>0, Zenon
<1> HIDE DEF next, stale, desired, listens
<1>7. ForwardTypes'
  <2>1. closing' \subseteq HostPorts
    BY <1>0, <1>5, Zenon DEF ForwardInv, ForwardTypes
  <2> QED BY <1>0, <1>2, <1>4, <2>1, Zenon DEF ForwardInv, ForwardTypes
<1>8. Inside'
  <2>1. \A p \in HostPorts : next(p) # None => p \notin baseline \cup Low \cup StaticPorts
    BY <1>3, Zenon DEF ForwardInv, Inside
  <2> QED BY <1>0, <1>2, <1>4, <2>1, Zenon DEF ForwardInv, Inside
<1>9. PortHeldOnce'
  <2> SUFFICES ASSUME NEW p \in HostPorts \ StaticPorts
               PROVE /\ dynamic'[p] = "live" => p \notin hostTaken' /\ p \notin closing'
                     /\ p \in closing' => p \notin hostTaken'
    BY Zenon DEF PortHeldOnce
  <2>1. /\ dynamic[p] = "live" => p \notin hostTaken /\ p \notin closing
        /\ p \in closing => p \notin hostTaken
    BY Zenon DEF ForwardInv, PortHeldOnce
  <2>2. dynamic'[p] = "live" => p \notin stale /\ p \notin hostTaken /\ p \notin closing
    BY <1>3, <1>4, <2>1, Zenon
  <2> QED BY <1>0, <1>6, <2>1, <2>2, Zenon
<1>10. Relayed'
  BY <1>0, Zenon DEF ForwardInv, Relayed
<1> QED BY <1>7, <1>8, <1>9, <1>10, Zenon DEF ForwardInv

LEMMA Forward_Restart == ASSUME ForwardInv, Restart PROVE ForwardInv'
<1> USE ForwardAssumption
<1> DEFINE next(c) == IF conn[c].at \in {"idle", "closed"} THEN conn[c] ELSE [conn[c] EXCEPT !.at = "closed"]
<1>0. /\ discover' = [pc |-> "start", told |-> {}] /\ dynamic' = [p \in HostPorts |-> None] /\ closing' = {}
      /\ conn' = [c \in Clients |-> next(c)] /\ UNCHANGED <<guestOpen, baseline, hostTaken>>
  BY Zenon DEF Restart, Unlistened, surroundings
<1>1. discover' \in Discovery /\ discover'.told = {}
  BY <1>0, SMTT(30) DEF Discovery
<1>2. \A c \in Clients : next(c) \in Connection /\ next(c).at # "relay"
  <2> TAKE c \in Clients
  <2>1. conn[c] \in Connection
    BY Zenon DEF ForwardInv, ForwardTypes
  <2>2. [conn[c] EXCEPT !.at = "closed"] \in Connection /\ [conn[c] EXCEPT !.at = "closed"].at = "closed"
    BY <2>1, Zenon DEF Connection
  <2> QED BY <2>1, <2>2, Zenon
<1> HIDE DEF next
<1>3. conn' \in [Clients -> Connection] /\ \A c \in Clients : conn'[c].at # "relay"
  BY <1>0, <1>2, Zenon
<1>4. ForwardTypes'
  BY <1>0, <1>1, <1>3, Zenon DEF ForwardInv, ForwardTypes
<1>5. Inside' /\ PortHeldOnce' /\ Relayed'
  BY <1>0, <1>1, <1>3, Zenon DEF Inside, PortHeldOnce, Relayed
<1> QED BY <1>4, <1>5, Zenon DEF ForwardInv

\* What listeners, the guest and other programs do with a port.
LEMMA Forward_port ==
  ASSUME ForwardInv, NEW p \in HostPorts,
         \/ ListenerDropped(p) \/ AcceptFails(p)
         \/ GuestOpens(p) \/ GuestCloses(p) \/ HostTakes(p) \/ HostReleases(p)
  PROVE ForwardInv'
<1> USE ForwardAssumption
<1>1. CASE AcceptFails(p)
  <2>0. /\ dynamic[p] = "live" /\ dynamic' = [dynamic EXCEPT ![p] = "dead"]
        /\ UNCHANGED <<guestOpen, baseline, hostTaken, discover, closing, conn>>
    BY <1>1, Zenon DEF AcceptFails, surroundings
  <2>1. dynamic' \in [HostPorts -> {"live", "dead", None}] /\ dynamic'[p] = "dead"
        /\ \A o \in HostPorts \ {p} : dynamic'[o] = dynamic[o]
    BY <2>0, Zenon DEF ForwardInv, ForwardTypes
  <2>2. ForwardTypes' /\ Relayed'
    BY <2>0, <2>1, Zenon DEF ForwardInv, ForwardTypes, Relayed
  <2>3. Inside'
    BY <2>0, <2>1, Zenon DEF ForwardInv, Inside
  <2>4. PortHeldOnce'
    BY <2>0, <2>1, Zenon DEF ForwardInv, PortHeldOnce
  <2> QED BY <2>2, <2>3, <2>4, Zenon DEF ForwardInv
<1>2. ASSUME UNCHANGED <<baseline, discover, dynamic, conn>>, guestOpen' \subseteq HostPorts,
             hostTaken' \subseteq HostPorts, closing' \subseteq closing,
             \A o \in HostPorts \ StaticPorts :
                 o \in hostTaken' => o \in hostTaken \/ (dynamic[o] # "live" /\ o \notin closing)
      PROVE ForwardInv'
  <2>1. ForwardTypes' /\ Relayed' /\ Inside'
    BY <1>2, Zenon DEF ForwardInv, ForwardTypes, Relayed, Inside
  <2>2. PortHeldOnce'
    BY <1>2, Zenon DEF ForwardInv, PortHeldOnce
  <2> QED BY <2>1, <2>2, Zenon DEF ForwardInv
<1>3. guestOpen \subseteq HostPorts /\ hostTaken \subseteq HostPorts
  BY Zenon DEF ForwardInv, ForwardTypes
<1>4. CASE ListenerDropped(p)
  BY <1>2, <1>3, <1>4, Zenon DEF ListenerDropped, surroundings
<1>5. CASE GuestOpens(p) \/ GuestCloses(p)
  BY <1>2, <1>3, <1>5, Zenon DEF GuestOpens, GuestCloses
<1>6. CASE HostTakes(p)
  <2>1. /\ hostTaken' = hostTaken \cup {p} /\ UNCHANGED <<guestOpen, baseline, discover, dynamic, closing, conn>>
        /\ p \in StaticPorts \/ (dynamic[p] # "live" /\ p \notin closing)
    BY <1>6, Zenon DEF HostTakes, Bound
  <2> QED BY <1>2, <1>3, <2>1, Zenon
<1>7. CASE HostReleases(p)
  BY <1>2, <1>3, <1>7, Zenon DEF HostReleases
<1> QED BY <1>1, <1>4, <1>5, <1>6, <1>7, Zenon

\* A connection that comes in, is relayed and ends.
LEMMA Forward_conn ==
  ASSUME ForwardInv, NEW c \in Clients,
         proxy_tcp(c) \/ copy_bidirectional(c) \/ \E p \in HostPorts : accept_tcp(c, p)
  PROVE ForwardInv'
<1>1. conn[c] \in Connection /\ guestOpen \subseteq HostPorts
  BY Zenon DEF ForwardInv, ForwardTypes
<1>2. ASSUME NEW x \in Connection, x.at = "relay" => x.guest = guest_port(x.host),
             conn' = [conn EXCEPT ![c] = x],
             UNCHANGED <<guestOpen, baseline, hostTaken, discover, dynamic, closing>>
      PROVE ForwardInv'
  <2>1. conn' \in [Clients -> Connection] /\ conn'[c] = x /\ \A d \in Clients \ {c} : conn'[d] = conn[d]
    BY <1>2, Zenon DEF ForwardInv, ForwardTypes
  <2>2. ForwardTypes' /\ Inside' /\ PortHeldOnce'
    BY <1>2, <2>1, Zenon DEF ForwardInv, ForwardTypes, Inside, PortHeldOnce
  <2>3. Relayed'
    <3>1. \A d \in Clients : conn'[d].at = "relay" => conn'[d].guest = guest_port(conn'[d].host)
      BY <1>2, <2>1, Zenon DEF ForwardInv, Relayed
    <3> QED BY <3>1, Zenon DEF Relayed, guest_port
  <2> QED BY <2>2, <2>3, Zenon DEF ForwardInv
<1>3. CASE proxy_tcp(c)
  <2>1. CASE guest_port(conn[c].host) \in guestOpen
             /\ conn' = [conn EXCEPT ![c] =
                           [conn[c] EXCEPT !.at = "relay", !.guest = guest_port(conn[c].host)]]
    <3> DEFINE g == guest_port(conn[c].host)
               x == [conn[c] EXCEPT !.at = "relay", !.guest = g]
    <3>1. g \in HostPorts /\ conn' = [conn EXCEPT ![c] = x]
      BY <1>1, <2>1, Zenon
    <3> HIDE DEF g
    <3>2. x \in Connection /\ x.guest = g /\ x.host = conn[c].host
      BY <1>1, <3>1, Zenon DEF Connection
    <3> HIDE DEF x
    <3>3. x.guest = guest_port(x.host)
      BY <3>2, Zenon DEF g
    <3> QED BY <1>2, <1>3, <3>1, <3>2, <3>3, Zenon DEF proxy_tcp, surroundings
  <2>2. CASE conn' = [conn EXCEPT ![c].at = "closed"]
    <3> DEFINE x == [conn[c] EXCEPT !.at = "closed"]
    <3>1. x \in Connection /\ x.at = "closed"
      BY <1>1, Zenon DEF Connection
    <3>2. conn' = [conn EXCEPT ![c] = x]
      BY <2>2
    <3> HIDE DEF x
    <3> QED BY <1>2, <1>3, <3>1, <3>2, Zenon DEF proxy_tcp, surroundings
  <2> QED BY <1>3, <2>1, <2>2, Zenon DEF proxy_tcp
<1>4. CASE copy_bidirectional(c)
  <2> DEFINE x == [at |-> "closed", host |-> None, guest |-> None]
  <2>1. x \in Connection /\ x.at = "closed"
    BY Zenon DEF Connection
  <2>2. conn' = [conn EXCEPT ![c] = x] /\ UNCHANGED <<guestOpen, baseline, hostTaken, discover, dynamic, closing>>
    BY <1>4, Zenon DEF copy_bidirectional, surroundings
  <2> HIDE DEF x
  <2> QED BY <1>2, <2>1, <2>2, Zenon
<1>5. ASSUME NEW p \in HostPorts, accept_tcp(c, p) PROVE ForwardInv'
  <2> DEFINE x == [at |-> "proxy", host |-> p, guest |-> None]
  <2>1. x \in Connection /\ x.at = "proxy"
    BY Zenon DEF Connection
  <2>2. conn' = [conn EXCEPT ![c] = x] /\ UNCHANGED <<guestOpen, baseline, hostTaken, discover, dynamic, closing>>
    BY <1>5, Zenon DEF accept_tcp, surroundings
  <2> HIDE DEF x
  <2> QED BY <1>2, <2>1, <2>2, Zenon
<1> QED BY <1>3, <1>4, <1>5, Zenon

\* Every step of the plugin and its surroundings keeps the invariant.
LEMMA ForwardKeeps == ASSUME ForwardInv, [ForwardNext]_forwardVars PROVE ForwardInv'
<1>1. CASE UNCHANGED forwardVars
  <2>1. discover' \in Discovery /\ discover'.told \cap (baseline \cup Low) = {}
        /\ UNCHANGED <<guestOpen, baseline, hostTaken, dynamic, closing, conn>>
    BY <1>1, Zenon DEF forwardVars, ForwardInv, ForwardTypes, Inside
  <2> QED BY <2>1, ForwardLoops, Zenon
<1>2. CASE ForwardNext
  BY <1>2, Forward_loop, Forward_sync, Forward_Restart, Forward_port, Forward_conn, ZenonT(60) DEF ForwardNext
<1> QED BY <1>1, <1>2, Zenon

\* What the invariant says of the ports and the connections.
LEMMA ForwardPromises ==
  ASSUME ForwardInv PROVE ForwardTypeOK /\ ServicesStayInside /\ PortHeldOnce /\ ReachesItsPort
<1>1. ForwardTypeOK
  <2>1. discover.pc \in {"start", "list", "sync", "sleep", "failed"} /\ discover.told \subseteq HostPorts
    BY SMT DEF ForwardInv, ForwardTypes, Discovery
  <2> QED BY <2>1, Zenon DEF ForwardInv, ForwardTypes, ForwardTypeOK, Connection
<1>2. ServicesStayInside
  BY Zenon DEF ForwardInv, Inside, ServicesStayInside, Listening
<1>3. PortHeldOnce
  BY Zenon DEF ForwardInv
<1>4. ReachesItsPort
  BY Zenon DEF ForwardInv, Relayed, ReachesItsPort, guest_port
<1> QED BY <1>1, <1>2, <1>3, <1>4, Zenon

\* For any set of ports and clients: the image's own services are not promoted, a host port
\* is bound once, and a relayed connection leads to the guest port that is configured
\* (run_auto_discover, discover_promoted_tcp_ports, proxy_tcp).
THEOREM PortsLeadToTheGuest == ForwardSpec => [](ServicesStayInside /\ PortHeldOnce /\ ReachesItsPort)
<1>1. ForwardInit => ForwardInv
  BY ForwardStart, Zenon
<1>2. ForwardInv /\ [ForwardNext]_(forwardVars) => ForwardInv'
  BY ForwardKeeps, Zenon DEF forwardVars
<1>3. ForwardInv => ServicesStayInside /\ PortHeldOnce /\ ReachesItsPort
  BY ForwardPromises, Zenon
<1> QED BY <1>1, <1>2, <1>3, PTL DEF ForwardSpec
=============================================================================
