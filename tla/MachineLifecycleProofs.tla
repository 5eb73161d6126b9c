---------------------- MODULE MachineLifecycleProofs ----------------------
(***************************************************************************)
(* Type correctness of the machine lifecycle and the legality of the       *)
(* transitions its callers apply, for every number of callers, pids and    *)
(* launches; and what callers may rely on about monitors, for any number   *)
(* of crashes too, with or without an exit command, on Linux (no birth     *)
(* times) and on macOS.  The second part makes two assumptions: a forked   *)
(* vmmon has written its pidfile before the next caller looks for it       *)
(* (PromptMonitor) and no pid is used twice (~PidReuse).                   *)
(***************************************************************************)
EXTENDS MachineLifecycle, TLAPS

\* The places of an operation at which it holds the machine lock.
LockedPlaces == {"probe", "exit", "act", "request", "spawn", "release", "sync", "ready",
                 "mark", "complete"}

\* flock admits one holder: an operation inside its critical section holds the lock.
LockHeld == \A c \in Clients : cl[c].pc \in LockedPlaces => lock = c

\* What a caller knows at each place: a start has a launch left and, once requested, the
\* row is its own; a stop about to mark the row sees an active machine with a pid; a
\* caller that waits knows the run it waits for.
Knows(c) ==
    /\ cl[c].pc \in {"try", "mark", "await", "watch", "relock"} => cl[c].op # "start"
    /\ cl[c].pc \in {"probe", "exit", "act"} /\ cl[c].op = "start" => nextRun <= MaxRuns
    /\ cl[c].pc = "request" => nextRun <= MaxRuns /\ ~ IsActive(db.status)
    /\ cl[c].pc \in {"spawn", "release", "sync", "ready"} =>
          cl[c].run \in Runs /\ db.status = "starting" /\ db.runId = cl[c].run
    /\ cl[c].pc = "mark" => IsActive(db.status) /\ db.pid # None
    /\ cl[c].pc \in {"await", "watch", "complete"} => cl[c].gen # None
    /\ cl[c].pc = "relock" /\ cl[c].op \in {"stop", "kill"} => cl[c].gen # None

\* The inductive invariant.
IInv == TypeOK /\ LockHeld /\ \A c \in Clients : Knows(c)

-----------------------------------------------------------------------------
\* What the pure helpers return.

\* A reconciliation that saw `live` observes a well-formed row.
LEMMA ObservedState ==
    ASSUME TypeOK, NEW live \in [pid: Pids, birth: Times \cup {None}] \cup {None}
    PROVE  observe_machine_state(live).state \in MachineState
  <1> USE LifecycleAssumption
  <1>1. CASE live # None
    BY <1>1, ZenonT(60) DEF TypeOK, observe_machine_state, MonitorObserved, replace_runtime, Accept,
       MachineState, RuntimeStates, Times
  <1>2. CASE live = None
    BY <1>2, ZenonT(60) DEF TypeOK, observe_machine_state, ExitObserved, StartTimedOut, MonitorGone, Refuse,
       Cleared, replace_runtime, Accept, MachineState, RuntimeStates, Times
  <1> QED BY <1>1, <1>2, Zenon

\* The process that holds an existing pid is a vmmon of this machine or a foreign program.
LEMMA IncarnationType ==
    ASSUME TypeOK, NEW p \in Pids, pid_exists(p)
    PROVE  Incarnation(p) \in Times
  BY Zenon DEF pid_exists, Incarnation, Holder, Times

\* The probe finds a pid with its birth time, or nothing.
LEMMA ProbeType ==
    ASSUME TypeOK
    PROVE  live_monitor_identity \in [pid: Pids, birth: Times \cup {None}] \cup {None}
  <1> DEFINE found == {p \in {pidfile.pid, db.pid} \cap Pids : Identified(p, db.startedAt)}
             pid   == IF pidfile.pid \in found THEN pidfile.pid ELSE db.pid
  <1>1. CASE found = {}
    BY <1>1, Zenon DEF live_monitor_identity
  <1>2. CASE found # {}
    <2>1. pid \in found
      BY <1>2, Zenon
    <2>2. pid \in Pids /\ BirthOf(pid) \in Times \cup {None}
      BY <2>1, IncarnationType, Zenon DEF BirthOf, Identified
    <2> QED BY <1>2, <2>2, Zenon DEF live_monitor_identity
  <1> QED BY <1>1, <1>2, Zenon

-----------------------------------------------------------------------------
\* How a step carries the invariant over.

\* A caller inside its critical section is the only one there.
LEMMA Alone ==
    ASSUME IInv, NEW c \in Clients, cl[c].pc \in LockedPlaces,
           NEW d \in Clients \ {c}
    PROVE  cl[d].pc \notin LockedPlaces
  BY Zenon DEF IInv, LockHeld

\* A step of a caller that holds the lock may change the row and the launches left; it
\* either keeps the lock or leaves the critical section.
LEMMA LockedStep ==
    ASSUME IInv, TypeOK', NEW c \in Clients, cl[c].pc \in LockedPlaces,
           \A d \in Clients \ {c} : cl'[d] = cl[d],
           cl'[c].pc \in LockedPlaces => lock' = c,
           Knows(c)'
    PROVE  IInv'
  <1>1. LockHeld'
    BY Alone, Zenon DEF LockHeld
  <1>2. ASSUME NEW d \in Clients PROVE Knows(d)'
    <2>1. CASE d = c
      BY <2>1, Zenon
    <2>2. CASE d # c
      BY <2>2, Alone, ZenonT(60) DEF IInv, Knows, LockedPlaces
    <2> QED BY <2>1, <2>2, Zenon
  <1> QED BY <1>1, <1>2, Zenon DEF IInv

\* A step of a caller outside its critical section leaves the row and the launches alone;
\* it enters the critical section only when the lock is free.
LEMMA FreeStep ==
    ASSUME IInv, TypeOK', NEW c \in Clients, cl[c].pc \notin LockedPlaces,
           \A d \in Clients \ {c} : cl'[d] = cl[d],
           UNCHANGED <<db, nextRun>>,
           lock' = lock \/ (lock = None /\ lock' = c) \/ (lock = c /\ lock' = None),
           cl'[c].pc \in LockedPlaces => lock' = c,
           Knows(c)'
    PROVE  IInv'
  <1> USE LifecycleAssumption
  <1>1. ASSUME NEW d \in Clients, cl'[d].pc \in LockedPlaces PROVE lock' = d
    <2>1. CASE d = c
      BY <1>1, <2>1, Zenon
    <2>2. CASE d # c
      BY <1>1, <2>2, Zenon DEF IInv, LockHeld
    <2> QED BY <2>1, <2>2, Zenon
  <1>2. ASSUME NEW d \in Clients PROVE Knows(d)'
    <2>1. CASE d = c
      BY <2>1, Zenon
    <2>2. CASE d # c
      BY <2>2, ZenonT(60) DEF IInv, Knows
    <2> QED BY <2>1, <2>2, Zenon
  <1> QED BY <1>1, <1>2, Zenon DEF IInv, LockHeld

\* A step of a monitor or of the host changes nothing a caller relies on.
LEMMA OutsideStep ==
    ASSUME IInv, TypeOK', UNCHANGED <<db, lock, cl, nextRun>>
    PROVE  IInv'
  BY ZenonT(60) DEF IInv, LockHeld, Knows

-----------------------------------------------------------------------------
\* The initial state and the steps of the callers.
\* A stopped machine without callers satisfies the invariant.
LEMMA InitIInv == Init => IInv
  <1> SUFFICES ASSUME Init PROVE IInv
    BY Zenon
  <1> USE LifecycleAssumption
  <1>1. TypeOK
    <2>1. db \in MachineState
      BY Zenon DEF Init, Cleared, replace_runtime, MachineState, RuntimeStates
    <2>2. mon \in [Runs -> Monitor]
      BY Zenon DEF Init, NoMonitor, Monitor, Phases
    <2>3. cl \in [Clients -> Caller]
      BY Zenon DEF Init, IdleCaller, Caller, Places
    <2>4. pidfile \in [pid: Pids \cup {None, Garbled}, by: Runs \cup {0}]
      BY Zenon DEF Init, NoPidfile
    <2>5. nextRun \in 1..(MaxRuns + 1) /\ crashes \in 0..MaxCrashes
      BY DEF Init
    <2>6. stale \in BOOLEAN /\ lock \in Clients \cup {None} /\ exitFile \in Runs \cup {0}
          /\ net \in BOOLEAN /\ alien \subseteq Pids
      BY Zenon DEF Init
    <2> QED BY <2>1, <2>2, <2>3, <2>4, <2>5, <2>6, Zenon DEF TypeOK
  <1>2. LockHeld /\ \A c \in Clients : Knows(c)
    BY Zenon DEF Init, LockHeld, LockedPlaces, Knows, IdleCaller
  <1> QED BY <1>1, <1>2, Zenon DEF IInv

\* Returning leaves a caller idle, and the lock free if it was the caller's.
LEMMA ReturnStep ==
    ASSUME IInv, NEW c \in Clients, Return(c)
    PROVE  /\ cl' \in [Clients -> Caller] /\ lock' \in Clients \cup {None}
           /\ \A d \in Clients \ {c} : cl'[d] = cl[d]
           /\ cl'[c] = IdleCaller
           /\ cl'[c].pc \notin LockedPlaces
           /\ lock' = lock \/ (lock = c /\ lock' = None)
           /\ Knows(c)'
  <1>1. IdleCaller \in Caller
    BY Zenon DEF IdleCaller, Caller, Places
  <1>2. cl' = [cl EXCEPT ![c] = IdleCaller] /\ cl \in [Clients -> Caller]
    BY Zenon DEF Return, IInv, TypeOK
  <1>3. cl'[c] = IdleCaller /\ \A d \in Clients \ {c} : cl'[d] = cl[d]
    BY <1>2, Zenon
  <1>4. cl' \in [Clients -> Caller]
    BY <1>1, <1>2, Zenon
  <1>5. Knows(c)' /\ cl'[c].pc \notin LockedPlaces
    BY <1>3 DEF Knows, IdleCaller, LockedPlaces
  <1> QED BY <1>3, <1>4, <1>5, Zenon DEF Return, IInv, TypeOK

\* An operation arrives: it takes the free lock, or a refresh sets out to try it.
LEMMA ArriveStep ==
    ASSUME IInv, NEW c \in Clients, Arrive(c)
    PROVE  IInv'
  <1> USE LifecycleAssumption
  <1>1. ASSUME NEW o \in ClientOps, Begin(c, o) PROVE IInv'
    <2> DEFINE r == [IdleCaller EXCEPT
                  !.pc = "probe", !.op = o, !.prev = IF o = "stop" THEN db.status ELSE None,
                  !.gen = IF o = "wait" THEN stored_target ELSE None]
    <2>1. stored_target \in VmmonRunIdentity \cup {None}
      BY Zenon DEF IInv, TypeOK, stored_target, generation, VmmonRunIdentity, MachineState, Times
    <2>2. r \in Caller /\ r.pc = "probe" /\ r.op = o
      BY <2>1, ZenonT(60) DEF IInv, TypeOK, IdleCaller, Caller, Places, MachineState
    <2>3. cl' = [cl EXCEPT ![c] = r] /\ cl \in [Clients -> Caller]
      BY <1>1, Zenon DEF Begin, IInv, TypeOK
    <2> HIDE DEF r
    <2>4. TypeOK'
      BY <1>1, <2>2, <2>3 DEF IInv, TypeOK, Begin, hostVars, monVars, boundVars
    <2>5. cl'[c] = r /\ \A d \in Clients \ {c} : cl'[d] = cl[d]
      BY <2>3, Zenon
    <2>6. Knows(c)'
      BY <1>1, <2>2, <2>5, Zenon DEF Knows, Begin, boundVars
    <2> QED BY <1>1, <2>2, <2>4, <2>5, <2>6, FreeStep, Zenon DEF Begin, LockedPlaces, boundVars
  <1>2. CASE OpenRuntime(c)
    <2> DEFINE r == [IdleCaller EXCEPT !.pc = "try", !.op = "refresh"]
    <2>1. r \in Caller /\ r.pc = "try" /\ r.op = "refresh"
      BY Zenon DEF IdleCaller, Caller, Places, ClientOps
    <2>2. cl' = [cl EXCEPT ![c] = r] /\ cl \in [Clients -> Caller]
      BY <1>2, Zenon DEF OpenRuntime, IInv, TypeOK
    <2> HIDE DEF r
    <2>3. TypeOK'
      BY <1>2, <2>1, <2>2 DEF IInv, TypeOK, OpenRuntime, hostVars, monVars, boundVars
    <2>4. cl'[c] = r /\ \A d \in Clients \ {c} : cl'[d] = cl[d]
      BY <2>2, Zenon
    <2>5. Knows(c)'
      BY <2>1, <2>4, Zenon DEF Knows
    <2> QED BY <1>2, <2>1, <2>3, <2>4, <2>5, FreeStep, Zenon DEF OpenRuntime, LockedPlaces, boundVars
  <1> QED BY <1>1, <1>2, Zenon DEF Arrive, Inspect, ClientOps

\* A caller moves on with new locals.
LEMMA CallerStep ==
    ASSUME IInv, NEW c \in Clients, NEW r \in Caller, cl' = [cl EXCEPT ![c] = r]
    PROVE  cl' \in [Clients -> Caller] /\ cl'[c] = r /\ \A d \in Clients \ {c} : cl'[d] = cl[d]
  BY Zenon DEF IInv, TypeOK

\* A caller moves to another place.
LEMMA GotoStep ==
    ASSUME IInv, NEW c \in Clients, NEW place \in Places, Goto(c, place)
    PROVE  /\ cl' \in [Clients -> Caller] /\ \A d \in Clients \ {c} : cl'[d] = cl[d]
           /\ cl'[c].pc = place /\ cl'[c].op = cl[c].op /\ cl'[c].run = cl[c].run
           /\ cl'[c].gen = cl[c].gen
  <1> DEFINE r == [cl[c] EXCEPT !.pc = place]
  <1>1. cl[c] \in Caller
    BY Zenon DEF IInv, TypeOK
  <1>2. r \in Caller /\ r.pc = place /\ r.op = cl[c].op /\ r.run = cl[c].run /\ r.gen = cl[c].gen
    BY <1>1, Zenon DEF Caller
  <1>3. cl' = [cl EXCEPT ![c] = r]
    BY Zenon DEF Goto
  <1> QED BY <1>2, <1>3, CallerStep, Zenon

\* Taking the lock and reconciling.
LEMMA ReconcileSteps ==
    ASSUME IInv, NEW c \in Clients, TryLock(c) \/ Relock(c) \/ ProbeMonitor(c) \/ WriteBack(c)
    PROVE  IInv'
  <1> USE LifecycleAssumption
  <1>c. cl[c] \in Caller
    BY Zenon DEF IInv, TypeOK
  <1>1. CASE TryLock(c)
    <2>1. CASE lock = None
      <3>1. lock' = c /\ Goto(c, "probe")
        BY <1>1, <2>1, Zenon DEF TryLock
      <3>2. TypeOK'
        BY <1>1, <3>1, GotoStep, Zenon DEF IInv, TypeOK, TryLock, hostVars, monVars, boundVars, Places
      <3>3. Knows(c)'
        BY <1>1, <3>1, GotoStep, ZenonT(60) DEF IInv, TryLock, Knows, Places
      <3> QED BY <1>1, <2>1, <3>1, <3>2, <3>3, GotoStep, FreeStep, Zenon
              DEF TryLock, LockedPlaces, Places, boundVars
    <2>2. CASE lock # None
      <3>1. Return(c)
        BY <1>1, <2>2, Zenon DEF TryLock
      <3>2. TypeOK'
        BY <1>1, <3>1, ReturnStep, ZenonT(60) DEF IInv, TypeOK, TryLock, hostVars, monVars, boundVars
      <3> QED BY <1>1, <3>1, <3>2, ReturnStep, FreeStep, Zenon DEF TryLock, LockedPlaces, boundVars
    <2> QED BY <2>1, <2>2, Zenon
  <1>2. CASE Relock(c)
    <2> DEFINE place == IF cl[c].op \in {"stop", "kill"} THEN "complete" ELSE "probe"
               gen   == IF cl[c].op = "wait" THEN stored_target ELSE cl[c].gen
               r     == [cl[c] EXCEPT !.pc = place, !.gen = gen]
    <2>1. stored_target \in VmmonRunIdentity \cup {None}
      BY Zenon DEF IInv, TypeOK, stored_target, generation, VmmonRunIdentity, MachineState, Times
    <2>a. place \in Places /\ gen \in VmmonRunIdentity \cup {None}
      BY <1>c, <2>1, Zenon DEF Caller, Places
    <2>3. cl' = [cl EXCEPT ![c] = r]
      BY <1>2, Zenon DEF Relock
    <2> HIDE DEF place, gen
    <2>2. r \in Caller /\ r.op = cl[c].op /\ r.pc = place /\ r.gen = gen
      BY <1>c, <2>a, ZenonT(60) DEF Caller
    <2> HIDE DEF r
    <2>4. TypeOK'
      BY <1>2, <2>2, <2>3, CallerStep, Zenon DEF IInv, TypeOK, Relock, hostVars, monVars, boundVars
    <2>5. Knows(c)'
      <3>1. cl'[c].op = cl[c].op /\ cl'[c].pc = place /\ cl'[c].gen = gen
        BY <2>2, <2>3, CallerStep, Zenon
      <3>2. Knows(c) /\ cl[c].pc = "relock"
        BY <1>2, Zenon DEF IInv, Relock
      <3> QED BY <3>1, <3>2, Zenon DEF Knows, place, gen
    <2> QED BY <1>2, <2>2, <2>3, <2>4, <2>5, CallerStep, FreeStep, ZenonT(60)
            DEF Relock, LockedPlaces, boundVars, place
  <1>3. CASE ProbeMonitor(c)
    <2>1. CASE pidfile.pid = Garbled
      <3>1. Return(c)
        BY <1>3, <2>1, Zenon DEF ProbeMonitor
      <3>2. TypeOK'
        BY <1>3, <3>1, ReturnStep, Zenon DEF IInv, TypeOK, ProbeMonitor, hostVars, monVars, boundVars
      <3> QED BY <1>3, <3>1, <3>2, ReturnStep, LockedStep, Zenon DEF ProbeMonitor, LockedPlaces
    <2>2. CASE pidfile.pid # Garbled
      <3> DEFINE r == [cl[c] EXCEPT !.pc = "exit", !.live = live_monitor_identity]
      <3>1. r \in Caller /\ r.pc = "exit" /\ r.op = cl[c].op
        BY <1>c, ProbeType, ZenonT(60) DEF Caller, Places, IInv
      <3>2. cl' = [cl EXCEPT ![c] = r] /\ lock' = lock
        BY <1>3, <2>2, Zenon DEF ProbeMonitor
      <3> HIDE DEF r
      <3>3. TypeOK'
        BY <1>3, <3>1, <3>2, CallerStep, Zenon DEF IInv, TypeOK, ProbeMonitor, hostVars, monVars, boundVars
      <3>4. Knows(c)'
        BY <1>3, <3>1, <3>2, CallerStep, ZenonT(60) DEF IInv, ProbeMonitor, Knows, boundVars
      <3> QED BY <1>3, <3>1, <3>2, <3>3, <3>4, CallerStep, LockedStep, ZenonT(60)
              DEF ProbeMonitor, LockedPlaces, IInv, LockHeld
    <2> QED BY <2>1, <2>2, Zenon
  <1>4. CASE WriteBack(c)
    <2> DEFINE r == [cl[c] EXCEPT !.pc = "act", !.live = None]
    <2>1. r \in Caller /\ r.pc = "act" /\ r.op = cl[c].op
      BY <1>c, ZenonT(60) DEF Caller, Places
    <2>2. cl' = [cl EXCEPT ![c] = r]
      BY <1>4, Zenon DEF WriteBack
    <2> HIDE DEF r
    <2>3. cl[c].live \in [pid: Pids, birth: Times \cup {None}] \cup {None}
      BY <1>c, Zenon DEF Caller
    <2>4. db' \in MachineState /\ stale' \in BOOLEAN
      BY <1>4, <2>3, ObservedState, ZenonT(60) DEF WriteBack, save_machine_state, IInv, TypeOK
    <2>5. TypeOK'
      BY <1>4, <2>1, <2>2, <2>4, CallerStep, ZenonT(60) DEF IInv, TypeOK, WriteBack, hostVars, monVars, boundVars
    <2>6. Knows(c)'
      BY <1>4, <2>1, <2>2, CallerStep, ZenonT(60) DEF IInv, WriteBack, Knows, boundVars
    <2> QED BY <1>4, <2>1, <2>2, <2>5, <2>6, CallerStep, LockedStep, Zenon
            DEF WriteBack, LockedPlaces, IInv, LockHeld
  <1> QED BY <1>1, <1>2, <1>3, <1>4, Zenon

\* start_with.
LEMMA StartSteps ==
    ASSUME IInv, NEW c \in Clients,
           \/ StartRejected(c) \/ StartPrepare(c) \/ request_machine_start(c) \/ Spawn(c)
           \/ release_startpipe(c) \/ SyncStarted(c) \/ SyncFailed(c) \/ SyncTimeout(c)
           \/ MarkReady(c)
    PROVE  IInv'
  <1> USE LifecycleAssumption
  <1>c. cl[c] \in Caller
    BY Zenon DEF IInv, TypeOK
  <1>f. ASSUME NEW failure \in {"stopped", "error"}, FailStart(c, failure)
        PROVE  db' \in MachineState /\ stale' \in BOOLEAN
    <2> DEFINE res == StartFailed(db, cl[c].run, failure)
    <2>1. res.state \in MachineState
      BY ZenonT(60) DEF StartFailed, Refuse, Accept, Cleared, replace_runtime, MachineState, RuntimeStates,
         IInv, TypeOK
    <2>2. transition(res)
      BY <1>f, Zenon DEF FailStart
    <2> HIDE DEF res
    <2> QED BY <2>1, <2>2, Zenon DEF transition, save_machine_state, IInv, TypeOK
  <1>g. ASSUME NEW m \in [Runs -> Monitor], mon' = m, cl[c].pc \in LockedPlaces,
               UNCHANGED <<hostVars, alien, boundVars>>,
               NEW failure \in {"stopped", "error"}, FailStart(c, failure)
        PROVE  IInv'
    <2>1. Return(c)
      BY <1>g, Zenon DEF FailStart
    <2>2. TypeOK'
      BY <1>f, <1>g, <2>1, ReturnStep, ZenonT(60) DEF IInv, TypeOK, hostVars, boundVars
    <2> QED BY <1>g, <2>1, <2>2, ReturnStep, LockedStep, Zenon
  <1>1. CASE StartRejected(c)
    <2>1. Return(c) /\ cl[c].pc = "act"
      BY <1>1, Zenon DEF StartRejected, At
    <2>2. TypeOK'
      BY <1>1, <2>1, ReturnStep, Zenon DEF IInv, TypeOK, StartRejected, hostVars, monVars, boundVars
    <2> QED BY <2>1, <2>2, ReturnStep, LockedStep, Zenon DEF LockedPlaces
  <1>2. CASE StartPrepare(c)
    <2>1. cl[c].pc = "act" /\ cl[c].op = "start" /\ ~ IsActive(db.status)
      BY <1>2, Zenon DEF StartPrepare, At
    <2>2. CASE Return(c)
      <3>1. TypeOK'
        BY <1>2, <2>2, ReturnStep, ZenonT(60) DEF IInv, TypeOK, StartPrepare, monVars, boundVars
      <3> QED BY <2>1, <2>2, <3>1, ReturnStep, LockedStep, ZenonT(60) DEF LockedPlaces
    <2>3. CASE Goto(c, "request") /\ UNCHANGED lock
      <3>1. TypeOK'
        BY <1>2, <2>3, GotoStep, ZenonT(60) DEF IInv, TypeOK, StartPrepare, monVars, boundVars, Places
      <3>2. Knows(c)'
        BY <1>2, <2>1, <2>3, GotoStep, ZenonT(60) DEF IInv, StartPrepare, Knows, boundVars, Places
      <3> QED BY <2>1, <2>3, <3>1, <3>2, GotoStep, LockedStep, ZenonT(60) DEF LockedPlaces, IInv, LockHeld, Places
    <2> QED BY <1>2, <2>2, <2>3, Zenon DEF StartPrepare
  <1>3. CASE request_machine_start(c)
    <2>1. cl[c].pc = "request" /\ ~ IsActive(db.status) /\ nextRun \in Runs
      BY <1>3 DEF request_machine_start, IInv, Knows, TypeOK, Runs
    <2> DEFINE s == replace_runtime("starting", None, None, nextRun, FALSE)
               r == [cl[c] EXCEPT !.pc = "spawn", !.run = nextRun]
    <2>2. StartRequested(db, nextRun) = [state |-> s, error |-> None]
      BY <2>1, Zenon DEF StartRequested, Accept
    <2>3. s \in MachineState /\ s.status = "starting" /\ s.runId = nextRun
      BY <2>1, Zenon DEF replace_runtime, MachineState, RuntimeStates
    <2>4. r \in Caller /\ r.pc = "spawn" /\ r.run = nextRun
      BY <1>c, <2>1, ZenonT(60) DEF Caller, Places
    <2> HIDE DEF s, r
    <2>5. db' = s /\ stale' = FALSE /\ lock' = lock
      BY <1>3, <2>2 DEF request_machine_start, transition, save_machine_state
    <2>6. cl' = [cl EXCEPT ![c] = r]
      BY <1>3, <2>2 DEF request_machine_start, r
    <2>7. nextRun' \in 1..(MaxRuns + 1)
      BY <1>3, <2>1 DEF request_machine_start, Runs
    <2>8. TypeOK'
      BY <1>3, <2>3, <2>4, <2>5, <2>6, <2>7, CallerStep, ZenonT(60)
         DEF request_machine_start, IInv, TypeOK, hostVars, monVars
    <2>9. Knows(c)'
      BY <2>1, <2>3, <2>4, <2>5, <2>6, CallerStep, ZenonT(60) DEF Knows
    <2> QED BY <2>1, <2>4, <2>5, <2>6, <2>8, <2>9, CallerStep, LockedStep, ZenonT(60)
            DEF LockedPlaces, IInv, LockHeld
  <1>4. CASE Spawn(c)
    <2>1. cl[c].pc = "spawn" /\ cl[c].run \in Runs /\ mon[cl[c].run] \in Monitor
      BY <1>4, Zenon DEF Spawn, IInv, Knows, TypeOK
    <2>2. ASSUME NEW p \in FreePids,
                 mon' = [mon EXCEPT ![cl[c].run] = [@ EXCEPT !.phase = "forked", !.pid = p]],
                 Goto(c, "release"), UNCHANGED <<db, stale, lock>>
          PROVE  IInv'
      <3>1. [mon[cl[c].run] EXCEPT !.phase = "forked", !.pid = p] \in Monitor
        BY <2>1, <2>2, ZenonT(60) DEF Monitor, Phases, FreePids
      <3>2. mon' \in [Runs -> Monitor]
        BY <2>1, <2>2, <3>1, Zenon DEF IInv, TypeOK
      <3>3. TypeOK'
        BY <1>4, <2>2, <3>2, GotoStep, ZenonT(60) DEF IInv, TypeOK, Spawn, hostVars, boundVars, Places
      <3>4. Knows(c)'
        BY <2>1, <2>2, GotoStep DEF IInv, Knows, Places
      <3> QED BY <2>1, <2>2, <3>3, <3>4, GotoStep, LockedStep, ZenonT(60) DEF LockedPlaces, IInv, LockHeld, Places
    <2>3. CASE FailStart(c, "stopped") /\ UNCHANGED mon
      BY <1>4, <1>g, <2>1, <2>3, Zenon DEF Spawn, LockedPlaces, IInv, TypeOK
    <2>4. ASSUME NEW p \in FreePids,
                 mon' = [mon EXCEPT ![cl[c].run] = [@ EXCEPT !.phase = "forked", !.pid = p,
                                        !.startpipe = "closed", !.syncpipe = "closed"]],
                 FailStart(c, "stopped")
          PROVE  IInv'
      <3>1. [mon[cl[c].run] EXCEPT !.phase = "forked", !.pid = p, !.startpipe = "closed",
                !.syncpipe = "closed"] \in Monitor
        BY <2>1, <2>4, ZenonT(60) DEF Monitor, Phases, FreePids
      <3>2. mon' \in [Runs -> Monitor]
        BY <2>1, <2>4, <3>1, Zenon DEF IInv, TypeOK
      <3> QED BY <1>4, <1>g, <2>1, <2>4, <3>2, Zenon DEF Spawn, LockedPlaces
    <2> QED BY <1>4, <2>2, <2>3, <2>4, ZenonT(60) DEF Spawn
  <1>5. CASE release_startpipe(c)
    <2>1. cl[c].pc = "release" /\ cl[c].run \in Runs /\ mon[cl[c].run] \in Monitor
      BY <1>5, Zenon DEF release_startpipe, IInv, Knows, TypeOK
    <2>2. CASE mon[cl[c].run].phase = "dead"
      BY <1>5, <1>g, <2>1, <2>2, Zenon DEF release_startpipe, LockedPlaces, IInv, TypeOK
    <2>3. CASE mon[cl[c].run].phase # "dead"
      <3>1. [mon[cl[c].run] EXCEPT !.startpipe = "released"] \in Monitor
        BY <2>1, Zenon DEF Monitor
      <3>2. mon' \in [Runs -> Monitor] /\ Goto(c, "sync") /\ UNCHANGED <<db, stale, lock>>
        BY <1>5, <2>1, <2>3, <3>1 DEF release_startpipe, IInv, TypeOK
      <3>3. TypeOK'
        BY <1>5, <3>2, GotoStep, ZenonT(60) DEF IInv, TypeOK, release_startpipe, hostVars, boundVars, Places
      <3>4. Knows(c)'
        BY <2>1, <3>2, GotoStep, ZenonT(60) DEF IInv, Knows, Places
      <3> QED BY <2>1, <3>2, <3>3, <3>4, GotoStep, LockedStep, ZenonT(60) DEF LockedPlaces, IInv, LockHeld, Places
    <2> QED BY <2>2, <2>3, Zenon
  <1>6. CASE SyncStarted(c)
    <2>1. TypeOK'
      BY <1>6, GotoStep, ZenonT(60) DEF IInv, TypeOK, SyncStarted, hostVars, monVars, boundVars, Places
    <2>2. Knows(c)'
      BY <1>6, GotoStep, ZenonT(60) DEF IInv, Knows, SyncStarted, Places
    <2> QED BY <1>6, <2>1, <2>2, GotoStep, LockedStep, Zenon
            DEF SyncStarted, LockedPlaces, IInv, LockHeld, Places
  <1>7. CASE SyncFailed(c)
    BY <1>7, <1>g, Zenon DEF SyncFailed, LockedPlaces, IInv, TypeOK, monVars
  <1>8. CASE SyncTimeout(c)
    <2>1. cl[c].run \in Runs /\ mon[cl[c].run] \in Monitor
      BY <1>8, ZenonT(60) DEF SyncTimeout, IInv, Knows, TypeOK
    <2>2. PICK end \in {"open", "closed"} : mon' = [mon EXCEPT ![cl[c].run].syncpipe = end]
      BY <1>8, Zenon DEF SyncTimeout
    <2>3. [mon[cl[c].run] EXCEPT !.syncpipe = end] \in Monitor
      BY <2>1, Zenon DEF Monitor
    <2>4. mon' \in [Runs -> Monitor]
      BY <2>1, <2>2, <2>3, Zenon DEF IInv, TypeOK
    <2> QED BY <1>8, <1>g, <2>4, Zenon DEF SyncTimeout, LockedPlaces
  <1>9. CASE MarkReady(c)
    <2>1. CASE pidfile.pid \in Pids /\ pid_exists(pidfile.pid)
      <3> DEFINE t == IF BirthTimes THEN Incarnation(pidfile.pid) ELSE pidfile.by
                 res == MonitorReady(db, cl[c].run, pidfile.pid, t)
      <3>1. t \in Times
        BY <2>1, IncarnationType, ZenonT(60) DEF IInv, TypeOK, Times
      <3>2. res.state \in MachineState
        BY <2>1, <3>1, <1>c, ZenonT(60) DEF MonitorReady, Refuse, Accept, replace_runtime, MachineState,
           RuntimeStates, IInv, TypeOK, require_run_id, Caller, Knows
      <3>3. Return(c) /\ transition(res)
        BY <1>9, <2>1, Zenon DEF MarkReady
      <3> HIDE DEF t, res
      <3>4. db' \in MachineState /\ stale' \in BOOLEAN
        BY <3>2, <3>3, Zenon DEF transition, save_machine_state, IInv, TypeOK
      <3>5. TypeOK'
        BY <1>9, <3>3, <3>4, ReturnStep, ZenonT(60) DEF IInv, TypeOK, MarkReady, hostVars, monVars, boundVars
      <3> QED BY <1>9, <3>3, <3>5, ReturnStep, LockedStep, ZenonT(60) DEF MarkReady, LockedPlaces
    <2>2. CASE ~ (pidfile.pid \in Pids /\ pid_exists(pidfile.pid))
      BY <1>9, <1>g, <2>2, Zenon DEF MarkReady, LockedPlaces, IInv, TypeOK, monVars
    <2> QED BY <2>1, <2>2, Zenon
  <1> QED BY <1>1, <1>2, <1>3, <1>4, <1>5, <1>6, <1>7, <1>8, <1>9, Zenon

\* A signal changes only how far monitors are.
LEMMA SignalStep ==
    ASSUME IInv, NEW m \in Monitor
    PROVE  Killed(m) \in Monitor /\ Interrupted(m) \in Monitor
  BY ZenonT(60) DEF Killed, Interrupted, Monitor, Phases

\* stop_with and kill_with, and waiting for the monitor to exit.
LEMMA StopSteps ==
    ASSUME IInv, NEW c \in Clients,
           \/ StopNotRunning(c) \/ StopUnmonitored(c) \/ StopDenied(c) \/ StopSignal(c)
           \/ request_machine_stop(c) \/ PinMonitor(c) \/ MonitorExited(c) \/ WaitTimeout(c)
           \/ complete_stop_locked(c) \/ Report(c)
    PROVE  IInv'
  <1> USE LifecycleAssumption
  <1>c. cl[c] \in Caller
    BY Zenon DEF IInv, TypeOK
  <1>1. CASE StopNotRunning(c)
    <2>1. Return(c) /\ cl[c].pc = "act"
      BY <1>1, Zenon DEF StopNotRunning, At
    <2>2. net' \in BOOLEAN
      BY <1>1, ZenonT(60) DEF StopNotRunning, IInv, TypeOK
    <2>3. TypeOK'
      BY <1>1, <2>1, <2>2, ReturnStep, ZenonT(60) DEF IInv, TypeOK, StopNotRunning, monVars, boundVars
    <2> QED BY <2>1, <2>3, ReturnStep, LockedStep, Zenon DEF LockedPlaces
  <1>2. CASE StopUnmonitored(c)
    <2>1. Return(c) /\ cl[c].pc = "act" /\ net' = FALSE /\ stale' = FALSE
          /\ db' = Cleared("stopped", FALSE)
      BY <1>2, Zenon DEF StopUnmonitored, At, StopAtOnce, save_machine_state
    <2>2. Cleared("stopped", FALSE) \in MachineState
      BY Zenon DEF Cleared, replace_runtime, MachineState, RuntimeStates
    <2>3. TypeOK'
      BY <1>2, <2>1, <2>2, ReturnStep, ZenonT(60) DEF IInv, TypeOK, StopUnmonitored, monVars, boundVars
    <2> QED BY <2>1, <2>3, ReturnStep, LockedStep, ZenonT(60) DEF LockedPlaces
  <1>3. CASE StopSignal(c)
    <2>1. cl[c].pc = "act" /\ Goto(c, "mark") /\ IsActive(db.status) /\ db.pid # None
      BY <1>3, Zenon DEF StopSignal, At
    <2>2. mon' \in [Runs -> Monitor]
      <3>1. \A r \in Runs : mon[r] \in Monitor /\ Killed(mon[r]) \in Monitor
                            /\ Interrupted(mon[r]) \in Monitor
        BY SignalStep, Zenon DEF IInv, TypeOK
      <3>2. CASE UNCHANGED <<mon>>
        BY <3>2, Zenon DEF IInv, TypeOK
      <3>3. CASE interrupt_monitor(db.pid)
        BY <3>1, <3>3, Zenon DEF interrupt_monitor
      <3>4. CASE kill_monitor_process_group(db.pid)
        BY <3>1, <3>4, Zenon DEF kill_monitor_process_group
      <3> QED BY <1>3, <3>2, <3>3, <3>4, ZenonT(60) DEF StopSignal
    <2>3. TypeOK'
      BY <1>3, <2>1, <2>2, GotoStep, ZenonT(60) DEF IInv, TypeOK, StopSignal, hostVars, boundVars, Places
    <2>4. Knows(c)'
      BY <1>3, <2>1, GotoStep, ZenonT(60) DEF StopSignal, At, Knows, Places
    <2> QED BY <1>3, <2>1, <2>3, <2>4, GotoStep, LockedStep, ZenonT(60)
            DEF StopSignal, LockedPlaces, IInv, LockHeld, Places
  <1>4. CASE request_machine_stop(c)
    <2>1. cl[c].pc = "mark" /\ IsActive(db.status) /\ db.pid # None
      BY <1>4, Zenon DEF request_machine_stop, IInv, Knows
    <2>2. generation \in VmmonRunIdentity
      BY <2>1, Zenon DEF generation, VmmonRunIdentity, IInv, TypeOK, MachineState, Times
    <2> DEFINE res == StopRequested(db, generation)
               r   == [cl[c] EXCEPT !.pc = "await", !.gen = generation]
    <2>3. res.state \in MachineState /\ res.error = None
      BY <2>1, <2>2, Zenon DEF StopRequested, Accept, replace_runtime, VmmonRunIdentity, MachineState,
         RuntimeStates, IsActive
    <2>4. r \in Caller /\ r.pc = "await" /\ r.gen = generation /\ r.op = cl[c].op
      BY <1>c, <2>2, ZenonT(60) DEF Caller, Places
    <2>5. db' = res.state /\ stale' = FALSE
      BY <1>4, <2>3, Zenon DEF request_machine_stop, transition, save_machine_state
    <2>6. cl' = [cl EXCEPT ![c] = r] /\ lock' = None
      BY <1>4, <2>3, Zenon DEF request_machine_stop
    <2> HIDE DEF res, r
    <2>7. TypeOK'
      BY <1>4, <2>3, <2>4, <2>5, <2>6, CallerStep, Zenon
         DEF IInv, TypeOK, request_machine_stop, hostVars, monVars, boundVars
    <2>8. generation # None
      BY <2>2, NoneAssumption, Zenon
    <2>9. Knows(c)'
      BY <2>1, <2>4, <2>6, <2>8, CallerStep, ZenonT(60) DEF IInv, Knows
    <2> QED BY <2>1, <2>4, <2>6, <2>7, <2>9, CallerStep, LockedStep, ZenonT(60) DEF LockedPlaces
  <1>5. CASE PinMonitor(c)
    <2>1. cl[c].pc = "await" /\ cl[c].gen \in VmmonRunIdentity
      BY <1>5, <1>c, Zenon DEF PinMonitor, IInv, Knows, Caller
    <2>2. CASE Identified(cl[c].gen.pid, cl[c].gen.startedAt)
      <3> DEFINE r == [cl[c] EXCEPT !.pc = "watch", !.target = Incarnation(cl[c].gen.pid)]
      <3>1. Incarnation(cl[c].gen.pid) \in Times
        BY <2>1, <2>2, IncarnationType, Zenon DEF Identified, VmmonRunIdentity, IInv
      <3>2. r \in Caller /\ r.pc = "watch" /\ r.gen = cl[c].gen /\ r.op = cl[c].op
        BY <1>c, <3>1, ZenonT(60) DEF Caller, Places
      <3>3. cl' = [cl EXCEPT ![c] = r]
        BY <1>5, <2>2, Zenon DEF PinMonitor
      <3> HIDE DEF r
      <3>4. TypeOK'
        BY <1>5, <3>2, <3>3, CallerStep, Zenon DEF IInv, TypeOK, PinMonitor, hostVars, monVars, boundVars
      <3>5. Knows(c)'
        BY <2>1, <3>2, <3>3, CallerStep, ZenonT(60) DEF IInv, Knows
      <3> QED BY <1>5, <2>1, <3>2, <3>3, <3>4, <3>5, CallerStep, FreeStep, ZenonT(60)
              DEF PinMonitor, LockedPlaces, boundVars
    <2>3. CASE ~ Identified(cl[c].gen.pid, cl[c].gen.startedAt)
      <3>1. Goto(c, "relock")
        BY <1>5, <2>3, Zenon DEF PinMonitor
      <3>2. TypeOK'
        BY <1>5, <3>1, GotoStep, ZenonT(60) DEF IInv, TypeOK, PinMonitor, hostVars, monVars, boundVars, Places
      <3>3. Knows(c)'
        BY <2>1, <3>1, GotoStep, ZenonT(60) DEF IInv, Knows, Places
      <3> QED BY <1>5, <2>1, <3>1, <3>2, <3>3, GotoStep, FreeStep, Zenon
              DEF PinMonitor, LockedPlaces, Places, boundVars
    <2> QED BY <2>2, <2>3, Zenon
  <1>6. CASE MonitorExited(c)
    <2> DEFINE r == [cl[c] EXCEPT !.pc = "relock", !.target = None]
    <2>1. r \in Caller /\ r.pc = "relock" /\ r.gen = cl[c].gen /\ r.op = cl[c].op
      BY <1>c, ZenonT(60) DEF Caller, Places
    <2>2. cl' = [cl EXCEPT ![c] = r] /\ cl[c].pc = "watch"
      BY <1>6, Zenon DEF MonitorExited
    <2> HIDE DEF r
    <2>3. TypeOK'
      BY <1>6, <2>1, <2>2, CallerStep DEF IInv, TypeOK, MonitorExited, hostVars, monVars, boundVars
    <2>4. Knows(c)'
      BY <2>1, <2>2, CallerStep, ZenonT(60) DEF IInv, Knows
    <2> QED BY <1>6, <2>1, <2>2, <2>3, <2>4, CallerStep, FreeStep
            DEF MonitorExited, LockedPlaces, boundVars
  <1>7. CASE WaitTimeout(c)
    <2>1. TypeOK'
      BY <1>7, ReturnStep, Zenon DEF IInv, TypeOK, WaitTimeout, hostVars, monVars, boundVars
    <2> QED BY <1>7, <2>1, ReturnStep, FreeStep, Zenon DEF WaitTimeout, LockedPlaces, boundVars
  <1>8. CASE complete_stop_locked(c)
    <2> DEFINE done == StopCompleted(db, cl[c].gen)
    <2>1. done.state \in MachineState
      BY ZenonT(60) DEF StopCompleted, Refuse, Accept, Cleared, replace_runtime, MachineState, RuntimeStates,
         IInv, TypeOK
    <2>2. \/ db' = done.state /\ stale' = FALSE /\ net' = FALSE
          \/ UNCHANGED <<db, stale, net>>
      BY <1>8, Zenon DEF complete_stop_locked, save_machine_state
    <2> HIDE DEF done
    <2>3. cl[c].pc = "complete" /\ lock' = None /\ Goto(c, "report")
      BY <1>8, Zenon DEF complete_stop_locked
    <2>4. TypeOK'
      BY <1>8, <2>1, <2>2, <2>3, GotoStep, ZenonT(60)
         DEF IInv, TypeOK, complete_stop_locked, monVars, boundVars, Places
    <2>5. Knows(c)'
      BY <2>3, GotoStep, ZenonT(60) DEF Knows, Places
    <2> QED BY <2>3, <2>4, <2>5, GotoStep, LockedStep, ZenonT(60) DEF LockedPlaces, Places
  <1>9. CASE Report(c)
    <2>1. TypeOK'
      BY <1>9, ReturnStep, ZenonT(60) DEF IInv, TypeOK, Report, hostVars, monVars, boundVars
    <2> QED BY <1>9, <2>1, ReturnStep, FreeStep, Zenon DEF Report, LockedPlaces, boundVars
  <1>10. CASE StopDenied(c)
    <2>1. Return(c) /\ cl[c].pc = "act"
      BY <1>10, Zenon DEF StopDenied, At
    <2>2. TypeOK'
      BY <1>10, <2>1, ReturnStep, ZenonT(60) DEF IInv, TypeOK, StopDenied, hostVars, monVars, boundVars
    <2> QED BY <2>1, <2>2, ReturnStep, LockedStep, Zenon DEF LockedPlaces
  <1> QED BY <1>1, <1>2, <1>3, <1>4, <1>5, <1>6, <1>7, <1>8, <1>9, <1>10, Zenon

\* wait_with, cleanup, inspect and the refresh.
LEMMA OtherSteps ==
    ASSUME IInv, NEW c \in Clients,
           WaitTarget(c) \/ WaitPoll(c) \/ WaitSettle(c) \/ CleanUp(c) \/ InspectDone(c)
    PROVE  IInv'
  <1> USE LifecycleAssumption
  <1>c. cl[c] \in Caller /\ cl[c].pc = "act"
    BY Zenon DEF IInv, TypeOK, WaitTarget, WaitPoll, WaitSettle, CleanUp, InspectDone, At
  <1>1. CASE WaitTarget(c)
    <2> DEFINE target == IF ~ IsActive(db.status) THEN cl[c].gen
                         ELSE IF db.pid # None THEN generation ELSE None
               o      == IF target = None THEN "poll" ELSE "settle"
               place  == IF target = None THEN "relock" ELSE "await"
               r      == [cl[c] EXCEPT !.gen = target, !.op = o, !.pc = place]
    <2>1. target \in VmmonRunIdentity \cup {None}
      BY <1>c, ZenonT(60) DEF generation, VmmonRunIdentity, IInv, TypeOK, MachineState, Times, Caller
    <2>2. cl' = [cl EXCEPT ![c] = r] /\ lock' = None
      BY <1>1, Zenon DEF WaitTarget
    <2> HIDE DEF target
    <2>a. o \in {"poll", "settle"} /\ place \in Places
      BY Zenon DEF Places
    <2> HIDE DEF o, place
    <2>3. r \in Caller /\ r.gen = target /\ r.op = o /\ r.pc = place
      BY <1>c, <2>1, <2>a, ZenonT(60) DEF Caller
    <2> HIDE DEF r
    <2>4. TypeOK'
      BY <1>1, <2>2, <2>3, CallerStep DEF IInv, TypeOK, WaitTarget, hostVars, monVars, boundVars
    <2>5. Knows(c)'
      BY <2>2, <2>3, CallerStep, ZenonT(60) DEF Knows, o, place
    <2> QED BY <1>c, <2>2, <2>3, <2>4, <2>5, CallerStep, LockedStep, ZenonT(60) DEF LockedPlaces, place
  <1>2. CASE WaitPoll(c)
    <2>1. CASE Return(c)
      <3>1. TypeOK'
        BY <1>2, <2>1, ReturnStep, Zenon DEF IInv, TypeOK, WaitPoll, hostVars, monVars, boundVars
      <3> QED BY <1>c, <2>1, <3>1, ReturnStep, LockedStep, Zenon DEF LockedPlaces
    <2>2. CASE ~ Return(c)
      <3> DEFINE r == [cl[c] EXCEPT !.op = "wait", !.pc = "relock"]
      <3>1. r \in Caller /\ r.pc = "relock" /\ r.op = "wait"
        BY <1>c, ZenonT(60) DEF Caller, Places, ClientOps
      <3>2. cl' = [cl EXCEPT ![c] = r] /\ lock' = None
        BY <1>2, <2>2, Zenon DEF WaitPoll
      <3> HIDE DEF r
      <3>3. TypeOK'
        BY <1>2, <3>1, <3>2, CallerStep, Zenon DEF IInv, TypeOK, WaitPoll, hostVars, monVars, boundVars
      <3>4. Knows(c)'
        BY <3>1, <3>2, CallerStep, ZenonT(60) DEF Knows
      <3> QED BY <1>c, <3>1, <3>2, <3>3, <3>4, CallerStep, LockedStep, ZenonT(60) DEF LockedPlaces
    <2> QED BY <2>1, <2>2, Zenon
  <1>3. CASE WaitSettle(c)
    <2>1. Goto(c, "report") /\ lock' = None /\ net' \in BOOLEAN
      BY <1>3, Zenon DEF WaitSettle, IInv, TypeOK
    <2>2. TypeOK'
      BY <1>3, <2>1, GotoStep, ZenonT(60) DEF IInv, TypeOK, WaitSettle, monVars, boundVars, Places
    <2>3. Knows(c)'
      BY <2>1, GotoStep, Zenon DEF Knows, Places
    <2> QED BY <1>c, <2>1, <2>2, <2>3, GotoStep, LockedStep, Zenon DEF LockedPlaces, Places
  <1>4. CASE CleanUp(c)
    <2>1. Return(c) /\ net' \in BOOLEAN
      BY <1>4, Zenon DEF CleanUp, IInv, TypeOK
    <2>2. TypeOK'
      BY <1>4, <2>1, ReturnStep, Zenon DEF IInv, TypeOK, CleanUp, monVars, boundVars
    <2> QED BY <1>c, <2>1, <2>2, ReturnStep, LockedStep, ZenonT(60) DEF LockedPlaces
  <1>5. CASE InspectDone(c)
    <2>1. TypeOK'
      BY <1>5, ReturnStep, ZenonT(60) DEF IInv, TypeOK, InspectDone, hostVars, monVars, boundVars
    <2> QED BY <1>5, <1>c, <2>1, ReturnStep, LockedStep, ZenonT(60) DEF InspectDone, LockedPlaces
  <1> QED BY <1>1, <1>2, <1>3, <1>4, <1>5, ZenonT(60)

-----------------------------------------------------------------------------
\* Crashes, and the steps of the monitors and of the host.

\* Returning is safe wherever the caller is, if nothing it shares with others changes.
LEMMA GiveUp ==
    ASSUME IInv, TypeOK', NEW c \in Clients, Return(c), UNCHANGED <<db, nextRun>>
    PROVE  IInv'
  <1>1. CASE cl[c].pc \in LockedPlaces
    BY <1>1, ReturnStep, LockedStep, Zenon
  <1>2. CASE cl[c].pc \notin LockedPlaces
    BY <1>2, ReturnStep, FreeStep, Zenon
  <1> QED BY <1>1, <1>2, Zenon

\* The pipe ends of a monitor's record can be set to any value of theirs.
LEMMA PipesUpdate ==
    ASSUME NEW x \in Monitor, NEW a \in {"held", "released", "closed"},
           NEW b \in {"open", "closed", "started", "failed"}
    PROVE  [x EXCEPT !.startpipe = a, !.syncpipe = b] \in Monitor
  <1>1. [x EXCEPT !.startpipe = a] \in Monitor
    BY Zenon DEF Monitor
  <1>2. ASSUME NEW y \in Monitor PROVE [y EXCEPT !.syncpipe = b] \in Monitor
    BY ZenonT(60) DEF Monitor
  <1> QED BY <1>1, <1>2, Zenon

\* A crash frees the lock of the caller that dies and closes its pipe ends.
LEMMA CrashStep ==
    ASSUME IInv, NEW c \in Clients, Crash(c)
    PROVE  IInv'
  <1> USE LifecycleAssumption
  <1>1. mon' \in [Runs -> Monitor]
    <2> DEFINE m(r) == [mon[r] EXCEPT !.startpipe = IF @ = "held" THEN "closed" ELSE @,
                                      !.syncpipe  = IF @ = "open" THEN "closed" ELSE @]
    <2>1. ASSUME NEW r \in Runs PROVE m(r) \in Monitor
      <3>1. mon[r] \in Monitor
        BY Zenon DEF IInv, TypeOK
      <3>2. mon[r].startpipe \in {"held", "released", "closed"}
            /\ mon[r].syncpipe \in {"open", "closed", "started", "failed"}
        BY <3>1, Zenon DEF Monitor
      <3> QED BY <3>1, <3>2, PipesUpdate, ZenonT(60)
    <2>2. mon' = [r \in Runs |-> IF r # cl[c].run THEN mon[r] ELSE m(r)]
      BY Zenon DEF Crash
    <2> HIDE DEF m
    <2> QED BY <2>1, <2>2, Zenon DEF IInv, TypeOK
  <1>2. crashes' \in 0..MaxCrashes
    <2>1. crashes < MaxCrashes /\ crashes' = crashes + 1 /\ crashes \in 0..MaxCrashes
      BY Zenon DEF Crash, IInv, TypeOK
    <2> QED BY <2>1
  <1>3. TypeOK'
    BY <1>1, <1>2, ReturnStep, Zenon DEF Crash, IInv, TypeOK, hostVars
  <1> QED BY <1>3, GiveUp, Zenon DEF Crash

\* A monitor's record is replaced by another one.
LEMMA MonitorUpdate ==
    ASSUME IInv, NEW r \in Runs, NEW m \in Monitor, mon' = [mon EXCEPT ![r] = m]
    PROVE  mon' \in [Runs -> Monitor]
  BY Zenon DEF IInv, TypeOK

\* The steps of vmmon: registration, start, service, shutdown and exit.
LEMMA MonitorSteps ==
    ASSUME IInv, NEW r \in Runs, MonitorStep(r) \/ MonitorKilled(r)
    PROVE  IInv'
  <1> USE LifecycleAssumption
  <1>m. mon[r] \in Monitor /\ mon \in [Runs -> Monitor]
    BY Zenon DEF IInv, TypeOK
  <1>p. ASSUME NEW from \in Phases, NEW to \in Phases, Monitors(r, from, to)
        PROVE  mon' \in [Runs -> Monitor]
    <2>1. [mon[r] EXCEPT !.phase = to] \in Monitor
      BY <1>m, Zenon DEF Monitor
    <2> QED BY <1>p, <1>m, <2>1, Zenon DEF Monitors
  <1>k. ASSUME mon' = [mon EXCEPT ![r] = Killed(@)] PROVE mon' \in [Runs -> Monitor]
    BY <1>k, <1>m, SignalStep, MonitorUpdate, ZenonT(60)
  <1>1. CASE PidGuardOpen(r)
    <2>1. TypeOK'
      BY <1>1, <1>p, ZenonT(60) DEF IInv, TypeOK, PidGuardOpen, nonMonVars, boundVars, Phases
    <2> QED BY <1>1, <2>1, OutsideStep, Zenon DEF PidGuardOpen, nonMonVars, boundVars
  <1>2. CASE PidGuardWrite(r)
    <2>1. mon[r].pid \in Pids \cup {None}
      BY <1>m, Zenon DEF Monitor
    <2>2. TypeOK'
      BY <1>2, <1>p, <2>1, ZenonT(60) DEF IInv, TypeOK, PidGuardWrite, nonMonVars, boundVars, Phases
    <2> QED BY <1>2, <2>2, OutsideStep, Zenon DEF PidGuardWrite, nonMonVars, boundVars
  <1>3. CASE PidGuardFails(r)
    <2>1. TypeOK'
      BY <1>3, <1>k, Zenon DEF IInv, TypeOK, PidGuardFails, nonMonVars, boundVars, hostVars
    <2> QED BY <1>3, <2>1, OutsideStep, ZenonT(60) DEF PidGuardFails, nonMonVars, boundVars
  <1>4. CASE GateOpens(r)
    <2>1. TypeOK'
      BY <1>4, <1>p, ZenonT(60) DEF IInv, TypeOK, GateOpens, nonMonVars, boundVars, hostVars, Phases
    <2> QED BY <1>4, <2>1, OutsideStep, ZenonT(60) DEF GateOpens, nonMonVars, boundVars
  <1>5. CASE MachineStarts(r)
    <2>1. [mon[r] EXCEPT !.phase = "up", !.vm = TRUE] \in Monitor
      BY <1>m, ZenonT(60) DEF Monitor, Phases
    <2>2. TypeOK'
      BY <1>5, <2>1, MonitorUpdate, ZenonT(60) DEF IInv, TypeOK, MachineStarts, nonMonVars, boundVars, hostVars
    <2> QED BY <1>5, <2>2, OutsideStep, Zenon DEF MachineStarts, nonMonVars, boundVars
  <1>6. CASE ReportStarted(r)
    <2>1. [mon[r] EXCEPT !.phase = "reported", !.syncpipe = "started"] \in Monitor
      BY <1>m, ZenonT(60) DEF Monitor, Phases
    <2>2. TypeOK'
      BY <1>6, <2>1, MonitorUpdate, Zenon DEF IInv, TypeOK, ReportStarted, nonMonVars, boundVars, hostVars
    <2> QED BY <1>6, <2>2, OutsideStep, Zenon DEF ReportStarted, nonMonVars, boundVars
  <1>7. CASE Serve(r)
    <2>1. TypeOK'
      BY <1>7, <1>p, ZenonT(60) DEF IInv, TypeOK, Serve, nonMonVars, boundVars, hostVars, Phases
    <2> QED BY <1>7, <2>1, OutsideStep, Zenon DEF Serve, nonMonVars, boundVars
  <1>8. CASE MonitorFails(r)
    <2>1. [mon[r] EXCEPT !.phase = "failing", !.outcome = "error"] \in Monitor
      BY <1>m, ZenonT(60) DEF Monitor, Phases
    <2>2. TypeOK'
      BY <1>8, <2>1, MonitorUpdate, Zenon DEF IInv, TypeOK, MonitorFails, nonMonVars, boundVars, hostVars
    <2> QED BY <1>8, <2>2, OutsideStep, Zenon DEF MonitorFails, nonMonVars, boundVars
  <1>9. CASE ReportFailed(r)
    <2> DEFINE end == IF mon[r].syncpipe = "open" THEN "failed" ELSE mon[r].syncpipe
    <2>1. [mon[r] EXCEPT !.phase = "exiting", !.syncpipe = end] \in Monitor
      BY <1>m, ZenonT(60) DEF Monitor, Phases
    <2>2. mon' = [mon EXCEPT ![r] = [mon[r] EXCEPT !.phase = "exiting", !.syncpipe = end]]
      BY <1>9, <1>m, Zenon DEF ReportFailed
    <2>3. TypeOK'
      BY <1>9, <2>1, <2>2, MonitorUpdate, ZenonT(60) DEF IInv, TypeOK, ReportFailed, nonMonVars, boundVars, hostVars
    <2> QED BY <1>9, <2>3, OutsideStep, Zenon DEF ReportFailed, nonMonVars, boundVars
  <1>10. CASE MachineStops(r)
    <2>1. [mon[r] EXCEPT !.vm = FALSE] \in Monitor
      BY <1>m, Zenon DEF Monitor
    <2>2. TypeOK'
      BY <1>10, <2>1, MonitorUpdate, ZenonT(60) DEF IInv, TypeOK, MachineStops, nonMonVars, boundVars, hostVars
    <2> QED BY <1>10, <2>2, OutsideStep, ZenonT(60) DEF MachineStops, nonMonVars, boundVars
  <1>11. CASE ShutdownDone(r)
    <2>1. [mon[r] EXCEPT !.phase = "exiting", !.outcome = "clean"] \in Monitor
      BY <1>m, ZenonT(60) DEF Monitor, Phases
    <2>2. TypeOK'
      BY <1>11, <2>1, MonitorUpdate, ZenonT(60) DEF IInv, TypeOK, ShutdownDone, nonMonVars, boundVars, hostVars
    <2> QED BY <1>11, <2>2, OutsideStep, ZenonT(60) DEF ShutdownDone, nonMonVars, boundVars
  <1>12. CASE WriteExitStatus(r)
    <2>1. TypeOK'
      BY <1>12, <1>p, ZenonT(60) DEF IInv, TypeOK, WriteExitStatus, nonMonVars, boundVars, Phases
    <2> QED BY <1>12, <2>1, OutsideStep, ZenonT(60) DEF WriteExitStatus, nonMonVars, boundVars
  <1>13. CASE PidGuardDrop(r)
    <2>1. TypeOK'
      BY <1>13, <1>p, Zenon DEF IInv, TypeOK, PidGuardDrop, NoPidfile, nonMonVars, boundVars, Phases
    <2> QED BY <1>13, <2>1, OutsideStep, Zenon DEF PidGuardDrop, nonMonVars, boundVars
  <1>14. CASE RunExitCommand(r)
    <2> DEFINE h == [IdleCaller EXCEPT !.pc = "relock", !.op = "cleanup"]
    <2>1. Hook \in Clients /\ cl' = [cl EXCEPT ![Hook] = h] /\ cl[Hook].pc = "idle"
      BY <1>14, Zenon DEF RunExitCommand
    <2>2. h \in Caller /\ h.pc = "relock" /\ h.op = "cleanup"
      BY Zenon DEF IdleCaller, Caller, Places, ClientOps
    <2> HIDE DEF h
    <2>3. mon' \in [Runs -> Monitor]
      BY <1>14, <1>p, Zenon DEF RunExitCommand, Phases
    <2>4. TypeOK'
      BY <1>14, <2>1, <2>2, <2>3, CallerStep, ZenonT(60) DEF IInv, TypeOK, RunExitCommand, boundVars, hostVars
    <2>5. Knows(Hook)'
      BY <2>1, <2>2, CallerStep, Zenon DEF Knows
    <2> QED BY <1>14, <2>1, <2>2, <2>4, <2>5, CallerStep, FreeStep, ZenonT(60)
            DEF RunExitCommand, LockedPlaces, boundVars
  <1>15. CASE MonitorExits(r)
    <2>1. mon' \in [Runs -> Monitor]
      BY <1>15, <1>k, Zenon DEF MonitorExits
    <2>2. CASE UNCHANGED <<cl, lock>>
      <3>1. TypeOK'
        BY <1>15, <2>1, <2>2, ZenonT(60) DEF IInv, TypeOK, MonitorExits, boundVars, hostVars
      <3> QED BY <1>15, <2>2, <3>1, OutsideStep, ZenonT(60) DEF MonitorExits, boundVars
    <2>3. CASE Hook # None /\ Return(Hook)
      <3>1. Hook \in Clients
        BY <2>3, Zenon
      <3>2. TypeOK'
        BY <1>15, <2>1, <2>3, <3>1, ReturnStep, ZenonT(60) DEF IInv, TypeOK, MonitorExits, boundVars, hostVars
      <3> QED BY <1>15, <2>3, <3>1, <3>2, GiveUp, ZenonT(60) DEF MonitorExits, boundVars
    <2> QED BY <1>15, <2>2, <2>3, Zenon DEF MonitorExits
  <1>16. CASE MonitorKilled(r)
    <2>1. crashes' \in 0..MaxCrashes
      BY <1>16 DEF MonitorKilled, IInv, TypeOK
    <2>2. TypeOK'
      BY <1>16, <1>k, <2>1, ZenonT(60) DEF IInv, TypeOK, MonitorKilled, hostVars
    <2> QED BY <1>16, <2>2, OutsideStep, Zenon DEF MonitorKilled
  <1> QED BY <1>1, <1>2, <1>3, <1>4, <1>5, <1>6, <1>7, <1>8, <1>9, <1>10, <1>11, <1>12, <1>13,
             <1>14, <1>15, <1>16, ZenonT(60) DEF MonitorStep

\* Pids taken and freed by other programs, and the passing of time.
LEMMA HostSteps ==
    ASSUME IInv, (\E p \in Pids : ProgramTakesPid(p) \/ ProgramExits(p)) \/ RowAges
    PROVE  IInv'
  <1>1. TypeOK'
    BY Zenon DEF IInv, TypeOK, ProgramTakesPid, ProgramExits, RowAges, hostVars, monVars, boundVars
  <1> QED BY <1>1, OutsideStep, Zenon DEF ProgramTakesPid, ProgramExits, RowAges, boundVars

-----------------------------------------------------------------------------
\* The theorems.

\* The invariant holds in every reachable state, however callers, monitors and the host
\* interleave, and whatever crashes.
THEOREM Invariance == Spec => []IInv
  <1>1. IInv /\ [Next]_vars => IInv'
    <2> SUFFICES ASSUME IInv, [Next]_vars PROVE IInv'
      BY Zenon
    <2>1. ASSUME NEW c \in Clients \ {Hook}, Arrive(c) PROVE IInv'
      BY <2>1, ArriveStep, Zenon
    <2>2. ASSUME NEW c \in Clients, Proceed(c) PROVE IInv'
      BY <2>2, ReconcileSteps, StartSteps, StopSteps, OtherSteps, ZenonT(60) DEF Proceed
    <2>3. ASSUME NEW c \in Clients, Crash(c) PROVE IInv'
      BY <2>3, CrashStep, Zenon
    <2>4. ASSUME NEW r \in Runs, MonitorStep(r) \/ MonitorKilled(r) PROVE IInv'
      BY <2>4, MonitorSteps, ZenonT(60)
    <2>5. CASE (\E p \in Pids : ProgramTakesPid(p) \/ ProgramExits(p)) \/ RowAges
      BY <2>5, HostSteps, ZenonT(60)
    <2>6. CASE UNCHANGED vars
      BY <2>6, ZenonT(60) DEF vars, IInv, TypeOK, LockHeld, Knows
    <2> QED BY <2>1, <2>2, <2>3, <2>4, <2>5, <2>6, ZenonT(60) DEF Next
  <1> QED BY <1>1, InitIInv, PTL DEF Spec

\* Every row, artifact, monitor and caller stays well formed: in particular a stop always
\* knows the pid it waits for, and a wait is always pinned to a process that exists.
THEOREM TypeCorrect == Spec => []TypeOK
  <1>1. IInv => TypeOK
    BY Zenon DEF IInv
  <1> QED BY <1>1, Invariance, PTL

\* The machine lock is a mutual exclusion lock for the critical sections of libvm.
THEOREM MutualExclusion ==
    Spec => [](\A c, d \in Clients :
                  cl[c].pc \in LockedPlaces /\ cl[d].pc \in LockedPlaces => c = d)
  <1>1. IInv => \A c, d \in Clients :
                  cl[c].pc \in LockedPlaces /\ cl[d].pc \in LockedPlaces => c = d
    BY Zenon DEF IInv, LockHeld
  <1> QED BY <1>1, Invariance, PTL

\* No transition that start, stop or kill applies is refused by the reducer.
THEOREM Legal == Spec => []TransitionsLegal
  <1>1. IInv => TransitionsLegal
    <2> SUFFICES ASSUME IInv, NEW c \in Clients
                 PROVE  /\ cl[c].pc = "request" => StartRequested(db, nextRun).error = None
                        /\ cl[c].pc \in {"spawn", "release", "sync", "ready"} =>
                             /\ StartFailed(db, cl[c].run, "stopped").error = None
                             /\ \A p \in Pids, t \in Times :
                                   MonitorReady(db, cl[c].run, p, t).error = None
                        /\ cl[c].pc = "mark" => StopRequested(db, generation).error = None
      BY Zenon DEF TransitionsLegal
    <2>1. Knows(c)
      BY Zenon DEF IInv
    <2>2. cl[c].pc = "request" => StartRequested(db, nextRun).error = None
      BY <2>1, Zenon DEF Knows, StartRequested, Accept
    <2>3. cl[c].pc \in {"spawn", "release", "sync", "ready"} =>
             /\ StartFailed(db, cl[c].run, "stopped").error = None
             /\ \A p \in Pids, t \in Times : MonitorReady(db, cl[c].run, p, t).error = None
      BY <2>1, Zenon DEF Knows, StartFailed, MonitorReady, require_run_id, Accept
    <2>4. cl[c].pc = "mark" => StopRequested(db, generation).error = None
      BY <2>1, Zenon DEF Knows, StopRequested, Accept, IsActive
    <2> QED BY <2>2, <2>3, <2>4, ZenonT(60)
  <1> QED BY <1>1, Invariance, PTL

-----------------------------------------------------------------------------
(* What callers may rely on about monitors *)

Tame == PromptMonitor /\ ~PidReuse

-----------------------------------------------------------------------------
(* The inductive invariant *)

\* A monitor that has still to write its pidfile, and one that has or will have one.
Starting(r) == mon[r].phase \in {"forked", "truncated"}
Present(r) == Starting(r) \/ mon[r].phase \in Registered
NonePresent == \A r \in Runs : ~ Present(r)

\* The process that had pid p is dead.
Gone(p) == \A r \in Runs : mon[r].pid = p => mon[r].phase = "dead"

\* Pid, birth time and run id are those of run q.
Names(q, pid, startedAt, runId) ==
    /\ mon[q].pid = pid
    /\ BirthTimes => startedAt = q
    /\ runId # None => runId = q

\* Every monitor has a pid of its own, and one at a time is present, with its network.
MonInv ==
    /\ alien = {}
    /\ \A r \in Runs : mon[r].pid = None <=> mon[r].phase = "none"
    /\ \A r \in Runs : r >= nextRun => mon[r].phase = "none"
    /\ \A r, q \in Runs : mon[r].pid = mon[q].pid /\ mon[r].pid # None => r = q
    /\ \A r, q \in Runs : Present(r) /\ Present(q) => r = q
    /\ \A r \in Runs : Present(r) => net

\* The pidfile is the present monitor's or was left behind by a dead one; the run of the row,
\* once it has reported, has its pid there or has removed the file.
FileInv ==
    /\ \A r \in Runs : mon[r].phase \in Registered => pidfile = [pid |-> mon[r].pid, by |-> r]
    /\ pidfile.pid \in Pids =>
          /\ pidfile.by \in Runs /\ mon[pidfile.by].pid = pidfile.pid
          /\ mon[pidfile.by].phase \in Registered \cup {"dead"}
    /\ \A r \in Runs : mon[r].phase \in {"none", "forked", "truncated", "gate", "boot", "up"} =>
          mon[r].syncpipe # "started"
    /\ db.runId # None /\ mon[db.runId].syncpipe = "started" =>
          pidfile.pid \in {mon[db.runId].pid, None}

\* The row of an inactive machine has no pid; pid, birth time and run id of a row agree, and no
\* other monitor than the row's is present.
RowInv ==
    /\ ~ IsActive(db.status) => db.pid = None
    /\ db.pid = None <=> db.startedAt = None
    /\ db.runId # None => \A q \in Runs : Present(q) => q = db.runId
    /\ db.pid # None =>
          \E q \in Runs : /\ Names(q, db.pid, db.startedAt, db.runId)
                          /\ \A r \in Runs : Present(r) => r = q

\* What the holder of the machine lock has found out.
Found(c) ==
    LET live == cl[c].live
    IN  IF live = None
        THEN NonePresent /\ (db.pid # None => Gone(db.pid))
        ELSE /\ db.pid # None => live.pid = db.pid
             /\ \E q \in Runs : /\ Names(q, live.pid, live.birth, db.runId)
                                /\ \A r \in Runs : Present(r) => r = q

HolderInv(c) ==
    /\ cl[c].pc \in {"probe", "exit", "act", "mark", "complete"} => \A r \in Runs : ~ Starting(r)
    /\ cl[c].pc = "exit" => Found(c)
    /\ cl[c].pc = "act" /\ db.pid = None => NonePresent
    /\ cl[c].pc \in {"request", "spawn"} => NonePresent /\ net
    /\ cl[c].pc \in {"request", "spawn", "release", "sync", "ready"} => db.pid = None
    /\ cl[c].pc = "spawn" => mon[cl[c].run].phase = "none" /\ cl[c].run < nextRun
    /\ cl[c].pc = "ready" => mon[cl[c].run].syncpipe = "started"
    /\ cl[c].pc \in {"mark", "complete"} => cl[c].op \in {"stop", "kill"}
    /\ cl[c].pc = "try" => cl[c].op = "refresh"

\* The places after the wait for a monitor's exit.
Past(c) ==
    \/ cl[c].pc \in {"complete", "report"}
    \/ cl[c].pc = "relock" /\ cl[c].op \in {"stop", "kill", "settle"}
    \/ cl[c].pc \in {"probe", "exit", "act"} /\ cl[c].op = "settle"

\* What a caller that waits knows about the monitor it waits for.
WaitInv(c) ==
    /\ cl[c].gen # None =>
          \E q \in Runs : Names(q, cl[c].gen.pid, cl[c].gen.startedAt, cl[c].gen.runId)
    /\ cl[c].pc = "watch" => cl[c].target \in Runs /\ mon[cl[c].target].pid = cl[c].gen.pid
    /\ Past(c) => cl[c].gen # None /\ Gone(cl[c].gen.pid)

\* A requested stop is on record as long as the row names the monitor it was asked of; the row
\* that has dropped a dead monitor does not take it up again.
Stopper(c) == cl[c].pc \in {"await", "watch", "relock", "complete"} /\ cl[c].op \in {"stop", "kill"}
StopInv(c) ==
    Stopper(c) =>
        \/ db.pid = cl[c].gen.pid /\ db.status = "stopping"
        \/ /\ db.pid # cl[c].gen.pid /\ Gone(cl[c].gen.pid)
           /\ \A d \in Clients : cl[d].pc = "exit" /\ cl[d].live # None => cl[d].live.pid # cl[c].gen.pid

JInv ==
    /\ MonInv /\ FileInv /\ RowInv
    /\ \A c \in Clients : HolderInv(c) /\ WaitInv(c) /\ StopInv(c)

-----------------------------------------------------------------------------
(* How the monitors may move *)

\* Pids stay and are not handed out again, and the dead stay dead.
Keeps ==
    /\ \A r \in Runs : mon[r].pid # None =>
          mon'[r].pid = mon[r].pid /\ (mon[r].phase = "dead" => mon'[r].phase = "dead")
    /\ \A r, q \in Runs : mon[r].pid = None /\ mon'[r].pid # None => mon'[r].pid # mon[q].pid

\* Beyond that, nothing is launched and nothing becomes present.
Evolves ==
    \A r \in Runs :
        /\ mon'[r].pid = mon[r].pid
        /\ mon[r].phase = "none" <=> mon'[r].phase = "none"
        /\ mon[r].phase = "dead" => mon'[r].phase = "dead"
        /\ Starting(r)' => Starting(r)
        /\ Present(r)' => Present(r)
        /\ mon[r].syncpipe = "started" => mon'[r].syncpipe = "started"

Early == {"none", "forked", "truncated", "gate", "boot", "up"}

\* From record a to record b of a monitor that leaves the pidfile alone.
Rec(a, b) ==
    /\ b.pid = a.pid
    /\ a.phase = "none" <=> b.phase = "none"
    /\ a.phase = "dead" => b.phase = "dead"
    /\ b.phase \in {"forked", "truncated"} => a.phase \in {"forked", "truncated"}
    /\ b.phase \in Registered => a.phase \in Registered
    /\ a.phase \in Registered \cup {"dead"} => b.phase \in Registered \cup {"dead"}
    /\ a.syncpipe = "started" => b.syncpipe = "started"
    /\ b.syncpipe = "started" => a.syncpipe = "started" \/ a.phase = "up"
    /\ b.phase \in Early /\ b.syncpipe = "started" => a.phase \in Early /\ a.syncpipe = "started"
Tidy == \A r \in Runs : Rec(mon[r], mon'[r])

\* One monitor moves.
LEMMA OneMoves ==
    ASSUME TypeOK, NEW r \in Runs, NEW m, mon' = [mon EXCEPT ![r] = m], Rec(mon[r], m)
    PROVE  Tidy
  <1>1. mon'[r] = m /\ \A q \in Runs \ {r} : mon'[q] = mon[q]
    BY Zenon DEF TypeOK
  <1>2. \A q \in Runs : Rec(mon[q], mon[q])
    BY Zenon DEF Rec
  <1> QED BY <1>1, <1>2, Zenon DEF Tidy

\* A monitor that leaves the pidfile alone moves within these bounds.
LEMMA TidyEvolves == ASSUME Tidy PROVE Evolves
  BY ZenonT(60) DEF Tidy, Rec, Evolves, Starting, Present

\* ... and keeps what the pidfile says true.
LEMMA TidyFile ==
    ASSUME TypeOK, FileInv, Tidy, UNCHANGED pidfile, db'.runId \in {None, db.runId}
    PROVE  FileInv'
  <1>1. \A r \in Runs : mon'[r].phase \in Registered => pidfile = [pid |-> mon'[r].pid, by |-> r]
    BY ZenonT(60) DEF FileInv, Tidy, Rec
  <1>2. pidfile.pid \in Pids =>
          /\ pidfile.by \in Runs /\ mon'[pidfile.by].pid = pidfile.pid
          /\ mon'[pidfile.by].phase \in Registered \cup {"dead"}
    BY Zenon DEF FileInv, Tidy, Rec
  <1>3. \A r \in Runs : mon'[r].phase \in Early => mon'[r].syncpipe # "started"
    BY Zenon DEF FileInv, Tidy, Rec, Early
  <1>4. ASSUME db.runId # None, mon'[db.runId].syncpipe = "started"
        PROVE  pidfile.pid \in {mon'[db.runId].pid, None}
    <2>1. db.runId \in Runs
      BY <1>4, Zenon DEF TypeOK, MachineState
    <2>2. mon'[db.runId].pid = mon[db.runId].pid
      BY <2>1, Zenon DEF Tidy, Rec
    <2>3. CASE mon[db.runId].syncpipe = "started"
      BY <1>4, <2>2, <2>3, Zenon DEF FileInv
    <2>4. CASE mon[db.runId].phase = "up"
      BY <2>1, <2>2, <2>4 DEF FileInv, Registered
    <2> QED BY <1>4, <2>1, <2>3, <2>4, Zenon DEF Tidy, Rec
  <1>5. ASSUME db'.runId # None, mon'[db'.runId].syncpipe = "started"
        PROVE  pidfile.pid \in {mon'[db'.runId].pid, None}
    BY <1>4, <1>5, Zenon
  <1> QED BY <1>1, <1>2, <1>3, <1>5, Zenon DEF FileInv, Early

\* Moving within the bounds keeps pids and deaths.
LEMMA EvolvesKeeps == ASSUME Evolves PROVE Keeps
  BY Zenon DEF Evolves, Keeps

\* Monitors that move within the bounds keep what is known about them ...
LEMMA EvolvesMon ==
    ASSUME MonInv, Evolves, UNCHANGED <<alien, nextRun>>, net' = net \/ NonePresent
    PROVE  MonInv'
  BY DEF MonInv, Evolves, NonePresent

\* ... and what the row says about them.
LEMMA EvolvesRow ==
    ASSUME RowInv, Evolves, UNCHANGED db
    PROVE  RowInv'
  <1>1. ASSUME db.pid # None
        PROVE \E q \in Runs : /\ Names(q, db.pid, db.startedAt, db.runId)'
                              /\ \A r \in Runs : Present(r)' => r = q
    <2>1. PICK q \in Runs : /\ Names(q, db.pid, db.startedAt, db.runId)
                            /\ \A r \in Runs : Present(r) => r = q
      BY <1>1, Zenon DEF RowInv
    <2>2. Names(q, db.pid, db.startedAt, db.runId)'
      BY <2>1, Zenon DEF Names, Evolves
    <2> QED BY <2>1, <2>2, Zenon DEF Evolves
  <1> QED BY <1>1, Zenon DEF RowInv, Evolves

\* A run that was named stays named.
LEMMA NamesKept ==
    ASSUME Keeps, NEW q \in Runs, NEW p \in Pids, NEW t, NEW i, Names(q, p, t, i)
    PROVE  Names(q, p, t, i)'
  BY LifecycleAssumption, Zenon DEF Keeps, Names

\* A process that is gone stays gone.
LEMMA GoneKept ==
    ASSUME Keeps, NEW p \in Pids, NEW q \in Runs, mon[q].pid = p, Gone(p)
    PROVE  Gone(p)'
  BY LifecycleAssumption, ZenonT(60) DEF Keeps, Gone

-----------------------------------------------------------------------------
(* How a step carries the invariant over *)

\* A caller that does not move keeps what it knows about the monitor it waits for.
LEMMA WaitKept ==
    ASSUME IInv, JInv, Keeps, NEW d \in Clients, cl'[d] = cl[d]
    PROVE  WaitInv(d)'
  <1>1. PICK s \in Caller : s = cl[d]
    BY Zenon DEF IInv, TypeOK
  <1>2. WaitInv(d)
    BY Zenon DEF JInv
  <1>3. s.gen # None => s.gen \in VmmonRunIdentity /\ s.gen.pid \in Pids
    BY Zenon DEF Caller, VmmonRunIdentity
  <1>4. ASSUME s.gen # None
        PROVE \E q \in Runs : Names(q, s.gen.pid, s.gen.startedAt, s.gen.runId)'
    <2>1. PICK q \in Runs : Names(q, s.gen.pid, s.gen.startedAt, s.gen.runId)
      BY <1>1, <1>2, <1>4, ZenonT(60) DEF WaitInv
    <2>2. Names(q, s.gen.pid, s.gen.startedAt, s.gen.runId)'
      BY <1>3, <1>4, <2>1, NamesKept, ZenonT(60)
    <2> QED BY <2>2, Zenon
  <1>5. ASSUME s.pc = "watch" PROVE s.target \in Runs /\ mon'[s.target].pid = s.gen.pid
    <2>1. s.target \in Runs /\ mon[s.target].pid = s.gen.pid /\ s.gen # None
      BY <1>1, <1>2, <1>5, Zenon DEF WaitInv, IInv, Knows
    <2> QED BY <1>3, <2>1, LifecycleAssumption, Zenon DEF Keeps
  <1>6. ASSUME Past(d) PROVE s.gen # None /\ Gone(s.gen.pid)'
    <2>1. s.gen # None /\ Gone(s.gen.pid)
      BY <1>1, <1>2, <1>6, Zenon DEF WaitInv
    <2>2. PICK q \in Runs : mon[q].pid = s.gen.pid
      BY <1>1, <1>2, <2>1, Zenon DEF WaitInv, Names
    <2> QED BY <1>3, <2>1, <2>2, GoneKept, Zenon
  <1>7. cl'[d] = s
    BY <1>1, Zenon
  <1>8. Past(d)' => Past(d)
    BY <1>1, <1>7, Zenon DEF Past
  <1> QED BY <1>4, <1>5, <1>6, <1>7, <1>8, Zenon DEF WaitInv
\* A caller that does not move keeps what it found out, as long as the row and the network stay.
LEMMA HolderKept ==
    ASSUME IInv, JInv, Evolves, NEW d \in Clients, cl'[d] = cl[d], UNCHANGED <<db, nextRun, net>>
    PROVE  HolderInv(d)'
  <1>1. PICK s \in Caller : s = cl[d]
    BY Zenon DEF IInv, TypeOK
  <1>2. HolderInv(d) /\ cl'[d] = s
    BY <1>1, Zenon DEF JInv
  <1>3. ASSUME s.pc = "exit" PROVE Found(d)'
    <2>1. Found(d)
      BY <1>1, <1>2, <1>3, Zenon DEF HolderInv
    <2>2. CASE s.live = None
      BY <1>1, <1>2, <2>1, <2>2, ZenonT(60) DEF Found, NonePresent, Gone, Evolves
    <2>3. CASE s.live # None
      <3>1. PICK q \in Runs : /\ Names(q, s.live.pid, s.live.birth, db.runId)
                              /\ \A r \in Runs : Present(r) => r = q
        BY <1>1, <2>1, <2>3, ZenonT(60) DEF Found
      <3>2. mon'[q].pid = s.live.pid /\ (BirthTimes => s.live.birth = q) /\ (db.runId # None => db.runId = q)
        BY <3>1, Zenon DEF Names, Evolves
      <3>3. \A r \in Runs : Present(r)' => r = q
        BY <3>1, Zenon DEF Evolves
      <3> QED BY <1>1, <1>2, <2>1, <2>3, <3>2, <3>3, ZenonT(60) DEF Found, Names
    <2> QED BY <2>2, <2>3, Zenon
  <1>4. s.pc = "spawn" => s.run \in Runs
    BY <1>1, Zenon DEF IInv, Knows
  <1>5. s.pc = "ready" => s.run \in Runs
    BY <1>1, Zenon DEF IInv, Knows
  <1>6. NonePresent => NonePresent'
    BY Zenon DEF NonePresent, Evolves
  <1> QED BY <1>1, <1>2, <1>3, <1>4, <1>5, <1>6 DEF HolderInv, Evolves

\* A caller that waits for a stop keeps what it relies on, as long as the row stays and whoever
\* probes finds only the living.
LEMMA StopKept ==
    ASSUME IInv, JInv, Keeps, UNCHANGED db,
           NEW d \in Clients, cl'[d].gen = cl[d].gen, Stopper(d)' => Stopper(d),
           \A e \in Clients : cl'[e].pc = "exit" /\ cl'[e].live # None =>
               cl'[e] = cl[e] \/ ~ Gone(cl'[e].live.pid)
    PROVE  StopInv(d)'
  <1>1. PICK s \in Caller : s = cl[d]
    BY Zenon DEF IInv, TypeOK
  <1>2. StopInv(d) /\ WaitInv(d) /\ Knows(d) /\ cl'[d].gen = s.gen
    BY <1>1, Zenon DEF JInv, IInv
  <1>3. SUFFICES ASSUME Stopper(d)'
        PROVE \/ db.pid = s.gen.pid /\ db.status = "stopping"
              \/ /\ db.pid # s.gen.pid /\ Gone(s.gen.pid)'
                 /\ \A e \in Clients : cl'[e].pc = "exit" /\ cl'[e].live # None => cl'[e].live.pid # s.gen.pid
    BY <1>2, Zenon DEF StopInv
  <1>4. Stopper(d) /\ s.gen # None /\ s.gen.pid \in Pids
    BY <1>1, <1>2, <1>3, ZenonT(60) DEF Stopper, Knows, Caller, VmmonRunIdentity
  <1>5. CASE db.pid = s.gen.pid /\ db.status = "stopping"
    BY <1>5, Zenon
  <1>6. CASE /\ db.pid # s.gen.pid /\ Gone(s.gen.pid)
             /\ \A e \in Clients : cl[e].pc = "exit" /\ cl[e].live # None => cl[e].live.pid # s.gen.pid
    <2>1. PICK q \in Runs : mon[q].pid = s.gen.pid
      BY <1>1, <1>2, <1>4, ZenonT(60) DEF WaitInv, Names
    <2>2. Gone(s.gen.pid)'
      BY <1>4, <1>6, <2>1, GoneKept, Zenon
    <2> QED BY <1>6, <2>2, Zenon
  <1> QED BY <1>1, <1>2, <1>4, <1>5, <1>6, ZenonT(60) DEF StopInv

\* A step of one caller, or of none, that leaves the row, the network and the launches alone.
LEMMA CallerMoves ==
    ASSUME IInv, JInv, NEW c \in Clients, \A d \in Clients \ {c} : cl'[d] = cl[d],
           Evolves, FileInv', UNCHANGED <<db, nextRun, net, alien>>,
           HolderInv(c)', WaitInv(c)', StopInv(c)',
           cl'[c].pc = "exit" /\ cl'[c].live # None => ~ Gone(cl'[c].live.pid)
    PROVE  JInv'
  <1>1. MonInv' /\ RowInv'
    BY EvolvesMon, EvolvesRow, Zenon DEF JInv
  <1>2. ASSUME NEW d \in Clients \ {c} PROVE HolderInv(d)' /\ WaitInv(d)' /\ StopInv(d)'
    BY EvolvesKeeps, HolderKept, WaitKept, StopKept, ZenonT(60) DEF Stopper
  <1> QED BY <1>1, <1>2, Zenon DEF JInv

\* A step of a monitor.
LEMMA MonitorMoves ==
    ASSUME IInv, JInv, Evolves, FileInv', UNCHANGED <<cl, db, nextRun, net, alien>>
    PROVE  JInv'
  <1>1. MonInv' /\ RowInv'
    BY EvolvesMon, EvolvesRow, Zenon DEF JInv
  <1>2. ASSUME NEW d \in Clients PROVE HolderInv(d)' /\ WaitInv(d)' /\ StopInv(d)'
    BY EvolvesKeeps, HolderKept, WaitKept, StopKept, ZenonT(60) DEF Stopper
  <1> QED BY <1>1, <1>2, Zenon DEF JInv

\* A monitor step that leaves the pidfile alone.
LEMMA TidyMoves ==
    ASSUME IInv, JInv, Tidy, UNCHANGED <<pidfile, cl, db, nextRun, net, alien>>
    PROVE  JInv'
  BY TidyEvolves, TidyFile, MonitorMoves, Zenon DEF IInv, JInv

\* How the row may change under the lock of caller c: it keeps its pid and a requested stop; or
\* it drops a monitor that is gone; or it takes up one that no stop has outlived.
RowStep(c) ==
    \/ db'.pid = db.pid /\ (db.pid # None /\ db.status = "stopping" => db'.status = "stopping")
    \/ db'.pid = None /\ (db.pid # None => Gone(db.pid))
    \/ db.pid = None /\ \A d \in Clients \ {c} : Stopper(d) => db'.pid # cl[d].gen.pid

\* A step of the holder of the lock.
LEMMA HolderMoves ==
    ASSUME IInv, JInv, NEW c \in Clients, cl[c].pc \in LockedPlaces,
           \A d \in Clients \ {c} : cl'[d] = cl[d], cl'[c].pc # "exit",
           Keeps, MonInv', FileInv', RowInv', RowStep(c),
           HolderInv(c)', WaitInv(c)', StopInv(c)'
    PROVE  JInv'
  <1>1. ASSUME NEW d \in Clients \ {c} PROVE HolderInv(d)'
    BY <1>1, Alone DEF HolderInv, LockedPlaces, JInv
  <1>2. ASSUME NEW d \in Clients \ {c} PROVE WaitInv(d)'
    BY <1>2, WaitKept, Zenon
  <1>3. ASSUME NEW d \in Clients \ {c} PROVE StopInv(d)'
    <2>1. PICK s \in Caller : s = cl[d]
      BY Zenon DEF IInv, TypeOK
    <2>2. StopInv(d) /\ WaitInv(d) /\ Knows(d) /\ cl'[d] = s
      BY <2>1, Zenon DEF JInv, IInv
    <2>3. SUFFICES ASSUME Stopper(d)'
          PROVE \/ db'.pid = s.gen.pid /\ db'.status = "stopping"
                \/ /\ db'.pid # s.gen.pid /\ Gone(s.gen.pid)'
                   /\ \A e \in Clients : cl'[e].pc = "exit" /\ cl'[e].live # None => cl'[e].live.pid # s.gen.pid
      BY <2>2, Zenon DEF StopInv
    <2>4. Stopper(d) /\ s.gen # None /\ s.gen.pid \in Pids
      BY <2>1, <2>2, <2>3, ZenonT(60) DEF Stopper, Knows, Caller, VmmonRunIdentity
    <2>5. \A e \in Clients : cl'[e].pc # "exit"
      BY Alone, Zenon DEF LockedPlaces
    <2>6. PICK q \in Runs : mon[q].pid = s.gen.pid
      BY <2>1, <2>2, <2>4, ZenonT(60) DEF WaitInv, Names
    <2>7. Gone(s.gen.pid) => Gone(s.gen.pid)'
      BY <2>4, <2>6, GoneKept, ZenonT(60)
    <2>8. CASE db.pid = s.gen.pid /\ db.status = "stopping"
      BY <2>4, <2>5, <2>7, <2>8, LifecycleAssumption, ZenonT(60) DEF RowStep
    <2>9. CASE db.pid # s.gen.pid /\ Gone(s.gen.pid)
      BY <2>1, <2>4, <2>5, <2>7, <2>9, LifecycleAssumption, ZenonT(60) DEF RowStep
    <2> QED BY <2>1, <2>2, <2>4, <2>8, <2>9, Zenon DEF StopInv
  <1> QED BY <1>1, <1>2, <1>3, ZenonT(60) DEF JInv

\* A caller that has returned relies on nothing.
LEMMA IdleKnows ==
    ASSUME NEW c \in Clients, cl'[c] = IdleCaller
    PROVE  HolderInv(c)' /\ WaitInv(c)' /\ StopInv(c)' /\ cl'[c].pc # "exit"
  <1>1. IdleCaller.pc = "idle" /\ IdleCaller.gen = None
    BY Zenon DEF IdleCaller
  <1> QED BY <1>1, Zenon DEF HolderInv, WaitInv, StopInv, Past, Stopper
-----------------------------------------------------------------------------
(* The first state and the steps of the monitors *)

\* A stopped machine without a monitor.
LEMMA SafeInit == Init => JInv
  <1> SUFFICES ASSUME Init PROVE JInv
    BY Zenon
  <1> USE LifecycleAssumption
  <1>1. \A r \in Runs : mon[r].phase = "none" /\ mon[r].pid = None /\ mon[r].syncpipe = "open"
    BY Zenon DEF Init, NoMonitor
  <1>2. db.pid = None /\ db.startedAt = None /\ db.runId = None /\ pidfile.pid = None /\ alien = {}
    BY Zenon DEF Init, Cleared, replace_runtime, NoPidfile
  <1>3. \A c \in Clients : cl[c].pc = "idle" /\ cl[c].gen = None
    BY Zenon DEF Init, IdleCaller
  <1>4. \A r \in Runs : ~ Present(r)
    BY <1>1, Zenon DEF Present, Starting, Registered
  <1>5. MonInv
    BY <1>1, <1>2, <1>4, ZenonT(60) DEF MonInv
  <1>6. FileInv
    BY <1>1, <1>2, ZenonT(60) DEF FileInv, Registered
  <1>7. RowInv
    BY <1>2, Zenon DEF RowInv
  <1>8. \A c \in Clients : HolderInv(c) /\ WaitInv(c) /\ StopInv(c)
    BY <1>3, ZenonT(60) DEF HolderInv, WaitInv, StopInv, Past, Stopper
  <1> QED BY <1>5, <1>6, <1>7, <1>8, ZenonT(60) DEF JInv

\* A killed monitor is dead, and an interrupted one is dead or on its way out.
LEMMA SignalsAreTidy ==
    ASSUME NEW m \in Monitor, m.phase # "none"
    PROVE  Rec(m, Killed(m)) /\ Rec(m, Interrupted(m))
  <1>1. Rec(m, Killed(m))
    <2>1. Killed(m).phase = "dead" /\ Killed(m).pid = m.pid /\ Killed(m).syncpipe = m.syncpipe
      BY Zenon DEF Monitor, Killed
    <2> HIDE DEF Killed
    <2> QED BY <2>1, Zenon DEF Rec, Registered, Early
  <1>2. ASSUME NEW to \in {"stopping", "exiting"}, m.phase \in {"serving", "stopping"}, NEW n,
               n.phase = to, n.pid = m.pid, n.syncpipe = m.syncpipe
        PROVE Rec(m, n)
    BY <1>2, Zenon DEF Rec, Registered, Early
  <1>3. CASE m.phase = "serving"
    <2>1. Interrupted(m) = [m EXCEPT !.phase = "stopping"]
      BY <1>3, ZenonT(60) DEF Interrupted
    <2>2. /\ Interrupted(m).phase = "stopping" /\ Interrupted(m).pid = m.pid
          /\ Interrupted(m).syncpipe = m.syncpipe
      BY <2>1, ZenonT(60) DEF Monitor
    <2> QED BY <1>1, <1>2, <1>3, <2>2, ZenonT(60)
  <1>4. CASE m.phase = "stopping"
    <2>1. Interrupted(m) = [m EXCEPT !.phase = "exiting", !.outcome = "clean"]
      BY <1>4, Zenon DEF Interrupted
    <2>2. /\ Interrupted(m).phase = "exiting" /\ Interrupted(m).pid = m.pid
          /\ Interrupted(m).syncpipe = m.syncpipe
      BY <2>1, Zenon DEF Monitor
    <2> QED BY <1>1, <1>2, <1>4, <2>2, ZenonT(60)
  <1>5. CASE m.phase \in {"forked", "truncated", "gate", "boot", "up", "reported"}
    BY <1>1, <1>5, Zenon DEF Interrupted
  <1>6. CASE m.phase \notin {"forked", "truncated", "gate", "boot", "up", "reported", "serving", "stopping"}
    <2>1. Interrupted(m) = m
      BY <1>6, Zenon DEF Interrupted
    <2>2. Rec(m, m)
      BY Zenon DEF Rec
    <2> QED BY <1>1, <2>1, <2>2, Zenon
  <1> QED BY <1>1, <1>3, <1>4, <1>5, <1>6, Zenon

\* The steps of vmmon from its fork to its exit.
LEMMA SafeMonitorSteps ==
    ASSUME IInv, JInv, NEW r \in Runs, MonitorStep(r) \/ MonitorKilled(r)
    PROVE  JInv'
  <1> USE LifecycleAssumption
  <1>m. mon[r] \in Monitor /\ mon \in [Runs -> Monitor] /\ TypeOK
    BY Zenon DEF IInv, TypeOK
  <1>s. ASSUME NEW m, m.pid = mon[r].pid, m.syncpipe = mon[r].syncpipe,
               <<mon[r].phase, m.phase>> \in
                   {<<"gate", "boot">>, <<"boot", "up">>, <<"reported", "serving">>, <<"gate", "failing">>,
                    <<"boot", "failing">>, <<"up", "failing">>, <<"serving", "failing">>,
                    <<"stopping", "failing">>, <<"serving", "exiting">>, <<"stopping", "exiting">>,
                    <<"exiting", "unlink">>, <<"hook", "hooking">>, <<mon[r].phase, mon[r].phase>>}
        PROVE Rec(mon[r], m)
    BY <1>s, Zenon DEF Rec, Registered, Early
  <1>k. ASSUME mon' = [mon EXCEPT ![r] = Killed(@)], mon[r].phase # "none" PROVE Tidy
    <2>1. mon' = [mon EXCEPT ![r] = Killed(mon[r])]
      BY <1>k, <1>m, Zenon
    <2> QED BY <1>k, <1>m, <2>1, SignalsAreTidy, OneMoves, ZenonT(60)
  <1>g. ASSUME NEW from, NEW to, Monitors(r, from, to)
        PROVE /\ mon[r].phase = from
              /\ mon'[r].phase = to /\ mon'[r].pid = mon[r].pid /\ mon'[r].syncpipe = mon[r].syncpipe
              /\ \A q \in Runs \ {r} : mon'[q] = mon[q]
              /\ mon' = [mon EXCEPT ![r] = mon'[r]]
    BY <1>g, <1>m, ZenonT(60) DEF Monitors, Monitor
  <1>o. \A q \in Runs : Present(r) /\ Present(q) => q = r
    BY Zenon DEF JInv, MonInv
  <1>d. db.runId # None /\ Present(r) => db.runId = r
    BY Zenon DEF JInv, RowInv
  <1>1. CASE PidGuardOpen(r)
    <2>1. /\ mon[r].phase = "forked" /\ mon'[r].phase = "truncated" /\ mon'[r].pid = mon[r].pid
          /\ mon'[r].syncpipe = mon[r].syncpipe /\ \A q \in Runs \ {r} : mon'[q] = mon[q]
      BY <1>1, <1>g, Zenon DEF PidGuardOpen
    <2>2. Evolves
      BY <2>1, ZenonT(60) DEF Evolves, Present, Starting, Registered
    <2>3. Present(r) /\ mon[r].syncpipe # "started"
      BY <2>1, Zenon DEF Present, Starting, JInv, FileInv
    <2>4. pidfile' = [pid |-> Garbled, by |-> r] /\ UNCHANGED <<cl, db, nextRun, net, alien>>
      BY <1>1, ZenonT(60) DEF PidGuardOpen, nonMonVars, boundVars
    <2>5. FileInv'
      BY <1>o, <1>d, <2>1, <2>3, <2>4 DEF JInv, FileInv, Present, Registered
    <2> QED BY <2>2, <2>4, <2>5, MonitorMoves, ZenonT(60)
  <1>2. CASE PidGuardWrite(r)
    <2>1. /\ mon[r].phase = "truncated" /\ mon'[r].phase = "gate" /\ mon'[r].pid = mon[r].pid
          /\ mon'[r].syncpipe = mon[r].syncpipe /\ \A q \in Runs \ {r} : mon'[q] = mon[q]
      BY <1>2, <1>g, Zenon DEF PidGuardWrite
    <2>2. Evolves
      BY <2>1, ZenonT(60) DEF Evolves, Present, Starting, Registered
    <2>3. Present(r) /\ mon[r].syncpipe # "started"
      BY <2>1, ZenonT(60) DEF Present, Starting, JInv, FileInv
    <2>4. pidfile' = [pid |-> mon[r].pid, by |-> r] /\ UNCHANGED <<cl, db, nextRun, net, alien>>
      BY <1>2, Zenon DEF PidGuardWrite, nonMonVars, boundVars
    <2>5. FileInv'
      BY <1>o, <1>d, <2>1, <2>3, <2>4 DEF JInv, FileInv, Present, Registered
    <2> QED BY <2>2, <2>4, <2>5, MonitorMoves, Zenon
  <1>3. CASE PidGuardDrop(r)
    <2>1. /\ mon[r].phase = "unlink" /\ mon'[r].phase = "hook" /\ mon'[r].pid = mon[r].pid
          /\ mon'[r].syncpipe = mon[r].syncpipe /\ \A q \in Runs \ {r} : mon'[q] = mon[q]
      BY <1>3, <1>g, ZenonT(60) DEF PidGuardDrop
    <2>2. Evolves
      BY <2>1, ZenonT(60) DEF Evolves, Present, Starting, Registered
    <2>3. Present(r)
      BY <2>1, ZenonT(60) DEF Present, Registered
    <2>4. pidfile' = [pid |-> None, by |-> 0] /\ UNCHANGED <<cl, db, nextRun, net, alien>>
      BY <1>3, ZenonT(60) DEF PidGuardDrop, NoPidfile, nonMonVars, boundVars
    <2>5. FileInv'
      BY <1>o, <2>1, <2>3, <2>4 DEF JInv, FileInv, Present, Registered
    <2> QED BY <2>2, <2>4, <2>5, MonitorMoves, Zenon
  <1>4. CASE PidGuardFails(r)
    BY <1>4, <1>k, TidyMoves, Zenon DEF PidGuardFails, nonMonVars, boundVars, hostVars
  <1>5. CASE GateOpens(r) \/ Serve(r)
    <2>1. PICK from, to : Monitors(r, from, to) /\ <<from, to>> \in {<<"gate", "boot">>, <<"reported", "serving">>}
      BY <1>5, ZenonT(60) DEF GateOpens, Serve
    <2>2. Rec(mon[r], mon'[r])
      BY <1>g, <1>s, <2>1
    <2>3. Tidy
      BY <1>g, <1>m, <2>1, <2>2, OneMoves, Zenon
    <2> QED BY <1>5, <2>3, TidyMoves, ZenonT(60) DEF GateOpens, Serve, nonMonVars, boundVars, hostVars
  <1>6. CASE WriteExitStatus(r)
    <2>1. Monitors(r, "exiting", "unlink")
      BY <1>6, ZenonT(60) DEF WriteExitStatus
    <2>2. Rec(mon[r], mon'[r])
      BY <1>g, <1>s, <2>1
    <2>3. Tidy
      BY <1>g, <1>m, <2>1, <2>2, OneMoves, Zenon
    <2> QED BY <1>6, <2>3, TidyMoves, ZenonT(60) DEF WriteExitStatus, nonMonVars, boundVars
  <1>7. CASE MachineStarts(r)
    <2> DEFINE m == [mon[r] EXCEPT !.phase = "up", !.vm = TRUE]
    <2>1. mon' = [mon EXCEPT ![r] = m] /\ mon[r].phase = "boot"
      BY <1>7, <1>m, ZenonT(60) DEF MachineStarts
    <2>2. m.phase = "up" /\ m.pid = mon[r].pid /\ m.syncpipe = mon[r].syncpipe
      BY <1>m, Zenon DEF Monitor
    <2>3. Tidy
      BY <1>m, <1>s, <2>1, <2>2, OneMoves, ZenonT(60)
    <2> QED BY <1>7, <2>3, TidyMoves, ZenonT(60) DEF MachineStarts, nonMonVars, boundVars, hostVars
  <1>8. CASE ReportStarted(r)
    <2> DEFINE m == [mon[r] EXCEPT !.phase = "reported", !.syncpipe = "started"]
    <2>1. mon' = [mon EXCEPT ![r] = m] /\ mon[r].phase = "up"
      BY <1>8, <1>m, Zenon DEF ReportStarted
    <2>2. m.phase = "reported" /\ m.pid = mon[r].pid /\ m.syncpipe = "started"
      BY <1>m, Zenon DEF Monitor
    <2> HIDE DEF m
    <2>3. Rec(mon[r], m)
      BY <2>1, <2>2, Zenon DEF Rec, Registered, Early
    <2>4. Tidy
      BY <1>m, <2>1, <2>3, OneMoves, ZenonT(60)
    <2> QED BY <1>8, <2>4, TidyMoves, ZenonT(60) DEF ReportStarted, nonMonVars, boundVars, hostVars
  <1>9. CASE MonitorFails(r)
    <2> DEFINE m == [mon[r] EXCEPT !.phase = "failing", !.outcome = "error"]
    <2>1. mon' = [mon EXCEPT ![r] = m] /\ mon[r].phase \in {"gate", "boot", "up", "serving", "stopping"}
      BY <1>9, <1>m, Zenon DEF MonitorFails
    <2>2. m.phase = "failing" /\ m.pid = mon[r].pid /\ m.syncpipe = mon[r].syncpipe
      BY <1>m, Zenon DEF Monitor
    <2> HIDE DEF m
    <2>3. Tidy
      BY <1>m, <1>s, <2>1, <2>2, OneMoves, ZenonT(60)
    <2> QED BY <1>9, <2>3, TidyMoves, Zenon DEF MonitorFails, nonMonVars, boundVars, hostVars
  <1>10. CASE ReportFailed(r)
    <2> DEFINE end == IF mon[r].syncpipe = "open" THEN "failed" ELSE mon[r].syncpipe
               m == [mon[r] EXCEPT !.phase = "exiting", !.syncpipe = end]
    <2>1. mon' = [mon EXCEPT ![r] = m] /\ mon[r].phase = "failing"
      BY <1>10, <1>m, ZenonT(60) DEF ReportFailed
    <2>e. end = "started" <=> mon[r].syncpipe = "started"
      BY Zenon
    <2> HIDE DEF end
    <2>2. m.phase = "exiting" /\ m.pid = mon[r].pid /\ m.syncpipe = end
      BY <1>m, Zenon DEF Monitor
    <2> HIDE DEF m
    <2>3. Rec(mon[r], m)
      BY <2>1, <2>2, <2>e, ZenonT(60) DEF Rec, Registered, Early
    <2>4. Tidy
      BY <1>m, <2>1, <2>3, OneMoves, ZenonT(60)
    <2> QED BY <1>10, <2>4, TidyMoves, ZenonT(60) DEF ReportFailed, nonMonVars, boundVars, hostVars
  <1>11. CASE MachineStops(r)
    <2> DEFINE m == [mon[r] EXCEPT !.vm = FALSE]
    <2>1. mon' = [mon EXCEPT ![r] = m]
      BY <1>11, <1>m, Zenon DEF MachineStops
    <2>2. m.phase = mon[r].phase /\ m.pid = mon[r].pid /\ m.syncpipe = mon[r].syncpipe
      BY <1>m, Zenon DEF Monitor
    <2> HIDE DEF m
    <2>3. Tidy
      BY <1>m, <1>s, <2>1, <2>2, OneMoves, ZenonT(60)
    <2> QED BY <1>11, <2>3, TidyMoves, ZenonT(60) DEF MachineStops, nonMonVars, boundVars, hostVars
  <1>12. CASE ShutdownDone(r)
    <2> DEFINE m == [mon[r] EXCEPT !.phase = "exiting", !.outcome = "clean"]
    <2>1. mon' = [mon EXCEPT ![r] = m] /\ mon[r].phase \in {"serving", "stopping"}
      BY <1>12, <1>m, Zenon DEF ShutdownDone
    <2>2. m.phase = "exiting" /\ m.pid = mon[r].pid /\ m.syncpipe = mon[r].syncpipe
      BY <1>m, Zenon DEF Monitor
    <2> HIDE DEF m
    <2>3. Tidy
      BY <1>m, <1>s, <2>1, <2>2, OneMoves, ZenonT(60)
    <2> QED BY <1>12, <2>3, TidyMoves, ZenonT(60) DEF ShutdownDone, nonMonVars, boundVars, hostVars
  <1>13. CASE RunExitCommand(r)
    <2> DEFINE h == [IdleCaller EXCEPT !.pc = "relock", !.op = "cleanup"]
    <2>1. Hook \in Clients /\ cl' = [cl EXCEPT ![Hook] = h] /\ Monitors(r, "hook", "hooking")
      BY <1>13, Zenon DEF RunExitCommand
    <2>2. h.pc = "relock" /\ h.op = "cleanup" /\ h.gen = None
      BY Zenon DEF IdleCaller
    <2>3. cl'[Hook] = h /\ \A d \in Clients \ {Hook} : cl'[d] = cl[d]
      BY <1>m, <2>1, Zenon DEF TypeOK
    <2> HIDE DEF h
    <2>4. Rec(mon[r], mon'[r])
      BY <1>g, <1>s, <2>1, ZenonT(60)
    <2>5. Tidy
      BY <1>g, <1>m, <2>1, <2>4, OneMoves, Zenon
    <2>6. UNCHANGED <<pidfile, db, nextRun, net, alien>>
      BY <1>13, Zenon DEF RunExitCommand, boundVars, hostVars
    <2>7. HolderInv(Hook)' /\ WaitInv(Hook)' /\ StopInv(Hook)' /\ cl'[Hook].pc # "exit"
      BY <2>2, <2>3, Zenon DEF HolderInv, WaitInv, StopInv, Past, Stopper
    <2> QED BY <1>m, <2>1, <2>3, <2>5, <2>6, <2>7, TidyEvolves, TidyFile, CallerMoves, ZenonT(60) DEF JInv
  <1>14. CASE MonitorExits(r)
    <2>1. mon[r].phase # "none" /\ mon' = [mon EXCEPT ![r] = Killed(@)]
          /\ UNCHANGED <<pidfile, db, nextRun, net, alien>>
      BY <1>14, Zenon DEF MonitorExits, boundVars, hostVars
    <2>2. Tidy
      BY <1>k, <2>1, Zenon
    <2>3. CASE UNCHANGED <<cl, lock>>
      BY <2>1, <2>2, <2>3, TidyMoves, ZenonT(60)
    <2>4. CASE Hook # None /\ Return(Hook)
      <3>1. Hook \in Clients
        BY <2>4, Zenon
      <3>2. HolderInv(Hook)' /\ WaitInv(Hook)' /\ StopInv(Hook)' /\ cl'[Hook].pc # "exit"
        BY <2>4, <3>1, ReturnStep, IdleKnows, Zenon
      <3> QED BY <1>m, <2>1, <2>2, <2>4, <3>1, <3>2, ReturnStep, TidyEvolves, TidyFile, CallerMoves, ZenonT(60) DEF JInv
    <2> QED BY <1>14, <2>3, <2>4, ZenonT(60) DEF MonitorExits
  <1>15. CASE MonitorKilled(r)
    <2>1. mon[r].phase # "none"
      BY <1>15, Zenon DEF MonitorKilled, Alive, LivePhases
    <2> QED BY <1>15, <1>k, <2>1, TidyMoves, Zenon DEF MonitorKilled, hostVars
  <1> QED BY <1>1, <1>2, <1>3, <1>4, <1>5, <1>6, <1>7, <1>8, <1>9, <1>10, <1>11, <1>12, <1>13,
             <1>14, <1>15, ZenonT(60) DEF MonitorStep
-----------------------------------------------------------------------------
(* What looking at the machine tells *)

\* Where no pid is used twice, a pid tells which monitor it is and whether it lives.
LEMMA PidTells ==
    ASSUME IInv, MonInv, NEW p \in Pids, NEW q \in Runs, mon[q].pid = p
    PROVE  /\ pid_exists(p) <=> Alive(q)
           /\ pid_exists(p) => Incarnation(p) = q
           /\ Alive(q) <=> mon[q].phase # "dead"
           /\ Gone(p) <=> ~ Alive(q)
           /\ Holder(p) \subseteq {q}
  <1> USE LifecycleAssumption
  <1>1. \A r \in Runs : mon[r].pid = p => r = q
    BY Zenon DEF MonInv
  <1>2. Holder(p) = IF Alive(q) THEN {q} ELSE {}
    BY <1>1, Zenon DEF Holder
  <1>3. mon[q].phase # "none" /\ mon[q].phase \in Phases
    BY Zenon DEF MonInv, IInv, TypeOK, Monitor
  <1>4. alien = {}
    BY Zenon DEF MonInv
  <1> QED BY <1>1, <1>2, <1>3, <1>4, ZenonT(60) DEF pid_exists, Incarnation, Gone, Alive, LivePhases

\* A pid that exists is some monitor's.
LEMMA PidOfMonitor ==
    ASSUME MonInv, NEW p, pid_exists(p)
    PROVE  \E q \in Runs : mon[q].pid = p /\ Alive(q)
  BY Zenon DEF MonInv, pid_exists, Holder

\* When a caller may look, no monitor is on its way to its pidfile.
LEMMA NoneStarting == ASSUME Tame, Timely PROVE \A r \in Runs : ~ Starting(r)
  BY Zenon DEF Tame, Timely, Starting

\* What the probe of the pidfile and the row's pid finds is the monitor there is: the one the
\* row names, if it names one; when it finds nothing, there is none.
LEMMA ProbeTells ==
    ASSUME IInv, JInv, \A r \in Runs : ~ Starting(r), NEW live, live = live_monitor_identity
    PROVE  IF live = None
           THEN NonePresent /\ (db.pid # None => Gone(db.pid))
           ELSE /\ ~ Gone(live.pid)
                /\ db.pid # None => live.pid = db.pid
                /\ \E q \in Runs : /\ Names(q, live.pid, live.birth, db.runId)
                                   /\ \A r \in Runs : Present(r) => r = q
  <1> USE LifecycleAssumption
  <1> DEFINE found == {p \in {pidfile.pid, db.pid} \cap Pids : Identified(p, db.startedAt)}
             pid   == IF pidfile.pid \in found THEN pidfile.pid ELSE db.pid
  <1>t. MonInv /\ FileInv /\ RowInv /\ db \in MachineState /\ mon \in [Runs -> Monitor]
    BY Zenon DEF JInv, IInv, TypeOK
  <1>d. ASSUME db.pid # None
        PROVE \E q \in Runs : /\ Names(q, db.pid, db.startedAt, db.runId) /\ db.pid \in Pids
                              /\ \A r \in Runs : Present(r) => r = q
                              /\ Alive(q) => db.pid \in found
    <2>1. PICK q \in Runs : /\ Names(q, db.pid, db.startedAt, db.runId)
                            /\ \A r \in Runs : Present(r) => r = q
      BY <1>d, <1>t, Zenon DEF RowInv
    <2>2. db.pid \in Pids
      BY <1>d, <1>t, Zenon DEF MachineState
    <2>3. Alive(q) => Identified(db.pid, db.startedAt)
      BY <1>t, <2>1, <2>2, PidTells, ZenonT(60) DEF Names, Identified, matches_started_at
    <2> QED BY <2>1, <2>2, <2>3, Zenon
  <1>f. ASSUME NEW r \in Runs, Present(r) PROVE pidfile.pid \in found /\ pidfile.pid = mon[r].pid
    <2>1. mon[r].phase \in Registered
      BY <1>f, Zenon DEF Present
    <2>2. pidfile.pid = mon[r].pid /\ mon[r].pid # None /\ mon[r].pid \in Pids
      <3>1. pidfile = [pid |-> mon[r].pid, by |-> r]
        BY <1>t, <2>1, Zenon DEF FileInv
      <3>2. mon[r].phase # "none"
        BY <2>1, Zenon DEF Registered
      <3> QED BY <1>t, <3>1, <3>2, ZenonT(60) DEF MonInv, Monitor
    <2>3. Alive(r)
      BY <2>1, Zenon DEF Alive, LivePhases, Phases, Registered
    <2>4. pid_exists(pidfile.pid) /\ Incarnation(pidfile.pid) = r
      BY <1>t, <2>2, <2>3, PidTells, ZenonT(60)
    <2>5. BirthTimes /\ db.startedAt # None => db.startedAt = r
      <3>1. db.startedAt # None => db.pid # None
        BY <1>t, Zenon DEF RowInv
      <3> QED BY <1>d, <1>f, <3>1, Zenon DEF Names
    <2> QED BY <2>2, <2>4, <2>5, Zenon DEF Identified, matches_started_at
  <1>1. CASE found = {}
    <2>1. live = None
      BY <1>1, Zenon DEF live_monitor_identity
    <2>2. NonePresent
      BY <1>1, <1>f, Zenon DEF NonePresent
    <2>3. ASSUME db.pid # None PROVE Gone(db.pid)
      <3>1. PICK q \in Runs : mon[q].pid = db.pid /\ db.pid \in Pids /\ ~ Alive(q)
        BY <1>1, <1>d, <2>3, Zenon DEF Names
      <3> QED BY <1>t, <3>1, PidTells, Zenon
    <2> QED BY <2>1, <2>2, <2>3, ZenonT(60)
  <1>2. CASE found # {}
    <2>1. pid \in found
      BY <1>2, Zenon
    <2>2. pid \in Pids /\ pid_exists(pid)
      BY <2>1, Zenon DEF Identified
    <2>3. live = [pid |-> pid, birth |-> BirthOf(pid)]
      BY <1>2, Zenon DEF live_monitor_identity
    <2>4. live.pid = pid /\ live.birth = BirthOf(pid) /\ live # None
      <3>1. live \in [pid: Pids, birth: Times \cup {None}]
        BY <2>2, <2>3, IncarnationType DEF BirthOf, IInv
      <3> QED BY <2>3, <3>1, NoneAssumption
    <2>5. PICK q \in Runs : mon[q].pid = pid /\ Alive(q)
      BY <1>t, <2>2, PidOfMonitor, ZenonT(60)
    <2>6. BirthTimes => BirthOf(pid) = q
      BY <1>t, <2>2, <2>5, PidTells, ZenonT(60) DEF BirthOf
    <2>7. ~ Gone(pid)
      BY <1>t, <2>2, <2>5, PidTells, ZenonT(60)
    <2>8. CASE pid = pidfile.pid
      <3>1. Present(q)
        <4>1. pidfile.by \in Runs /\ mon[pidfile.by].pid = pid /\ mon[pidfile.by].phase \in Registered \cup {"dead"}
          BY <1>t, <2>2, <2>8, ZenonT(60) DEF FileInv
        <4>2. pidfile.by = q
          BY <1>t, <2>2, <2>5, <4>1 DEF MonInv
        <4> QED BY <2>5, <4>1, <4>2, ZenonT(60) DEF Alive, LivePhases, Present
      <3>2. /\ \A r \in Runs : Present(r) => r = q
            /\ db.runId # None => db.runId = q
        BY <1>t, <3>1, Zenon DEF MonInv, RowInv
      <3>3. db.pid # None => pid = db.pid
        BY <1>d, <2>5, <3>1, Zenon DEF Names
      <3> HIDE DEF pid
      <3> QED BY <2>4, <2>5, <2>6, <2>7, <3>2, <3>3, ZenonT(60) DEF Names
    <2>9. CASE pid = db.pid
      <3>1. db.pid # None
        BY <2>2, <2>9, ZenonT(60)
      <3>2. PICK n \in Runs : /\ Names(n, db.pid, db.startedAt, db.runId)
                              /\ \A r \in Runs : Present(r) => r = n
        BY <1>d, <3>1, ZenonT(60)
      <3>3. n = q
        BY <1>t, <2>5, <2>9, <3>1, <3>2, ZenonT(60) DEF Names, MonInv
      <3> HIDE DEF pid
      <3> QED BY <2>4, <2>5, <2>6, <2>7, <2>9, <3>2, <3>3, ZenonT(60) DEF Names
    <2> QED BY <2>8, <2>9, Zenon
  <1> QED BY <1>1, <1>2, Zenon
\* The generation a caller takes from the row is that of a run.
LEMMA GenerationNames ==
    ASSUME IInv, JInv, db.pid # None, NEW g, g = generation
    PROVE  /\ g \in VmmonRunIdentity /\ g # None
           /\ g.pid = db.pid /\ g.startedAt = db.startedAt /\ g.runId = db.runId
           /\ \E q \in Runs : Names(q, g.pid, g.startedAt, g.runId)
  <1> USE LifecycleAssumption
  <1>1. db.startedAt # None /\ db \in MachineState
    BY Zenon DEF JInv, RowInv, IInv, TypeOK
  <1>2. g = [pid |-> db.pid, startedAt |-> db.startedAt, runId |-> db.runId]
    BY <1>1, Zenon DEF generation
  <1>3. g \in VmmonRunIdentity
    BY <1>1, <1>2 DEF VmmonRunIdentity, MachineState
  <1>4. g # None
    BY <1>3, NoneAssumption, Zenon
  <1> QED BY <1>2, <1>3, <1>4 DEF JInv, RowInv

\* active_wait_target remembers such a generation, or nothing.
LEMMA TargetNames ==
    ASSUME IInv, JInv, NEW g, g = stored_target, g # None
    PROVE  g \in VmmonRunIdentity /\ \E q \in Runs : Names(q, g.pid, g.startedAt, g.runId)
  <1>1. g = generation /\ db.pid # None
    BY ZenonT(60) DEF stored_target
  <1> QED BY <1>1, GenerationNames, Zenon
-----------------------------------------------------------------------------
(* The steps of the callers *)

\* Where no monitor moves.
LEMMA SameTidy == ASSUME mon' = mon PROVE Tidy
  BY ZenonT(60) DEF Tidy, Rec

\* A caller that keeps its generation still knows whose it is, and whether that one is gone.
LEMMA GenerationKept ==
    ASSUME IInv, JInv, Keeps, NEW d \in Clients, cl'[d].gen = cl[d].gen
    PROVE  /\ cl'[d].gen # None =>
                  \E q \in Runs : Names(q, cl[d].gen.pid, cl[d].gen.startedAt, cl[d].gen.runId)'
           /\ Past(d) => cl'[d].gen # None /\ Gone(cl[d].gen.pid)'
           /\ cl'[d].gen # None /\ Gone(cl[d].gen.pid) => Gone(cl[d].gen.pid)'
  <1>1. PICK s \in Caller : s = cl[d]
    BY ZenonT(60) DEF IInv, TypeOK
  <1>2. WaitInv(d)
    BY Zenon DEF JInv
  <1>3. cl'[d].gen = s.gen
    BY <1>1, ZenonT(60)
  <1>4. ASSUME s.gen # None
        PROVE /\ \E q \in Runs : Names(q, s.gen.pid, s.gen.startedAt, s.gen.runId)'
              /\ Gone(s.gen.pid) => Gone(s.gen.pid)'
    <2>1. PICK q \in Runs : Names(q, s.gen.pid, s.gen.startedAt, s.gen.runId)
      BY <1>1, <1>2, <1>4, ZenonT(60) DEF WaitInv
    <2>2. s.gen.pid \in Pids
      BY <1>4, ZenonT(60) DEF Caller, VmmonRunIdentity
    <2>3. Names(q, s.gen.pid, s.gen.startedAt, s.gen.runId)'
      BY <2>1, <2>2, NamesKept, ZenonT(60)
    <2>4. Gone(s.gen.pid) => Gone(s.gen.pid)'
      BY <2>1, <2>2, GoneKept, ZenonT(60) DEF Names
    <2> QED BY <2>3, <2>4, ZenonT(60)
  <1>5. Past(d) => s.gen # None /\ Gone(s.gen.pid)
    BY <1>1, <1>2, ZenonT(60) DEF WaitInv
  <1> QED BY <1>1, <1>3, <1>4, <1>5, ZenonT(60) DEF Names, Gone
\* A caller that keeps its generation and does not come from elsewhere to the end of the wait.
LEMMA WaitOn ==
    ASSUME IInv, JInv, Keeps, NEW c \in Clients, cl'[c].gen = cl[c].gen, Past(c)' => Past(c),
           cl'[c].pc # "watch"
    PROVE  WaitInv(c)'
  BY GenerationKept, ZenonT(60) DEF WaitInv

\* A caller moves on and leaves the row, the pidfile and the network alone.
LEMMA SafeGo ==
    ASSUME IInv, JInv, Tidy, UNCHANGED <<db, nextRun, net, alien, pidfile>>,
           NEW c \in Clients, \A d \in Clients \ {c} : cl'[d] = cl[d],
           HolderInv(c)', WaitInv(c)', StopInv(c)', cl'[c].pc # "exit"
    PROVE  JInv'
  BY TidyEvolves, TidyFile, CallerMoves, ZenonT(60) DEF IInv, JInv

\* A caller returns.
LEMMA SafeReturn ==
    ASSUME IInv, JInv, Tidy, UNCHANGED <<db, nextRun, net, alien, pidfile>>,
           NEW c \in Clients, Return(c)
    PROVE  JInv'
  BY ReturnStep, IdleKnows, SafeGo, ZenonT(60)

\* An operation arrives.
LEMMA SafeArrive ==
    ASSUME IInv, JInv, Tame, NEW c \in Clients, Arrive(c)
    PROVE  JInv'
  <1>c. cl \in [Clients -> Caller]
    BY ZenonT(60) DEF IInv, TypeOK
  <1>1. ASSUME NEW o \in ClientOps, Begin(c, o) PROVE JInv'
    <2>1. PICK g : g = IF o = "wait" THEN stored_target ELSE None
      BY Zenon
    <2>2. cl'[c].pc = "probe" /\ cl'[c].op = o /\ cl'[c].gen = g
      BY <1>1, <1>c, <2>1, ZenonT(60) DEF Begin, IdleCaller
    <2>3. \A d \in Clients \ {c} : cl'[d] = cl[d]
      BY <1>1, <1>c, ZenonT(60) DEF Begin
    <2>4. UNCHANGED <<mon, db, nextRun, net, alien, pidfile>>
      BY <1>1, ZenonT(60) DEF Begin, hostVars, monVars, boundVars
    <2>5. \A r \in Runs : ~ Starting(r)'
      BY <1>1, <2>4, NoneStarting, ZenonT(60) DEF Begin, Starting
    <2>6. g # None => \E q \in Runs : Names(q, g.pid, g.startedAt, g.runId)
      BY <2>1, TargetNames, ZenonT(60)
    <2>7. HolderInv(c)'
      BY <2>2, <2>5, ZenonT(60) DEF HolderInv
    <2>8. WaitInv(c)'
      BY <1>1, <2>2, <2>4, <2>6, ZenonT(60) DEF WaitInv, Past, Names, ClientOps
    <2>9. StopInv(c)'
      BY <2>2, ZenonT(60) DEF StopInv, Stopper
    <2> QED BY <2>2, <2>3, <2>4, <2>7, <2>8, <2>9, SameTidy, SafeGo, ZenonT(60)
  <1>2. CASE OpenRuntime(c)
    <2>1. cl'[c].pc = "try" /\ cl'[c].op = "refresh" /\ cl'[c].gen = None
          /\ \A d \in Clients \ {c} : cl'[d] = cl[d]
      BY <1>2, <1>c, ZenonT(60) DEF OpenRuntime, IdleCaller
    <2>2. UNCHANGED <<mon, db, nextRun, net, alien, pidfile>>
      BY <1>2, ZenonT(60) DEF OpenRuntime, hostVars, monVars, boundVars
    <2>3. HolderInv(c)' /\ WaitInv(c)' /\ StopInv(c)'
      BY <2>1, ZenonT(60) DEF HolderInv, WaitInv, StopInv, Past, Stopper
    <2> QED BY <2>1, <2>2, <2>3, SameTidy, SafeGo, ZenonT(60)
  <1> QED BY <1>1, <1>2, LifecycleAssumption, ZenonT(60) DEF Arrive, Inspect, ClientOps

\* Taking the lock, and the first half of the reconciliation.
LEMMA SafeProbe ==
    ASSUME IInv, JInv, Tame, NEW c \in Clients, TryLock(c) \/ Relock(c) \/ ProbeMonitor(c)
    PROVE  JInv'
  <1>c. cl \in [Clients -> Caller] /\ cl[c] \in Caller
    BY ZenonT(60) DEF IInv, TypeOK
  <1>m. UNCHANGED <<mon, db, nextRun, net, alien, pidfile>>
    BY Zenon DEF TryLock, Relock, ProbeMonitor, hostVars, monVars, boundVars
  <1>k. Tidy /\ Keeps
    BY <1>m, SameTidy, TidyEvolves, EvolvesKeeps, ZenonT(60)
  <1>h. HolderInv(c) /\ WaitInv(c) /\ StopInv(c)
    BY ZenonT(60) DEF JInv
  <1>1. CASE TryLock(c) /\ lock = None
    <2>1. /\ cl'[c].pc = "probe" /\ cl'[c].op = cl[c].op /\ cl'[c].gen = cl[c].gen
          /\ \A d \in Clients \ {c} : cl'[d] = cl[d]
      BY <1>1, GotoStep, Zenon DEF TryLock, Places
    <2>2. \A r \in Runs : ~ Starting(r)'
      BY <1>1, <1>m, NoneStarting, ZenonT(60) DEF TryLock, Starting
    <2>3. cl[c].op = "refresh"
      BY <1>1, <1>h, Zenon DEF TryLock, HolderInv
    <2>4. HolderInv(c)' /\ StopInv(c)'
      BY <2>1, <2>2, Zenon DEF HolderInv, StopInv, Stopper
    <2>5. WaitInv(c)'
      BY <1>k, <2>1, <2>3, WaitOn, ZenonT(60) DEF Past
    <2> QED BY <1>k, <1>m, <2>1, <2>4, <2>5, SafeGo, ZenonT(60)
  <1>2. CASE TryLock(c) /\ lock # None
    BY <1>2, <1>k, <1>m, SafeReturn, ZenonT(60) DEF TryLock
  <1>3. CASE Relock(c)
    <2> DEFINE place == IF cl[c].op \in {"stop", "kill"} THEN "complete" ELSE "probe"
    <2>1. PICK g : g = IF cl[c].op = "wait" THEN stored_target ELSE cl[c].gen
      BY Zenon
    <2>2. /\ cl'[c].pc = place /\ cl'[c].op = cl[c].op /\ cl'[c].gen = g
          /\ \A d \in Clients \ {c} : cl'[d] = cl[d]
      BY <1>3, <1>c, <2>1, ZenonT(60) DEF Relock, Caller
    <2>3. \A r \in Runs : ~ Starting(r)'
      BY <1>3, <1>m, NoneStarting, Zenon DEF Relock, Starting
    <2>4. HolderInv(c)'
      BY <2>2, <2>3, Zenon DEF HolderInv
    <2>5. CASE cl[c].op = "wait"
      <3>1. g # None => \E q \in Runs : Names(q, g.pid, g.startedAt, g.runId)
        BY <2>1, <2>5, TargetNames, Zenon
      <3>2. WaitInv(c)' /\ StopInv(c)'
        BY <1>m, <2>2, <2>5, <3>1, ZenonT(60) DEF WaitInv, StopInv, Stopper, Past, Names
      <3> QED BY <1>k, <1>m, <2>2, <2>4, <3>2, SafeGo, ZenonT(60)
    <2>6. CASE cl[c].op # "wait"
      <3>1. cl'[c].gen = cl[c].gen
        BY <2>1, <2>2, <2>6, ZenonT(60)
      <3>2. Past(c)' => Past(c)
        BY <1>3, <2>2 DEF Past, Relock
      <3>3. WaitInv(c)'
        BY <1>k, <2>2, <3>1, <3>2, WaitOn, Zenon
      <3>4. Stopper(c)' => Stopper(c)
        BY <1>3, <2>2, Zenon DEF Stopper, Relock
      <3>5. \A e \in Clients : cl'[e].pc = "exit" => cl'[e] = cl[e]
        BY <2>2, Zenon
      <3>6. StopInv(c)'
        BY <1>k, <1>m, <3>1, <3>4, <3>5, StopKept, ZenonT(60)
      <3> QED BY <1>k, <1>m, <2>2, <2>4, <3>3, <3>6, SafeGo, ZenonT(60)
    <2> QED BY <2>5, <2>6, Zenon
  <1>4. CASE ProbeMonitor(c) /\ pidfile.pid = Garbled
    BY <1>4, <1>k, <1>m, SafeReturn, ZenonT(60) DEF ProbeMonitor
  <1>5. CASE ProbeMonitor(c) /\ pidfile.pid # Garbled
    <2>1. PICK live : live = live_monitor_identity
      BY Zenon
    <2>2. /\ cl'[c].pc = "exit" /\ cl'[c].op = cl[c].op /\ cl'[c].gen = cl[c].gen /\ cl'[c].live = live
          /\ \A d \in Clients \ {c} : cl'[d] = cl[d]
      BY <1>5, <1>c, <2>1, ZenonT(60) DEF ProbeMonitor, Caller
    <2>3. \A r \in Runs : ~ Starting(r)
      BY <1>5, <1>h, Zenon DEF ProbeMonitor, HolderInv
    <2>4. IF live = None
          THEN NonePresent /\ (db.pid # None => Gone(db.pid))
          ELSE /\ ~ Gone(live.pid)
               /\ db.pid # None => live.pid = db.pid
               /\ \E q \in Runs : /\ Names(q, live.pid, live.birth, db.runId)
                                  /\ \A r \in Runs : Present(r) => r = q
      BY <2>1, <2>3, ProbeTells
    <2>5. Found(c)'
      BY <1>m, <2>2, <2>4, Zenon DEF Found, NonePresent, Gone, Names, Present, Starting
    <2>6. HolderInv(c)' /\ StopInv(c)'
      BY <1>m, <2>2, <2>3, <2>5, ZenonT(60) DEF HolderInv, StopInv, Stopper, Starting
    <2>7. WaitInv(c)'
      BY <1>5, <1>k, <2>2, WaitOn, Zenon DEF Past, ProbeMonitor
    <2>8. FileInv' /\ Evolves
      BY <1>k, <1>m, TidyEvolves, TidyFile, ZenonT(60) DEF IInv, JInv
    <2> QED BY <1>m, <2>2, <2>4, <2>6, <2>7, <2>8, CallerMoves, ZenonT(60)
  <1> QED BY <1>1, <1>2, <1>3, <1>4, <1>5, ZenonT(60)

\* The holder of the lock moves on, with a row of the same run or of none.
LEMMA SafeHold ==
    ASSUME IInv, JInv, NEW c \in Clients, cl[c].pc \in LockedPlaces,
           \A d \in Clients \ {c} : cl'[d] = cl[d], cl'[c].pc # "exit",
           Tidy, UNCHANGED <<nextRun, alien, pidfile>>, net' = net \/ NonePresent,
           db'.runId \in {None, db.runId}, RowInv', RowStep(c),
           HolderInv(c)', WaitInv(c)', StopInv(c)'
    PROVE  JInv'
  <1>1. MonInv' /\ Keeps
    BY TidyEvolves, EvolvesKeeps, EvolvesMon, ZenonT(60) DEF JInv
  <1>2. FileInv'
    BY TidyFile, Zenon DEF IInv, JInv
  <1> QED BY <1>1, <1>2, HolderMoves, Zenon

\* A row without a pid.
LEMMA RowCleared ==
    ASSUME RowInv, Evolves, db'.pid = None, db'.startedAt = None, db'.runId \in {None, db.runId}
    PROVE  RowInv'
  BY Zenon DEF RowInv, Evolves

\* A stop that waits, and that the row no longer names, has outlived its monitor.
LEMMA StopOutlived ==
    ASSUME IInv, JInv, NEW d \in Clients, Stopper(d), db.pid = None
    PROVE  /\ cl[d].gen.pid \in Pids /\ Gone(cl[d].gen.pid)
           /\ \A e \in Clients : cl[e].pc = "exit" /\ cl[e].live # None => cl[e].live.pid # cl[d].gen.pid
           /\ \E q \in Runs : mon[q].pid = cl[d].gen.pid
  <1>1. cl[d] \in Caller /\ Knows(d) /\ StopInv(d) /\ WaitInv(d)
    BY Zenon DEF IInv, TypeOK, JInv
  <1>2. cl[d].gen # None /\ cl[d].gen.pid \in Pids
    BY <1>1, Zenon DEF Stopper, Knows, Caller, VmmonRunIdentity
  <1> QED BY <1>1, <1>2, LifecycleAssumption, Zenon DEF StopInv, WaitInv, Names

\* The write-back of a reconciliation.
LEMMA SafeWriteBack ==
    ASSUME IInv, JInv, NEW c \in Clients, WriteBack(c)
    PROVE  JInv'
  <1> USE LifecycleAssumption
  <1>c. cl \in [Clients -> Caller] /\ cl[c] \in Caller /\ cl[c].pc = "exit"
    BY Zenon DEF IInv, TypeOK, WriteBack
  <1>t. db \in MachineState /\ pidfile.by \in Runs \cup {0} /\ RowInv
    BY Zenon DEF IInv, TypeOK, JInv
  <1>1. PICK live \in [pid: Pids, birth: Times \cup {None}] \cup {None} : live = cl[c].live
    BY <1>c, Zenon DEF Caller
  <1>2. db' = observe_machine_state(live).state
    BY <1>1, ZenonT(60) DEF WriteBack, machine_state_needs_writeback, save_machine_state
  <1>3. /\ cl'[c].pc = "act" /\ cl'[c].op = cl[c].op /\ cl'[c].gen = cl[c].gen
        /\ \A d \in Clients \ {c} : cl'[d] = cl[d]
    BY <1>c, ZenonT(60) DEF WriteBack, Caller
  <1>m. UNCHANGED <<mon, nextRun, net, alien, pidfile>>
    BY Zenon DEF WriteBack, hostVars, monVars, boundVars
  <1>k. Tidy /\ Keeps /\ Evolves
    BY <1>m, SameTidy, TidyEvolves, EvolvesKeeps, ZenonT(60)
  <1>4. Found(c) /\ \A r \in Runs : ~ Starting(r)
    BY <1>c, ZenonT(60) DEF JInv, HolderInv
  <1>5. WaitInv(c)'
    BY <1>c, <1>k, <1>3, WaitOn, ZenonT(60) DEF Past
  <1>6. StopInv(c)'
    BY <1>3, Zenon DEF StopInv, Stopper
  <1>7. \A r \in Runs : ~ Starting(r)'
    BY <1>4, <1>m, Zenon DEF Starting
  <1>8. CASE live = None
    <2>1. NonePresent /\ (db.pid # None => Gone(db.pid))
      BY <1>1, <1>4, <1>8, ZenonT(60) DEF Found
    <2>2. db'.pid = None /\ db'.startedAt = None /\ db'.runId \in {None, db.runId}
      BY <1>2, <1>8, <1>t, ZenonT(60) DEF observe_machine_state, ExitObserved, StartTimedOut, MonitorGone, Refuse,
         Cleared, replace_runtime, Accept, MachineState
    <2>3. RowInv' /\ RowStep(c)
      BY <1>k, <1>t, <2>1, <2>2, RowCleared, ZenonT(60) DEF RowStep
    <2>4. NonePresent'
      BY <1>m, <2>1, ZenonT(60) DEF NonePresent, Present, Starting
    <2>5. HolderInv(c)'
      BY <1>3, <1>7, <2>4, ZenonT(60) DEF HolderInv
    <2> QED BY <1>c, <1>k, <1>m, <1>3, <1>5, <1>6, <2>2, <2>3, <2>5, SafeHold, ZenonT(60) DEF LockedPlaces
  <1>9. CASE live # None
    <2> DEFINE t == IF live.birth # None THEN live.birth
                    ELSE IF db.startedAt # None THEN db.startedAt ELSE pidfile.by
    <2>1. PICK q \in Runs : /\ Names(q, live.pid, live.birth, db.runId)
                            /\ \A r \in Runs : Present(r) => r = q
      BY <1>1, <1>4, <1>9, ZenonT(60) DEF Found
    <2>2. db.pid # None => live.pid = db.pid
      BY <1>1, <1>4, <1>9, ZenonT(60) DEF Found
    <2>3. live.pid \in Pids
      BY <1>9, Zenon
    <2>4. t # None /\ (BirthTimes => t = q)
      <3>1. q # None /\ pidfile.by # None
        BY <1>t DEF Runs
      <3> QED BY <2>1, <3>1, ZenonT(60) DEF Names
    <2>5. /\ db'.pid = live.pid /\ db'.startedAt = t /\ db'.runId = db.runId
          /\ db'.status = IF db.status \in {"starting", "stopping"} THEN db.status ELSE "running"
      BY <1>2, <1>9, Zenon DEF observe_machine_state, MonitorObserved, replace_runtime, Accept
    <2> HIDE DEF t
    <2>6. RowInv'
      <3>1. IsActive(db'.status)
        BY <2>5, Zenon DEF IsActive
      <3>2. mon'[q].pid = db'.pid /\ (BirthTimes => db'.startedAt = q) /\ (db'.runId # None => db'.runId = q)
        BY <1>m, <2>1, <2>4, <2>5, ZenonT(60) DEF Names
      <3>3. \A r \in Runs : Present(r)' => r = q
        BY <1>m, <2>1, ZenonT(60) DEF Present, Starting
      <3>4. db'.pid # None /\ db'.startedAt # None
        BY <2>3, <2>4, <2>5, ZenonT(60)
      <3> QED BY <3>1, <3>2, <3>3, <3>4, ZenonT(60) DEF RowInv, Names
    <2>7. RowStep(c)
      <3>1. CASE db.pid # None
        BY <2>2, <2>5, <3>1, ZenonT(60) DEF RowStep
      <3>2. CASE db.pid = None
        <4>1. ASSUME NEW d \in Clients \ {c}, Stopper(d) PROVE db'.pid # cl[d].gen.pid
          BY <1>1, <1>9, <1>c, <2>5, <3>2, <4>1, StopOutlived, SMTT(60)
        <4> QED BY <3>2, <4>1, ZenonT(60) DEF RowStep
      <3> QED BY <3>1, <3>2, ZenonT(60)
    <2>8. HolderInv(c)'
      BY <1>3, <1>7, <2>3, <2>5, ZenonT(60) DEF HolderInv
    <2> QED BY <1>c, <1>k, <1>m, <1>3, <1>5, <1>6, <2>5, <2>6, <2>7, <2>8, SafeHold, ZenonT(60) DEF LockedPlaces
  <1> QED BY <1>8, <1>9, Zenon

-----------------------------------------------------------------------------
(* Starting a machine *)

\* A start that fails clears the row, which has no pid yet.
LEMMA SafeFail ==
    ASSUME IInv, JInv, NEW c \in Clients, cl[c].pc \in {"spawn", "release", "sync", "ready"},
           NEW failure \in {"stopped", "error"}, FailStart(c, failure),
           Tidy, UNCHANGED <<nextRun, alien, pidfile, net>>
    PROVE  JInv'
  <1>1. db.status = "starting" /\ db.runId = cl[c].run /\ db.pid = None
    BY Zenon DEF IInv, Knows, JInv, HolderInv
  <1>2. db' = Cleared(failure, TRUE)
    BY <1>1, LifecycleAssumption, ZenonT(60) DEF FailStart, StartFailed, transition, save_machine_state, Accept, require_run_id
  <1>3. db'.pid = None /\ db'.startedAt = None /\ db'.runId = None
    BY <1>2, Zenon DEF Cleared, replace_runtime
  <1>4. RowInv' /\ RowStep(c)
    BY <1>1, <1>3, RowCleared, TidyEvolves, ZenonT(60) DEF JInv, RowStep
  <1>5. Return(c)
    BY Zenon DEF FailStart
  <1> QED BY <1>3, <1>4, <1>5, ReturnStep, IdleKnows, SafeHold, ZenonT(60) DEF LockedPlaces

\* The fork gives the monitor of the requested run a pid that no other ever had.
LEMMA Forked ==
    ASSUME IInv, JInv, Tame, NEW c \in Clients, cl[c].pc = "spawn",
           NEW p \in FreePids, NEW m, mon' = [mon EXCEPT ![cl[c].run] = m],
           m.phase = "forked", m.pid = p, m.syncpipe # "started",
           UNCHANGED <<nextRun, alien, pidfile, net>>, db'.runId \in {None, db.runId}
    PROVE  /\ Keeps /\ MonInv' /\ FileInv'
           /\ \A r \in Runs : Present(r)' => r = cl[c].run
  <1> USE LifecycleAssumption
  <1>1. PICK r \in Runs : r = cl[c].run
    BY Zenon DEF IInv, Knows
  <1>2. /\ mon[r].phase = "none" /\ r < nextRun /\ NonePresent /\ net
        /\ MonInv /\ FileInv /\ db.runId = r
    BY <1>1, ZenonT(60) DEF JInv, HolderInv, IInv, Knows
  <1>3. mon'[r] = m /\ \A q \in Runs \ {r} : mon'[q] = mon[q]
    BY <1>1, Zenon DEF IInv, TypeOK
  <1>4. p \in Pids /\ p # None /\ \A q \in Runs : mon[q].pid # p
    BY Zenon DEF FreePids, Tame
  <1>5. mon[r].pid = None
    BY <1>2, Zenon DEF MonInv
  <1>6. Keeps
    BY <1>3, <1>4, <1>5, ZenonT(60) DEF Keeps
  <1>7. Present(r)' /\ \A q \in Runs : Present(q)' => q = r
    BY <1>2, <1>3, Zenon DEF Present, Starting, NonePresent
  <1>8. MonInv'
    <2>1. \A q \in Runs : mon'[q].pid = None <=> mon'[q].phase = "none"
      BY <1>2, <1>3, <1>4, SMTT(60) DEF MonInv
    <2>2. \A q \in Runs : q >= nextRun => mon'[q].phase = "none"
      <3>1. nextRun \in Int /\ r \in Int
        BY DEF IInv, TypeOK, Runs
      <3> QED BY <1>2, <1>3, <3>1, SMTT(60) DEF MonInv
    <2>3. \A s, q \in Runs : mon'[s].pid = mon'[q].pid /\ mon'[s].pid # None => s = q
      BY <1>2, <1>3, <1>4, SMTT(60) DEF MonInv
    <2> QED BY <1>2, <1>7, <2>1, <2>2, <2>3, ZenonT(60) DEF MonInv
  <1>9. FileInv'
    <2>1. \A q \in Runs : mon'[q].phase \in Registered => pidfile = [pid |-> mon'[q].pid, by |-> q]
      BY <1>2, <1>3 DEF FileInv, Registered
    <2>2. pidfile.pid \in Pids => pidfile.by # r
      BY <1>2, <1>5, ZenonT(60) DEF FileInv
    <2>3. \A q \in Runs : mon'[q].phase \in {"none", "forked", "truncated", "gate", "boot", "up"} =>
            mon'[q].syncpipe # "started"
      BY <1>2, <1>3 DEF FileInv
    <2>4. db'.runId # None => mon'[db'.runId].syncpipe # "started"
      BY <1>2, <1>3, Zenon
    <2> QED BY <1>2, <1>3, <2>1, <2>2, <2>3, <2>4, SMTT(60) DEF FileInv
  <1> QED BY <1>1, <1>6, <1>7, <1>8, <1>9, ZenonT(60)

\* Launching vmmon.
LEMMA SafeSpawn ==
    ASSUME IInv, JInv, Tame, NEW c \in Clients, Spawn(c)
    PROVE  JInv'
  <1> USE LifecycleAssumption
  <1>0. /\ cl[c].pc = "spawn" /\ UNCHANGED <<nextRun, alien, pidfile, net>>
        /\ db.status = "starting" /\ db.runId = cl[c].run /\ db.pid = None /\ cl[c].run \in Runs
        /\ db.startedAt = None /\ mon[cl[c].run] \in Monitor /\ mon[cl[c].run].syncpipe # "started"
    <2>1. cl[c].pc = "spawn" /\ UNCHANGED <<nextRun, alien, pidfile, net>>
      BY Zenon DEF Spawn, hostVars, boundVars
    <2>2. db.status = "starting" /\ db.runId = cl[c].run /\ cl[c].run \in Runs
      BY <2>1, ZenonT(60) DEF IInv, Knows
    <2>3. db.pid = None /\ db.startedAt = None /\ mon[cl[c].run].phase = "none"
      BY <2>1, ZenonT(60) DEF JInv, HolderInv, RowInv
    <2> QED BY <2>1, <2>2, <2>3, ZenonT(60) DEF JInv, FileInv, IInv, TypeOK
  <1>1. ASSUME NEW p \in FreePids, Goto(c, "release"), UNCHANGED <<db, stale, lock>>,
               mon' = [mon EXCEPT ![cl[c].run] = [@ EXCEPT !.phase = "forked", !.pid = p]]
        PROVE  JInv'
    <2> DEFINE m == [mon[cl[c].run] EXCEPT !.phase = "forked", !.pid = p]
    <2>1. m.phase = "forked" /\ m.pid = p /\ m.syncpipe # "started"
      BY <1>0, ZenonT(60) DEF Monitor
    <2>2. mon' = [mon EXCEPT ![cl[c].run] = m]
      BY <1>1, ZenonT(60)
    <2> HIDE DEF m
    <2>3. Keeps /\ MonInv' /\ FileInv' /\ \A r \in Runs : Present(r)' => r = cl[c].run
      BY <1>0, <1>1, <2>1, <2>2, Forked, ZenonT(60)
    <2>4. RowInv'
      BY <1>0, <1>1, <2>3, Zenon DEF RowInv, IsActive
    <2>5. /\ cl'[c].pc = "release" /\ cl'[c].gen = cl[c].gen
          /\ \A d \in Clients \ {c} : cl'[d] = cl[d]
      BY <1>1, GotoStep, ZenonT(60) DEF Places
    <2>6. HolderInv(c)' /\ StopInv(c)'
      BY <1>0, <1>1, <2>5, ZenonT(60) DEF HolderInv, StopInv, Stopper
    <2>7. WaitInv(c)'
      BY <2>3, <2>5, WaitOn, ZenonT(60) DEF Past
    <2> QED BY <1>0, <1>1, <2>3, <2>4, <2>5, <2>6, <2>7, HolderMoves, ZenonT(60) DEF RowStep, LockedPlaces
  <1>2. CASE FailStart(c, "stopped") /\ UNCHANGED mon
    BY <1>0, <1>2, SameTidy, SafeFail, ZenonT(60)
  <1>3. ASSUME NEW p \in FreePids, FailStart(c, "stopped"),
               mon' = [mon EXCEPT ![cl[c].run] = [@ EXCEPT !.phase = "forked", !.pid = p,
                                       !.startpipe = "closed", !.syncpipe = "closed"]]
        PROVE  JInv'
    <2> DEFINE m == [mon[cl[c].run] EXCEPT !.phase = "forked", !.pid = p,
                                       !.startpipe = "closed", !.syncpipe = "closed"]
    <2>1. m.phase = "forked" /\ m.pid = p /\ m.syncpipe # "started"
      BY <1>0, ZenonT(60) DEF Monitor
    <2>2. mon' = [mon EXCEPT ![cl[c].run] = m]
      BY <1>3, ZenonT(60)
    <2> HIDE DEF m
    <2>3. db' = Cleared("stopped", TRUE)
      BY <1>0, <1>3, ZenonT(60) DEF FailStart, StartFailed, transition, save_machine_state, Accept, require_run_id
    <2>4. db'.pid = None /\ db'.startedAt = None /\ db'.runId = None
      BY <2>3, ZenonT(60) DEF Cleared, replace_runtime
    <2>5. Keeps /\ MonInv' /\ FileInv'
      BY <1>0, <2>1, <2>2, <2>4, Forked, ZenonT(60)
    <2>6. RowInv' /\ RowStep(c)
      BY <1>0, <2>4, ZenonT(60) DEF RowInv, RowStep
    <2>7. Return(c)
      BY <1>3, ZenonT(60) DEF FailStart
    <2> QED BY <1>0, <2>5, <2>6, <2>7, ReturnStep, IdleKnows, HolderMoves, ZenonT(60) DEF LockedPlaces
  <1> QED BY <1>1, <1>2, <1>3, ZenonT(60) DEF Spawn

\* Requesting a start: the row gets a fresh run id and no pid.
LEMMA SafeRequest ==
    ASSUME IInv, JInv, NEW c \in Clients, request_machine_start(c)
    PROVE  JInv'
  <1> USE LifecycleAssumption
  <1>0. /\ cl[c].pc = "request" /\ UNCHANGED <<mon, alien, pidfile, net>> /\ nextRun' = nextRun + 1
        /\ nextRun <= MaxRuns /\ ~ IsActive(db.status) /\ cl[c] \in Caller /\ nextRun \in Runs
        /\ db.pid = None /\ NonePresent /\ net
    <2>1. cl[c].pc = "request" /\ UNCHANGED <<mon, alien, pidfile, net>> /\ nextRun' = nextRun + 1
      BY ZenonT(60) DEF request_machine_start, hostVars, monVars
    <2>2. nextRun <= MaxRuns /\ ~ IsActive(db.status)
      BY <2>1, ZenonT(60) DEF IInv, Knows
    <2>3. cl[c] \in Caller /\ nextRun \in 1..(MaxRuns + 1)
      BY ZenonT(60) DEF IInv, TypeOK
    <2>4. db.pid = None /\ NonePresent /\ net
      BY <2>1, ZenonT(60) DEF JInv, HolderInv
    <2> QED BY <2>1, <2>2, <2>3, <2>4 DEF Runs
  <1>1. PICK n \in Runs : n = nextRun
    BY <1>0, ZenonT(60)
  <1>2. /\ db' = replace_runtime("starting", None, None, n, FALSE)
        /\ cl' = [cl EXCEPT ![c] = [@ EXCEPT !.pc = "spawn", !.run = n]]
    BY <1>0, <1>1, ZenonT(60) DEF request_machine_start, transition, StartRequested, Accept, save_machine_state
  <1>3. db'.pid = None /\ db'.startedAt = None /\ db'.runId = n /\ db'.status = "starting"
    BY <1>2, ZenonT(60) DEF replace_runtime
  <1>4. /\ cl'[c].pc = "spawn" /\ cl'[c].run = n /\ cl'[c].gen = cl[c].gen
        /\ \A d \in Clients \ {c} : cl'[d] = cl[d]
    BY <1>0, <1>2 DEF IInv, TypeOK, Caller
  <1>5. Keeps /\ NonePresent'
    BY <1>0, SameTidy, TidyEvolves, EvolvesKeeps, ZenonT(60) DEF NonePresent, Present, Starting
  <1>6. mon[n].phase = "none" /\ mon[n].syncpipe # "started" /\ n < nextRun'
    <2>1. nextRun \in Int
      BY DEF IInv, TypeOK
    <2>2. mon[n].phase = "none"
      BY <1>1, <2>1 DEF JInv, MonInv
    <2> QED BY <1>0, <1>1, <2>1, <2>2, SMTT(60) DEF JInv, FileInv
  <1>7. MonInv'
    <2>1. \A r \in Runs : r >= nextRun' => r >= nextRun
      BY <1>0 DEF IInv, TypeOK, Runs
    <2>2. MonInv
      BY Zenon DEF JInv
    <2> QED BY <1>0, <1>5, <2>1, <2>2, ZenonT(60) DEF MonInv, NonePresent
  <1>8. FileInv'
    BY <1>0, <1>3, <1>6, ZenonT(60) DEF JInv, FileInv
  <1>9. RowInv' /\ RowStep(c)
    BY <1>0, <1>3, <1>5, ZenonT(60) DEF RowInv, RowStep, NonePresent
  <1>10. HolderInv(c)' /\ StopInv(c)'
    BY <1>0, <1>3, <1>4, <1>5, <1>6, ZenonT(60) DEF HolderInv, StopInv, Stopper
  <1>11. WaitInv(c)'
    BY <1>4, <1>5, WaitOn, ZenonT(60) DEF Past
  <1> QED BY <1>0, <1>4, <1>5, <1>7, <1>8, <1>9, <1>10, <1>11, HolderMoves, ZenonT(60) DEF LockedPlaces

\* An operation that looks at an inactive machine under the lock: no monitor is present, and the
\* network may be prepared or dropped.
LEMMA DownIsDown ==
    ASSUME JInv, NEW c \in Clients, cl[c].pc = "act", ~ IsActive(db.status)
    PROVE  NonePresent /\ db.pid = None
  BY ZenonT(60) DEF JInv, HolderInv, RowInv

\* The row stays and the network changes while no monitor is present.
LEMMA SafeNet ==
    ASSUME IInv, JInv, NEW c \in Clients, cl[c].pc = "act",
           \A d \in Clients \ {c} : cl'[d] = cl[d], cl'[c].pc # "exit",
           UNCHANGED <<mon, db, nextRun, alien, pidfile>>, net' = net \/ NonePresent,
           HolderInv(c)', WaitInv(c)', StopInv(c)'
    PROVE  JInv'
  <1>1. Tidy /\ Evolves
    BY SameTidy, TidyEvolves, ZenonT(60)
  <1>2. RowInv' /\ RowStep(c)
    BY <1>1, EvolvesRow, ZenonT(60) DEF JInv, RowStep
  <1> QED BY <1>1, <1>2, SafeHold, ZenonT(60) DEF LockedPlaces

\* Preparing a start.
LEMMA SafePrepare ==
    ASSUME IInv, JInv, NEW c \in Clients, StartRejected(c) \/ StartPrepare(c)
    PROVE  JInv'
  <1>1. CASE StartRejected(c)
    <2>1. Return(c) /\ UNCHANGED <<mon, db, nextRun, net, alien, pidfile>>
      BY <1>1, ZenonT(60) DEF StartRejected, hostVars, monVars, boundVars
    <2> QED BY <2>1, SameTidy, SafeReturn, ZenonT(60)
  <1>2. CASE StartPrepare(c)
    <2>1. cl[c].pc = "act" /\ ~ IsActive(db.status) /\ UNCHANGED <<mon, db, nextRun, alien, pidfile>>
      BY <1>2, ZenonT(60) DEF StartPrepare, At, monVars, boundVars
    <2>2. NonePresent /\ db.pid = None
      BY <2>1, DownIsDown, ZenonT(60)
    <2>3. CASE net' = TRUE /\ Goto(c, "request")
      <3>1. /\ cl'[c].pc = "request" /\ cl'[c].gen = cl[c].gen
            /\ \A d \in Clients \ {c} : cl'[d] = cl[d]
        BY <2>3, GotoStep, ZenonT(60) DEF Places
      <3>2. NonePresent'
        BY <2>1, <2>2, ZenonT(60) DEF NonePresent, Present, Starting
      <3>3. HolderInv(c)' /\ StopInv(c)'
        BY <2>1, <2>2, <2>3, <3>1, <3>2, ZenonT(60) DEF HolderInv, StopInv, Stopper
      <3>4. WaitInv(c)'
        BY <2>1, <3>1, SameTidy, TidyEvolves, EvolvesKeeps, WaitOn, ZenonT(60) DEF Past
      <3> QED BY <2>1, <2>2, <3>1, <3>3, <3>4, SafeNet, ZenonT(60)
    <2>4. CASE Return(c)
      BY <2>1, <2>2, <2>4, ReturnStep, IdleKnows, SafeNet, ZenonT(60)
    <2> QED BY <1>2, <2>3, <2>4, ZenonT(60) DEF StartPrepare
  <1> QED BY <1>1, <1>2, ZenonT(60)

\* Releasing the monitor and waiting for its report.
LEMMA SafeSync ==
    ASSUME IInv, JInv, NEW c \in Clients,
           release_startpipe(c) \/ SyncStarted(c) \/ SyncFailed(c) \/ SyncTimeout(c)
    PROVE  JInv'
  <1>u. UNCHANGED <<nextRun, alien, pidfile, net>> /\ cl[c].pc \in {"release", "sync"}
    BY ZenonT(60) DEF release_startpipe, SyncStarted, SyncFailed, SyncTimeout, hostVars, monVars, boundVars
  <1>r. cl[c].run \in Runs /\ db.pid = None /\ TypeOK
    BY <1>u, ZenonT(60) DEF IInv, Knows, JInv, HolderInv
  <1>m. mon[cl[c].run] \in Monitor
    BY <1>r, ZenonT(60) DEF TypeOK
  <1>1. CASE release_startpipe(c) /\ mon[cl[c].run].phase = "dead"
    BY <1>1, <1>u, SameTidy, SafeFail, ZenonT(60) DEF release_startpipe
  <1>2. CASE release_startpipe(c) /\ mon[cl[c].run].phase # "dead"
    <2> DEFINE m == [mon[cl[c].run] EXCEPT !.startpipe = "released"]
    <2>1. mon' = [mon EXCEPT ![cl[c].run] = m] /\ Goto(c, "sync") /\ UNCHANGED db
      BY <1>2, ZenonT(60) DEF release_startpipe
    <2>2. Rec(mon[cl[c].run], m)
      <3>1. m.phase = mon[cl[c].run].phase /\ m.pid = mon[cl[c].run].pid /\ m.syncpipe = mon[cl[c].run].syncpipe
        BY <1>m, ZenonT(60) DEF Monitor
      <3> QED BY <3>1, ZenonT(60) DEF Rec
    <2> HIDE DEF m
    <2>3. Tidy
      BY <1>r, <2>1, <2>2, OneMoves, ZenonT(60)
    <2>4. cl'[c].pc = "sync" /\ cl'[c].gen = cl[c].gen /\ \A d \in Clients \ {c} : cl'[d] = cl[d]
      BY <2>1, GotoStep, ZenonT(60) DEF Places
    <2>5. HolderInv(c)' /\ StopInv(c)'
      BY <1>r, <2>1, <2>4, ZenonT(60) DEF HolderInv, StopInv, Stopper
    <2>6. WaitInv(c)'
      BY <2>3, <2>4, TidyEvolves, EvolvesKeeps, WaitOn, ZenonT(60) DEF Past
    <2> QED BY <1>u, <2>1, <2>3, <2>4, <2>5, <2>6, SafeGo, ZenonT(60)
  <1>3. CASE SyncStarted(c)
    <2>1. Goto(c, "ready") /\ UNCHANGED <<db, mon>> /\ mon[cl[c].run].syncpipe = "started"
      BY <1>3, ZenonT(60) DEF SyncStarted, monVars
    <2>2. /\ cl'[c].pc = "ready" /\ cl'[c].gen = cl[c].gen /\ cl'[c].run = cl[c].run
          /\ \A d \in Clients \ {c} : cl'[d] = cl[d]
      BY <2>1, GotoStep, ZenonT(60) DEF Places
    <2>3. HolderInv(c)' /\ StopInv(c)'
      BY <1>r, <2>1, <2>2, ZenonT(60) DEF HolderInv, StopInv, Stopper
    <2>4. WaitInv(c)'
      BY <2>1, <2>2, SameTidy, TidyEvolves, EvolvesKeeps, WaitOn, ZenonT(60) DEF Past
    <2> QED BY <1>u, <2>1, <2>2, <2>3, <2>4, SameTidy, SafeGo, ZenonT(60)
  <1>4. CASE SyncFailed(c)
    BY <1>4, <1>u, SameTidy, SafeFail, ZenonT(60) DEF SyncFailed, monVars
  <1>5. CASE SyncTimeout(c)
    <2>1. PICK end \in {"open", "closed"} : mon' = [mon EXCEPT ![cl[c].run].syncpipe = end]
      BY <1>5, ZenonT(60) DEF SyncTimeout
    <2>2. mon[cl[c].run].syncpipe = "open" /\ FailStart(c, "stopped")
      BY <1>5, ZenonT(60) DEF SyncTimeout
    <2> DEFINE m == [mon[cl[c].run] EXCEPT !.syncpipe = end]
    <2>3. Rec(mon[cl[c].run], m)
      <3>1. m.phase = mon[cl[c].run].phase /\ m.pid = mon[cl[c].run].pid /\ m.syncpipe # "started"
        BY <1>m, ZenonT(60) DEF Monitor
      <3> HIDE DEF m
      <3> QED BY <2>2, <3>1, ZenonT(60) DEF Rec
    <2>4. mon' = [mon EXCEPT ![cl[c].run] = m]
      BY <2>1, ZenonT(60)
    <2> HIDE DEF m
    <2>5. Tidy
      BY <1>r, <2>3, <2>4, OneMoves, ZenonT(60)
    <2> QED BY <1>u, <2>2, <2>5, SafeFail, ZenonT(60)
  <1> QED BY <1>1, <1>2, <1>3, <1>4, <1>5, ZenonT(60)

\* The monitor has reported: the row takes up its pid.
LEMMA SafeReady ==
    ASSUME IInv, JInv, NEW c \in Clients, MarkReady(c)
    PROVE  JInv'
  <1> USE LifecycleAssumption
  <1>0. cl[c].pc = "ready" /\ UNCHANGED <<mon, nextRun, alien, pidfile, net>>
    BY ZenonT(60) DEF MarkReady, hostVars, monVars, boundVars
  <1>1. PICK r \in Runs : r = cl[c].run
    BY <1>0, ZenonT(60) DEF IInv, Knows
  <1>2. /\ db.status = "starting" /\ db.runId = r /\ db.pid = None
        /\ mon[r].syncpipe = "started" /\ MonInv /\ FileInv /\ RowInv
    BY <1>0, <1>1, ZenonT(60) DEF IInv, Knows, JInv, HolderInv
  <1>k. Tidy /\ Evolves
    BY <1>0, SameTidy, TidyEvolves, ZenonT(60)
  <1>3. CASE ~ (pidfile.pid \in Pids /\ pid_exists(pidfile.pid))
    BY <1>0, <1>3, <1>k, SafeFail, ZenonT(60) DEF MarkReady
  <1>4. CASE pidfile.pid \in Pids /\ pid_exists(pidfile.pid)
    <2> DEFINE t == IF BirthTimes THEN Incarnation(pidfile.pid) ELSE pidfile.by
    <2>1. PICK p \in Pids : p = pidfile.pid
      BY <1>4, ZenonT(60)
    <2>2. mon[r].pid = p
      BY <1>2, <2>1 DEF FileInv, Runs
    <2>3. t # None /\ (BirthTimes => t = r) /\ ~ Gone(p)
      <3>1. Incarnation(p) = r /\ ~ Gone(p)
        BY <1>2, <1>4, <2>1, <2>2, PidTells, ZenonT(60)
      <3>2. r # None /\ pidfile.by # None
        BY DEF Runs, IInv, TypeOK
      <3> QED BY <2>1, <3>1, <3>2, Zenon
    <2>4. db' = replace_runtime("running", p, t, r, FALSE) /\ Return(c)
      BY <1>0, <1>1, <1>2, <1>4, <2>1, ZenonT(60) DEF MarkReady, transition, MonitorReady, require_run_id, Accept,
         save_machine_state
    <2> HIDE DEF t
    <2>5. db'.pid = p /\ db'.startedAt = t /\ db'.runId = r /\ db'.status = "running"
      BY <2>4, ZenonT(60) DEF replace_runtime
    <2>6. \A q \in Runs : Present(q)' => q = r
      BY <1>0, <1>2 DEF RowInv, Present, Starting, Runs
    <2>7. RowInv'
      BY <1>0, <2>2, <2>3, <2>5, <2>6, ZenonT(60) DEF RowInv, Names, IsActive
    <2>8. RowStep(c)
      <3>1. ASSUME NEW d \in Clients \ {c}, Stopper(d) PROVE p # cl[d].gen.pid
        BY <1>2, <2>3, <3>1, StopOutlived, ZenonT(60)
      <3> QED BY <1>2, <2>5, <3>1, ZenonT(60) DEF RowStep
    <2> QED BY <1>0, <1>2, <1>k, <2>4, <2>5, <2>7, <2>8, ReturnStep, IdleKnows, SafeHold, ZenonT(60) DEF LockedPlaces
  <1> QED BY <1>3, <1>4, ZenonT(60)

-----------------------------------------------------------------------------
(* Stopping, waiting and cleaning up *)

\* A row whose monitor is gone: no monitor is present.
LEMMA NamedGone ==
    ASSUME IInv, JInv, db.pid # None, Gone(db.pid)
    PROVE  NonePresent
  <1>1. PICK q \in Runs : mon[q].pid = db.pid /\ \A r \in Runs : Present(r) => r = q
    BY ZenonT(60) DEF JInv, RowInv, Names
  <1>2. mon[q].phase = "dead"
    BY <1>1, ZenonT(60) DEF Gone
  <1> QED BY <1>1, <1>2, ZenonT(60) DEF NonePresent, Present, Starting, Registered

\* A pid of the row, or of a caller, that no process has is a dead monitor's.
LEMMA NoProcess ==
    ASSUME IInv, JInv, NEW p \in Pids, NEW q \in Runs, mon[q].pid = p, ~ pid_exists(p)
    PROVE  Gone(p)
  BY PidTells, ZenonT(60) DEF JInv

\* There is no one to stop.
LEMMA SafeUnmonitored ==
    ASSUME IInv, JInv, NEW c \in Clients, StopUnmonitored(c)
    PROVE  JInv'
  <1> USE LifecycleAssumption
  <1>0. /\ cl[c].pc = "act" /\ UNCHANGED <<mon, nextRun, alien, pidfile>> /\ Return(c)
        /\ db' = Cleared("stopped", FALSE) /\ alien = {}
        /\ db.pid = None \/ ~ pid_exists(db.pid)
    <2>1. alien = {}
      BY ZenonT(60) DEF JInv, MonInv
    <2> QED BY <2>1, ZenonT(60) DEF StopUnmonitored, At, StopAtOnce, save_machine_state, monVars, boundVars
  <1>1. db'.pid = None /\ db'.startedAt = None /\ db'.runId = None
    BY <1>0, ZenonT(60) DEF Cleared, replace_runtime
  <1>2. ASSUME db.pid # None PROVE Gone(db.pid)
    <2>1. PICK q \in Runs : mon[q].pid = db.pid
      BY <1>2, ZenonT(60) DEF JInv, RowInv, Names
    <2>2. db.pid \in Pids
      BY <1>2, ZenonT(60) DEF IInv, TypeOK, MachineState
    <2> QED BY <1>0, <1>2, <2>1, <2>2, NoProcess, ZenonT(60)
  <1>3. NonePresent
    BY <1>0, <1>2, NamedGone, ZenonT(60) DEF JInv, HolderInv
  <1>4. Tidy /\ Evolves
    BY <1>0, SameTidy, TidyEvolves, ZenonT(60)
  <1>5. RowInv' /\ RowStep(c)
    BY <1>1, <1>2, <1>4, RowCleared, ZenonT(60) DEF JInv, RowStep
  <1> QED BY <1>0, <1>1, <1>3, <1>4, <1>5, ReturnStep, IdleKnows, SafeHold, ZenonT(60) DEF LockedPlaces

\* The signal is sent and the stop recorded.
LEMMA SafeStopRequest ==
    ASSUME IInv, JInv, NEW c \in Clients, StopSignal(c) \/ request_machine_stop(c)
    PROVE  JInv'
  <1> USE LifecycleAssumption
  <1>1. CASE StopSignal(c)
    <2>1. /\ cl[c].pc = "act" /\ cl[c].op \in {"stop", "kill"} /\ db.pid # None
          /\ UNCHANGED <<db, nextRun, net, alien, pidfile>> /\ Goto(c, "mark")
          /\ mon' = mon \/ interrupt_monitor(db.pid) \/ kill_monitor_process_group(db.pid)
      BY <1>1, ZenonT(60) DEF StopSignal, At, hostVars, boundVars
    <2>2. Tidy
      <3>1. ASSUME NEW r \in Runs, r \in Holder(db.pid)
            PROVE  Rec(mon[r], Killed(mon[r])) /\ Rec(mon[r], Interrupted(mon[r]))
        BY <3>1, SignalsAreTidy, ZenonT(60) DEF IInv, TypeOK, Holder, Alive, LivePhases
      <3>2. \A r \in Runs : Rec(mon[r], mon[r])
        BY ZenonT(60) DEF Rec
      <3> QED BY <2>1, <3>1, <3>2, SameTidy, ZenonT(60) DEF Tidy, interrupt_monitor, kill_monitor_process_group
    <2>3. Evolves /\ Keeps
      BY <2>2, TidyEvolves, EvolvesKeeps, ZenonT(60)
    <2>4. /\ cl'[c].pc = "mark" /\ cl'[c].op = cl[c].op /\ cl'[c].gen = cl[c].gen
          /\ \A d \in Clients \ {c} : cl'[d] = cl[d]
      BY <2>1, GotoStep, ZenonT(60) DEF Places
    <2>5. \A r \in Runs : ~ Starting(r)'
      BY <2>1, <2>3, ZenonT(60) DEF JInv, HolderInv, Evolves
    <2>6. HolderInv(c)' /\ StopInv(c)'
      BY <2>1, <2>4, <2>5, ZenonT(60) DEF HolderInv, StopInv, Stopper
    <2>7. WaitInv(c)'
      BY <2>3, <2>4, WaitOn, ZenonT(60) DEF Past
    <2> QED BY <2>1, <2>2, <2>4, <2>6, <2>7, SafeGo, ZenonT(60)
  <1>2. CASE request_machine_stop(c)
    <2>1. cl[c].pc = "mark" /\ UNCHANGED <<mon, nextRun, net, alien, pidfile>> /\ cl[c] \in Caller
      BY <1>2, ZenonT(60) DEF request_machine_stop, hostVars, monVars, boundVars, IInv, TypeOK
    <2>2. IsActive(db.status) /\ db.pid # None /\ cl[c].op \in {"stop", "kill"}
      BY <2>1, ZenonT(60) DEF IInv, Knows, JInv, HolderInv
    <2>3. PICK g : g = generation
      BY ZenonT(60)
    <2>4. /\ g \in VmmonRunIdentity /\ g # None
          /\ g.pid = db.pid /\ g.startedAt = db.startedAt /\ g.runId = db.runId
      BY <2>2, <2>3, GenerationNames, ZenonT(60)
    <2>5. /\ db' = replace_runtime("stopping", g.pid, g.startedAt, g.runId, FALSE)
          /\ cl' = [cl EXCEPT ![c] = [@ EXCEPT !.pc = "await", !.gen = g]]
      BY <1>2, <2>2, <2>3, ZenonT(60) DEF request_machine_stop, transition, StopRequested, Accept, save_machine_state,
         IsActive
    <2>6. db'.pid = db.pid /\ db'.startedAt = db.startedAt /\ db'.runId = db.runId /\ db'.status = "stopping"
      BY <2>4, <2>5, ZenonT(60) DEF replace_runtime
    <2>7. /\ cl'[c].pc = "await" /\ cl'[c].op = cl[c].op /\ cl'[c].gen = g
          /\ \A d \in Clients \ {c} : cl'[d] = cl[d]
      BY <2>1, <2>5, SMTT(60) DEF IInv, TypeOK, Caller
    <2>8. RowInv' /\ RowStep(c)
      BY <2>1, <2>2, <2>6, SMTT(60) DEF JInv, RowInv, RowStep, Names, Present, Starting, IsActive
    <2>9. HolderInv(c)'
      BY <2>7, ZenonT(60) DEF HolderInv
    <2>10. \E q \in Runs : Names(q, g.pid, g.startedAt, g.runId)
      BY <2>2, <2>3, GenerationNames, ZenonT(60)
    <2>11. WaitInv(c)'
      BY <2>1, <2>7, <2>10, ZenonT(60) DEF WaitInv, Past, Names
    <2>12. StopInv(c)'
      BY <2>4, <2>6, <2>7, ZenonT(60) DEF StopInv
    <2> QED BY <2>1, <2>6, <2>7, <2>8, <2>9, <2>11, <2>12, SameTidy, SafeHold, ZenonT(60) DEF LockedPlaces
  <1> QED BY <1>1, <1>2, ZenonT(60)

\* Waiting for the monitor's exit.
LEMMA SafeWait ==
    ASSUME IInv, JInv, NEW c \in Clients, PinMonitor(c) \/ MonitorExited(c)
    PROVE  JInv'
  <1> USE LifecycleAssumption
  <1>0. UNCHANGED <<mon, db, nextRun, net, alien, pidfile>> /\ cl[c].pc \in {"await", "watch"}
    BY ZenonT(60) DEF PinMonitor, MonitorExited, hostVars, monVars, boundVars
  <1>k. Tidy /\ Keeps
    BY <1>0, SameTidy, TidyEvolves, EvolvesKeeps, ZenonT(60)
  <1>1. PICK s \in Caller : s = cl[c]
    BY ZenonT(60) DEF IInv, TypeOK
  <1>2. s.gen # None /\ s.gen.pid \in Pids
    BY <1>0, <1>1, ZenonT(60) DEF IInv, Knows, Caller, VmmonRunIdentity
  <1>3. PICK q \in Runs : Names(q, s.gen.pid, s.gen.startedAt, s.gen.runId)
    BY <1>1, <1>2, ZenonT(60) DEF JInv, WaitInv
  <1>4. MonInv /\ WaitInv(c)
    BY ZenonT(60) DEF JInv
  <1>5. ASSUME cl'[c].gen = s.gen, cl'[c].op = s.op, \A d \in Clients \ {c} : cl'[d] = cl[d],
               \/ cl'[c].pc = "watch" /\ cl'[c].target = q
               \/ cl'[c].pc = "relock" /\ Gone(s.gen.pid)
        PROVE  JInv'
    <2>1. HolderInv(c)'
      BY <1>5, ZenonT(60) DEF HolderInv
    <2>2. WaitInv(c)'
      <3>1. Names(q, s.gen.pid, s.gen.startedAt, s.gen.runId)' /\ mon'[q].pid = s.gen.pid
        BY <1>0, <1>3, ZenonT(60) DEF Names
      <3>2. cl'[c].pc = "relock" => Gone(s.gen.pid)'
        BY <1>0, <1>5, ZenonT(60) DEF Gone
      <3> QED BY <1>2, <1>5, <3>1, <3>2, ZenonT(60) DEF WaitInv, Past
    <2>3. Stopper(c)' => Stopper(c)
      BY <1>0, <1>1, <1>5, ZenonT(60) DEF Stopper
    <2>4. StopInv(c)'
      BY <1>0, <1>1, <1>5, <1>k, <2>3, StopKept, ZenonT(60)
    <2> QED BY <1>0, <1>5, <1>k, <2>1, <2>2, <2>4, SafeGo, ZenonT(60)
  <1>6. CASE PinMonitor(c)
    <2>1. Identified(s.gen.pid, s.gen.startedAt) <=> pid_exists(s.gen.pid)
      BY <1>2, <1>3, <1>4, PidTells, ZenonT(60) DEF Identified, matches_started_at, Names
    <2>2. CASE pid_exists(s.gen.pid)
      <3>1. Incarnation(s.gen.pid) = q
        BY <1>2, <1>3, <1>4, <2>2, PidTells, ZenonT(60) DEF Names
      <3>2. cl' = [cl EXCEPT ![c] = [@ EXCEPT !.pc = "watch", !.target = q]]
        BY <1>1, <1>6, <2>1, <2>2, <3>1, ZenonT(60) DEF PinMonitor
      <3>3. /\ cl'[c].pc = "watch" /\ cl'[c].target = q /\ cl'[c].gen = s.gen /\ cl'[c].op = s.op
            /\ \A d \in Clients \ {c} : cl'[d] = cl[d]
        BY <1>1, <3>2, ZenonT(60) DEF IInv, TypeOK, Caller
      <3> QED BY <1>5, <3>3, ZenonT(60)
    <2>3. CASE ~ pid_exists(s.gen.pid)
      <3>1. Goto(c, "relock")
        BY <1>1, <1>6, <2>1, <2>3, ZenonT(60) DEF PinMonitor
      <3>2. Gone(s.gen.pid)
        BY <1>2, <1>3, <2>3, NoProcess, ZenonT(60) DEF Names
      <3> QED BY <1>1, <1>5, <3>1, <3>2, GotoStep, ZenonT(60) DEF Places
    <2> QED BY <2>2, <2>3, ZenonT(60)
  <1>7. CASE MonitorExited(c)
    <2>1. PICK r \in Runs : r = s.target /\ mon[r].pid = s.gen.pid
      BY <1>1, <1>4, <1>7, ZenonT(60) DEF MonitorExited, WaitInv
    <2>2. ~ pid_exists(s.gen.pid)
      BY <1>1, <1>2, <1>4, <1>7, <2>1, PidTells, ZenonT(60) DEF MonitorExited
    <2>3. Gone(s.gen.pid)
      BY <1>2, <2>1, <2>2, NoProcess, ZenonT(60)
    <2>4. cl' = [cl EXCEPT ![c] = [@ EXCEPT !.pc = "relock", !.target = None]]
      BY <1>7, ZenonT(60) DEF MonitorExited
    <2>5. /\ cl'[c].pc = "relock" /\ cl'[c].gen = s.gen /\ cl'[c].op = s.op
          /\ \A d \in Clients \ {c} : cl'[d] = cl[d]
      BY <1>1, <2>4, ZenonT(60) DEF IInv, TypeOK, Caller
    <2> QED BY <1>5, <2>3, <2>5, ZenonT(60)
  <1> QED BY <1>6, <1>7, ZenonT(60)

\* The awaited monitor is gone: the row that still names it is settled.
LEMMA SafeComplete ==
    ASSUME IInv, JInv, NEW c \in Clients, complete_stop_locked(c)
    PROVE  JInv'
  <1> USE LifecycleAssumption
  <1>0. cl[c].pc = "complete" /\ UNCHANGED <<mon, nextRun, alien, pidfile>> /\ Goto(c, "report")
    BY Zenon DEF complete_stop_locked, monVars, boundVars
  <1>k. Tidy /\ Evolves /\ Keeps
    BY <1>0, SameTidy, TidyEvolves, EvolvesKeeps, ZenonT(60)
  <1>1. cl'[c].pc = "report" /\ cl'[c].gen = cl[c].gen /\ \A d \in Clients \ {c} : cl'[d] = cl[d]
    BY <1>0, GotoStep, ZenonT(60) DEF Places
  <1>2. HolderInv(c)' /\ StopInv(c)'
    BY <1>1, ZenonT(60) DEF HolderInv, StopInv, Stopper
  <1>3. WaitInv(c)'
    BY <1>0, <1>1, <1>k, WaitOn, ZenonT(60) DEF Past
  <1>4. CASE UNCHANGED <<db, net>>
    BY <1>0, <1>1, <1>2, <1>3, <1>4, <1>k, SafeGo, ZenonT(60)
  <1>5. CASE ~ UNCHANGED <<db, net>>
    <2>1. vmmon_run_identity_matches(cl[c].gen) /\ db' = StopCompleted(db, cl[c].gen).state
          /\ StopCompleted(db, cl[c].gen).error = None
      BY <1>5, ZenonT(60) DEF complete_stop_locked, save_machine_state
    <2>2. db' = Cleared("stopped", FALSE)
      <3>1. db.status = "stopping"
        BY <1>0, <2>1, ZenonT(60) DEF JInv, HolderInv, StopInv, Stopper, vmmon_run_identity_matches
      <3>2. require_generation(db, cl[c].gen)
        BY <2>1, ZenonT(60) DEF vmmon_run_identity_matches, require_generation, require_run_id
      <3> QED BY <2>1, <3>1, <3>2, ZenonT(60) DEF StopCompleted, Accept
    <2>3. db'.pid = None /\ db'.startedAt = None /\ db'.runId = None
      BY <2>2, ZenonT(60) DEF Cleared, replace_runtime
    <2>4. Gone(db.pid) /\ db.pid # None
      <3>1. cl[c].gen # None /\ Gone(cl[c].gen.pid) /\ cl[c] \in Caller
        BY <1>0, ZenonT(60) DEF JInv, WaitInv, Past, IInv, TypeOK
      <3>2. cl[c].gen.pid \in Pids
        BY <3>1, ZenonT(60) DEF Caller, VmmonRunIdentity
      <3> QED BY <2>1, <3>1, <3>2, ZenonT(60) DEF vmmon_run_identity_matches
    <2>5. NonePresent
      BY <2>4, NamedGone, ZenonT(60)
    <2>6. RowInv' /\ RowStep(c)
      BY <1>k, <2>3, <2>4, RowCleared, ZenonT(60) DEF JInv, RowStep
    <2> QED BY <1>0, <1>1, <1>2, <1>3, <1>k, <2>3, <2>5, <2>6, SafeHold, ZenonT(60) DEF LockedPlaces
  <1> QED BY <1>4, <1>5, ZenonT(60)

\* The steps that return without touching anything.
LEMMA SafeEnds ==
    ASSUME IInv, JInv, NEW c \in Clients, StopDenied(c) \/ WaitTimeout(c) \/ Report(c) \/ InspectDone(c)
    PROVE  JInv'
  <1>1. Return(c) /\ UNCHANGED <<mon, db, nextRun, net, alien, pidfile>>
    BY ZenonT(60) DEF StopDenied, WaitTimeout, Report, InspectDone, hostVars, monVars, boundVars
  <1> QED BY <1>1, SameTidy, SafeReturn, ZenonT(60)

\* The steps that clean up after a machine that is down.
LEMMA SafeCleanUp ==
    ASSUME IInv, JInv, NEW c \in Clients, StopNotRunning(c) \/ WaitSettle(c) \/ CleanUp(c)
    PROVE  JInv'
  <1>0. cl[c].pc = "act" /\ UNCHANGED <<mon, db, nextRun, alien, pidfile>>
    BY ZenonT(60) DEF StopNotRunning, WaitSettle, CleanUp, At, monVars, boundVars
  <1>1. net' = net \/ NonePresent
    BY <1>0, DownIsDown, ZenonT(60) DEF StopNotRunning, WaitSettle, CleanUp
  <1>2. CASE StopNotRunning(c) \/ CleanUp(c)
    BY <1>0, <1>1, <1>2, ReturnStep, IdleKnows, SafeNet, ZenonT(60) DEF StopNotRunning, CleanUp
  <1>3. CASE WaitSettle(c)
    <2>1. cl'[c].pc = "report" /\ cl'[c].gen = cl[c].gen /\ \A d \in Clients \ {c} : cl'[d] = cl[d]
      BY <1>3, GotoStep, ZenonT(60) DEF Places, WaitSettle
    <2>2. HolderInv(c)' /\ StopInv(c)'
      BY <2>1, ZenonT(60) DEF HolderInv, StopInv, Stopper
    <2>3. WaitInv(c)'
      BY <1>0, <1>3, <2>1, SameTidy, TidyEvolves, EvolvesKeeps, WaitOn, ZenonT(60) DEF Past, WaitSettle, At
    <2> QED BY <1>0, <1>1, <2>1, <2>2, <2>3, SafeNet, ZenonT(60)
  <1> QED BY <1>2, <1>3, ZenonT(60)

\* Choosing what to wait for, and looking again.
LEMMA SafeTarget ==
    ASSUME IInv, JInv, NEW c \in Clients, WaitTarget(c) \/ WaitPoll(c)
    PROVE  JInv'
  <1> USE LifecycleAssumption
  <1>0. cl[c].pc = "act" /\ UNCHANGED <<mon, db, nextRun, net, alien, pidfile>>
    BY Zenon DEF WaitTarget, WaitPoll, At, hostVars, monVars, boundVars
  <1>k. Tidy /\ Keeps
    BY <1>0, SameTidy, TidyEvolves, EvolvesKeeps, ZenonT(60)
  <1>c. cl \in [Clients -> Caller] /\ cl[c] \in Caller
    BY ZenonT(60) DEF IInv, TypeOK
  <1>1. CASE WaitTarget(c)
    <2>1. PICK g : g = IF ~ IsActive(db.status) THEN cl[c].gen
                       ELSE IF db.pid # None THEN generation ELSE None
      BY Zenon
    <2>2. ASSUME g # None PROVE \E q \in Runs : Names(q, g.pid, g.startedAt, g.runId)
      <3>1. CASE ~ IsActive(db.status)
        BY <2>1, <2>2, <3>1, ZenonT(60) DEF JInv, WaitInv
      <3>2. CASE IsActive(db.status)
        BY <2>1, <2>2, <3>2, GenerationNames, ZenonT(60)
      <3> QED BY <3>1, <3>2, ZenonT(60)
    <2> DEFINE o == IF g = None THEN "poll" ELSE "settle"
               place == IF g = None THEN "relock" ELSE "await"
               r == [cl[c] EXCEPT !.gen = g, !.op = o, !.pc = place]
    <2>3. r.gen = g /\ r.op = o /\ r.pc = place
      BY <1>c, ZenonT(60) DEF Caller
    <2>4. cl' = [cl EXCEPT ![c] = r]
      BY <1>1, <2>1, ZenonT(60) DEF WaitTarget
    <2> HIDE DEF r
    <2>5. cl'[c].gen = g /\ cl'[c].op = o /\ cl'[c].pc = place /\ \A d \in Clients \ {c} : cl'[d] = cl[d]
      BY <1>c, <2>3, <2>4, ZenonT(60)
    <2>6. HolderInv(c)' /\ StopInv(c)'
      BY <2>5, ZenonT(60) DEF HolderInv, StopInv, Stopper
    <2>7. WaitInv(c)'
      BY <1>0, <2>2, <2>5, ZenonT(60) DEF WaitInv, Past, Names
    <2> QED BY <1>0, <1>k, <2>5, <2>6, <2>7, SafeGo, ZenonT(60)
  <1>2. CASE WaitPoll(c) /\ Return(c)
    BY <1>0, <1>2, <1>k, SafeReturn, ZenonT(60)
  <1>3. CASE WaitPoll(c) /\ ~ Return(c)
    <2>1. cl' = [cl EXCEPT ![c] = [@ EXCEPT !.op = "wait", !.pc = "relock"]]
      BY <1>3, ZenonT(60) DEF WaitPoll
    <2>2. /\ cl'[c].pc = "relock" /\ cl'[c].op = "wait" /\ cl'[c].gen = cl[c].gen
          /\ \A d \in Clients \ {c} : cl'[d] = cl[d]
      BY <1>c, <2>1, ZenonT(60) DEF Caller
    <2>3. HolderInv(c)' /\ StopInv(c)'
      BY <2>2, ZenonT(60) DEF HolderInv, StopInv, Stopper
    <2>4. WaitInv(c)'
      BY <1>k, <2>2, WaitOn, ZenonT(60) DEF Past
    <2> QED BY <1>0, <1>k, <2>2, <2>3, <2>4, SafeGo, ZenonT(60)
  <1> QED BY <1>1, <1>2, <1>3, ZenonT(60)

\* The caller dies: its pipe ends close.
LEMMA SafeCrash ==
    ASSUME IInv, JInv, NEW c \in Clients, Crash(c)
    PROVE  JInv'
  <1>1. Return(c) /\ UNCHANGED <<db, nextRun, net, alien, pidfile>>
    BY Zenon DEF Crash, hostVars
  <1>2. ASSUME NEW r \in Runs PROVE Rec(mon[r], mon'[r])
    <2>1. mon[r] \in Monitor
      BY ZenonT(60) DEF IInv, TypeOK
    <2> DEFINE a == IF mon[r].startpipe = "held" THEN "closed" ELSE mon[r].startpipe
               b == IF mon[r].syncpipe = "open" THEN "closed" ELSE mon[r].syncpipe
               m == [mon[r] EXCEPT !.startpipe = a, !.syncpipe = b]
    <2>2. mon'[r] = mon[r] \/ mon'[r] = m
      BY Zenon DEF Crash
    <2>3. m.phase = mon[r].phase /\ m.pid = mon[r].pid /\ m.syncpipe = b
      BY <2>1, Zenon DEF Monitor
    <2>4. mon[r].syncpipe = "started" <=> b = "started"
      BY Zenon
    <2> HIDE DEF m, b
    <2>5. Rec(mon[r], mon[r]) /\ Rec(mon[r], m)
      BY <2>3, <2>4, ZenonT(60) DEF Rec
    <2> QED BY <2>2, <2>5, ZenonT(60)
  <1> QED BY <1>1, <1>2, SafeReturn, ZenonT(60) DEF Tidy

\* Time passes; other programs come and go only where pids are used again.
LEMMA SafeHost ==
    ASSUME IInv, JInv, Tame, (\E p \in Pids : ProgramTakesPid(p) \/ ProgramExits(p)) \/ RowAges
    PROVE  JInv'
  <1>1. RowAges
    BY ZenonT(60) DEF ProgramTakesPid, ProgramExits, Tame, JInv, MonInv
  <1>2. UNCHANGED <<mon, pidfile, cl, db, nextRun, net, alien>>
    BY <1>1, ZenonT(60) DEF RowAges, hostVars, monVars, boundVars
  <1> QED BY <1>2, SameTidy, TidyMoves, ZenonT(60)

\* Every step keeps the invariant.
LEMMA SafeStep ==
    ASSUME IInv, JInv, Tame, [Next]_vars
    PROVE  JInv'
  <1>1. ASSUME NEW c \in Clients, Arrive(c) PROVE JInv'
    BY <1>1, SafeArrive, ZenonT(60)
  <1>2. ASSUME NEW c \in Clients, Proceed(c) PROVE JInv'
    BY <1>2, SafeProbe, SafeWriteBack, SafePrepare, SafeRequest, SafeSpawn, SafeSync, SafeReady,
       SafeUnmonitored, SafeStopRequest, SafeWait, SafeComplete, SafeEnds, SafeCleanUp, SafeTarget, ZenonT(60)
       DEF Proceed
  <1>3. ASSUME NEW c \in Clients, Crash(c) PROVE JInv'
    BY <1>3, SafeCrash, ZenonT(60)
  <1>4. ASSUME NEW r \in Runs, MonitorStep(r) \/ MonitorKilled(r) PROVE JInv'
    BY <1>4, SafeMonitorSteps, ZenonT(60)
  <1>5. CASE (\E p \in Pids : ProgramTakesPid(p) \/ ProgramExits(p)) \/ RowAges
    BY <1>5, SafeHost, ZenonT(60)
  <1>6. CASE UNCHANGED vars
    BY <1>6, SameTidy, TidyMoves, ZenonT(60) DEF vars
  <1> QED BY <1>1, <1>2, <1>3, <1>4, <1>5, <1>6, ZenonT(60) DEF Next

-----------------------------------------------------------------------------
(* The theorems *)

\* Where a forked vmmon registers before the next caller looks and no pid is used twice, the
\* invariant holds in every reachable state, whatever callers and monitors do and whoever crashes.
THEOREM SafeInvariance == ASSUME Tame PROVE Spec => [](IInv /\ JInv)
  <1>1. Init => IInv /\ JInv
    BY InitIInv, SafeInit, ZenonT(60)
  <1>2. IInv /\ IInv' /\ JInv /\ [Next]_vars => JInv'
    BY SafeStep, ZenonT(60)
  <1>3. Spec => []IInv
    BY Invariance, ZenonT(60)
  <1> QED BY <1>1, <1>2, <1>3, PTL DEF Spec

\* A stop or kill that comes back from waiting and still finds its run in the row can settle it:
\* nobody has turned the "stopping" row it wrote into something else (core.rs, complete_stop_locked).
THEOREM StopsComplete == ASSUME Tame PROVE Spec => []StopCanComplete
  <1>1. IInv /\ JInv => StopCanComplete
    <2> SUFFICES ASSUME IInv, JInv, NEW c \in Clients, cl[c].pc = "complete",
                        vmmon_run_identity_matches(cl[c].gen)
                 PROVE  StopCompleted(db, cl[c].gen).error = None
      BY Zenon DEF StopCanComplete
    <2>1. HolderInv(c) /\ StopInv(c)
      BY Zenon DEF JInv
    <2>2. db.status = "stopping"
      BY <2>1, ZenonT(60) DEF HolderInv, StopInv, Stopper, vmmon_run_identity_matches
    <2>3. require_generation(db, cl[c].gen)
      BY ZenonT(60) DEF vmmon_run_identity_matches, require_generation, require_run_id
    <2> QED BY <2>2, <2>3, ZenonT(60) DEF StopCompleted, Accept
  <1> QED BY <1>1, SafeInvariance, PTL

\* A stop, kill or wait that comes back from waiting has outlived the run it was about.
THEOREM AwaitedRunsAreOver == ASSUME Tame PROVE Spec => []AwaitedRunIsOver
  <1>1. IInv /\ JInv => AwaitedRunIsOver
    <2> SUFFICES ASSUME IInv, JInv, NEW c \in Clients,
                        \/ cl[c].pc \in {"complete", "report"}
                        \/ cl[c].pc = "relock" /\ cl[c].op \in {"stop", "kill", "settle"},
                        cl[c].gen.runId # None
                 PROVE  ~ Alive(cl[c].gen.runId)
      BY Zenon DEF AwaitedRunIsOver
    <2>1. WaitInv(c) /\ Past(c)
      BY Zenon DEF JInv, Past
    <2>2. PICK q \in Runs : Names(q, cl[c].gen.pid, cl[c].gen.startedAt, cl[c].gen.runId)
      BY <2>1, ZenonT(60) DEF WaitInv
    <2>3. q = cl[c].gen.runId /\ mon[q].phase = "dead"
      BY <2>1, <2>2, ZenonT(60) DEF WaitInv, Names, Gone
    <2> QED BY <2>3, ZenonT(60) DEF Alive, LivePhases
  <1> QED BY <1>1, SafeInvariance, PTL

\* Between PidGuard::create and the guard's drop the pidfile names the monitor.
THEOREM PidfileIsTheMonitors == ASSUME Tame PROVE Spec => []PidfileNamesMonitor
  <1>1. IInv /\ JInv => PidfileNamesMonitor
    BY ZenonT(60) DEF JInv, FileInv, PidfileNamesMonitor
  <1> QED BY <1>1, SafeInvariance, PTL

\* No clean-up, stop or start takes the network away from a monitor that runs its machine.
THEOREM NetworkIsKept == ASSUME Tame PROVE Spec => []RunningMachineKeepsNetwork
  <1>1. IInv /\ JInv => RunningMachineKeepsNetwork
    BY Zenon DEF JInv, MonInv, Present, RunningMachineKeepsNetwork
  <1> QED BY <1>1, SafeInvariance, PTL

\* Two monitors that have written their pidfile and not dropped it are the same one.
OneMonitor == \A r, q \in Runs : mon[r].phase \in Registered /\ mon[q].phase \in Registered => r = q

\* Two monitors never hold the pidfile at once: a start is refused from the monitor's report of
\* itself until it drops the pidfile.
THEOREM MonitorsAreAlone == ASSUME Tame PROVE Spec => []OneMonitor
  <1>1. IInv /\ JInv => OneMonitor
    BY ZenonT(60) DEF JInv, MonInv, Present, OneMonitor
  <1> QED BY <1>1, SafeInvariance, PTL

\* A caller that makes the row forget a monitor has found it dead.
LEMMA ForgetStep ==
    ASSUME IInv, JInv, NEW c \in Clients, Proceed(c), db.pid # None, db'.pid # db.pid
    PROVE  Gone(db.pid)
  <1> USE LifecycleAssumption
  <1>c. cl[c] \in Caller /\ HolderInv(c) /\ WaitInv(c)
    BY ZenonT(60) DEF IInv, TypeOK, JInv
  <1>1. CASE WriteBack(c)
    <2>1. PICK live : live = cl[c].live
      BY Zenon
    <2>2. db' = observe_machine_state(live).state
      BY <1>1, <2>1, ZenonT(60) DEF WriteBack, machine_state_needs_writeback, save_machine_state
    <2>3. live # None => db'.pid = live.pid
      BY <2>2, ZenonT(60) DEF observe_machine_state, MonitorObserved, replace_runtime, Accept
    <2>4. Found(c)
      BY <1>1, <1>c, ZenonT(60) DEF WriteBack, HolderInv
    <2> QED BY <2>1, <2>3, <2>4, ZenonT(60) DEF Found
  <1>2. CASE StopUnmonitored(c)
    <2>1. ~ pid_exists(db.pid)
      BY <1>2, ZenonT(60) DEF StopUnmonitored, JInv, MonInv
    <2>2. PICK q \in Runs : mon[q].pid = db.pid
      BY ZenonT(60) DEF JInv, RowInv, Names
    <2>3. db.pid \in Pids
      BY ZenonT(60) DEF IInv, TypeOK, MachineState
    <2> QED BY <2>1, <2>2, <2>3, NoProcess, ZenonT(60)
  <1>3. CASE request_machine_stop(c)
    <2>1. PICK g : g = generation
      BY Zenon
    <2>2. g.pid = db.pid
      BY <2>1, Zenon DEF generation
    <2>3. db' = db \/ db' = StopRequested(db, g).state
      BY <1>3, <2>1, ZenonT(60) DEF request_machine_stop, transition, save_machine_state
    <2> QED BY <2>2, <2>3 DEF StopRequested, Refuse, Accept, replace_runtime
  <1>4. CASE complete_stop_locked(c)
    <2>1. vmmon_run_identity_matches(cl[c].gen) /\ cl[c].pc = "complete"
      BY <1>4, ZenonT(60) DEF complete_stop_locked
    <2> QED BY <1>c, <2>1, ZenonT(60) DEF WaitInv, Past, vmmon_run_identity_matches
  <1>5. CASE \/ request_machine_start(c) \/ Spawn(c) \/ release_startpipe(c) \/ SyncStarted(c)
             \/ SyncFailed(c) \/ SyncTimeout(c) \/ MarkReady(c)
    <2>1. cl[c].pc \in {"request", "spawn", "release", "sync", "ready"}
      BY <1>5, ZenonT(60) DEF request_machine_start, Spawn, release_startpipe, SyncStarted, SyncFailed, SyncTimeout,
         MarkReady
    <2> QED BY <1>c, <2>1, ZenonT(60) DEF HolderInv
  <1>6. CASE \/ TryLock(c) \/ Relock(c) \/ ProbeMonitor(c) \/ StartRejected(c) \/ StartPrepare(c)
             \/ StopNotRunning(c) \/ StopDenied(c) \/ StopSignal(c) \/ PinMonitor(c) \/ MonitorExited(c)
             \/ WaitTimeout(c) \/ Report(c) \/ WaitTarget(c) \/ WaitPoll(c) \/ WaitSettle(c)
             \/ CleanUp(c) \/ InspectDone(c)
    <2>1. UNCHANGED db
      BY <1>6, ZenonT(60) DEF TryLock, Relock, ProbeMonitor, StartRejected, StartPrepare, StopNotRunning,
         StopDenied, StopSignal, PinMonitor, MonitorExited, WaitTimeout, Report, WaitTarget, WaitPoll,
         WaitSettle, CleanUp, InspectDone
    <2> QED BY <2>1, ZenonT(60)
  <1> QED BY <1>1, <1>2, <1>3, <1>4, <1>5, <1>6, ZenonT(60) DEF Proceed

\* No reconciliation, late stop or clean-up declares a machine down under a live vmmon: the row
\* drops the pid of a monitor only when that monitor is dead.
THEOREM RowForgetsOnlyTheDead == ASSUME Tame PROVE Spec => ForgetsOnlyTheDead
  <1>1. ASSUME IInv, JInv, [Next]_vars, db.pid # None, db'.pid # db.pid
        PROVE  Holder(db.pid) = {}
    <2>1. Gone(db.pid) => Holder(db.pid) = {}
      BY Zenon DEF Gone, Holder, Alive, LivePhases
    <2>2. ASSUME NEW c \in Clients, Proceed(c) PROVE Gone(db.pid)
      BY <1>1, <2>2, ForgetStep, ZenonT(60)
    <2>3. ASSUME NEW c \in Clients, Arrive(c) \/ Crash(c) PROVE UNCHANGED db
      BY <2>3, ZenonT(60) DEF Arrive, Inspect, Begin, OpenRuntime, Crash
    <2>4. ASSUME NEW r \in Runs, MonitorStep(r) \/ MonitorKilled(r) PROVE UNCHANGED db
      BY <2>4, ZenonT(60) DEF MonitorStep, MonitorKilled, PidGuardOpen, PidGuardWrite, PidGuardFails, GateOpens,
         MachineStarts, ReportStarted, Serve, MonitorFails, ReportFailed, MachineStops, ShutdownDone,
         WriteExitStatus, PidGuardDrop, RunExitCommand, MonitorExits, nonMonVars
    <2>5. CASE (\E p \in Pids : ProgramTakesPid(p) \/ ProgramExits(p)) \/ RowAges \/ UNCHANGED vars
      BY <1>1, <2>5, ZenonT(60) DEF ProgramTakesPid, ProgramExits, RowAges, vars
    <2> QED BY <1>1, <2>1, <2>2, <2>3, <2>4, <2>5, ZenonT(60) DEF Next
  <1>2. IInv /\ JInv /\ [Next]_vars => [db.pid # None /\ db'.pid # db.pid => Holder(db.pid) = {}]_vars
    BY <1>1, Zenon
  <1> QED BY <1>2, SafeInvariance, PTL DEF Spec, ForgetsOnlyTheDead
=============================================================================
