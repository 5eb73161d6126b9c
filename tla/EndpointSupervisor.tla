------------------------- MODULE EndpointSupervisor -------------------------
(***************************************************************************)
(* The supervision of vsock endpoint plugins in vmmon                      *)
(* (vmmon/src/endpoints.rs and endpoints/plugin.rs): one task per endpoint *)
(* that starts its plugin process, waits until it is ready, watches it     *)
(* together with the control task that serves its socket, and applies the  *)
(* restart policy.  Endpoints without autostart have no task and are left  *)
(* out.  A plugin's requests and the connections handed to it concern only *)
(* how its control task ends, which is arbitrary here.                     *)
(***************************************************************************)
EXTENDS Integers, Options

CONSTANTS
    Endpoints,   \* the endpoints with autostart
    Initial,     \* backoff_ms.initial, and
    Max          \* backoff_ms.max, in some unit

VARIABLES
    backend,    \* "krun" or "vz"
    config,     \* mode and restart policy of each endpoint
    machine,    \* the virtual machine runs
    shutdown,   \* the cancellation token
    sup,        \* the supervisor task
    port,       \* who has the vsock listener of each endpoint
    live,       \* plugin processes that are alive; a plugin is one of two alternating slots
    ep          \* the task of each endpoint

\* The delays of an endpoint are durations.
ASSUME EndpointAssumption == Initial \in Nat /\ Max \in Nat

endpointVars == <<backend, config, machine, shutdown, sup, port, live, ep>>
worldVars == <<backend, config, machine, shutdown, sup>>

Config == [mode: {"connect", "listen"}, restart: {"never", "on_failure", "always"}]

Outcomes == {"shutdown", "clean", "failed"}

\* exit, event: what the plugin did and nobody has looked at yet; control: the broker or
\* dispatcher; handle: whether the event loop still has its JoinHandle.
Endpoint == [pc: {"check", "listen", "spawn", "ready", "loop", "ended", "backoff", "done"},
             outcome: Outcomes \cup {None}, delay: {Initial} \cup 0..Max, slot: 0..1,
             exit: {"clean", "failed", None}, event: {"ready", "failed", "closed", None},
             control: {"none", "run", "ok", "err"}, handle: {"none", "held", "lost"}]

Listens(e) == config[e].mode = "listen"

-----------------------------------------------------------------------------
(* One run of an endpoint *)

\* What becomes of a listener that is dropped: krun made it before boot and has no other.
Dropped == IF backend = "krun" THEN "gone" ELSE "free"

\* Mutant: a plugin that is dropped is not killed.
Drop_kept(e, l) == l

\* Child::drop kills (kill_on_drop), whether terminate_plugin was called or not.
Drop(e, l) == l \ {ep[e].slot}

\* The run is over.  Its control task is aborted, unless its handle is lost: then it lives
\* on, and a dispatcher keeps the listener.
EndRun(e, outcome, handle) ==
    /\ ep' = [ep EXCEPT ![e] = [@ EXCEPT !.pc = "ended", !.outcome = outcome, !.exit = None,
                  !.event = None, !.control = "none", !.handle = "none"]]
    /\ live' = [live EXCEPT ![e] = Drop(e, @)]
    /\ port' = [port EXCEPT ![e] =
                  IF @ # "run" THEN @
                  ELSE IF handle = "lost" /\ ep[e].control = "run" THEN "orphan"
                  ELSE Dropped]
    /\ UNCHANGED worldVars

\* The listener (listen_vsock): vz lets a port be listened on again once it is free.
supervisor_listen(e) ==
    /\ ep[e].pc = "listen"
    /\ \/ /\ machine /\ port[e] = "free"
          /\ port' = [port EXCEPT ![e] = "run"]
          /\ ep' = [ep EXCEPT ![e].pc = "spawn"]
          /\ UNCHANGED <<worldVars, live>>
       \/ ~ (machine /\ port[e] = "free") /\ EndRun(e, "failed", "none")

start_endpoint_plugin(e) ==
    /\ ep[e].pc = "spawn"
    /\ \/ /\ ep' = [ep EXCEPT ![e] = [@ EXCEPT !.pc = "ready", !.slot = 1 - ep[e].slot,
                        !.control = IF Listens(e) THEN "none" ELSE "run",
                        !.handle = IF Listens(e) THEN "none" ELSE "held"]]
          /\ live' = [live EXCEPT ![e] = @ \cup {1 - ep[e].slot}]
          /\ UNCHANGED <<worldVars, port>>
       \/ EndRun(e, "failed", "none")

\* Shutdown, startup timeout, exit, failure or closed stdout end the run; a broker that
\* already serves is aborted with it.
wait_for_plugin_ready(e) ==
    /\ ep[e].pc = "ready"
    /\ \/ /\ ep[e].event = "ready"
          /\ ep' = [ep EXCEPT ![e] = [@ EXCEPT !.pc = "loop", !.event = None, !.handle = "held",
                        !.control = IF Listens(e) THEN "run" ELSE ep[e].control]]
          /\ UNCHANGED <<worldVars, live, port>>
       \/ shutdown /\ EndRun(e, "shutdown", ep[e].handle)
       \/ EndRun(e, "failed", ep[e].handle)
       \/ ep[e].exit # None /\ EndRun(e, ep[e].exit, ep[e].handle)

\* await_broker takes the handle when it is first polled, and a branch of select! that
\* completes drops the others: the handle is lost, unless that branch was polled first.
Handles(e) == IF ep[e].handle = "held" THEN {"held", "lost"} ELSE {ep[e].handle}

\* Mutant: the loop does not watch the cancellation token.
run_plugin_event_loop_no_shutdown(e) ==
    /\ ep[e].pc = "loop"
    /\ \E h \in Handles(e) :
         \/ ep[e].exit # None /\ EndRun(e, ep[e].exit, h)
         \/ ep[e].event \in {"failed", "closed"} /\ EndRun(e, "failed", h)

run_plugin_event_loop(e) ==
    /\ ep[e].pc = "loop"
    /\ \E h \in Handles(e) :
         \/ shutdown /\ EndRun(e, "shutdown", h)
         \/ ep[e].exit # None /\ EndRun(e, ep[e].exit, h)
         \/ ep[e].event \in {"failed", "closed"} /\ EndRun(e, "failed", h)
         \/ /\ ep[e].event = "ready"
            /\ ep' = [ep EXCEPT ![e] = [@ EXCEPT !.event = None, !.handle = h]]
            /\ UNCHANGED <<worldVars, live, port>>

\* Mutant: whatever the control task returns, the loop goes on.
await_broker_ignored(e) ==
    /\ ep[e].pc = "loop" /\ ep[e].handle = "held" /\ ep[e].control \in {"ok", "err"}
    /\ UNCHANGED endpointVars

await_broker(e) ==
    /\ ep[e].pc = "loop" /\ ep[e].handle = "held"
    /\ \/ /\ ep[e].control = "ok"
          /\ ep' = [ep EXCEPT ![e] = [@ EXCEPT !.control = "none", !.handle = "none"]]
          /\ UNCHANGED <<worldVars, live, port>>
       \/ ep[e].control = "err" /\ EndRun(e, "failed", "held")

\* run_connect_broker or run_listen_dispatch returns; a dispatcher drops its listener.
ControlEnds(e) ==
    /\ ep[e].control = "run"
    /\ \E result \in {"ok", "err"} :
         /\ result = "ok" => shutdown \/ ~ Listens(e)
         /\ ep' = [ep EXCEPT ![e].control = result]
    /\ port' = [port EXCEPT ![e] = IF @ = "run" THEN Dropped ELSE @]
    /\ UNCHANGED <<worldVars, live>>

\* A dispatcher left behind ends when the guest connects, as its plugin is no longer there
\* to be sent the connection, or at shutdown.
OrphanEnds(e) ==
    /\ port[e] = "orphan"
    /\ port' = [port EXCEPT ![e] = Dropped]
    /\ UNCHANGED <<worldVars, live, ep>>

-----------------------------------------------------------------------------
(* supervise_endpoint *)

Move(e, pc, delay) ==
    /\ ep' = [ep EXCEPT ![e] = [@ EXCEPT !.pc = pc, !.delay = delay, !.outcome = None]]
    /\ UNCHANGED <<worldVars, live, port>>

Check(e) ==
    /\ ep[e].pc = "check"
    /\ Move(e, IF shutdown THEN "done" ELSE IF Listens(e) THEN "listen" ELSE "spawn", ep[e].delay)

should_restart(e) ==
    /\ ep[e].outcome # "shutdown"
    /\ \/ config[e].restart = "always"
       \/ config[e].restart = "on_failure" /\ ep[e].outcome = "failed"

\* A run of STABLE_RUN_RESET or longer resets the delay.
supervise_endpoint(e) ==
    /\ ep[e].pc = "ended"
    /\ \/ ~ should_restart(e) /\ Move(e, "done", ep[e].delay)
       \/ should_restart(e) /\ \E d \in {ep[e].delay, Initial} : Move(e, "backoff", d)

\* Mutant: the delay doubles without limit.
Doubled_unbounded(d) == 2 * d

Doubled(d) == IF 2 * d < Max THEN 2 * d ELSE Max

\* Mutant: having slept, the task gives up.
Backoff_gives_up(e) ==
    /\ ep[e].pc = "backoff"
    /\ Move(e, "done", ep[e].delay)

Backoff(e) ==
    /\ ep[e].pc = "backoff"
    /\ \/ shutdown /\ Move(e, "done", ep[e].delay)
       \/ Move(e, "check", Doubled(ep[e].delay))

\* start_endpoint_supervisor waits for the token and then for every endpoint.
start_endpoint_supervisor ==
    /\ \/ sup = "waiting" /\ shutdown /\ sup' = "joining"
       \/ sup = "joining" /\ (\A e \in Endpoints : ep[e].pc = "done") /\ sup' = "done"
    /\ UNCHANGED <<backend, config, machine, shutdown, port, live, ep>>

-----------------------------------------------------------------------------
(* Plugins, the machine and the rest of vmmon *)

Watched(e) == ep[e].pc \in {"ready", "loop"}

\* A line on stdout that is "ready", a failure or nonsense, or the end of stdout.
PluginSays(e) ==
    /\ Watched(e) /\ ep[e].event = None
    /\ \E event \in {"ready", "failed", "closed"} :
         /\ event # "closed" => ep[e].slot \in live[e]
         /\ ep' = [ep EXCEPT ![e].event = event]
    /\ UNCHANGED <<worldVars, live, port>>

PluginExits(e) ==
    /\ Watched(e) /\ ep[e].slot \in live[e]
    /\ live' = [live EXCEPT ![e] = @ \ {ep[e].slot}]
    /\ \E status \in {"clean", "failed"} : ep' = [ep EXCEPT ![e].exit = status]
    /\ UNCHANGED <<worldVars, port>>

MachineStops ==
    /\ machine /\ machine' = FALSE
    /\ UNCHANGED <<backend, config, shutdown, sup, port, live, ep>>

\* shutdown::run cancels on a signal, and when the machine has stopped.
Cancel ==
    /\ ~ shutdown /\ shutdown' = TRUE
    /\ UNCHANGED <<backend, config, machine, sup, port, live, ep>>

-----------------------------------------------------------------------------
EndpointsInit ==
    /\ backend \in {"krun", "vz"} /\ config \in [Endpoints -> Config]
    /\ machine = TRUE /\ shutdown = FALSE /\ sup = "waiting"
    /\ port = [e \in Endpoints |-> "free"] /\ live = [e \in Endpoints |-> {}]
    /\ ep = [e \in Endpoints |-> [pc |-> "check", outcome |-> None, delay |-> Initial, slot |-> 0,
                exit |-> None, event |-> None, control |-> "none", handle |-> "none"]]

EndpointStep(e) ==
    \/ Check(e) \/ supervisor_listen(e) \/ start_endpoint_plugin(e) \/ wait_for_plugin_ready(e)
    \/ run_plugin_event_loop(e) \/ await_broker(e) \/ supervise_endpoint(e) \/ Backoff(e)

EndpointsNext ==
    \/ \E e \in Endpoints : \/ EndpointStep(e) \/ ControlEnds(e) \/ OrphanEnds(e)
                            \/ PluginSays(e) \/ PluginExits(e)
    \/ start_endpoint_supervisor \/ MachineStops \/ Cancel

EndpointsSpec == EndpointsInit /\ [][EndpointsNext]_endpointVars

\* The tasks of vmmon run on and timers go off; select! polls its branches in random order,
\* so a plugin that keeps talking does not starve the others; a machine that stopped is
\* noticed.  Plugins and guests owe nothing.
EndpointsFairness ==
    /\ \A e \in Endpoints : /\ WF_endpointVars(EndpointStep(e))
                            /\ WF_endpointVars(await_broker(e))
                            /\ WF_endpointVars(run_plugin_event_loop(e) /\ ep'[e].pc = "ended")
    /\ WF_endpointVars(start_endpoint_supervisor)
    /\ WF_endpointVars(~ machine /\ Cancel)

EndpointsFairSpec == EndpointsSpec /\ EndpointsFairness

-----------------------------------------------------------------------------
(* Properties *)

\* Type invariant; in particular the restart delay is the initial one or at most
\* the maximum, however often it is doubled and reset.
EndpointsTypeOK ==
    /\ backend \in {"krun", "vz"} /\ config \in [Endpoints -> Config]
    /\ machine \in BOOLEAN /\ shutdown \in BOOLEAN /\ sup \in {"waiting", "joining", "done"}
    /\ port \in [Endpoints -> {"free", "run", "orphan", "gone"}]
    /\ live \in [Endpoints -> SUBSET (0..1)] /\ ep \in [Endpoints -> Endpoint]

\* Plugins do not pile up: an endpoint has at most one live plugin, and none when its run
\* is over, whichever of the many ends of a run was taken.
OnePlugin ==
    \A e \in Endpoints : /\ \A p, q \in live[e] : p = q
                         /\ ~ Watched(e) => live[e] = {}

\* A control task that fails ends the run of its endpoint, as long as the event loop has
\* not lost its handle.
ControlFailureEndsRun ==
    \A e \in Endpoints : ep[e].control = "err" /\ ep[e].handle = "held"
                           ~> ep[e].control # "err" \/ ep[e].handle = "lost"

Restarted(e) == ep[e].pc = "spawn" \/ shutdown

\* A connect endpoint that is to be restarted gets a new plugin.
ConnectRestarts ==
    \A e \in Endpoints : ep[e].pc = "backoff" /\ ~ Listens(e) ~> Restarted(e)

\* An endpoint that is to be restarted, whichever its mode, gets a new plugin.
RestartPolicyApplied ==
    \A e \in Endpoints : ep[e].pc = "backoff" ~> Restarted(e)

\* Once vmmon shuts down every endpoint ends, and the supervisor that drain awaits with it.
SupervisionEnds == shutdown ~> sup = "done"
=============================================================================
