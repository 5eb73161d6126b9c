----------------------------- MODULE VzBackend -----------------------------
(***************************************************************************)
(* The macOS virtual machine: virt's handle on a machine of Apple's        *)
(* Virtualization.framework (virt/src/vz/backend.rs, vz/src/vm.rs) and the *)
(* host side of its vsock device (vz/src/device/socket.rs).  The framework *)
(* is external: a machine moves through its states, and its delegate is    *)
(* called some time after the guest stopped.  The monitor starts the       *)
(* machine once; afterwards its main task waits for the exit and other     *)
(* tasks stop the machine and listen on its ports.                         *)
(***************************************************************************)
EXTENDS Naturals, Options

CONSTANTS
    VzMain,      \* the task that waits for the machine to stop
    VzTasks,     \* tasks of the monitor, VzMain among them
    VzPorts      \* vsock ports

VARIABLES
    vmState,     \* the machine's state, as the framework has it
    handle,      \* state.vm: "unborn", "held" or None
    inner,       \* who holds the async lock on it
    exitSlot,    \* the exit slot
    delegated,   \* a delegate call that the framework still has to make
    stopAsked,   \* some task has called stop (history)
    vzTask,      \* what each task is doing, and its last answer
    registry,    \* ports reserved in the listener registry
    device,      \* which task's listener the device has on each port
    listening    \* how far each task is with a listener

\* Rust's None is no answer, no task and no port.
ASSUME VzAssumption ==
    None \notin {"unborn", "held", "Stopped", "StoppedWithError", "not_started"} \cup VzTasks \cup VzPorts

vzVars == <<vmState, handle, inner, exitSlot, delegated, stopAsked, vzTask, registry, device, listening>>
socketVars == <<registry, device, listening>>
machineVars == <<vmState, handle, inner, exitSlot, delegated, stopAsked, vzTask>>

VzExits == {"Stopped", "StoppedWithError"}
Settled == {"stopped", "error"}
VzPlaces == {"idle", "cached", "clone", "look", "recheck", "register", "notified",
             "lock", "graceful", "hard", "final"}

VzTypeOK ==
    /\ vmState \in {"unborn", "running", "stopping", "stopped", "error"}
    /\ handle \in {"unborn", "held", None}
    /\ inner \in VzTasks \cup {None}
    /\ exitSlot \in VzExits \cup {None}
    /\ delegated \in VzExits \cup {None}
    /\ stopAsked \in BOOLEAN
    /\ vzTask \in [VzTasks -> [pc: VzPlaces, answer: VzExits \cup {"ok", "err", "not_started", None}]]
    /\ registry \subseteq VzPorts
    /\ device \in [VzPorts -> VzTasks \cup {None}]
    /\ listening \in [VzTasks -> [port: VzPorts \cup {None}, at: {"no", "reserved", "live", "dropping"}]]

-----------------------------------------------------------------------------
(* The framework *)

\* The guest ends by itself or after requestStop; the delegate hears of it later.
GuestStops ==
    /\ vmState \in {"running", "stopping"}
    /\ \E e \in VzExits :
          /\ vmState' = IF e = "Stopped" THEN "stopped" ELSE "error"
          /\ delegated' = e
    /\ UNCHANGED <<handle, inner, exitSlot, stopAsked, vzTask, socketVars>>

\* notify_waiters wakes the tasks whose Notified future exists, and leaves no permit.
Woken(t) == IF t.pc = "notified" THEN [t EXCEPT !.pc = "cached"] ELSE t

vz_cache_exit(exit) == IF exitSlot = None THEN exit ELSE exitSlot

ExitDelegate ==
    /\ delegated # None
    /\ exitSlot' = vz_cache_exit(delegated)
    /\ delegated' = None
    /\ vzTask' = [t \in VzTasks |-> Woken(vzTask[t])]
    /\ UNCHANGED <<vmState, handle, inner, stopAsked, socketVars>>

-----------------------------------------------------------------------------
(* Calls *)

VzGoto(t, pc) == vzTask' = [vzTask EXCEPT ![t].pc = pc]
VzReturn(t, answer) == vzTask' = [vzTask EXCEPT ![t] = [pc |-> "idle", answer |-> answer]]
VzAt(t, pc) == vzTask[t].pc = pc

\* start keeps the lock until the machine runs; if it does not get there the monitor ends.
vz_start ==
    /\ handle = "unborn"
    /\ handle' = "held" /\ vmState' = "running"
    /\ UNCHANGED <<inner, exitSlot, delegated, stopAsked, vzTask, socketVars>>

VzCall(t, op) ==
    /\ handle # "unborn" /\ VzAt(t, "idle")
    /\ op = "wait" <=> t = VzMain
    /\ vzTask' = [vzTask EXCEPT ![t] = [pc |-> IF op = "stop" THEN "lock" ELSE "cached", answer |-> None]]
    /\ stopAsked' = (stopAsked \/ op = "stop")
    /\ UNCHANGED <<vmState, handle, inner, exitSlot, delegated, socketVars>>

\* wait: the cached exit, else the machine under the lock, else what its state says, else
\* the next notification.
vz_wait(t) ==
    /\ \/ VzAt(t, "cached") /\ IF exitSlot # None THEN VzReturn(t, exitSlot) ELSE VzGoto(t, "clone")
       \/ /\ VzAt(t, "clone") /\ inner = None
          /\ IF handle = None THEN VzReturn(t, "not_started") ELSE VzGoto(t, "look")
       \/ VzAt(t, "recheck") /\ IF exitSlot # None THEN VzReturn(t, exitSlot) ELSE VzGoto(t, "register")
       \/ VzAt(t, "register") /\ VzGoto(t, "notified")
    /\ UNCHANGED <<vmState, handle, inner, exitSlot, delegated, stopAsked, socketVars>>

\* Mutant: a machine in the error state counts as stopped.
try_cache_exit_from_vm_blurred(t) ==
    /\ VzAt(t, "look")
    /\ exitSlot' = IF vmState \in Settled THEN vz_cache_exit("Stopped") ELSE exitSlot
    /\ VzGoto(t, "recheck")
    /\ UNCHANGED <<vmState, handle, inner, delegated, stopAsked, socketVars>>

\* The waiter itself may be the first to see that the machine is over.
try_cache_exit_from_vm(t) ==
    /\ VzAt(t, "look")
    /\ exitSlot' = CASE vmState = "stopped" -> vz_cache_exit("Stopped")
                     [] vmState = "error"   -> vz_cache_exit("StoppedWithError")
                     [] OTHER               -> exitSlot
    /\ VzGoto(t, "recheck")
    /\ UNCHANGED <<vmState, handle, inner, delegated, stopAsked, socketVars>>

\* shutdown::run drops the call at one of its awaits.
vz_wait_dropped(t) ==
    /\ vzTask[t].pc \in {"clone", "notified"}
    /\ VzReturn(t, None)
    /\ UNCHANGED <<vmState, handle, inner, exitSlot, delegated, stopAsked, socketVars>>

\* stop takes the lock and keeps it to the end.
stop_lock(t) ==
    /\ VzAt(t, "lock") /\ inner = None
    /\ inner' = t
    /\ \/ (handle = None \/ vmState = "stopped") /\ VzGoto(t, "final")
       \/ handle = "held" /\ vmState # "stopped" /\ \E pc \in {"graceful", "hard"} : VzGoto(t, pc)
    /\ UNCHANGED <<vmState, handle, exitSlot, delegated, stopAsked, socketVars>>

\* request_stop fails, or the guest is given SHUTDOWN_TIMEOUT; an error state counts as a
\* timeout.
stop_graceful(t) ==
    /\ VzAt(t, "graceful")
    /\ \/ VzReturn(t, "err") /\ inner' = None /\ UNCHANGED vmState
       \/ vmState = "stopped" /\ VzGoto(t, "final") /\ UNCHANGED <<inner, vmState>>
       \/ vmState = "running" /\ vmState' = "stopping" /\ UNCHANGED <<inner, vzTask>>
       \/ vmState # "stopped" /\ VzGoto(t, "hard") /\ UNCHANGED <<inner, vmState>>
    /\ UNCHANGED <<handle, exitSlot, delegated, stopAsked, socketVars>>

\* Mutant: the second wait for the stopped state is not looked at.
stop_hard_blind(t) ==
    /\ VzAt(t, "hard") /\ VzGoto(t, "final")
    /\ UNCHANGED <<vmState, handle, inner, exitSlot, delegated, stopAsked, socketVars>>

\* Mutant: the lock is kept when the stop fails.
stop_hard_holding(t) ==
    /\ VzAt(t, "hard")
    /\ \/ VzReturn(t, "err") /\ UNCHANGED vmState
       \/ vmState # "error" /\ vmState' = "stopped" /\ VzGoto(t, "final")
    /\ UNCHANGED <<handle, inner, exitSlot, delegated, stopAsked, socketVars>>

\* The hard stop: stop's completion handler, and the wait for the stopped state.
stop_hard(t) ==
    /\ VzAt(t, "hard")
    /\ \/ VzReturn(t, "err") /\ inner' = None /\ UNCHANGED vmState
       \/ vmState # "error" /\ vmState' = "stopped" /\ VzGoto(t, "final") /\ UNCHANGED inner
    /\ UNCHANGED <<handle, exitSlot, delegated, stopAsked, socketVars>>

\* The handle is dropped, and Stopped is cached and announced unless an exit was there.
stop_final(t) ==
    /\ VzAt(t, "final")
    /\ handle' = None /\ inner' = None
    /\ exitSlot' = vz_cache_exit("Stopped")
    /\ vzTask' = [u \in VzTasks |->
                    IF u = t THEN [pc |-> "idle", answer |-> "ok"]
                    ELSE IF exitSlot = None THEN Woken(vzTask[u]) ELSE vzTask[u]]
    /\ UNCHANGED <<vmState, delegated, stopAsked, socketVars>>

-----------------------------------------------------------------------------
(* Listeners *)

\* Mutant: the registry is not asked.
reserve_listener_port_unchecked(t, p) ==
    /\ handle = "held" /\ listening[t].at = "no"
    /\ registry' = registry \cup {p}
    /\ listening' = [listening EXCEPT ![t] = [port |-> p, at |-> "reserved"]]
    /\ UNCHANGED <<machineVars, device>>

\* listen: the port is reserved; a port that is taken is refused.
reserve_listener_port(t, p) ==
    /\ handle = "held" /\ listening[t].at = "no" /\ p \notin registry
    /\ registry' = registry \cup {p}
    /\ listening' = [listening EXCEPT ![t] = [port |-> p, at |-> "reserved"]]
    /\ UNCHANGED <<machineVars, device>>

\* On the machine's queue the device is given the listener; without a device the port is
\* released.
vz_listen(t) ==
    /\ listening[t].at = "reserved"
    /\ \/ /\ device' = [device EXCEPT ![listening[t].port] = t]
          /\ listening' = [listening EXCEPT ![t].at = "live"]
          /\ UNCHANGED registry
       \/ /\ registry' = registry \ {listening[t].port}
          /\ listening' = [listening EXCEPT ![t] = [port |-> None, at |-> "no"]]
          /\ UNCHANGED device
    /\ UNCHANGED machineVars

\* Dropping a listener releases the port first, and clears the device afterwards.
release_listener_port(t) ==
    /\ listening[t].at = "live"
    /\ registry' = registry \ {listening[t].port}
    /\ listening' = [listening EXCEPT ![t].at = "dropping"]
    /\ UNCHANGED <<machineVars, device>>

\* Mutant: the listener stays on the device.
unregister_listener_kept(t) ==
    /\ listening[t].at = "dropping"
    /\ listening' = [listening EXCEPT ![t] = [port |-> None, at |-> "no"]]
    /\ UNCHANGED <<machineVars, registry, device>>

unregister_listener(t) ==
    /\ listening[t].at = "dropping"
    /\ device' = [device EXCEPT ![listening[t].port] = None]
    /\ listening' = [listening EXCEPT ![t] = [port |-> None, at |-> "no"]]
    /\ UNCHANGED <<machineVars, registry>>

-----------------------------------------------------------------------------

VzInit ==
    /\ vmState = "unborn" /\ handle = "unborn" /\ inner = None
    /\ exitSlot = None /\ delegated = None /\ stopAsked = FALSE
    /\ vzTask = [t \in VzTasks |-> [pc |-> "idle", answer |-> None]]
    /\ registry = {} /\ device = [p \in VzPorts |-> None]
    /\ listening = [t \in VzTasks |-> [port |-> None, at |-> "no"]]

VzAdvance(t) ==
    \/ vz_wait(t) \/ try_cache_exit_from_vm(t)
    \/ stop_lock(t) \/ stop_graceful(t) \/ stop_hard(t) \/ stop_final(t)

Socket(t) ==
    \/ \E p \in VzPorts : reserve_listener_port(t, p)
    \/ vz_listen(t) \/ release_listener_port(t) \/ unregister_listener(t)

VzNext ==
    \/ vz_start \/ GuestStops \/ ExitDelegate
    \/ \E t \in VzTasks : VzAdvance(t) \/ vz_wait_dropped(t) \/ Socket(t)
    \/ \E t \in VzTasks, op \in {"wait", "stop"} : VzCall(t, op)

VzSpec == VzInit /\ [][VzNext]_vzVars

\* Tasks are scheduled, the async lock serves them in turn (tokio's mutex is a queue), and
\* the framework makes its delegate calls.
VzFairness == (\A t \in VzTasks : SF_vzVars(VzAdvance(t))) /\ WF_vzVars(ExitDelegate)

-----------------------------------------------------------------------------
(* Properties *)

\* An answer is never made up: an exit with an error means that the machine is in the error
\* state, a clean one that it stopped or that stop was called, and only when stop was
\* called is the waiter told that the machine was not started.
VzAnswersAreTrue ==
    \A t \in VzTasks :
        /\ vzTask[t].answer = "StoppedWithError" => vmState = "error"
        /\ vzTask[t].answer = "Stopped" => vmState = "stopped" \/ stopAsked
        /\ vzTask[t].answer = "not_started" => stopAsked

\* The handle is let go of only when the machine has stopped: a stop that reports success
\* leaves no machine behind that runs with nobody to stop it.
ReleasedIsStopped == handle = None => vmState = "stopped"

\* A port has one listener at a time, and a listener on the device belongs to a listener
\* object that is alive or on its way out.
OneListener ==
    /\ \A t, u \in VzTasks :
          listening[t].at \in {"reserved", "live"} /\ listening[u].at \in {"reserved", "live"}
          /\ listening[t].port = listening[u].port => t = u
    /\ \A p \in VzPorts :
          device[p] # None => listening[device[p]].port = p

\* Every stop comes back, with the lock free for the next one.
StopReturns == \A t \in VzTasks : VzAt(t, "lock") ~> VzAt(t, "idle")

\* The waiter is told that the machine has ended.  This does not hold: the delegate may notify
\* between the look at the exit slot and the wait for the notification; no run asks for it.
GuestStopIsReported == vzTask[VzMain].pc # "idle" /\ vmState \in Settled ~> VzAt(VzMain, "idle")
=============================================================================
