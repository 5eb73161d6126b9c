---------------------------- MODULE KrunBackend ----------------------------
(***************************************************************************)
(* The Linux virtual machine: virt's handle on a krun helper process       *)
(* (virt/src/krun/backend.rs), the helper itself as a child process        *)
(* (krun/src/vm.rs) and the pipe by which it notices that nobody owns it   *)
(* any more (krun/src/watchdog.rs).  The monitor starts the machine once,  *)
(* and then its tasks wait for it, stop it, and claim its listeners and    *)
(* its console concurrently; only its main task looks for the exit, and it *)
(* drops the call when a signal arrives.  One step is one critical section:*)
(* the runtime lock, the lock of the machine or the lock of the exit slot. *)
(***************************************************************************)
EXTENDS Naturals, Options

CONSTANTS
    Waiter,    \* the task that waits for the machine to stop
    Callers,   \* tasks of the monitor, Waiter among them
    Ports      \* vsock ports declared for listen

VARIABLES
    runtime,    \* the runtime slot: "unborn", "running" or None once it was taken
    slot,       \* the exit slot
    helper,     \* the helper process
    listeners,  \* listeners nobody has claimed
    serial,     \* the console nobody has claimed
    owner,      \* who was given each listener and the console (history)
    stopCalled, \* some task has called stop (history)
    parent,     \* the monitor process is alive
    task        \* what each caller is doing, and its last answer

\* Rust's None is no other value, a console is no port, and the waiter is a task.
ASSUME KrunAssumption ==
    /\ None \notin {"unborn", "running", "Stopped", "StoppedWithError", "ok", "none", "err",
                    "not_started", "wait", "try_wait", "stop"}
    /\ "console" \notin Ports
    /\ Waiter \in Callers

krunVars == <<runtime, slot, helper, listeners, serial, owner, stopCalled, parent, task>>
handles == <<listeners, serial, owner, stopCalled>>

Exits == {"Stopped", "StoppedWithError"}
Ops == {"wait", "try_wait", "stop"}
Places == {"idle", "cached", "clone", "poll", "take", "cache", "stop", "kill", "reap"}
Answers == Exits \cup {"ok", "none", "err", "not_started", None}
Console == "console"

KrunTypeOK ==
    /\ runtime \in {"unborn", "running", None}
    /\ slot \in Exits \cup {None}
    /\ helper \in {"unborn", "alive", "killed", "success", "failure"}
    /\ listeners \subseteq Ports
    /\ serial \in BOOLEAN
    /\ owner \in [Ports \cup {Console} -> SUBSET Callers]
    /\ stopCalled \in BOOLEAN /\ parent \in BOOLEAN
    /\ task \in [Callers -> [op: Ops \cup {None}, pc: Places, exit: Exits \cup {None},
                             answer: Answers]]

-----------------------------------------------------------------------------
(* The exit slot *)

\* The first exit that is cached stays.
cache_exit(exit) == IF slot = None THEN exit ELSE slot

\* Mutant: every exit counts as a clean one.
vm_exit_from_status_any(status) == "Stopped"

vm_exit_from_status(status) == IF status = "success" THEN "Stopped" ELSE "StoppedWithError"

exited == helper \in {"success", "failure"}

-----------------------------------------------------------------------------
(* Callers *)

\* A handle on the machine keeps the watchdog's write end open.
Holds(c) == task[c].pc \in {"poll", "take", "kill", "reap"}

At(c, op, pc) == parent /\ task[c].op = op /\ task[c].pc = pc

Goto(c, pc) == task' = [task EXCEPT ![c].pc = pc]

Return(c, answer) ==
    task' = [task EXCEPT ![c] = [op |-> None, pc |-> "idle", exit |-> None, answer |-> answer]]

\* start holds the runtime lock throughout.  It may fail before or after it clears the slot;
\* the monitor then gives up.
start ==
    /\ parent /\ runtime = "unborn" /\ helper = "unborn"
    /\ \/ /\ runtime' = "running" /\ helper' = "alive" /\ slot' = None
          /\ listeners' = Ports /\ serial' = TRUE
          /\ UNCHANGED <<owner, stopCalled, parent, task>>
       \/ parent' = FALSE /\ UNCHANGED <<runtime, slot, helper, handles, task>>

Started == runtime # "unborn"

Call(c, op) ==
    /\ parent /\ Started /\ task[c].op = None
    /\ op # "stop" => c = Waiter
    /\ task' = [task EXCEPT ![c] = [op |-> op, pc |-> IF op = "stop" THEN "stop" ELSE "cached",
                                    exit |-> None, answer |-> None]]
    /\ stopCalled' = (stopCalled \/ op = "stop")
    /\ UNCHANGED <<runtime, slot, helper, listeners, serial, owner, parent>>

\* wait and try_wait: the cached exit, else a clone of the running machine.
cached_exit(c) ==
    /\ task[c].pc = "cached" /\ parent
    /\ IF slot = None THEN Goto(c, "clone") ELSE Return(c, slot)
    /\ UNCHANGED <<runtime, slot, helper, handles, parent>>

wait_clone(c) ==
    /\ task[c].pc = "clone" /\ parent
    /\ \/ runtime = "running" /\ Goto(c, "poll")
       \/ runtime = None /\ Return(c, IF task[c].op = "wait" THEN "not_started" ELSE "none")
    /\ UNCHANGED <<runtime, slot, helper, handles, parent>>

\* Mutant: the poll loop looks once.
wait_for_vm_exit_once(c) ==
    /\ At(c, "wait", "poll") /\ ~ exited /\ Return(c, "err")
    /\ UNCHANGED <<runtime, slot, helper, handles, parent>>

\* One look at the child; wait looks until it has exited.
wait_for_vm_exit(c) ==
    \E op \in {"wait", "try_wait"} :
        /\ At(c, op, "poll")
        /\ \/ exited /\ task' = [task EXCEPT ![c].pc = "take", ![c].exit = vm_exit_from_status(helper)]
           \/ ~ exited /\ op = "try_wait" /\ Return(c, "none")
        /\ UNCHANGED <<runtime, slot, helper, handles, parent>>

\* The child cannot be looked at.
wait_fails(c) ==
    /\ task[c].op \in {"wait", "try_wait"} /\ task[c].pc = "poll" /\ parent
    /\ Return(c, "err")
    /\ UNCHANGED <<runtime, slot, helper, handles, parent>>

\* The select in shutdown::run drops the call at one of its awaits.
wait_dropped(c) ==
    /\ task[c].pc \in {"clone", "poll"} /\ parent
    /\ Return(c, None)
    /\ UNCHANGED <<runtime, slot, helper, handles, parent>>

\* Mutant: the machine is left in the slot.
wait_take_kept(c) ==
    /\ task[c].op \in {"wait", "try_wait"} /\ task[c].pc = "take" /\ parent
    /\ Goto(c, "cache")
    /\ UNCHANGED <<runtime, slot, helper, handles, parent>>

\* The runtime is emptied first and the exit cached afterwards.
wait_take(c) ==
    /\ task[c].op \in {"wait", "try_wait"} /\ task[c].pc = "take" /\ parent
    /\ runtime' = None /\ listeners' = {} /\ serial' = FALSE
    /\ Goto(c, "cache")
    /\ UNCHANGED <<slot, helper, owner, stopCalled, parent>>

wait_cache(c) ==
    /\ task[c].pc = "cache" /\ parent
    /\ slot' = cache_exit(task[c].exit)
    /\ Return(c, task[c].exit)
    /\ UNCHANGED <<runtime, helper, handles, parent>>

\* stop takes the machine, kills the helper unless it is gone, and caches Stopped whether
\* or not the helper was seen to exit within STOP_TIMEOUT.
stop_take(c) ==
    /\ At(c, "stop", "stop")
    /\ \/ /\ runtime = None
          /\ slot' = cache_exit("Stopped")
          /\ Return(c, "ok")
          /\ UNCHANGED <<runtime, helper, handles, parent>>
       \/ /\ runtime = "running"
          /\ runtime' = None /\ listeners' = {} /\ serial' = FALSE
          /\ Goto(c, "kill")
          /\ UNCHANGED <<slot, helper, owner, stopCalled, parent>>

\* Mutant: the helper is only asked whether it has exited.
stop_kill_forgotten(c) ==
    /\ At(c, "stop", "kill") /\ Goto(c, "reap")
    /\ UNCHANGED <<runtime, slot, helper, handles, parent>>

stop_kill(c) ==
    /\ At(c, "stop", "kill")
    /\ \/ /\ helper' = IF helper = "alive" THEN "killed" ELSE helper
          /\ Goto(c, "reap")
       \/ Return(c, "err") /\ UNCHANGED helper
    /\ UNCHANGED <<runtime, slot, handles, parent>>

stop_reap(c) ==
    /\ At(c, "stop", "reap")
    /\ slot' = cache_exit("Stopped")
    /\ Return(c, "ok")
    /\ UNCHANGED <<runtime, helper, handles, parent>>

\* Mutant: the listener is cloned, not removed.
listen_vsock_shared(c) ==
    \E p \in Ports :
        /\ parent /\ task[c].op = None /\ runtime = "running" /\ p \in listeners
        /\ owner' = [owner EXCEPT ![p] = @ \cup {c}]
        /\ UNCHANGED <<runtime, slot, helper, listeners, serial, stopCalled, parent, task>>

\* A listener, or the console, is taken out of the running machine; a call that finds none
\* fails and changes nothing.
listen_vsock(c) ==
    \E p \in Ports :
        /\ parent /\ task[c].op = None /\ runtime = "running" /\ p \in listeners
        /\ listeners' = listeners \ {p}
        /\ owner' = [owner EXCEPT ![p] = @ \cup {c}]
        /\ UNCHANGED <<runtime, slot, helper, serial, stopCalled, parent, task>>

open_serial(c) ==
    /\ parent /\ task[c].op = None /\ runtime = "running" /\ serial
    /\ serial' = FALSE
    /\ owner' = [owner EXCEPT ![Console] = @ \cup {c}]
    /\ UNCHANGED <<runtime, slot, helper, listeners, stopCalled, parent, task>>

-----------------------------------------------------------------------------
(* The helper and the monitor process *)

\* The guest powers off, panics or is killed from outside, or a SIGKILL lands.
HelperExits ==
    /\ \/ helper = "alive" /\ helper' \in {"success", "failure"}
       \/ helper = "killed" /\ helper' = "failure"
    /\ UNCHANGED <<runtime, slot, handles, parent, task>>

Owned == parent /\ (runtime = "running" \/ \E c \in Callers : Holds(c))

\* Mutant: the write end is inherited by another child and never closes.
watchdog_deaf == FALSE /\ UNCHANGED krunVars

\* POLLHUP: every copy of the write end is closed.
watchdog ==
    /\ helper = "alive" /\ ~ Owned
    /\ helper' = "success"
    /\ UNCHANGED <<runtime, slot, handles, parent, task>>

\* The monitor returns or is killed.
MonitorDies ==
    /\ parent /\ parent' = FALSE
    /\ UNCHANGED <<runtime, slot, helper, handles, task>>

-----------------------------------------------------------------------------

KrunInit ==
    /\ runtime = "unborn" /\ slot = None /\ helper = "unborn"
    /\ listeners = {} /\ serial = FALSE
    /\ owner = [h \in Ports \cup {Console} |-> {}]
    /\ stopCalled = FALSE /\ parent = TRUE
    /\ task = [c \in Callers |-> [op |-> None, pc |-> "idle", exit |-> None,
                                  answer |-> None]]

Advance(c) ==
    \/ cached_exit(c) \/ wait_clone(c) \/ wait_for_vm_exit(c) \/ wait_take(c) \/ wait_cache(c)
    \/ stop_take(c) \/ stop_kill(c) \/ stop_reap(c)

KrunNext ==
    \/ start \/ HelperExits \/ watchdog \/ MonitorDies
    \/ \E c \in Callers : Advance(c) \/ wait_fails(c) \/ wait_dropped(c) \/ listen_vsock(c) \/ open_serial(c)
    \/ \E c \in Callers, op \in Ops : Call(c, op)

KrunSpec == KrunInit /\ [][KrunNext]_krunVars

\* Tasks are scheduled, the poll loop wakes every 50 ms, a SIGKILL takes effect and the
\* watchdog thread runs.  Nothing says that a guest ends by itself.
KrunFairness ==
    /\ \A c \in Callers : WF_krunVars(Advance(c))
    /\ WF_krunVars(watchdog)
    /\ WF_krunVars(helper = "killed" /\ HelperExits)

-----------------------------------------------------------------------------
(* Properties *)

\* Once an exit is cached, nobody finds the machine in the runtime slot any more: a task
\* that sees the exit cannot be handed a listener of a machine that is over.
ExitClosesRuntime == slot # None => runtime = None

\* An answer is never made up.  An exit with an error means that the helper ended with one,
\* a clean exit that it succeeded or that stop was called; and only when a stop was called
\* is anybody told that the machine was not started.
AnswersAreTrue ==
    \A c \in Callers :
        /\ task[c].answer = "StoppedWithError" => helper = "failure"
        /\ task[c].answer = "Stopped" => helper = "success" \/ stopCalled
        /\ task[c].answer = "not_started" => stopCalled

\* A listener and the console are handed out once: two tasks never read the same stream.
HandedOutOnce == \A h \in Ports \cup {Console} : \A c, d \in owner[h] : c = d

\* Whoever waits for a machine that has ended is told.
WaiterIsTold ==
    \A c \in Callers :
        (parent /\ task[c].op = "wait" /\ exited) ~> (~ parent \/ task[c].op # "wait")

\* A stop that has taken the machine out of the runtime ends it, even while a waiter still
\* holds on to it, unless that very call could not look at the helper.
StopEndsHelper ==
    \A c \in Callers : At(c, "stop", "kill") ~> (helper # "alive" \/ task[c].answer = "err")

\* A helper that nobody owns ends: after a stop that failed, and after the monitor is gone.
NoOrphanHelper == (helper = "alive" /\ ~ Owned) ~> helper # "alive"
=============================================================================
