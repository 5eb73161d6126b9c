-------------------------- MODULE MachineLifecycle --------------------------
(***************************************************************************)
(* One machine, the libvm callers that operate on it and the vmmon         *)
(* processes they launch.  There is no daemon: every caller is a process   *)
(* of its own, and they meet only in the machine_state row, the machine    *)
(* lock (an flock), the pidfile and the exit-status file of the machine    *)
(* directory, and the operating system's process table.                    *)
(*                                                                         *)
(* A run is one launch of vmmon; its number stands for the run id (a fresh *)
(* UUID), and also for the second in which its vmmon was born and wrote    *)
(* the pidfile.  A caller's locals are the record cl[c]; cl[c].pc is the   *)
(* place the operation has reached.                                        *)
(***************************************************************************)
EXTENDS Integers, FiniteSets, MachineTransitions

CONSTANTS
    Garbled,         \* a pidfile that has been truncated and not yet written
    Foreign,         \* birth time of a process that is not a vmmon of this machine
    Clients,         \* the processes that call libvm
    Hook,            \* the caller vmmon itself launches (its exit command), or None
    Pids,            \* process ids the operating system hands out
    Ops,             \* the operations the clients of this instance perform
    MaxRuns,         \* bound on the number of launches
    MaxCrashes,      \* bound on caller crashes and SIGKILLed monitors together
    BirthTimes,      \* TRUE where a process has a birth time (macOS), FALSE on Linux
    PidReuse,        \* TRUE when the kernel may give a freed pid to another process
    PromptMonitor    \* TRUE when a forked vmmon is assumed to have written its
                     \* pidfile before any later caller or timeout looks for it

ClientOps == {"start", "stop", "kill", "wait", "cleanup", "inspect", "refresh"}

ASSUME LifecycleAssumption ==
    /\ MaxRuns \in Nat \ {0}
    /\ MaxCrashes \in Nat
    /\ Ops \subseteq ClientOps
    /\ BirthTimes \in BOOLEAN /\ PidReuse \in BOOLEAN /\ PromptMonitor \in BOOLEAN
    /\ None \notin Pids /\ None \notin Clients /\ None \notin Int /\ None \notin STRING
    /\ Garbled \notin Pids /\ Garbled # None
    /\ Foreign \notin Int /\ Foreign # None
    /\ Hook \in Clients \cup {None}

Runs == 1..MaxRuns

VARIABLES
    db,        \* the machine_state row
    stale,     \* the row is at least STALE_STARTING_TIMEOUT old
    lock,      \* holder of the machine lock
    pidfile,   \* [pid, by]: content and writer (its mtime); pid = None: no file
    exitFile,  \* the run whose exit status is on disk, 0: no file
    net,       \* the machine holds a network attachment
    mon,       \* the vmmon of each run
    alien,     \* pids held by programs that are not vmmon
    cl,        \* the callers
    nextRun,   \* next fresh run id
    crashes    \* crashes so far

vars == <<db, stale, lock, pidfile, exitFile, net, mon, alien, cl, nextRun, crashes>>

-----------------------------------------------------------------------------
(* State spaces *)

Times == Runs \cup {0, Foreign}

MachineState == [status: RuntimeStates, pid: Pids \cup {None}, startedAt: Times \cup {None},
                 runId: Runs \cup {None}, err: BOOLEAN]

VmmonRunIdentity == [pid: Pids, startedAt: Times, runId: Runs \cup {None}]

ASSUME NoneAssumption ==
    None \notin VmmonRunIdentity /\ None \notin [pid: Pids, birth: Times \cup {None}]

Phases == {"none", "forked", "truncated", "gate", "boot", "up", "reported", "serving",
           "stopping", "failing", "exiting", "unlink", "hook", "hooking", "dead"}

Monitor == [phase: Phases, pid: Pids \cup {None}, vm: BOOLEAN, outcome: {"clean", "error"},
            startpipe: {"held", "released", "closed"},
            syncpipe: {"open", "closed", "started", "failed"}]

Places == {"idle", "try", "probe", "exit", "act", "request", "spawn", "release", "sync",
           "ready", "mark", "await", "watch", "relock", "complete", "report"}

Caller == [pc: Places, op: ClientOps \cup {"poll", "settle", None}, run: Runs \cup {0},
           live: [pid: Pids, birth: Times \cup {None}] \cup {None},
           gen: VmmonRunIdentity \cup {None}, target: Times \cup {None},
           prev: RuntimeStates \cup {None}]

NoMonitor == [phase |-> "none", pid |-> None, vm |-> FALSE, outcome |-> "clean",
              startpipe |-> "held", syncpipe |-> "open"]

IdleCaller == [pc |-> "idle", op |-> None, run |-> 0, live |-> None, gen |-> None,
               target |-> None, prev |-> None]

NoPidfile == [pid |-> None, by |-> 0]

-----------------------------------------------------------------------------
(* Processes *)

LivePhases == Phases \ {"none", "dead"}

Alive(r) == mon[r].phase \in LivePhases

Holder(p) == {r \in Runs : Alive(r) /\ mon[r].pid = p}

pid_exists(p) == p \in alien \/ Holder(p) # {}

\* Pids the kernel may give to the next process; without reuse, only those never used.
FreePids == {p \in Pids : /\ ~ pid_exists(p)
                          /\ PidReuse \/ \A r \in Runs : mon[r].pid # p}

\* Which process holds pid p: what a pidfd pins, and what macOS's birth second tells.
Incarnation(p) == IF p \in alien THEN Foreign ELSE CHOOSE r \in Holder(p) : TRUE

\* ProcessIdentity::started_at: Linux has none.
BirthOf(p) == IF BirthTimes THEN Incarnation(p) ELSE None

\* Mutant: the birth time is not compared.
matches_started_at_any(p, expected) == TRUE

matches_started_at(p, expected) ==
    BirthTimes /\ expected # None => Incarnation(p) = expected

Identified(p, expected) == pid_exists(p) /\ matches_started_at(p, expected)

-----------------------------------------------------------------------------
(* Observing the machine *)

\* Mutant: only the stored pid is probed.
live_monitor_identity_stored ==
    IF db.pid \in Pids /\ Identified(db.pid, db.startedAt)
      THEN [pid |-> db.pid, birth |-> BirthOf(db.pid)] ELSE None

\* The pidfile's pid is tried before the stored one.
live_monitor_identity ==
    LET found == {p \in {pidfile.pid, db.pid} \cap Pids : Identified(p, db.startedAt)}
        pid   == IF pidfile.pid \in found THEN pidfile.pid ELSE db.pid
    IN  IF found = {} THEN None ELSE [pid |-> pid, birth |-> BirthOf(pid)]

\* vmmon writes its run id into every exit status, so the run id decides.
runtime_exit_matches == exitFile # 0 /\ db.runId = exitFile

\* Mutant: an exit status counts although the monitor is still alive.
observe_machine_state_exit_first(live) ==
    IF runtime_exit_matches THEN ExitObserved(db, mon[exitFile].outcome = "clean")
    ELSE IF live # None
      THEN MonitorObserved(db, live.pid, IF live.birth # None THEN live.birth ELSE pidfile.by, db.runId)
    ELSE IF db.status = "starting" THEN Accept(db)
    ELSE MonitorGone(db, db.err)

observe_machine_state(live) ==
    IF live # None
      THEN MonitorObserved(db, live.pid,
                           IF live.birth # None THEN live.birth
                           ELSE IF db.startedAt # None THEN db.startedAt ELSE pidfile.by,
                           db.runId)
    ELSE IF runtime_exit_matches THEN ExitObserved(db, mon[exitFile].outcome = "clean")
    ELSE IF db.status = "starting" /\ stale THEN StartTimedOut(db)
    ELSE IF db.status = "starting" THEN Accept([db EXCEPT !.pid = None, !.startedAt = None, !.err = FALSE])
    ELSE MonitorGone(db, db.err)

machine_state_needs_writeback(observed) == observed # db

-----------------------------------------------------------------------------
(* Steps of a caller *)

Timely == PromptMonitor => \A r \in Runs : mon[r].phase \notin {"forked", "truncated"}

At(c, place, ops) == cl[c].pc = place /\ cl[c].op \in ops

Goto(c, place) == cl' = [cl EXCEPT ![c].pc = place]

\* The operation returns, to its caller or with an error; its lock guard is dropped.
Return(c) ==
    /\ cl' = [cl EXCEPT ![c] = IdleCaller]
    /\ lock' = IF lock = c THEN None ELSE lock

\* Saving the row stamps updated_at.
save_machine_state(s) == db' = s /\ stale' = FALSE

\* transition_current_machine_state: a refused event saves nothing.
transition(result) ==
    IF result.error = None THEN save_machine_state(result.state) ELSE UNCHANGED <<db, stale>>

generation == [pid |-> db.pid,
               startedAt |-> IF db.startedAt # None THEN db.startedAt ELSE pidfile.by,
               runId |-> db.runId]

\* The wait target active_wait_target remembers before it reconciles.
stored_target == IF IsActive(db.status) /\ db.pid # None THEN generation ELSE None

hostVars == <<pidfile, exitFile, net>>
monVars == <<mon, alien>>
boundVars == <<nextRun, crashes>>

-----------------------------------------------------------------------------
(* Taking the lock and reconciling *)

\* lock_machine_config, then the state the operation reads before reconciling.
Begin(c, o) ==
    /\ cl[c].pc = "idle" /\ lock = None /\ Timely
    /\ o = "start" => nextRun <= MaxRuns
    /\ lock' = c
    /\ cl' = [cl EXCEPT ![c] = [IdleCaller EXCEPT
                  !.pc = "probe", !.op = o, !.prev = IF o = "stop" THEN db.status ELSE None,
                  !.gen = IF o = "wait" THEN stored_target ELSE None]]
    /\ UNCHANGED <<db, stale, hostVars, monVars, boundVars>>

\* reconcile_machine_runtime_best_effort: observe without the lock, and only when the
\* row is out of date try the lock; a busy lock ends the inspection.
Inspect(c) ==
    /\ pidfile.pid # Garbled
    /\ machine_state_needs_writeback(observe_machine_state(live_monitor_identity).state)
    /\ Begin(c, "inspect")

\* refresh_active_machine_states skips a machine whose row says it is not active ...
OpenRuntime(c) ==
    /\ cl[c].pc = "idle" /\ IsActive(db.status)
    /\ cl' = [cl EXCEPT ![c] = [IdleCaller EXCEPT !.pc = "try", !.op = "refresh"]]
    /\ UNCHANGED <<db, stale, lock, hostVars, monVars, boundVars>>

\* ... and one whose lock is busy.
TryLock(c) ==
    /\ cl[c].pc = "try" /\ Timely
    /\ IF lock = None THEN lock' = c /\ Goto(c, "probe") ELSE Return(c)
    /\ UNCHANGED <<db, stale, hostVars, monVars, boundVars>>

\* Locking again after the wait, and in every round of wait_with.
Relock(c) ==
    /\ cl[c].pc = "relock" /\ lock = None /\ Timely
    /\ lock' = c
    /\ cl' = [cl EXCEPT ![c] = [@ EXCEPT
                  !.pc = IF cl[c].op \in {"stop", "kill"} THEN "complete" ELSE "probe",
                  !.gen = IF cl[c].op = "wait" THEN stored_target ELSE cl[c].gen]]
    /\ UNCHANGED <<db, stale, hostVars, monVars, boundVars>>

\* reconcile_machine_runtime_locked, first half: pidfile and process table.  A pidfile
\* that does not parse fails the operation.
ProbeMonitor(c) ==
    /\ cl[c].pc = "probe"
    /\ IF pidfile.pid = Garbled
         THEN Return(c)
         ELSE cl' = [cl EXCEPT ![c] = [@ EXCEPT !.pc = "exit", !.live = live_monitor_identity]]
              /\ UNCHANGED lock
    /\ UNCHANGED <<db, stale, hostVars, monVars, boundVars>>

\* Second half: the exit status, read after the process table, and the write-back.
WriteBack(c) ==
    /\ cl[c].pc = "exit"
    /\ LET observed == observe_machine_state(cl[c].live).state
       IN  IF machine_state_needs_writeback(observed)
             THEN save_machine_state(observed)
             ELSE UNCHANGED <<db, stale>>
    /\ cl' = [cl EXCEPT ![c] = [@ EXCEPT !.pc = "act", !.live = None]]
    /\ UNCHANGED <<lock, hostVars, monVars, boundVars>>

-----------------------------------------------------------------------------
(* start_with.  The row is only written under the lock, so after the       *)
(* write-back db is the status the operation holds in a local.             *)

StartRejected(c) ==
    /\ At(c, "act", {"start"}) /\ IsActive(db.status)
    /\ Return(c)
    /\ UNCHANGED <<db, stale, hostVars, monVars, boundVars>>

\* Mutant: start does not look at the status it reconciled.
StartPrepare_unchecked(c) ==
    /\ At(c, "act", {"start"})
    /\ exitFile' = 0 /\ net' = TRUE /\ Goto(c, "request")
    /\ UNCHANGED <<lock, db, stale, pidfile, monVars, boundVars>>

\* The old attachment is dropped, the old exit status removed and a network prepared.
StartPrepare(c) ==
    /\ At(c, "act", {"start"}) /\ ~ IsActive(db.status)
    /\ exitFile' = 0
    /\ \/ net' = TRUE /\ Goto(c, "request") /\ UNCHANGED lock
       \/ net' = FALSE /\ Return(c)
    /\ UNCHANGED <<db, stale, pidfile, monVars, boundVars>>

request_machine_start(c) ==
    /\ cl[c].pc = "request"
    /\ transition(StartRequested(db, nextRun))
    /\ nextRun' = nextRun + 1
    /\ IF StartRequested(db, nextRun).error = None
         THEN /\ cl' = [cl EXCEPT ![c] = [@ EXCEPT !.pc = "spawn", !.run = nextRun]]
              /\ UNCHANGED lock
         ELSE Return(c)
    /\ UNCHANGED <<hostVars, monVars, crashes>>

FailStart(c, failure) ==
    /\ transition(StartFailed(db, cl[c].run, failure))
    /\ Return(c)

\* The launcher forks the daemon and exits, or the launch fails: before the fork, or
\* because the launcher outlives its five seconds with the daemon already forked.
Spawn(c) ==
    /\ cl[c].pc = "spawn"
    /\ \/ \E p \in FreePids :
             /\ mon' = [mon EXCEPT ![cl[c].run] = [@ EXCEPT !.phase = "forked", !.pid = p]]
             /\ Goto(c, "release")
             /\ UNCHANGED <<db, stale, lock>>
       \/ FailStart(c, "stopped") /\ UNCHANGED mon
       \/ \E p \in FreePids :
             /\ mon' = [mon EXCEPT ![cl[c].run] = [@ EXCEPT !.phase = "forked", !.pid = p,
                                       !.startpipe = "closed", !.syncpipe = "closed"]]
             /\ FailStart(c, "stopped")
    /\ UNCHANGED <<hostVars, alien, boundVars>>

\* Writing the start byte fails when the daemon, the only reader, is gone.
release_startpipe(c) ==
    /\ cl[c].pc = "release"
    /\ IF mon[cl[c].run].phase = "dead"
         THEN FailStart(c, "stopped") /\ UNCHANGED mon
         ELSE /\ mon' = [mon EXCEPT ![cl[c].run].startpipe = "released"]
              /\ Goto(c, "sync")
              /\ UNCHANGED <<db, stale, lock>>
    /\ UNCHANGED <<hostVars, alien, boundVars>>

SyncStarted(c) ==
    /\ cl[c].pc = "sync" /\ mon[cl[c].run].syncpipe = "started"
    /\ Goto(c, "ready")
    /\ UNCHANGED <<db, stale, lock, hostVars, monVars, boundVars>>

\* A failure report, or end of file because the daemon died without one.
SyncFailed(c) ==
    /\ cl[c].pc = "sync"
    /\ \/ mon[cl[c].run].syncpipe = "failed"
       \/ mon[cl[c].run].syncpipe = "open" /\ mon[cl[c].run].phase = "dead"
    /\ FailStart(c, "stopped")
    /\ UNCHANGED <<hostVars, monVars, boundVars>>

\* After thirty seconds the starter gives up on a daemon that is still starting.  The
\* reading end of the sync pipe goes with the process, unless it lives on.
SyncTimeout(c) ==
    /\ cl[c].pc = "sync" /\ mon[cl[c].run].syncpipe = "open" /\ Alive(cl[c].run) /\ Timely
    /\ FailStart(c, "stopped")
    /\ \E end \in {"open", "closed"} : mon' = [mon EXCEPT ![cl[c].run].syncpipe = end]
    /\ UNCHANGED <<hostVars, alien, boundVars>>

\* read_monitor_pid, monitor_started_at and mark_machine_monitor_ready.
MarkReady(c) ==
    /\ cl[c].pc = "ready"
    /\ IF pidfile.pid \in Pids /\ pid_exists(pidfile.pid)
         THEN /\ transition(MonitorReady(db, cl[c].run, pidfile.pid,
                     IF BirthTimes THEN Incarnation(pidfile.pid) ELSE pidfile.by))
              /\ Return(c)
         ELSE FailStart(c, "error")
    /\ UNCHANGED <<hostVars, monVars, boundVars>>

-----------------------------------------------------------------------------
(* stop_with, kill_with *)

Killed(m) == [m EXCEPT !.phase = "dead", !.vm = FALSE, !.startpipe = "closed"]

\* vmmon handles SIGINT only once shutdown::run waits for it; the first signal begins a
\* graceful stop, a second one forces the exit, later ones are swallowed.
Interrupted(m) ==
    CASE m.phase \in {"forked", "truncated", "gate", "boot", "up", "reported"} ->
           Killed(m)
      [] m.phase = "serving"  -> [m EXCEPT !.phase = "stopping"]
      [] m.phase = "stopping" -> [m EXCEPT !.phase = "exiting", !.outcome = "clean"]
      [] OTHER -> m

\* A signal may also reach another program that holds the pid; what that does is its own.
interrupt_monitor(p) ==
    /\ pid_exists(p)
    /\ mon' = [r \in Runs |-> IF r \in Holder(p) THEN Interrupted(mon[r]) ELSE mon[r]]

kill_monitor_process_group(p) ==
    /\ pid_exists(p)
    /\ mon' = [r \in Runs |-> IF r \in Holder(p) THEN Killed(mon[r]) ELSE mon[r]]

\* mark_machine_stopped and cleanup_machine_resources_locked: there is no one to wait for.
StopAtOnce(c) == save_machine_state(Cleared("stopped", FALSE)) /\ net' = FALSE /\ Return(c)

\* The machine is already down; a stop that found it stopping still cleans up after it.
StopNotRunning(c) ==
    /\ At(c, "act", {"stop", "kill"}) /\ ~ IsActive(db.status)
    /\ net' = IF cl[c].op = "stop" /\ cl[c].prev = "stopping" THEN FALSE ELSE net
    /\ Return(c)
    /\ UNCHANGED <<db, stale, pidfile, exitFile, monVars, boundVars>>

\* No pid is known, or the signal finds no process; kill signals the process group of
\* the pid, and a program that took the pid over need not lead one.
StopUnmonitored(c) ==
    /\ At(c, "act", {"stop", "kill"}) /\ IsActive(db.status)
    /\ \/ db.pid = None
       \/ ~ pid_exists(db.pid) /\ (cl[c].op = "kill" \/ db.status # "stopping")
       \/ db.pid \in alien /\ cl[c].op = "kill"
    /\ StopAtOnce(c)
    /\ UNCHANGED <<pidfile, exitFile, monVars, boundVars>>

\* The signal is refused, as the pid is now that of another user's program: the error
\* goes to the caller and the row stays as it is.
StopDenied(c) ==
    /\ At(c, "act", {"stop", "kill"}) /\ IsActive(db.status) /\ db.pid \in alien
    /\ cl[c].op = "kill" \/ db.status # "stopping"
    /\ Return(c)
    /\ UNCHANGED <<db, stale, hostVars, monVars, boundVars>>

\* stop leaves a machine that is already stopping alone, kill signals it all the same.
StopSignal(c) ==
    /\ At(c, "act", {"stop", "kill"}) /\ IsActive(db.status) /\ db.pid # None
    /\ \/ cl[c].op = "stop" /\ db.status = "stopping" /\ UNCHANGED <<mon>>
       \/ cl[c].op = "stop" /\ db.status # "stopping" /\ interrupt_monitor(db.pid)
       \/ cl[c].op = "kill" /\ kill_monitor_process_group(db.pid)
    /\ Goto(c, "mark")
    /\ UNCHANGED <<db, stale, lock, hostVars, alien, boundVars>>

\* Mutant: the stop is requested without recording it.
request_machine_stop_unsaved(c) ==
    /\ cl[c].pc = "mark"
    /\ cl' = [cl EXCEPT ![c] = [@ EXCEPT !.pc = "await", !.gen = generation]]
    /\ lock' = None
    /\ UNCHANGED <<db, stale, hostVars, monVars, boundVars>>

request_machine_stop(c) ==
    /\ cl[c].pc = "mark"
    /\ transition(StopRequested(db, generation))
    /\ IF StopRequested(db, generation).error = None
         THEN /\ cl' = [cl EXCEPT ![c] = [@ EXCEPT !.pc = "await", !.gen = generation]]
              /\ lock' = None
         ELSE Return(c)
    /\ UNCHANGED <<hostVars, monVars, boundVars>>

-----------------------------------------------------------------------------
(* wait_for_target_exit: the machine lock is free while the caller waits *)

\* wait_for_monitor_stop pins the process, if it is still the one of the generation.
PinMonitor(c) ==
    /\ cl[c].pc = "await"
    /\ IF Identified(cl[c].gen.pid, cl[c].gen.startedAt)
         THEN cl' = [cl EXCEPT ![c] = [@ EXCEPT !.pc = "watch",
                                                !.target = Incarnation(cl[c].gen.pid)]]
         ELSE Goto(c, "relock")
    /\ UNCHANGED <<db, stale, lock, hostVars, monVars, boundVars>>

MonitorExited(c) ==
    /\ cl[c].pc = "watch"
    /\ ~ (pid_exists(cl[c].gen.pid) /\ Incarnation(cl[c].gen.pid) = cl[c].target)
    /\ cl' = [cl EXCEPT ![c] = [@ EXCEPT !.pc = "relock", !.target = None]]
    /\ UNCHANGED <<db, stale, lock, hostVars, monVars, boundVars>>

\* Mutant: running out of time is taken for the monitor's exit.
WaitTimeout_ignored(c) ==
    /\ cl[c].pc = "watch"
    /\ cl' = [cl EXCEPT ![c] = [@ EXCEPT !.pc = "relock", !.target = None]]
    /\ UNCHANGED <<db, stale, lock, hostVars, monVars, boundVars>>

WaitTimeout(c) ==
    /\ cl[c].pc = "watch"
    /\ pid_exists(cl[c].gen.pid) /\ Incarnation(cl[c].gen.pid) = cl[c].target
    /\ Return(c)
    /\ UNCHANGED <<db, stale, hostVars, monVars, boundVars>>

vmmon_run_identity_matches(g) ==
    /\ g.runId # None => db.runId = g.runId
    /\ db.pid = g.pid
    /\ db.startedAt = g.startedAt

\* A row that has moved on, or a monitor that is alive, is left alone.
complete_stop_locked(c) ==
    /\ cl[c].pc = "complete"
    /\ LET g == cl[c].gen
           done == StopCompleted(db, g)
       IN  IF ~ vmmon_run_identity_matches(g) \/ Identified(g.pid, g.startedAt)
             THEN UNCHANGED <<db, stale, net>>
             ELSE IF done.error = None
                    THEN save_machine_state(done.state) /\ net' = FALSE
                    ELSE UNCHANGED <<db, stale, net>>
    /\ lock' = None
    /\ Goto(c, "report")
    /\ UNCHANGED <<pidfile, exitFile, monVars, boundVars>>

\* The lock-free end of the operation: machine_exit turns the exit status into the result.
Report(c) ==
    /\ cl[c].pc = "report"
    /\ Return(c)
    /\ UNCHANGED <<db, stale, hostVars, monVars, boundVars>>

-----------------------------------------------------------------------------
(* wait_with, cleanup, inspect and opening a runtime *)

\* active_wait_target: wait for the monitor the row names, now or before reconciling.
WaitTarget(c) ==
    /\ At(c, "act", {"wait"})
    /\ LET target == IF ~ IsActive(db.status) THEN cl[c].gen
                     ELSE IF db.pid # None THEN generation ELSE None
       IN  cl' = [cl EXCEPT ![c] = [@ EXCEPT !.gen = target,
                     !.op = IF target = None THEN "poll" ELSE "settle",
                     !.pc = IF target = None THEN "relock" ELSE "await"]]
    /\ lock' = None
    /\ UNCHANGED <<db, stale, hostVars, monVars, boundVars>>

\* Nothing to wait for yet: answer when the machine is down or the time is up, or else
\* sleep (with the lock held) and look again.
WaitPoll(c) ==
    /\ At(c, "act", {"poll"})
    /\ \/ Return(c)
       \/ /\ IsActive(db.status)
          /\ cl' = [cl EXCEPT ![c] = [@ EXCEPT !.op = "wait", !.pc = "relock"]]
          /\ lock' = None
    /\ UNCHANGED <<db, stale, hostVars, monVars, boundVars>>

\* The awaited monitor is gone and the row reconciled: clean up if the machine is down.
WaitSettle(c) ==
    /\ At(c, "act", {"settle"})
    /\ net' = IF IsActive(db.status) THEN net ELSE FALSE
    /\ lock' = None
    /\ Goto(c, "report")
    /\ UNCHANGED <<db, stale, pidfile, exitFile, monVars, boundVars>>

\* Mutant: the network of an active machine is cleaned up too.
CleanUp_always(c) ==
    /\ At(c, "act", {"cleanup", "refresh"})
    /\ net' = FALSE
    /\ Return(c)
    /\ UNCHANGED <<db, stale, pidfile, exitFile, monVars, boundVars>>

\* cleanup, and the refresh when a runtime is opened: an active machine is left alone.
CleanUp(c) ==
    /\ At(c, "act", {"cleanup", "refresh"})
    /\ net' = IF IsActive(db.status) THEN net ELSE FALSE
    /\ Return(c)
    /\ UNCHANGED <<db, stale, pidfile, exitFile, monVars, boundVars>>

InspectDone(c) ==
    /\ At(c, "act", {"inspect"})
    /\ Return(c)
    /\ UNCHANGED <<db, stale, hostVars, monVars, boundVars>>

\* The caller's process dies: the kernel drops its lock and closes its pipe ends.
Crash(c) ==
    /\ cl[c].pc # "idle" /\ crashes < MaxCrashes
    /\ crashes' = crashes + 1
    /\ mon' = [r \in Runs |->
                 IF r # cl[c].run THEN mon[r]
                 ELSE [mon[r] EXCEPT
                         !.startpipe = IF @ = "held" THEN "closed" ELSE @,
                         !.syncpipe  = IF @ = "open" THEN "closed" ELSE @]]
    /\ Return(c)
    /\ UNCHANGED <<db, stale, hostVars, alien, nextRun>>

-----------------------------------------------------------------------------
(* Steps of vmmon, the daemon of run r *)

Monitors(r, from, to) ==
    /\ mon[r].phase = from
    /\ mon' = [mon EXCEPT ![r].phase = to]

nonMonVars == <<db, stale, lock, alien, cl, boundVars>>

\* PidGuard::create truncates the pidfile and then writes it, or fails outright: no
\* report, no exit status.
PidGuardOpen(r) ==
    /\ Monitors(r, "forked", "truncated")
    /\ pidfile' = [pid |-> Garbled, by |-> r]
    /\ UNCHANGED <<nonMonVars, exitFile, net>>

PidGuardWrite(r) ==
    /\ Monitors(r, "truncated", "gate")
    /\ pidfile' = [pid |-> mon[r].pid, by |-> r]
    /\ UNCHANGED <<nonMonVars, exitFile, net>>

PidGuardFails(r) ==
    /\ mon[r].phase = "forked"
    /\ mon' = [mon EXCEPT ![r] = Killed(@)]
    /\ UNCHANGED <<nonMonVars, hostVars>>

\* startup::init: the start gate, then the virtual machine.
GateOpens(r) ==
    /\ mon[r].startpipe = "released"
    /\ Monitors(r, "gate", "boot")
    /\ UNCHANGED <<nonMonVars, hostVars>>

MachineStarts(r) ==
    /\ mon[r].phase = "boot"
    /\ mon' = [mon EXCEPT ![r] = [@ EXCEPT !.phase = "up", !.vm = TRUE]]
    /\ UNCHANGED <<nonMonVars, hostVars>>

\* start_services ends with the report; writing it fails when its reader is gone.
ReportStarted(r) ==
    /\ mon[r].phase = "up" /\ mon[r].syncpipe = "open"
    /\ mon' = [mon EXCEPT ![r] = [@ EXCEPT !.phase = "reported", !.syncpipe = "started"]]
    /\ UNCHANGED <<nonMonVars, hostVars>>

Serve(r) ==
    /\ Monitors(r, "reported", "serving")
    /\ UNCHANGED <<nonMonVars, hostVars>>

\* An error before the start gate or at it (its writer is gone), in starting the machine
\* or the services, or in waiting for or stopping the machine.
MonitorFails(r) ==
    /\ mon[r].phase \in {"gate", "boot", "up", "serving", "stopping"}
    /\ mon' = [mon EXCEPT ![r] = [@ EXCEPT !.phase = "failing", !.outcome = "error"]]
    /\ UNCHANGED <<nonMonVars, hostVars>>

\* report_failed is lost when the reader is gone or "started" was already reported.
ReportFailed(r) ==
    /\ mon[r].phase = "failing"
    /\ mon' = [mon EXCEPT ![r] = [@ EXCEPT !.phase = "exiting",
                  !.syncpipe = IF mon[r].syncpipe = "open" THEN "failed" ELSE mon[r].syncpipe]]
    /\ UNCHANGED <<nonMonVars, hostVars>>

\* The guest powers off, or the stop task gets the machine down.  After an error the
\* tasks still hold the machine, which may then live as long as vmmon.
MachineStops(r) ==
    /\ mon[r].vm
    /\ mon' = [mon EXCEPT ![r].vm = FALSE]
    /\ UNCHANGED <<nonMonVars, hostVars>>

ShutdownDone(r) ==
    /\ mon[r].phase \in {"serving", "stopping"} /\ ~ mon[r].vm
    /\ mon' = [mon EXCEPT ![r] = [@ EXCEPT !.phase = "exiting", !.outcome = "clean"]]
    /\ UNCHANGED <<nonMonVars, hostVars>>

\* run's epilogue: exit status (a failed write is only logged), pidfile, exit command.
WriteExitStatus(r) ==
    /\ Monitors(r, "exiting", "unlink")
    /\ exitFile' \in {r, exitFile}
    /\ UNCHANGED <<nonMonVars, pidfile, net>>

PidGuardDrop(r) ==
    /\ Monitors(r, "unlink", "hook")
    /\ pidfile' = NoPidfile
    /\ UNCHANGED <<nonMonVars, exitFile, net>>

\* The exit command is `bento cleanup`; the refresh of the runtime it opens does under
\* the lock what its cleanup then does again.
RunExitCommand(r) ==
    /\ Hook # None /\ cl[Hook].pc = "idle"
    /\ Monitors(r, "hook", "hooking")
    /\ cl' = [cl EXCEPT ![Hook] = [IdleCaller EXCEPT !.pc = "relock", !.op = "cleanup"]]
    /\ UNCHANGED <<db, stale, lock, alien, boundVars, hostVars>>

\* vmmon leaves once the command is done, or was killed for taking ten seconds.
MonitorExits(r) ==
    /\ \/ mon[r].phase = "hook" /\ Hook = None /\ UNCHANGED <<cl, lock>>
       \/ mon[r].phase = "hooking" /\ Hook # None /\ cl[Hook].pc = "idle" /\ UNCHANGED <<cl, lock>>
       \/ mon[r].phase = "hooking" /\ Hook # None /\ cl[Hook].pc # "idle" /\ Return(Hook)
    /\ mon' = [mon EXCEPT ![r] = Killed(@)]
    /\ UNCHANGED <<db, stale, alien, boundVars, hostVars>>

\* SIGKILL from outside: nothing is written and the pidfile stays behind.
MonitorKilled(r) ==
    /\ Alive(r) /\ crashes < MaxCrashes
    /\ crashes' = crashes + 1
    /\ mon' = [mon EXCEPT ![r] = Killed(@)]
    /\ UNCHANGED <<db, stale, lock, alien, cl, nextRun, hostVars>>

-----------------------------------------------------------------------------
(* The rest of the host *)

ProgramTakesPid(p) ==
    /\ PidReuse /\ p \in FreePids
    /\ alien' = alien \cup {p}
    /\ UNCHANGED <<db, stale, lock, hostVars, mon, cl, boundVars>>

ProgramExits(p) ==
    /\ p \in alien
    /\ alien' = alien \ {p}
    /\ UNCHANGED <<db, stale, lock, hostVars, mon, cl, boundVars>>

\* Sixty seconds pass; only a starting machine's age is ever looked at.
RowAges ==
    /\ db.status = "starting" /\ ~ stale
    /\ stale' = TRUE
    /\ UNCHANGED <<db, lock, hostVars, monVars, cl, boundVars>>

-----------------------------------------------------------------------------
Init ==
    /\ db = Cleared("stopped", FALSE) /\ stale = FALSE
    /\ lock = None
    /\ pidfile = NoPidfile /\ exitFile = 0 /\ net = FALSE
    /\ mon = [r \in Runs |-> NoMonitor]
    /\ alien = {}
    /\ cl = [c \in Clients |-> IdleCaller]
    /\ nextRun = 1 /\ crashes = 0

Arrive(c) ==
    \/ \E o \in Ops \ {"inspect", "refresh"} : Begin(c, o)
    \/ "inspect" \in Ops /\ Inspect(c)
    \/ "refresh" \in Ops /\ OpenRuntime(c)

Proceed(c) ==
    \/ TryLock(c) \/ Relock(c) \/ ProbeMonitor(c) \/ WriteBack(c)
    \/ StartRejected(c) \/ StartPrepare(c) \/ request_machine_start(c) \/ Spawn(c)
    \/ release_startpipe(c) \/ SyncStarted(c) \/ SyncFailed(c) \/ SyncTimeout(c)
    \/ MarkReady(c)
    \/ StopNotRunning(c) \/ StopUnmonitored(c) \/ StopDenied(c) \/ StopSignal(c)
    \/ request_machine_stop(c)
    \/ PinMonitor(c) \/ MonitorExited(c) \/ WaitTimeout(c) \/ complete_stop_locked(c)
    \/ Report(c)
    \/ WaitTarget(c) \/ WaitPoll(c) \/ WaitSettle(c) \/ CleanUp(c) \/ InspectDone(c)

MonitorStep(r) ==
    \/ PidGuardOpen(r) \/ PidGuardWrite(r) \/ PidGuardFails(r) \/ GateOpens(r)
    \/ MachineStarts(r) \/ ReportStarted(r) \/ Serve(r) \/ MonitorFails(r)
    \/ ReportFailed(r) \/ MachineStops(r) \/ ShutdownDone(r) \/ WriteExitStatus(r)
    \/ PidGuardDrop(r) \/ RunExitCommand(r) \/ MonitorExits(r)

Next ==
    \/ \E c \in Clients \ {Hook} : Arrive(c)
    \/ \E c \in Clients : Proceed(c) \/ Crash(c)
    \/ \E r \in Runs : MonitorStep(r) \/ MonitorKilled(r)
    \/ \E p \in Pids : ProgramTakesPid(p) \/ ProgramExits(p)
    \/ RowAges

Spec == Init /\ [][Next]_vars

-----------------------------------------------------------------------------
(* Properties *)

\* Type invariant of the machine row, the host artifacts, the monitors and the callers.
TypeOK ==
    /\ db \in MachineState /\ stale \in BOOLEAN
    /\ lock \in Clients \cup {None}
    /\ pidfile \in [pid: Pids \cup {None, Garbled}, by: Runs \cup {0}]
    /\ exitFile \in Runs \cup {0} /\ net \in BOOLEAN
    /\ mon \in [Runs -> Monitor]
    /\ alien \subseteq Pids
    /\ cl \in [Clients -> Caller]
    /\ nextRun \in 1..(MaxRuns + 1) /\ crashes \in 0..MaxCrashes

\* No operation is refused by the state reducer: whatever callers and monitors did in
\* between, the row that start, stop and kill transition under the machine lock is in a
\* status, and of a run, that transitions.rs accepts (core.rs reports a refusal as
\* InvalidData, with the machine left as it is).
TransitionsLegal ==
    \A c \in Clients :
        /\ cl[c].pc = "request" => StartRequested(db, nextRun).error = None
        /\ cl[c].pc \in {"spawn", "release", "sync", "ready"} =>
              /\ StartFailed(db, cl[c].run, "stopped").error = None
              /\ \A p \in Pids, t \in Times : MonitorReady(db, cl[c].run, p, t).error = None
        /\ cl[c].pc = "mark" => StopRequested(db, generation).error = None

\* When a stop or kill comes back and the row still names the run it waited for, that run
\* being gone, the row is still "stopping": complete_stop_locked can settle it.
StopCanComplete ==
    \A c \in Clients :
        /\ cl[c].pc = "complete"
        /\ vmmon_run_identity_matches(cl[c].gen)
        /\ ~ Identified(cl[c].gen.pid, cl[c].gen.startedAt)
        => StopCompleted(db, cl[c].gen).error = None

Registered == {"gate", "boot", "up", "reported", "serving", "stopping", "failing", "exiting", "unlink"}

\* While a vmmon is between PidGuard::create and the guard's drop the pidfile names it:
\* no other monitor overwrites or removes the file, so every later caller finds it.
PidfileNamesMonitor ==
    \A r \in Runs : mon[r].phase \in Registered =>
        pidfile = [pid |-> mon[r].pid, by |-> r]

\* Two monitors never run the machine's virtual machine, hence its disks, at once.
OneVm == \A r, q \in Runs : mon[r].vm /\ mon[q].vm => r = q

\* A stop, kill or wait that comes back from waiting has outlived the run it was about.
AwaitedRunIsOver ==
    \A c \in Clients :
        (\/ cl[c].pc \in {"complete", "report"}
         \/ cl[c].pc = "relock" /\ cl[c].op \in {"stop", "kill", "settle"})
        /\ cl[c].gen.runId # None => ~ Alive(cl[c].gen.runId)

\* The row drops the pid of a monitor only when that monitor is dead: no reconciliation,
\* late stop or clean-up declares a machine down under a live vmmon.
ForgetsOnlyTheDead ==
    [][db.pid # None /\ db'.pid # db.pid => Holder(db.pid) = {}]_vars

\* The network is never taken away from a registered monitor that runs its machine, by a
\* clean-up, a stop or a start that believes the machine to be down.
RunningMachineKeepsNetwork ==
    \A r \in Runs : mon[r].phase \in Registered /\ mon[r].vm => net

\* What the process probe reports as the live monitor is a vmmon.
ProbeFindsOnlyMonitors ==
    [][\A c \in Clients : cl[c].live = None /\ cl'[c].live # None
                             => cl'[c].live.pid \notin alien]_vars

-----------------------------------------------------------------------------
(* Liveness *)

\* What a monitor gets done by itself: vmmon bounds every wait but two, the one for the
\* start byte of a starter that lives, and the one for a guest that keeps running.
MonitorProgress(r) ==
    \/ PidGuardOpen(r) \/ PidGuardWrite(r) \/ GateOpens(r) \/ MachineStarts(r)
    \/ ReportStarted(r) \/ Serve(r) \/ ReportFailed(r) \/ ShutdownDone(r)
    \/ WriteExitStatus(r) \/ PidGuardDrop(r) \/ RunExitCommand(r) \/ MonitorExits(r)
    \/ /\ \/ mon[r].phase \in {"boot", "stopping"}
          \/ mon[r].phase = "gate" /\ mon[r].startpipe = "closed"
          \/ mon[r].phase = "up" /\ mon[r].syncpipe = "closed"
       /\ MonitorFails(r)

\* Callers in an operation run on, someone looks at the machine again and again, and time
\* passes.
Fairness ==
    /\ \A c \in Clients : WF_vars(cl[c].pc # "idle" /\ Proceed(c))
    /\ WF_vars("inspect" \in Ops /\ \E c \in Clients \ {Hook} : Inspect(c))
    /\ \A r \in Runs : WF_vars(MonitorProgress(r))
    /\ WF_vars(RowAges)

FairSpec == Spec /\ Fairness

\* A stop request is carried through: the row does not stay "stopping", even when the
\* caller that asked for the stop dies or gives up waiting.  (Unless another program has
\* got the pid of a dead monitor: as long as that program lives, the machine seems to.)
StopSettles == db.status = "stopping" ~> db.status # "stopping" \/ alien # {}

\* The death of a monitor is noticed even if its pid goes to another program at once: a
\* row that carries the birth time of a dead monitor is rewritten (macOS; on Linux the
\* other program passes for the monitor as long as it lives).
DeathIsNoticed ==
    \A r \in Runs : db.startedAt = r /\ db.runId = r /\ mon[r].phase = "dead" ~> db.runId # r
=============================================================================
