------------------------- MODULE MachineTransitions -------------------------
(***************************************************************************)
(* The pure reducer behind the persisted machine state                     *)
(* (libvm/src/runtime/transitions.rs).  A state is the row of the          *)
(* machine_state table that lifecycle decisions read; last_error is kept   *)
(* only as "is there one", and updated_at is left to the module that owns  *)
(* the row.  An event either yields the next state or an error; the error  *)
(* leaves the row alone, because nothing is saved.                         *)
(***************************************************************************)
CONSTANT None   \* Rust's Option::None

RuntimeStates == {"stopped", "starting", "running", "stopping", "error"}

IsActive(status) == status \in {"starting", "running", "stopping"}

TransitionErrors == {"AlreadyActive", "NotRunning", "InvalidTransition", "StaleGeneration"}

\* Mutant: the pid and the start time change places.
replace_runtime_swapped(status, pid, startedAt, runId, err) ==
    [status |-> status, pid |-> startedAt, startedAt |-> pid, runId |-> runId, err |-> err]

replace_runtime(status, pid, startedAt, runId, err) ==
    [status |-> status, pid |-> pid, startedAt |-> startedAt, runId |-> runId, err |-> err]

Cleared(status, err) == replace_runtime(status, None, None, None, err)

Accept(next) == [state |-> next, error |-> None]
Refuse(s, e) == [state |-> s, error |-> e]

require_run_id(s, runId) == runId # None => s.runId = runId

require_generation(s, g) ==
    /\ require_run_id(s, g.runId)
    /\ s.pid = g.pid
    /\ g.startedAt # None => s.startedAt = g.startedAt

StartRequested(s, runId) ==
    IF IsActive(s.status)
      THEN Refuse(s, "AlreadyActive")
      ELSE Accept(replace_runtime("starting", None, None, runId, FALSE))

MonitorReady(s, runId, pid, startedAt) ==
    IF s.status # "starting" THEN Refuse(s, "InvalidTransition")
    ELSE IF ~ require_run_id(s, runId) THEN Refuse(s, "StaleGeneration")
    ELSE Accept(replace_runtime("running", pid, startedAt, runId, FALSE))

(* A monitor seen alive keeps a machine that is starting or stopping in    *)
(* that status, and turns every other one into a running machine.          *)
MonitorObserved(s, pid, startedAt, runId) ==
    Accept(replace_runtime(IF s.status \in {"starting", "stopping"} THEN s.status ELSE "running",
                           pid, startedAt, runId, FALSE))

\* failure is "stopped" or "error" (StartFailure); every caller passes an error text.
StartFailed(s, runId, failure) ==
    IF s.status # "starting" THEN Refuse(s, "InvalidTransition")
    ELSE IF ~ require_run_id(s, runId) THEN Refuse(s, "StaleGeneration")
    ELSE Accept(Cleared(failure, TRUE))

StopRequested(s, g) ==
    IF s.status \in {"stopped", "error"}
      THEN Refuse(s, "NotRunning")
      ELSE Accept(replace_runtime("stopping", g.pid, g.startedAt, g.runId, FALSE))

\* The callers pass no last_error.
StopCompleted(s, g) ==
    IF s.status # "stopping" THEN Refuse(s, "InvalidTransition")
    ELSE IF ~ require_generation(s, g) THEN Refuse(s, "StaleGeneration")
    ELSE Accept(Cleared("stopped", FALSE))

ExitObserved(s, clean) ==
    Accept(IF clean THEN Cleared("stopped", FALSE) ELSE Cleared("error", TRUE))

\* Mutant: a stopping machine waits for its stop to complete.
MonitorGone_keeps_stopping(s, lastError) ==
    Accept(IF s.status = "stopping" THEN s
           ELSE Cleared(IF s.status = "error" THEN "error" ELSE "stopped", lastError))

MonitorGone(s, lastError) ==
    Accept(Cleared(IF s.status = "error" THEN "error" ELSE "stopped", lastError))

StartTimedOut(s) ==
    IF s.status # "starting" THEN Refuse(s, "InvalidTransition")
    ELSE Accept(Cleared("error", TRUE))
=============================================================================
