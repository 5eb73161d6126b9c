--------------------------- MODULE BackendsProofs ---------------------------
(***************************************************************************)
(* Proofs about the two backends of a machine (KrunBackend, VzBackend),    *)
(* for any number of tasks and ports, and, with those of PluginProofs,     *)
(* about the parts side by side as MCBackends runs them.                   *)
(***************************************************************************)
EXTENDS MCBackends, PluginProofs

-----------------------------------------------------------------------------
(* KrunBackend *)

Tasks == [op: Ops \cup {None}, pc: Places, exit: Exits \cup {None}, answer: Answers]

\* An exit is not made up.
IsTrue(exit) ==
    /\ exit = "StoppedWithError" => helper = "failure"
    /\ exit = "Stopped" => helper = "success" \/ stopCalled

\* What the place of a task says: a wait is the waiter's, a task that is about to cache an exit
\* has emptied the runtime, and what it holds or has answered is true.
TaskInv(c) ==
    /\ task[c].op \in {"wait", "try_wait"} =>
          c = Waiter /\ task[c].pc \in {"cached", "clone", "poll", "take", "cache"}
    /\ task[c].op = "stop" => stopCalled /\ task[c].pc \in {"stop", "kill", "reap"}
    /\ task[c].op = None => task[c].pc = "idle"
    /\ task[c].pc \in {"cache", "kill", "reap"} => runtime = None
    /\ task[c].pc \in {"take", "cache"} => task[c].exit # None
    /\ task[c].pc = "clone" => slot = None \/ stopCalled
    /\ IsTrue(task[c].exit) /\ IsTrue(task[c].answer)
    /\ task[c].answer = "not_started" => stopCalled

\* Nobody but a stop or the waiter empties the runtime, and the waiter caches the exit next.
SlotInv ==
    /\ slot # None => runtime = None
    /\ IsTrue(slot)
    /\ runtime = None => slot # None \/ stopCalled \/ task[Waiter].pc = "cache"

\* The other tasks stay as they are.
Only(c) == \A d \in Callers : d # c => task'[d] = task[d]

\* What nobody has claimed has no owner, and nothing has two.
OwnerInv ==
    /\ runtime = "unborn" => \A h \in Ports \cup {Console} : owner[h] = {}
    /\ \A p \in listeners : owner[p] = {}
    /\ serial => owner[Console] = {}
    /\ \A h \in Ports \cup {Console} : owner[h] = {} \/ \E c \in Callers : owner[h] = {c}

KrunInv == KrunTypeOK /\ (\A c \in Callers : TaskInv(c)) /\ SlotInv /\ OwnerInv

\* Before the start there is nothing to answer for (KrunInit).
LEMMA KrunStart == ASSUME KrunInit PROVE KrunInv
  BY KrunAssumption, Zenon DEF KrunInit, KrunInv, KrunTypeOK, TaskInv, SlotInv, OwnerInv, IsTrue, Exits, Ops,
     Places, Answers, Console

\* What a task looks like after it has moved on (Goto).
LEMMA Moved ==
  ASSUME KrunTypeOK, NEW c \in Callers, NEW pc \in Places, Goto(c, pc)
  PROVE /\ task' \in [Callers -> Tasks] /\ Only(c)
        /\ task'[c].pc = pc /\ task'[c].op = task[c].op
        /\ task'[c].exit = task[c].exit /\ task'[c].answer = task[c].answer
  BY Zenon DEF KrunTypeOK, Goto, Tasks, Only

\* What it looks like after it has returned (Return).
LEMMA Returned ==
  ASSUME KrunTypeOK, NEW c \in Callers, NEW answer \in Answers, Return(c, answer)
  PROVE /\ task' \in [Callers -> Tasks] /\ Only(c)
        /\ task'[c].op = None /\ task'[c].pc = "idle"
        /\ task'[c].exit = None /\ task'[c].answer = answer
<1>1. [op |-> None, pc |-> "idle", exit |-> None, answer |-> answer] \in Tasks
  BY Zenon DEF Places, Tasks
<1> QED BY <1>1, Zenon DEF KrunTypeOK, Return, Tasks, Only

\* A task that has returned a true answer is in order.
LEMMA ReturnedInv ==
  ASSUME KrunTypeOK, NEW c \in Callers, NEW answer \in Answers, Return(c, answer),
         IsTrue(answer)', answer = "not_started" => stopCalled'
  PROVE TaskInv(c)'
  BY Returned, KrunAssumption, Zenon DEF TaskInv, IsTrue

\* A task keeps its invariant while others work: an ended helper stays ended, an empty runtime
\* empty, and an exit is cached under a waiter's feet only by a stop.
LEMMA OthersKeep ==
  ASSUME NEW d \in Callers, TaskInv(d), task'[d] = task[d],
         stopCalled => stopCalled', runtime = None => runtime' = None,
         helper \in {"success", "failure"} => helper' = helper,
         slot = None => slot' = None \/ stopCalled' \/ task[d].pc # "clone"
  PROVE TaskInv(d)'
  BY Zenon DEF TaskInv, IsTrue

\* The helper ends, or its watchdog ends it; the monitor goes.
LEMMA Krun_HelperExits == ASSUME KrunInv, HelperExits PROVE KrunInv'
<1> USE KrunAssumption DEF HelperExits, handles
<1>1. KrunTypeOK'
  BY Zenon DEF KrunInv, KrunTypeOK
<1>2. \A d \in Callers : TaskInv(d)'
  BY OthersKeep, Zenon DEF KrunInv, KrunTypeOK, SlotInv
<1>3. SlotInv'
  BY Zenon DEF KrunInv, KrunTypeOK, SlotInv, IsTrue
<1>4. OwnerInv'
  BY Zenon DEF KrunInv, KrunTypeOK, OwnerInv, Console
<1> QED BY <1>1, <1>2, <1>3, <1>4, Zenon DEF KrunInv

\* The watchdog of krun_main ends the helper.
LEMMA Krun_watchdog == ASSUME KrunInv, watchdog PROVE KrunInv'
<1> USE KrunAssumption DEF watchdog, handles
<1>1. KrunTypeOK'
  BY Zenon DEF KrunInv, KrunTypeOK
<1>2. \A d \in Callers : TaskInv(d)'
  BY OthersKeep, Zenon DEF KrunInv, KrunTypeOK, SlotInv
<1>3. SlotInv'
  BY Zenon DEF KrunInv, KrunTypeOK, SlotInv, IsTrue
<1>4. OwnerInv'
  BY Zenon DEF KrunInv, KrunTypeOK, OwnerInv, Console
<1> QED BY <1>1, <1>2, <1>3, <1>4, Zenon DEF KrunInv

\* The monitor, and with it the keepalive pipe, goes.
LEMMA Krun_MonitorDies == ASSUME KrunInv, MonitorDies PROVE KrunInv'
<1> USE KrunAssumption DEF MonitorDies, handles
<1>1. KrunTypeOK'
  BY Zenon DEF KrunInv, KrunTypeOK
<1>2. \A d \in Callers : TaskInv(d)'
  BY OthersKeep, Zenon DEF KrunInv, KrunTypeOK, SlotInv
<1>3. SlotInv'
  BY Zenon DEF KrunInv, KrunTypeOK, SlotInv, IsTrue
<1>4. OwnerInv'
  BY Zenon DEF KrunInv, KrunTypeOK, OwnerInv, Console
<1> QED BY <1>1, <1>2, <1>3, <1>4, Zenon DEF KrunInv

\* start finds nothing cached and nothing handed out.
LEMMA Krun_start == ASSUME KrunInv, start PROVE KrunInv'
<1> USE KrunAssumption DEF start, handles
<1>1. KrunTypeOK'
  BY Zenon DEF KrunInv, KrunTypeOK
<1>2. \A d \in Callers : TaskInv(d)'
  <2>1. helper = "unborn" /\ runtime = "unborn" /\ task' = task /\ stopCalled' = stopCalled /\ slot = None
    BY Zenon DEF KrunInv, SlotInv
  <2>2. slot' = None
    BY <2>1, Zenon
  <2> QED BY <2>1, <2>2, OthersKeep, Zenon DEF KrunInv
<1>3. SlotInv'
  BY Zenon DEF KrunInv, KrunTypeOK, SlotInv, IsTrue
<1>4. OwnerInv'
  BY Zenon DEF KrunInv, KrunTypeOK, OwnerInv, Console
<1> QED BY <1>1, <1>2, <1>3, <1>4, Zenon DEF KrunInv

\* A wait that ends without an exit.
LEMMA Krun_wait_fails == ASSUME KrunInv, NEW c \in Callers, wait_fails(c) PROVE KrunInv'
<1> USE KrunAssumption DEF wait_fails, handles
<1>0. KrunTypeOK /\ "err" \in Answers /\ Return(c, "err")
  BY Zenon DEF KrunInv, KrunTypeOK, Answers
<1>a. IsTrue("err")' /\ "err" # "not_started"
  BY Zenon DEF IsTrue
<1>b. task' \in [Callers -> Tasks] /\ Only(c) /\ task'[c].pc = "idle"
  BY <1>0, Returned, Zenon
<1>1. KrunTypeOK'
  BY <1>0, <1>b, Zenon DEF KrunTypeOK, KrunInv, Tasks, TaskInv, Exits
<1>2. \A d \in Callers : TaskInv(d)'
  <2>1. TaskInv(c)'
    BY <1>0, <1>a, ReturnedInv, Zenon
  <2>2. ASSUME NEW d \in Callers, d # c PROVE TaskInv(d)'
    BY <1>0, <1>b, <2>2, OthersKeep, ZenonT(60) DEF KrunInv, Only, TaskInv, KrunTypeOK
  <2> QED BY <2>1, <2>2, Zenon
<1>3. SlotInv'
  BY <1>0, <1>b, Zenon DEF KrunInv, KrunTypeOK, SlotInv, TaskInv, IsTrue, Only, Exits
<1>4. OwnerInv'
  BY Zenon DEF KrunInv, KrunTypeOK, OwnerInv, Console
<1> QED BY <1>1, <1>2, <1>3, <1>4, Zenon DEF KrunInv

\* A wait whose future is dropped leaves nothing behind.
LEMMA Krun_wait_dropped == ASSUME KrunInv, NEW c \in Callers, wait_dropped(c) PROVE KrunInv'
<1> USE KrunAssumption DEF wait_dropped, handles
<1>0. KrunTypeOK /\ None \in Answers /\ Return(c, None)
  BY Zenon DEF KrunInv, KrunTypeOK, Answers
<1>a. IsTrue(None)' /\ None # "not_started"
  BY Zenon DEF IsTrue
<1>b. task' \in [Callers -> Tasks] /\ Only(c) /\ task'[c].pc = "idle"
  BY <1>0, Returned, Zenon
<1>1. KrunTypeOK'
  BY <1>0, <1>b, Zenon DEF KrunTypeOK, KrunInv, Tasks, TaskInv, Exits
<1>2. \A d \in Callers : TaskInv(d)'
  <2>1. TaskInv(c)'
    BY <1>0, <1>a, ReturnedInv, Zenon
  <2>2. ASSUME NEW d \in Callers, d # c PROVE TaskInv(d)'
    BY <1>0, <1>b, <2>2, OthersKeep, Zenon DEF KrunInv, Only, TaskInv, KrunTypeOK
  <2> QED BY <2>1, <2>2, Zenon
<1>3. SlotInv'
  BY <1>0, <1>b, Zenon DEF KrunInv, KrunTypeOK, SlotInv, TaskInv, IsTrue, Only, Exits
<1>4. OwnerInv'
  BY Zenon DEF KrunInv, KrunTypeOK, OwnerInv, Console
<1> QED BY <1>1, <1>2, <1>3, <1>4, Zenon DEF KrunInv

\* The exit is cached: by a stop, and by the waiter.
LEMMA Krun_stop_reap == ASSUME KrunInv, NEW c \in Callers, stop_reap(c) PROVE KrunInv'
<1> USE KrunAssumption DEF stop_reap, At, cache_exit, handles
<1>0. KrunTypeOK /\ "ok" \in Answers /\ Return(c, "ok")
  BY Zenon DEF KrunInv, KrunTypeOK, Answers
<1>a. IsTrue("ok")' /\ "ok" # "not_started"
  BY Zenon DEF IsTrue
<1>b. task' \in [Callers -> Tasks] /\ Only(c) /\ task'[c].pc = "idle"
  BY <1>0, Returned, Zenon
<1>1. KrunTypeOK'
  BY <1>0, <1>b, Zenon DEF KrunTypeOK, KrunInv, Tasks, TaskInv, Exits
<1>2. \A d \in Callers : TaskInv(d)'
  <2>1. TaskInv(c)'
    BY <1>0, <1>a, ReturnedInv, Zenon
  <2>2. ASSUME NEW d \in Callers, d # c PROVE TaskInv(d)'
    BY <1>0, <1>b, <2>2, OthersKeep, Zenon DEF KrunInv, Only, TaskInv, KrunTypeOK
  <2> QED BY <2>1, <2>2, Zenon
<1>3. SlotInv'
  BY <1>0, <1>b, Zenon DEF KrunInv, KrunTypeOK, SlotInv, TaskInv, IsTrue, Only, Exits
<1>4. OwnerInv'
  BY Zenon DEF KrunInv, KrunTypeOK, OwnerInv, Console
<1> QED BY <1>1, <1>2, <1>3, <1>4, Zenon DEF KrunInv

\* The waiter caches the exit it saw, unless one is cached already.
LEMMA Krun_wait_cache == ASSUME KrunInv, NEW c \in Callers, wait_cache(c) PROVE KrunInv'
<1> USE KrunAssumption DEF wait_cache, cache_exit, handles
<1>0. KrunTypeOK /\ TaskInv(c) /\ task[c] \in Tasks
  BY Zenon DEF KrunInv, KrunTypeOK, Tasks
<1>a. PICK e \in Exits : e = task[c].exit
  BY <1>0, Zenon DEF TaskInv, Tasks
<1>b. e \in Answers /\ Return(c, e) /\ IsTrue(e) /\ IsTrue(e)' /\ e # "not_started"
  BY <1>0, <1>a, Zenon DEF Answers, TaskInv, IsTrue, Exits
<1>c. task' \in [Callers -> Tasks] /\ Only(c) /\ task'[c].pc = "idle"
  BY <1>0, <1>b, Returned, Zenon
<1>d. c = Waiter /\ runtime = None /\ slot' = (IF slot = None THEN e ELSE slot)
  BY <1>0, <1>a, Zenon DEF TaskInv, Tasks, Ops
<1>1. KrunTypeOK'
  BY <1>0, <1>c, <1>d, Zenon DEF KrunTypeOK, Tasks, Exits
<1>2. \A d \in Callers : TaskInv(d)'
  <2>1. TaskInv(c)'
    BY <1>0, <1>b, ReturnedInv, Zenon
  <2>2. ASSUME NEW d \in Callers, d # c PROVE TaskInv(d)'
    <3>1. TaskInv(d) /\ task[d] \in Tasks
      BY <1>0, Zenon DEF KrunInv, KrunTypeOK, Tasks
    <3>2. task[d].pc # "clone"
      BY <1>d, <2>2, <3>1, Zenon DEF TaskInv, Ops, Tasks
    <3>3. task'[d] = task[d]
      BY <1>c, <2>2, Zenon DEF Only
    <3> QED BY <3>1, <3>2, <3>3, OthersKeep, Zenon
  <2> QED BY <2>1, <2>2, Zenon
<1>3. SlotInv'
  BY <1>b, <1>c, <1>d, Zenon DEF KrunInv, SlotInv, IsTrue, Exits
<1>4. OwnerInv'
  BY Zenon DEF KrunInv, KrunTypeOK, OwnerInv, Console
<1> QED BY <1>1, <1>2, <1>3, <1>4, Zenon DEF KrunInv

\* The waiter looks for a cached exit, for the machine and for the end of the helper.
LEMMA Krun_cached_exit == ASSUME KrunInv, NEW c \in Callers, cached_exit(c) PROVE KrunInv'
<1> USE KrunAssumption DEF cached_exit, handles
<1>0. KrunTypeOK /\ slot \in Answers /\ "clone" \in Places /\ IsTrue(slot) /\ slot # "not_started"
  BY Zenon DEF KrunInv, KrunTypeOK, Answers, Places, SlotInv, Exits
<1>a. IsTrue(slot)'
  BY <1>0, Zenon DEF IsTrue
<1>b. /\ task' \in [Callers -> Tasks] /\ Only(c) /\ task'[c].pc \in {"idle", "clone"}
  BY <1>0, Returned, Moved, Zenon
<1>1. KrunTypeOK'
  BY <1>0, <1>b, Zenon DEF KrunTypeOK, Tasks
<1>2. \A d \in Callers : TaskInv(d)'
  <2>1. CASE slot = None
    <3>1. /\ task'[c].pc = "clone" /\ task'[c].op = task[c].op
          /\ task'[c].exit = task[c].exit /\ task'[c].answer = task[c].answer
      BY <1>0, <2>1, Moved, Zenon
    <3>2. TaskInv(c)'
      BY <2>1, <3>1, Zenon DEF KrunInv, TaskInv, IsTrue
    <3> QED BY <1>b, <3>2, OthersKeep, Zenon DEF KrunInv, Only
  <2>2. CASE slot # None
    <3>1. TaskInv(c)'
      BY <1>0, <1>a, <2>2, ReturnedInv, Zenon
    <3> QED BY <1>b, <3>1, OthersKeep, Zenon DEF KrunInv, Only
  <2> QED BY <2>1, <2>2, Zenon
<1>3. SlotInv'
  BY <1>0, <1>b, Zenon DEF KrunInv, SlotInv, IsTrue, Only
<1>4. OwnerInv'
  BY Zenon DEF KrunInv, KrunTypeOK, OwnerInv, Console
<1> QED BY <1>1, <1>2, <1>3, <1>4, Zenon DEF KrunInv

\* The waiter takes a reference to the running machine.
LEMMA Krun_wait_clone == ASSUME KrunInv, NEW c \in Callers, wait_clone(c) PROVE KrunInv'
<1> USE KrunAssumption DEF wait_clone, handles
<1>0. KrunTypeOK /\ "poll" \in Places /\ "none" \in Answers /\ "not_started" \in Answers
  BY Zenon DEF KrunInv, Answers, Places
<1>a. /\ task' \in [Callers -> Tasks] /\ Only(c) /\ task'[c].pc \in {"idle", "poll"}
  BY <1>0, Returned, Moved, Zenon
<1>b. c = Waiter /\ (runtime = None => stopCalled)
  BY <1>0, Zenon DEF KrunInv, KrunTypeOK, TaskInv, SlotInv, Ops
<1>1. KrunTypeOK'
  BY <1>0, <1>a, Zenon DEF KrunTypeOK, Tasks
<1>2. \A d \in Callers : TaskInv(d)'
  <2>1. CASE runtime = "running" /\ Goto(c, "poll")
    <3>1. /\ task'[c].pc = "poll" /\ task'[c].op = task[c].op
          /\ task'[c].exit = task[c].exit /\ task'[c].answer = task[c].answer
      BY <1>0, <2>1, Moved, Zenon
    <3>2. TaskInv(c)'
      BY <3>1, ZenonT(60) DEF KrunInv, TaskInv, IsTrue
    <3> QED BY <1>a, <3>2, OthersKeep, Zenon DEF KrunInv, Only
  <2>2. ASSUME NEW answer \in {"not_started", "none"}, runtime = None, Return(c, answer)
        PROVE \A d \in Callers : TaskInv(d)'
    <3>1. answer \in Answers /\ IsTrue(answer)' /\ stopCalled'
      BY <1>0, <1>b, <2>2, Zenon DEF IsTrue
    <3>2. TaskInv(c)'
      BY <1>0, <2>2, <3>1, ReturnedInv, Zenon
    <3> QED BY <1>a, <3>2, OthersKeep, Zenon DEF KrunInv, Only
  <2> QED BY <2>1, <2>2, Zenon
<1>3. SlotInv'
  BY <1>a, Zenon DEF KrunInv, SlotInv, IsTrue, Only
<1>4. OwnerInv'
  BY Zenon DEF KrunInv, KrunTypeOK, OwnerInv, Console
<1> QED BY <1>1, <1>2, <1>3, <1>4, Zenon DEF KrunInv

\* The waiter looks at the helper's status.
LEMMA Krun_wait_for_vm_exit == ASSUME KrunInv, NEW c \in Callers, wait_for_vm_exit(c) PROVE KrunInv'
<1> USE KrunAssumption DEF handles
<1>0. KrunTypeOK /\ "none" \in Answers /\ IsTrue("none") /\ TaskInv(c)
  BY Zenon DEF KrunInv, Answers, IsTrue
<1>a. /\ task[c].pc = "poll" /\ task[c].op \in {"wait", "try_wait"}
      /\ UNCHANGED <<runtime, slot, helper, handles, parent>>
      /\ \/ /\ helper \in {"success", "failure"}
            /\ task' = [task EXCEPT ![c].pc = "take", ![c].exit = vm_exit_from_status(helper)]
         \/ Return(c, "none")
  BY Zenon DEF wait_for_vm_exit, At, exited
<1>b. ASSUME helper \in {"success", "failure"},
             task' = [task EXCEPT ![c].pc = "take", ![c].exit = vm_exit_from_status(helper)]
      PROVE /\ task' \in [Callers -> Tasks] /\ Only(c) /\ task'[c].pc = "take"
            /\ task'[c].op = task[c].op /\ task'[c].answer = task[c].answer
            /\ task'[c].exit = vm_exit_from_status(helper) /\ IsTrue(vm_exit_from_status(helper))
            /\ vm_exit_from_status(helper) # None
  <2>1. vm_exit_from_status(helper) \in Exits /\ IsTrue(vm_exit_from_status(helper))
    BY <1>b, Zenon DEF vm_exit_from_status, Exits, IsTrue
  <2>2. vm_exit_from_status(helper) # None
    BY <2>1, Zenon DEF Exits
  <2> QED BY <1>0, <1>b, <2>1, <2>2, ZenonT(60) DEF KrunTypeOK, Tasks, Places, Only
<1>c. /\ task' \in [Callers -> Tasks] /\ Only(c) /\ task'[c].pc \in {"take", "idle"}
  BY <1>0, <1>a, <1>b, Returned, Zenon
<1>1. KrunTypeOK'
  BY <1>0, <1>a, <1>c, Zenon DEF KrunTypeOK, Tasks
<1>2. \A d \in Callers : TaskInv(d)'
  <2>1. TaskInv(c)'
    <3>1. CASE Return(c, "none")
      <4>1. IsTrue("none")'
        BY Zenon DEF IsTrue
      <4> QED BY <1>0, <3>1, <4>1, ReturnedInv, Zenon
    <3>2. CASE ~Return(c, "none")
      BY <1>0, <1>a, <1>b, <3>2, Zenon DEF TaskInv, IsTrue
    <3> QED BY <3>1, <3>2, Zenon
  <2> QED BY <1>a, <1>c, <2>1, OthersKeep, Zenon DEF KrunInv, Only
<1>3. SlotInv'
  BY <1>a, <1>c, Zenon DEF KrunInv, SlotInv, IsTrue, Only
<1>4. OwnerInv'
  BY <1>a, Zenon DEF KrunInv, KrunTypeOK, OwnerInv, Console
<1> QED BY <1>1, <1>2, <1>3, <1>4, Zenon DEF KrunInv

\* The machine is taken out of the runtime, and its listeners and console with it.
LEMMA Krun_wait_take == ASSUME KrunInv, NEW c \in Callers, wait_take(c) PROVE KrunInv'
<1> USE KrunAssumption DEF wait_take, handles
<1>0. KrunTypeOK /\ TaskInv(c) /\ c = Waiter /\ "cache" \in Places /\ Goto(c, "cache")
  BY Zenon DEF KrunInv, TaskInv, Places
<1>a. /\ task' \in [Callers -> Tasks] /\ Only(c) /\ task'[c].pc = "cache" /\ task'[c].op = task[c].op
      /\ task'[c].exit = task[c].exit /\ task'[c].answer = task[c].answer
  BY <1>0, Moved, Zenon
<1>1. KrunTypeOK'
  BY <1>0, <1>a, Zenon DEF KrunTypeOK, Tasks
<1>2. \A d \in Callers : TaskInv(d)'
  <2>1. TaskInv(c)'
    BY <1>0, <1>a, Zenon DEF TaskInv, IsTrue
  <2> QED BY <1>a, <2>1, OthersKeep, Zenon DEF KrunInv, Only
<1>3. SlotInv'
  BY <1>0, <1>a, Zenon DEF KrunInv, SlotInv, IsTrue
<1>4. OwnerInv'
  BY Zenon DEF KrunInv, KrunTypeOK, OwnerInv, Console
<1> QED BY <1>1, <1>2, <1>3, <1>4, Zenon DEF KrunInv

\* A stop takes the machine out of the runtime.
LEMMA Krun_stop_take == ASSUME KrunInv, NEW c \in Callers, stop_take(c) PROVE KrunInv'
<1> USE KrunAssumption DEF handles
<1>0. /\ KrunTypeOK /\ TaskInv(c) /\ task[c].op = "stop" /\ stopCalled /\ "kill" \in Places /\ "ok" \in Answers
      /\ helper' = helper /\ owner' = owner /\ stopCalled' = stopCalled /\ parent' = parent
      /\ \/ /\ runtime = None /\ slot' = cache_exit("Stopped") /\ Return(c, "ok")
            /\ runtime' = runtime /\ listeners' = listeners /\ serial' = serial
         \/ /\ runtime' = None /\ listeners' = {} /\ serial' = FALSE /\ slot' = slot /\ Goto(c, "kill")
  BY Zenon DEF KrunInv, TaskInv, Places, Answers, stop_take, At
<1>a. task' \in [Callers -> Tasks] /\ Only(c)
  BY <1>0, Moved, Returned, Zenon
<1>1. KrunTypeOK'
  BY <1>0, <1>a, Zenon DEF KrunTypeOK, Tasks, cache_exit, Exits
<1>2. \A d \in Callers : TaskInv(d)'
  <2>1. TaskInv(c)'
    <3>1. CASE Return(c, "ok")
      <4>1. IsTrue("ok")'
        BY Zenon DEF IsTrue
      <4> QED BY <1>0, <3>1, <4>1, ReturnedInv, Zenon
    <3>2. CASE Goto(c, "kill") /\ runtime' = None
      <4>1. /\ task'[c].pc = "kill" /\ task'[c].op = task[c].op
            /\ task'[c].exit = task[c].exit /\ task'[c].answer = task[c].answer
        BY <1>0, <3>2, Moved, Zenon
      <4> QED BY <1>0, <3>2, <4>1, Zenon DEF TaskInv, IsTrue
    <3> QED BY <1>0, <3>1, <3>2, Zenon
  <2>2. runtime = None => runtime' = None
    BY <1>0, Zenon
  <2>3. ASSUME NEW d \in Callers, d # c PROVE TaskInv(d)'
    <3>1. TaskInv(d) /\ task'[d] = task[d]
      BY <1>a, <2>3, Zenon DEF KrunInv, Only
    <3> QED BY <1>0, <2>2, <3>1, OthersKeep, Zenon
  <2> QED BY <2>1, <2>3, Zenon
<1>3. SlotInv'
  BY <1>0, Zenon DEF KrunInv, SlotInv, IsTrue, cache_exit
<1>4. OwnerInv'
  BY <1>0 DEF KrunInv, KrunTypeOK, OwnerInv, Console
<1> QED BY <1>1, <1>2, <1>3, <1>4, Zenon DEF KrunInv

\* It kills the helper, or fails to look at it.
LEMMA Krun_stop_kill == ASSUME KrunInv, NEW c \in Callers, stop_kill(c) PROVE KrunInv'
<1> USE KrunAssumption DEF handles
<1>0. /\ KrunTypeOK /\ TaskInv(c) /\ task[c].op = "stop" /\ task[c].pc = "kill" /\ stopCalled
      /\ "reap" \in Places /\ "err" \in Answers
      /\ UNCHANGED <<runtime, slot, listeners, serial, owner, stopCalled, parent>>
      /\ helper' = helper \/ (helper = "alive" /\ helper' = "killed")
      /\ Goto(c, "reap") \/ Return(c, "err")
  BY Zenon DEF KrunInv, TaskInv, Places, Answers, stop_kill, At
<1>a. task' \in [Callers -> Tasks] /\ Only(c)
  BY <1>0, Moved, Returned, Zenon
<1>1. KrunTypeOK'
  BY <1>0, <1>a, Zenon DEF KrunTypeOK, Tasks
<1>2. \A d \in Callers : TaskInv(d)'
  <2>1. TaskInv(c)'
    <3>1. CASE Return(c, "err")
      <4>1. IsTrue("err")'
        BY Zenon DEF IsTrue
      <4> QED BY <1>0, <3>1, <4>1, ReturnedInv, Zenon
    <3>2. CASE Goto(c, "reap")
      <4>1. /\ task'[c].pc = "reap" /\ task'[c].op = task[c].op
            /\ task'[c].exit = task[c].exit /\ task'[c].answer = task[c].answer
        BY <1>0, <3>2, Moved, Zenon
      <4> QED BY <1>0, <4>1, Zenon DEF TaskInv, IsTrue
    <3> QED BY <1>0, <3>1, <3>2, Zenon
  <2>2. ASSUME NEW d \in Callers, d # c PROVE TaskInv(d)'
    <3>1. TaskInv(d) /\ task'[d] = task[d]
      BY <1>a, <2>2, Zenon DEF KrunInv, Only
    <3> QED BY <1>0, <3>1, OthersKeep, Zenon
  <2> QED BY <2>1, <2>2, Zenon
<1>3. SlotInv'
  BY <1>0, Zenon DEF KrunInv, SlotInv, IsTrue
<1>4. OwnerInv'
  BY <1>0, Zenon DEF KrunInv, KrunTypeOK, OwnerInv, Console
<1> QED BY <1>1, <1>2, <1>3, <1>4, Zenon DEF KrunInv

\* A listener or the console is handed out, or a task begins a call.
LEMMA Krun_listen_vsock == ASSUME KrunInv, NEW c \in Callers, listen_vsock(c) PROVE KrunInv'
<1> USE KrunAssumption DEF handles
<1>0. PICK p \in Ports :
         /\ runtime = "running" /\ p \in listeners /\ listeners' = listeners \ {p}
         /\ owner' = [owner EXCEPT ![p] = @ \cup {c}]
         /\ UNCHANGED <<runtime, slot, helper, serial, stopCalled, parent, task>>
  BY Zenon DEF listen_vsock
<1>a. owner[p] = {} /\ p # Console
  BY <1>0, Zenon DEF KrunInv, OwnerInv, Console
<1>b. owner'[p] = {c} /\ (\A h \in Ports \cup {Console} : h # p => owner'[h] = owner[h])
  BY <1>0, <1>a, Zenon DEF KrunInv, KrunTypeOK
<1>1. KrunTypeOK'
  BY <1>0, Zenon DEF KrunInv, KrunTypeOK
<1>2. \A d \in Callers : TaskInv(d)'
  BY <1>0, OthersKeep, Zenon DEF KrunInv
<1>3. SlotInv'
  BY <1>0, Zenon DEF KrunInv, SlotInv, IsTrue
<1>4. OwnerInv'
  BY <1>0, <1>a, <1>b, Zenon DEF KrunInv, KrunTypeOK, OwnerInv
<1> QED BY <1>1, <1>2, <1>3, <1>4, Zenon DEF KrunInv

\* The console is handed out.
LEMMA Krun_open_serial == ASSUME KrunInv, NEW c \in Callers, open_serial(c) PROVE KrunInv'
<1> USE KrunAssumption DEF open_serial
<1>a. owner'[Console] = {c} /\ (\A h \in Ports : owner'[h] = owner[h]) /\ Console \notin Ports
  BY Zenon DEF KrunInv, KrunTypeOK, OwnerInv, Console
<1>1. KrunTypeOK'
  BY Zenon DEF KrunInv, KrunTypeOK
<1>2. \A d \in Callers : TaskInv(d)'
  BY OthersKeep, Zenon DEF KrunInv
<1>3. SlotInv'
  BY Zenon DEF KrunInv, SlotInv, IsTrue
<1>4. OwnerInv'
  BY <1>a, Zenon DEF KrunInv, KrunTypeOK, OwnerInv
<1> QED BY <1>1, <1>2, <1>3, <1>4, Zenon DEF KrunInv

\* A task calls an operation.
LEMMA Krun_Call == ASSUME KrunInv, NEW c \in Callers, NEW op \in Ops, Call(c, op) PROVE KrunInv'
<1> USE KrunAssumption DEF Call, handles
<1> DEFINE new == [op |-> op, pc |-> IF op = "stop" THEN "stop" ELSE "cached", exit |-> None, answer |-> None]
<1>a. new \in Tasks /\ task' = [task EXCEPT ![c] = new]
  BY Zenon DEF Tasks, Places, Answers
<1>b. /\ task' \in [Callers -> Tasks] /\ Only(c) /\ task'[c].op = op /\ task'[c].exit = None
      /\ task'[c].answer = None /\ task'[c].pc = IF op = "stop" THEN "stop" ELSE "cached"
  BY <1>a DEF KrunInv, KrunTypeOK, Only, Tasks
<1> HIDE DEF new
<1>1. KrunTypeOK'
  BY <1>b, Zenon DEF KrunInv, KrunTypeOK, Tasks
<1>2. \A d \in Callers : TaskInv(d)'
  <2>1. TaskInv(c)'
    BY <1>b, Zenon DEF TaskInv, IsTrue, Ops
  <2>2. ASSUME NEW d \in Callers, d # c PROVE TaskInv(d)'
    BY <1>b, <2>2, OthersKeep, Zenon DEF KrunInv, Only
  <2> QED BY <2>1, <2>2, Zenon
<1>3. SlotInv'
  BY <1>b, Zenon DEF KrunInv, SlotInv, TaskInv, IsTrue, Only
<1>4. OwnerInv'
  BY Zenon DEF KrunInv, KrunTypeOK, OwnerInv, Console
<1> QED BY <1>1, <1>2, <1>3, <1>4, Zenon DEF KrunInv

\* Every step keeps the invariant.
LEMMA KrunKeeps == ASSUME KrunInv, [KrunNext]_krunVars PROVE KrunInv'
<1>1. CASE UNCHANGED krunVars
  BY <1>1, ZenonT(60) DEF krunVars, KrunInv, KrunTypeOK, TaskInv, SlotInv, OwnerInv, IsTrue
<1>2. CASE start \/ HelperExits \/ watchdog \/ MonitorDies
  BY <1>2, Krun_start, Krun_HelperExits, Krun_watchdog, Krun_MonitorDies, Zenon
<1>3. ASSUME NEW c \in Callers, Advance(c) PROVE KrunInv'
  BY <1>3, Krun_cached_exit, Krun_wait_clone, Krun_wait_for_vm_exit, Krun_wait_take, Krun_wait_cache,
     Krun_stop_take, Krun_stop_kill, Krun_stop_reap, Zenon DEF Advance
<1>4. ASSUME NEW c \in Callers, wait_fails(c) \/ wait_dropped(c) \/ listen_vsock(c) \/ open_serial(c)
      PROVE KrunInv'
  BY <1>4, Krun_wait_fails, Krun_wait_dropped, Krun_listen_vsock, Krun_open_serial, Zenon
<1>5. ASSUME NEW c \in Callers, NEW op \in Ops, Call(c, op) PROVE KrunInv'
  BY <1>5, Krun_Call, Zenon
<1> QED BY <1>1, <1>2, <1>3, <1>4, <1>5, Zenon DEF KrunNext

\* What the invariant says of the answers, the runtime and what is handed out.
LEMMA KrunPromises == ASSUME KrunInv PROVE ExitClosesRuntime /\ AnswersAreTrue /\ HandedOutOnce
<1>1. ExitClosesRuntime
  BY Zenon DEF KrunInv, SlotInv, ExitClosesRuntime
<1>2. AnswersAreTrue
  BY Zenon DEF KrunInv, TaskInv, IsTrue, AnswersAreTrue
<1>3. HandedOutOnce
  BY Zenon DEF KrunInv, OwnerInv, HandedOutOnce
<1> QED BY <1>1, <1>2, <1>3, Zenon

\* The invariant holds of every state the machine reaches.
LEMMA KrunInvariant == KrunSpec => []KrunInv
<1>1. KrunInit => KrunInv
  BY KrunStart, Zenon
<1>2. KrunInv /\ [KrunNext]_krunVars => KrunInv'
  BY KrunKeeps, Zenon
<1> QED BY <1>1, <1>2, PTL DEF KrunSpec

\* For any number of tasks: once an exit is cached, the runtime is empty (wait, stop).
THEOREM RuntimeIsClosed == KrunSpec => []ExitClosesRuntime
<1>1. KrunInv => ExitClosesRuntime
  BY KrunPromises, Zenon
<1> QED BY <1>1, KrunInvariant, PTL

\* For any number of tasks: no exit is made up, and "not started" is said only after a stop
\* (wait, try_wait, stop, cache_exit).
THEOREM TrueAnswers == KrunSpec => []AnswersAreTrue
<1>1. KrunInv => AnswersAreTrue
  BY KrunPromises, Zenon
<1> QED BY <1>1, KrunInvariant, PTL

\* For any number of tasks and ports: a listener and the console are given to one task
\* (listen_vsock, open_serial).
THEOREM GivenOnce == KrunSpec => []HandedOutOnce
<1>1. KrunInv => HandedOutOnce
  BY KrunPromises, Zenon
<1> QED BY <1>1, KrunInvariant, PTL

-----------------------------------------------------------------------------
(* VzBackend *)

VzTaskType == [pc: VzPlaces, answer: VzExits \cup {"ok", "err", "not_started", None}]
VzListener == [port: VzPorts \cup {None}, at: {"no", "reserved", "live", "dropping"}]

\* An exit is not made up.
VzIsTrue(exit) ==
    /\ exit = "StoppedWithError" => vmState = "error"
    /\ exit = "Stopped" => vmState = "stopped" \/ stopAsked
    /\ exit = "not_started" => stopAsked

\* Who is in a stop was asked to, and at the end of it the machine has stopped.
VzTaskInv(t) ==
    /\ VzIsTrue(vzTask[t].answer)
    /\ vzTask[t].pc \in {"lock", "graceful", "hard", "final"} => stopAsked
    /\ vzTask[t].pc = "final" => vmState = "stopped"
    /\ vzTask[t].pc # "idle" => handle # "unborn"

\* The handle follows the machine, and what is cached or announced of its exit is true.
VzMachineInv ==
    /\ handle = "unborn" => vmState = "unborn"
    /\ handle = None => vmState = "stopped" /\ stopAsked
    /\ VzIsTrue(exitSlot)
    /\ delegated = "StoppedWithError" => vmState = "error"
    /\ delegated = "Stopped" => vmState = "stopped"

\* A reserved port has one listener, and what the device has is one that was made live.
VzSocketInv ==
    /\ \A t \in VzTasks : listening[t].at # "no" => listening[t].port \in VzPorts
    /\ \A t \in VzTasks : listening[t].at \in {"reserved", "live"} => listening[t].port \in registry
    /\ \A t, u \in VzTasks :
          listening[t].at \in {"reserved", "live"} /\ listening[u].at \in {"reserved", "live"}
          /\ listening[t].port = listening[u].port => t = u
    /\ \A p \in VzPorts : \A t \in VzTasks :
          device[p] = t => listening[t].port = p /\ listening[t].at \in {"live", "dropping"}

VzInv == VzTypeOK /\ (\A t \in VzTasks : VzTaskInv(t)) /\ VzMachineInv /\ VzSocketInv

\* Nothing runs and nobody listens (VzInit).
LEMMA VzStart == ASSUME VzInit PROVE VzInv
<1> USE VzAssumption DEF VzInit
<1>1. VzTypeOK
  BY Zenon DEF VzTypeOK, VzPlaces
<1>2. (\A t \in VzTasks : VzTaskInv(t)) /\ VzMachineInv
  BY Zenon DEF VzTaskInv, VzMachineInv, VzIsTrue
<1>3. VzSocketInv
  BY Zenon DEF VzSocketInv
<1> QED BY <1>1, <1>2, <1>3, Zenon DEF VzInv

\* The machine is started (vz_start).
LEMMA Vz_start == ASSUME VzInv, vz_start PROVE VzInv'
<1>0. /\ handle = "unborn" /\ handle' = "held" /\ vmState = "unborn" /\ vmState' = "running"
      /\ UNCHANGED <<inner, exitSlot, delegated, stopAsked, vzTask, registry, device, listening>>
  BY Zenon DEF vz_start, socketVars, VzInv, VzMachineInv
<1>1. VzTypeOK'
  BY <1>0, Zenon DEF VzInv, VzTypeOK
<1>2. \A t \in VzTasks : VzTaskInv(t)'
  BY <1>0, Zenon DEF VzInv, VzTaskInv, VzIsTrue
<1>3. VzMachineInv'
  BY <1>0, VzAssumption, Zenon DEF VzInv, VzMachineInv, VzIsTrue
<1>4. VzSocketInv'
  BY <1>0, Zenon DEF VzInv, VzSocketInv
<1> QED BY <1>1, <1>2, <1>3, <1>4, Zenon DEF VzInv

\* The guest stops (GuestStops).
LEMMA Vz_GuestStops == ASSUME VzInv, GuestStops PROVE VzInv'
<1>0. /\ vmState \in {"running", "stopping"}
      /\ \/ vmState' = "stopped" /\ delegated' = "Stopped"
         \/ vmState' = "error" /\ delegated' = "StoppedWithError"
      /\ UNCHANGED <<handle, inner, exitSlot, stopAsked, vzTask, registry, device, listening>>
  BY Zenon DEF GuestStops, socketVars, VzExits
<1>1. VzTypeOK'
  BY <1>0, Zenon DEF VzInv, VzTypeOK, VzExits
<1>2. \A t \in VzTasks : VzTaskInv(t)'
  BY <1>0, Zenon DEF VzInv, VzTaskInv, VzIsTrue
<1>3. VzMachineInv'
  BY <1>0, Zenon DEF VzInv, VzMachineInv, VzIsTrue
<1>4. VzSocketInv'
  BY <1>0, Zenon DEF VzInv, VzSocketInv
<1> QED BY <1>1, <1>2, <1>3, <1>4, Zenon DEF VzInv

\* A task moves on, or returns (VzGoto, VzReturn).
LEMMA VzMoves ==
  ASSUME VzTypeOK, NEW t \in VzTasks
  PROVE /\ \A pc \in VzPlaces : VzGoto(t, pc) =>
              /\ vzTask' \in [VzTasks -> VzTaskType] /\ \A u \in VzTasks \ {t} : vzTask'[u] = vzTask[u]
              /\ vzTask'[t].pc = pc /\ vzTask'[t].answer = vzTask[t].answer
        /\ \A a \in VzExits \cup {"ok", "err", "not_started", None} : VzReturn(t, a) =>
              /\ vzTask' \in [VzTasks -> VzTaskType] /\ \A u \in VzTasks \ {t} : vzTask'[u] = vzTask[u]
              /\ vzTask'[t].pc = "idle" /\ vzTask'[t].answer = a
<1>0. vzTask \in [VzTasks -> VzTaskType] /\ vzTask[t] \in VzTaskType
  BY Zenon DEF VzTypeOK, VzTaskType
<1>1. ASSUME NEW pc \in VzPlaces, VzGoto(t, pc)
      PROVE /\ vzTask' \in [VzTasks -> VzTaskType] /\ \A u \in VzTasks \ {t} : vzTask'[u] = vzTask[u]
            /\ vzTask'[t].pc = pc /\ vzTask'[t].answer = vzTask[t].answer
  <2> DEFINE x == [vzTask[t] EXCEPT !.pc = pc]
  <2>1. x \in VzTaskType /\ x.pc = pc /\ x.answer = vzTask[t].answer
    BY <1>0, Zenon DEF VzTaskType
  <2>2. vzTask' = [vzTask EXCEPT ![t] = x]
    BY <1>0, <1>1, Zenon DEF VzGoto
  <2> HIDE DEF x
  <2> QED BY <1>0, <2>1, <2>2, Zenon
<1>2. ASSUME NEW a \in VzExits \cup {"ok", "err", "not_started", None}, VzReturn(t, a)
      PROVE /\ vzTask' \in [VzTasks -> VzTaskType] /\ \A u \in VzTasks \ {t} : vzTask'[u] = vzTask[u]
            /\ vzTask'[t].pc = "idle" /\ vzTask'[t].answer = a
  <2> DEFINE x == [pc |-> "idle", answer |-> a]
  <2>1. x \in VzTaskType /\ x.pc = "idle" /\ x.answer = a
    BY Zenon DEF VzTaskType, VzPlaces
  <2>2. vzTask' = [vzTask EXCEPT ![t] = x]
    BY <1>2, Zenon DEF VzReturn
  <2> HIDE DEF x
  <2> QED BY <1>0, <2>1, <2>2, Zenon
<1> QED BY <1>1, <1>2, Zenon

\* The delegate is called (ExitDelegate).
LEMMA Vz_ExitDelegate == ASSUME VzInv, ExitDelegate PROVE VzInv'
<1>0. /\ delegated # None /\ exitSlot' = vz_cache_exit(delegated) /\ delegated' = None
      /\ vzTask' = [t \in VzTasks |-> Woken(vzTask[t])]
      /\ UNCHANGED <<vmState, handle, inner, stopAsked, registry, device, listening>>
  BY Zenon DEF ExitDelegate, socketVars
<1>1. \A t \in VzTasks :
          /\ Woken(vzTask[t]) \in VzTaskType /\ Woken(vzTask[t]).answer = vzTask[t].answer
          /\ Woken(vzTask[t]).pc = vzTask[t].pc \/ (vzTask[t].pc = "notified" /\ Woken(vzTask[t]).pc = "cached")
  <2> TAKE t \in VzTasks
  <2>1. vzTask[t] \in VzTaskType
    BY Zenon DEF VzInv, VzTypeOK, VzTaskType
  <2>2. [vzTask[t] EXCEPT !.pc = "cached"] \in VzTaskType /\ [vzTask[t] EXCEPT !.pc = "cached"].pc = "cached"
        /\ [vzTask[t] EXCEPT !.pc = "cached"].answer = vzTask[t].answer
    BY <2>1, Zenon DEF VzTaskType, VzPlaces
  <2> QED BY <2>1, <2>2, Zenon DEF Woken
<1>2. exitSlot' \in {exitSlot, delegated} /\ vzTask' \in [VzTasks -> VzTaskType]
  BY <1>0, <1>1, Zenon DEF vz_cache_exit
<1>3. VzTypeOK'
  BY <1>0, <1>2, Zenon DEF VzInv, VzTypeOK, VzTaskType
<1>4. \A t \in VzTasks : VzTaskInv(t)'
  BY <1>0, <1>1, Zenon DEF VzInv, VzTaskInv, VzIsTrue
<1>5. VzMachineInv'
  BY <1>0, <1>2, VzAssumption, Zenon DEF VzInv, VzTypeOK, VzExits, VzMachineInv, VzIsTrue
<1>6. VzSocketInv'
  BY <1>0, Zenon DEF VzInv, VzSocketInv
<1> QED BY <1>3, <1>4, <1>5, <1>6, Zenon DEF VzInv

\* A task calls wait or stop (VzCall).
LEMMA Vz_VzCall ==
  ASSUME VzInv, NEW t \in VzTasks, NEW op \in {"wait", "stop"}, VzCall(t, op)
  PROVE VzInv'
<1> DEFINE x == [pc |-> IF op = "stop" THEN "lock" ELSE "cached", answer |-> None]
<1>0. /\ handle # "unborn" /\ vzTask' = [vzTask EXCEPT ![t] = x]
      /\ stopAsked' = (stopAsked \/ op = "stop")
      /\ UNCHANGED <<vmState, handle, inner, exitSlot, delegated, registry, device, listening>>
  BY Zenon DEF VzCall, socketVars
<1>1. x \in VzTaskType /\ x.answer = None /\ (x.pc = "cached" \/ (x.pc = "lock" /\ op = "stop"))
  BY Zenon DEF VzTaskType, VzPlaces
<1> HIDE DEF x
<1>2. vzTask' \in [VzTasks -> VzTaskType] /\ vzTask'[t] = x /\ \A u \in VzTasks \ {t} : vzTask'[u] = vzTask[u]
  BY <1>0, <1>1, Zenon DEF VzInv, VzTypeOK, VzTaskType
<1>3. VzTypeOK'
  BY <1>0, <1>2, Zenon DEF VzInv, VzTypeOK, VzTaskType
<1>4. \A u \in VzTasks : VzTaskInv(u)'
  <2>1. VzTaskInv(t)'
    BY <1>0, <1>1, <1>2, VzAssumption, Zenon DEF VzTaskInv, VzIsTrue
  <2>2. \A u \in VzTasks \ {t} : VzTaskInv(u)'
    BY <1>0, <1>2, Zenon DEF VzInv, VzTaskInv, VzIsTrue
  <2> QED BY <2>1, <2>2, Zenon
<1>5. VzMachineInv' /\ VzSocketInv'
  BY <1>0, Zenon DEF VzInv, VzMachineInv, VzIsTrue, VzSocketInv
<1> QED BY <1>3, <1>4, <1>5, Zenon DEF VzInv

\* A step of t that neither changes the machine nor a listener keeps the invariant if t is
\* where it may be.
LEMMA VzTaskStep ==
  ASSUME VzInv, NEW t \in VzTasks, vzTask' \in [VzTasks -> VzTaskType],
         \A u \in VzTasks \ {t} : vzTask'[u] = vzTask[u],
         inner' \in VzTasks \cup {None}, UNCHANGED <<vmState, handle, exitSlot, delegated, stopAsked>>,
         UNCHANGED <<registry, device, listening>>, VzTaskInv(t)'
  PROVE VzInv'
<1>1. VzTypeOK'
  BY Zenon DEF VzInv, VzTypeOK, VzTaskType
<1>2. \A u \in VzTasks : VzTaskInv(u)'
  BY Zenon DEF VzInv, VzTaskInv, VzIsTrue
<1>3. VzMachineInv' /\ VzSocketInv'
  BY Zenon DEF VzInv, VzMachineInv, VzIsTrue, VzSocketInv
<1> QED BY <1>1, <1>2, <1>3, Zenon DEF VzInv

\* The steps of a wait (vz_wait, vz_wait_dropped).
LEMMA Vz_wait == ASSUME VzInv, NEW t \in VzTasks, vz_wait(t) \/ vz_wait_dropped(t) PROVE VzInv'
<1>0. /\ vzTask[t].pc # "idle"
      /\ \/ \E pc \in {"clone", "look", "register", "notified"} : VzGoto(t, pc)
         \/ exitSlot # None /\ VzReturn(t, exitSlot)
         \/ handle = None /\ VzReturn(t, "not_started")
         \/ VzReturn(t, None)
      /\ UNCHANGED <<vmState, handle, inner, exitSlot, delegated, stopAsked>>
      /\ UNCHANGED <<registry, device, listening>>
  BY ZenonT(60) DEF vz_wait, vz_wait_dropped, VzAt, socketVars
<1>1. CASE \E pc \in {"clone", "look", "register", "notified"} : VzGoto(t, pc)
  <2>1. PICK pc \in {"clone", "look", "register", "notified"} : VzGoto(t, pc)
    BY <1>1, Zenon
  <2>2. /\ vzTask' \in [VzTasks -> VzTaskType] /\ \A u \in VzTasks \ {t} : vzTask'[u] = vzTask[u]
        /\ vzTask'[t].pc = pc /\ vzTask'[t].answer = vzTask[t].answer
    BY <2>1, VzMoves, Zenon DEF VzInv, VzPlaces
  <2>3. VzTaskInv(t)'
    BY <1>0, <2>2, Zenon DEF VzInv, VzTaskInv, VzIsTrue
  <2> QED BY <1>0, <2>2, <2>3, VzTaskStep, Zenon DEF VzInv, VzTypeOK
<1>2. CASE \E a \in {exitSlot, "not_started", None} : VzReturn(t, a) /\ (a = "not_started" => handle = None)
  <2>1. PICK a \in {exitSlot, "not_started", None} : VzReturn(t, a) /\ (a = "not_started" => handle = None)
    BY <1>2, Zenon
  <2>2. /\ vzTask' \in [VzTasks -> VzTaskType] /\ \A u \in VzTasks \ {t} : vzTask'[u] = vzTask[u]
        /\ vzTask'[t].pc = "idle" /\ vzTask'[t].answer = a
    BY <2>1, VzMoves, ZenonT(60) DEF VzInv, VzTypeOK
  <2>3. VzTaskInv(t)'
    BY <1>0, <2>1, <2>2, VzAssumption, ZenonT(60) DEF VzInv, VzMachineInv, VzTaskInv, VzIsTrue
  <2> QED BY <1>0, <2>2, <2>3, VzTaskStep, Zenon DEF VzInv, VzTypeOK
<1>3. exitSlot # "not_started"
  BY VzAssumption, Zenon DEF VzInv, VzTypeOK, VzExits
<1> QED BY <1>0, <1>1, <1>2, <1>3, VzAssumption, Zenon

\* The waiter looks at the machine itself (try_cache_exit_from_vm).
LEMMA Vz_try_cache == ASSUME VzInv, NEW t \in VzTasks, try_cache_exit_from_vm(t) PROVE VzInv'
<1>0. /\ vzTask[t].pc = "look" /\ VzGoto(t, "recheck")
      /\ \/ exitSlot' = exitSlot
         \/ vmState = "stopped" /\ exitSlot' = "Stopped"
         \/ vmState = "error" /\ exitSlot' = "StoppedWithError"
      /\ UNCHANGED <<vmState, handle, inner, delegated, stopAsked, registry, device, listening>>
  BY ZenonT(60) DEF try_cache_exit_from_vm, vz_cache_exit, VzAt, socketVars
<1>1. /\ vzTask' \in [VzTasks -> VzTaskType] /\ \A u \in VzTasks \ {t} : vzTask'[u] = vzTask[u]
      /\ vzTask'[t].pc = "recheck" /\ vzTask'[t].answer = vzTask[t].answer
  BY <1>0, VzMoves, Zenon DEF VzInv, VzPlaces
<1>2. VzTypeOK'
  BY <1>0, <1>1, Zenon DEF VzInv, VzTypeOK, VzTaskType, VzExits
<1>3. \A u \in VzTasks : VzTaskInv(u)'
  BY <1>0, <1>1, Zenon DEF VzInv, VzTaskInv, VzIsTrue
<1>4. VzMachineInv' /\ VzSocketInv'
  BY <1>0, Zenon DEF VzInv, VzMachineInv, VzIsTrue, VzSocketInv
<1> QED BY <1>2, <1>3, <1>4, Zenon DEF VzInv

\* A stop gets the lock (stop_lock).
LEMMA Vz_stop_lock == ASSUME VzInv, NEW t \in VzTasks, stop_lock(t) PROVE VzInv'
<1>0. /\ vzTask[t].pc = "lock" /\ inner' = t
      /\ \E pc \in {"final", "graceful", "hard"} :
            VzGoto(t, pc) /\ (pc = "final" => handle = None \/ vmState = "stopped")
      /\ UNCHANGED <<vmState, handle, exitSlot, delegated, stopAsked>>
      /\ UNCHANGED <<registry, device, listening>>
  BY ZenonT(60) DEF stop_lock, VzAt, socketVars
<1>1. PICK pc \in {"final", "graceful", "hard"} :
          VzGoto(t, pc) /\ (pc = "final" => handle = None \/ vmState = "stopped")
  BY <1>0, Zenon
<1>2. /\ vzTask' \in [VzTasks -> VzTaskType] /\ \A u \in VzTasks \ {t} : vzTask'[u] = vzTask[u]
      /\ vzTask'[t].pc = pc /\ vzTask'[t].answer = vzTask[t].answer
  BY <1>1, VzMoves, Zenon DEF VzInv, VzPlaces
<1>3. VzTaskInv(t)'
  BY <1>0, <1>1, <1>2, Zenon DEF VzInv, VzMachineInv, VzTaskInv, VzIsTrue
<1> QED BY <1>0, <1>2, <1>3, VzTaskStep, Zenon

\* The machine is asked to stop, or stopped hard (stop_graceful, stop_hard).
LEMMA Vz_stopping ==
  ASSUME VzInv, NEW t \in VzTasks, stop_graceful(t) \/ stop_hard(t)
  PROVE VzInv'
<1>0. /\ vzTask[t].pc \in {"graceful", "hard"}
      /\ \/ VzReturn(t, "err") /\ inner' = None /\ vmState' = vmState
         \/ vmState = "stopped" /\ VzGoto(t, "final") /\ inner' = inner /\ vmState' = vmState
         \/ VzGoto(t, "hard") /\ inner' = inner /\ vmState' = vmState
         \/ vmState = "running" /\ vmState' = "stopping" /\ inner' = inner /\ vzTask' = vzTask
         \/ vmState # "error" /\ vmState' = "stopped" /\ VzGoto(t, "final") /\ inner' = inner
      /\ UNCHANGED <<handle, exitSlot, delegated, stopAsked>> /\ UNCHANGED <<registry, device, listening>>
  BY ZenonT(60) DEF stop_graceful, stop_hard, VzAt, socketVars
<1>1. CASE VzReturn(t, "err") /\ inner' = None /\ vmState' = vmState
  <2>1. /\ vzTask' \in [VzTasks -> VzTaskType] /\ \A u \in VzTasks \ {t} : vzTask'[u] = vzTask[u]
        /\ vzTask'[t].pc = "idle" /\ vzTask'[t].answer = "err"
    BY <1>1, VzMoves, Zenon DEF VzInv
  <2>2. VzTaskInv(t)'
    BY <2>1, Zenon DEF VzTaskInv, VzIsTrue
  <2> QED BY <1>0, <1>1, <2>1, <2>2, VzTaskStep, Zenon
<1>2. CASE VzGoto(t, "hard") /\ inner' = inner /\ vmState' = vmState
  <2>1. /\ vzTask' \in [VzTasks -> VzTaskType] /\ \A u \in VzTasks \ {t} : vzTask'[u] = vzTask[u]
        /\ vzTask'[t].pc = "hard" /\ vzTask'[t].answer = vzTask[t].answer
    BY <1>2, VzMoves, Zenon DEF VzInv, VzPlaces
  <2>2. VzTaskInv(t)'
    BY <1>0, <1>2, <2>1, Zenon DEF VzInv, VzTaskInv, VzIsTrue
  <2> QED BY <1>0, <1>2, <2>1, <2>2, VzTaskStep, Zenon DEF VzInv, VzTypeOK
<1>3. CASE /\ vmState' = "stopped" /\ (vmState # "error" \/ vmState' = vmState)
           /\ VzGoto(t, "final") /\ inner' = inner
  <2>1. /\ vzTask' \in [VzTasks -> VzTaskType] /\ \A u \in VzTasks \ {t} : vzTask'[u] = vzTask[u]
        /\ vzTask'[t].pc = "final" /\ vzTask'[t].answer = vzTask[t].answer
    BY <1>3, VzMoves, Zenon DEF VzInv, VzPlaces
  <2>2. vmState # "error" /\ handle # "unborn"
    BY <1>0, <1>3, Zenon DEF VzInv, VzTaskInv
  <2>3. VzTypeOK'
    BY <1>0, <1>3, <2>1, Zenon DEF VzInv, VzTypeOK, VzTaskType
  <2>4. \A u \in VzTasks : VzTaskInv(u)'
    BY <1>0, <1>3, <2>1, <2>2, Zenon DEF VzInv, VzTaskInv, VzIsTrue
  <2>5. VzMachineInv' /\ VzSocketInv'
    BY <1>0, <1>3, <2>2, Zenon DEF VzInv, VzMachineInv, VzIsTrue, VzSocketInv
  <2> QED BY <2>3, <2>4, <2>5, Zenon DEF VzInv
<1>4. CASE vmState = "running" /\ vmState' = "stopping" /\ inner' = inner /\ vzTask' = vzTask
  <2>1. VzTypeOK'
    BY <1>0, <1>4, Zenon DEF VzInv, VzTypeOK
  <2>2. \A u \in VzTasks : VzTaskInv(u)'
    BY <1>0, <1>4, Zenon DEF VzInv, VzTaskInv, VzIsTrue
  <2>3. VzMachineInv' /\ VzSocketInv'
    BY <1>0, <1>4, Zenon DEF VzInv, VzMachineInv, VzIsTrue, VzSocketInv
  <2> QED BY <2>1, <2>2, <2>3, Zenon DEF VzInv
<1> QED BY <1>0, <1>1, <1>2, <1>3, <1>4, Zenon

\* A stop is over (stop_final).
LEMMA Vz_stop_final == ASSUME VzInv, NEW t \in VzTasks, stop_final(t) PROVE VzInv'
<1> DEFINE x == [pc |-> "idle", answer |-> "ok"]
           next(u) == IF u = t THEN x ELSE IF exitSlot = None THEN Woken(vzTask[u]) ELSE vzTask[u]
<1>0. /\ vzTask[t].pc = "final" /\ handle' = None /\ inner' = None /\ exitSlot' = vz_cache_exit("Stopped")
      /\ vzTask' = [u \in VzTasks |-> next(u)]
      /\ UNCHANGED <<vmState, delegated, stopAsked, registry, device, listening>>
  BY Zenon DEF stop_final, VzAt, socketVars
<1>1. x \in VzTaskType /\ x.pc = "idle" /\ x.answer = "ok"
  BY Zenon DEF VzTaskType, VzPlaces
<1> HIDE DEF x
<1>2. \A u \in VzTasks \ {t} :
          /\ next(u) \in VzTaskType /\ next(u).answer = vzTask[u].answer
          /\ next(u).pc = vzTask[u].pc \/ next(u).pc = "cached"
  <2> TAKE u \in VzTasks \ {t}
  <2>1. vzTask[u] \in VzTaskType
    BY Zenon DEF VzInv, VzTypeOK, VzTaskType
  <2>2. [vzTask[u] EXCEPT !.pc = "cached"] \in VzTaskType /\ [vzTask[u] EXCEPT !.pc = "cached"].pc = "cached"
        /\ [vzTask[u] EXCEPT !.pc = "cached"].answer = vzTask[u].answer
    BY <2>1, Zenon DEF VzTaskType, VzPlaces
  <2> QED BY <2>1, <2>2, Zenon DEF Woken
<1>3. next(t) = x
  BY Zenon
<1> HIDE DEF next
<1>4. /\ vzTask' \in [VzTasks -> VzTaskType] /\ vzTask'[t] = x
      /\ \A u \in VzTasks \ {t} : vzTask'[u] = next(u)
  BY <1>0, <1>1, <1>2, <1>3, Zenon
<1>5. exitSlot' \in {exitSlot, "Stopped"} /\ vmState = "stopped" /\ stopAsked
  BY <1>0, Zenon DEF vz_cache_exit, VzInv, VzTaskInv
<1>6. VzTypeOK'
  BY <1>0, <1>4, <1>5, Zenon DEF VzInv, VzTypeOK, VzExits, VzTaskType
<1>7. \A u \in VzTasks : VzTaskInv(u)'
  <2>1. VzTaskInv(t)'
    BY <1>1, <1>4, Zenon DEF VzTaskInv, VzIsTrue
  <2>2. \A u \in VzTasks \ {t} : VzTaskInv(u)'
    BY <1>0, <1>2, <1>4, <1>5, VzAssumption, Zenon DEF VzInv, VzTaskInv, VzIsTrue
  <2> QED BY <2>1, <2>2, Zenon
<1>8. VzMachineInv' /\ VzSocketInv'
  BY <1>0, <1>5, VzAssumption, Zenon DEF VzInv, VzMachineInv, VzIsTrue, VzSocketInv
<1> QED BY <1>6, <1>7, <1>8, Zenon DEF VzInv

\* A step of a listener leaves the machine alone.
LEMMA VzSocketStep ==
  ASSUME VzInv, UNCHANGED machineVars, VzSocketInv', registry' \subseteq VzPorts,
         device' \in [VzPorts -> VzTasks \cup {None}], listening' \in [VzTasks -> VzListener]
  PROVE VzInv'
<1>0. /\ vmState' = vmState /\ handle' = handle /\ inner' = inner /\ exitSlot' = exitSlot
      /\ delegated' = delegated /\ stopAsked' = stopAsked /\ vzTask' = vzTask
  BY Zenon DEF machineVars
<1>1. VzTypeOK'
  BY <1>0, Zenon DEF VzInv, VzTypeOK, VzListener
<1>2. (\A t \in VzTasks : VzTaskInv(t)') /\ VzMachineInv'
  BY <1>0, Zenon DEF VzInv, VzTaskInv, VzMachineInv, VzIsTrue
<1> QED BY <1>1, <1>2, Zenon DEF VzInv

\* The listener of a task changes to x and no other one does.
LEMMA VzListenerMoves ==
  ASSUME VzInv, NEW t \in VzTasks, NEW x \in VzListener, listening' = [listening EXCEPT ![t] = x]
  PROVE /\ listening' \in [VzTasks -> VzListener] /\ listening'[t] = x
        /\ \A u \in VzTasks \ {t} : listening'[u] = listening[u]
  BY Zenon DEF VzInv, VzTypeOK, VzListener

\* The steps of a listener (reserve_listener_port, vz_listen, release_listener_port,
\* unregister_listener).
LEMMA Vz_Socket == ASSUME VzInv, NEW t \in VzTasks, Socket(t) PROVE VzInv'
<1> DEFINE no == [port |-> None, at |-> "no"]
           set(p, a) == [port |-> p, at |-> a]
<1>0. /\ registry \subseteq VzPorts /\ device \in [VzPorts -> VzTasks \cup {None}]
      /\ listening[t] \in VzListener /\ listening \in [VzTasks -> VzListener] /\ VzSocketInv
  BY Zenon DEF VzInv, VzTypeOK, VzListener
<1>1. no \in VzListener /\ no.at = "no" /\ no.port = None
  BY Zenon DEF VzListener
<1>2. \A p \in VzPorts : \A a \in {"reserved", "live", "dropping"} :
          set(p, a) \in VzListener /\ set(p, a).port = p /\ set(p, a).at = a
  BY Zenon DEF VzListener
<1>3. \A a \in {"live", "dropping"} : [listening[t] EXCEPT !.at = a] = set(listening[t].port, a)
  BY <1>0, SMT DEF VzListener
<1> HIDE DEF no, set
<1>4. ASSUME NEW p \in VzPorts, reserve_listener_port(t, p) PROVE VzInv'
  <2>0. /\ listening[t].at = "no" /\ p \notin registry /\ registry' = registry \cup {p} /\ device' = device
        /\ listening' = [listening EXCEPT ![t] = set(p, "reserved")] /\ UNCHANGED machineVars
    BY <1>4, Zenon DEF reserve_listener_port, set
  <2>1. /\ listening' \in [VzTasks -> VzListener] /\ listening'[t] = set(p, "reserved")
        /\ \A u \in VzTasks \ {t} : listening'[u] = listening[u]
    BY <1>2, <2>0, VzListenerMoves, Zenon
  <2>2. listening'[t].port = p /\ listening'[t].at = "reserved"
    BY <2>1, SMTT(60) DEF set
  <2>3. VzSocketInv'
    <3>1. \A v \in VzTasks : listening'[v].at # "no" => listening'[v].port \in VzPorts
      BY <1>0, <2>0, <2>1, <2>2, Zenon DEF VzSocketInv
    <3>2. \A v \in VzTasks : listening'[v].at \in {"reserved", "live"} => listening'[v].port \in registry'
      BY <1>0, <2>0, <2>1, <2>2, Zenon DEF VzSocketInv
    <3>3. \A v, u \in VzTasks :
            listening'[v].at \in {"reserved", "live"} /\ listening'[u].at \in {"reserved", "live"}
            /\ listening'[v].port = listening'[u].port => v = u
      BY <1>0, <2>0, <2>1, <2>2, SMTT(60) DEF VzSocketInv
    <3>4. \A o \in VzPorts : \A v \in VzTasks :
            device'[o] = v => listening'[v].port = o /\ listening'[v].at \in {"live", "dropping"}
      BY <1>0, <2>0, <2>1, <2>2, SMTT(60) DEF VzSocketInv
    <3> QED BY <3>1, <3>2, <3>3, <3>4, Zenon DEF VzSocketInv
  <2> QED BY <1>0, <2>0, <2>1, <2>3, VzSocketStep, Zenon
<1>5. ASSUME vz_listen(t) PROVE VzInv'
  <2> DEFINE p == listening[t].port
  <2>0. listening[t].at = "reserved" /\ UNCHANGED machineVars /\ p \in VzPorts
    BY <1>0, <1>5, Zenon DEF vz_listen, VzSocketInv
  <2>1. CASE device' = [device EXCEPT ![p] = t] /\ listening' = [listening EXCEPT ![t].at = "live"] /\ registry' = registry
    <3>0. listening' = [listening EXCEPT ![t] = set(p, "live")]
      BY <1>0, <1>3, <2>1, Zenon
    <3>1. /\ listening' \in [VzTasks -> VzListener] /\ listening'[t] = set(p, "live")
          /\ \A u \in VzTasks \ {t} : listening'[u] = listening[u]
      BY <1>2, <2>0, <3>0, VzListenerMoves, Zenon
    <3>2. listening'[t].port = p /\ listening'[t].at = "live"
      BY <3>1, SMTT(60) DEF set
    <3>3. /\ device' \in [VzPorts -> VzTasks \cup {None}] /\ device'[p] = t
          /\ \A o \in VzPorts \ {p} : device'[o] = device[o]
      BY <1>0, <2>0, <2>1, Zenon
    <3>4. VzSocketInv'
      <4>1. \A v \in VzTasks : listening'[v].at # "no" => listening'[v].port \in VzPorts
        BY <1>0, <2>0, <2>1, <3>1, <3>2, <3>3, SMTT(60) DEF VzSocketInv
      <4>2. \A v \in VzTasks : listening'[v].at \in {"reserved", "live"} => listening'[v].port \in registry'
        BY <1>0, <2>0, <2>1, <3>1, <3>2, <3>3, SMTT(60) DEF VzSocketInv
      <4>3. \A v, u \in VzTasks :
              listening'[v].at \in {"reserved", "live"} /\ listening'[u].at \in {"reserved", "live"}
              /\ listening'[v].port = listening'[u].port => v = u
        BY <1>0, <2>0, <2>1, <3>1, <3>2, <3>3, SMTT(60) DEF VzSocketInv
      <4>4. \A o \in VzPorts : \A v \in VzTasks :
              device'[o] = v => listening'[v].port = o /\ listening'[v].at \in {"live", "dropping"}
        BY <1>0, <2>0, <2>1, <3>1, <3>2, <3>3, SMTT(60) DEF VzSocketInv
      <4> QED BY <4>1, <4>2, <4>3, <4>4, Zenon DEF VzSocketInv
    <3> QED BY <1>0, <2>0, <2>1, <3>1, <3>3, <3>4, VzSocketStep, Zenon
  <2>2. CASE registry' = registry \ {p} /\ listening' = [listening EXCEPT ![t] = no] /\ device' = device
    <3>1. /\ listening' \in [VzTasks -> VzListener] /\ listening'[t] = no
          /\ \A u \in VzTasks \ {t} : listening'[u] = listening[u]
      BY <1>1, <2>2, VzListenerMoves, Zenon
    <3>2. VzSocketInv'
      <4>1. \A v \in VzTasks : listening'[v].at # "no" => listening'[v].port \in VzPorts
        BY <1>0, <1>1, <2>0, <2>2, <3>1, Zenon DEF VzSocketInv
      <4>2. \A v \in VzTasks : listening'[v].at \in {"reserved", "live"} => listening'[v].port \in registry'
        BY <1>0, <1>1, <2>0, <2>2, <3>1, Zenon DEF VzSocketInv
      <4>3. \A v, u \in VzTasks :
              listening'[v].at \in {"reserved", "live"} /\ listening'[u].at \in {"reserved", "live"}
              /\ listening'[v].port = listening'[u].port => v = u
        BY <1>0, <1>1, <2>0, <2>2, <3>1, Zenon DEF VzSocketInv
      <4>4. \A o \in VzPorts : \A v \in VzTasks :
              device'[o] = v => listening'[v].port = o /\ listening'[v].at \in {"live", "dropping"}
        BY <1>0, <1>1, <2>0, <2>2, <3>1, SMTT(60) DEF VzSocketInv
      <4> QED BY <4>1, <4>2, <4>3, <4>4, Zenon DEF VzSocketInv
    <3> QED BY <1>0, <2>0, <2>2, <3>1, <3>2, VzSocketStep, Zenon
  <2> QED BY <1>5, <2>1, <2>2, Zenon DEF vz_listen, no
<1>6. ASSUME release_listener_port(t) PROVE VzInv'
  <2> DEFINE p == listening[t].port
  <2>0. /\ listening[t].at = "live" /\ UNCHANGED machineVars /\ p \in VzPorts /\ device' = device
        /\ registry' = registry \ {p} /\ listening' = [listening EXCEPT ![t] = set(p, "dropping")]
    BY <1>0, <1>3, <1>6, Zenon DEF release_listener_port, VzSocketInv
  <2>1. /\ listening' \in [VzTasks -> VzListener] /\ listening'[t] = set(p, "dropping")
        /\ \A u \in VzTasks \ {t} : listening'[u] = listening[u]
    BY <1>2, <2>0, VzListenerMoves, Zenon
  <2>2. listening'[t].port = p /\ listening'[t].at = "dropping"
    BY <1>2, <2>0, <2>1, Zenon
  <2>3. VzSocketInv'
    <3>1. \A v \in VzTasks : listening'[v].at # "no" => listening'[v].port \in VzPorts
      BY <1>0, <2>0, <2>1, <2>2, Zenon DEF VzSocketInv
    <3>2. \A v \in VzTasks : listening'[v].at \in {"reserved", "live"} => listening'[v].port \in registry'
      BY <1>0, <2>0, <2>1, <2>2, Zenon DEF VzSocketInv
    <3>3. \A v, u \in VzTasks :
            listening'[v].at \in {"reserved", "live"} /\ listening'[u].at \in {"reserved", "live"}
            /\ listening'[v].port = listening'[u].port => v = u
      BY <1>0, <2>0, <2>1, <2>2, Zenon DEF VzSocketInv
    <3>4. \A o \in VzPorts : \A v \in VzTasks :
            device'[o] = v => listening'[v].port = o /\ listening'[v].at \in {"live", "dropping"}
      BY <1>0, <2>0, <2>1, <2>2, SMTT(60) DEF VzSocketInv
    <3> QED BY <3>1, <3>2, <3>3, <3>4, Zenon DEF VzSocketInv
  <2> QED BY <1>0, <2>0, <2>1, <2>3, VzSocketStep, Zenon
<1>7. ASSUME unregister_listener(t) PROVE VzInv'
  <2> DEFINE p == listening[t].port
  <2>0. /\ listening[t].at = "dropping" /\ UNCHANGED machineVars /\ p \in VzPorts /\ registry' = registry
        /\ device' = [device EXCEPT ![p] = None] /\ listening' = [listening EXCEPT ![t] = no]
    BY <1>0, <1>7, Zenon DEF unregister_listener, VzSocketInv, no
  <2>1. /\ listening' \in [VzTasks -> VzListener] /\ listening'[t] = no
        /\ \A u \in VzTasks \ {t} : listening'[u] = listening[u]
    BY <1>1, <2>0, VzListenerMoves, Zenon
  <2>2. /\ device' \in [VzPorts -> VzTasks \cup {None}] /\ device'[p] = None
        /\ \A o \in VzPorts \ {p} : device'[o] = device[o]
    BY <1>0, <2>0, Zenon
  <2>3. VzSocketInv'
    <3>1. \A v \in VzTasks : listening'[v].at # "no" => listening'[v].port \in VzPorts
      BY <1>0, <1>1, <2>0, <2>1, <2>2, VzAssumption, SMTT(60) DEF VzSocketInv
    <3>2. \A v \in VzTasks : listening'[v].at \in {"reserved", "live"} => listening'[v].port \in registry'
      BY <1>0, <1>1, <2>0, <2>1, <2>2, VzAssumption, SMTT(60) DEF VzSocketInv
    <3>3. \A v, u \in VzTasks :
            listening'[v].at \in {"reserved", "live"} /\ listening'[u].at \in {"reserved", "live"}
            /\ listening'[v].port = listening'[u].port => v = u
      BY <1>0, <1>1, <2>0, <2>1, <2>2, VzAssumption, SMTT(60) DEF VzSocketInv
    <3>4. \A o \in VzPorts : \A v \in VzTasks :
            device'[o] = v => listening'[v].port = o /\ listening'[v].at \in {"live", "dropping"}
      BY <1>0, <1>1, <2>0, <2>1, <2>2, VzAssumption, SMTT(60) DEF VzSocketInv
    <3> QED BY <3>1, <3>2, <3>3, <3>4, Zenon DEF VzSocketInv
  <2> QED BY <1>0, <2>0, <2>1, <2>2, <2>3, VzSocketStep, Zenon
<1> QED BY <1>4, <1>5, <1>6, <1>7, Zenon DEF Socket

\* Every step of the backend keeps the invariant.
LEMMA VzKeeps == ASSUME VzInv, [VzNext]_vzVars PROVE VzInv'
<1>1. CASE vz_start \/ GuestStops \/ ExitDelegate
  BY <1>1, Vz_start, Vz_GuestStops, Vz_ExitDelegate, Zenon
<1>2. CASE \E t \in VzTasks : VzAdvance(t) \/ vz_wait_dropped(t) \/ Socket(t)
  BY <1>2, Vz_wait, Vz_try_cache, Vz_stop_lock, Vz_stopping, Vz_stop_final, Vz_Socket, Zenon DEF VzAdvance
<1>3. CASE \E t \in VzTasks, op \in {"wait", "stop"} : VzCall(t, op)
  BY <1>3, Vz_VzCall, Zenon
<1>4. CASE UNCHANGED vzVars
  <2>0. /\ UNCHANGED <<vmState, handle, inner, exitSlot, delegated, stopAsked, vzTask>>
        /\ UNCHANGED <<registry, device, listening>>
    BY <1>4, Zenon DEF vzVars
  <2>1. VzTypeOK'
    BY <2>0, Zenon DEF VzInv, VzTypeOK
  <2>2. (\A t \in VzTasks : VzTaskInv(t)') /\ VzMachineInv' /\ VzSocketInv'
    BY <2>0, Zenon DEF VzInv, VzTaskInv, VzMachineInv, VzIsTrue, VzSocketInv
  <2> QED BY <2>1, <2>2, Zenon DEF VzInv
<1> QED BY <1>1, <1>2, <1>3, <1>4, Zenon DEF VzNext

\* What the invariant says of the answers, the handle and the ports.
LEMMA VzPromises == ASSUME VzInv PROVE VzAnswersAreTrue /\ ReleasedIsStopped /\ OneListener
<1>1. VzAnswersAreTrue /\ ReleasedIsStopped
  BY Zenon DEF VzInv, VzTaskInv, VzMachineInv, VzIsTrue, VzAnswersAreTrue, ReleasedIsStopped
<1>2. OneListener
  <2>1. \A p \in VzPorts : device[p] # None => device[p] \in VzTasks
    BY Zenon DEF VzInv, VzTypeOK
  <2> QED BY <2>1, ZenonT(60) DEF VzInv, VzSocketInv, OneListener
<1> QED BY <1>1, <1>2, Zenon

\* For any number of tasks and ports: an exit or an answer of the machine is true of it, a
\* machine that was released has stopped, and a port has one listener (wait, try_wait, stop,
\* ExitDelegate, reserve_listener_port, unregister_listener).
THEOREM VzKeepsItsWord == VzSpec => [](VzAnswersAreTrue /\ ReleasedIsStopped /\ OneListener)
<1>1. VzInit => VzInv
  BY VzStart, Zenon
<1>2. VzInv /\ [VzNext]_(vzVars) => VzInv'
  BY VzKeeps, Zenon DEF vzVars
<1>3. VzInv => VzAnswersAreTrue /\ ReleasedIsStopped /\ OneListener
  BY VzPromises, Zenon
<1> QED BY <1>1, <1>2, <1>3, PTL DEF VzSpec

-----------------------------------------------------------------------------
(* The parts together *)

BackendsInv == KrunInv /\ VzInv /\ EndpointInv /\ BrokerInv /\ ForwardInv

\* What a part was is kept while another one runs.
LEMMA BackendsInvariant == BackendsSpec => []BackendsInv
<1>1. BackendsInit => BackendsInv
  BY KrunStart, VzStart, EndpointStart, BrokerStart, ForwardStart, Zenon DEF BackendsInit, BackendsInv
<1>2. BackendsInv /\ [BackendsNext]_partVars => BackendsInv'
  <2> SUFFICES ASSUME BackendsInv, [BackendsNext]_partVars PROVE BackendsInv'
    BY Zenon
  <2>1. /\ [KrunNext]_krunVars /\ [VzNext]_vzVars /\ [EndpointsNext]_endpointVars
        /\ [BrokerNext]_brokerVars /\ [ForwardNext]_forwardVars
    <3>1. CASE BackendsNext
      BY <3>1, Zenon DEF BackendsNext
    <3>2. CASE UNCHANGED partVars
      BY <3>2, Zenon DEF partVars
    <3> QED BY <3>1, <3>2, Zenon
  <2> QED BY <2>1, KrunKeeps, VzKeeps, EndpointKeeps, BrokerKeeps, ForwardKeeps, Zenon DEF BackendsInv
<1> QED BY <1>1, <1>2, PTL DEF BackendsSpec

\* For any number of tasks and ports: an exit closes the runtime, an answer is true of the
\* virtual machine, a stream is handed out once, a machine that was released has stopped and
\* a port of it has one listener (KrunBackend's and VzBackend's wait, stop and listeners).
THEOREM BackendsKeepTheirWord == BackendsSpec => []BackendAnswers
<1>1. BackendsInv => BackendAnswers
  BY KrunPromises, VzPromises, Zenon DEF BackendsInv, BackendAnswers
<1> QED BY <1>1, BackendsInvariant, PTL

\* For any number of endpoints, calls, ports and clients: an endpoint has one plugin, a plugin
\* gets its own streams in order, and a forwarded port is bound once and leads where it should
\* (endpoints.rs, plugins/src/lib.rs, forward.rs).
THEOREM PluginsAreServed == BackendsSpec => []PluginsServed
<1>1. BackendsInv => PluginsServed
  BY EndpointPromise, BrokerPromises, ForwardPromises, Zenon DEF BackendsInv, PluginsServed
<1> QED BY <1>1, BackendsInvariant, PTL

\* The five parts are type correct; among others an endpoint's delay stays within its bounds.
THEOREM PartsTypeCorrect == BackendsSpec => []PartsTypeOK
<1>1. BackendsInv => PartsTypeOK
  BY BrokerPromises, ForwardPromises, Zenon DEF BackendsInv, PartsTypeOK, KrunInv, VzInv, EndpointInv
<1> QED BY <1>1, BackendsInvariant, PTL
=============================================================================
