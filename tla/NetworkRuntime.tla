--------------------------- MODULE NetworkRuntime ---------------------------
(***************************************************************************)
(* The network runtime of libvm (network/mod.rs, network/netd_driver.rs):  *)
(* network instances, each served by one netd helper process, and the      *)
(* attachments that join machines to them.  An operation holds its own     *)
(* machine's lock, so there is one operation per machine; operations of    *)
(* different machines interleave at every store call, because no lock and  *)
(* no transaction spans them.  A private network belongs to one machine, a *)
(* named one is shared by the machines that name its definition.           *)
(***************************************************************************)
EXTENDS Integers, FiniteSets

CONSTANTS
    None,        \* Rust's Option::None
    Private,     \* machines whose network is private
    Named,       \* machines whose network is the named definition
    Plain,       \* machines without a helper (no network, or vznat)
    StoreFails,  \* whether a store call may fail for reasons of its own
    MaxNets,     \* bound on the network instances ever created
    MaxDeaths,   \* bound on helpers that die by themselves
    MaxCrashes   \* bound on callers that die inside an operation

Machines == Private \cup Named \cup Plain
Nets == 1..MaxNets

ASSUME NetworkAssumption ==
    /\ MaxNets \in Nat /\ MaxDeaths \in Nat /\ MaxCrashes \in Nat
    /\ None \notin Nets /\ StoreFails \in BOOLEAN
    /\ Private \cap Named = {} /\ Private \cap Plain = {} /\ Named \cap Plain = {}

VARIABLES
    row,       \* instance rows: "absent", "private" or "named" (definition_name set)
    helper,    \* the netd process of an instance
    dir,       \* the runtime directories on disk
    att,       \* attachment rows: machine -> instance
    link,      \* the network link in the machine directory
    vm,        \* the instance a running machine is plugged into, 0: none, None: down
    op,        \* the operation in progress on a machine
    deaths, crashes

vars == <<row, helper, dir, att, link, vm, op, deaths, crashes>>

Places == {"idle", "attachment", "instance", "detach", "count", "terminate", "remove",
           "prepare", "reuse", "discard", "spawn", "socket", "save", "attach", "unsave",
           "rollback", "launch"}

\* id is the instance the operation has read or made; running is reconcile's argument;
\* start tells whether prepare follows the reconciliation.
Operation == [pc: Places, id: Nets \cup {None}, running: BOOLEAN, start: BOOLEAN]

Idle == [pc |-> "idle", id |-> None, running |-> FALSE, start |-> FALSE]

\* A helper that has been sent SIGTERM is a process until it has exited.
process_is_alive(i) == helper[i] \in {"alive", "terminating"}

network_attachment_count(i) == Cardinality({m \in Machines : att[m] = i})

\* Deleting an instance row deletes the attachments to it.
remove_network_instance(i) ==
    /\ row' = [row EXCEPT ![i] = "absent"]
    /\ att' = [m \in Machines |-> IF att[m] = i THEN None ELSE att[m]]

Goto(m, place) == op' = [op EXCEPT ![m].pc = place]
Return(m) == op' = [op EXCEPT ![m] = Idle]

\* reconcile_network_runtime is over: a start goes on to prepare its network.
Reconciled(m) == IF op[m].start THEN Goto(m, "prepare") ELSE Return(m)

bounds == <<deaths, crashes>>

-----------------------------------------------------------------------------
(* Where operations begin *)

Enter(m, running, start) ==
    /\ op[m].pc = "idle"
    /\ op' = [op EXCEPT ![m] = [pc |-> "attachment", id |-> None, running |-> running, start |-> start]]
    /\ UNCHANGED <<row, helper, dir, att, link, bounds>>

\* start_with reconciles the network of a machine that is down and prepares a new one;
\* the reconciliation prepare_network_runtime repeats finds nothing left to do.
Start(m) == vm[m] = None /\ Enter(m, FALSE, TRUE) /\ UNCHANGED vm

\* stop_with, kill_with, wait_with, cleanup and remove, once the machine is down.
CleanUp(m) == vm[m] = None /\ Enter(m, FALSE, FALSE) /\ UNCHANGED vm

\* A refused start and the refresh of an opened runtime, on a machine that is up.
Refresh(m) == vm[m] # None /\ Enter(m, TRUE, FALSE) /\ UNCHANGED vm

VmStops(m) ==
    /\ vm[m] # None
    /\ vm' = [vm EXCEPT ![m] = None]
    /\ UNCHANGED <<row, helper, dir, att, link, op, bounds>>

-----------------------------------------------------------------------------
(* reconcile_network_runtime *)

network_attachment(m) ==
    /\ op[m].pc = "attachment"
    /\ IF att[m] = None
         THEN Reconciled(m)
         ELSE op' = [op EXCEPT ![m] = [@ EXCEPT !.pc = "instance", !.id = att[m]]]
    /\ UNCHANGED <<row, helper, dir, att, link, vm, bounds>>

\* Mutant: a running machine's instance is detached too.
network_instance_detaches(m) ==
    /\ op[m].pc = "instance"
    /\ Goto(m, "detach")
    /\ UNCHANGED <<row, helper, dir, att, link, vm, bounds>>

\* An instance that is gone is detached; one that serves a running machine is kept.
network_instance(m) ==
    /\ op[m].pc = "instance"
    /\ LET i == op[m].id
       IN  CASE row[i] = "absent" ->
                  /\ att' = [att EXCEPT ![m] = None] /\ link' = [link EXCEPT ![m] = None]
                  /\ Reconciled(m)
             [] row[i] # "absent" /\ op[m].running /\ process_is_alive(i) ->
                  /\ link' = [link EXCEPT ![m] = i] /\ UNCHANGED att
                  /\ Reconciled(m)
             [] OTHER -> Goto(m, "detach") /\ UNCHANGED <<att, link>>
    /\ UNCHANGED <<row, helper, dir, vm, bounds>>

\* Mutant: the attachment is blanked instead of deleted.
detach_network_blank(m) ==
    /\ op[m].pc = "detach"
    /\ att' = [att EXCEPT ![m] = 0] /\ link' = [link EXCEPT ![m] = None]
    /\ Goto(m, "count")
    /\ UNCHANGED <<row, helper, dir, vm, bounds>>

detach_network(m) ==
    /\ op[m].pc = "detach"
    /\ att' = [att EXCEPT ![m] = None] /\ link' = [link EXCEPT ![m] = None]
    /\ Goto(m, "count")
    /\ UNCHANGED <<row, helper, dir, vm, bounds>>

CountAttachments(m) ==
    /\ op[m].pc = "count"
    /\ IF network_attachment_count(op[m].id) = 0 THEN Goto(m, "terminate") ELSE Reconciled(m)
    /\ UNCHANGED <<row, helper, dir, att, link, vm, bounds>>

Signalled(i) == [helper EXCEPT ![i] = IF @ = "alive" THEN "terminating" ELSE @]

terminate_network_instance(m) ==
    /\ op[m].pc = "terminate"
    /\ helper' = Signalled(op[m].id)
    /\ Goto(m, "remove")
    /\ UNCHANGED <<row, dir, att, link, vm, bounds>>

RemoveInstance(m) ==
    /\ op[m].pc = "remove"
    /\ remove_network_instance(op[m].id)
    /\ dir' = dir \ {op[m].id}
    /\ Reconciled(m)
    /\ UNCHANGED <<helper, link, vm, bounds>>

-----------------------------------------------------------------------------
(* prepare_network_runtime *)

\* No policy, definition or driver for this machine: the start fails.
Refuse(m) ==
    /\ op[m].pc = "prepare"
    /\ Return(m)
    /\ UNCHANGED <<row, helper, dir, att, link, vm, bounds>>

remove_attached_network(m) ==
    /\ op[m].pc = "prepare" /\ m \in Plain
    /\ link' = [link EXCEPT ![m] = None]
    /\ Goto(m, "launch")
    /\ UNCHANGED <<row, helper, dir, att, vm, bounds>>

PreparePrivate(m) ==
    /\ op[m].pc = "prepare" /\ m \in Private
    /\ Goto(m, "spawn")
    /\ UNCHANGED <<row, helper, dir, att, link, vm, bounds>>

\* The instance of the definition is reused while its helper lives, else discarded.
network_instance_by_definition(m) ==
    /\ op[m].pc = "prepare" /\ m \in Named
    /\ LET found == {i \in Nets : row[i] = "named"}
       IN  IF found = {} THEN Goto(m, "spawn")
           ELSE \E i \in found : op' = [op EXCEPT ![m] = [@ EXCEPT !.id = i,
                                    !.pc = IF process_is_alive(i) THEN "reuse" ELSE "discard"]]
    /\ UNCHANGED <<row, helper, dir, att, link, vm, bounds>>

\* The foreign key refuses an instance that is gone by now; the link stays.
attach_existing_runtime(m) ==
    /\ op[m].pc = "reuse"
    /\ link' = [link EXCEPT ![m] = op[m].id]
    /\ \/ row[op[m].id] # "absent" /\ att' = [att EXCEPT ![m] = op[m].id] /\ Goto(m, "launch")
       \/ (row[op[m].id] = "absent" \/ StoreFails) /\ Return(m) /\ UNCHANGED att
    /\ UNCHANGED <<row, helper, dir, vm, bounds>>

DiscardInstance(m) ==
    /\ op[m].pc = "discard"
    /\ remove_network_instance(op[m].id)
    /\ dir' = dir \ {op[m].id}
    /\ Goto(m, "spawn")
    /\ UNCHANGED <<helper, link, vm, bounds>>

\* The directory, the link and the helper of a fresh instance, or a failure before the
\* helper runs, which the guard takes back.
SpawnHelper(m) ==
    /\ op[m].pc = "spawn"
    /\ \/ \E i \in Nets :
             /\ helper[i] = "none" /\ \A j \in 1..(i - 1) : helper[j] # "none"
             /\ helper' = [helper EXCEPT ![i] = "alive"]
             /\ dir' = dir \cup {i} /\ link' = [link EXCEPT ![m] = i]
             /\ op' = [op EXCEPT ![m] = [@ EXCEPT !.pc = "socket", !.id = i]]
       \/ link' = [link EXCEPT ![m] = None] /\ Return(m) /\ UNCHANGED <<helper, dir>>
    /\ UNCHANGED <<row, att, vm, bounds>>

\* The helper creates its socket; or it exits, or is not ready after five seconds.
wait_for_netd_startup(m) ==
    /\ op[m].pc = "socket"
    /\ Goto(m, "save") \/ Goto(m, "rollback")
    /\ UNCHANGED <<row, helper, dir, att, link, vm, bounds>>

\* Mutant: the schema does not keep definition names unique.
save_network_instance_any(m) ==
    /\ op[m].pc = "save"
    /\ row' = [row EXCEPT ![op[m].id] = IF m \in Named THEN "named" ELSE "private"]
    /\ Goto(m, "attach")
    /\ UNCHANGED <<helper, dir, att, link, vm, bounds>>

\* The unique index admits one row per definition; a row refused is rolled back.
save_network_instance(m) ==
    /\ op[m].pc = "save"
    /\ LET taken == m \in Named /\ \E i \in Nets : row[i] = "named"
       IN
       \/ /\ ~ taken
          /\ row' = [row EXCEPT ![op[m].id] = IF m \in Named THEN "named" ELSE "private"]
          /\ Goto(m, "attach")
       \/ (taken \/ StoreFails) /\ Goto(m, "rollback") /\ UNCHANGED row
    /\ UNCHANGED <<helper, dir, att, link, vm, bounds>>

attach_network(m) ==
    /\ op[m].pc = "attach"
    /\ \/ /\ row[op[m].id] # "absent"
          /\ att' = [att EXCEPT ![m] = op[m].id]
          /\ Goto(m, "launch")
       \/ (row[op[m].id] = "absent" \/ StoreFails) /\ Goto(m, "unsave") /\ UNCHANGED att
    /\ UNCHANGED <<row, helper, dir, link, vm, bounds>>

\* The row goes with the attachments others have made by now; the removal may fail too.
UnsaveInstance(m) ==
    /\ op[m].pc = "unsave"
    /\ \/ remove_network_instance(op[m].id)
       \/ StoreFails /\ UNCHANGED <<row, att>>
    /\ Goto(m, "rollback")
    /\ UNCHANGED <<helper, dir, link, vm, bounds>>

\* Mutant: the guard removes the files and lets the helper run.
NetdStartupGuard_keeps(m) ==
    /\ op[m].pc = "rollback"
    /\ link' = [link EXCEPT ![m] = None] /\ dir' = dir \ {op[m].id}
    /\ Return(m)
    /\ UNCHANGED <<row, helper, att, vm, bounds>>

\* The guard is dropped: the helper is killed and reaped, link and directory removed.
NetdStartupGuard(m) ==
    /\ op[m].pc = "rollback"
    /\ helper' = [helper EXCEPT ![op[m].id] = IF @ = "crashed" THEN @ ELSE "gone"]
    /\ link' = [link EXCEPT ![m] = None] /\ dir' = dir \ {op[m].id}
    /\ Return(m)
    /\ UNCHANGED <<row, att, vm, bounds>>

\* The rest of start_with: the machine comes up on the network, or it does not and keeps
\* the attachment until the next reconciliation.
Launch(m) ==
    /\ op[m].pc = "launch"
    /\ \/ vm' = [vm EXCEPT ![m] = IF m \in Plain THEN 0 ELSE op[m].id]
       \/ UNCHANGED vm
    /\ Return(m)
    /\ UNCHANGED <<row, helper, dir, att, link, bounds>>

-----------------------------------------------------------------------------
(* Helpers and crashes *)

HelperExits(i) ==
    /\ helper[i] = "terminating"
    /\ helper' = [helper EXCEPT ![i] = "gone"]
    /\ UNCHANGED <<row, dir, att, link, vm, op, bounds>>

HelperDies(i) ==
    /\ helper[i] = "alive" /\ deaths < MaxDeaths
    /\ deaths' = deaths + 1
    /\ helper' = [helper EXCEPT ![i] = "crashed"]
    /\ UNCHANGED <<row, dir, att, link, vm, op, crashes>>

\* The caller is killed: its startup guard does not run and a helper lives on.
Crash(m) ==
    /\ op[m].pc # "idle" /\ crashes < MaxCrashes
    /\ crashes' = crashes + 1
    /\ Return(m)
    /\ UNCHANGED <<row, helper, dir, att, link, vm, deaths>>

-----------------------------------------------------------------------------
Init ==
    /\ row = [i \in Nets |-> "absent"] /\ helper = [i \in Nets |-> "none"]
    /\ dir = {}
    /\ att = [m \in Machines |-> None] /\ link = [m \in Machines |-> None]
    /\ vm = [m \in Machines |-> None]
    /\ op = [m \in Machines |-> Idle]
    /\ deaths = 0 /\ crashes = 0

Step(m) ==
    \/ network_attachment(m) \/ network_instance(m) \/ detach_network(m)
    \/ CountAttachments(m) \/ terminate_network_instance(m) \/ RemoveInstance(m)
    \/ Refuse(m) \/ remove_attached_network(m) \/ PreparePrivate(m)
    \/ network_instance_by_definition(m) \/ attach_existing_runtime(m)
    \/ DiscardInstance(m) \/ SpawnHelper(m) \/ wait_for_netd_startup(m)
    \/ save_network_instance(m) \/ attach_network(m) \/ UnsaveInstance(m)
    \/ NetdStartupGuard(m) \/ Launch(m)

Next ==
    \/ \E m \in Machines : Start(m) \/ CleanUp(m) \/ Refresh(m) \/ VmStops(m)
    \/ \E m \in Machines : Step(m) \/ Crash(m)
    \/ \E i \in Nets : HelperExits(i) \/ HelperDies(i)

Spec == Init /\ [][Next]_vars

-----------------------------------------------------------------------------
(* Properties *)

\* Type invariant of the rows, the helpers and the operations.
TypeOK ==
    /\ row \in [Nets -> {"absent", "private", "named"}]
    /\ helper \in [Nets -> {"none", "alive", "terminating", "gone", "crashed"}]
    /\ dir \subseteq Nets
    /\ att \in [Machines -> Nets \cup {None}] /\ link \in [Machines -> Nets \cup {None}]
    /\ vm \in [Machines -> Nets \cup {0, None}]
    /\ op \in [Machines -> Operation]
    /\ deaths \in 0..MaxDeaths /\ crashes \in 0..MaxCrashes

\* Two machines that run on the named network are plugged into the same helper, even when
\* both started at once, a helper died or a caller was killed in between.  It takes a
\* store that answers: a failed attachment takes back the row others have found.
SameNetwork ==
    \A m, n \in Named :
        vm[m] \in Nets /\ vm[n] \in Nets /\ helper[vm[m]] = "alive" /\ helper[vm[n]] = "alive"
        => vm[m] = vm[n]

\* No helper is left behind by calls that run to their end: once they are over, a helper
\* that lives has its row and directory, and a machine attached to it.
NothingLeaks ==
    crashes = 0 /\ (\A m \in Machines : op[m].pc = "idle") =>
        \A i \in Nets : helper[i] = "alive" =>
            row[i] # "absent" /\ i \in dir /\ \E m \in Machines : att[m] = i

\* Nobody but its own machine's operations takes a private network down: while the
\* machine runs its helper is up, unless it died by itself, and the row says so.
PrivateNetworkHeld ==
    \A m \in Private : vm[m] # None =>
        /\ helper[vm[m]] \in {"alive", "crashed"}
        /\ helper[vm[m]] = "alive" => att[m] = vm[m] /\ row[vm[m]] = "private"

\* The instance of a running machine stays, whatever the machines that share it do: its
\* helper was not sent away and its runtime directory is there.
SharedInstanceStays ==
    \A m \in Named : vm[m] \in Nets /\ helper[vm[m]] # "crashed" =>
        helper[vm[m]] = "alive" /\ vm[m] \in dir
=============================================================================
