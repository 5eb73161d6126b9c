------------------------ MODULE NetworkRuntimeProofs ------------------------
(* Proofs about NetworkRuntime, for any number of machines of each kind, of network instances, of
   helpers that die and of callers that are killed. *)
EXTENDS NetworkRuntime, FiniteSetTheorems, TLAPS

\* Places where the operation has an instance in hand: one it found, or one it made.
Finding == {"instance", "detach", "count", "terminate", "remove", "reuse", "discard"}
Making == {"socket", "save", "attach", "unsave", "rollback"}

\* The operation, the attachment row or the running machine of m names instance i.
Uses(m, i) ==
    \/ att[m] = i \/ vm[m] = i
    \/ op[m].id = i /\ op[m].pc \in Finding \cup Making \cup {"launch"}

\* What an operation knows, by where it is.  A reconciliation for a running machine prepares
\* nothing; a machine without a helper has nothing to reconcile; what is about to be removed is dead.
OpOK(m) ==
    /\ m \in Plain => op[m].id = None
    /\ op[m].pc \in Finding \cup Making => op[m].id \in Nets /\ m \notin Plain
    /\ op[m].pc = "launch" /\ m \notin Plain => op[m].id \in Nets
    /\ op[m].pc \in {"instance", "detach"} => att[m] \in {op[m].id, None}
    /\ op[m].pc \in (Finding \cup Making \cup {"prepare", "spawn"}) \ {"instance", "detach"} => att[m] = None
    /\ op[m].running => ~ op[m].start
    /\ op[m].pc = "reuse" => m \in Named
    /\ op[m].pc = "spawn" => m \notin Plain
    /\ op[m].pc \in {"prepare", "spawn", "reuse", "discard", "launch"} \cup Making => op[m].start
    /\ op[m].pc \in {"remove", "discard"} => helper[op[m].id] # "alive"

\* The foreign key; and an instance nobody has made is named by nothing.
RowInv ==
    /\ \A m \in Machines : att[m] # None => row[att[m]] # "absent" /\ m \notin Plain
    /\ \A i \in Nets : helper[i] = "none" =>
          row[i] = "absent" /\ \A m \in Machines : att[m] # i /\ vm[m] # i /\ op[m].id # i

\* A private machine has no named instance, and a named machine no private one.
KindInv ==
    \A m \in Machines, i \in Nets : Uses(m, i) =>
        /\ m \in Private => row[i] # "named"
        /\ m \in Named => row[i] # "private"

\* What a private machine uses nobody else does, and an instance is made once.
OwnInv ==
    \A m, n \in Machines, i \in Nets : m # n =>
        /\ m \in Private => ~ (Uses(m, i) /\ Uses(n, i))
        /\ ~ (op[m].pc \in Making /\ op[n].pc \in Making /\ op[m].id = i /\ op[n].id = i)

\* While a private machine runs, the only operation on it is a reconciliation that keeps what
\* lives; the network of a machine about to run is what the operation made.
HeldOK(m) ==
    /\ vm[m] # None =>
          /\ vm[m] \in Nets /\ helper[vm[m]] \in {"alive", "crashed"}
          /\ helper[vm[m]] = "alive" => att[m] = vm[m] /\ row[vm[m]] = "private"
          /\ att[m] \in {vm[m], None}
          /\ op[m].pc \in Finding => op[m].id = vm[m]
          /\ op[m].pc \in Finding \ {"instance"} => helper[vm[m]] = "crashed"
          /\ op[m].pc # "idle" => op[m].running
    /\ op[m].pc \in Making \cup {"launch"} => helper[op[m].id] \in {"alive", "crashed"}
    /\ op[m].pc \in {"attach", "unsave", "launch"} => row[op[m].id] = "private"
    /\ op[m].pc = "launch" => att[m] = op[m].id

\* Somebody answers for every helper that lives: a machine attached to it, or an operation that is
\* about to take it down or to attach to it.
LeakInv ==
    \A i \in Nets : helper[i] = "alive" =>
        /\ i \in dir
        /\ crashes = 0 => \E m \in Machines : \/ att[m] = i
                                              \/ op[m].id = i /\ op[m].pc \in Making \cup {"count", "terminate"}

\* Where the store answers, a live instance that a machine runs on, or is about to, is the one
\* the definition's row names.
SameInv ==
    /\ \A i, j \in Nets : row[i] = "named" /\ row[j] = "named" => i = j
    /\ ~ StoreFails =>
          /\ \A m \in Machines : op[m].pc = "unsave" => row[op[m].id] = "absent"
          /\ \A m \in Named, i \in Nets :
                /\ vm[m] = i \/ (op[m].pc \in {"attach", "launch"} /\ op[m].id = i)
                /\ helper[i] = "alive"
                => row[i] = "named"

IInv ==
    /\ TypeOK /\ RowInv /\ KindInv /\ OwnInv /\ LeakInv /\ SameInv
    /\ \A m \in Machines : OpOK(m)
    /\ \A m \in Private : HeldOK(m)

-----------------------------------------------------------------------------
(* The kinds of step *)

\* An operation moves on, and keeps what it has in hand.
LEMMA GotoFacts ==
    ASSUME TypeOK, NEW m \in Machines, NEW place \in Places, Goto(m, place)
    PROVE  /\ op' \in [Machines -> Operation]
           /\ op'[m].pc = place /\ op'[m].id = op[m].id
           /\ op'[m].running = op[m].running /\ op'[m].start = op[m].start
           /\ \A n \in Machines : n # m => op'[n] = op[n]
BY ZenonT(60) DEF TypeOK, Goto, Operation

\* An operation is over.
LEMMA ReturnFacts ==
    ASSUME TypeOK, NEW m \in Machines, Return(m)
    PROVE  /\ op' \in [Machines -> Operation]
           /\ op'[m].pc = "idle" /\ op'[m].id = None
           /\ op'[m].running = FALSE /\ op'[m].start = FALSE
           /\ \A n \in Machines : n # m => op'[n] = op[n]
BY Zenon DEF TypeOK, Return, Idle, Operation, Places

\* The places by their groups.
LEMMA PlaceFacts ==
    /\ "idle" \notin Finding \cup Making \cup {"launch"}
    /\ \A p \in {"attachment", "prepare", "spawn"} : p \notin Finding \cup Making \cup {"launch"}
    /\ "launch" \notin Finding \cup Making
BY Zenon DEF Finding, Making

\* An operation changes nothing but its own place and what it has in hand.
LEMMA OpStep ==
    ASSUME IInv, NEW m \in Machines, UNCHANGED <<row, helper, dir, att, vm, deaths>>,
           link' \in [Machines -> Nets \cup {None}], crashes' \in 0..MaxCrashes, crashes' = 0 => crashes = 0,
           op' \in [Machines -> Operation], \A n \in Machines : n # m => op'[n] = op[n],
           OpOK(m)', m \in Private => HeldOK(m)',
           op'[m].id \in {op[m].id, None} \/ helper[op'[m].id] # "none",
           \A i \in Nets : Uses(m, i)' => Uses(m, i) \/ (m \in Named /\ row[i] = "named"),
           op'[m].pc \in Making => op[m].pc \in Making /\ op'[m].id = op[m].id,
           /\ crashes' = 0 /\ op[m].pc \in Making \cup {"count", "terminate"} /\ helper[op[m].id] = "alive"
           => \/ op'[m].id = op[m].id /\ op'[m].pc \in Making \cup {"count", "terminate"}
              \/ \E n \in Machines : att[n] = op[m].id,
           ~ StoreFails => /\ op'[m].pc = "unsave" => row[op'[m].id] = "absent"
                           /\ /\ m \in Named /\ op'[m].pc \in {"attach", "launch"}
                              /\ helper[op'[m].id] = "alive"
                              => row[op'[m].id] = "named"
    PROVE  IInv'
<1>1. TypeOK'
  BY Zenon DEF IInv, TypeOK
<1>2. RowInv'
  BY NetworkAssumption DEF IInv, RowInv
<1>3. KindInv'
  <2>1. \A n \in Machines, i \in Nets : n # m => (Uses(n, i)' <=> Uses(n, i))
    BY Zenon DEF Uses
  <2>2. m \in Named => m \notin Private
    BY NetworkAssumption, Zenon
  <2> QED BY <2>1, <2>2, ZenonT(60) DEF IInv, KindInv
<1>4. OwnInv'
  <2>1. \A n \in Machines, i \in Nets : n # m => (Uses(n, i)' <=> Uses(n, i))
    BY Zenon DEF Uses
  <2>2. \A n \in Private, i \in Nets : Uses(n, i) => row[i] # "named"
    BY Zenon DEF IInv, KindInv, Machines
  <2>3. m \in Named => m \notin Private
    BY NetworkAssumption, Zenon
  <2>4. ASSUME NEW n \in Machines, NEW k \in Machines, NEW i \in Nets, n # k, n \in Private,
               Uses(n, i)', Uses(k, i)'
        PROVE  FALSE
    <3>1. CASE n = m
      BY <2>1, <2>3, <2>4, <3>1, ZenonT(60) DEF IInv, OwnInv
    <3>2. CASE k = m
      BY <2>1, <2>2, <2>4, <3>2 DEF IInv, OwnInv
    <3>3. CASE n # m /\ k # m
      BY <2>1, <2>4, <3>3, Zenon DEF IInv, OwnInv
    <3> QED BY <3>1, <3>2, <3>3, Zenon
  <2>5. ASSUME NEW n \in Machines, NEW k \in Machines, NEW i \in Nets, n # k,
               op'[n].pc \in Making, op'[k].pc \in Making, op'[n].id = i, op'[k].id = i
        PROVE  FALSE
    BY <2>5 DEF IInv, OwnInv
  <2> QED BY <2>4, <2>5, Zenon DEF OwnInv
<1>5. LeakInv'
  <2> SUFFICES ASSUME NEW i \in Nets, helper[i] = "alive"
               PROVE  /\ i \in dir
                      /\ crashes' = 0 => \E n \in Machines : \/ att[n] = i
                                                             \/ /\ op'[n].id = i
                                                                /\ op'[n].pc \in Making \cup {"count", "terminate"}
    BY DEF LeakInv
  <2>1. i \in dir
    BY Zenon DEF IInv, LeakInv
  <2>2. ASSUME crashes' = 0
        PROVE  \E n \in Machines : att[n] = i \/ (op'[n].id = i /\ op'[n].pc \in Making \cup {"count", "terminate"})
    <3>1. PICK n \in Machines : att[n] = i \/ (op[n].id = i /\ op[n].pc \in Making \cup {"count", "terminate"})
      BY <2>2, Zenon DEF IInv, LeakInv
    <3> QED BY <2>2, <3>1, ZenonT(60)
  <2> QED BY <2>1, <2>2, Zenon
<1>6. SameInv'
  <2>1. \A i, j \in Nets : row'[i] = "named" /\ row'[j] = "named" => i = j
    BY ZenonT(60) DEF IInv, SameInv
  <2>2. ASSUME ~ StoreFails, NEW n \in Machines, op'[n].pc = "unsave" PROVE row'[op'[n].id] = "absent"
    BY <2>2, ZenonT(60) DEF IInv, SameInv
  <2>3. ASSUME ~ StoreFails, NEW n \in Named, NEW i \in Nets, helper'[i] = "alive",
               vm'[n] = i \/ (op'[n].pc \in {"attach", "launch"} /\ op'[n].id = i)
        PROVE  row'[i] = "named"
    BY <2>3, SMTT(60) DEF IInv, SameInv, Machines
  <2> QED BY <2>1, <2>2, <2>3, ZenonT(60) DEF SameInv
<1>7. \A n \in Machines : OpOK(n)'
  BY SMTT(60) DEF IInv, OpOK
<1>8. \A n \in Private : HeldOK(n)'
  BY DEF IInv, HeldOK, Machines
<1> QED BY <1>1, <1>2, <1>3, <1>4, <1>5, <1>6, <1>7, <1>8, Zenon DEF IInv

\* An operation returns or is killed, and nobody else has to answer for what it made.
LEMMA ReturnStep ==
    ASSUME IInv, NEW m \in Machines, Return(m), UNCHANGED <<row, helper, dir, att, vm, deaths>>,
           link' \in [Machines -> Nets \cup {None}], crashes' \in 0..MaxCrashes, crashes' = 0 => crashes = 0,
           crashes' = 0 /\ op[m].pc \in Making \cup {"count", "terminate"} /\ helper[op[m].id] = "alive"
           => \E n \in Machines : att[n] = op[m].id
    PROVE  IInv'
<1>1. /\ op' \in [Machines -> Operation] /\ op'[m].pc = "idle" /\ op'[m].id = None
      /\ op'[m].running = FALSE /\ op'[m].start = FALSE
      /\ \A n \in Machines : n # m => op'[n] = op[n]
  BY ReturnFacts, ZenonT(60) DEF IInv
<1>2. OpOK(m)'
  BY <1>1, PlaceFacts, ZenonT(60) DEF OpOK, Finding, Making
<1>3. m \in Private => HeldOK(m)'
  BY <1>1, PlaceFacts, ZenonT(60) DEF IInv, HeldOK, Finding, Making
<1>4. \A i \in Nets : Uses(m, i)' => Uses(m, i)
  BY <1>1, NetworkAssumption, ZenonT(60) DEF Uses
<1> QED BY <1>1, <1>2, <1>3, <1>4, PlaceFacts, OpStep, Zenon DEF Making

\* Where operations begin.
LEMMA EnterSteps ==
    ASSUME IInv, NEW m \in Machines, Start(m) \/ CleanUp(m) \/ Refresh(m)
    PROVE  IInv'
<1>1. PICK running \in BOOLEAN, start \in BOOLEAN :
          /\ Enter(m, running, start) /\ (running => ~ start) /\ (vm[m] # None => running) /\ vm' = vm
  BY Zenon DEF Start, CleanUp, Refresh
<1>2. /\ op' \in [Machines -> Operation] /\ op'[m].pc = "attachment" /\ op'[m].id = None
      /\ op'[m].running = running /\ op'[m].start = start
      /\ \A n \in Machines : n # m => op'[n] = op[n]
  BY <1>1, ZenonT(60) DEF Enter, IInv, TypeOK, Operation, Places
<1>3. UNCHANGED <<row, helper, dir, att, link, vm, deaths, crashes>> /\ op[m].pc = "idle"
  BY <1>1, ZenonT(60) DEF Enter, bounds
<1>4. OpOK(m)'
  BY <1>1, <1>2, ZenonT(60) DEF OpOK, Finding, Making
<1>5. m \in Private => HeldOK(m)'
  BY <1>1, <1>2, <1>3 DEF IInv, HeldOK, Finding, Making
<1>6. \A i \in Nets : Uses(m, i)' => Uses(m, i)
  BY <1>2, <1>3, Zenon DEF Uses, Finding, Making
<1>7. link' \in [Machines -> Nets \cup {None}] /\ crashes' \in 0..MaxCrashes
  BY <1>3, Zenon DEF IInv, TypeOK
<1> QED BY <1>2, <1>3, <1>4, <1>5, <1>6, <1>7, PlaceFacts, OpStep, ZenonT(60) DEF Making

\* An operation moves on with what it has in hand, or forgets it.
LEMMA GotoStep ==
    ASSUME IInv, NEW m \in Machines, NEW place \in Places, Goto(m, place),
           UNCHANGED <<row, helper, dir, att, vm, deaths, crashes>>,
           link' \in [Machines -> Nets \cup {None}],
           OpOK(m)', m \in Private => HeldOK(m)',
           place \in Finding \cup Making \cup {"launch"} =>
              op[m].pc \in Finding \cup Making \cup {"launch"} \/ op[m].id = None,
           place \in Making => op[m].pc \in Making,
           /\ op[m].pc \in Making \cup {"count", "terminate"} /\ helper[op[m].id] = "alive"
           => place \in Making \cup {"count", "terminate"} \/ \E n \in Machines : att[n] = op[m].id,
           ~ StoreFails => /\ place = "unsave" => row[op[m].id] = "absent"
                           /\ /\ m \in Named /\ place \in {"attach", "launch"} /\ helper[op[m].id] = "alive"
                              => row[op[m].id] = "named"
    PROVE  IInv'
<1>1. /\ op' \in [Machines -> Operation] /\ op'[m].pc = place /\ op'[m].id = op[m].id
      /\ \A n \in Machines : n # m => op'[n] = op[n]
  BY GotoFacts, ZenonT(60) DEF IInv
<1>2. \A i \in Nets : Uses(m, i)' => Uses(m, i)
  BY <1>1, NetworkAssumption, ZenonT(60) DEF Uses
<1>3. crashes' \in 0..MaxCrashes
  BY Zenon DEF IInv, TypeOK
<1> QED BY <1>1, <1>2, <1>3, OpStep, ZenonT(60)

\* reconcile_network_runtime is over.
LEMMA ReconciledStep ==
    ASSUME IInv, NEW m \in Machines, Reconciled(m), UNCHANGED <<row, helper, dir, att, vm, deaths, crashes>>,
           link' \in [Machines -> Nets \cup {None}], op[m].pc \in Finding \cup {"attachment"},
           op[m].start => att[m] = None,
           op[m].pc \in {"count", "terminate"} /\ helper[op[m].id] = "alive"
           => \E n \in Machines : att[n] = op[m].id
    PROVE  IInv'
<1>1. op[m].pc \notin Making /\ TypeOK /\ OpOK(m)
  BY Zenon DEF Finding, Making, IInv
<1>2. CASE op[m].start
  <2>1. Goto(m, "prepare")
    BY <1>2, ZenonT(60) DEF Reconciled
  <2>2. /\ op'[m].pc = "prepare" /\ op'[m].id = op[m].id
        /\ op'[m].running = op[m].running /\ op'[m].start = op[m].start
    BY <1>1, <2>1, GotoFacts, ZenonT(60) DEF Places
  <2>3. OpOK(m)'
    BY <1>1, <1>2, <2>2, ZenonT(60) DEF OpOK, Finding, Making
  <2>4. m \in Private => vm[m] = None
    BY <1>1, <1>2, ZenonT(60) DEF IInv, HeldOK, OpOK, Finding
  <2>5. m \in Private => HeldOK(m)'
    BY <2>2, <2>4, ZenonT(60) DEF HeldOK, Finding, Making
  <2> QED BY <1>1, <2>1, <2>3, <2>5, GotoStep, ZenonT(60) DEF Finding, Making, Places
<1>3. CASE ~ op[m].start
  <2>1. Return(m) /\ crashes' \in 0..MaxCrashes
    BY <1>1, <1>3, ZenonT(60) DEF Reconciled, TypeOK
  <2> QED BY <1>1, <2>1, ReturnStep, ZenonT(60)
<1> QED BY <1>2, <1>3, ZenonT(60)

-----------------------------------------------------------------------------
(* The steps *)

\* network_attachment: nothing to reconcile, or the instance of the machine.
LEMMA AttachmentStep ==
    ASSUME IInv, NEW m \in Machines, network_attachment(m)
    PROVE  IInv'
<1>0. /\ UNCHANGED <<row, helper, dir, att, link, vm, deaths, crashes>> /\ op[m].pc = "attachment"
      /\ TypeOK /\ OpOK(m) /\ link' \in [Machines -> Nets \cup {None}] /\ crashes' \in 0..MaxCrashes
  BY Zenon DEF network_attachment, bounds, IInv, TypeOK
<1>1. CASE att[m] = None
  BY <1>0, <1>1, ReconciledStep, ZenonT(60) DEF network_attachment
<1>2. CASE att[m] # None
  <2>1. att[m] \in Nets /\ m \notin Plain /\ helper[att[m]] # "none"
    BY <1>0, <1>2, ZenonT(60) DEF IInv, TypeOK, RowInv
  <2>2. op' = [op EXCEPT ![m] = [op[m] EXCEPT !.pc = "instance", !.id = att[m]]] /\ op[m] \in Operation
    BY <1>0, <1>2, Zenon DEF network_attachment, TypeOK
  <2>3. /\ op' \in [Machines -> Operation] /\ op'[m].pc = "instance" /\ op'[m].id = att[m]
        /\ op'[m].running = op[m].running /\ op'[m].start = op[m].start
        /\ \A n \in Machines : n # m => op'[n] = op[n]
    BY <1>0, <2>2, <2>1, ZenonT(60) DEF TypeOK, Operation, Places
  <2>4. OpOK(m)'
    BY <1>0, <2>3, <2>1, ZenonT(60) DEF OpOK, Finding, Making
  <2>5. m \in Private => HeldOK(m)'
    BY <1>0, <1>2, <2>3, ZenonT(60) DEF IInv, HeldOK, Finding, Making
  <2>6. \A i \in Nets : Uses(m, i)' => Uses(m, i)
    BY <1>0, <2>3, ZenonT(60) DEF Uses
  <2> QED BY <1>0, <2>3, <2>1, <2>4, <2>5, <2>6, OpStep, ZenonT(60) DEF Finding, Making
<1> QED BY <1>1, <1>2, ZenonT(60)

\* network_instance: a foreign key leaves no attachment to an instance that is gone.
LEMMA InstanceStep ==
    ASSUME IInv, NEW m \in Machines, network_instance(m)
    PROVE  IInv'
<1>0. /\ UNCHANGED <<row, helper, dir, vm, deaths, crashes>> /\ op[m].pc = "instance" /\ op[m].pc \in Finding
      /\ TypeOK /\ OpOK(m) /\ op[m].id \in Nets /\ m \notin Plain /\ att[m] \in {op[m].id, None}
  BY Zenon DEF network_instance, bounds, IInv, OpOK, Finding
<1>1. CASE row[op[m].id] = "absent"
  <2>1. att[m] = None
    BY <1>0, <1>1, ZenonT(60) DEF IInv, RowInv
  <2>2. att' = att /\ link' \in [Machines -> Nets \cup {None}] /\ Reconciled(m)
    BY <1>0, <1>1, <2>1, ZenonT(60) DEF network_instance, TypeOK
  <2> QED BY <1>0, <2>1, <2>2, ReconciledStep, ZenonT(60)
<1>2. CASE row[op[m].id] # "absent" /\ op[m].running /\ process_is_alive(op[m].id)
  <2>1. att' = att /\ link' \in [Machines -> Nets \cup {None}] /\ Reconciled(m) /\ ~ op[m].start
    BY <1>0, <1>2, ZenonT(60) DEF network_instance, TypeOK, OpOK
  <2> QED BY <1>0, <2>1, ReconciledStep, Zenon
<1>3. CASE row[op[m].id] # "absent" /\ ~ (op[m].running /\ process_is_alive(op[m].id))
  <2>1. att' = att /\ link' = link /\ Goto(m, "detach") /\ link' \in [Machines -> Nets \cup {None}]
    BY <1>0, <1>3, Zenon DEF network_instance, TypeOK
  <2>2. /\ op'[m].pc = "detach" /\ op'[m].id = op[m].id
        /\ op'[m].running = op[m].running /\ op'[m].start = op[m].start
    BY <1>0, <2>1, GotoFacts, ZenonT(60) DEF Places
  <2>3. OpOK(m)'
    BY <1>0, <2>1, <2>2, ZenonT(60) DEF OpOK, Finding, Making
  <2>4. m \in Private => HeldOK(m)'
    BY <1>0, <1>3, <2>1, <2>2 DEF IInv, HeldOK, Finding, Making, process_is_alive
  <2> QED BY <1>0, <2>1, <2>3, <2>4, GotoStep, ZenonT(60) DEF Finding, Making, Places
<1> QED BY <1>1, <1>2, <1>3, ZenonT(60)

\* The attachments are counted: whoever is attached answers for the helper.
LEMMA CountStep ==
    ASSUME IInv, NEW m \in Machines, CountAttachments(m)
    PROVE  IInv'
<1>0. /\ UNCHANGED <<row, helper, dir, att, link, vm, deaths, crashes>> /\ op[m].pc = "count" /\ op[m].pc \in Finding
      /\ TypeOK /\ OpOK(m) /\ op[m].id \in Nets /\ m \notin Plain /\ att[m] = None
      /\ link' \in [Machines -> Nets \cup {None}]
  BY Zenon DEF CountAttachments, bounds, IInv, OpOK, Finding, TypeOK
<1>1. CASE network_attachment_count(op[m].id) = 0
  <2>1. Goto(m, "terminate")
    BY <1>1, Zenon DEF CountAttachments
  <2>2. /\ op'[m].pc = "terminate" /\ op'[m].id = op[m].id
        /\ op'[m].running = op[m].running /\ op'[m].start = op[m].start
    BY <1>0, <2>1, GotoFacts, ZenonT(60) DEF Places
  <2>3. OpOK(m)'
    BY <1>0, <2>2, ZenonT(60) DEF OpOK, Finding, Making
  <2>4. m \in Private => HeldOK(m)'
    BY <1>0, <2>2, ZenonT(60) DEF IInv, HeldOK, Finding, Making
  <2> QED BY <1>0, <2>1, <2>3, <2>4, GotoStep, Zenon DEF Finding, Making, Places
<1>2. CASE network_attachment_count(op[m].id) # 0
  <2>1. \E n \in Machines : att[n] = op[m].id
    BY <1>2, FS_EmptySet, Zenon DEF network_attachment_count
  <2>2. Reconciled(m)
    BY <1>2, Zenon DEF CountAttachments
  <2> QED BY <1>0, <2>1, <2>2, ReconciledStep, ZenonT(60)
<1> QED BY <1>1, <1>2, Zenon

\* prepare_network_runtime, until it takes an instance in hand.
LEMMA PrepareSteps ==
    ASSUME IInv, NEW m \in Machines,
           Refuse(m) \/ remove_attached_network(m) \/ PreparePrivate(m) \/ network_instance_by_definition(m)
    PROVE  IInv'
<1>0. /\ UNCHANGED <<row, helper, dir, att, vm, deaths, crashes>> /\ op[m].pc = "prepare"
      /\ TypeOK /\ OpOK(m) /\ att[m] = None /\ op[m].start /\ ~ op[m].running
      /\ link' \in [Machines -> Nets \cup {None}] /\ crashes' \in 0..MaxCrashes
  BY ZenonT(60) DEF Refuse, remove_attached_network, PreparePrivate, network_instance_by_definition, bounds, IInv, OpOK, TypeOK
<1>1. m \in Private => vm[m] = None
  BY <1>0, Zenon DEF IInv, HeldOK
<1>2. CASE Refuse(m)
  BY <1>0, <1>2, ReturnStep, Zenon DEF Refuse, Making
<1>3. CASE remove_attached_network(m)
  <2>1. Goto(m, "launch") /\ m \in Plain /\ m \notin Private /\ m \notin Named
    BY <1>3, NetworkAssumption, Zenon DEF remove_attached_network
  <2>2. /\ op' \in [Machines -> Operation] /\ op'[m].pc = "launch" /\ op'[m].id = op[m].id
        /\ op'[m].running = op[m].running /\ op'[m].start = op[m].start
        /\ \A n \in Machines : n # m => op'[n] = op[n]
    BY <1>0, <2>1, GotoFacts, ZenonT(60) DEF Places
  <2>3. OpOK(m)'
    BY <1>0, <2>1, <2>2, ZenonT(60) DEF OpOK, Finding, Making
  <2>4. op[m].id = None
    BY <1>0, <2>1, ZenonT(60) DEF IInv, OpOK
  <2> QED BY <1>0, <2>1, <2>3, <2>4, GotoStep, ZenonT(60) DEF Finding, Making, Places
<1>4. ASSUME Goto(m, "spawn"), m \notin Plain PROVE IInv'
  <2>1. /\ op'[m].pc = "spawn" /\ op'[m].id = op[m].id
        /\ op'[m].running = op[m].running /\ op'[m].start = op[m].start
    BY <1>0, <1>4, GotoFacts, ZenonT(60) DEF Places
  <2>2. OpOK(m)' /\ (m \in Private => HeldOK(m)')
    BY <1>0, <1>1, <1>4, <2>1, ZenonT(60) DEF OpOK, HeldOK, Finding, Making
  <2> QED BY <1>0, <1>4, <2>2, GotoStep, ZenonT(60) DEF Finding, Making, Places
<1>5. CASE PreparePrivate(m)
  BY <1>4, <1>5, NetworkAssumption, ZenonT(60) DEF PreparePrivate
<1>6. CASE network_instance_by_definition(m)
  <2>0. m \in Named /\ m \notin Plain /\ m \notin Private
    BY <1>6, NetworkAssumption, Zenon DEF network_instance_by_definition
  <2>1. CASE {i \in Nets : row[i] = "named"} = {}
    BY <1>4, <1>6, <2>0, <2>1, ZenonT(60) DEF network_instance_by_definition
  <2>2. CASE {i \in Nets : row[i] = "named"} # {}
    <3>1. PICK i \in Nets :
              /\ row[i] = "named"
              /\ op' = [op EXCEPT ![m] = [@ EXCEPT !.id = i, !.pc = IF process_is_alive(i) THEN "reuse" ELSE "discard"]]
      BY <1>6, <2>2, Zenon DEF network_instance_by_definition
    <3>2. /\ op' \in [Machines -> Operation] /\ op'[m].id = i
          /\ op'[m].pc = (IF process_is_alive(i) THEN "reuse" ELSE "discard")
          /\ op'[m].running = op[m].running /\ op'[m].start = op[m].start
          /\ \A n \in Machines : n # m => op'[n] = op[n]
      BY <1>0, <3>1, ZenonT(60) DEF TypeOK, Operation, Places
    <3>3. helper[i] # "none"
      BY <3>1, Zenon DEF IInv, RowInv
    <3>4. OpOK(m)'
      BY <1>0, <2>0, <3>2, Zenon DEF OpOK, Finding, Making, process_is_alive
    <3>5. \A j \in Nets : Uses(m, j)' => Uses(m, j) \/ (m \in Named /\ row[j] = "named")
      BY <1>0, <2>0, <3>1, <3>2, ZenonT(60) DEF Uses
    <3> QED BY <1>0, <2>0, <3>2, <3>3, <3>4, <3>5, OpStep, ZenonT(60) DEF Making
  <2> QED BY <2>1, <2>2, Zenon
<1> QED BY <1>2, <1>3, <1>5, <1>6, ZenonT(60)

\* The rest of what an operation does to nothing but itself: waiting for netd, and failing.
LEMMA FailingSteps ==
    ASSUME IInv, NEW m \in Machines,
           UNCHANGED <<row, helper, dir, att, vm, deaths, crashes>>, link' \in [Machines -> Nets \cup {None}],
           \/ op[m].pc = "socket" /\ (Goto(m, "save") \/ Goto(m, "rollback"))
           \/ op[m].pc = "save" /\ Goto(m, "rollback")
           \/ op[m].pc = "attach" /\ (row[op[m].id] = "absent" \/ StoreFails) /\ Goto(m, "unsave")
           \/ op[m].pc \in {"reuse", "spawn"} /\ Return(m)
    PROVE  IInv'
<1>0. TypeOK /\ OpOK(m) /\ crashes' \in 0..MaxCrashes
  BY Zenon DEF IInv, TypeOK
<1>1. CASE op[m].pc \in {"reuse", "spawn"} /\ Return(m)
  BY <1>0, <1>1, ReturnStep, ZenonT(60) DEF Making
<1>2. ASSUME op[m].pc \in {"socket", "save", "attach"}, NEW place \in {"save", "rollback", "unsave"},
             Goto(m, place), place = "unsave" => op[m].pc = "attach" /\ (row[op[m].id] = "absent" \/ StoreFails)
      PROVE  IInv'
  <2>1. /\ op'[m].pc = place /\ op'[m].id = op[m].id
        /\ op'[m].running = op[m].running /\ op'[m].start = op[m].start
    BY <1>0, <1>2, GotoFacts, ZenonT(60) DEF Places
  <2>2. OpOK(m)'
    BY <1>0, <1>2, <2>1, ZenonT(60) DEF OpOK, Finding, Making
  <2>3. m \in Private => HeldOK(m)'
    BY <1>0, <1>2, <2>1 DEF IInv, HeldOK, OpOK, Finding, Making
  <2> QED BY <1>2, <2>2, <2>3, GotoStep, ZenonT(60) DEF Making, Places
<1> QED BY <1>1, <1>2, Zenon

\* A caller is killed.
LEMMA CrashStep ==
    ASSUME IInv, NEW m \in Machines, Crash(m)
    PROVE  IInv'
<1>1. crashes' \in 0..MaxCrashes /\ crashes' # 0 /\ link' \in [Machines -> Nets \cup {None}]
  BY NetworkAssumption DEF Crash, IInv, TypeOK
<1> QED BY <1>1, ReturnStep, Zenon DEF Crash

\* Rows, attachments, helpers and machines go, and nothing comes: most of the invariant stays.
LEMMA Shrinks ==
    ASSUME IInv,
           row' \in [Nets -> {"absent", "private", "named"}],
           helper' \in [Nets -> {"none", "alive", "terminating", "gone", "crashed"}],
           att' \in [Machines -> Nets \cup {None}], vm' \in [Machines -> Nets \cup {0, None}],
           link' \in [Machines -> Nets \cup {None}], dir' \subseteq Nets, deaths' \in 0..MaxDeaths, crashes' = crashes,
           op' \in [Machines -> Operation],
           \A i \in Nets : row'[i] # row[i] => row'[i] = "absent",
           \A n \in Machines : att'[n] # att[n] => att'[n] = None,
           \A n \in Machines : vm'[n] # vm[n] => vm'[n] = None,
           \A n \in Machines : att'[n] # None => row'[att'[n]] # "absent",
           \A i \in Nets : helper'[i] # helper[i] => helper[i] # "none" /\ helper'[i] \notin {"none", "alive"},
           \A n \in Machines : op'[n].id \in {op[n].id, None},
           \A n \in Machines : op'[n].pc \in Finding \cup Making \cup {"launch"} =>
                                  op[n].pc \in Finding \cup Making \cup {"launch"},
           \A n \in Machines : op'[n].pc \in Making => op[n].pc \in Making,
           LeakInv', SameInv', \A n \in Machines : OpOK(n)', \A n \in Private : HeldOK(n)'
    PROVE  IInv'
<1>1. TypeOK'
  BY Zenon DEF IInv, TypeOK
<1>2. RowInv'
  <2>1. \A n \in Machines : att'[n] # None => row'[att'[n]] # "absent" /\ n \notin Plain
    BY ZenonT(60) DEF IInv, RowInv
  <2>2. ASSUME NEW i \in Nets, helper'[i] = "none"
        PROVE  row'[i] = "absent" /\ \A n \in Machines : att'[n] # i /\ vm'[n] # i /\ op'[n].id # i
    BY <2>2, NetworkAssumption, SMTT(60) DEF IInv, RowInv
  <2> QED BY <2>1, <2>2, ZenonT(60) DEF RowInv
<1>3. \A n \in Machines, i \in Nets : Uses(n, i)' => Uses(n, i)
  BY NetworkAssumption DEF Uses
<1>4. KindInv'
  BY <1>3, SMTT(60) DEF IInv, KindInv
<1>5. OwnInv'
  <2>1. \A n \in Machines, i \in Nets : op'[n].pc \in Making /\ op'[n].id = i => op[n].pc \in Making /\ op[n].id = i
    BY NetworkAssumption
  <2> QED BY <1>3, <2>1, SMTT(60) DEF IInv, OwnInv
<1> QED BY <1>1, <1>2, <1>4, <1>5, Zenon DEF IInv

\* A helper exits or dies.
LEMMA HelperSteps ==
    ASSUME IInv, NEW i \in Nets, HelperExits(i) \/ HelperDies(i)
    PROVE  IInv'
<1>1. PICK h \in {"gone", "crashed"} :
          /\ helper' = [helper EXCEPT ![i] = h] /\ helper[i] \in {"terminating", "alive"}
          /\ helper[i] = "alive" => h = "crashed"
          /\ UNCHANGED <<row, dir, att, link, vm, op, crashes>> /\ deaths' \in 0..MaxDeaths
  <2>1. CASE HelperExits(i)
    BY <2>1, ZenonT(60) DEF HelperExits, bounds, IInv, TypeOK
  <2>2. CASE HelperDies(i)
    BY <2>2, NetworkAssumption DEF HelperDies, IInv, TypeOK
  <2> QED BY <2>1, <2>2, ZenonT(60)
<1>2. /\ helper' \in [Nets -> {"none", "alive", "terminating", "gone", "crashed"}]
      /\ helper'[i] = h /\ \A j \in Nets : j # i => helper'[j] = helper[j]
  BY <1>1, Zenon DEF IInv, TypeOK
<1>3. LeakInv'
  BY <1>1, <1>2 DEF IInv, LeakInv
<1>4. SameInv'
  BY <1>1, <1>2, SMTT(60) DEF IInv, SameInv
<1>5. \A n \in Machines : OpOK(n)'
  BY <1>1, <1>2, SMTT(60) DEF IInv, OpOK, Finding
<1>6. \A n \in Private : HeldOK(n)'
  <2> TAKE n \in Private
  <2>1. HeldOK(n) /\ OpOK(n) /\ n \notin Plain
    BY NetworkAssumption, ZenonT(60) DEF IInv, Machines
  <2>2. op[n].pc \in Making \cup {"launch"} => op[n].id \in Nets
    BY <2>1, ZenonT(60) DEF OpOK
  <2> QED BY <1>1, <1>2, <2>1, <2>2 DEF HeldOK
<1>7. \A n \in Machines : att'[n] # None => row'[att'[n]] # "absent"
  BY <1>1, ZenonT(60) DEF IInv, RowInv
<1>8. /\ row' \in [Nets -> {"absent", "private", "named"}] /\ att' \in [Machines -> Nets \cup {None}]
      /\ vm' \in [Machines -> Nets \cup {0, None}] /\ link' \in [Machines -> Nets \cup {None}]
      /\ dir' \subseteq Nets /\ op' \in [Machines -> Operation]
  BY <1>1, ZenonT(60) DEF IInv, TypeOK
<1> QED BY <1>1, <1>2, <1>3, <1>4, <1>5, <1>6, <1>7, <1>8, Shrinks, ZenonT(60)

\* A machine goes down.
LEMMA VmStopsStep ==
    ASSUME IInv, NEW m \in Machines, VmStops(m)
    PROVE  IInv'
<1>1. /\ UNCHANGED <<row, helper, dir, att, link, op, deaths, crashes>> /\ vm'[m] = None
      /\ vm' \in [Machines -> Nets \cup {0, None}] /\ \A n \in Machines : n # m => vm'[n] = vm[n]
  BY ZenonT(60) DEF VmStops, bounds, IInv, TypeOK
<1>2. LeakInv'
  BY <1>1, ZenonT(60) DEF IInv, LeakInv
<1>3. SameInv'
  BY <1>1, NetworkAssumption DEF IInv, SameInv, Machines
<1>4. \A n \in Machines : OpOK(n)'
  BY <1>1, ZenonT(60) DEF IInv, OpOK
<1>5. \A n \in Private : HeldOK(n)'
  <2> TAKE n \in Private
  <2>1. HeldOK(n) /\ n \in Machines
    BY ZenonT(60) DEF IInv, Machines
  <2> QED BY <1>1, <2>1, ZenonT(60) DEF HeldOK
<1>6. \A n \in Machines : att'[n] # None => row'[att'[n]] # "absent"
  BY <1>1, ZenonT(60) DEF IInv, RowInv
<1>7. /\ row' \in [Nets -> {"absent", "private", "named"}] /\ att' \in [Machines -> Nets \cup {None}]
      /\ helper' \in [Nets -> {"none", "alive", "terminating", "gone", "crashed"}]
      /\ link' \in [Machines -> Nets \cup {None}]
      /\ dir' \subseteq Nets /\ op' \in [Machines -> Operation] /\ deaths' \in 0..MaxDeaths
  BY <1>1, ZenonT(60) DEF IInv, TypeOK
<1> QED BY <1>1, <1>2, <1>3, <1>4, <1>5, <1>6, <1>7, Shrinks, ZenonT(60)

\* Reconciled leaves the operation at its end or before prepare.
LEMMA ReconciledFacts ==
    ASSUME TypeOK, NEW m \in Machines, Reconciled(m)
    PROVE  /\ op' \in [Machines -> Operation]
           /\ \/ op[m].start /\ op'[m].pc = "prepare" /\ op'[m].id = op[m].id
                 /\ op'[m].running = op[m].running /\ op'[m].start = op[m].start
              \/ op'[m].pc = "idle" /\ op'[m].id = None /\ ~ op'[m].running /\ ~ op'[m].start
           /\ \A n \in Machines : n # m => op'[n] = op[n]
<1>1. CASE op[m].start
  BY <1>1, GotoFacts, ZenonT(60) DEF Reconciled, Places
<1>2. CASE ~ op[m].start
  BY <1>2, ReturnFacts, ZenonT(60) DEF Reconciled
<1> QED BY <1>1, <1>2, ZenonT(60)

\* The attachment is deleted: the operation now answers for the helper.
LEMMA DetachStep ==
    ASSUME IInv, NEW m \in Machines, detach_network(m)
    PROVE  IInv'
<1>0. /\ UNCHANGED <<row, helper, dir, vm, deaths, crashes>> /\ op[m].pc = "detach" /\ Goto(m, "count")
      /\ TypeOK /\ OpOK(m) /\ op[m].id \in Nets /\ m \notin Plain /\ att[m] \in {op[m].id, None}
  BY ZenonT(60) DEF detach_network, bounds, IInv, OpOK, Finding
<1>1. /\ att' \in [Machines -> Nets \cup {None}] /\ link' \in [Machines -> Nets \cup {None}]
      /\ att'[m] = None /\ \A n \in Machines : n # m => att'[n] = att[n]
  BY <1>0, ZenonT(60) DEF detach_network, TypeOK
<1>2. /\ op' \in [Machines -> Operation] /\ op'[m].pc = "count" /\ op'[m].id = op[m].id
      /\ op'[m].running = op[m].running /\ op'[m].start = op[m].start
      /\ \A n \in Machines : n # m => op'[n] = op[n]
  BY <1>0, GotoFacts, ZenonT(60) DEF Places
<1>3. LeakInv'
  <2> SUFFICES ASSUME NEW i \in Nets, helper[i] = "alive"
               PROVE  /\ i \in dir
                      /\ crashes = 0 => \E n \in Machines : \/ att'[n] = i
                                                            \/ /\ op'[n].id = i
                                                               /\ op'[n].pc \in Making \cup {"count", "terminate"}
    BY <1>0, ZenonT(60) DEF LeakInv
  <2>1. i \in dir
    BY ZenonT(60) DEF IInv, LeakInv
  <2>2. ASSUME crashes = 0
        PROVE  \E n \in Machines : att'[n] = i \/ (op'[n].id = i /\ op'[n].pc \in Making \cup {"count", "terminate"})
    <3>1. PICK n \in Machines : att[n] = i \/ (op[n].id = i /\ op[n].pc \in Making \cup {"count", "terminate"})
      BY <2>2, ZenonT(60) DEF IInv, LeakInv
    <3>2. CASE n = m
      BY <1>0, <1>2, <3>1, <3>2, NetworkAssumption, ZenonT(60) DEF Making
    <3>3. CASE n # m
      BY <1>1, <1>2, <3>1, <3>3, ZenonT(60)
    <3> QED BY <3>2, <3>3, ZenonT(60)
  <2> QED BY <2>1, <2>2, ZenonT(60)
<1>4. SameInv'
  BY <1>0, <1>2, SMTT(60) DEF IInv, SameInv, Machines
<1>5. \A n \in Machines : OpOK(n)'
  BY <1>0, <1>1, <1>2, SMTT(60) DEF IInv, OpOK, Finding, Making
<1>6. \A n \in Private : HeldOK(n)'
  <2> TAKE n \in Private
  <2>1. HeldOK(n) /\ n \in Machines
    BY Zenon DEF IInv, Machines
  <2> QED BY <1>0, <1>1, <1>2, <2>1, SMTT(60) DEF HeldOK, Finding, Making
<1>7. \A n \in Machines : att'[n] # None => row'[att'[n]] # "absent"
  BY <1>0, <1>1 DEF IInv, RowInv
<1>8. /\ row' \in [Nets -> {"absent", "private", "named"}] /\ vm' \in [Machines -> Nets \cup {0, None}]
      /\ helper' \in [Nets -> {"none", "alive", "terminating", "gone", "crashed"}]
      /\ dir' \subseteq Nets /\ deaths' \in 0..MaxDeaths
  BY <1>0, ZenonT(60) DEF TypeOK
<1> QED BY <1>0, <1>1, <1>2, <1>3, <1>4, <1>5, <1>6, <1>7, <1>8, Shrinks, ZenonT(60) DEF Finding, Making

\* SIGTERM, or SIGKILL from the startup guard, to the helper the operation has in hand: no private
\* machine runs on it unless it is the operation's own and the helper is dead already.
LEMMA DownSteps ==
    ASSUME IInv, NEW m \in Machines, terminate_network_instance(m) \/ NetdStartupGuard(m)
    PROVE  IInv'
<1>0. /\ UNCHANGED <<row, att, vm, deaths, crashes>> /\ op[m].pc \in {"terminate", "rollback"}
      /\ TypeOK /\ OpOK(m) /\ op[m].id \in Nets /\ m \notin Plain /\ att[m] = None
  BY ZenonT(60) DEF terminate_network_instance, NetdStartupGuard, bounds, IInv, OpOK, Finding, Making
<1>1. PICK k \in Nets : k = op[m].id
  BY <1>0, ZenonT(60)
<1>2. Uses(m, k) /\ helper[k] # "none"
  BY <1>0, <1>1, ZenonT(60) DEF IInv, RowInv, Uses, Finding, Making
<1>3. /\ helper' \in [Nets -> {"none", "alive", "terminating", "gone", "crashed"}]
      /\ helper'[k] \notin {"none", "alive"} /\ (helper[k] = "crashed" => helper'[k] = "crashed")
      /\ \A i \in Nets : i # k => helper'[i] = helper[i]
  BY <1>0, <1>1, <1>2 DEF terminate_network_instance, NetdStartupGuard, Signalled, TypeOK
<1>4. /\ dir' \subseteq Nets /\ \A i \in Nets : i # k /\ i \in dir => i \in dir'
      /\ link' \in [Machines -> Nets \cup {None}]
  BY <1>0, <1>1, ZenonT(60) DEF terminate_network_instance, NetdStartupGuard, TypeOK
<1>5. /\ op' \in [Machines -> Operation] /\ \A n \in Machines : n # m => op'[n] = op[n]
      /\ \/ /\ op[m].pc = "terminate" /\ op'[m].pc = "remove" /\ op'[m].id = k
            /\ op'[m].running = op[m].running /\ op'[m].start = op[m].start
         \/ op'[m].pc = "idle" /\ op'[m].id = None /\ ~ op'[m].running /\ ~ op'[m].start
  <2>1. CASE terminate_network_instance(m)
    BY <1>0, <1>1, <2>1, GotoFacts, ZenonT(60) DEF terminate_network_instance, Places
  <2>2. CASE NetdStartupGuard(m)
    BY <1>0, <2>2, ReturnFacts, ZenonT(60) DEF NetdStartupGuard
  <2> QED BY <2>1, <2>2, ZenonT(60)
<1>6. LeakInv'
  <2> SUFFICES ASSUME NEW i \in Nets, helper'[i] = "alive"
               PROVE  /\ i \in dir'
                      /\ crashes = 0 => \E n \in Machines : \/ att[n] = i
                                                            \/ /\ op'[n].id = i
                                                               /\ op'[n].pc \in Making \cup {"count", "terminate"}
    BY <1>0, ZenonT(60) DEF LeakInv
  <2>1. i # k /\ helper[i] = "alive"
    BY <1>3, ZenonT(60)
  <2>2. i \in dir'
    BY <1>4, <2>1, ZenonT(60) DEF IInv, LeakInv
  <2>3. ASSUME crashes = 0
        PROVE  \E n \in Machines : att[n] = i \/ (op'[n].id = i /\ op'[n].pc \in Making \cup {"count", "terminate"})
    <3>1. PICK n \in Machines : att[n] = i \/ (op[n].id = i /\ op[n].pc \in Making \cup {"count", "terminate"})
      BY <2>1, <2>3, ZenonT(60) DEF IInv, LeakInv
    <3> QED BY <1>0, <1>1, <1>5, <2>1, <3>1, NetworkAssumption, ZenonT(60)
  <2> QED BY <2>2, <2>3, ZenonT(60)
<1>7. SameInv'
  <2>1. \A i \in Nets : helper'[i] = "alive" => helper[i] = "alive"
    BY <1>3, Zenon
  <2>2. \A n \in Machines : op'[n].pc \in {"unsave", "attach", "launch"} => op'[n] = op[n]
    BY <1>5, ZenonT(60)
  <2> QED BY <1>0, <2>1, <2>2 DEF IInv, SameInv, Machines
<1>8. \A n \in Machines : OpOK(n)'
  <2> TAKE n \in Machines
  <2>1. CASE n = m
    BY <1>0, <1>1, <1>3, <1>5, <2>1, ZenonT(60) DEF OpOK, Finding, Making
  <2>2. CASE n # m
    <3>1. OpOK(n) /\ op'[n] = op[n] /\ (op[n].pc \in {"remove", "discard"} => op[n].id \in Nets)
      BY <1>5, <2>2, ZenonT(60) DEF IInv, OpOK, Finding
    <3>2. op[n].pc \in {"remove", "discard"} => helper'[op[n].id] # "alive"
      BY <1>1, <1>3, <3>1, ZenonT(60) DEF OpOK
    <3> QED BY <1>0, <3>1, <3>2, ZenonT(60) DEF OpOK
  <2> QED BY <2>1, <2>2, ZenonT(60)
<1>9. \A n \in Private : HeldOK(n)'
  <2> TAKE n \in Private
  <2>1. HeldOK(n) /\ OpOK(n) /\ n \in Machines /\ n \notin Plain
    BY NetworkAssumption, ZenonT(60) DEF IInv, Machines
  <2>2. CASE n # m
    <3>1. ~ Uses(n, k) /\ op'[n] = op[n]
      BY <1>2, <1>5, <2>1, <2>2, ZenonT(60) DEF IInv, OwnInv
    <3>2. (vm[n] # None => helper'[vm[n]] = helper[vm[n]])
          /\ (op[n].pc \in Making \cup {"launch"} => helper'[op[n].id] = helper[op[n].id])
      BY <1>3, <2>1, <3>1, ZenonT(60) DEF Uses, HeldOK, OpOK
    <3> QED BY <1>0, <2>1, <3>1, <3>2, ZenonT(60) DEF HeldOK
  <2>3. CASE n = m
    <3>1. CASE op[m].pc = "terminate"
      BY <1>0, <1>1, <1>3, <1>5, <2>1, <2>3, <3>1, SMTT(60) DEF HeldOK, Finding, Making
    <3>2. CASE op[m].pc = "rollback"
      <4>1. vm[n] = None
        BY <1>0, <2>1, <2>3, <3>2, ZenonT(60) DEF HeldOK, OpOK, Making
      <4> QED BY <1>0, <1>5, <2>3, <3>2, <4>1, ZenonT(60) DEF HeldOK, Finding, Making
    <3> QED BY <1>0, <3>1, <3>2, ZenonT(60)
  <2> QED BY <2>2, <2>3, ZenonT(60)
<1>10. /\ row' \in [Nets -> {"absent", "private", "named"}] /\ vm' \in [Machines -> Nets \cup {0, None}]
       /\ att' \in [Machines -> Nets \cup {None}] /\ deaths' \in 0..MaxDeaths
       /\ \A n \in Machines : att'[n] # None => row'[att'[n]] # "absent"
  BY <1>0, ZenonT(60) DEF TypeOK, IInv, RowInv
<1>11. \A n \in Machines : /\ op'[n].id \in {op[n].id, None}
                           /\ op'[n].pc \in Finding \cup Making \cup {"launch"} =>
                                 op[n].pc \in Finding \cup Making \cup {"launch"}
                           /\ op'[n].pc \in Making => op[n].pc \in Making
  BY <1>0, <1>1, <1>5, ZenonT(60) DEF Finding, Making
<1>12. \A i \in Nets : helper'[i] # helper[i] => helper[i] # "none" /\ helper'[i] \notin {"none", "alive"}
  BY <1>2, <1>3, ZenonT(60)
<1> QED BY <1>0, <1>3, <1>4, <1>5, <1>6, <1>7, <1>8, <1>9, <1>10, <1>11, <1>12, Shrinks, ZenonT(60)

\* The row goes, and with it the attachments of everybody: its helper is dead, or killed next.
LEMMA RowGoes ==
    ASSUME IInv, NEW m \in Machines, NEW k \in Nets, k = op[m].id, remove_network_instance(k),
           UNCHANGED <<helper, link, vm, deaths, crashes>>, dir' \in {dir, dir \ {k}},
           op[m].pc \in {"remove", "discard", "unsave"},
           op[m].pc # "unsave" => helper[k] # "alive",
           op[m].pc = "unsave" => dir' = dir /\ op'[m].pc = "rollback",
           op' \in [Machines -> Operation], \A n \in Machines : n # m => op'[n] = op[n],
           \/ /\ op'[m].pc \in {"prepare", "spawn", "rollback"} /\ op'[m].id = k
              /\ op'[m].running = op[m].running /\ op'[m].start = op[m].start /\ op[m].start
           \/ op'[m].pc = "idle" /\ op'[m].id = None /\ ~ op'[m].running /\ ~ op'[m].start,
           op'[m].pc = "rollback" => op[m].pc = "unsave"
    PROVE  IInv'
<1>0. /\ TypeOK /\ OpOK(m) /\ m \notin Plain /\ att[m] = None /\ Uses(m, k)
  BY ZenonT(60) DEF IInv, OpOK, Uses, Finding, Making
<1>1. /\ row' \in [Nets -> {"absent", "private", "named"}] /\ row'[k] = "absent"
      /\ \A i \in Nets : i # k => row'[i] = row[i]
  BY <1>0, ZenonT(60) DEF remove_network_instance, TypeOK
<1>2. /\ att' \in [Machines -> Nets \cup {None}]
      /\ \A n \in Machines : att'[n] = IF att[n] = k THEN None ELSE att[n]
  BY <1>0, ZenonT(60) DEF remove_network_instance, TypeOK
<1>3. LeakInv'
  <2> SUFFICES ASSUME NEW i \in Nets, helper[i] = "alive"
               PROVE  /\ i \in dir'
                      /\ crashes = 0 => \E n \in Machines : \/ att'[n] = i
                                                            \/ /\ op'[n].id = i
                                                               /\ op'[n].pc \in Making \cup {"count", "terminate"}
    BY ZenonT(60) DEF LeakInv
  <2>1. i \in dir /\ (i = k => op[m].pc = "unsave")
    BY ZenonT(60) DEF IInv, LeakInv
  <2>2. i \in dir'
    BY <2>1, ZenonT(60)
  <2>3. ASSUME crashes = 0
        PROVE  \E n \in Machines : att'[n] = i \/ (op'[n].id = i /\ op'[n].pc \in Making \cup {"count", "terminate"})
    <3>1. CASE i = k
      BY <2>1, <3>1, NetworkAssumption, ZenonT(60) DEF Making
    <3>2. CASE i # k
      <4>1. PICK n \in Machines : att[n] = i \/ (op[n].id = i /\ op[n].pc \in Making \cup {"count", "terminate"})
        BY <2>3, ZenonT(60) DEF IInv, LeakInv
      <4> QED BY <1>2, <3>2, <4>1, ZenonT(60)
    <3> QED BY <3>1, <3>2, ZenonT(60)
  <2> QED BY <2>2, <2>3, ZenonT(60)
<1>4. SameInv'
  <2>1. \A i, j \in Nets : row'[i] = "named" /\ row'[j] = "named" => i = j
    BY <1>1, SMTT(60) DEF IInv, SameInv
  <2>2. ASSUME ~ StoreFails, NEW n \in Machines, op'[n].pc = "unsave" PROVE row'[op'[n].id] = "absent"
    <3>1. n # m /\ op'[n] = op[n] /\ op[n].id \in Nets /\ row[op[n].id] = "absent"
      BY <2>2 DEF IInv, SameInv, OpOK, Making
    <3> QED BY <1>1, <3>1, SMTT(60)
  <2>3. ASSUME ~ StoreFails, NEW n \in Named, NEW i \in Nets, helper'[i] = "alive",
               vm'[n] = i \/ (op'[n].pc \in {"attach", "launch"} /\ op'[n].id = i)
        PROVE  row'[i] = "named"
    <3>1. row[i] = "named"
      BY <2>3 DEF IInv, SameInv, Machines
    <3>2. i # k
      BY <2>3, <3>1, Zenon DEF IInv, SameInv
    <3> QED BY <1>1, <3>1, <3>2, ZenonT(60)
  <2> QED BY <2>1, <2>2, <2>3, ZenonT(60) DEF SameInv
<1>5. \A n \in Machines : OpOK(n)'
  <2> TAKE n \in Machines
  <2>1. CASE n = m
    BY <1>0, <1>2, <2>1, ZenonT(60) DEF OpOK, Finding, Making
  <2>2. CASE n # m
    BY <1>2, <2>2 DEF IInv, OpOK
  <2> QED BY <2>1, <2>2, ZenonT(60)
<1>6. \A n \in Private : HeldOK(n)'
  <2> TAKE n \in Private
  <2>1. HeldOK(n) /\ OpOK(n) /\ n \in Machines /\ n \notin Plain
    BY NetworkAssumption, ZenonT(60) DEF IInv, Machines
  <2>2. CASE n # m
    <3>1. ~ Uses(n, k) /\ op'[n] = op[n] /\ att'[n] = att[n]
      BY <1>0, <1>2, <2>1, <2>2, SMTT(60) DEF IInv, OwnInv, Uses
    <3>2. vm[n] # None => row'[vm[n]] = row[vm[n]]
      BY <1>1, <2>1, <3>1, ZenonT(60) DEF Uses, HeldOK
    <3>3. op[n].pc \in {"attach", "unsave", "launch"} => row'[op[n].id] = row[op[n].id]
      BY <1>1, <2>1, <3>1, ZenonT(60) DEF Uses, OpOK, Making
    <3> QED BY <2>1, <3>1, <3>2, <3>3, SMTT(60) DEF HeldOK
  <2>3. CASE n = m
    <3>1. CASE op[m].pc \in {"discard", "unsave"}
      <4>1. vm[n] = None
        BY <2>1, <2>3, <3>1, ZenonT(60) DEF HeldOK, OpOK, Making
      <4> QED BY <2>1, <2>3, <3>1, <4>1, ZenonT(60) DEF HeldOK, Finding, Making
    <3>2. CASE op[m].pc = "remove"
      <4>1. vm[n] # None => op[m].running /\ vm[n] = k /\ helper[k] = "crashed"
        BY <2>1, <2>3, <3>2, ZenonT(60) DEF HeldOK, Finding
      <4>2. vm[n] # None => op'[m].pc = "idle"
        BY <1>0, <3>2, <4>1, ZenonT(60) DEF OpOK
      <4> QED BY <1>0, <1>2, <2>3, <3>2, <4>1, <4>2, ZenonT(60) DEF HeldOK, Finding, Making
    <3> QED BY <3>1, <3>2, ZenonT(60)
  <2> QED BY <2>2, <2>3, ZenonT(60)
<1>7. \A n \in Machines : att'[n] # None => row'[att'[n]] # "absent"
  BY <1>1, <1>2, SMTT(60) DEF IInv, TypeOK, RowInv
<1>8. /\ vm' \in [Machines -> Nets \cup {0, None}] /\ link' \in [Machines -> Nets \cup {None}]
      /\ helper' \in [Nets -> {"none", "alive", "terminating", "gone", "crashed"}]
      /\ dir' \subseteq Nets /\ deaths' \in 0..MaxDeaths
  BY <1>0, Zenon DEF TypeOK
<1>9. \A n \in Machines : /\ op'[n].id \in {op[n].id, None}
                          /\ op'[n].pc \in Finding \cup Making \cup {"launch"} =>
                                op[n].pc \in Finding \cup Making \cup {"launch"}
                          /\ op'[n].pc \in Making => op[n].pc \in Making
  BY ZenonT(60) DEF Finding, Making
<1> QED BY <1>1, <1>2, <1>3, <1>4, <1>5, <1>6, <1>7, <1>8, <1>9, Shrinks, ZenonT(60)

\* The removals of an instance: by the last machine that leaves it, by one that finds its helper
\* dead, and by the one that made it and could not attach.
LEMMA RemovalSteps ==
    ASSUME IInv, NEW m \in Machines, RemoveInstance(m) \/ DiscardInstance(m) \/ UnsaveInstance(m)
    PROVE  IInv'
<1>0. /\ TypeOK /\ OpOK(m) /\ op[m].id \in Nets /\ op[m].pc \in {"remove", "discard", "unsave"}
  BY ZenonT(60) DEF RemoveInstance, DiscardInstance, UnsaveInstance, IInv, OpOK, Finding, Making
<1>1. PICK k \in Nets : k = op[m].id
  BY <1>0, ZenonT(60)
<1>2. CASE RemoveInstance(m)
  <2>1. helper[k] # "alive"
    BY <1>0, <1>1, <1>2, ZenonT(60) DEF RemoveInstance, OpOK
  <2>2. remove_network_instance(k) /\ dir' = dir \ {k} /\ op[m].pc = "remove"
    BY <1>1, <1>2, ZenonT(60) DEF RemoveInstance
  <2>3. /\ op' \in [Machines -> Operation] /\ \A n \in Machines : n # m => op'[n] = op[n]
        /\ \/ /\ op'[m].pc = "prepare" /\ op'[m].id = k
              /\ op'[m].running = op[m].running /\ op'[m].start = op[m].start /\ op[m].start
           \/ op'[m].pc = "idle" /\ op'[m].id = None /\ ~ op'[m].running /\ ~ op'[m].start
    BY <1>0, <1>1, <1>2, ReconciledFacts, ZenonT(60) DEF RemoveInstance
  <2> QED BY <1>1, <1>2, <2>1, <2>2, <2>3, RowGoes, ZenonT(60) DEF RemoveInstance, bounds
<1>3. CASE DiscardInstance(m)
  <2>1. helper[k] # "alive" /\ op[m].start
    BY <1>0, <1>1, <1>3, ZenonT(60) DEF DiscardInstance, OpOK
  <2>2. remove_network_instance(k) /\ dir' = dir \ {k} /\ op[m].pc = "discard" /\ Goto(m, "spawn")
    BY <1>1, <1>3, ZenonT(60) DEF DiscardInstance
  <2>3. /\ op' \in [Machines -> Operation] /\ \A n \in Machines : n # m => op'[n] = op[n]
        /\ op'[m].pc = "spawn" /\ op'[m].id = k
        /\ op'[m].running = op[m].running /\ op'[m].start = op[m].start
    BY <1>0, <1>1, <2>2, GotoFacts, ZenonT(60) DEF Places
  <2> QED BY <1>1, <1>3, <2>1, <2>2, <2>3, RowGoes, ZenonT(60) DEF DiscardInstance, bounds
<1>4. CASE UnsaveInstance(m) /\ remove_network_instance(k)
  <2>1. op[m].pc = "unsave" /\ Goto(m, "rollback") /\ op[m].start
    BY <1>0, <1>4, ZenonT(60) DEF UnsaveInstance, OpOK, Making
  <2>2. /\ op' \in [Machines -> Operation] /\ \A n \in Machines : n # m => op'[n] = op[n]
        /\ op'[m].pc = "rollback" /\ op'[m].id = k
        /\ op'[m].running = op[m].running /\ op'[m].start = op[m].start
    BY <1>0, <1>1, <2>1, GotoFacts, ZenonT(60) DEF Places
  <2> QED BY <1>1, <1>4, <2>1, <2>2, RowGoes, ZenonT(60) DEF UnsaveInstance, bounds
<1>5. CASE UnsaveInstance(m) /\ UNCHANGED <<row, att>>
  <2>1. op[m].pc = "unsave" /\ Goto(m, "rollback") /\ UNCHANGED <<row, att, helper, dir, link, vm, deaths, crashes>>
    BY <1>5, ZenonT(60) DEF UnsaveInstance, bounds
  <2>2. /\ op'[m].pc = "rollback" /\ op'[m].id = op[m].id
        /\ op'[m].running = op[m].running /\ op'[m].start = op[m].start
    BY <1>0, <2>1, GotoFacts, ZenonT(60) DEF Places
  <2>3. OpOK(m)' /\ link' \in [Machines -> Nets \cup {None}]
    BY <1>0, <2>1, <2>2, ZenonT(60) DEF OpOK, Finding, Making, TypeOK
  <2>4. m \in Private => HeldOK(m)'
    BY <1>0, <2>1, <2>2, ZenonT(60) DEF IInv, HeldOK, OpOK, Finding, Making
  <2> QED BY <2>1, <2>3, <2>4, GotoStep, ZenonT(60) DEF Making, Places
<1> QED BY <1>1, <1>2, <1>3, <1>4, <1>5, Zenon DEF UnsaveInstance

\* A fresh instance: nothing names it yet.
LEMMA SpawnStep ==
    ASSUME IInv, NEW m \in Machines, SpawnHelper(m)
    PROVE  IInv'
<1>0. /\ UNCHANGED <<row, att, vm, deaths, crashes>> /\ op[m].pc = "spawn" /\ TypeOK /\ OpOK(m) /\ att[m] = None
      /\ op[m].start /\ ~ op[m].running
  BY Zenon DEF SpawnHelper, bounds, IInv, OpOK
<1>1. CASE link' = [link EXCEPT ![m] = None] /\ Return(m) /\ UNCHANGED <<helper, dir>>
  <2>1. link' \in [Machines -> Nets \cup {None}]
    BY <1>0, <1>1, ZenonT(60) DEF TypeOK
  <2> QED BY <1>0, <1>1, <2>1, FailingSteps, ZenonT(60)
<1>2. ASSUME NEW k \in Nets, helper[k] = "none", helper' = [helper EXCEPT ![k] = "alive"],
             dir' = dir \cup {k}, link' = [link EXCEPT ![m] = k], m \notin Plain,
             op' = [op EXCEPT ![m] = [@ EXCEPT !.pc = "socket", !.id = k]]
      PROVE  IInv'
  <2>1. /\ op' \in [Machines -> Operation] /\ op'[m].pc = "socket" /\ op'[m].id = k
        /\ op'[m].running = op[m].running /\ op'[m].start = op[m].start
        /\ \A n \in Machines : n # m => op'[n] = op[n]
    <3>1. op' = [op EXCEPT ![m] = [op[m] EXCEPT !.pc = "socket", !.id = k]] /\ op[m] \in Operation
      BY <1>0, <1>2, Zenon DEF TypeOK
    <3> QED BY <1>0, <3>1, ZenonT(60) DEF TypeOK, Operation, Places
  <2>2. /\ helper' \in [Nets -> {"none", "alive", "terminating", "gone", "crashed"}]
        /\ helper'[k] = "alive" /\ \A i \in Nets : i # k => helper'[i] = helper[i]
        /\ link' \in [Machines -> Nets \cup {None}] /\ dir' \subseteq Nets
    BY <1>0, <1>2, ZenonT(60) DEF TypeOK
  <2>3. row[k] = "absent" /\ \A n \in Machines : att[n] # k /\ vm[n] # k /\ op[n].id # k
    BY <1>2, ZenonT(60) DEF IInv, RowInv
  <2>4. TypeOK'
    BY <1>0, <2>1, <2>2, ZenonT(60) DEF TypeOK
  <2>5. RowInv'
    BY <1>0, <2>1, <2>2 DEF IInv, RowInv
  <2>6. \A n \in Machines, i \in Nets : Uses(n, i)' => Uses(n, i) \/ (n = m /\ i = k)
    BY <1>0, <2>1, ZenonT(60) DEF Uses
  <2>7. \A n \in Machines : ~ Uses(n, k)
    BY <2>3, ZenonT(60) DEF Uses
  <2>8. KindInv'
    BY <1>0, <2>3, <2>6, ZenonT(60) DEF IInv, KindInv
  <2>9. OwnInv'
    BY <2>1, <2>3, <2>6, <2>7, SMTT(60) DEF IInv, OwnInv
  <2>10. LeakInv'
    <3> SUFFICES ASSUME NEW i \in Nets, helper'[i] = "alive"
                 PROVE  /\ i \in dir'
                        /\ crashes = 0 => \E n \in Machines : \/ att[n] = i
                                                              \/ /\ op'[n].id = i
                                                                 /\ op'[n].pc \in Making \cup {"count", "terminate"}
      BY <1>0, ZenonT(60) DEF LeakInv
    <3>1. CASE i = k
      BY <1>2, <2>1, <3>1, Zenon DEF Making
    <3>2. CASE i # k
      <4>1. helper[i] = "alive" /\ i \in dir'
        BY <1>2, <2>2, <3>2, ZenonT(60) DEF IInv, LeakInv
      <4>2. ASSUME crashes = 0
            PROVE  \E n \in Machines : att[n] = i \/ (op'[n].id = i /\ op'[n].pc \in Making \cup {"count", "terminate"})
        <5>1. PICK n \in Machines : att[n] = i \/ (op[n].id = i /\ op[n].pc \in Making \cup {"count", "terminate"})
          BY <4>1, <4>2, ZenonT(60) DEF IInv, LeakInv
        <5>2. op[m].pc \notin Making \cup {"count", "terminate"}
          BY <1>0, ZenonT(60) DEF Making
        <5> QED BY <2>1, <5>1, <5>2, ZenonT(60)
      <4> QED BY <4>1, <4>2, ZenonT(60)
    <3> QED BY <3>1, <3>2, Zenon
  <2>11. SameInv'
    <3>1. \A n \in Machines : op'[n].pc \in {"unsave", "attach", "launch"} => op'[n] = op[n]
      BY <2>1, Zenon
    <3> QED BY <1>0, <2>2, <2>3, <3>1, SMTT(60) DEF IInv, SameInv, Machines
  <2>12. \A n \in Machines : OpOK(n)'
    <3> TAKE n \in Machines
    <3>1. CASE n = m
      BY <1>0, <1>2, <2>1, <3>1, ZenonT(60) DEF OpOK, Finding, Making
    <3>2. CASE n # m
      <4>1. OpOK(n) /\ op'[n] = op[n] /\ (op[n].pc \in {"remove", "discard"} => op[n].id \in Nets)
        BY <2>1, <3>2, ZenonT(60) DEF IInv, OpOK, Finding
      <4>2. op[n].pc \in {"remove", "discard"} => helper'[op[n].id] # "alive"
        BY <2>2, <2>3, <4>1, ZenonT(60) DEF OpOK
      <4> QED BY <1>0, <4>1, <4>2, ZenonT(60) DEF OpOK
    <3> QED BY <3>1, <3>2, ZenonT(60)
  <2>13. \A n \in Private : HeldOK(n)'
    <3> TAKE n \in Private
    <3>1. HeldOK(n) /\ OpOK(n) /\ n \in Machines /\ n \notin Plain
      BY NetworkAssumption, ZenonT(60) DEF IInv, Machines
    <3>2. CASE n = m
      <4>1. vm[n] = None
        BY <1>0, <3>1, <3>2, ZenonT(60) DEF HeldOK
      <4> QED BY <1>0, <2>1, <2>2, <3>2, <4>1, ZenonT(60) DEF HeldOK, Finding, Making
    <3>3. CASE n # m
      <4>1. (vm[n] # None => helper'[vm[n]] = helper[vm[n]])
            /\ (op[n].pc \in Making \cup {"launch"} => helper'[op[n].id] = helper[op[n].id])
        BY <2>2, <2>3, <3>1, ZenonT(60) DEF HeldOK, OpOK
      <4> QED BY <1>0, <2>1, <3>1, <3>3, <4>1, SMTT(60) DEF HeldOK
    <3> QED BY <3>2, <3>3, ZenonT(60)
  <2> QED BY <2>4, <2>5, <2>8, <2>9, <2>10, <2>11, <2>12, <2>13, ZenonT(60) DEF IInv
<1>3. m \notin Plain
  BY <1>0, ZenonT(60) DEF OpOK
<1> QED BY <1>1, <1>2, <1>3, ZenonT(60) DEF SpawnHelper

\* The row of a fresh instance is saved: one row per definition.
LEMMA SaveStep ==
    ASSUME IInv, NEW m \in Machines, save_network_instance(m)
    PROVE  IInv'
<1>0. /\ UNCHANGED <<helper, dir, att, link, vm, deaths, crashes>> /\ op[m].pc = "save" /\ TypeOK /\ OpOK(m)
      /\ att[m] = None /\ op[m].start /\ op[m].id \in Nets /\ m \notin Plain
      /\ link' \in [Machines -> Nets \cup {None}]
  BY ZenonT(60) DEF save_network_instance, bounds, IInv, OpOK, Finding, Making, TypeOK
<1>1. PICK k \in Nets : k = op[m].id
  BY <1>0, ZenonT(60)
<1>2. CASE Goto(m, "rollback") /\ UNCHANGED row
  BY <1>0, <1>2, FailingSteps, ZenonT(60)
<1>3. ASSUME m \in Named => \A i \in Nets : row[i] # "named", Goto(m, "attach"),
             row' = [row EXCEPT ![op[m].id] = IF m \in Named THEN "named" ELSE "private"]
      PROVE  IInv'
  <2>1. /\ op' \in [Machines -> Operation] /\ op'[m].pc = "attach" /\ op'[m].id = k
        /\ op'[m].running = op[m].running /\ op'[m].start = op[m].start
        /\ \A n \in Machines : n # m => op'[n] = op[n]
    BY <1>0, <1>1, <1>3, GotoFacts, ZenonT(60) DEF Places
  <2>2. /\ row' \in [Nets -> {"absent", "private", "named"}]
        /\ row'[k] = (IF m \in Named THEN "named" ELSE "private") /\ \A i \in Nets : i # k => row'[i] = row[i]
    BY <1>0, <1>1, <1>3, ZenonT(60) DEF TypeOK
  <2>3. Uses(m, k) /\ helper[k] # "none"
    BY <1>0, <1>1, ZenonT(60) DEF Uses, Making, IInv, RowInv
  <2>4. m \in Private <=> m \notin Named
    BY <1>0, NetworkAssumption, ZenonT(60) DEF Machines
  <2>5. TypeOK'
    BY <1>0, <2>1, <2>2, ZenonT(60) DEF TypeOK
  <2>6. RowInv'
    <3>1. \A n \in Machines : op'[n].id = op[n].id
      BY <1>1, <2>1, ZenonT(60)
    <3>2. ASSUME NEW n \in Machines, att'[n] # None PROVE row'[att'[n]] # "absent" /\ n \notin Plain
      BY <1>0, <2>2, <3>2, SMTT(60) DEF IInv, RowInv, TypeOK
    <3>3. ASSUME NEW i \in Nets, helper'[i] = "none"
          PROVE  row'[i] = "absent" /\ \A n \in Machines : att'[n] # i /\ vm'[n] # i /\ op'[n].id # i
      BY <1>0, <2>2, <2>3, <3>1, <3>3, SMTT(60) DEF IInv, RowInv
    <3> QED BY <3>2, <3>3, ZenonT(60) DEF RowInv
  <2>7. \A n \in Machines, i \in Nets : Uses(n, i)' => Uses(n, i)
    BY <1>0, <1>1, <2>1 DEF Uses, Making
  <2>8. KindInv'
    <3> SUFFICES ASSUME NEW n \in Machines, NEW i \in Nets, Uses(n, i)
                 PROVE  (n \in Private => row'[i] # "named") /\ (n \in Named => row'[i] # "private")
      BY <2>7, ZenonT(60) DEF KindInv
    <3>1. CASE i = k
      <4>1. n # m => ~ (m \in Private) /\ ~ (n \in Private)
        BY <2>3, <3>1, ZenonT(60) DEF IInv, OwnInv
      <4>2. n \in Named => n \notin Private
        BY NetworkAssumption, ZenonT(60)
      <4> QED BY <2>2, <2>4, <3>1, <4>1, <4>2, ZenonT(60)
    <3>2. CASE i # k
      BY <2>2, <3>2, ZenonT(60) DEF IInv, KindInv
    <3> QED BY <3>1, <3>2, Zenon
  <2>9. OwnInv'
    <3>1. \A n \in Machines : op'[n].pc \in Making => op[n].pc \in Making /\ op'[n].id = op[n].id
      BY <1>0, <1>1, <2>1, ZenonT(60) DEF Making
    <3> QED BY <2>7, <3>1 DEF IInv, OwnInv
  <2>10. LeakInv'
    <3>1. \A n \in Machines : /\ op'[n].id = op[n].id
                              /\ op[n].pc \in Making \cup {"count", "terminate"} => op'[n].pc \in Making \cup {"count", "terminate"}
      BY <1>0, <1>1, <2>1, ZenonT(60) DEF Making
    <3> QED BY <1>0, <3>1 DEF IInv, LeakInv
  <2>11. SameInv'
    <3>1. ASSUME NEW i \in Nets, NEW j \in Nets, row'[i] = "named", row'[j] = "named" PROVE i = j
      BY <1>3, <2>2, <3>1 DEF IInv, SameInv
    <3>2. ASSUME ~ StoreFails, NEW n \in Machines, op'[n].pc = "unsave" PROVE row'[op'[n].id] = "absent"
      <4>1. n # m /\ op'[n] = op[n] /\ op[n].id \in Nets /\ row[op[n].id] = "absent"
        BY <2>1, <3>2 DEF IInv, SameInv, OpOK, Making
      <4>2. op[n].id # k
        BY <1>0, <1>1, <3>2, <4>1, ZenonT(60) DEF IInv, OwnInv, Making
      <4> QED BY <2>2, <4>1, <4>2, ZenonT(60)
    <3>3. ASSUME ~ StoreFails, NEW n \in Named, NEW i \in Nets, helper'[i] = "alive",
                 vm'[n] = i \/ (op'[n].pc \in {"attach", "launch"} /\ op'[n].id = i)
          PROVE  row'[i] = "named"
      <4>1. n \in Machines /\ Uses(n, i)'
        BY <3>3, ZenonT(60) DEF Machines, Uses, Making
      <4>2. row'[i] # "private"
        BY <2>8, <3>3, <4>1, ZenonT(60) DEF KindInv
      <4>3. CASE i = k
        BY <2>2, <4>2, <4>3, ZenonT(60)
      <4>4. CASE i # k
        <5>1. row[i] = "named"
          BY <1>0, <2>1, <3>3, <4>1, <4>4, SMTT(60) DEF IInv, SameInv
        <5> QED BY <2>2, <4>4, <5>1, ZenonT(60)
      <4> QED BY <4>3, <4>4, ZenonT(60)
    <3> QED BY <3>1, <3>2, <3>3, ZenonT(60) DEF SameInv
  <2>12. \A n \in Machines : OpOK(n)'
    <3> TAKE n \in Machines
    <3>1. CASE n = m
      BY <1>0, <1>1, <2>1, <3>1, ZenonT(60) DEF OpOK, Finding, Making
    <3>2. CASE n # m
      BY <1>0, <2>1, <3>2, SMTT(60) DEF IInv, OpOK
    <3> QED BY <3>1, <3>2, Zenon
  <2>13. \A n \in Private : HeldOK(n)'
    <3> TAKE n \in Private
    <3>1. HeldOK(n) /\ OpOK(n) /\ n \in Machines /\ n \notin Plain
      BY NetworkAssumption, Zenon DEF IInv, Machines
    <3>2. CASE n = m
      <4>1. vm[n] = None
        BY <1>0, <3>1, <3>2, ZenonT(60) DEF HeldOK, OpOK
      <4> QED BY <1>0, <1>1, <2>1, <2>2, <2>4, <3>1, <3>2, <4>1, SMTT(60) DEF HeldOK, Finding, Making
    <3>3. CASE n # m
      <4>1. ~ Uses(n, k) /\ op'[n] = op[n]
        BY <2>1, <2>3, <3>1, <3>3, ZenonT(60) DEF IInv, OwnInv
      <4>2. (vm[n] # None => row'[vm[n]] = row[vm[n]])
            /\ (op[n].pc \in {"attach", "unsave", "launch"} => row'[op[n].id] = row[op[n].id])
        BY <2>2, <3>1, <4>1, ZenonT(60) DEF HeldOK, OpOK, Uses, Making
      <4> QED BY <1>0, <3>1, <4>1, <4>2, ZenonT(60) DEF HeldOK
    <3> QED BY <3>2, <3>3, Zenon
  <2> QED BY <2>5, <2>6, <2>8, <2>9, <2>10, <2>11, <2>12, <2>13, Zenon DEF IInv
<1> QED BY <1>2, <1>3, ZenonT(60) DEF save_network_instance

\* The attachment is saved, to the instance just made or to the one found.
LEMMA AttachSteps ==
    ASSUME IInv, NEW m \in Machines, attach_network(m) \/ attach_existing_runtime(m)
    PROVE  IInv'
<1>0. /\ UNCHANGED <<row, helper, dir, vm, deaths, crashes>> /\ op[m].pc \in {"attach", "reuse"} /\ TypeOK /\ OpOK(m)
      /\ att[m] = None /\ op[m].start /\ ~ op[m].running /\ op[m].id \in Nets /\ m \notin Plain
      /\ link' \in [Machines -> Nets \cup {None}]
  BY ZenonT(60) DEF attach_network, attach_existing_runtime, bounds, IInv, OpOK, Finding, Making, TypeOK
<1>1. PICK k \in Nets : k = op[m].id
  BY <1>0, ZenonT(60)
<1>2. CASE UNCHANGED att
  <2>1. att' # [att EXCEPT ![m] = op[m].id]
    BY <1>0, <1>2, NetworkAssumption, ZenonT(60) DEF TypeOK
  <2>2. \/ op[m].pc = "attach" /\ (row[op[m].id] = "absent" \/ StoreFails) /\ Goto(m, "unsave")
        \/ op[m].pc = "reuse" /\ Return(m)
    BY <2>1, ZenonT(60) DEF attach_network, attach_existing_runtime
  <2> QED BY <1>0, <1>2, <2>2, FailingSteps, ZenonT(60)
<1>3. ASSUME row[k] # "absent", att' = [att EXCEPT ![m] = k], Goto(m, "launch") PROVE IInv'
  <2>1. /\ op' \in [Machines -> Operation] /\ op'[m].pc = "launch" /\ op'[m].id = k
        /\ op'[m].running = op[m].running /\ op'[m].start = op[m].start
        /\ \A n \in Machines : n # m => op'[n] = op[n]
    BY <1>0, <1>1, <1>3, GotoFacts, ZenonT(60) DEF Places
  <2>2. /\ att' \in [Machines -> Nets \cup {None}] /\ att'[m] = k /\ \A n \in Machines : n # m => att'[n] = att[n]
    BY <1>0, <1>3, ZenonT(60) DEF TypeOK
  <2>3. Uses(m, k) /\ helper[k] # "none"
    BY <1>0, <1>1, ZenonT(60) DEF Uses, Finding, Making, IInv, RowInv
  <2>4. TypeOK'
    BY <1>0, <2>1, <2>2, ZenonT(60) DEF TypeOK
  <2>5. RowInv'
    BY <1>0, <1>1, <1>3, <2>1, <2>2, <2>3, SMTT(60) DEF IInv, RowInv
  <2>6. \A n \in Machines, i \in Nets : Uses(n, i)' => Uses(n, i)
    BY <1>0, <1>1, <2>1, <2>2, <2>3, SMTT(60) DEF Uses
  <2>7. KindInv'
    BY <1>0, <2>6, ZenonT(60) DEF IInv, KindInv
  <2>8. OwnInv'
    <3>1. \A n \in Machines : op'[n].pc \in Making => op[n].pc \in Making /\ op'[n].id = op[n].id
      BY <2>1, Zenon DEF Making
    <3> QED BY <2>6, <3>1 DEF IInv, OwnInv
  <2>9. LeakInv'
    <3> SUFFICES ASSUME NEW i \in Nets, helper[i] = "alive"
                 PROVE  /\ i \in dir
                        /\ crashes = 0 => \E n \in Machines : \/ att'[n] = i
                                                              \/ /\ op'[n].id = i
                                                                 /\ op'[n].pc \in Making \cup {"count", "terminate"}
      BY <1>0, ZenonT(60) DEF LeakInv
    <3>1. i \in dir
      BY ZenonT(60) DEF IInv, LeakInv
    <3>2. ASSUME crashes = 0
          PROVE  \E n \in Machines : att'[n] = i \/ (op'[n].id = i /\ op'[n].pc \in Making \cup {"count", "terminate"})
      <4>1. PICK n \in Machines : att[n] = i \/ (op[n].id = i /\ op[n].pc \in Making \cup {"count", "terminate"})
        BY <3>2, ZenonT(60) DEF IInv, LeakInv
      <4>2. CASE n = m
        <5>1. i = k
          BY <1>0, <1>1, <4>1, <4>2, NetworkAssumption, ZenonT(60)
        <5> QED BY <2>2, <5>1, ZenonT(60)
      <4>3. CASE n # m
        BY <2>1, <2>2, <4>1, <4>3, ZenonT(60)
      <4> QED BY <4>2, <4>3, ZenonT(60)
    <3> QED BY <3>1, <3>2, ZenonT(60)
  <2>10. SameInv'
    <3>1. m \in Named => row[k] = "named"
      BY <1>0, <1>3, <2>3, ZenonT(60) DEF IInv, KindInv, TypeOK
    <3>2. \A i, j \in Nets : row'[i] = "named" /\ row'[j] = "named" => i = j
      BY <1>0, ZenonT(60) DEF IInv, SameInv
    <3>3. ASSUME ~ StoreFails, NEW n \in Machines, op'[n].pc = "unsave" PROVE row'[op'[n].id] = "absent"
      BY <1>0, <2>1, <3>3, SMTT(60) DEF IInv, SameInv
    <3>4. ASSUME ~ StoreFails, NEW n \in Named, NEW i \in Nets, helper'[i] = "alive",
                 vm'[n] = i \/ (op'[n].pc \in {"attach", "launch"} /\ op'[n].id = i)
          PROVE  row'[i] = "named"
      BY <1>0, <2>1, <3>1, <3>4, SMTT(60) DEF IInv, SameInv, Machines
    <3> QED BY <3>2, <3>3, <3>4, ZenonT(60) DEF SameInv
  <2>11. \A n \in Machines : OpOK(n)'
    <3> TAKE n \in Machines
    <3>1. CASE n = m
      BY <1>0, <1>1, <2>1, <3>1, ZenonT(60) DEF OpOK, Finding, Making
    <3>2. CASE n # m
      BY <1>0, <2>1, <2>2, <3>2, SMTT(60) DEF IInv, OpOK
    <3> QED BY <3>1, <3>2, ZenonT(60)
  <2>12. \A n \in Private : HeldOK(n)'
    <3> TAKE n \in Private
    <3>1. HeldOK(n) /\ OpOK(n) /\ n \in Machines /\ n \notin Plain /\ n \notin Named
      BY NetworkAssumption, ZenonT(60) DEF IInv, Machines
    <3>2. CASE n = m
      <4>1. vm[n] = None /\ op[m].pc = "attach"
        BY <1>0, <3>1, <3>2, ZenonT(60) DEF HeldOK, OpOK
      <4> QED BY <1>0, <1>1, <2>1, <2>2, <3>1, <3>2, <4>1, SMTT(60) DEF HeldOK, Finding, Making
    <3>3. CASE n # m
      BY <1>0, <2>1, <2>2, <3>1, <3>3, SMTT(60) DEF HeldOK
    <3> QED BY <3>2, <3>3, Zenon
  <2> QED BY <2>4, <2>5, <2>7, <2>8, <2>9, <2>10, <2>11, <2>12, ZenonT(60) DEF IInv
<1> QED BY <1>1, <1>2, <1>3, ZenonT(60) DEF attach_network, attach_existing_runtime

\* The machine comes up on what the operation has in hand, or stays down.
LEMMA LaunchStep ==
    ASSUME IInv, NEW m \in Machines, Launch(m)
    PROVE  IInv'
<1>0. /\ UNCHANGED <<row, helper, dir, att, link, deaths, crashes>> /\ op[m].pc = "launch" /\ TypeOK /\ OpOK(m)
      /\ Return(m) /\ link' \in [Machines -> Nets \cup {None}] /\ crashes' \in 0..MaxCrashes
      /\ (m \notin Plain => op[m].id \in Nets)
  BY ZenonT(60) DEF Launch, bounds, IInv, OpOK, TypeOK
<1>1. CASE UNCHANGED vm
  BY <1>0, <1>1, ReturnStep, ZenonT(60) DEF Making
<1>2. ASSUME vm' = [vm EXCEPT ![m] = IF m \in Plain THEN 0 ELSE op[m].id] PROVE IInv'
  <2>1. PICK k \in Nets \cup {0} : k = (IF m \in Plain THEN 0 ELSE op[m].id)
    BY <1>0, ZenonT(60)
  <2>2. vm' \in [Machines -> Nets \cup {0, None}] /\ vm'[m] = k /\ \A n \in Machines : n # m => vm'[n] = vm[n]
    BY <1>0, <1>2, <2>1, ZenonT(60) DEF TypeOK
  <2>3. /\ op' \in [Machines -> Operation] /\ op'[m].pc = "idle" /\ op'[m].id = None
        /\ op'[m].running = FALSE /\ op'[m].start = FALSE
        /\ \A n \in Machines : n # m => op'[n] = op[n]
    BY <1>0, ReturnFacts, ZenonT(60)
  <2>4. k \in Nets => m \notin Plain /\ k = op[m].id /\ Uses(m, k)
    BY <1>0, <2>1 DEF Uses, Nets
  <2>5. TypeOK'
    BY <1>0, <2>2, <2>3, ZenonT(60) DEF TypeOK
  <2>6. RowInv'
    BY <1>0, <2>2, <2>3, <2>4, NetworkAssumption, SMTT(60) DEF IInv, RowInv
  <2>7. \A n \in Machines, i \in Nets : Uses(n, i)' => Uses(n, i)
    BY <1>0, <2>2, <2>3, <2>4, PlaceFacts, SMTT(60) DEF Uses
  <2>8. KindInv'
    BY <1>0, <2>7, ZenonT(60) DEF IInv, KindInv
  <2>9. OwnInv'
    <3>1. \A n \in Machines : op'[n].pc \in Making => op[n].pc \in Making /\ op'[n].id = op[n].id
      BY <2>3, ZenonT(60) DEF Making
    <3> QED BY <2>7, <3>1 DEF IInv, OwnInv
  <2>10. LeakInv'
    <3>1. op[m].pc \notin Making \cup {"count", "terminate"}
      BY <1>0, Zenon DEF Making
    <3> QED BY <1>0, <2>3, <3>1, SMTT(60) DEF IInv, LeakInv
  <2>11. SameInv'
    <3>1. \A i, j \in Nets : row'[i] = "named" /\ row'[j] = "named" => i = j
      BY <1>0, ZenonT(60) DEF IInv, SameInv
    <3>2. ASSUME ~ StoreFails, NEW n \in Machines, op'[n].pc = "unsave" PROVE row'[op'[n].id] = "absent"
      BY <1>0, <2>3, <3>2, SMTT(60) DEF IInv, SameInv
    <3>3. ASSUME ~ StoreFails, NEW n \in Named, NEW i \in Nets, helper'[i] = "alive",
                 vm'[n] = i \/ (op'[n].pc \in {"attach", "launch"} /\ op'[n].id = i)
          PROVE  row'[i] = "named"
      <4>1. CASE n = m
        BY <1>0, <2>2, <2>3, <2>4, <3>3, <4>1, SMTT(60) DEF IInv, SameInv
      <4>2. CASE n # m
        BY <1>0, <2>2, <2>3, <3>3, <4>2, SMTT(60) DEF IInv, SameInv, Machines
      <4> QED BY <4>1, <4>2, ZenonT(60)
    <3> QED BY <3>1, <3>2, <3>3, ZenonT(60) DEF SameInv
  <2>12. \A n \in Machines : OpOK(n)'
    <3> TAKE n \in Machines
    <3>1. CASE n = m
      BY <1>0, <2>3, <3>1, ZenonT(60) DEF OpOK, Finding, Making
    <3>2. CASE n # m
      BY <1>0, <2>3, <3>2, SMTT(60) DEF IInv, OpOK
    <3> QED BY <3>1, <3>2, ZenonT(60)
  <2>13. \A n \in Private : HeldOK(n)'
    <3> TAKE n \in Private
    <3>1. HeldOK(n) /\ n \in Machines /\ n \notin Plain
      BY NetworkAssumption, ZenonT(60) DEF IInv, Machines
    <3>2. CASE n = m
      BY <1>0, <2>1, <2>2, <2>3, <3>1, <3>2, SMTT(60) DEF HeldOK, Finding, Making
    <3>3. CASE n # m
      BY <1>0, <2>2, <2>3, <3>1, <3>3, SMTT(60) DEF HeldOK
    <3> QED BY <3>2, <3>3, ZenonT(60)
  <2> QED BY <2>5, <2>6, <2>8, <2>9, <2>10, <2>11, <2>12, <2>13, ZenonT(60) DEF IInv
<1> QED BY <1>1, <1>2, Zenon DEF Launch

-----------------------------------------------------------------------------
(* The theorems *)

\* The invariant holds before anything was started, and every step keeps it.
THEOREM NetworkInvariance == Spec => []IInv
<1>1. Init => IInv
  <2> SUFFICES ASSUME Init PROVE IInv
    BY ZenonT(60)
  <2>1. Idle \in Operation /\ Idle.pc = "idle" /\ Idle.id = None /\ ~ Idle.running /\ ~ Idle.start
    BY ZenonT(60) DEF Idle, Operation, Places
  <2>2. \A m \in Machines : op[m] = Idle /\ att[m] = None /\ vm[m] = None
    BY ZenonT(60) DEF Init
  <2>3. \A i \in Nets : row[i] = "absent" /\ helper[i] = "none"
    BY ZenonT(60) DEF Init
  <2>4. TypeOK
    BY <2>1, NetworkAssumption DEF Init, TypeOK
  <2>5. RowInv /\ LeakInv /\ SameInv
    BY <2>1, <2>2, <2>3, NetworkAssumption, ZenonT(60) DEF RowInv, LeakInv, SameInv, Machines
  <2>6. \A m \in Machines, i \in Nets : ~ Uses(m, i)
    BY <2>1, <2>2, NetworkAssumption, ZenonT(60) DEF Uses
  <2>7. KindInv /\ OwnInv
    BY <2>1, <2>2, <2>6, NetworkAssumption, ZenonT(60) DEF KindInv, OwnInv
  <2>8. \A m \in Machines : OpOK(m)
    BY <2>1, <2>2, ZenonT(60) DEF OpOK, Finding, Making
  <2>9. \A m \in Private : HeldOK(m)
    BY <2>1, <2>2, ZenonT(60) DEF HeldOK, Making, Machines
  <2> QED BY <2>4, <2>5, <2>7, <2>8, <2>9, ZenonT(60) DEF IInv
<1>2. IInv /\ [Next]_vars => IInv'
  <2> SUFFICES ASSUME IInv, [Next]_vars PROVE IInv'
    BY ZenonT(60)
  <2>1. CASE UNCHANGED vars
    BY <2>1 DEF vars, IInv, TypeOK, RowInv, KindInv, OwnInv, LeakInv, SameInv, OpOK, HeldOK, Uses
  <2>2. ASSUME NEW m \in Machines, wait_for_netd_startup(m) PROVE IInv'
    <3>1. UNCHANGED <<row, helper, dir, att, vm, deaths, crashes>> /\ link' \in [Machines -> Nets \cup {None}]
      BY <2>2, ZenonT(60) DEF wait_for_netd_startup, bounds, IInv, TypeOK
    <3> QED BY <2>2, <3>1, FailingSteps, Zenon DEF wait_for_netd_startup
  <2>3. ASSUME NEW m \in Machines, Step(m) PROVE IInv'
    BY <2>2, <2>3, AttachmentStep, InstanceStep, DetachStep, CountStep, DownSteps, RemovalSteps, PrepareSteps,
       AttachSteps, SpawnStep, SaveStep, LaunchStep, ZenonT(60) DEF Step
  <2>4. CASE Next
    BY <2>3, <2>4, EnterSteps, VmStopsStep, CrashStep, HelperSteps, ZenonT(60) DEF Next
  <2> QED BY <2>1, <2>4, ZenonT(60)
<1> QED BY <1>1, <1>2, PTL DEF Spec

\* The rows, the helpers and the operations keep their types.
THEOREM NetworkTypeCorrect == Spec => []TypeOK
<1>1. IInv => TypeOK
  BY ZenonT(60) DEF IInv
<1> QED BY <1>1, NetworkInvariance, PTL

\* Nobody but the machine's own operations takes a private network down while the machine runs:
\* neither the reconciliations of other machines, nor failed starts, nor callers that are killed.
THEOREM PrivateIsHeld == Spec => []PrivateNetworkHeld
<1>1. IInv => PrivateNetworkHeld
  BY ZenonT(60) DEF IInv, HeldOK, PrivateNetworkHeld
<1> QED BY <1>1, NetworkInvariance, PTL

\* Calls that run to their end leave no helper behind, whichever of their store calls fail and
\* however the starts and stops of the machines that share a definition interleave.
THEOREM NoHelperIsLeft == Spec => []NothingLeaks
<1>1. IInv => NothingLeaks
  <2> SUFFICES ASSUME IInv, crashes = 0, \A m \in Machines : op[m].pc = "idle",
                      NEW i \in Nets, helper[i] = "alive"
               PROVE  row[i] # "absent" /\ i \in dir /\ \E m \in Machines : att[m] = i
    BY Zenon DEF NothingLeaks
  <2>1. "idle" \notin Making \cup {"count", "terminate"}
    BY Zenon DEF Making
  <2>2. i \in dir /\ \E m \in Machines : att[m] = i
    BY <2>1, Zenon DEF IInv, LeakInv
  <2> QED BY <2>2, NetworkAssumption, ZenonT(60) DEF IInv, RowInv
<1> QED BY <1>1, NetworkInvariance, PTL

\* Machines that run on the named network are plugged into one helper, for any number of machines,
\* helpers that die and callers that are killed, where the store's calls do not fail: an attachment
\* that fails takes back the row others have found.
THEOREM NamedShareOne == ASSUME ~ StoreFails PROVE Spec => []SameNetwork
<1>1. IInv => SameNetwork
  BY ZenonT(60) DEF IInv, SameInv, SameNetwork
<1> QED BY <1>1, NetworkInvariance, PTL
=============================================================================
