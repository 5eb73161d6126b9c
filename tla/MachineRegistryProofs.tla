----------------------- MODULE MachineRegistryProofs -----------------------
(***************************************************************************)
(* For any number of callers, machines and lock ids: lock ids are not      *)
(* shared, a machine's critical section has one caller at a time, what it  *)
(* changes is what the row holds, and the machine's directory and its row  *)
(* agree whenever no operation is half-way.                                *)
(***************************************************************************)
EXTENDS MachineRegistry, TLAPS

\* A caller whose lock id nobody else has: it will free the id or hand it to a row.
Owners == Creating \cup {"free"}

\* A caller that is making a machine.
Makers == Creating \cup {"allocate"}

\* A caller that has the lock file of an existing machine open.
Opened == {"flock", "tryflock", "resolve", "record"} \cup Inside

\* A caller that works on a machine it did not make.
Visitors == Opened \cup {"open", "tryopen"}

\* A caller that has its inode flocked.
Locked == {"resolve", "record", "free"} \cup Inside

\* Every row has its lock file, and the id is the row's own.
RowOK(m) ==
    row[m] # None =>
        /\ m \in born /\ path[row[m].lock_id] # None
        /\ \A n \in Machines : row[n] # None /\ row[n].lock_id = row[m].lock_id => n = m

\* What a caller knows, by where it is.  A visitor's lock id and inode are those of its
\* machine only while the machine is there: that is what the second read is for.
CallerOK(c) ==
    /\ pc[c] = "idle" => mach[c] = None
    /\ pc[c] # "idle" => mach[c] \in born /\ lock[c] \in LockIds /\ conf[c] \in MachineConfig
    /\ pc[c] \in Makers => row[mach[c]] = None
    /\ pc[c] \in Owners => path[lock[c]] # None
    /\ pc[c] \in Owners => \A m \in Machines : row[m] # None => row[m].lock_id # lock[c]
    /\ pc[c] \in Creating \cup Inside => conf[c].lock_id = lock[c]
    /\ pc[c] \in Visitors /\ row[mach[c]] # None => row[mach[c]].lock_id = lock[c]
    /\ pc[c] \in Opened \cup Locked => fd[c] \in Inodes
    /\ pc[c] \in Opened /\ row[mach[c]] # None => path[lock[c]] = fd[c]
    /\ pc[c] \in Locked => holder[fd[c]] = c
    /\ pc[c] \in Inside => row[mach[c]] # None
    /\ pc[c] = "change" => conf[c] = row[mach[c]]

\* Nobody else is about a machine that is being made, or owns another's lock id.
PairOK(c, d) ==
    /\ pc[c] \in Makers => mach[d] # mach[c]
    /\ pc[c] \in Owners /\ pc[d] \in Owners => lock[c] # lock[d]

\* The inductive invariant.
IInv ==
    /\ TypeOK
    /\ \A m \in Machines : RowOK(m)
    /\ \A c \in Callers : CallerOK(c)
    /\ \A c, d \in Callers : c # d => PairOK(c, d)

-----------------------------------------------------------------------------
(* Facts about the places and the types *)

\* How the sets of places lie, so that no later step has to list them.
LEMMA PlaceFacts ==
    /\ Owners \subseteq Places /\ Visitors \subseteq Places /\ Makers \subseteq Places
    /\ Locked \subseteq Places
    /\ Inside \subseteq Opened /\ Inside \subseteq Locked /\ Opened \subseteq Visitors
    /\ Creating \subseteq Owners /\ Creating \subseteq Makers
    /\ "idle" \in Places /\ "change" \in Inside
    /\ "idle" \notin Owners \cup Visitors \cup Makers \cup Locked
    /\ Makers \cap Visitors = {} /\ Owners \cap Visitors = {}
BY Zenon DEF Owners, Makers, Opened, Visitors, Locked, Creating, Inside, Places

\* A row has a lock id, and lock ids and inodes are not None.
LEMMA TypeFacts ==
    ASSUME TypeOK
    PROVE  /\ \A m \in Machines : row[m] # None => row[m] \in MachineConfig /\ row[m].lock_id \in LockIds
           /\ None \notin LockIds /\ None \notin Inodes /\ None \notin Machines
           /\ born \subseteq Machines
BY RegistryAssumption, Zenon DEF TypeOK, MachineConfig

\* The lock gives exclusion: two callers inside one machine's critical section hold the
\* inode at the path of its lock id.
LEMMA Exclusive ==
    ASSUME IInv PROVE OneInside
<1> SUFFICES ASSUME NEW c \in Callers, NEW d \in Callers,
                    pc[c] \in Inside, pc[d] \in Inside, mach[c] = mach[d]
             PROVE  c = d
  BY Zenon DEF OneInside
<1>1. row[mach[c]] # None /\ lock[c] = row[mach[c]].lock_id /\ path[lock[c]] = fd[c] /\ holder[fd[c]] = c
  BY PlaceFacts, Zenon DEF IInv, CallerOK
<1>2. row[mach[d]] # None /\ lock[d] = row[mach[d]].lock_id /\ path[lock[d]] = fd[d] /\ holder[fd[d]] = d
  BY PlaceFacts, Zenon DEF IInv, CallerOK
<1> QED BY <1>1, <1>2, Zenon

-----------------------------------------------------------------------------
(* What the other callers keep *)

\* The step is c's: it leaves the others' locals and flocks alone.
Frame(c) ==
    /\ \A d \in Callers : d # c =>
        /\ pc'[d] = pc[d] /\ mach'[d] = mach[d] /\ lock'[d] = lock[d]
        /\ fd'[d] = fd[d] /\ conf'[d] = conf[d]
    /\ \A d \in Callers : \A i \in Inodes : d # c /\ holder[i] = d => holder'[i] = d

\* A step that touches neither the rows nor the lock files.
LEMMA KeepWorld ==
    ASSUME IInv, NEW c \in Callers, NEW d \in Callers, d # c, Frame(c),
           row' = row, path' = path, born \subseteq born'
    PROVE  CallerOK(d)'
BY PlaceFacts DEF IInv, CallerOK, Frame

\* A lock file is made at an id that has none.
LEMMA KeepCreate ==
    ASSUME IInv, NEW c \in Callers, NEW d \in Callers, d # c, Frame(c),
           row' = row, born' = born,
           NEW l \in LockIds, NEW i, path[l] = None, path' = [path EXCEPT ![l] = i]
    PROVE  CallerOK(d)'
<1>1. pc[d] # "idle" => lock[d] \in LockIds /\ mach[d] \in Machines
  BY TypeFacts, Zenon DEF IInv, CallerOK
<1>2. pc[d] \in Owners => path'[lock[d]] = path[lock[d]]
  BY <1>1, PlaceFacts DEF IInv, CallerOK, TypeOK
<1>3. pc[d] \in Opened /\ row[mach[d]] # None => path'[lock[d]] = path[lock[d]]
  BY <1>1, PlaceFacts DEF IInv, CallerOK, RowOK, TypeOK
<1> QED BY <1>1, <1>2, <1>3, PlaceFacts DEF IInv, CallerOK, Frame

\* An owner frees its lock id.
LEMMA KeepFree ==
    ASSUME IInv, NEW c \in Callers, NEW d \in Callers, d # c, Frame(c),
           row' = row, born' = born, pc[c] \in Owners,
           path' = [path EXCEPT ![lock[c]] = None]
    PROVE  CallerOK(d)'
<1>1. pc[d] # "idle" => lock[d] \in LockIds /\ mach[d] \in Machines
  BY TypeFacts, Zenon DEF IInv, CallerOK
<1>2. pc[d] \in Owners => path'[lock[d]] = path[lock[d]]
  BY <1>1, PlaceFacts DEF IInv, PairOK, TypeOK
<1>3. pc[d] \in Opened /\ row[mach[d]] # None => path'[lock[d]] = path[lock[d]]
  BY <1>1, PlaceFacts DEF IInv, CallerOK, TypeOK
<1> QED BY <1>1, <1>2, <1>3, PlaceFacts DEF IInv, CallerOK, Frame

\* A maker commits its row.
LEMMA KeepCommit ==
    ASSUME IInv, NEW c \in Callers, NEW d \in Callers, d # c, Frame(c),
           path' = path, born' = born, pc[c] \in Creating,
           row' = [row EXCEPT ![mach[c]] = conf[c]]
    PROVE  CallerOK(d)'
<1>1. pc[d] # "idle" => lock[d] \in LockIds /\ mach[d] \in Machines
  BY TypeFacts, Zenon DEF IInv, CallerOK
<1>2. mach[d] # mach[c] /\ conf[c].lock_id = lock[c]
  BY PlaceFacts, Zenon DEF IInv, PairOK, CallerOK
<1>3. pc[d] # "idle" => row'[mach[d]] = row[mach[d]]
  BY <1>1, <1>2, Zenon DEF IInv, TypeOK
<1>4. pc[d] \in Owners => \A m \in Machines : row'[m] # None => row'[m].lock_id # lock[d]
  BY <1>2, PlaceFacts DEF IInv, TypeOK, CallerOK, PairOK
<1> QED BY <1>1, <1>3, <1>4, PlaceFacts DEF IInv, CallerOK, Frame

\* A caller inside stores a config with the lock id it found.
LEMMA KeepSave ==
    ASSUME IInv, NEW c \in Callers, NEW d \in Callers, d # c, Frame(c),
           path' = path, born' = born, pc[c] \in Inside,
           row' = [row EXCEPT ![mach[c]] = conf[c]]
    PROVE  CallerOK(d)'
<1>1. pc[d] # "idle" => lock[d] \in LockIds /\ mach[d] \in Machines
  BY TypeFacts, Zenon DEF IInv, CallerOK
<1>2. /\ mach[c] \in Machines /\ row[mach[c]] # None /\ row[mach[c]].lock_id = lock[c]
      /\ conf[c].lock_id = lock[c] /\ conf[c] # None
  BY PlaceFacts, TypeFacts, NoneIsNoConfig DEF IInv, CallerOK
<1>3. \A m \in Machines : (row'[m] # None <=> row[m] # None) /\ row'[m].lock_id = row[m].lock_id
  BY <1>2, Zenon DEF IInv, TypeOK
<1>4. pc[d] \in Makers => row'[mach[d]] = None
  BY <1>1, <1>3, PlaceFacts DEF IInv, CallerOK
<1>5. pc[d] \in Inside => row'[mach[d]] = row[mach[d]]
  BY <1>1, Exclusive, PlaceFacts DEF OneInside, IInv, TypeOK
<1> QED BY <1>1, <1>3, <1>4, <1>5, PlaceFacts DEF IInv, CallerOK, Frame

\* A caller inside removes its row.
LEMMA KeepRemove ==
    ASSUME IInv, NEW c \in Callers, NEW d \in Callers, d # c, Frame(c),
           path' = path, born' = born, pc[c] \in Inside,
           row' = [row EXCEPT ![mach[c]] = None]
    PROVE  CallerOK(d)'
<1>1. pc[d] # "idle" => lock[d] \in LockIds /\ mach[d] \in Machines
  BY TypeFacts, Zenon DEF IInv, CallerOK
<1>2. \A m \in Machines : row'[m] # None => row'[m] = row[m]
  BY Zenon DEF IInv, TypeOK
<1>3. pc[d] \in Inside => row'[mach[d]] = row[mach[d]]
  BY <1>1, Exclusive, PlaceFacts DEF OneInside, IInv, TypeOK
<1> QED BY <1>1, <1>2, <1>3, PlaceFacts DEF IInv, CallerOK, Frame

-----------------------------------------------------------------------------
(* What the rows keep *)

\* The rows stay well-formed when neither they nor the lock files change,
LEMMA RowsWorld ==
    ASSUME IInv, NEW m \in Machines, row' = row, path' = path, born \subseteq born'
    PROVE  RowOK(m)'
BY Zenon DEF IInv, RowOK

\* when a lock file is made,
LEMMA RowsCreate ==
    ASSUME IInv, NEW m \in Machines, row' = row, born' = born,
           NEW l \in LockIds, NEW i \in Inodes, path' = [path EXCEPT ![l] = i]
    PROVE  RowOK(m)'
<1>1. row[m] # None => path'[row[m].lock_id] # None
  BY TypeFacts, ZenonT(60) DEF IInv, RowOK, TypeOK
<1> QED BY <1>1, Zenon DEF IInv, RowOK

\* when an owner frees its id,
LEMMA RowsFree ==
    ASSUME IInv, NEW m \in Machines, NEW c \in Callers, pc[c] \in Owners, row' = row, born' = born,
           path' = [path EXCEPT ![lock[c]] = None]
    PROVE  RowOK(m)'
<1>1. row[m] # None => path'[row[m].lock_id] # None
  BY TypeFacts DEF IInv, RowOK, CallerOK, TypeOK
<1> QED BY <1>1, ZenonT(60) DEF IInv, RowOK

\* when a maker commits or a caller inside stores a config,
LEMMA RowsStore ==
    ASSUME IInv, NEW m \in Machines, NEW c \in Callers, pc[c] \in Creating \cup Inside,
           path' = path, born' = born, row' = [row EXCEPT ![mach[c]] = conf[c]]
    PROVE  RowOK(m)'
<1>1. /\ mach[c] \in Machines /\ mach[c] \in born /\ lock[c] \in LockIds
      /\ conf[c].lock_id = lock[c] /\ conf[c] # None
  BY PlaceFacts, TypeFacts, NoneIsNoConfig DEF IInv, CallerOK
<1>2. path[lock[c]] # None
  BY PlaceFacts, SMTT(60) DEF IInv, CallerOK, RowOK, TypeOK
<1>3. \A n \in Machines : n # mach[c] => row'[n] = row[n]
  BY Zenon DEF IInv, TypeOK
<1>4. row'[mach[c]] = conf[c]
  BY <1>1, Zenon DEF IInv, TypeOK
<1>5. \A n \in Machines : n # mach[c] /\ row[n] # None => row[n].lock_id # lock[c]
  BY <1>1, PlaceFacts DEF IInv, CallerOK, RowOK
<1>6. CASE m = mach[c]
  BY <1>1, <1>2, <1>3, <1>4, <1>5, <1>6 DEF RowOK
<1>7. CASE m # mach[c]
  BY <1>1, <1>3, <1>4, <1>5, <1>7 DEF RowOK, IInv
<1> QED BY <1>6, <1>7, Zenon

\* and when a row is removed.
LEMMA RowsRemove ==
    ASSUME IInv, NEW m \in Machines, NEW k, path' = path, born' = born,
           row' = [row EXCEPT ![k] = None]
    PROVE  RowOK(m)'
<1>1. \A n \in Machines : row'[n] # None => row'[n] = row[n]
  BY Zenon DEF IInv, TypeOK
<1> QED BY <1>1 DEF IInv, RowOK

-----------------------------------------------------------------------------
(* The step of one caller *)

\* The invariant is put together from what the step does to the rows, to the caller that
\* takes it, to the others, and to its relation with them.
LEMMA Assemble ==
    ASSUME IInv, NEW c \in Callers, Frame(c), TypeOK',
           \A m \in Machines : RowOK(m)',
           CallerOK(c)',
           \A d \in Callers : d # c => CallerOK(d)',
           \A d \in Callers : d # c /\ pc'[c] \in Makers => mach[d] # mach'[c],
           \A d \in Callers : d # c /\ pc[d] \in Makers => mach'[c] # mach[d],
           \A d \in Callers : d # c /\ pc'[c] \in Owners /\ pc[d] \in Owners => lock'[c] # lock[d]
    PROVE  IInv'
<1>1. ASSUME NEW d \in Callers, NEW e \in Callers, d # e PROVE PairOK(d, e)'
  <2>1. CASE d = c
    BY <1>1, <2>1, ZenonT(60) DEF PairOK, Frame
  <2>2. CASE e = c
    BY <1>1, <2>2, ZenonT(60) DEF PairOK, Frame
  <2>3. CASE d # c /\ e # c
    BY <1>1, <2>3 DEF PairOK, Frame, IInv
  <2> QED BY <2>1, <2>2, <2>3, ZenonT(60)
<1> QED BY <1>1, ZenonT(60) DEF IInv

\* A step that moves the caller on and changes none of its locals' relations to others.
LEMMA Moves ==
    ASSUME IInv, NEW c \in Callers, Frame(c), TypeOK',
           \A m \in Machines : RowOK(m)',
           CallerOK(c)',
           \A d \in Callers : d # c => CallerOK(d)',
           mach' = mach, lock' = lock,
           pc'[c] \in Makers => pc[c] \in Makers,
           pc'[c] \in Owners => pc[c] \in Owners
    PROVE  IInv'
<1>1. \A d \in Callers : d # c /\ pc'[c] \in Makers => mach[d] # mach'[c]
  BY ZenonT(60) DEF IInv, PairOK
<1>2. \A d \in Callers : d # c /\ pc[d] \in Makers => mach'[c] # mach[d]
  BY ZenonT(60) DEF IInv, PairOK
<1>3. \A d \in Callers : d # c /\ pc'[c] \in Owners /\ pc[d] \in Owners => lock'[c] # lock[d]
  BY ZenonT(60) DEF IInv, PairOK
<1> QED BY <1>1, <1>2, <1>3, Assemble, Zenon

\* Returning forgets everything and keeps the others' flocks.
LEMMA ReturnLocals ==
    ASSUME IInv, NEW c \in Callers, Return(c)
    PROVE  /\ Frame(c) /\ CallerOK(c)'
           /\ pc' \in [Callers -> Places] /\ mach' \in [Callers -> Machines \cup {None}]
           /\ lock' \in [Callers -> LockIds \cup {None}] /\ fd' \in [Callers -> Inodes \cup {None}]
           /\ conf' \in [Callers -> MachineConfig \cup {None}]
           /\ holder' \in [Inodes -> Callers \cup {None}]
           /\ pc'[c] = "idle" /\ mach'[c] = None
<1>1. pc'[c] = "idle" /\ mach'[c] = None
  BY ZenonT(60) DEF IInv, TypeOK, Return, Goto
<1>2. CallerOK(c)'
  BY <1>1, PlaceFacts, ZenonT(60) DEF CallerOK
<1>3. \A d \in Callers : d # c =>
        /\ pc'[d] = pc[d] /\ mach'[d] = mach[d] /\ lock'[d] = lock[d]
        /\ fd'[d] = fd[d] /\ conf'[d] = conf[d]
  BY ZenonT(60) DEF IInv, TypeOK, Return, Goto
<1>4. \A d \in Callers : \A i \in Inodes : d # c /\ holder[i] = d => holder'[i] = d
  BY Zenon DEF Return
<1>5. Frame(c)
  BY <1>3, <1>4, ZenonT(60) DEF Frame
<1>6. /\ pc' \in [Callers -> Places] /\ mach' \in [Callers -> Machines \cup {None}]
      /\ lock' \in [Callers -> LockIds \cup {None}] /\ fd' \in [Callers -> Inodes \cup {None}]
      /\ conf' \in [Callers -> MachineConfig \cup {None}]
  BY PlaceFacts, ZenonT(60) DEF IInv, TypeOK, Return, Goto
<1>7. holder' \in [Inodes -> Callers \cup {None}]
  BY ZenonT(60) DEF IInv, TypeOK, Return
<1> QED BY <1>1, <1>2, <1>5, <1>6, <1>7, ZenonT(60)

\* A call that returns preserves the invariant if the rows and the other callers allow it.
LEMMA Returns ==
    ASSUME IInv, NEW c \in Callers, Return(c),
           born' = born, row' \in [Machines -> MachineConfig \cup {None}],
           file' \in [Machines -> Specs \cup {None}], path' \in [LockIds -> Inodes \cup {None}],
           crashes' \in 0..MaxCrashes,
           \A m \in Machines : RowOK(m)',
           \A d \in Callers : d # c => CallerOK(d)'
    PROVE  IInv'
<1>1. TypeOK'
  BY ReturnLocals, ZenonT(60) DEF IInv, TypeOK
<1>2. pc'[c] \notin Makers /\ pc'[c] \notin Owners
  BY ReturnLocals, PlaceFacts, ZenonT(60)
<1>3. \A d \in Callers : pc[d] \in Makers => mach'[c] # mach[d]
  <2>1. SUFFICES ASSUME NEW d \in Callers, pc[d] \in Makers PROVE mach'[c] # mach[d]
    BY Zenon
  <2>2. mach'[c] = None
    BY ReturnLocals, ZenonT(60)
  <2>3. pc[d] # "idle"
    BY <2>1, PlaceFacts, ZenonT(60)
  <2>4. mach[d] \in born
    BY <2>3, ZenonT(60) DEF IInv, CallerOK
  <2> QED BY <2>2, <2>4, TypeFacts, Zenon DEF IInv
<1> QED BY <1>1, <1>2, <1>3, ReturnLocals, Assemble, ZenonT(60)

\* In particular, if it leaves rows and lock files alone.
LEMMA ReturnsOnly ==
    ASSUME IInv, NEW c \in Callers, Return(c), UNCHANGED <<born, row, path>>,
           file' \in [Machines -> Specs \cup {None}], crashes' \in 0..MaxCrashes
    PROVE  IInv'
<1>1. \A m \in Machines : RowOK(m)'
  BY RowsWorld, ZenonT(60)
<1>2. \A d \in Callers : d # c => CallerOK(d)'
  BY ReturnLocals, KeepWorld, ZenonT(60)
<1>3. row' \in [Machines -> MachineConfig \cup {None}] /\ path' \in [LockIds -> Inodes \cup {None}]
  BY ZenonT(60) DEF IInv, TypeOK
<1> QED BY <1>1, <1>2, <1>3, Returns, ZenonT(60)

\* A caller's frame when it goes to another place.
LEMMA GotoFrame ==
    ASSUME TypeOK, NEW c \in Callers, NEW place \in Places, Goto(c, place)
    PROVE  /\ pc' \in [Callers -> Places] /\ pc'[c] = place
           /\ \A d \in Callers : d # c => pc'[d] = pc[d]
BY ZenonT(60) DEF TypeOK, Goto

-----------------------------------------------------------------------------
(* The actions *)

\* Drawing a fresh machine id: nobody is about it.
LEMMA CreateStep ==
    ASSUME IInv, NEW c \in Callers, NEW name \in Names, NEW spec \in Specs, NEW k \in Machines,
           create_machine_guard(c, name, spec, k)
    PROVE  IInv'
<1>0. 0 \in LockIds /\ "allocate" \in Places /\ "allocate" \in Makers /\ "allocate" \notin Owners
      /\ "allocate" \notin Creating \cup Inside /\ "allocate" \notin Opened \cup Locked
      /\ "allocate" \notin Visitors
  BY RegistryAssumption DEF LockIds, Places, Makers, Owners, Creating, Inside, Opened, Locked, Visitors
<1>1. [name |-> name, lock_id |-> 0, spec |-> spec] \in MachineConfig
  BY <1>0, ZenonT(60) DEF MachineConfig
<1>2. /\ pc'[c] = "allocate" /\ mach'[c] = k /\ lock'[c] = 0 /\ conf'[c] \in MachineConfig
      /\ born' = born \cup {k} /\ row' = row /\ path' = path /\ k \notin born
  BY <1>1, ZenonT(60) DEF create_machine_guard, Goto, IInv, TypeOK
<1>3. Frame(c)
  BY ZenonT(60) DEF create_machine_guard, Goto, IInv, TypeOK, Frame
<1>4. TypeOK'
  BY <1>0, <1>1, Zenon DEF create_machine_guard, Goto, IInv, TypeOK
<1>5. row[k] = None
  BY <1>2, ZenonT(60) DEF IInv, RowOK
<1>6. CallerOK(c)'
  BY <1>0, <1>2, <1>5, ZenonT(60) DEF CallerOK
<1>7. \A d \in Callers : mach[d] # k
  BY <1>2, TypeFacts DEF IInv, CallerOK
<1>8. \A d \in Callers : d # c => CallerOK(d)'
  BY <1>2, <1>3, KeepWorld, Zenon
<1>9. \A m \in Machines : RowOK(m)'
  BY <1>2, RowsWorld, ZenonT(60)
<1> QED BY <1>0, <1>2, <1>3, <1>4, <1>6, <1>7, <1>8, <1>9, Assemble, ZenonT(60)

\* The scan for a lock id: an id without a file belongs to no row and to no owner.
LEMMA AllocateStep ==
    ASSUME IInv, NEW c \in Callers, allocate(c)
    PROVE  IInv'
<1>0. /\ "allocate" \in Makers /\ "allocate" \notin Owners \cup Creating \cup Inside \cup Opened \cup Locked \cup Visitors
      /\ "mkdir" \in Creating /\ "mkdir" \in Owners /\ "mkdir" \in Makers /\ "mkdir" \in Places
      /\ "mkdir" \notin Inside \cup Opened \cup Locked \cup Visitors
  BY ZenonT(60) DEF Places, Makers, Owners, Creating, Inside, Opened, Locked, Visitors
<1>1. /\ pc[c] = "allocate" /\ mach[c] \in born /\ mach[c] \in Machines /\ lock[c] \in LockIds
      /\ conf[c] \in MachineConfig /\ row[mach[c]] = None
  BY <1>0, TypeFacts DEF allocate, IInv, CallerOK
<1>2. CASE /\ path[lock[c]] = None
           /\ \E i \in Inodes : FreshInode(i) /\ path' = [path EXCEPT ![lock[c]] = i]
           /\ conf' = [conf EXCEPT ![c] = [conf[c] EXCEPT !.lock_id = lock[c]]]
           /\ Goto(c, "mkdir") /\ UNCHANGED lock
           /\ UNCHANGED <<born, row, file, holder, mach, fd, crashes>>
  <2>1. PICK i \in Inodes : path' = [path EXCEPT ![lock[c]] = i]
    BY <1>2, ZenonT(60)
  <2>2. [conf[c] EXCEPT !.lock_id = lock[c]] \in MachineConfig
        /\ [conf[c] EXCEPT !.lock_id = lock[c]].lock_id = lock[c]
    BY <1>1, ZenonT(60) DEF MachineConfig
  <2>3. conf'[c] = [conf[c] EXCEPT !.lock_id = lock[c]]
    BY <1>2, ZenonT(60) DEF IInv, TypeOK
  <2>4. Frame(c) /\ pc'[c] = "mkdir"
    BY <1>2, ZenonT(60) DEF Goto, IInv, TypeOK, Frame
  <2>5. TypeOK'
    BY <1>0, <1>1, <1>2, <2>1, <2>2, Zenon DEF Goto, IInv, TypeOK
  <2>6. path'[lock[c]] # None
    BY <1>1, <2>1, TypeFacts, ZenonT(60) DEF IInv, TypeOK
  <2>7. \A m \in Machines : row[m] # None => row[m].lock_id # lock[c]
    BY <1>2, ZenonT(60) DEF IInv, RowOK
  <2>8. CallerOK(c)'
    BY <1>0, <1>1, <1>2, <2>2, <2>3, <2>4, <2>6, <2>7, ZenonT(60) DEF CallerOK
  <2>9. \A d \in Callers : d # c => CallerOK(d)'
    BY <1>1, <1>2, <2>1, <2>4, KeepCreate, ZenonT(60)
  <2>10. \A m \in Machines : RowOK(m)'
    BY <1>1, <1>2, <2>1, RowsCreate, ZenonT(60)
  <2>11. \A d \in Callers : d # c /\ pc[d] \in Owners => lock'[c] # lock[d]
    BY <1>2, ZenonT(60) DEF IInv, CallerOK
  <2>12. \A d \in Callers : d # c => mach[d] # mach'[c]
    BY <1>0, <1>1, <1>2, ZenonT(60) DEF IInv, PairOK
  <2> QED BY <2>4, <2>5, <2>8, <2>9, <2>10, <2>11, <2>12, Assemble, Zenon
<1>3. CASE /\ lock[c] < MaxLockId
           /\ lock' = [lock EXCEPT ![c] = lock[c] + 1]
           /\ UNCHANGED <<path, conf, pc>>
           /\ UNCHANGED <<born, row, file, holder, mach, fd, crashes>>
  <2>1. lock[c] + 1 \in LockIds
    BY <1>1, <1>3, RegistryAssumption DEF LockIds
  <2>2. lock'[c] = lock[c] + 1 /\ \A d \in Callers : d # c => lock'[d] = lock[d]
    BY <1>3, ZenonT(60) DEF IInv, TypeOK
  <2>3. TypeOK'
    BY <1>3, <2>1, ZenonT(60) DEF IInv, TypeOK
  <2>4. Frame(c)
    BY <1>3, <2>2, ZenonT(60) DEF Frame
  <2>5. CallerOK(c)'
    BY <1>0, <1>1, <1>3, <2>1, <2>2, ZenonT(60) DEF CallerOK
  <2>6. \A d \in Callers : d # c => CallerOK(d)'
    BY <1>3, <2>4, KeepWorld, ZenonT(60)
  <2>7. \A m \in Machines : RowOK(m)'
    BY <1>3, RowsWorld, ZenonT(60)
  <2>8. \A d \in Callers : d # c => mach[d] # mach'[c]
    BY <1>0, <1>1, <1>3, ZenonT(60) DEF IInv, PairOK
  <2> QED BY <1>0, <1>1, <1>3, <2>3, <2>4, <2>5, <2>6, <2>7, <2>8, Assemble, ZenonT(60)
<1> QED BY <1>2, <1>3, ZenonT(60) DEF allocate

\* A caller that goes on with its locals, rows and lock files as they are.
LEMMA GoesOn ==
    ASSUME IInv, NEW c \in Callers, NEW place \in Places, Goto(c, place),
           UNCHANGED <<born, row, path, holder, locals, crashes>>,
           file' \in [Machines -> Specs \cup {None}],
           pc[c] # "idle", place # "idle", place # "change",
           place \in Makers => pc[c] \in Makers,
           place \in Owners => pc[c] \in Owners,
           place \in Creating \cup Inside => pc[c] \in Creating \cup Inside,
           place \in Visitors => pc[c] \in Visitors,
           place \in Opened => pc[c] \in Opened,
           place \in Locked => pc[c] \in Locked,
           place \in Inside => pc[c] \in Inside
    PROVE  IInv'
<1>1. pc'[c] = place /\ (\A d \in Callers : d # c => pc'[d] = pc[d]) /\ pc' \in [Callers -> Places]
  BY GotoFrame, ZenonT(60) DEF IInv
<1>2. Frame(c)
  BY <1>1, ZenonT(60) DEF Frame, locals
<1>3. TypeOK'
  BY <1>1, ZenonT(60) DEF IInv, TypeOK, locals
<1>4. CallerOK(c)'
  BY <1>1, ZenonT(60) DEF IInv, CallerOK, locals
<1>5. \A d \in Callers : d # c => CallerOK(d)'
  BY <1>2, KeepWorld, Zenon
<1>6. \A m \in Machines : RowOK(m)'
  BY RowsWorld, Zenon
<1> QED BY <1>1, <1>2, <1>3, <1>4, <1>5, <1>6, Moves, ZenonT(60) DEF locals

\* The maker's directory, its commit and its rollback.
LEMMA MakerSteps ==
    ASSUME IInv, NEW c \in Callers,
           create_machine_dir(c) \/ add_machine(c) \/ MachineCreateGuard(c)
    PROVE  IInv'
<1>0. /\ {"mkdir", "commit", "rollback"} \subseteq Creating
      /\ \A p \in Creating : p \in Makers /\ p \in Owners /\ p \in Places /\ p # "idle" /\ p # "change"
            /\ p \notin Inside \cup Opened \cup Locked \cup Visitors
  BY ZenonT(60) DEF Places, Makers, Owners, Creating, Inside, Opened, Locked, Visitors
<1>1. ASSUME pc[c] \in Creating
      PROVE  mach[c] \in Machines /\ conf[c] \in MachineConfig /\ conf[c].spec \in Specs /\ lock[c] \in LockIds
  BY <1>0, <1>1, TypeFacts, ZenonT(60) DEF IInv, CallerOK, MachineConfig
<1>2. CASE create_machine_dir(c)
  <2>1. pc[c] = "mkdir" /\ UNCHANGED <<born, row, path, holder, locals, crashes>>
    BY <1>2, ZenonT(60) DEF create_machine_dir
  <2>2. file' \in [Machines -> Specs \cup {None}]
    BY <1>0, <1>1, <1>2, ZenonT(60) DEF create_machine_dir, IInv, TypeOK
  <2>3. Goto(c, "commit") \/ Goto(c, "rollback")
    BY <1>2, ZenonT(60) DEF create_machine_dir
  <2>4. CASE Goto(c, "commit")
    BY <1>0, <2>1, <2>2, <2>4, GoesOn, ZenonT(60)
  <2>5. CASE Goto(c, "rollback")
    BY <1>0, <2>1, <2>2, <2>5, GoesOn, ZenonT(60)
  <2> QED BY <2>3, <2>4, <2>5, ZenonT(60)
<1>3. CASE add_machine(c)
  <2>1. pc[c] = "commit" /\ UNCHANGED <<born, file, path, crashes>>
    BY <1>3, ZenonT(60) DEF add_machine
  <2>2. CASE row' = [row EXCEPT ![mach[c]] = conf[c]] /\ Return(c)
    <3>1. \A m \in Machines : RowOK(m)'
      BY <1>0, <2>1, <2>2, RowsStore, ZenonT(60)
    <3>2. \A d \in Callers : d # c => CallerOK(d)'
      BY <1>0, <2>1, <2>2, ReturnLocals, KeepCommit, ZenonT(60)
    <3>3. row' \in [Machines -> MachineConfig \cup {None}]
      BY <1>0, <1>1, <2>1, <2>2, ZenonT(60) DEF IInv, TypeOK
    <3>4. file' \in [Machines -> Specs \cup {None}] /\ path' \in [LockIds -> Inodes \cup {None}]
          /\ crashes' \in 0..MaxCrashes
      BY <2>1, ZenonT(60) DEF IInv, TypeOK
    <3> QED BY <2>1, <2>2, <3>1, <3>2, <3>3, <3>4, Returns, ZenonT(60)
  <2>3. CASE Goto(c, "rollback") /\ UNCHANGED <<row, holder, locals>>
    <3>1. file' \in [Machines -> Specs \cup {None}]
      BY <2>1, ZenonT(60) DEF IInv, TypeOK
    <3> QED BY <1>0, <2>1, <2>3, <3>1, GoesOn, ZenonT(60)
  <2> QED BY <1>3, <2>2, <2>3, ZenonT(60) DEF add_machine
<1>4. CASE MachineCreateGuard(c)
  <2>1. pc[c] = "rollback" /\ Return(c) /\ UNCHANGED <<born, row, crashes>>
        /\ path' = [path EXCEPT ![lock[c]] = None]
    BY <1>4, ZenonT(60) DEF MachineCreateGuard
  <2>2. \A m \in Machines : RowOK(m)'
    BY <1>0, <2>1, RowsFree, ZenonT(60)
  <2>3. \A d \in Callers : d # c => CallerOK(d)'
    BY <1>0, <2>1, ReturnLocals, KeepFree, ZenonT(60)
  <2>4. file' \in [Machines -> Specs \cup {None}] /\ path' \in [LockIds -> Inodes \cup {None}]
    BY <1>4, Zenon DEF MachineCreateGuard, IInv, TypeOK
  <2>5. row' \in [Machines -> MachineConfig \cup {None}] /\ crashes' \in 0..MaxCrashes
    BY <2>1, ZenonT(60) DEF IInv, TypeOK
  <2> QED BY <2>1, <2>2, <2>3, <2>4, <2>5, Returns, ZenonT(60)
<1> QED BY <1>2, <1>3, <1>4, ZenonT(60)

\* A visitor reads a row: its machine is not being made.
LEMMA ResolveStep ==
    ASSUME IInv, NEW c \in Callers, NEW k \in Machines, NEW next \in {"open", "tryopen"},
           resolve_machine_config(c, k, next)
    PROVE  IInv'
<1>0. /\ next \in Visitors /\ next \in Places /\ next # "idle"
      /\ next \notin Makers \cup Owners \cup Creating \cup Inside \cup Opened \cup Locked
      /\ "idle" \notin Makers \cup Owners \cup Creating \cup Inside \cup Opened \cup Locked \cup Visitors
  BY ZenonT(60) DEF Places, Makers, Owners, Creating, Inside, Opened, Locked, Visitors
<1>1. pc[c] = "idle" /\ UNCHANGED <<born, row, file, path, holder, fd, crashes>>
  BY ZenonT(60) DEF resolve_machine_config
<1>2. CASE row[k] = None
  <2>1. UNCHANGED vars
    BY <1>1, <1>2, Zenon DEF resolve_machine_config, vars
  <2> QED BY <2>1 DEF vars, IInv, TypeOK, RowOK, CallerOK, PairOK
<1>3. CASE row[k] # None
  <2>1. /\ mach' = [mach EXCEPT ![c] = k] /\ lock' = [lock EXCEPT ![c] = row[k].lock_id]
        /\ conf' = [conf EXCEPT ![c] = row[k]] /\ Goto(c, next)
    BY <1>3, ZenonT(60) DEF resolve_machine_config
  <2>2. row[k] \in MachineConfig /\ row[k].lock_id \in LockIds /\ k \in born
    BY <1>3, TypeFacts, ZenonT(60) DEF IInv, RowOK
  <2>3. pc'[c] = next /\ mach'[c] = k /\ lock'[c] = row[k].lock_id /\ conf'[c] = row[k]
    BY <2>1, ZenonT(60) DEF IInv, TypeOK, Goto
  <2>4. Frame(c)
    BY <1>1, <2>1, ZenonT(60) DEF IInv, TypeOK, Goto, Frame
  <2>5. TypeOK'
    BY <1>0, <1>1, <2>1, <2>2, ZenonT(60) DEF IInv, TypeOK, Goto
  <2>6. CallerOK(c)'
    BY <1>0, <1>1, <2>2, <2>3, ZenonT(60) DEF CallerOK
  <2>7. \A d \in Callers : d # c => CallerOK(d)'
    BY <1>1, <2>4, KeepWorld, ZenonT(60)
  <2>8. \A m \in Machines : RowOK(m)'
    BY <1>1, RowsWorld, ZenonT(60)
  <2>9. \A d \in Callers : d # c /\ pc[d] \in Makers => mach'[c] # mach[d]
    BY <1>3, <2>3 DEF IInv, CallerOK
  <2> QED BY <1>0, <2>3, <2>4, <2>5, <2>6, <2>7, <2>8, <2>9, Assemble, ZenonT(60)
<1> QED BY <1>2, <1>3, ZenonT(60)

\* Opening the lock file: while the machine is there, so is the file, and it is opened.
LEMMA OpenStep ==
    ASSUME IInv, NEW c \in Callers, open_lock_file(c)
    PROVE  IInv'
<1> DEFINE place == IF pc[c] = "open" THEN "flock" ELSE "tryflock"
<1>0. /\ place \in Visitors /\ place \in Opened /\ place \in Places /\ place # "idle" /\ place # "change"
      /\ place \notin Makers \cup Owners \cup Creating \cup Inside \cup Locked
      /\ {"open", "tryopen"} \subseteq Visitors /\ pc[c] # "idle"
  BY ZenonT(60) DEF Places, Makers, Owners, Creating, Inside, Opened, Locked, Visitors, open_lock_file
<1>1. /\ pc[c] \in Visitors /\ Goto(c, place)
      /\ UNCHANGED <<born, row, file, holder, mach, lock, conf, crashes>>
  BY <1>0, ZenonT(60) DEF open_lock_file
<1> HIDE DEF place
<1>2. /\ mach[c] \in born /\ mach[c] \in Machines /\ lock[c] \in LockIds /\ conf[c] \in MachineConfig
      /\ row[mach[c]] # None => row[mach[c]].lock_id = lock[c]
  BY <1>0, <1>1, TypeFacts, ZenonT(60) DEF IInv, CallerOK
<1>3. pc'[c] = place /\ (\A d \in Callers : d # c => pc'[d] = pc[d]) /\ pc' \in [Callers -> Places]
  BY <1>0, <1>1, GotoFrame, ZenonT(60) DEF IInv
<1>4. ASSUME NEW i \in Inodes, fd' = [fd EXCEPT ![c] = i]
      PROVE  /\ Frame(c) /\ fd'[c] = i /\ fd' \in [Callers -> Inodes \cup {None}]
  BY <1>1, <1>3, <1>4, ZenonT(60) DEF IInv, TypeOK, Frame
<1>5. CASE path[lock[c]] # None /\ fd' = [fd EXCEPT ![c] = path[lock[c]]] /\ UNCHANGED path
  <2>1. path[lock[c]] \in Inodes
    BY <1>2, <1>5, ZenonT(60) DEF IInv, TypeOK
  <2>2. Frame(c) /\ fd'[c] = path[lock[c]] /\ fd' \in [Callers -> Inodes \cup {None}]
    BY <1>4, <1>5, <2>1, ZenonT(60)
  <2>3. TypeOK'
    BY <1>1, <1>3, <1>5, <2>2, ZenonT(60) DEF IInv, TypeOK
  <2>4. CallerOK(c)'
    BY <1>0, <1>1, <1>2, <1>3, <1>5, <2>1, <2>2, ZenonT(60) DEF CallerOK
  <2>5. \A d \in Callers : d # c => CallerOK(d)'
    BY <1>1, <1>5, <2>2, KeepWorld, ZenonT(60)
  <2>6. \A m \in Machines : RowOK(m)'
    BY <1>1, <1>5, RowsWorld, ZenonT(60)
  <2> QED BY <1>0, <1>1, <1>3, <2>2, <2>3, <2>4, <2>5, <2>6, Moves, ZenonT(60)
<1>6. CASE /\ path[lock[c]] = None
           /\ \E i \in Inodes : /\ FreshInode(i)
                                /\ path' = [path EXCEPT ![lock[c]] = i]
                                /\ fd' = [fd EXCEPT ![c] = i]
  <2>1. PICK i \in Inodes : path' = [path EXCEPT ![lock[c]] = i] /\ fd' = [fd EXCEPT ![c] = i]
    BY <1>6, ZenonT(60)
  <2>2. Frame(c) /\ fd'[c] = i /\ fd' \in [Callers -> Inodes \cup {None}]
    BY <1>4, <2>1, ZenonT(60)
  <2>3. path' \in [LockIds -> Inodes \cup {None}] /\ path'[lock[c]] = i
    BY <1>2, <2>1, ZenonT(60) DEF IInv, TypeOK
  <2>4. TypeOK'
    BY <1>1, <1>3, <2>2, <2>3, ZenonT(60) DEF IInv, TypeOK
  <2>5. CallerOK(c)'
    BY <1>0, <1>1, <1>2, <1>3, <2>2, <2>3, ZenonT(60) DEF CallerOK
  <2>6. \A d \in Callers : d # c => CallerOK(d)'
    BY <1>1, <1>2, <1>6, <2>1, <2>2, KeepCreate, ZenonT(60)
  <2>7. \A m \in Machines : RowOK(m)'
    BY <1>1, <1>2, <2>1, RowsCreate, ZenonT(60)
  <2> QED BY <1>0, <1>1, <1>3, <2>2, <2>4, <2>5, <2>6, <2>7, Moves, ZenonT(60)
<1> QED BY <1>5, <1>6, Zenon DEF open_lock_file

\* Taking the flock of an inode that nobody has.
LEMMA FlockStep ==
    ASSUME IInv, NEW c \in Callers, Flock(c)
    PROVE  IInv'
<1> DEFINE place == IF pc[c] = "flock" THEN "resolve" ELSE "record"
<1>0. /\ place \in Visitors /\ place \in Opened /\ place \in Locked /\ place \in Places /\ place # "idle" /\ place # "change"
      /\ place \notin Makers \cup Owners \cup Creating \cup Inside
      /\ {"flock", "tryflock"} \subseteq Opened /\ {"flock", "tryflock"} \subseteq Visitors /\ pc[c] # "idle"
  BY Zenon DEF Places, Makers, Owners, Creating, Inside, Opened, Locked, Visitors, Flock
<1>1. /\ pc[c] \in {"flock", "tryflock"} /\ Goto(c, place) /\ holder[fd[c]] = None
      /\ holder' = [holder EXCEPT ![fd[c]] = c]
      /\ UNCHANGED <<born, row, file, path, locals, crashes>>
  BY ZenonT(60) DEF Flock
<1> HIDE DEF place
<1>2. pc[c] \in Visitors /\ pc[c] \in Opened /\ fd[c] \in Inodes
  BY <1>0, <1>1, Zenon DEF IInv, CallerOK
<1>3. pc'[c] = place /\ (\A d \in Callers : d # c => pc'[d] = pc[d]) /\ pc' \in [Callers -> Places]
  BY <1>0, <1>1, GotoFrame, Zenon DEF IInv
<1>4. /\ holder' \in [Inodes -> Callers \cup {None}] /\ holder'[fd[c]] = c
      /\ \A i \in Inodes : holder[i] # None => holder'[i] = holder[i]
  BY <1>1, <1>2, ZenonT(60) DEF IInv, TypeOK
<1>5. Frame(c)
  BY <1>1, <1>3, <1>4, RegistryAssumption, ZenonT(60) DEF Frame, locals
<1>6. TypeOK'
  BY <1>1, <1>3, <1>4, Zenon DEF IInv, TypeOK, locals
<1>7. CallerOK(c)'
  BY <1>0, <1>1, <1>2, <1>3, <1>4, ZenonT(60) DEF IInv, CallerOK, locals
<1>8. \A d \in Callers : d # c => CallerOK(d)'
  BY <1>1, <1>5, KeepWorld, ZenonT(60)
<1>9. \A m \in Machines : RowOK(m)'
  BY <1>1, RowsWorld, ZenonT(60)
<1> QED BY <1>0, <1>1, <1>3, <1>5, <1>6, <1>7, <1>8, <1>9, Moves, ZenonT(60) DEF locals

\* The second read of the row lets the caller in only if its inode is still the machine's.
LEMMA VerifyStep ==
    ASSUME IInv, NEW c \in Callers, lock_machine_config(c)
    PROVE  IInv'
<1>0. /\ "resolve" \in Opened /\ "resolve" \in Visitors /\ "resolve" \in Locked
      /\ "change" \in Inside /\ "change" \in Opened /\ "change" \in Visitors /\ "change" \in Locked
      /\ "change" \in Places /\ "change" \notin Makers \cup Owners \cup Creating
  BY ZenonT(60) DEF Places, Makers, Owners, Creating, Inside, Opened, Locked, Visitors
<1>1. pc[c] = "resolve" /\ UNCHANGED <<born, row, file, path, crashes>>
  BY ZenonT(60) DEF lock_machine_config
<1>2. CASE row[mach[c]] # None /\ row[mach[c]].lock_id = lock[c]
  <2>1. conf' = [conf EXCEPT ![c] = row[mach[c]]] /\ Goto(c, "change") /\ UNCHANGED <<holder, mach, lock, fd>>
    BY <1>2, ZenonT(60) DEF lock_machine_config
  <2>2. mach[c] \in Machines /\ row[mach[c]] \in MachineConfig
    BY <1>0, <1>1, <1>2, TypeFacts, ZenonT(60) DEF IInv, CallerOK
  <2>3. pc'[c] = "change" /\ (\A d \in Callers : d # c => pc'[d] = pc[d]) /\ pc' \in [Callers -> Places]
    BY <1>0, <2>1, GotoFrame, ZenonT(60) DEF IInv
  <2>4. conf' \in [Callers -> MachineConfig \cup {None}] /\ conf'[c] = row[mach[c]]
        /\ (\A d \in Callers : d # c => conf'[d] = conf[d])
    BY <2>1, <2>2, ZenonT(60) DEF IInv, TypeOK
  <2>5. Frame(c)
    BY <2>1, <2>3, <2>4, ZenonT(60) DEF Frame
  <2>6. TypeOK'
    BY <1>1, <2>1, <2>3, <2>4, ZenonT(60) DEF IInv, TypeOK
  <2>7. CallerOK(c)'
    BY <1>0, <1>1, <1>2, <2>1, <2>2, <2>3, <2>4, ZenonT(60) DEF IInv, CallerOK
  <2>8. \A d \in Callers : d # c => CallerOK(d)'
    BY <1>1, <2>5, KeepWorld, ZenonT(60)
  <2>9. \A m \in Machines : RowOK(m)'
    BY <1>1, RowsWorld, ZenonT(60)
  <2> QED BY <1>0, <2>1, <2>3, <2>5, <2>6, <2>7, <2>8, <2>9, Moves, ZenonT(60)
<1>3. CASE ~ (row[mach[c]] # None /\ row[mach[c]].lock_id = lock[c])
  <2>1. Return(c)
    BY <1>3, ZenonT(60) DEF lock_machine_config
  <2>2. file' \in [Machines -> Specs \cup {None}] /\ crashes' \in 0..MaxCrashes
    BY <1>1, ZenonT(60) DEF IInv, TypeOK
  <2> QED BY <1>1, <2>1, <2>2, ReturnsOnly, ZenonT(60)
<1> QED BY <1>2, <1>3, ZenonT(60)

\* The calls that end without touching a row or a lock file, and the crash.
LEMMA EndSteps ==
    ASSUME IInv, NEW c \in Callers,
           WouldBlock(c) \/ save_machine_state(c) \/ ReturnEarly(c) \/ Crash(c)
    PROVE  IInv'
<1>1. Return(c) /\ UNCHANGED <<born, row, file, path>>
  BY ZenonT(60) DEF WouldBlock, save_machine_state, ReturnEarly, Crash
<1>2. crashes' \in 0..MaxCrashes
  BY RegistryAssumption DEF WouldBlock, save_machine_state, ReturnEarly, Crash, IInv, TypeOK
<1>3. file' \in [Machines -> Specs \cup {None}]
  BY <1>1, Zenon DEF IInv, TypeOK
<1> QED BY <1>1, <1>2, <1>3, ReturnsOnly, ZenonT(60)

\* Deciding what to change keeps the lock id of the config.
LEMMA UpdateStep ==
    ASSUME IInv, NEW c \in Callers, NEW name \in Names, NEW spec \in Specs, Update(c, name, spec)
    PROVE  IInv'
<1>0. /\ \A p \in {"change", "write", "saverow"} :
            /\ p \in Inside /\ p \in Opened /\ p \in Visitors /\ p \in Locked /\ p \in Places
            /\ p # "idle" /\ p \notin Makers \cup Owners \cup Creating
  BY ZenonT(60) DEF Places, Makers, Owners, Creating, Inside, Opened, Locked, Visitors
<1>1. pc[c] = "change" /\ UNCHANGED <<born, row, file, path, crashes>>
  BY Zenon DEF Update
<1>2. file' \in [Machines -> Specs \cup {None}] /\ crashes' \in 0..MaxCrashes
  BY <1>1, ZenonT(60) DEF IInv, TypeOK
<1>3. CASE Return(c)
  BY <1>1, <1>2, <1>3, ReturnsOnly, ZenonT(60)
<1>4. ASSUME NEW place \in {"write", "saverow"}, Goto(c, place), UNCHANGED <<holder, mach, lock, fd>>,
             conf' = [conf EXCEPT ![c] = [conf[c] EXCEPT !.name = name, !.spec = spec]]
      PROVE  IInv'
  <2>1. conf[c] \in MachineConfig /\ conf[c].lock_id = lock[c]
    BY <1>0, <1>1, ZenonT(60) DEF IInv, CallerOK
  <2>2. /\ [conf[c] EXCEPT !.name = name, !.spec = spec] \in MachineConfig
        /\ [conf[c] EXCEPT !.name = name, !.spec = spec].lock_id = conf[c].lock_id
    BY <2>1, ZenonT(60) DEF MachineConfig
  <2>3. pc'[c] = place /\ (\A d \in Callers : d # c => pc'[d] = pc[d]) /\ pc' \in [Callers -> Places]
    BY <1>0, <1>4, GotoFrame, ZenonT(60) DEF IInv
  <2>4. conf' \in [Callers -> MachineConfig \cup {None}] /\ conf'[c] \in MachineConfig
        /\ conf'[c].lock_id = lock[c] /\ (\A d \in Callers : d # c => conf'[d] = conf[d])
    BY <1>4, <2>1, <2>2, ZenonT(60) DEF IInv, TypeOK
  <2>5. Frame(c)
    BY <1>4, <2>3, <2>4, ZenonT(60) DEF Frame
  <2>6. TypeOK'
    BY <1>1, <1>4, <2>3, <2>4, ZenonT(60) DEF IInv, TypeOK
  <2>7. CallerOK(c)'
    BY <1>0, <1>1, <1>4, <2>3, <2>4 DEF IInv, CallerOK
  <2>8. \A d \in Callers : d # c => CallerOK(d)'
    BY <1>1, <2>5, KeepWorld, ZenonT(60)
  <2>9. \A m \in Machines : RowOK(m)'
    BY <1>1, RowsWorld, ZenonT(60)
  <2> QED BY <1>0, <1>4, <2>3, <2>5, <2>6, <2>7, <2>8, <2>9, Moves, ZenonT(60)
<1> QED BY <1>3, <1>4, ZenonT(60) DEF Update

\* Storing the config, or putting config.json back.
LEMMA SaveStep ==
    ASSUME IInv, NEW c \in Callers, save_machine_config(c)
    PROVE  IInv'
<1>0. {"save", "saverow"} \subseteq Inside
  BY Zenon DEF Inside
<1>1. /\ pc[c] \in Inside /\ Return(c) /\ UNCHANGED <<born, path, crashes>>
  BY <1>0, ZenonT(60) DEF save_machine_config
<1>2. mach[c] \in Machines /\ conf[c] \in MachineConfig /\ row[mach[c]] \in MachineConfig
  BY <1>1, PlaceFacts, TypeFacts DEF IInv, CallerOK
<1>3. path' \in [LockIds -> Inodes \cup {None}] /\ crashes' \in 0..MaxCrashes
  BY <1>1, ZenonT(60) DEF IInv, TypeOK
<1>4. CASE Stored(c)
  <2>1. row' = [row EXCEPT ![mach[c]] = conf[c]] /\ UNCHANGED file
    BY <1>4, ZenonT(60) DEF Stored
  <2>2. \A m \in Machines : RowOK(m)'
    BY <1>1, <2>1, RowsStore, ZenonT(60)
  <2>3. \A d \in Callers : d # c => CallerOK(d)'
    BY <1>1, <2>1, ReturnLocals, KeepSave, ZenonT(60)
  <2>4. row' \in [Machines -> MachineConfig \cup {None}] /\ file' \in [Machines -> Specs \cup {None}]
    BY <1>2, <2>1, ZenonT(60) DEF IInv, TypeOK
  <2> QED BY <1>1, <1>3, <2>2, <2>3, <2>4, Returns, ZenonT(60)
<1>5. CASE Refused(c) /\ UNCHANGED file
  <2>1. UNCHANGED row /\ file' \in [Machines -> Specs \cup {None}]
    BY <1>5, ZenonT(60) DEF Refused, IInv, TypeOK
  <2> QED BY <1>1, <1>3, <2>1, ReturnsOnly, ZenonT(60)
<1>6. CASE Refused(c) /\ file' = [file EXCEPT ![mach[c]] = row[mach[c]].spec]
  <2>1. row[mach[c]].spec \in Specs
    BY <1>2, ZenonT(60) DEF MachineConfig
  <2>2. UNCHANGED row /\ file' \in [Machines -> Specs \cup {None}]
    BY <1>6, <2>1, ZenonT(60) DEF Refused, IInv, TypeOK
  <2> QED BY <1>1, <1>3, <2>2, ReturnsOnly, Zenon
<1> QED BY <1>4, <1>5, <1>6, ZenonT(60) DEF save_machine_config

\* Writing config.json and removing the directory.
LEMMA FileSteps ==
    ASSUME IInv, NEW c \in Callers, write_machine_config(c) \/ remove(c)
    PROVE  IInv'
<1>0. /\ \A p \in {"change", "write", "save", "rmrow"} :
            /\ p \in Inside /\ p \in Opened /\ p \in Visitors /\ p \in Locked /\ p \in Places
            /\ p # "idle" /\ p \notin Makers \cup Owners \cup Creating
  BY ZenonT(60) DEF Places, Makers, Owners, Creating, Inside, Opened, Locked, Visitors
<1>1. pc[c] \in {"change", "write"} /\ UNCHANGED <<born, row, path, crashes>>
  BY Zenon DEF write_machine_config, remove
<1>2. conf[c].spec \in Specs
  BY <1>0, <1>1, ZenonT(60) DEF IInv, CallerOK, MachineConfig
<1>3. file' \in [Machines -> Specs \cup {None}] /\ crashes' \in 0..MaxCrashes
  BY <1>1, <1>2, ZenonT(60) DEF write_machine_config, remove, IInv, TypeOK
<1>4. CASE Return(c)
  BY <1>1, <1>3, <1>4, ReturnsOnly, ZenonT(60)
<1>5. CASE Goto(c, "save") /\ UNCHANGED <<holder, locals>>
  BY <1>0, <1>1, <1>3, <1>5, GoesOn, ZenonT(60)
<1>6. CASE Goto(c, "rmrow") /\ UNCHANGED <<holder, locals>>
  BY <1>0, <1>1, <1>3, <1>6, GoesOn, ZenonT(60)
<1> QED BY <1>4, <1>5, <1>6, ZenonT(60) DEF write_machine_config, remove

\* The removal of the rows makes the remover the owner of the lock id, and it frees it.
LEMMA RemoveSteps ==
    ASSUME IInv, NEW c \in Callers, remove_machine(c) \/ free(c)
    PROVE  IInv'
<1>0. /\ "rmrow" \in Inside /\ "rmrow" \in Visitors /\ "rmrow" \in Locked /\ "rmrow" # "idle"
      /\ "free" \in Owners /\ "free" \in Locked /\ "free" \in Places
      /\ "free" \notin Makers \cup Creating \cup Inside \cup Opened \cup Visitors
  BY Zenon DEF Places, Makers, Owners, Creating, Inside, Opened, Locked, Visitors
<1>1. CASE remove_machine(c)
  <2>1. pc[c] = "rmrow" /\ UNCHANGED <<born, file, path, crashes>>
    BY <1>1, Zenon DEF remove_machine
  <2>2. file' \in [Machines -> Specs \cup {None}] /\ crashes' \in 0..MaxCrashes
    BY <2>1, ZenonT(60) DEF IInv, TypeOK
  <2>3. CASE Return(c) /\ UNCHANGED row
    BY <2>1, <2>2, <2>3, ReturnsOnly, ZenonT(60)
  <2>4. CASE row' = [row EXCEPT ![mach[c]] = None] /\ Goto(c, "free") /\ UNCHANGED <<holder, locals>>
    <3>1. /\ mach[c] \in born /\ mach[c] \in Machines /\ lock[c] \in LockIds
          /\ conf[c] \in MachineConfig /\ row[mach[c]] # None /\ row[mach[c]].lock_id = lock[c]
          /\ fd[c] \in Inodes /\ holder[fd[c]] = c
      BY <1>0, <2>1, TypeFacts, ZenonT(60) DEF IInv, CallerOK
    <3>2. pc'[c] = "free" /\ (\A d \in Callers : d # c => pc'[d] = pc[d]) /\ pc' \in [Callers -> Places]
      BY <1>0, <2>4, GotoFrame, Zenon DEF IInv
    <3>3. Frame(c)
      BY <2>4, <3>2, Zenon DEF Frame, locals
    <3>4. row' \in [Machines -> MachineConfig \cup {None}]
      BY <2>4, ZenonT(60) DEF IInv, TypeOK
    <3>5. TypeOK'
      BY <2>1, <2>4, <3>2, <3>4, ZenonT(60) DEF IInv, TypeOK, locals
    <3>6. \A m \in Machines : row'[m] # None => row'[m] = row[m] /\ m # mach[c]
      BY <2>4, <3>1, ZenonT(60) DEF IInv, TypeOK
    <3>7. path[lock[c]] # None /\ \A m \in Machines : row'[m] # None => row'[m].lock_id # lock[c]
      BY <3>1, <3>6, ZenonT(120) DEF IInv, RowOK
    <3>8. CallerOK(c)'
      BY <1>0, <2>1, <2>4, <3>1, <3>2, <3>7, ZenonT(60) DEF CallerOK, locals
    <3>9. \A d \in Callers : d # c => CallerOK(d)'
      BY <1>0, <2>1, <2>4, <3>3, KeepRemove, ZenonT(60)
    <3>10. \A m \in Machines : RowOK(m)'
      BY <2>1, <2>4, RowsRemove, ZenonT(60)
    <3>11. \A d \in Callers : d # c /\ pc[d] \in Owners => lock'[c] # lock[d]
      <4>1. SUFFICES ASSUME NEW d \in Callers, pc[d] \in Owners PROVE lock[c] # lock[d]
        BY <2>4, ZenonT(60) DEF locals
      <4>2. \A m \in Machines : row[m] # None => row[m].lock_id # lock[d]
        BY <4>1, ZenonT(60) DEF IInv, CallerOK
      <4> QED BY <3>1, <4>2, Zenon
    <3>12. \A d \in Callers : d # c /\ pc[d] \in Makers => mach'[c] # mach[d]
      BY <2>4, ZenonT(60) DEF IInv, PairOK, locals
    <3> QED BY <1>0, <3>2, <3>3, <3>5, <3>8, <3>9, <3>10, <3>11, <3>12, Assemble, ZenonT(60)
  <2> QED BY <1>1, <2>3, <2>4, ZenonT(60) DEF remove_machine
<1>2. CASE free(c)
  <2>1. pc[c] \in Owners /\ Return(c) /\ UNCHANGED <<born, row, file, crashes>>
        /\ path' = [path EXCEPT ![lock[c]] = None]
    BY <1>0, <1>2, Zenon DEF free
  <2>2. \A m \in Machines : RowOK(m)'
    BY <2>1, RowsFree, ZenonT(60)
  <2>3. \A d \in Callers : d # c => CallerOK(d)'
    BY <2>1, ReturnLocals, KeepFree, ZenonT(60)
  <2>4. /\ row' \in [Machines -> MachineConfig \cup {None}] /\ file' \in [Machines -> Specs \cup {None}]
        /\ path' \in [LockIds -> Inodes \cup {None}] /\ crashes' \in 0..MaxCrashes
    BY <2>1, ZenonT(60) DEF IInv, TypeOK
  <2> QED BY <2>1, <2>2, <2>3, <2>4, Returns, ZenonT(60)
<1> QED BY <1>1, <1>2, ZenonT(60)

-----------------------------------------------------------------------------
(* The theorems *)

\* The machine registry starts in the invariant.
LEMMA InitOK == Init => IInv
<1> SUFFICES ASSUME Init PROVE IInv
  BY Zenon
<1>1. TypeOK
  BY RegistryAssumption, PlaceFacts DEF Init, TypeOK
<1>2. \A m \in Machines : RowOK(m)
  BY Zenon DEF Init, RowOK
<1>3. \A c \in Callers : pc[c] = "idle" /\ mach[c] = None
  BY Zenon DEF Init
<1>4. \A c \in Callers : CallerOK(c)
  BY <1>3, PlaceFacts DEF CallerOK
<1>5. \A c, d \in Callers : PairOK(c, d)
  BY <1>3, PlaceFacts, ZenonT(60) DEF PairOK
<1> QED BY <1>1, <1>2, <1>4, <1>5, ZenonT(60) DEF IInv

\* Every step of Next preserves it.
LEMMA NextOK == IInv /\ [Next]_vars => IInv'
<1> SUFFICES ASSUME IInv, [Next]_vars PROVE IInv'
  BY ZenonT(60)
<1>1. CASE UNCHANGED vars
  BY <1>1, ZenonT(120) DEF vars, IInv, TypeOK, RowOK, CallerOK, PairOK
<1>2. CASE Next
  BY <1>2, CreateStep, AllocateStep, MakerSteps, ResolveStep, OpenStep, FlockStep, VerifyStep,
     EndSteps, UpdateStep, SaveStep, FileSteps, RemoveSteps, Zenon DEF Next
<1> QED BY <1>1, <1>2, ZenonT(60)

\* The invariant holds in every reachable state.
THEOREM RegistryInvariance == Spec => []IInv
BY InitOK, NextOK, PTL DEF Spec

\* The rows, files, lock files and callers are always well-typed.
THEOREM RegistryTypeCorrect == Spec => []TypeOK
<1>1. IInv => TypeOK
  BY Zenon DEF IInv
<1> QED BY <1>1, RegistryInvariance, PTL

\* lock_machine_config gives mutual exclusion per machine: for any number of callers,
\* whatever lock files are unlinked and created again while they wait.
THEOREM RegistryOneInside == Spec => []OneInside
BY Exclusive, RegistryInvariance, PTL

\* allocate and free never give two machines one lock id, with crashes at any point.
THEOREM RegistryLockIdsDistinct == Spec => []LockIdsDistinct
<1>1. IInv => LockIdsDistinct
  BY ZenonT(60) DEF IInv, RowOK, LockIdsDistinct
<1> QED BY <1>1, RegistryInvariance, PTL

\* A caller that decides what to change has read the row as it is now: no update of
\* another caller is lost, because the config is read again under the lock.
THEOREM RegistrySeesLatest == Spec => []SeesLatest
<1>1. IInv => SeesLatest
  BY ZenonT(60) DEF IInv, CallerOK, SeesLatest
<1> QED BY <1>1, RegistryInvariance, PTL

-----------------------------------------------------------------------------
(* The stores agree *)

\* Where a caller is between a change of the machine directory and one of the row.
Unsettled == {"commit", "rollback", "save", "rmrow"}

Settled(m) ==
    IF row[m] = None THEN file[m] = None
    ELSE file[m] = row[m].spec \/ (StoreFails /\ file[m] = None)

\* What such a caller has written, and one that leaves config.json alone.
Spot(c) ==
    /\ pc[c] \in {"commit", "save"} => file[mach[c]] = conf[c].spec
    /\ pc[c] = "saverow" => conf[c].spec = row[mach[c]].spec
    /\ pc[c] = "rmrow" => file[mach[c]] = None

SInv ==
    crashes = 0 =>
        /\ \A m \in Machines : (\A c \in Callers : mach[c] = m => pc[c] \notin Unsettled) => Settled(m)
        /\ \A c \in Callers : Spot(c)

\* A step that changes neither rows nor directories.
LEMMA QuietStep ==
    ASSUME SInv, crashes' = crashes, NEW c \in Callers, Frame(c), row' = row, file' = file,
           pc[c] \notin Unsettled, crashes = 0 => Spot(c)'
    PROVE  SInv'
<1> SUFFICES ASSUME crashes = 0 PROVE SInv'
  BY Zenon DEF SInv
<1>1. ASSUME NEW m \in Machines, \A d \in Callers : mach'[d] = m => pc'[d] \notin Unsettled
      PROVE  Settled(m)'
  <2>1. \A d \in Callers : mach[d] = m => pc[d] \notin Unsettled
    BY <1>1, ZenonT(60) DEF Frame
  <2>2. Settled(m)
    BY <2>1, ZenonT(60) DEF SInv
  <2> QED BY <2>2, Zenon DEF Settled
<1>2. ASSUME NEW d \in Callers PROVE Spot(d)'
  <2>1. CASE d = c
    BY <2>1, ZenonT(60)
  <2>2. CASE d # c
    BY <2>2 DEF Spot, SInv, Frame
  <2> QED BY <2>1, <2>2, ZenonT(60)
<1> QED BY <1>1, <1>2, ZenonT(60) DEF SInv

\* While a machine is made, or worked on under its lock, nobody else touches its stores.
LEMMA AloneAt ==
    ASSUME IInv, NEW c \in Callers, pc[c] \in Creating \cup Inside, NEW d \in Callers, d # c,
           mach[d] = mach[c]
    PROVE  pc[d] \notin {"commit", "save", "saverow", "rmrow"}
<1>1. CASE pc[c] \in Creating
  BY <1>1, PlaceFacts, Zenon DEF IInv, PairOK
<1>2. CASE pc[c] \in Inside
  <2>1. pc[d] \notin Inside
    BY <1>2, Exclusive, ZenonT(60) DEF OneInside
  <2>2. pc[d] \notin Makers
    BY Zenon DEF IInv, PairOK
  <2> QED BY <2>1, <2>2, Zenon DEF Inside, Makers, Creating
<1> QED BY <1>1, <1>2, Zenon

\* A step of such a caller on its machine.
LEMMA TouchStep ==
    ASSUME IInv, SInv, crashes' = crashes, NEW c \in Callers, Frame(c), pc[c] \in Creating \cup Inside,
           \A m \in Machines : m # mach[c] => row'[m] = row[m] /\ file'[m] = file[m],
           mach'[c] \in {mach[c], None},
           NEW k \in Machines, k = mach[c],
           crashes = 0 => (Settled(k)' \/ (mach'[c] = k /\ pc'[c] \in Unsettled)) /\ Spot(c)'
    PROVE  SInv'
<1> SUFFICES ASSUME crashes = 0 PROVE SInv'
  BY Zenon DEF SInv
<1>1. ASSUME NEW m \in Machines, \A d \in Callers : mach'[d] = m => pc'[d] \notin Unsettled
      PROVE  Settled(m)'
  <2>1. CASE m = k
    BY <1>1, <2>1, ZenonT(60)
  <2>2. CASE m # k
    <3>1. \A d \in Callers : mach[d] = m => pc[d] \notin Unsettled
      BY <1>1, <2>2, ZenonT(60) DEF Frame
    <3>2. Settled(m)
      BY <3>1, ZenonT(60) DEF SInv
    <3> QED BY <2>2, <3>2, ZenonT(60) DEF Settled
  <2> QED BY <2>1, <2>2, ZenonT(60)
<1>2. ASSUME NEW d \in Callers PROVE Spot(d)'
  <2>1. CASE d = c
    BY <2>1, ZenonT(60)
  <2>2. CASE d # c /\ pc[d] \in {"commit", "save", "saverow", "rmrow"}
    <3>1. mach[d] # k
      BY <2>2, AloneAt, Zenon
    <3>2. mach[d] \in Machines
      BY <2>2, TypeFacts, ZenonT(60) DEF IInv, CallerOK
    <3> QED BY <2>2, <3>1, <3>2 DEF Spot, SInv, Frame
  <2>3. CASE d # c /\ pc[d] \notin {"commit", "save", "saverow", "rmrow"}
    BY <2>3, ZenonT(60) DEF Spot, Frame
  <2> QED BY <2>1, <2>2, <2>3, ZenonT(60)
<1> QED BY <1>1, <1>2, ZenonT(60) DEF SInv

\* A caller that is about to have nothing written.
LEMMA NoSpot ==
    ASSUME NEW c \in Callers, pc'[c] \notin {"commit", "save", "saverow", "rmrow"}
    PROVE  Spot(c)'
BY Zenon DEF Spot

\* A call that returns with rows and directories as they are.
LEMMA QuietReturn ==
    ASSUME IInv, SInv, crashes' = crashes, NEW c \in Callers, Return(c), row' = row, file' = file,
           pc[c] \notin Unsettled
    PROVE  SInv'
<1>1. Frame(c) /\ pc'[c] = "idle"
  BY ReturnLocals, ZenonT(60)
<1> QED BY <1>1, NoSpot, QuietStep, ZenonT(60)

\* The steps that leave rows and directories alone.
LEMMA QuietSteps ==
    ASSUME IInv, SInv, NEW c \in Callers,
           \/ \E name \in Names, spec \in Specs, m \in Machines : create_machine_guard(c, name, spec, m)
           \/ allocate(c)
           \/ \E m \in Machines, next \in {"open", "tryopen"} : resolve_machine_config(c, m, next)
           \/ open_lock_file(c) \/ Flock(c) \/ WouldBlock(c) \/ lock_machine_config(c)
           \/ save_machine_state(c) \/ ReturnEarly(c) \/ free(c)
    PROVE  SInv'
<1>t. TypeOK /\ pc[c] \in Places
  BY ZenonT(60) DEF IInv, TypeOK
<1>1. ASSUME NEW name \in Names, NEW spec \in Specs, NEW m \in Machines, create_machine_guard(c, name, spec, m)
      PROVE  SInv'
  <2>1. Frame(c) /\ pc'[c] = "allocate"
    BY <1>1, <1>t, ZenonT(60) DEF create_machine_guard, Goto, Frame, TypeOK
  <2> QED BY <1>1, <2>1, NoSpot, QuietStep, ZenonT(60) DEF create_machine_guard, Unsettled
<1>2. CASE allocate(c)
  <2>1. Frame(c) /\ pc'[c] \in {"mkdir", "allocate"} /\ pc[c] = "allocate"
    BY <1>2, <1>t, ZenonT(60) DEF allocate, Goto, Frame, TypeOK
  <2> QED BY <1>2, <2>1, NoSpot, QuietStep, ZenonT(60) DEF allocate, Unsettled
<1>3. ASSUME NEW m \in Machines, NEW next \in {"open", "tryopen"}, resolve_machine_config(c, m, next)
      PROVE  SInv'
  <2>1. Frame(c) /\ pc'[c] \in {"idle", "open", "tryopen"} /\ pc[c] = "idle"
    BY <1>3, <1>t DEF resolve_machine_config, Goto, Frame, TypeOK
  <2> QED BY <1>3, <2>1, NoSpot, QuietStep, ZenonT(60) DEF resolve_machine_config, Unsettled
<1>4. CASE open_lock_file(c)
  <2>1. Frame(c) /\ pc'[c] \in {"flock", "tryflock"} /\ pc[c] \in {"open", "tryopen"}
    BY <1>4, <1>t, ZenonT(60) DEF open_lock_file, Goto, Frame, TypeOK
  <2> QED BY <1>4, <2>1, NoSpot, QuietStep, Zenon DEF open_lock_file, Unsettled
<1>5. CASE Flock(c)
  <2>1. pc'[c] \in {"resolve", "record"} /\ pc[c] \in {"flock", "tryflock"}
    BY <1>5, <1>t, ZenonT(60) DEF Flock, Goto, TypeOK
  <2>2. fd[c] \in Inodes /\ holder[fd[c]] = None /\ None \notin Callers
    BY <1>5, <2>1, RegistryAssumption, ZenonT(60) DEF Flock, IInv, CallerOK, Opened
  <2>3. Frame(c)
    BY <1>5, <1>t, <2>2, ZenonT(60) DEF Flock, Goto, Frame, TypeOK, locals
  <2> QED BY <1>5, <2>1, <2>3, NoSpot, QuietStep, Zenon DEF Flock, Unsettled
<1>6. CASE WouldBlock(c) \/ save_machine_state(c) \/ ReturnEarly(c) \/ free(c)
  BY <1>6, QuietReturn, Zenon DEF WouldBlock, save_machine_state, ReturnEarly, free, Unsettled
<1>7. CASE lock_machine_config(c)
  <2>1. pc[c] = "resolve" /\ UNCHANGED <<row, file, crashes>>
    BY <1>7, Zenon DEF lock_machine_config
  <2>2. CASE Return(c)
    BY <2>1, <2>2, QuietReturn, ZenonT(60) DEF Unsettled
  <2>3. CASE ~ Return(c)
    <3>1. Frame(c) /\ pc'[c] = "change"
      BY <1>7, <1>t, <2>3, ZenonT(60) DEF lock_machine_config, Goto, Frame, TypeOK
    <3> QED BY <2>1, <3>1, NoSpot, QuietStep, ZenonT(60) DEF Unsettled
  <2> QED BY <2>2, <2>3, ZenonT(60)
<1> QED BY <1>1, <1>2, <1>3, <1>4, <1>5, <1>6, <1>7, ZenonT(60)

\* An update decides what to store; a spec that stays is the row's.
LEMMA UpdateAgrees ==
    ASSUME IInv, SInv, NEW c \in Callers, NEW name \in Names, NEW spec \in Specs, Update(c, name, spec)
    PROVE  SInv'
<1>0. pc[c] = "change" /\ UNCHANGED <<row, file, crashes>>
  BY Zenon DEF Update
<1>1. CASE Return(c)
  BY <1>0, <1>1, QuietReturn, ZenonT(60) DEF Unsettled
<1>2. CASE ~ Return(c)
  <2>1. /\ conf' = [conf EXCEPT ![c] = [conf[c] EXCEPT !.name = name, !.spec = spec]]
        /\ Goto(c, "write") \/ (spec = conf[c].spec /\ Goto(c, "saverow"))
        /\ UNCHANGED <<holder, mach, lock, fd>>
    BY <1>2, ZenonT(60) DEF Update
  <2>2. conf[c] = row[mach[c]] /\ conf[c] \in MachineConfig
    BY <1>0, PlaceFacts, RegistryAssumption, ZenonT(60) DEF IInv, CallerOK
  <2>3. conf'[c].spec = spec
    BY <2>1, <2>2, ZenonT(60) DEF IInv, TypeOK, MachineConfig
  <2>4. Frame(c)
    BY <2>1, ZenonT(60) DEF Frame, Goto, IInv, TypeOK
  <2>5. Spot(c)'
    <3>1. CASE Goto(c, "write")
      BY <3>1, ZenonT(60) DEF Spot, Goto, IInv, TypeOK
    <3>2. CASE spec = conf[c].spec /\ Goto(c, "saverow")
      <4>1. pc'[c] = "saverow"
        BY <3>2, ZenonT(60) DEF Goto, IInv, TypeOK
      <4> QED BY <1>0, <2>1, <2>2, <2>3, <3>2, <4>1, ZenonT(60) DEF Spot
    <3> QED BY <2>1, <3>1, <3>2, ZenonT(60)
  <2> QED BY <1>0, <2>4, <2>5, QuietStep, ZenonT(60) DEF Unsettled
<1> QED BY <1>1, <1>2, Zenon

\* Making a machine: the directory first, then the row; or back to nothing.
LEMMA MakingAgrees ==
    ASSUME IInv, SInv, NEW c \in Callers, create_machine_dir(c) \/ add_machine(c) \/ MachineCreateGuard(c)
    PROVE  SInv'
<1>0. /\ pc[c] \in Creating /\ crashes' = crashes /\ TypeOK
      /\ mach[c] \in Machines /\ row[mach[c]] = None /\ conf[c] \in MachineConfig
  BY PlaceFacts, TypeFacts DEF create_machine_dir, add_machine, MachineCreateGuard, Creating, IInv, CallerOK
<1>1. PICK k \in Machines : k = mach[c]
  BY <1>0, Zenon
<1>2. CASE create_machine_dir(c)
  <2>1. Frame(c) /\ mach'[c] = k /\ conf' = conf /\ row' = row
    BY <1>0, <1>1, <1>2, ZenonT(60) DEF create_machine_dir, Frame, Goto, TypeOK, locals
  <2>2. /\ pc'[c] \in {"commit", "rollback"}
        /\ \A m \in Machines : m # k => file'[m] = file[m]
        /\ pc'[c] = "commit" => file'[k] = conf[c].spec
    BY <1>0, <1>1, <1>2, ZenonT(60) DEF create_machine_dir, Goto, TypeOK
  <2>3. Spot(c)'
    BY <2>1, <2>2, Zenon DEF Spot
  <2> QED BY <1>0, <1>1, <2>1, <2>2, <2>3, TouchStep, Zenon DEF Unsettled
<1>3. CASE add_machine(c) /\ Return(c) /\ row' = [row EXCEPT ![mach[c]] = conf[c]]
  <2>1. Frame(c) /\ mach'[c] = None /\ pc'[c] = "idle"
    BY <1>3, ReturnLocals, ZenonT(60)
  <2>2. file' = file /\ row'[k] = conf[c] /\ \A m \in Machines : m # k => row'[m] = row[m]
    BY <1>0, <1>1, <1>3, ZenonT(60) DEF add_machine, TypeOK
  <2>3. crashes = 0 => file[k] = conf[c].spec
    BY <1>1, <1>3, ZenonT(60) DEF SInv, Spot, add_machine
  <2>4. crashes = 0 => Settled(k)'
    BY <1>0, <2>2, <2>3, NoneIsNoConfig, ZenonT(60) DEF Settled
  <2> QED BY <1>0, <1>1, <2>1, <2>2, <2>4, NoSpot, TouchStep, ZenonT(60)
<1>4. CASE add_machine(c) /\ Goto(c, "rollback") /\ UNCHANGED <<row, holder, locals>>
  <2>1. Frame(c) /\ mach'[c] = k /\ pc'[c] = "rollback" /\ file' = file /\ row' = row
    BY <1>0, <1>1, <1>4, ZenonT(60) DEF add_machine, Frame, Goto, TypeOK, locals
  <2> QED BY <1>0, <1>1, <2>1, NoSpot, TouchStep, ZenonT(60) DEF Unsettled
<1>5. CASE MachineCreateGuard(c)
  <2>1. Frame(c) /\ mach'[c] = None /\ pc'[c] = "idle"
    BY <1>5, ReturnLocals, ZenonT(60) DEF MachineCreateGuard
  <2>2. row' = row /\ file'[k] = None /\ \A m \in Machines : m # k => file'[m] = file[m]
    BY <1>0, <1>1, <1>5, ZenonT(60) DEF MachineCreateGuard, TypeOK
  <2>3. Settled(k)'
    BY <1>0, <1>1, <2>2, ZenonT(60) DEF Settled
  <2> QED BY <1>0, <1>1, <2>1, <2>2, <2>3, NoSpot, TouchStep, ZenonT(60)
<1> QED BY <1>2, <1>3, <1>4, <1>5, ZenonT(60) DEF add_machine

\* Changing a machine: config.json first, then the row, and config.json back if that fails.
LEMMA SavingAgrees ==
    ASSUME IInv, SInv, NEW c \in Callers, write_machine_config(c) \/ save_machine_config(c)
    PROVE  SInv'
<1>0. /\ pc[c] \in {"write", "save", "saverow"} /\ pc[c] \in Inside /\ crashes' = crashes /\ TypeOK
      /\ mach[c] \in Machines /\ row[mach[c]] # None /\ conf[c] \in MachineConfig
  <2>1. pc[c] \in {"write", "save", "saverow"} /\ crashes' = crashes
    BY Zenon DEF write_machine_config, save_machine_config
  <2>2. pc[c] \in Inside
    BY <2>1, Zenon DEF Inside
  <2> QED BY <2>1, <2>2, PlaceFacts, TypeFacts, ZenonT(60) DEF IInv, CallerOK
<1>1. PICK k \in Machines : k = mach[c]
  BY <1>0, Zenon
<1>2. CASE write_machine_config(c) /\ Return(c)
  <2>1. pc'[c] = "idle"
    BY <1>2, ReturnLocals, ZenonT(60)
  <2>2. ~ Goto(c, "save")
    BY <1>0, <2>1, ZenonT(60) DEF Goto, TypeOK
  <2> QED BY <1>0, <1>2, <2>2, QuietReturn, ZenonT(60) DEF write_machine_config, Unsettled
<1>3. CASE write_machine_config(c) /\ ~ Return(c)
  <2>1. Frame(c) /\ mach'[c] = k /\ conf' = conf /\ row' = row /\ pc'[c] = "save"
    BY <1>0, <1>1, <1>3, ZenonT(60) DEF write_machine_config, Frame, Goto, TypeOK, locals
  <2>2. file'[k] = conf[c].spec /\ \A m \in Machines : m # k => file'[m] = file[m]
    BY <1>0, <1>1, <1>3, ZenonT(60) DEF write_machine_config, TypeOK
  <2>3. Spot(c)'
    BY <2>1, <2>2, ZenonT(60) DEF Spot
  <2> QED BY <1>0, <1>1, <2>1, <2>2, <2>3, TouchStep, ZenonT(60) DEF Unsettled
<1>4. CASE save_machine_config(c)
  <2>1. Frame(c) /\ mach'[c] = None /\ pc'[c] = "idle" /\ pc[c] \in {"save", "saverow"}
    BY <1>4, ReturnLocals, ZenonT(60) DEF save_machine_config
  <2>2. CASE Stored(c)
    <3>1. file' = file /\ row'[k] = conf[c] /\ \A m \in Machines : m # k => row'[m] = row[m]
      BY <1>0, <1>1, <2>2, ZenonT(60) DEF Stored, TypeOK
    <3>2. CASE pc[c] = "save"
      <4>1. crashes = 0 => Settled(k)'
        BY <1>0, <1>1, <3>1, <3>2, NoneIsNoConfig, ZenonT(60) DEF Settled, SInv, Spot
      <4> QED BY <1>0, <1>1, <2>1, <3>1, <4>1, NoSpot, TouchStep, ZenonT(60)
    <3>3. CASE pc[c] = "saverow"
      <4>1. ASSUME crashes = 0 PROVE Settled(k)'
        <5>1. \A d \in Callers : mach[d] = k => pc[d] \notin Unsettled
          <6>1. \A d \in Callers \ {c} : mach[d] = k => pc[d] \notin Makers /\ pc[d] \notin Inside
            BY <1>0, <1>1, Exclusive, ZenonT(60) DEF IInv, PairOK, OneInside
          <6> QED BY <3>3, <6>1, ZenonT(60) DEF Unsettled, Makers, Creating, Inside
        <5>2. Settled(k) /\ conf[c].spec = row[k].spec
          BY <1>1, <3>3, <4>1, <5>1, ZenonT(60) DEF SInv, Spot
        <5> QED BY <1>0, <1>1, <3>1, <5>2, NoneIsNoConfig, ZenonT(60) DEF Settled
      <4> QED BY <1>0, <1>1, <2>1, <3>1, <4>1, NoSpot, TouchStep, ZenonT(60)
    <3> QED BY <2>1, <3>2, <3>3, ZenonT(60)
  <2>3. CASE pc[c] = "saverow" /\ Refused(c) /\ UNCHANGED file
    BY <1>0, <1>4, <2>3, QuietReturn, ZenonT(60) DEF Refused, Unsettled, save_machine_config
  <2>4. CASE pc[c] = "save" /\ Refused(c) /\ file' = [file EXCEPT ![mach[c]] = row[mach[c]].spec]
    <3>1. row' = row /\ file'[k] = row[k].spec /\ \A m \in Machines : m # k => file'[m] = file[m]
      BY <1>0, <1>1, <2>4, ZenonT(60) DEF Refused, TypeOK
    <3>2. Settled(k)'
      BY <1>0, <1>1, <3>1, ZenonT(60) DEF Settled
    <3> QED BY <1>0, <1>1, <2>1, <3>1, <3>2, NoSpot, TouchStep, ZenonT(60)
  <2> QED BY <1>4, <2>2, <2>3, <2>4, ZenonT(60) DEF save_machine_config
<1> QED BY <1>2, <1>3, <1>4, ZenonT(60)

\* Removing a machine: the directory first, then the row.
LEMMA RemovingAgrees ==
    ASSUME IInv, SInv, NEW c \in Callers, remove(c) \/ remove_machine(c)
    PROVE  SInv'
<1>0. /\ pc[c] \in {"change", "rmrow"} /\ pc[c] \in Inside /\ crashes' = crashes /\ TypeOK
      /\ mach[c] \in Machines /\ row[mach[c]] # None
  <2>1. pc[c] \in {"change", "rmrow"} /\ crashes' = crashes
    BY Zenon DEF remove, remove_machine
  <2>2. pc[c] \in Inside
    BY <2>1, ZenonT(60) DEF Inside
  <2> QED BY <2>1, <2>2, PlaceFacts, TypeFacts, ZenonT(60) DEF IInv, CallerOK
<1>1. PICK k \in Machines : k = mach[c]
  BY <1>0, Zenon
<1>2. CASE remove(c)
  <2>1. Frame(c) /\ mach'[c] = k /\ row' = row /\ pc'[c] = "rmrow"
    BY <1>0, <1>1, <1>2, ZenonT(60) DEF remove, Frame, Goto, TypeOK, locals
  <2>2. file'[k] = None /\ \A m \in Machines : m # k => file'[m] = file[m]
    BY <1>0, <1>1, <1>2, ZenonT(60) DEF remove, TypeOK
  <2>3. Spot(c)'
    BY <2>1, <2>2, Zenon DEF Spot
  <2> QED BY <1>0, <1>1, <2>1, <2>2, <2>3, TouchStep, ZenonT(60) DEF Unsettled
<1>3. CASE remove_machine(c)
  <2>1. crashes = 0 => file[k] = None
    BY <1>1, <1>3, ZenonT(60) DEF SInv, Spot, remove_machine
  <2>2. CASE row' = [row EXCEPT ![mach[c]] = None] /\ Goto(c, "free") /\ UNCHANGED <<holder, locals>>
    <3>1. Frame(c) /\ mach'[c] = k /\ file' = file /\ pc'[c] = "free"
      BY <1>0, <1>1, <1>3, <2>2, ZenonT(60) DEF remove_machine, Frame, Goto, TypeOK, locals
    <3>2. row'[k] = None /\ \A m \in Machines : m # k => row'[m] = row[m]
      BY <1>0, <1>1, <2>2, Zenon DEF TypeOK
    <3>3. crashes = 0 => Settled(k)'
      BY <2>1, <3>1, <3>2, ZenonT(60) DEF Settled
    <3> QED BY <1>0, <1>1, <3>1, <3>2, <3>3, NoSpot, TouchStep, ZenonT(60)
  <2>3. CASE StoreFails /\ Return(c) /\ UNCHANGED row
    <3>1. Frame(c) /\ mach'[c] = None /\ pc'[c] = "idle"
      BY <2>3, ReturnLocals, ZenonT(60)
    <3>2. row' = row /\ file' = file
      BY <1>3, <2>3, ZenonT(60) DEF remove_machine
    <3>3. crashes = 0 => Settled(k)'
      BY <1>0, <1>1, <2>1, <2>3, <3>2, ZenonT(60) DEF Settled
    <3> QED BY <1>0, <1>1, <3>1, <3>2, <3>3, NoSpot, TouchStep, ZenonT(60)
  <2> QED BY <1>3, <2>2, <2>3, ZenonT(60) DEF remove_machine
<1> QED BY <1>2, <1>3, ZenonT(60)

\* create, update and remove that run to their end leave a directory exactly where there is a row,
\* with the row's spec in config.json, in any interleaving: what fails half-way is undone, up to a
\* removal whose rows the store refuses to delete.
THEOREM RegistryStoresAgree == Spec => []StoresAgree
<1>1. Init => SInv
  <2> SUFFICES ASSUME Init PROVE SInv
    BY Zenon
  <2>1. \A c \in Callers : pc[c] = "idle"
    BY Zenon DEF Init
  <2>2. \A m \in Machines : row[m] = None /\ file[m] = None
    BY Zenon DEF Init
  <2> QED BY <2>1, <2>2, ZenonT(60) DEF SInv, Settled, Spot
<1>2. IInv /\ SInv /\ [Next]_vars => SInv'
  <2> SUFFICES ASSUME IInv, SInv, [Next]_vars PROVE SInv'
    BY ZenonT(60)
  <2>1. ASSUME NEW c \in Callers, Crash(c) PROVE SInv'
    BY <2>1, RegistryAssumption DEF Crash, SInv, IInv, TypeOK
  <2>2. CASE UNCHANGED vars
    BY <2>2, Zenon DEF vars, SInv, Settled, Spot
  <2>3. CASE Next
    BY <2>1, <2>3, QuietSteps, UpdateAgrees, MakingAgrees, SavingAgrees, RemovingAgrees, Zenon DEF Next
  <2> QED BY <2>2, <2>3, Zenon
<1>3. SInv => StoresAgree
  BY Zenon DEF SInv, StoresAgree, Settled, Unsettled
<1> QED BY <1>1, <1>2, <1>3, RegistryInvariance, PTL DEF Spec
=============================================================================
