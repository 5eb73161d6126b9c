-------------------------- MODULE MachineRegistry --------------------------
(***************************************************************************)
(* Which machines exist and who may change them (libvm: lock_manager.rs,   *)
(* machine/builder.rs, machine/config.rs, Machine::remove, and the way     *)
(* runtime/core.rs takes a machine's lock).  Three stores have to agree:   *)
(* the SQLite row, the machine directory with its config.json, and the     *)
(* lock file whose existence reserves a lock id and whose flock serialises *)
(* the operations on a machine.  A lock is held on an inode, not on a      *)
(* path: freeing an id unlinks the file under the callers that wait on it, *)
(* and taking a lock creates the file when it is not there.                *)
(***************************************************************************)
EXTENDS Integers, FiniteSets

CONSTANTS
    None,         \* Rust's Option::None
    Callers,      \* threads of processes that use the runtime
    MaxMachines,  \* bound on the machines ever created
    MaxLockId,    \* bound on lock ids
    MaxInodes,    \* bound on the inodes of lock files in use at once
    Names,        \* machine names
    Specs,        \* VM specs
    StoreFails,   \* whether a store call may fail for reasons of its own
    MaxCrashes    \* bound on callers that are killed inside a call

Machines == 1..MaxMachines
LockIds == 0..MaxLockId
Inodes == 1..MaxInodes

ASSUME RegistryAssumption ==
    /\ MaxMachines \in Nat /\ MaxLockId \in Nat /\ MaxInodes \in Nat /\ MaxCrashes \in Nat
    /\ StoreFails \in BOOLEAN
    /\ None \notin Machines \cup LockIds \cup Inodes \cup Callers \cup Specs

MachineConfig == [name: Names, lock_id: LockIds, spec: Specs]

ASSUME NoneIsNoConfig == None \notin MachineConfig

VARIABLES
    born,      \* machine ids ever drawn
    row,       \* machine_config: the row of a machine
    file,      \* machine directories: the spec in config.json
    path,      \* lock files: the inode at locks/<id>
    holder,    \* the caller that has an inode flocked
    pc,        \* where a caller is
    mach,      \* the machine it is about
    lock,      \* the lock id it has allocated, or read from the row
    fd,        \* the inode it has open
    conf,      \* the config it has read, or is about to store
    crashes

vars == <<born, row, file, path, holder, pc, mach, lock, fd, conf, crashes>>
locals == <<mach, lock, fd, conf>>

\* A caller that creates a machine and owns the lock id it has allocated.
Creating == {"mkdir", "commit", "rollback"}

\* A caller inside a machine's critical section, while the row is there.
Inside == {"change", "write", "save", "saverow", "rmrow"}

Places == {"idle", "allocate", "open", "flock", "tryopen", "tryflock", "resolve", "record",
           "free"} \cup Creating \cup Inside

NameTaken(name) == \E m \in Machines : row[m] # None /\ row[m].name = name

\* An inode with neither a directory entry nor an open descriptor; the lowest will do.
Unused(i) == (\A l \in LockIds : path[l] # i) /\ (\A c \in Callers : fd[c] # i)
FreshInode(i) == Unused(i) /\ \A j \in 1..(i - 1) : ~ Unused(j)

Goto(c, place) == pc' = [pc EXCEPT ![c] = place]

\* The call is over: its descriptor is closed, and the flock on it released.
Return(c) ==
    /\ Goto(c, "idle")
    /\ mach' = [mach EXCEPT ![c] = None] /\ lock' = [lock EXCEPT ![c] = None]
    /\ fd' = [fd EXCEPT ![c] = None] /\ conf' = [conf EXCEPT ![c] = None]
    /\ holder' = [i \in Inodes |-> IF holder[i] = c THEN None ELSE holder[i]]

-----------------------------------------------------------------------------
(* MachineBuilder::create *)

\* The name is free and a new id is drawn; a taken name ends the call (a generated name
\* is tried again as another call).
create_machine_guard(c, name, spec, m) ==
    /\ pc[c] = "idle" /\ m \notin born /\ \A n \in 1..(m - 1) : n \in born
    /\ ~ NameTaken(name)
    /\ born' = born \cup {m}
    /\ mach' = [mach EXCEPT ![c] = m]
    /\ lock' = [lock EXCEPT ![c] = 0]
    /\ conf' = [conf EXCEPT ![c] = [name |-> name, lock_id |-> 0, spec |-> spec]]
    /\ Goto(c, "allocate")
    /\ UNCHANGED <<row, file, path, holder, fd, crashes>>

\* Mutant: the file is created or opened, whichever it takes.
allocate_shared(c) ==
    /\ pc[c] = "allocate"
    /\ \E i \in Inodes : FreshInode(i) /\ path' = [path EXCEPT ![lock[c]] =
           IF path[lock[c]] = None THEN i ELSE path[lock[c]]]
    /\ conf' = [conf EXCEPT ![c] = [conf[c] EXCEPT !.lock_id = lock[c]]]
    /\ Goto(c, "mkdir")
    /\ UNCHANGED <<born, row, file, holder, mach, lock, fd, crashes>>

\* One turn of the scan: create_new takes the id, or finds it taken and goes to the next.
allocate(c) ==
    /\ pc[c] = "allocate"
    /\ \/ /\ path[lock[c]] = None
          /\ \E i \in Inodes : FreshInode(i) /\ path' = [path EXCEPT ![lock[c]] = i]
          /\ conf' = [conf EXCEPT ![c] = [conf[c] EXCEPT !.lock_id = lock[c]]]
          /\ Goto(c, "mkdir") /\ UNCHANGED lock
       \/ /\ path[lock[c]] # None /\ lock[c] < MaxLockId
          /\ lock' = [lock EXCEPT ![c] = lock[c] + 1]
          /\ UNCHANGED <<path, conf, pc>>
    /\ UNCHANGED <<born, row, file, holder, mach, fd, crashes>>

\* The directory, config.json and the root disk; a failure drops the guard.
create_machine_dir(c) ==
    /\ pc[c] = "mkdir"
    /\ \/ file' = [file EXCEPT ![mach[c]] = conf[c].spec] /\ Goto(c, "commit")
       \/ UNCHANGED file /\ Goto(c, "rollback")
    /\ UNCHANGED <<born, row, path, holder, locals, crashes>>

\* The unique name decides between two creates that both found the name free.
add_machine(c) ==
    /\ pc[c] = "commit"
    /\ \/ /\ ~ NameTaken(conf[c].name)
          /\ row' = [row EXCEPT ![mach[c]] = conf[c]]
          /\ Return(c)
       \/ /\ NameTaken(conf[c].name) \/ StoreFails
          /\ Goto(c, "rollback") /\ UNCHANGED <<row, holder, locals>>
    /\ UNCHANGED <<born, file, path, crashes>>

\* Mutant: the guard forgets the directory.
MachineCreateGuard_keeps_dir(c) ==
    /\ pc[c] = "rollback"
    /\ path' = [path EXCEPT ![lock[c]] = None]
    /\ Return(c)
    /\ UNCHANGED <<born, row, file, crashes>>

\* The guard is dropped without a commit.
MachineCreateGuard(c) ==
    /\ pc[c] = "rollback"
    /\ file' = [file EXCEPT ![mach[c]] = None]
    /\ path' = [path EXCEPT ![lock[c]] = None]
    /\ Return(c)
    /\ UNCHANGED <<born, row, crashes>>

-----------------------------------------------------------------------------
(* lock_machine_config *)

\* Mutant: the caller keeps the machine where the lock id belongs.
resolve_machine_config_swapped(c, m, next) ==
    /\ pc[c] = "idle" /\ row[m] # None
    /\ mach' = [mach EXCEPT ![c] = row[m].lock_id]
    /\ lock' = [lock EXCEPT ![c] = m]
    /\ conf' = [conf EXCEPT ![c] = row[m]]
    /\ Goto(c, next)
    /\ UNCHANGED <<born, row, file, path, holder, fd, crashes>>

\* The row is read to learn the lock id; next is "open" for the operations that wait for
\* the lock and "tryopen" for the observers that do not.
resolve_machine_config(c, m, next) ==
    /\ pc[c] = "idle"
    /\ IF row[m] = None THEN UNCHANGED <<mach, lock, conf, pc>>
       ELSE /\ mach' = [mach EXCEPT ![c] = m]
            /\ lock' = [lock EXCEPT ![c] = row[m].lock_id]
            /\ conf' = [conf EXCEPT ![c] = row[m]]
            /\ Goto(c, next)
    /\ UNCHANGED <<born, row, file, path, holder, fd, crashes>>

\* The lock file is opened, and created when someone has freed it.
open_lock_file(c) ==
    /\ pc[c] \in {"open", "tryopen"}
    /\ \/ /\ path[lock[c]] # None
          /\ fd' = [fd EXCEPT ![c] = path[lock[c]]] /\ UNCHANGED path
       \/ /\ path[lock[c]] = None
          /\ \E i \in Inodes : /\ FreshInode(i)
                               /\ path' = [path EXCEPT ![lock[c]] = i]
                               /\ fd' = [fd EXCEPT ![c] = i]
    /\ Goto(c, IF pc[c] = "open" THEN "flock" ELSE "tryflock")
    /\ UNCHANGED <<born, row, file, holder, mach, lock, conf, crashes>>

\* Mutant: a shared lock where an exclusive one is meant.
Flock_shared(c) ==
    /\ pc[c] \in {"flock", "tryflock"}
    /\ holder' = [holder EXCEPT ![fd[c]] = c]
    /\ Goto(c, IF pc[c] = "flock" THEN "resolve" ELSE "record")
    /\ UNCHANGED <<born, row, file, path, locals, crashes>>

Flock(c) ==
    /\ pc[c] \in {"flock", "tryflock"} /\ holder[fd[c]] = None
    /\ holder' = [holder EXCEPT ![fd[c]] = c]
    /\ Goto(c, IF pc[c] = "flock" THEN "resolve" ELSE "record")
    /\ UNCHANGED <<born, row, file, path, locals, crashes>>

\* try_lock gives up on a machine that is being worked on.
WouldBlock(c) ==
    /\ pc[c] = "tryflock" /\ holder[fd[c]] # None
    /\ Return(c)
    /\ UNCHANGED <<born, row, file, path, crashes>>

\* Mutant: the config read before the wait for the lock is still good.
lock_machine_config_once(c) ==
    /\ pc[c] = "resolve"
    /\ IF row[mach[c]] # None
         THEN Goto(c, "change") /\ UNCHANGED <<holder, locals>>
         ELSE Return(c)
    /\ UNCHANGED <<born, row, file, path, crashes>>

\* With the lock held the row is read again: the machine may be gone by now.
lock_machine_config(c) ==
    /\ pc[c] = "resolve"
    /\ IF row[mach[c]] # None /\ row[mach[c]].lock_id = lock[c]
         THEN /\ conf' = [conf EXCEPT ![c] = row[mach[c]]]
              /\ Goto(c, "change") /\ UNCHANGED <<holder, mach, lock, fd>>
         ELSE Return(c)
    /\ UNCHANGED <<born, row, file, path, crashes>>

\* The reconciled state is saved and the lock released; the foreign key refuses the
\* state of a machine that is gone, which this path does not look for.
save_machine_state(c) ==
    /\ pc[c] = "record"
    /\ Return(c)
    /\ UNCHANGED <<born, row, file, path, crashes>>

-----------------------------------------------------------------------------
(* What is done with the lock held *)

\* The machine is active, the request invalid, or the operation touches none of the three
\* stores (start, stop, kill, wait).
ReturnEarly(c) ==
    /\ pc[c] = "change"
    /\ Return(c)
    /\ UNCHANGED <<born, row, file, path, crashes>>

\* update, replace_config and set_network: a new name has to be free.  replace_config
\* writes config.json whatever the spec, the others only when the spec changes.
Update(c, name, spec) ==
    /\ pc[c] = "change"
    /\ \/ /\ name # conf[c].name => ~ NameTaken(name)
          /\ conf' = [conf EXCEPT ![c] = [conf[c] EXCEPT !.name = name, !.spec = spec]]
          /\ Goto(c, "write") \/ (spec = conf[c].spec /\ Goto(c, "saverow"))
          /\ UNCHANGED <<holder, mach, lock, fd>>
       \/ name # conf[c].name /\ NameTaken(name) /\ Return(c)
    /\ UNCHANGED <<born, row, file, path, crashes>>

\* A failed removal may have left the machine without its directory.
write_machine_config(c) ==
    /\ pc[c] = "write"
    /\ \/ /\ file[mach[c]] # None
          /\ file' = [file EXCEPT ![mach[c]] = conf[c].spec]
          /\ Goto(c, "save") /\ UNCHANGED <<holder, locals>>
       \/ file[mach[c]] = None /\ Return(c) /\ UNCHANGED file
    /\ UNCHANGED <<born, row, path, crashes>>

\* The whole config is stored, if the unique name allows it.
Stored(c) ==
    /\ \A m \in Machines \ {mach[c]} : row[m] # None => row[m].name # conf[c].name
    /\ row' = [row EXCEPT ![mach[c]] = conf[c]]
    /\ UNCHANGED file

Refused(c) ==
    /\ \/ StoreFails
       \/ \E m \in Machines \ {mach[c]} : row[m] # None /\ row[m].name = conf[c].name
    /\ UNCHANGED row

\* After a refusal config.json gets the previous spec back, the one still in the row.
save_machine_config(c) ==
    /\ \/ pc[c] \in {"save", "saverow"} /\ Stored(c)
       \/ pc[c] = "saverow" /\ Refused(c) /\ UNCHANGED file
       \/ pc[c] = "save" /\ Refused(c) /\ file' = [file EXCEPT ![mach[c]] = row[mach[c]].spec]
    /\ Return(c)
    /\ UNCHANGED <<born, path, crashes>>

-----------------------------------------------------------------------------
(* Machine::remove *)

\* An inactive machine's directory goes first,
remove(c) ==
    /\ pc[c] = "change"
    /\ file' = [file EXCEPT ![mach[c]] = None]
    /\ Goto(c, "rmrow")
    /\ UNCHANGED <<born, row, path, holder, locals, crashes>>

\* then the rows, in one transaction,
remove_machine(c) ==
    /\ pc[c] = "rmrow"
    /\ \/ row' = [row EXCEPT ![mach[c]] = None] /\ Goto(c, "free") /\ UNCHANGED <<holder, locals>>
       \/ StoreFails /\ Return(c) /\ UNCHANGED row
    /\ UNCHANGED <<born, file, path, crashes>>

\* and the lock file last, with the flock on its inode still held.
free(c) ==
    /\ pc[c] = "free"
    /\ path' = [path EXCEPT ![lock[c]] = None]
    /\ Return(c)
    /\ UNCHANGED <<born, row, file, crashes>>

\* The kernel closes the descriptors of a caller that is killed.
Crash(c) ==
    /\ pc[c] # "idle" /\ crashes < MaxCrashes
    /\ crashes' = crashes + 1
    /\ Return(c)
    /\ UNCHANGED <<born, row, file, path>>

-----------------------------------------------------------------------------
Init ==
    /\ born = {}
    /\ row = [m \in Machines |-> None] /\ file = [m \in Machines |-> None]
    /\ path = [l \in LockIds |-> None] /\ holder = [i \in Inodes |-> None]
    /\ pc = [c \in Callers |-> "idle"]
    /\ mach = [c \in Callers |-> None] /\ lock = [c \in Callers |-> None]
    /\ fd = [c \in Callers |-> None] /\ conf = [c \in Callers |-> None]
    /\ crashes = 0

Next == \E c \in Callers :
    \/ \E name \in Names, spec \in Specs, m \in Machines : create_machine_guard(c, name, spec, m)
    \/ allocate(c) \/ create_machine_dir(c) \/ add_machine(c) \/ MachineCreateGuard(c)
    \/ \E m \in Machines, next \in {"open", "tryopen"} : resolve_machine_config(c, m, next)
    \/ open_lock_file(c) \/ Flock(c) \/ WouldBlock(c) \/ lock_machine_config(c)
    \/ save_machine_state(c) \/ ReturnEarly(c)
    \/ \E name \in Names, spec \in Specs : Update(c, name, spec)
    \/ write_machine_config(c) \/ save_machine_config(c)
    \/ remove(c) \/ remove_machine(c) \/ free(c) \/ Crash(c)

Spec == Init /\ [][Next]_vars

-----------------------------------------------------------------------------
(* Properties *)

\* Type invariant of the three stores and the callers.
TypeOK ==
    /\ born \subseteq Machines
    /\ row \in [Machines -> MachineConfig \cup {None}]
    /\ file \in [Machines -> Specs \cup {None}]
    /\ path \in [LockIds -> Inodes \cup {None}]
    /\ holder \in [Inodes -> Callers \cup {None}]
    /\ pc \in [Callers -> Places]
    /\ mach \in [Callers -> Machines \cup {None}]
    /\ lock \in [Callers -> LockIds \cup {None}]
    /\ fd \in [Callers -> Inodes \cup {None}]
    /\ conf \in [Callers -> MachineConfig \cup {None}]
    /\ crashes \in 0..MaxCrashes

\* Two callers are never inside the critical section of one machine, although lock files
\* are unlinked and created again under the callers that wait for them.
OneInside ==
    \A c, d \in Callers :
        pc[c] \in Inside /\ pc[d] \in Inside /\ mach[c] = mach[d] => c = d

\* Two machines never share a lock id, whatever creates race and removals free.
LockIdsDistinct ==
    \A m, n \in Machines :
        row[m] # None /\ row[n] # None /\ row[m].lock_id = row[n].lock_id => m = n

\* No update is lost: a caller that decides what to change has read the row as it is, and
\* nobody changes it under the lock.
SeesLatest ==
    \A c \in Callers : pc[c] = "change" => conf[c] = row[mach[c]]

\* Calls that run to their end leave no debris: a machine nobody works on has its
\* directory exactly when it has its row, and config.json holds the spec of the row.  A
\* removal whose rows the store refuses to delete leaves a row without a directory.
StoresAgree ==
    \A m \in Machines : crashes = 0 /\ (\A c \in Callers : mach[c] = m => pc[c] = "free") =>
        IF row[m] = None THEN file[m] = None
        ELSE file[m] = row[m].spec \/ (StoreFails /\ file[m] = None)
=============================================================================
