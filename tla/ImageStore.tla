----------------------------- MODULE ImageStore -----------------------------
(***************************************************************************)
(* The image store (ocidisk/src/store.rs): bento processes that turn image *)
(* references into cached root filesystems, in one directory that they     *)
(* share.  A pull from a registry holds the lock of its image, downloads   *)
(* the layers as futures of one task, each under the lock of its blob,     *)
(* applies them in a staging directory and renames that into place.  An    *)
(* image made from a local archive or tar takes no lock.  flock is taken   *)
(* blocking: while one future waits for it, no future of the process runs. *)
(* A process may crash anywhere; the kernel then frees its locks.          *)
(***************************************************************************)
EXTENDS Naturals, Sequences, Functions

CONSTANTS
    None,
    Pullers,        \* processes
    Layers,         \* image id -> sequence of layer digests (numbers)
    Tars,           \* ids of images made from a plain tar, their own only layer
    Size,           \* chunks in a layer
    MaxPulls        \* bound: requests per process

VARIABLES
    proc,           \* what each process is doing
    futures,        \* its download futures, one per layer
    blocked,        \* the future in which its thread waits for flock, or None
    imageLock, blobLock,
    blobs,          \* blobs/: digest -> None, "good" or "bad" (damaged on disk)
    parts,          \* tmp/*.part: digest -> None or what was downloaded
    images,         \* image directories: id -> None or what made them
    staging,        \* staging directories on disk
    index, indexTmp \* index.json: tag -> id, and index.json.tmp

storeVars == <<proc, futures, blocked, imageLock, blobLock, blobs, parts, images, staging, index, indexTmp>>
fileVars == <<blobs, parts, images, staging, index, indexTmp>>

Ids == DOMAIN Layers
Manifests == Ids \ Tars
Digests == UNION {Range(Layers[m]) : m \in Manifests}
Sources == {"OciRegistry", "OciArchive", "Tar"}
NoRequest == [id |-> None, source |-> "OciRegistry", tagged |-> FALSE]
Requests == [id: Ids, source: Sources, tagged: BOOLEAN]
StorePlaces == {"idle", "lock", "cached", "download", "build", "place", "tag", "tag_write", "tag_rename"}
Future == {"todo", "locked", "stream", "done"}

\* An image directory, an index and an unfinished download, as they are on disk.
ImageDir == [source: Sources, layers: Seq(Nat)]
Index == [Manifests -> Ids \cup {None}]
Part == [n: 1..(Size + 1), ok: BOOLEAN]

Proc == [pc: StorePlaces, req: Requests \cup {NoRequest}, result: {None, "ok", "err", "crashed"},
         pulls: 0..MaxPulls, done: Seq(Nat), staged: BOOLEAN, read: Index \cup {None}]

\* A layer is known by a number, and None is neither an answer nor a file.
ASSUME StoreAssumption ==
    /\ \A m \in Ids : Layers[m] \in Seq(Nat)
    /\ Size \in Nat /\ MaxPulls \in Nat
    /\ None \notin {"ok", "err"} /\ None \notin ImageDir

StoreTypeOK ==
    /\ proc \in [Pullers -> Proc]
    /\ futures \in [Pullers -> Seq(Future)] /\ blocked \in [Pullers -> Nat \cup {None}]
    /\ imageLock \in [Manifests -> Pullers \cup {None}] /\ blobLock \in [Digests -> Pullers \cup {None}]
    /\ blobs \in [Digests -> {None, "good", "bad"}] /\ parts \in [Digests -> Part \cup {None}]
    /\ images \in [Ids -> ImageDir \cup {None}] /\ staging \subseteq Pullers \X (1..MaxPulls)
    /\ index \in Index /\ indexTmp \in Index \cup {None}

-----------------------------------------------------------------------------

Place(p, pc) == proc' = [proc EXCEPT ![p].pc = pc]
NoFutures == <<>>

\* Mutant: the name of the staging directory is the process alone.
Stage_shared(p) == <<p, 0>>

Stage(p) == <<p, proc[p].pulls>>

\* Mutant: a call that fails keeps the locks it has.
Finish_leaky(p, result) ==
    /\ proc' = [proc EXCEPT ![p].pc = "idle", ![p].result = result, ![p].staged = FALSE, ![p].read = None]
    /\ futures' = [futures EXCEPT ![p] = NoFutures]
    /\ blocked' = [blocked EXCEPT ![p] = None]
    /\ UNCHANGED <<imageLock, blobLock>>

\* A call returns: its locks are dropped with its futures, and its staging directory is
\* removed unless it was renamed.
Finish(p, result) ==
    /\ proc' = [proc EXCEPT ![p].pc = "idle", ![p].result = result, ![p].staged = FALSE, ![p].read = None]
    /\ futures' = [futures EXCEPT ![p] = NoFutures]
    /\ blocked' = [blocked EXCEPT ![p] = None]
    /\ imageLock' = [m \in Manifests |-> IF imageLock[m] = p THEN None ELSE imageLock[m]]
    /\ blobLock' = [d \in Digests |-> IF blobLock[d] = p THEN None ELSE blobLock[d]]

Begin(p, id, source, tagged, pc) ==
    /\ proc[p].pc = "idle" /\ proc[p].pulls < MaxPulls
    /\ proc' = [proc EXCEPT ![p] = [pc |-> pc, req |-> [id |-> id, source |-> source, tagged |-> tagged],
                                    result |-> None, pulls |-> @.pulls + 1, done |-> <<>>, staged |-> FALSE, read |-> None]]
    /\ UNCHANGED <<futures, blocked, imageLock, blobLock, fileVars>>

\* get_or_create parses the reference and goes one of three ways (a local disk is used as
\* it is and touches no state).  A tag or a digest at a registry: the manifest is resolved,
\* then everything to the end happens under the image's lock.
get_or_create_remote_oci(p, id, tagged) == id \in Manifests /\ Begin(p, id, "OciRegistry", tagged, "lock")

\* An archive is read, and built without a lock: check_cache, create_rootfs, place_*.
get_or_create_oci_archive(p, id) == id \in Manifests /\ Begin(p, id, "OciArchive", FALSE, "cached")

\* A plain tar goes the same way under the hash of the file.
get_or_create_rootfs_tar(p, id) == id \in Tars /\ Begin(p, id, "Tar", FALSE, "cached")

take_image_lock(p) ==
    /\ proc[p].pc = "lock" /\ imageLock[proc[p].req.id] = None
    /\ imageLock' = [imageLock EXCEPT ![proc[p].req.id] = p]
    /\ Place(p, "cached")
    /\ UNCHANGED <<futures, blocked, blobLock, fileVars>>

\* Mutant: what made the image is not compared.
cached_image_any(id, source) == IF images[id] = None THEN "miss" ELSE "hit"

\* An entry of another source is reported as corrupt.
cached_image(id, source) ==
    CASE images[id] = None -> "miss"
      [] images[id] # None /\ images[id].source = source -> "hit"
      [] OTHER -> "corrupt"

Hit(p) == IF proc[p].req.tagged THEN Place(p, "tag") /\ UNCHANGED <<futures, blocked, imageLock, blobLock>>
                                ELSE Finish(p, "ok")

check_cache(p) ==
    /\ proc[p].pc = "cached"
    /\ LET r == proc[p].req IN
       CASE cached_image(r.id, r.source) = "hit" -> Hit(p)
         [] cached_image(r.id, r.source) = "corrupt" -> Finish(p, "err")
         [] OTHER ->
              /\ Place(p, IF r.source = "OciRegistry" THEN "download" ELSE "build")
              /\ futures' = [futures EXCEPT ![p] = IF r.source = "OciRegistry"
                                                   THEN [i \in DOMAIN Layers[r.id] |-> "todo"] ELSE NoFutures]
              /\ UNCHANGED <<blocked, imageLock, blobLock>>
    /\ UNCHANGED fileVars

-----------------------------------------------------------------------------
(* Layer downloads *)

Digest(p, i) == Layers[proc[p].req.id][i]
Runs(p) == proc[p].pc = "download" /\ blocked[p] = None
Unlock(d) == blobLock' = [blobLock EXCEPT ![d] = None]
Got(p, i) ==
    /\ futures' = [futures EXCEPT ![p][i] = "done"]
    /\ proc' = [proc EXCEPT ![p].done = Append(@, i)]

\* The future reaches flock, in the order of the layers: it goes on, or its thread waits.
layer_lock(p, i) ==
    /\ Runs(p) /\ futures[p][i] = "todo"
    /\ \A j \in 1..i - 1 : futures[p][j] # "todo"
    /\ IF blobLock[Digest(p, i)] = None
       THEN /\ blobLock' = [blobLock EXCEPT ![Digest(p, i)] = p]
            /\ futures' = [futures EXCEPT ![p][i] = "locked"]
            /\ UNCHANGED blocked
       ELSE blocked' = [blocked EXCEPT ![p] = i] /\ UNCHANGED <<blobLock, futures>>
    /\ UNCHANGED <<proc, imageLock, fileVars>>

flock_returns(p) ==
    /\ blocked[p] # None /\ blobLock[Digest(p, blocked[p])] = None
    /\ blobLock' = [blobLock EXCEPT ![Digest(p, blocked[p])] = p]
    /\ futures' = [futures EXCEPT ![p][blocked[p]] = "locked"]
    /\ blocked' = [blocked EXCEPT ![p] = None]
    /\ UNCHANGED <<proc, imageLock, fileVars>>

\* Mutant: a blob that is there is taken as it is.
verified_blob_exists_trusting(d) == blobs[d] # None
verified_blob_exists(d) == blobs[d] = "good"

Whole(d) == parts[d] # None /\ parts[d].n = Size
TooLong(d) == parts[d] # None /\ parts[d].n > Size

\* Under the lock and without an await: a blob that verifies is used, any other is removed;
\* a finished part is promoted, or removed when it does not verify or is too long; then the registry is
\* asked for the rest, and may send everything again.
get_or_download_layer(p, i) ==
    LET d == Digest(p, i) IN
    /\ Runs(p) /\ futures[p][i] = "locked"
    /\ CASE verified_blob_exists(d) -> Got(p, i) /\ Unlock(d) /\ UNCHANGED <<blobs, parts>>
         [] ~verified_blob_exists(d) /\ Whole(d) /\ parts[d].ok ->
              /\ blobs' = [blobs EXCEPT ![d] = "good"] /\ parts' = [parts EXCEPT ![d] = None]
              /\ Got(p, i) /\ Unlock(d)
         [] OTHER ->
              /\ blobs' = [blobs EXCEPT ![d] = None]
              /\ \E full \in BOOLEAN : parts' = IF Whole(d) \/ TooLong(d) \/ full THEN [parts EXCEPT ![d] = None] ELSE parts
              /\ futures' = [futures EXCEPT ![p][i] = "stream"]
              /\ UNCHANGED <<proc, blobLock>>
    /\ UNCHANGED <<blocked, imageLock, images, staging, index, indexTmp>>

\* A chunk arrives, intact or not, and is appended; one chunk too many stands for any
\* stream that is longer than the manifest says.
write_layer_stream(p, i) ==
    LET d == Digest(p, i) IN
    /\ Runs(p) /\ futures[p][i] = "stream" /\ (parts[d] # None => parts[d].n <= Size)
    /\ \E ok \in BOOLEAN :
          parts' = [parts EXCEPT ![d] = IF @ = None THEN [n |-> 1, ok |-> ok] ELSE [n |-> @.n + 1, ok |-> @.ok /\ ok]]
    /\ UNCHANGED <<proc, futures, blocked, imageLock, blobLock, blobs, images, staging, index, indexTmp>>

\* Mutant: only the size of the part is looked at.
verify_layer_file_size(d) == Whole(d)
verify_layer_file(d) == Whole(d) /\ parts[d].ok

\* The stream ends: the part is verified and promoted, or removed.
promote_layer_part(p, i) ==
    LET d == Digest(p, i) IN
    /\ Runs(p) /\ futures[p][i] = "stream" /\ parts[d] # None
    /\ parts' = [parts EXCEPT ![d] = None]
    /\ IF verify_layer_file(d)
       THEN /\ blobs' = [blobs EXCEPT ![d] = IF parts[d].ok THEN "good" ELSE "bad"]
            /\ Got(p, i) /\ Unlock(d) /\ UNCHANGED <<blocked, imageLock>>
       ELSE Finish(p, "err") /\ UNCHANGED blobs
    /\ UNCHANGED <<images, staging, index, indexTmp>>

\* The registry fails: the part stays for the next attempt.
download_fails(p) ==
    /\ Runs(p) /\ \E i \in DOMAIN futures[p] : futures[p][i] = "stream"
    /\ Finish(p, "err") /\ UNCHANGED fileVars

\* Mutant: the blobs are used in the order in which they arrived.
ensure_layer_blobs_unsorted(p) ==
    /\ Runs(p) /\ \A i \in DOMAIN futures[p] : futures[p][i] = "done"
    /\ proc' = [proc EXCEPT ![p].pc = "build"]
    /\ UNCHANGED <<futures, blocked, imageLock, blobLock, fileVars>>

\* All layers are there; they are sorted by their index.
ensure_layer_blobs(p) ==
    /\ Runs(p) /\ \A i \in DOMAIN futures[p] : futures[p][i] = "done"
    /\ proc' = [proc EXCEPT ![p].pc = "build", ![p].done = [i \in DOMAIN futures[p] |-> i]]
    /\ UNCHANGED <<futures, blocked, imageLock, blobLock, fileVars>>

-----------------------------------------------------------------------------
(* Building and placing the image *)

\* Mutant: the staging directory stays behind.
StagingDir_drop_nothing(p) == staging
StagingDir_drop(p) == staging \ {Stage(p)}

\* The layers are applied in a staging directory and the metadata is written; or a step of
\* that fails.
create_rootfs(p) ==
    /\ proc[p].pc = "build"
    /\ \/ /\ ~proc[p].staged
          /\ staging' = staging \cup {Stage(p)}
          /\ proc' = [proc EXCEPT ![p].staged = TRUE]
          /\ UNCHANGED <<futures, blocked, imageLock, blobLock>>
       \/ /\ proc[p].staged /\ Place(p, "place") /\ UNCHANGED <<futures, blocked, imageLock, blobLock, staging>>
       \/ /\ proc[p].staged /\ Finish(p, "err") /\ staging' = StagingDir_drop(p)
    /\ UNCHANGED <<blobs, parts, images, index, indexTmp>>

Built(p) == [source |-> proc[p].req.source,
             layers |-> IF proc[p].req.source = "OciRegistry"
                        THEN [i \in DOMAIN proc[p].done |-> Layers[proc[p].req.id][proc[p].done[i]]]
                        ELSE Layers[proc[p].req.id]]

\* The last look before the rename; an image that appeared meanwhile is used.
place_checked(p) ==
    /\ proc[p].pc = "place" /\ images[proc[p].req.id] # None
    /\ staging' = StagingDir_drop(p)
    /\ IF cached_image(proc[p].req.id, proc[p].req.source) = "hit" THEN Hit(p) ELSE Finish(p, "err")
    /\ UNCHANGED <<blobs, parts, images, index, indexTmp>>

\* rename moves the staging directory, or fails because the image appeared after the look.
place_renamed(p) ==
    /\ proc[p].pc = "place"
    /\ staging' = StagingDir_drop(p)
    /\ IF images[proc[p].req.id] = None
       THEN images' = [images EXCEPT ![proc[p].req.id] = Built(p)] /\ Hit(p)
       ELSE Finish(p, "err") /\ UNCHANGED images
    /\ UNCHANGED <<blobs, parts, index, indexTmp>>

\* Mutant: the tag is set from the request alone, before the image is there.
update_tag_mapping_early(p) ==
    /\ proc[p].pc \in {"download", "tag"}
    /\ index' = [index EXCEPT ![proc[p].req.id] = proc[p].req.id]
    /\ IF proc[p].pc = "tag" THEN Finish(p, "ok") ELSE UNCHANGED <<proc, futures, blocked, imageLock, blobLock>>
    /\ UNCHANGED <<blobs, parts, images, staging, indexTmp>>

\* update_tag_mapping: the index is read, written to index.json.tmp and renamed.  Another
\* image's pull may do the same at the same time; its tags are then lost, or the rename
\* finds no file.
update_tag_mapping(p) ==
    /\ \/ /\ proc[p].pc = "tag"
          /\ proc' = [proc EXCEPT ![p].pc = "tag_write", ![p].read = index]
          /\ UNCHANGED <<futures, blocked, imageLock, blobLock, index, indexTmp>>
       \/ /\ proc[p].pc = "tag_write" /\ Place(p, "tag_rename")
          /\ indexTmp' = [proc[p].read EXCEPT ![proc[p].req.id] = proc[p].req.id]
          /\ UNCHANGED <<futures, blocked, imageLock, blobLock, index>>
       \/ /\ proc[p].pc = "tag_rename"
          /\ IF indexTmp = None THEN Finish(p, "err") /\ UNCHANGED <<index, indexTmp>>
             ELSE Finish(p, "ok") /\ index' = indexTmp /\ indexTmp' = None
    /\ UNCHANGED <<blobs, parts, images, staging>>

-----------------------------------------------------------------------------
(* Faults *)

Crash(p) ==
    /\ proc[p].pc # "idle"
    /\ Finish(p, "crashed") /\ UNCHANGED fileVars

\* A blob is damaged on disk, outside of a build that reads it.
Damage(d) ==
    /\ blobs[d] = "good" /\ \A p \in Pullers : proc[p].pc \notin {"download", "build"}
    /\ blobs' = [blobs EXCEPT ![d] = "bad"]
    /\ UNCHANGED <<proc, futures, blocked, imageLock, blobLock, parts, images, staging, index, indexTmp>>

-----------------------------------------------------------------------------

StoreInit ==
    /\ proc = [p \in Pullers |-> [pc |-> "idle", req |-> NoRequest, result |-> None, pulls |-> 0,
                                  done |-> <<>>, staged |-> FALSE, read |-> None]]
    /\ futures = [p \in Pullers |-> NoFutures] /\ blocked = [p \in Pullers |-> None]
    /\ imageLock = [m \in Manifests |-> None] /\ blobLock = [d \in Digests |-> None]
    /\ blobs = [d \in Digests |-> None] /\ parts = [d \in Digests |-> None]
    /\ images = [m \in Ids |-> None] /\ staging = {}
    /\ index = [m \in Manifests |-> None] /\ indexTmp = None

Download(p) ==
    \/ \E i \in DOMAIN futures[p] :
          layer_lock(p, i) \/ get_or_download_layer(p, i) \/ write_layer_stream(p, i) \/ promote_layer_part(p, i)
    \/ flock_returns(p) \/ download_fails(p) \/ ensure_layer_blobs(p)

StoreStep(p) ==
    \/ take_image_lock(p) \/ check_cache(p) \/ Download(p)
    \/ create_rootfs(p) \/ place_checked(p) \/ place_renamed(p) \/ update_tag_mapping(p)

StoreNext ==
    \/ \E p \in Pullers, id \in Ids :
          \/ \E tagged \in BOOLEAN : get_or_create_remote_oci(p, id, tagged)
          \/ get_or_create_oci_archive(p, id) \/ get_or_create_rootfs_tar(p, id)
    \/ \E p \in Pullers : StoreStep(p) \/ Crash(p)
    \/ \E d \in Digests : Damage(d)

StoreSpec == StoreInit /\ [][StoreNext]_storeVars

\* A process runs and a stream delivers its last chunk in the end; flock is granted.
StoreFairness ==
    \A p \in Pullers :
        /\ SF_storeVars(take_image_lock(p) \/ flock_returns(p))
        /\ WF_storeVars(StoreStep(p))
        /\ SF_storeVars(\E i \in DOMAIN futures[p] : Whole(Digest(p, i)) /\ promote_layer_part(p, i))

-----------------------------------------------------------------------------
(* Properties *)

\* What is applied has been verified: while an image is built every one of its layers is in
\* the blob directory with its own digest, although other processes download, resume and
\* remove blobs, crashed downloads have left parts and a blob may have been damaged.
AppliedLayersAreVerified ==
    \A p \in Pullers :
        proc[p].pc = "build" /\ proc[p].req.source = "OciRegistry" =>
            \A i \in DOMAIN Layers[proc[p].req.id] : blobs[Digest(p, i)] = "good"

\* An image that can be seen is whole: its layers were all applied, in the manifest's order,
\* however its downloads finished and wherever a process crashed.
ImageIsWhole == \A m \in Ids : images[m] # None => images[m].layers = Layers[m]

\* A call that reports success leaves the image in place, made from what was asked for.
SuccessMeansImage ==
    \A p \in Pullers : proc[p].result = "ok" =>
        LET id == proc[p].req.id IN images[id] # None /\ images[id].source = proc[p].req.source

\* A tag names an image that is there.
TagNamesImage == \A m \in Manifests : index[m] # None => images[index[m]] # None

\* A call that returns, with or without an error, leaves no staging directory; only a crash
\* does.
StagingIsRemoved ==
    \A p \in Pullers : proc[p].pc = "idle" /\ proc[p].result \in {"ok", "err"} => Stage(p) \notin staging

\* What the store states of its files, together.
ImagesAreWhole ==
    AppliedLayersAreVerified /\ ImageIsWhole /\ SuccessMeansImage /\ TagNamesImage /\ StagingIsRemoved

\* Pulls end, as long as the manifests that are pulled list their layers in one common
\* order without a repetition: the blocking locks are then taken in that order.
Orderly(m) == \A i, j \in DOMAIN Layers[m] : i < j => Layers[m][i] < Layers[m][j]
PullEnds ==
    \A p \in Pullers :
        proc[p].pc # "idle" ~> proc[p].pc = "idle" \/ \E q \in Pullers : proc[q].pc # "idle" /\ ~Orderly(proc[q].req.id)
=============================================================================
