-------------------------- MODULE ImageStoreProofs --------------------------
(* Every image of the store is whole, however many processes pull and tag images at a time and
   wherever one of them stops.  The invariant says what each place of a call owes the next: the
   layers it has verified and their order before the rename, the image before the tag, and an
   index that names only images that are there in every copy of it, on disk or in memory. *)
EXTENDS ImageStore, TLAPS

Tagging == {"tag", "tag_write", "tag_rename"}

\* The request of a call that is under way, and what its place says of it.
Asked(p) ==
    /\ proc[p].pc # "idle" \/ proc[p].result = "ok" => proc[p].req \in Requests
    /\ proc[p].pc # "idle" =>
          /\ proc[p].pulls > 0
          /\ proc[p].req.source = "OciRegistry" \/ proc[p].req.tagged => proc[p].req.id \in Manifests
    /\ proc[p].pc = "download" =>
          proc[p].req.source = "OciRegistry" /\ DOMAIN futures[p] = DOMAIN Layers[proc[p].req.id]
    /\ proc[p].pc \in Tagging => proc[p].req.tagged

\* A layer whose download is done, and every layer of an image that is built, is in the blob
\* directory with its own digest.
Verified(p) ==
    /\ proc[p].pc = "download" =>
          \A i \in DOMAIN Layers[proc[p].req.id] : futures[p][i] = "done" => blobs[Digest(p, i)] = "good"
    /\ proc[p].pc = "build" /\ proc[p].req.source = "OciRegistry" =>
          \A i \in DOMAIN Layers[proc[p].req.id] : blobs[Digest(p, i)] = "good"

\* The layers of an image that is built or placed are in the order of the manifest.
Sorted(p) ==
    proc[p].pc \in {"build", "place"} /\ proc[p].req.source = "OciRegistry" =>
        proc[p].done = [i \in DOMAIN Layers[proc[p].req.id] |-> i]

\* An image is there before it is tagged and before its call returns.
Placed(p) ==
    proc[p].result = "ok" \/ proc[p].pc \in Tagging =>
        images[proc[p].req.id] # None /\ images[proc[p].req.id].source = proc[p].req.source

\* Every version of the index, on disk or in a process, names images that are there.
NamesImages(x) == x \in Index /\ \A m \in Manifests : x[m] # None => images[x[m]] # None
Tagged(p) == proc[p].pc = "tag_write" => NamesImages(proc[p].read)

\* Staging directories are those of earlier calls, and of a call that is building or crashed.
Staged(p) ==
    /\ \A k \in Nat : <<p, k>> \in staging => k <= proc[p].pulls
    /\ Stage(p) \in staging =>
          proc[p].pc \in {"build", "place"} \/ (proc[p].pc = "idle" /\ proc[p].result = "crashed")

Orderly_call(p) == Asked(p) /\ Verified(p) /\ Sorted(p) /\ Placed(p) /\ Tagged(p) /\ Staged(p)

StoreInv ==
    /\ StoreTypeOK /\ \A p \in Pullers : Orderly_call(p)
    /\ ImageIsWhole /\ NamesImages(index) /\ (indexTmp # None => NamesImages(indexTmp))

\* A verified blob stays, and so does an image.
Growing ==
    /\ \A d \in Digests : blobs[d] = "good" => blobs'[d] = "good"
    /\ \A m \in Ids : images[m] # None => images'[m] = images[m]

\* The others are not touched by a step of p.
Others(p) ==
    \A q \in Pullers \ {p} :
        /\ proc'[q] = proc[q] /\ futures'[q] = futures[q]
        /\ \A k \in Nat : <<q, k>> \in staging' => <<q, k>> \in staging

-----------------------------------------------------------------------------

\* The layers of an image from a registry have their place in the blob directory.
LEMMA LayerIsDigest ==
  ASSUME NEW m \in Manifests, NEW i \in DOMAIN Layers[m]
  PROVE Layers[m][i] \in Digests
<1>1. Layers[m][i] \in Range(Layers[m])
  BY Zenon DEF Range
<1> QED BY <1>1, Zenon DEF Digests

LEMMA StoreStart == ASSUME StoreInit PROVE StoreInv
<1> USE DEF StoreInit
<1>1. StoreTypeOK
  <2>1. <<>> \in Seq(Nat) /\ <<>> \in Seq(Future)
    OBVIOUS
  <2>2. NoRequest \in Requests \cup {NoRequest} /\ 0 \in 0..MaxPulls /\ "idle" \in StorePlaces
    BY StoreAssumption DEF StorePlaces
  <2> QED BY <2>1, <2>2, Zenon DEF StoreTypeOK, Proc, NoFutures, Index
<1>2. \A p \in Pullers : Asked(p) /\ Verified(p) /\ Sorted(p) /\ Placed(p) /\ Tagged(p) /\ Staged(p)
  BY StoreAssumption, Zenon DEF Asked, Verified, Sorted, Placed, Tagging, Tagged, Staged
<1>3. ImageIsWhole /\ NamesImages(index) /\ indexTmp = None
  BY <1>1, Zenon DEF ImageIsWhole, NamesImages, StoreTypeOK
<1> QED BY <1>1, <1>2, <1>3, Zenon DEF StoreInv, Orderly_call

\* What names images goes on to name them.
LEMMA NamesStay ==
  ASSUME NEW x, NamesImages(x), Growing
  PROVE \A m \in Manifests : x[m] # None => images'[x[m]] # None
<1>1. \A m \in Manifests : x[m] \in Ids \cup {None}
  BY Zenon DEF NamesImages, Index
<1> QED BY <1>1, Zenon DEF NamesImages, Growing

\* A step of one process leaves the calls of the others in order.
LEMMA OthersStay ==
  ASSUME StoreInv, NEW p \in Pullers, Growing, Others(p), NEW q \in Pullers \ {p}
  PROVE Orderly_call(q)'
<1>0. /\ proc'[q] = proc[q] /\ futures'[q] = futures[q] /\ Orderly_call(q) /\ proc[q] \in Proc
      /\ \A k \in Nat : <<q, k>> \in staging' => <<q, k>> \in staging
  BY Zenon DEF Others, StoreInv, StoreTypeOK
<1>1. Asked(q)' /\ Sorted(q)'
  BY <1>0, Zenon DEF Orderly_call, Asked, Sorted
<1>2. Verified(q)'
  <2>1. ASSUME proc[q].pc # "idle", proc[q].req.source = "OciRegistry", NEW i \in DOMAIN Layers[proc[q].req.id]
        PROVE Digest(q, i) \in Digests
    BY <1>0, <2>1, LayerIsDigest, Zenon DEF Orderly_call, Asked, Digest
  <2> QED BY <1>0, <2>1, Zenon DEF Orderly_call, Asked, Verified, Digest, Growing
<1>3. Placed(q)'
  <2>1. proc[q].result = "ok" \/ proc[q].pc \in Tagging => proc[q].req.id \in Ids
    BY <1>0, Zenon DEF Orderly_call, Asked, Tagging, Requests
  <2> QED BY <1>0, <2>1, Zenon DEF Orderly_call, Placed, Growing
<1>4. Tagged(q)'
  BY <1>0, NamesStay, Zenon DEF Orderly_call, Tagged, NamesImages
<1>5. Staged(q)'
  <2>1. proc[q].pulls \in Nat
    BY <1>0, StoreAssumption DEF Proc
  <2> QED BY <1>0, <2>1, Zenon DEF Orderly_call, Staged, Stage
<1> QED BY <1>1, <1>2, <1>3, <1>4, <1>5, Zenon DEF Orderly_call

\* A step of p that leaves the index alone keeps the invariant if p's own call stays in order.
LEMMA StepKeeps ==
  ASSUME StoreInv, NEW p \in Pullers, Growing, Others(p), StoreTypeOK', Orderly_call(p)', ImageIsWhole',
         index' = index, indexTmp' = indexTmp
  PROVE StoreInv'
<1>1. \A q \in Pullers : Orderly_call(q)'
  BY OthersStay, Zenon
<1>2. NamesImages(index)' /\ (indexTmp' # None => NamesImages(indexTmp)')
  BY NamesStay, Zenon DEF StoreInv, NamesImages
<1> QED BY <1>1, <1>2, Zenon DEF StoreInv

\* What a call that returns or crashes does to the processes and the locks (Finish).
LEMMA FinishDoes ==
  ASSUME StoreTypeOK, NEW p \in Pullers, NEW r \in {"ok", "err", "crashed"}, Finish(p, r)
  PROVE /\ proc' \in [Pullers -> Proc] /\ futures' \in [Pullers -> Seq(Future)]
        /\ blocked' \in [Pullers -> Nat \cup {None}]
        /\ imageLock' \in [Manifests -> Pullers \cup {None}] /\ blobLock' \in [Digests -> Pullers \cup {None}]
        /\ \A q \in Pullers \ {p} : proc'[q] = proc[q] /\ futures'[q] = futures[q]
        /\ proc'[p].pc = "idle" /\ proc'[p].result = r
        /\ proc'[p].req = proc[p].req /\ proc'[p].pulls = proc[p].pulls
<1> DEFINE x == [proc[p] EXCEPT !.pc = "idle", !.result = r, !.staged = FALSE, !.read = None]
<1>1. proc[p] \in Proc
  BY Zenon DEF StoreTypeOK
<1>2. x \in Proc /\ x.pc = "idle" /\ x.result = r /\ x.req = proc[p].req /\ x.pulls = proc[p].pulls
  BY <1>1, Zenon DEF Proc, StorePlaces
<1>3. proc' = [proc EXCEPT ![p] = x]
  BY Zenon DEF Finish, StoreTypeOK
<1>4. NoFutures \in Seq(Future)
  BY DEF NoFutures
<1> HIDE DEF x
<1>5. proc' \in [Pullers -> Proc] /\ proc'[p] = x /\ \A q \in Pullers \ {p} : proc'[q] = proc[q]
  BY <1>2, <1>3, Zenon DEF StoreTypeOK
<1>6. futures' \in [Pullers -> Seq(Future)] /\ \A q \in Pullers \ {p} : futures'[q] = futures[q]
  BY <1>4, Zenon DEF Finish, StoreTypeOK
<1>7. blocked' \in [Pullers -> Nat \cup {None}]
  BY Zenon DEF Finish, StoreTypeOK
<1>8. imageLock' \in [Manifests -> Pullers \cup {None}] /\ blobLock' \in [Digests -> Pullers \cup {None}]
  BY Zenon DEF Finish, StoreTypeOK
<1> QED BY <1>2, <1>5, <1>6, <1>7, <1>8, Zenon

\* A call that returns leaves its process in order, if it returns success only with its image
\* and has removed its staging directory.
LEMMA FinishIsOrderly ==
  ASSUME StoreInv, NEW p \in Pullers, NEW r \in {"ok", "err", "crashed"}, Finish(p, r), proc[p].pc # "idle",
         staging' \subseteq staging, r # "crashed" => Stage(p) \notin staging',
         r = "ok" => images'[proc[p].req.id] # None /\ images'[proc[p].req.id].source = proc[p].req.source
  PROVE Orderly_call(p)'
<1>0. /\ proc'[p].pc = "idle" /\ proc'[p].result = r
      /\ proc'[p].req = proc[p].req /\ proc'[p].pulls = proc[p].pulls
  BY FinishDoes, Zenon DEF StoreInv
<1>1. Asked(p)' /\ Sorted(p)' /\ Verified(p)' /\ Tagged(p)' /\ Placed(p)'
  BY <1>0, Zenon DEF StoreInv, Orderly_call, Asked, Sorted, Verified, Tagged, Placed, Tagging
<1>2. Staged(p)'
  BY <1>0, Zenon DEF StoreInv, Orderly_call, Staged, Stage
<1> QED BY <1>1, <1>2, Zenon DEF Orderly_call

\* A call goes from one place to the next.
LEMMA PlaceDoes ==
  ASSUME StoreTypeOK, NEW p \in Pullers, NEW pc \in StorePlaces, Place(p, pc)
  PROVE /\ proc' \in [Pullers -> Proc] /\ \A q \in Pullers \ {p} : proc'[q] = proc[q]
        /\ proc'[p] = [proc[p] EXCEPT !.pc = pc] /\ proc'[p].pc = pc /\ proc'[p].req = proc[p].req
        /\ proc'[p].result = proc[p].result /\ proc'[p].pulls = proc[p].pulls /\ proc'[p].done = proc[p].done
        /\ proc'[p].read = proc[p].read
<1> DEFINE x == [proc[p] EXCEPT !.pc = pc]
<1>1. proc[p] \in Proc
  BY Zenon DEF StoreTypeOK
<1>2. /\ x \in Proc /\ x.pc = pc /\ x.req = proc[p].req /\ x.result = proc[p].result
      /\ x.pulls = proc[p].pulls /\ x.done = proc[p].done /\ x.read = proc[p].read
  BY <1>1, Zenon DEF Proc
<1>3. proc' = [proc EXCEPT ![p] = x]
  BY Zenon DEF Place, StoreTypeOK
<1> HIDE DEF x
<1>4. proc'[p] = x /\ proc' \in [Pullers -> Proc] /\ \A q \in Pullers \ {p} : proc'[q] = proc[q]
  BY <1>2, <1>3, Zenon DEF StoreTypeOK
<1> QED BY <1>2, <1>4, Zenon DEF x

-----------------------------------------------------------------------------

\* A call begins (get_or_create_remote_oci, get_or_create_oci_archive, get_or_create_rootfs_tar).
LEMMA Store_Begin ==
  ASSUME StoreInv, NEW p \in Pullers, NEW id \in Ids, NEW source \in Sources, NEW tagged \in BOOLEAN,
         NEW pc \in {"lock", "cached"}, Begin(p, id, source, tagged, pc),
         source = "OciRegistry" \/ tagged => id \in Manifests
  PROVE StoreInv'
<1> DEFINE r == [id |-> id, source |-> source, tagged |-> tagged]
           x == [pc |-> pc, req |-> r, result |-> None, pulls |-> proc[p].pulls + 1, done |-> <<>>,
                 staged |-> FALSE, read |-> None]
<1>0. /\ proc' = [proc EXCEPT ![p] = x] /\ proc[p] \in Proc /\ proc[p].pulls < MaxPulls
      /\ UNCHANGED <<futures, blocked, imageLock, blobLock, fileVars>>
  BY Zenon DEF Begin, StoreInv, StoreTypeOK
<1>1. r \in Requests /\ r.id = id /\ r.source = source /\ r.tagged = tagged
  BY Zenon DEF Requests
<1>2. proc[p].pulls + 1 \in 0..MaxPulls /\ proc[p].pulls + 1 > 0 /\ proc[p].pulls \in Nat
  BY <1>0, StoreAssumption DEF Proc
<1>3. <<>> \in Seq(Nat) /\ pc \in StorePlaces
  BY DEF StorePlaces
<1> HIDE DEF r
<1>4. x \in Proc /\ x.pc = pc /\ x.req = r /\ x.result = None /\ x.pulls = proc[p].pulls + 1
  BY <1>1, <1>2, <1>3, Zenon DEF Proc
<1> HIDE DEF x
<1>5. proc' \in [Pullers -> Proc] /\ proc'[p] = x /\ \A q \in Pullers \ {p} : proc'[q] = proc[q]
  BY <1>0, <1>4, Zenon DEF StoreInv, StoreTypeOK
<1>6. StoreTypeOK' /\ ImageIsWhole'
  BY <1>0, <1>5, Zenon DEF StoreInv, StoreTypeOK, ImageIsWhole, fileVars
<1>7. Growing /\ Others(p)
  BY <1>0, <1>5, Zenon DEF Growing, Others, fileVars
<1>8. Orderly_call(p)'
  <2>1. Asked(p)' /\ Sorted(p)' /\ Verified(p)' /\ Tagged(p)' /\ Placed(p)'
    BY <1>1, <1>2, <1>4, <1>5, StoreAssumption, Zenon DEF Asked, Sorted, Verified, Tagged, Placed, Tagging
  <2>2. \A k \in Nat : <<p, k>> \in staging => k <= proc[p].pulls
    BY Zenon DEF StoreInv, Orderly_call, Staged
  <2>3. Staged(p)'
    <3>1. staging' = staging /\ proc'[p].pulls = proc[p].pulls + 1
      BY <1>0, <1>4, <1>5, Zenon DEF fileVars
    <3>2. \A k \in Nat : <<p, k>> \in staging => k <= proc[p].pulls + 1 /\ k # proc[p].pulls + 1
      BY <1>2, <2>2
    <3>3. proc[p].pulls + 1 \in Nat
      BY <1>2
    <3> QED BY <3>1, <3>2, <3>3, Zenon DEF Staged, Stage
  <2> QED BY <2>1, <2>3, Zenon DEF Orderly_call
<1> QED BY <1>0, <1>6, <1>7, <1>8, StepKeeps, Zenon DEF fileVars

\* A process gets the lock of its image (take_image_lock).
LEMMA Store_take_image_lock == ASSUME StoreInv, NEW p \in Pullers, take_image_lock(p) PROVE StoreInv'
<1>0. Place(p, "cached") /\ proc[p].pc = "lock" /\ UNCHANGED <<futures, blocked, blobLock, fileVars>>
  BY Zenon DEF take_image_lock
<1>1. /\ proc' \in [Pullers -> Proc] /\ \A q \in Pullers \ {p} : proc'[q] = proc[q]
      /\ proc'[p].pc = "cached" /\ proc'[p].req = proc[p].req
      /\ proc'[p].result = proc[p].result /\ proc'[p].pulls = proc[p].pulls
  BY <1>0, PlaceDoes, Zenon DEF StoreInv, StorePlaces
<1>2. imageLock' \in [Manifests -> Pullers \cup {None}]
  BY Zenon DEF take_image_lock, StoreInv, StoreTypeOK
<1>3. StoreTypeOK' /\ ImageIsWhole'
  BY <1>0, <1>1, <1>2, Zenon DEF StoreInv, StoreTypeOK, ImageIsWhole, fileVars
<1>4. Growing /\ Others(p)
  BY <1>0, <1>1, Zenon DEF Growing, Others, fileVars
<1>5. Orderly_call(p)'
  <2>1. Asked(p)' /\ Sorted(p)' /\ Verified(p)' /\ Tagged(p)'
    BY <1>0, <1>1, Zenon DEF StoreInv, Orderly_call, Asked, Sorted, Verified, Tagged, Tagging
  <2>2. Placed(p)' /\ Staged(p)'
    BY <1>0, <1>1, Zenon DEF StoreInv, Orderly_call, Placed, Staged, Stage, Tagging, fileVars
  <2> QED BY <2>1, <2>2, Zenon DEF Orderly_call
<1> QED BY <1>0, <1>3, <1>4, <1>5, StepKeeps, Zenon DEF fileVars

\* A call that has its image goes on to the tag, or returns (Hit).
LEMMA HitDoes ==
  ASSUME StoreInv, NEW p \in Pullers, Hit(p), proc[p].pc # "idle",
         staging' \subseteq staging, Stage(p) \notin staging',
         images'[proc[p].req.id] # None, images'[proc[p].req.id].source = proc[p].req.source
  PROVE /\ proc' \in [Pullers -> Proc] /\ futures' \in [Pullers -> Seq(Future)]
        /\ blocked' \in [Pullers -> Nat \cup {None}]
        /\ imageLock' \in [Manifests -> Pullers \cup {None}] /\ blobLock' \in [Digests -> Pullers \cup {None}]
        /\ \A q \in Pullers \ {p} : proc'[q] = proc[q] /\ futures'[q] = futures[q]
        /\ Orderly_call(p)'
<1>1. CASE proc[p].req.tagged
  <2>0. Place(p, "tag") /\ UNCHANGED <<futures, blocked, imageLock, blobLock>>
    BY <1>1, Zenon DEF Hit
  <2>1. /\ proc' \in [Pullers -> Proc] /\ \A q \in Pullers \ {p} : proc'[q] = proc[q]
        /\ proc'[p].pc = "tag" /\ proc'[p].req = proc[p].req
        /\ proc'[p].result = proc[p].result /\ proc'[p].pulls = proc[p].pulls
    BY <2>0, PlaceDoes, Zenon DEF StoreInv, StorePlaces
  <2>2. Asked(p)' /\ Sorted(p)' /\ Verified(p)' /\ Tagged(p)' /\ Placed(p)'
    BY <1>1, <2>1, Zenon DEF StoreInv, Orderly_call, Asked, Sorted, Verified, Tagged, Placed, Tagging
  <2>3. Staged(p)'
    BY <2>1, Zenon DEF StoreInv, Orderly_call, Staged, Stage
  <2> QED BY <2>0, <2>1, <2>2, <2>3, Zenon DEF Orderly_call, StoreInv, StoreTypeOK
<1>2. CASE ~proc[p].req.tagged
  <2>0. Finish(p, "ok")
    BY <1>2, Zenon DEF Hit
  <2> QED BY <2>0, FinishDoes, FinishIsOrderly, Zenon DEF StoreInv
<1> QED BY <1>1, <1>2, Zenon

\* The cache is looked at (check_cache).
LEMMA Store_check_cache == ASSUME StoreInv, NEW p \in Pullers, check_cache(p) PROVE StoreInv'
<1> DEFINE r == proc[p].req
<1>0. /\ proc[p].pc = "cached" /\ UNCHANGED fileVars
      /\ \/ images[r.id] # None /\ images[r.id].source = r.source /\ Hit(p)
         \/ Finish(p, "err")
         \/ /\ Place(p, IF r.source = "OciRegistry" THEN "download" ELSE "build")
            /\ futures' = [futures EXCEPT ![p] = IF r.source = "OciRegistry"
                                                 THEN [i \in DOMAIN Layers[r.id] |-> "todo"] ELSE NoFutures]
            /\ UNCHANGED <<blocked, imageLock, blobLock>>
  BY ZenonT(60) DEF check_cache, cached_image
<1>1. images' = images /\ staging' = staging /\ index' = index /\ indexTmp' = indexTmp /\ blobs' = blobs /\ parts' = parts
  BY <1>0, Zenon DEF fileVars
<1>2. Growing /\ ImageIsWhole' /\ Stage(p) \notin staging'
  BY <1>0, <1>1, Zenon DEF Growing, StoreInv, ImageIsWhole, Orderly_call, Staged
<1>3. CASE images[r.id] # None /\ images[r.id].source = r.source /\ Hit(p)
  <2>1. /\ proc' \in [Pullers -> Proc] /\ futures' \in [Pullers -> Seq(Future)]
        /\ blocked' \in [Pullers -> Nat \cup {None}]
        /\ imageLock' \in [Manifests -> Pullers \cup {None}] /\ blobLock' \in [Digests -> Pullers \cup {None}]
        /\ \A q \in Pullers \ {p} : proc'[q] = proc[q] /\ futures'[q] = futures[q]
        /\ Orderly_call(p)'
    BY <1>0, <1>1, <1>2, <1>3, HitDoes, Zenon
  <2>2. StoreTypeOK' /\ Others(p)
    BY <1>1, <2>1, Zenon DEF StoreInv, StoreTypeOK, Others
  <2> QED BY <1>1, <1>2, <2>1, <2>2, StepKeeps, Zenon
<1>4. CASE Finish(p, "err")
  <2>1. Orderly_call(p)'
    BY <1>0, <1>1, <1>2, <1>4, FinishIsOrderly, Zenon
  <2>2. StoreTypeOK' /\ Others(p)
    BY <1>1, <1>4, FinishDoes, Zenon DEF StoreInv, StoreTypeOK, Others
  <2> QED BY <1>1, <1>2, <2>1, <2>2, StepKeeps, Zenon
<1>5. CASE /\ Place(p, IF r.source = "OciRegistry" THEN "download" ELSE "build")
           /\ futures' = [futures EXCEPT ![p] = IF r.source = "OciRegistry"
                                                THEN [i \in DOMAIN Layers[r.id] |-> "todo"] ELSE NoFutures]
           /\ UNCHANGED <<blocked, imageLock, blobLock>>
  <2>1. /\ proc' \in [Pullers -> Proc] /\ \A q \in Pullers \ {p} : proc'[q] = proc[q]
        /\ proc'[p].pc = (IF r.source = "OciRegistry" THEN "download" ELSE "build")
        /\ proc'[p].req = proc[p].req
        /\ proc'[p].result = proc[p].result /\ proc'[p].pulls = proc[p].pulls
    BY <1>5, PlaceDoes, Zenon DEF StoreInv, StorePlaces
  <2>2. r \in Requests /\ (r.source = "OciRegistry" => r.id \in Manifests)
    BY <1>0, Zenon DEF StoreInv, Orderly_call, Asked
  <2>3. [i \in DOMAIN Layers[r.id] |-> "todo"] \in Seq(Future) /\ NoFutures \in Seq(Future)
    <3>1. Layers[r.id] \in Seq(Nat)
      BY <2>2, StoreAssumption, Zenon DEF Requests
    <3> QED BY <3>1 DEF Future, NoFutures
  <2>4. /\ futures' \in [Pullers -> Seq(Future)] /\ \A q \in Pullers \ {p} : futures'[q] = futures[q]
        /\ r.source = "OciRegistry" => futures'[p] = [i \in DOMAIN Layers[r.id] |-> "todo"]
    BY <1>5, <2>3, Zenon DEF StoreInv, StoreTypeOK
  <2>5. StoreTypeOK' /\ Others(p)
    BY <1>1, <1>5, <2>1, <2>4, Zenon DEF StoreInv, StoreTypeOK, Others
  <2>6. Asked(p)' /\ Sorted(p)' /\ Verified(p)' /\ Tagged(p)'
    BY <1>0, <2>1, <2>2, <2>4, Zenon DEF StoreInv, Orderly_call, Asked, Sorted, Verified, Tagged, Tagging
  <2>7. Placed(p)' /\ Staged(p)'
    BY <1>0, <1>1, <2>1, Zenon DEF StoreInv, Orderly_call, Placed, Staged, Stage, Tagging
  <2> QED BY <1>1, <1>2, <2>5, <2>6, <2>7, StepKeeps, Zenon DEF Orderly_call
<1> QED BY <1>0, <1>3, <1>4, <1>5, Zenon

-----------------------------------------------------------------------------

\* A sequence with one element replaced.
LEMMA SeqExcept ==
  ASSUME NEW S, NEW s \in Seq(S), NEW i \in 1..Len(s), NEW x \in S
  PROVE [s EXCEPT ![i] = x] \in Seq(S) /\ Len([s EXCEPT ![i] = x]) = Len(s)
  BY SMTT(30)

\* One future of a process moves on.
LEMMA FutureDoes ==
  ASSUME StoreTypeOK, NEW p \in Pullers, NEW i, NEW v \in Future, futures' = [futures EXCEPT ![p][i] = v]
  PROVE /\ futures' \in [Pullers -> Seq(Future)] /\ \A q \in Pullers \ {p} : futures'[q] = futures[q]
        /\ DOMAIN futures'[p] = DOMAIN futures[p]
        /\ \A j \in DOMAIN futures[p] : futures'[p][j] = IF j = i THEN v ELSE futures[p][j]
<1> DEFINE f == [futures[p] EXCEPT ![i] = v]
<1>1. futures[p] \in Seq(Future) /\ futures' = [futures EXCEPT ![p] = f]
  BY Zenon DEF StoreTypeOK
<1>2. f \in Seq(Future) /\ DOMAIN f = DOMAIN futures[p]
  <2>1. DOMAIN futures[p] = 1..Len(futures[p])
    BY <1>1
  <2>2. CASE i \in DOMAIN futures[p]
    BY <1>1, <2>1, <2>2, SeqExcept, Zenon
  <2>3. CASE i \notin DOMAIN futures[p]
    <3>1. f = futures[p]
      BY <1>1, <2>3
    <3> QED BY <1>1, <3>1, Zenon
  <2> QED BY <2>2, <2>3, Zenon
<1>3. \A j \in DOMAIN futures[p] : f[j] = IF j = i THEN v ELSE futures[p][j]
  BY <1>1, Zenon
<1> HIDE DEF f
<1>4. futures' \in [Pullers -> Seq(Future)] /\ futures'[p] = f /\ \A q \in Pullers \ {p} : futures'[q] = futures[q]
  BY <1>1, <1>2, Zenon DEF StoreTypeOK
<1> QED BY <1>2, <1>3, <1>4, Zenon

\* A download is done (Got).
LEMMA GotDoes ==
  ASSUME StoreTypeOK, NEW p \in Pullers, NEW i \in DOMAIN futures[p], Got(p, i)
  PROVE /\ proc' \in [Pullers -> Proc] /\ \A q \in Pullers \ {p} : proc'[q] = proc[q]
        /\ proc'[p].pc = proc[p].pc /\ proc'[p].req = proc[p].req
        /\ proc'[p].result = proc[p].result /\ proc'[p].pulls = proc[p].pulls
<1> DEFINE x == [proc[p] EXCEPT !.done = Append(@, i)]
<1>1. proc[p] \in Proc /\ futures[p] \in Seq(Future)
  BY Zenon DEF StoreTypeOK
<1>2. i \in Nat
  BY <1>1
<1>3. Append(proc[p].done, i) \in Seq(Nat)
  BY <1>1, <1>2 DEF Proc
<1>4. /\ x \in Proc /\ x.pc = proc[p].pc /\ x.req = proc[p].req
      /\ x.result = proc[p].result /\ x.pulls = proc[p].pulls
  BY <1>1, <1>3, Zenon DEF Proc
<1>5. proc' = [proc EXCEPT ![p] = x]
  BY Zenon DEF Got, StoreTypeOK
<1> HIDE DEF x
<1> QED BY <1>4, <1>5, Zenon DEF StoreTypeOK

\* A process that downloads stays in order while the blobs of what is done are there.
LEMMA DownloadIsOrderly ==
  ASSUME StoreInv, NEW p \in Pullers, proc[p].pc = "download",
         proc'[p].pc = "download", proc'[p].req = proc[p].req,
         proc'[p].result = proc[p].result, proc'[p].pulls = proc[p].pulls,
         images' = images, staging' = staging, DOMAIN futures'[p] = DOMAIN futures[p],
         \A j \in DOMAIN Layers[proc[p].req.id] :
             futures'[p][j] = "done" => blobs'[Layers[proc[p].req.id][j]] = "good"
  PROVE Orderly_call(p)'
<1>1. Asked(p)' /\ Sorted(p)' /\ Tagged(p)'
  BY Zenon DEF StoreInv, Orderly_call, Asked, Sorted, Tagged, Tagging
<1>2. Verified(p)'
  BY Zenon DEF Verified, Digest
<1>3. Placed(p)' /\ Staged(p)'
  BY Zenon DEF StoreInv, Orderly_call, Placed, Staged, Stage, Tagging
<1> QED BY <1>1, <1>2, <1>3, Zenon DEF Orderly_call

\* What a process that downloads knows of its layers.
LEMMA DownloadKnows ==
  ASSUME StoreInv, NEW p \in Pullers, proc[p].pc = "download"
  PROVE /\ DOMAIN futures[p] = DOMAIN Layers[proc[p].req.id] /\ Stage(p) \notin staging
        /\ \A j \in DOMAIN futures[p] : Layers[proc[p].req.id][j] \in Digests
        /\ \A j \in DOMAIN futures[p] : futures[p][j] = "done" => blobs[Layers[proc[p].req.id][j]] = "good"
<1>1. /\ proc[p].req.id \in Manifests /\ DOMAIN futures[p] = DOMAIN Layers[proc[p].req.id]
      /\ Stage(p) \notin staging
  BY Zenon DEF StoreInv, Orderly_call, Asked, Staged
<1>2. \A j \in DOMAIN futures[p] : futures[p][j] = "done" => blobs[Layers[proc[p].req.id][j]] = "good"
  BY <1>1, Zenon DEF StoreInv, Orderly_call, Verified, Digest
<1> QED BY <1>1, <1>2, LayerIsDigest, Zenon

\* A future reaches the lock of its blob (layer_lock).
LEMMA Store_layer_lock ==
  ASSUME StoreInv, NEW p \in Pullers, NEW i \in DOMAIN futures[p], layer_lock(p, i)
  PROVE StoreInv'
<1>0. /\ proc[p].pc = "download" /\ UNCHANGED <<proc, imageLock, fileVars>> /\ futures[p] \in Seq(Future)
      /\ \/ /\ blobLock' = [blobLock EXCEPT ![Digest(p, i)] = p]
            /\ futures' = [futures EXCEPT ![p][i] = "locked"] /\ blocked' = blocked
         \/ blocked' = [blocked EXCEPT ![p] = i] /\ UNCHANGED <<blobLock, futures>>
  BY Zenon DEF layer_lock, Runs, StoreInv, StoreTypeOK
<1>1. i \in Nat /\ "locked" \in Future
  BY <1>0 DEF Future
<1>2. /\ futures' \in [Pullers -> Seq(Future)] /\ \A q \in Pullers \ {p} : futures'[q] = futures[q]
      /\ DOMAIN futures'[p] = DOMAIN futures[p]
      /\ \A j \in DOMAIN futures[p] : futures'[p][j] = "done" => futures[p][j] = "done"
  <2>1. CASE futures' = futures
    BY <2>1, Zenon DEF StoreInv, StoreTypeOK
  <2>2. CASE futures' = [futures EXCEPT ![p][i] = "locked"]
    BY <1>1, <2>2, FutureDoes, Zenon DEF StoreInv
  <2> QED BY <1>0, <2>1, <2>2, Zenon
<1>3. blobLock' \in [Digests -> Pullers \cup {None}] /\ blocked' \in [Pullers -> Nat \cup {None}]
  BY <1>0, <1>1, Zenon DEF StoreInv, StoreTypeOK
<1>4. StoreTypeOK' /\ ImageIsWhole' /\ Growing /\ Others(p)
  BY <1>0, <1>2, <1>3, Zenon DEF StoreInv, StoreTypeOK, ImageIsWhole, Growing, Others, fileVars
<1>5. Orderly_call(p)'
  BY <1>0, <1>2, DownloadIsOrderly, DownloadKnows, ZenonT(60) DEF fileVars
<1> QED BY <1>0, <1>4, <1>5, StepKeeps, Zenon DEF fileVars

\* The lock a thread waited for is free (flock_returns).
LEMMA Store_flock_returns ==
  ASSUME StoreInv, NEW p \in Pullers, flock_returns(p)
  PROVE StoreInv'
<1>0. /\ UNCHANGED <<proc, imageLock, fileVars>>
      /\ blobLock' = [blobLock EXCEPT ![Digest(p, blocked[p])] = p]
      /\ futures' = [futures EXCEPT ![p][blocked[p]] = "locked"] /\ blocked' = [blocked EXCEPT ![p] = None]
  BY Zenon DEF flock_returns
<1>1. /\ futures' \in [Pullers -> Seq(Future)] /\ \A q \in Pullers \ {p} : futures'[q] = futures[q]
      /\ DOMAIN futures'[p] = DOMAIN futures[p]
      /\ \A j \in DOMAIN futures[p] : futures'[p][j] = "done" => futures[p][j] = "done"
  BY <1>0, FutureDoes, Zenon DEF StoreInv, Future
<1>2. blobLock' \in [Digests -> Pullers \cup {None}] /\ blocked' \in [Pullers -> Nat \cup {None}]
  BY <1>0, Zenon DEF StoreInv, StoreTypeOK
<1>3. StoreTypeOK' /\ ImageIsWhole' /\ Growing /\ Others(p)
  BY <1>0, <1>1, <1>2, Zenon DEF StoreInv, StoreTypeOK, ImageIsWhole, Growing, Others, fileVars
<1>4. Orderly_call(p)'
  <2>1. CASE proc[p].pc = "download"
    BY <1>0, <1>1, <2>1, DownloadIsOrderly, DownloadKnows, Zenon DEF fileVars
  <2>2. CASE proc[p].pc # "download"
    <3>1. Asked(p)' /\ Sorted(p)' /\ Verified(p)' /\ Tagged(p)'
      BY <1>0, <2>2, Zenon DEF StoreInv, Orderly_call, Asked, Sorted, Verified, Tagged, NamesImages, Digest, fileVars
    <3>2. Placed(p)' /\ Staged(p)'
      BY <1>0, Zenon DEF StoreInv, Orderly_call, Placed, Staged, Stage, fileVars
    <3> QED BY <3>1, <3>2, Zenon DEF Orderly_call
  <2> QED BY <2>1, <2>2, Zenon
<1> QED BY <1>0, <1>3, <1>4, StepKeeps, Zenon DEF fileVars

\* A process has the blob of a layer: the download is done and the blob is good.
LEMMA LayerIsGot ==
  ASSUME StoreInv, NEW p \in Pullers, NEW i \in DOMAIN futures[p], proc[p].pc = "download", Got(p, i),
         Unlock(Digest(p, i)), blobs' = [blobs EXCEPT ![Digest(p, i)] = "good"],
         parts' = parts \/ parts' = [parts EXCEPT ![Digest(p, i)] = None],
         UNCHANGED <<blocked, imageLock, images, staging, index, indexTmp>>
  PROVE StoreInv'
<1> DEFINE d == Digest(p, i)
<1>0. /\ DOMAIN futures[p] = DOMAIN Layers[proc[p].req.id]
      /\ \A j \in DOMAIN futures[p] : Layers[proc[p].req.id][j] \in Digests
      /\ \A j \in DOMAIN futures[p] : futures[p][j] = "done" => blobs[Layers[proc[p].req.id][j]] = "good"
  BY DownloadKnows, Zenon
<1>1. /\ futures' \in [Pullers -> Seq(Future)] /\ \A q \in Pullers \ {p} : futures'[q] = futures[q]
      /\ DOMAIN futures'[p] = DOMAIN futures[p]
      /\ \A j \in DOMAIN futures[p] : futures'[p][j] = IF j = i THEN "done" ELSE futures[p][j]
  BY FutureDoes, Zenon DEF StoreInv, Future, Got
<1>2. /\ proc' \in [Pullers -> Proc] /\ \A q \in Pullers \ {p} : proc'[q] = proc[q]
      /\ proc'[p].pc = proc[p].pc /\ proc'[p].req = proc[p].req
      /\ proc'[p].result = proc[p].result /\ proc'[p].pulls = proc[p].pulls
  BY GotDoes, Zenon DEF StoreInv
<1>3. /\ blobs' \in [Digests -> {None, "good", "bad"}] /\ d \in Digests
      /\ \A e \in Digests : blobs'[e] = IF e = d THEN "good" ELSE blobs[e]
  BY <1>0, Zenon DEF StoreInv, StoreTypeOK, Digest
<1>4. parts' \in [Digests -> Part \cup {None}] /\ blobLock' \in [Digests -> Pullers \cup {None}]
  BY Zenon DEF Unlock, StoreInv, StoreTypeOK
<1>5. StoreTypeOK' /\ ImageIsWhole'
  BY <1>1, <1>2, <1>3, <1>4, Zenon DEF StoreInv, StoreTypeOK, ImageIsWhole
<1>6. Growing /\ Others(p)
  BY <1>1, <1>2, <1>3, Zenon DEF Growing, Others
<1>7. Orderly_call(p)'
  <2>1. \A j \in DOMAIN Layers[proc[p].req.id] :
            futures'[p][j] = "done" => blobs'[Layers[proc[p].req.id][j]] = "good"
    BY <1>0, <1>1, <1>3, Zenon DEF Digest
  <2> QED BY <1>1, <1>2, <2>1, DownloadIsOrderly, Zenon
<1> QED BY <1>5, <1>6, <1>7, StepKeeps, Zenon

\* A process looks at a blob and at what was downloaded of it (get_or_download_layer).
LEMMA Store_get_or_download_layer ==
  ASSUME StoreInv, NEW p \in Pullers, NEW i \in DOMAIN futures[p], get_or_download_layer(p, i)
  PROVE StoreInv'
<1> DEFINE d == Digest(p, i)
<1>0. /\ proc[p].pc = "download" /\ UNCHANGED <<blocked, imageLock, images, staging, index, indexTmp>>
      /\ \/ blobs[d] = "good" /\ Got(p, i) /\ Unlock(d) /\ UNCHANGED <<blobs, parts>>
         \/ /\ blobs' = [blobs EXCEPT ![d] = "good"] /\ parts' = [parts EXCEPT ![d] = None]
            /\ Got(p, i) /\ Unlock(d)
         \/ /\ blobs[d] # "good" /\ blobs' = [blobs EXCEPT ![d] = None]
            /\ parts' = parts \/ parts' = [parts EXCEPT ![d] = None]
            /\ futures' = [futures EXCEPT ![p][i] = "stream"] /\ UNCHANGED <<proc, blobLock>>
  BY ZenonT(60) DEF get_or_download_layer, Runs, verified_blob_exists
<1>1. CASE blobs[d] = "good" /\ Got(p, i) /\ Unlock(d) /\ UNCHANGED <<blobs, parts>>
  <2>1. blobs' = [blobs EXCEPT ![d] = "good"]
    BY <1>1 DEF StoreInv, StoreTypeOK
  <2> QED BY <1>0, <1>1, <2>1, LayerIsGot, Zenon
<1>2. CASE /\ blobs' = [blobs EXCEPT ![d] = "good"] /\ parts' = [parts EXCEPT ![d] = None]
           /\ Got(p, i) /\ Unlock(d)
  BY <1>0, <1>2, LayerIsGot, Zenon
<1>3. CASE /\ blobs[d] # "good" /\ blobs' = [blobs EXCEPT ![d] = None]
           /\ parts' = parts \/ parts' = [parts EXCEPT ![d] = None]
           /\ futures' = [futures EXCEPT ![p][i] = "stream"] /\ UNCHANGED <<proc, blobLock>>
  <2>0. /\ DOMAIN futures[p] = DOMAIN Layers[proc[p].req.id]
        /\ \A j \in DOMAIN futures[p] : Layers[proc[p].req.id][j] \in Digests
        /\ \A j \in DOMAIN futures[p] : futures[p][j] = "done" => blobs[Layers[proc[p].req.id][j]] = "good"
    BY <1>0, DownloadKnows, Zenon
  <2>1. /\ futures' \in [Pullers -> Seq(Future)] /\ \A q \in Pullers \ {p} : futures'[q] = futures[q]
        /\ DOMAIN futures'[p] = DOMAIN futures[p]
        /\ \A j \in DOMAIN futures[p] : futures'[p][j] = "done" => futures[p][j] = "done"
    BY <1>3, FutureDoes, Zenon DEF StoreInv, Future
  <2>2. /\ blobs' \in [Digests -> {None, "good", "bad"}] /\ parts' \in [Digests -> Part \cup {None}]
        /\ \A e \in Digests : blobs[e] = "good" => blobs'[e] = "good"
    BY <1>3, Zenon DEF StoreInv, StoreTypeOK
  <2>3. StoreTypeOK' /\ ImageIsWhole' /\ Growing /\ Others(p)
    BY <1>0, <1>3, <2>1, <2>2, Zenon DEF StoreInv, StoreTypeOK, ImageIsWhole, Growing, Others
  <2>4. \A j \in DOMAIN Layers[proc[p].req.id] :
            futures'[p][j] = "done" => blobs'[Layers[proc[p].req.id][j]] = "good"
    BY <2>0, <2>1, <2>2, Zenon
  <2>5. Orderly_call(p)'
    BY <1>0, <1>3, <2>1, <2>4, DownloadIsOrderly, Zenon
  <2> QED BY <1>0, <2>3, <2>5, StepKeeps, Zenon
<1> QED BY <1>0, <1>1, <1>2, <1>3, Zenon

\* A chunk arrives (write_layer_stream).
LEMMA Store_write_layer_stream ==
  ASSUME StoreInv, NEW p \in Pullers, NEW i \in DOMAIN futures[p], write_layer_stream(p, i)
  PROVE StoreInv'
<1> DEFINE d == Digest(p, i)
<1>0. /\ proc[p].pc = "download" /\ (parts[d] # None => parts[d].n <= Size)
      /\ UNCHANGED <<proc, futures, blocked, imageLock, blobLock, blobs, images, staging, index, indexTmp>>
  BY Zenon DEF write_layer_stream, Runs
<1>1. parts' \in [Digests -> Part \cup {None}]
  <2>1. PICK ok \in BOOLEAN :
            parts' = [parts EXCEPT ![d] = IF @ = None THEN [n |-> 1, ok |-> ok]
                                                      ELSE [n |-> @.n + 1, ok |-> @.ok /\ ok]]
    BY Zenon DEF write_layer_stream
  <2>2. d \in Digests
    BY <1>0, DownloadKnows, Zenon DEF Digest
  <2>3. parts[d] \in Part \cup {None}
    BY <2>2, Zenon DEF StoreInv, StoreTypeOK
  <2>4. (IF parts[d] = None THEN [n |-> 1, ok |-> ok]
                            ELSE [n |-> parts[d].n + 1, ok |-> parts[d].ok /\ ok]) \in Part
    BY <1>0, <2>3, StoreAssumption DEF Part
  <2> QED BY <2>1, <2>2, <2>4, Zenon DEF StoreInv, StoreTypeOK
<1>2. StoreTypeOK' /\ ImageIsWhole' /\ Growing /\ Others(p)
  BY <1>0, <1>1, Zenon DEF StoreInv, StoreTypeOK, ImageIsWhole, Growing, Others
<1>3. Orderly_call(p)'
  BY <1>0, DownloadIsOrderly, DownloadKnows, Zenon
<1> QED BY <1>0, <1>2, <1>3, StepKeeps, Zenon

\* A stream ends, well or not (promote_layer_part).
LEMMA Store_promote_layer_part ==
  ASSUME StoreInv, NEW p \in Pullers, NEW i \in DOMAIN futures[p], promote_layer_part(p, i)
  PROVE StoreInv'
<1> DEFINE d == Digest(p, i)
<1>0. /\ proc[p].pc = "download" /\ UNCHANGED <<images, staging, index, indexTmp>>
      /\ parts' = [parts EXCEPT ![d] = None]
      /\ \/ /\ blobs' = [blobs EXCEPT ![d] = "good"] /\ Got(p, i) /\ Unlock(d)
            /\ UNCHANGED <<blocked, imageLock>>
         \/ Finish(p, "err") /\ UNCHANGED blobs
  BY ZenonT(60) DEF promote_layer_part, Runs, verify_layer_file
<1>1. CASE blobs' = [blobs EXCEPT ![d] = "good"] /\ Got(p, i) /\ Unlock(d) /\ UNCHANGED <<blocked, imageLock>>
  BY <1>0, <1>1, LayerIsGot, Zenon
<1>2. CASE Finish(p, "err") /\ UNCHANGED blobs
  <2>1. parts' \in [Digests -> Part \cup {None}]
    BY <1>0, Zenon DEF StoreInv, StoreTypeOK
  <2>2. StoreTypeOK' /\ Others(p)
    BY <1>0, <1>2, <2>1, FinishDoes, Zenon DEF StoreInv, StoreTypeOK, Others
  <2>3. ImageIsWhole' /\ Growing
    BY <1>0, <1>2, Zenon DEF StoreInv, ImageIsWhole, Growing
  <2>4. Orderly_call(p)'
    BY <1>0, <1>2, DownloadKnows, FinishIsOrderly, Zenon
  <2> QED BY <1>0, <2>2, <2>3, <2>4, StepKeeps, Zenon
<1> QED BY <1>0, <1>1, <1>2, Zenon

\* The registry fails (download_fails), or the process is killed (Crash).
LEMMA Store_Ends ==
  ASSUME StoreInv, NEW p \in Pullers, download_fails(p) \/ Crash(p)
  PROVE StoreInv'
<1>0. PICK r \in {"err", "crashed"} :
          Finish(p, r) /\ proc[p].pc # "idle" /\ (r = "err" => proc[p].pc = "download") /\ UNCHANGED fileVars
  BY Zenon DEF download_fails, Crash, Runs
<1>1. StoreTypeOK' /\ Others(p)
  BY <1>0, FinishDoes, Zenon DEF StoreInv, StoreTypeOK, Others, fileVars
<1>2. ImageIsWhole' /\ Growing
  BY <1>0, Zenon DEF StoreInv, ImageIsWhole, Growing, fileVars
<1>3. Orderly_call(p)'
  <2>1. r # "crashed" => Stage(p) \notin staging
    BY <1>0, DownloadKnows, Zenon
  <2>2. r = "err" \/ r = "crashed"
    BY Zenon
  <2> QED BY <1>0, <2>1, <2>2, FinishIsOrderly, Zenon DEF fileVars
<1> QED BY <1>0, <1>1, <1>2, <1>3, StepKeeps, Zenon DEF fileVars

\* All layers are there and are put in order (ensure_layer_blobs).
LEMMA Store_ensure_layer_blobs == ASSUME StoreInv, NEW p \in Pullers, ensure_layer_blobs(p) PROVE StoreInv'
<1> DEFINE order == [i \in DOMAIN futures[p] |-> i]
           x == [proc[p] EXCEPT !.pc = "build", !.done = order]
<1>0. /\ proc[p].pc = "download" /\ proc[p] \in Proc /\ futures[p] \in Seq(Future)
      /\ \A i \in DOMAIN futures[p] : futures[p][i] = "done"
      /\ proc' = [proc EXCEPT ![p] = x]
      /\ UNCHANGED <<futures, blocked, imageLock, blobLock, fileVars>>
  BY Zenon DEF ensure_layer_blobs, Runs, StoreInv, StoreTypeOK
<1>1. order \in Seq(Nat)
  BY <1>0
<1>2. /\ DOMAIN futures[p] = DOMAIN Layers[proc[p].req.id] /\ Stage(p) \notin staging
      /\ \A j \in DOMAIN futures[p] : blobs[Layers[proc[p].req.id][j]] = "good"
  BY <1>0, DownloadKnows, Zenon
<1> HIDE DEF order
<1>3. /\ x \in Proc /\ x.pc = "build" /\ x.req = proc[p].req /\ x.done = order
      /\ x.result = proc[p].result /\ x.pulls = proc[p].pulls
  BY <1>0, <1>1, Zenon DEF Proc, StorePlaces
<1> HIDE DEF x
<1>4. proc' \in [Pullers -> Proc] /\ proc'[p] = x /\ \A q \in Pullers \ {p} : proc'[q] = proc[q]
  BY <1>0, <1>3, Zenon DEF StoreInv, StoreTypeOK
<1>5. StoreTypeOK' /\ ImageIsWhole' /\ Growing /\ Others(p)
  BY <1>0, <1>4, Zenon DEF StoreInv, StoreTypeOK, ImageIsWhole, Growing, Others, fileVars
<1>6. Orderly_call(p)'
  <2>1. Asked(p)' /\ Tagged(p)'
    BY <1>0, <1>3, <1>4, Zenon DEF StoreInv, Orderly_call, Asked, Tagged, Tagging
  <2>2. Verified(p)'
    <3>1. blobs' = blobs /\ proc'[p].req = proc[p].req /\ proc'[p].pc = "build"
      BY <1>0, <1>3, <1>4, Zenon DEF fileVars
    <3> QED BY <1>2, <3>1, Zenon DEF Verified, Digest
  <2>3. Sorted(p)'
    BY <1>2, <1>3, <1>4, Zenon DEF Sorted, order
  <2>4. Placed(p)' /\ Staged(p)'
    BY <1>0, <1>3, <1>4, Zenon DEF StoreInv, Orderly_call, Placed, Staged, Stage, Tagging, fileVars
  <2> QED BY <2>1, <2>2, <2>3, <2>4, Zenon DEF Orderly_call
<1> QED BY <1>0, <1>5, <1>6, StepKeeps, Zenon DEF fileVars

-----------------------------------------------------------------------------

\* The layers are applied in a staging directory (create_rootfs).
LEMMA Store_create_rootfs == ASSUME StoreInv, NEW p \in Pullers, create_rootfs(p) PROVE StoreInv'
<1>0. /\ proc[p].pc = "build" /\ proc[p] \in Proc /\ UNCHANGED <<blobs, parts, images, index, indexTmp>>
      /\ \/ /\ staging' = staging \cup {Stage(p)} /\ proc' = [proc EXCEPT ![p].staged = TRUE]
            /\ UNCHANGED <<futures, blocked, imageLock, blobLock>>
         \/ Place(p, "place") /\ UNCHANGED <<futures, blocked, imageLock, blobLock, staging>>
         \/ Finish(p, "err") /\ staging' = staging \ {Stage(p)}
  BY Zenon DEF create_rootfs, StagingDir_drop, StoreInv, StoreTypeOK
<1>1. ImageIsWhole' /\ Growing
  BY <1>0, Zenon DEF StoreInv, ImageIsWhole, Growing
<1>2. CASE /\ staging' = staging \cup {Stage(p)} /\ proc' = [proc EXCEPT ![p].staged = TRUE]
           /\ UNCHANGED <<futures, blocked, imageLock, blobLock>>
  <2> DEFINE x == [proc[p] EXCEPT !.staged = TRUE]
  <2>1. /\ x \in Proc /\ x.pc = "build" /\ x.req = proc[p].req /\ x.done = proc[p].done
        /\ x.result = proc[p].result /\ x.pulls = proc[p].pulls
    BY <1>0, Zenon DEF Proc
  <2>2. proc' = [proc EXCEPT ![p] = x]
    BY <1>2, Zenon DEF StoreInv, StoreTypeOK
  <2> HIDE DEF x
  <2>3. proc' \in [Pullers -> Proc] /\ proc'[p] = x /\ \A q \in Pullers \ {p} : proc'[q] = proc[q]
    BY <2>1, <2>2, Zenon DEF StoreInv, StoreTypeOK
  <2>4. proc[p].pulls \in 1..MaxPulls /\ proc[p].pulls \in Nat
    BY <1>0, StoreAssumption DEF StoreInv, Orderly_call, Asked, Proc
  <2>5. StoreTypeOK'
    <3>0. Stage(p) \in Pullers \X (1..MaxPulls)
      BY <2>4 DEF Stage
    <3>1. staging' \subseteq Pullers \X (1..MaxPulls)
      BY <1>2, <3>0, Zenon DEF StoreInv, StoreTypeOK
    <3> QED BY <1>0, <1>2, <2>3, <3>1, Zenon DEF StoreInv, StoreTypeOK
  <2>6. Others(p)
    BY <1>2, <2>3, Zenon DEF Others, Stage
  <2>10. /\ proc'[p].pc = "build" /\ proc'[p].req = proc[p].req /\ proc'[p].done = proc[p].done
         /\ proc'[p].result = proc[p].result /\ proc'[p].pulls = proc[p].pulls
         /\ futures' = futures /\ Orderly_call(p)
    BY <1>2, <2>1, <2>3, Zenon DEF StoreInv
  <2>7. Asked(p)' /\ Tagged(p)' /\ Sorted(p)'
    BY <1>0, <2>10, Zenon DEF Orderly_call, Asked, Tagged, Sorted, Tagging
  <2>8. Verified(p)' /\ Placed(p)'
    BY <1>0, <2>10, Zenon DEF Orderly_call, Verified, Digest, Placed, Tagging
  <2>9. Staged(p)'
    <3>1. \A k \in Nat : <<p, k>> \in staging' => k <= proc[p].pulls
      <4>1. proc[p].pulls <= proc[p].pulls
        BY <2>4
      <4> QED BY <1>2, <4>1, Zenon DEF StoreInv, Orderly_call, Staged, Stage
    <3> QED BY <2>1, <2>3, <3>1, Zenon DEF Staged
  <2> QED BY <1>0, <1>1, <2>5, <2>6, <2>7, <2>8, <2>9, StepKeeps, Zenon DEF Orderly_call
<1>3. CASE Place(p, "place") /\ UNCHANGED <<futures, blocked, imageLock, blobLock, staging>>
  <2>1. /\ proc' \in [Pullers -> Proc] /\ \A q \in Pullers \ {p} : proc'[q] = proc[q]
        /\ proc'[p].pc = "place" /\ proc'[p].req = proc[p].req /\ proc'[p].done = proc[p].done
        /\ proc'[p].result = proc[p].result /\ proc'[p].pulls = proc[p].pulls
    BY <1>3, PlaceDoes, Zenon DEF StoreInv, StorePlaces
  <2>2. StoreTypeOK' /\ Others(p)
    BY <1>0, <1>3, <2>1, Zenon DEF StoreInv, StoreTypeOK, Others
  <2>3. Asked(p)' /\ Tagged(p)' /\ Sorted(p)'
    BY <1>0, <1>3, <2>1, Zenon DEF StoreInv, Orderly_call, Asked, Tagged, Sorted, Tagging
  <2>4. Verified(p)' /\ Placed(p)' /\ Staged(p)'
    BY <1>0, <1>3, <2>1, Zenon DEF StoreInv, Orderly_call, Verified, Placed, Staged, Stage, Tagging
  <2> QED BY <1>0, <1>1, <2>2, <2>3, <2>4, StepKeeps, Zenon DEF Orderly_call
<1>4. CASE Finish(p, "err") /\ staging' = staging \ {Stage(p)}
  <2>1. StoreTypeOK' /\ Others(p)
    BY <1>0, <1>4, FinishDoes, Zenon DEF StoreInv, StoreTypeOK, Others
  <2>2. Orderly_call(p)'
    BY <1>0, <1>4, FinishIsOrderly, Zenon
  <2> QED BY <1>0, <1>1, <2>1, <2>2, StepKeeps, Zenon
<1> QED BY <1>0, <1>2, <1>3, <1>4, Zenon

\* What is built from the layers in order is the image (Built).
LEMMA BuiltIsWhole ==
  ASSUME StoreInv, NEW p \in Pullers, proc[p].pc = "place"
  PROVE /\ Built(p) \in ImageDir /\ Built(p) # None
        /\ Built(p).layers = Layers[proc[p].req.id] /\ Built(p).source = proc[p].req.source
<1>1. proc[p].req \in Requests /\ Sorted(p)
  BY Zenon DEF StoreInv, Orderly_call, Asked
<1>2. Layers[proc[p].req.id] \in Seq(Nat) /\ proc[p].req.source \in Sources
  BY <1>1, StoreAssumption, Zenon DEF Requests
<1>3. Built(p).layers = Layers[proc[p].req.id]
  <2>1. CASE proc[p].req.source = "OciRegistry"
    <3> DEFINE order == proc[p].done
               l == Layers[proc[p].req.id]
    <3>1. order = [i \in DOMAIN l |-> i]
      BY <1>1, <2>1, Zenon DEF Sorted
    <3>2. Built(p).layers = [i \in DOMAIN order |-> l[order[i]]]
      BY <2>1, Zenon DEF Built
    <3>3. [i \in DOMAIN order |-> l[order[i]]] = [i \in DOMAIN l |-> l[i]]
      BY <3>1, Zenon
    <3>4. l \in [1..Len(l) -> Nat] /\ DOMAIN l = 1..Len(l)
      BY <1>2
    <3>5. l = [i \in DOMAIN l |-> l[i]]
      BY <3>4, Zenon
    <3> QED BY <3>2, <3>3, <3>5, Zenon
  <2>2. CASE proc[p].req.source # "OciRegistry"
    BY <2>2, Zenon DEF Built
  <2> QED BY <2>1, <2>2, Zenon
<1>4. Built(p) = [source |-> proc[p].req.source, layers |-> Layers[proc[p].req.id]]
  BY <1>3, Zenon DEF Built
<1>5. Built(p) \in ImageDir
  BY <1>2, <1>4 DEF ImageDir
<1>6. Built(p).source = proc[p].req.source
  BY Zenon DEF Built
<1>7. Built(p) # None
  BY <1>5, StoreAssumption
<1> QED BY <1>3, <1>5, <1>6, <1>7, Zenon

\* The image appeared while it was built (place_checked), or before the rename.
LEMMA Store_place_checked == ASSUME StoreInv, NEW p \in Pullers, place_checked(p) PROVE StoreInv'
<1>0. /\ proc[p].pc = "place" /\ UNCHANGED <<blobs, parts, images, index, indexTmp>>
      /\ staging' = staging \ {Stage(p)}
      /\ \/ Finish(p, "err")
         \/ images[proc[p].req.id] # None /\ images[proc[p].req.id].source = proc[p].req.source /\ Hit(p)
  BY ZenonT(60) DEF place_checked, StagingDir_drop, cached_image
<1>1. ImageIsWhole' /\ Growing
  BY <1>0, Zenon DEF StoreInv, ImageIsWhole, Growing
<1>2. CASE Finish(p, "err")
  <2>1. StoreTypeOK' /\ Others(p)
    BY <1>0, <1>2, FinishDoes, Zenon DEF StoreInv, StoreTypeOK, Others
  <2>2. Orderly_call(p)'
    BY <1>0, <1>2, FinishIsOrderly, Zenon
  <2> QED BY <1>0, <1>1, <2>1, <2>2, StepKeeps, Zenon
<1>3. CASE images[proc[p].req.id] # None /\ images[proc[p].req.id].source = proc[p].req.source /\ Hit(p)
  <2>1. /\ proc' \in [Pullers -> Proc] /\ futures' \in [Pullers -> Seq(Future)]
        /\ blocked' \in [Pullers -> Nat \cup {None}]
        /\ imageLock' \in [Manifests -> Pullers \cup {None}] /\ blobLock' \in [Digests -> Pullers \cup {None}]
        /\ \A q \in Pullers \ {p} : proc'[q] = proc[q] /\ futures'[q] = futures[q]
        /\ Orderly_call(p)'
    BY <1>0, <1>3, HitDoes, Zenon
  <2>2. StoreTypeOK' /\ Others(p)
    BY <1>0, <2>1, Zenon DEF StoreInv, StoreTypeOK, Others
  <2> QED BY <1>0, <1>1, <2>1, <2>2, StepKeeps, Zenon
<1> QED BY <1>0, <1>2, <1>3, Zenon

\* The staging directory becomes the image (place_renamed).
LEMMA Store_place_renamed == ASSUME StoreInv, NEW p \in Pullers, place_renamed(p) PROVE StoreInv'
<1> DEFINE id == proc[p].req.id
<1>0. /\ proc[p].pc = "place" /\ UNCHANGED <<blobs, parts, index, indexTmp>> /\ staging' = staging \ {Stage(p)}
      /\ \/ images[id] = None /\ images' = [images EXCEPT ![id] = Built(p)] /\ Hit(p)
         \/ Finish(p, "err") /\ UNCHANGED images
  BY ZenonT(60) DEF place_renamed, StagingDir_drop
<1>1. CASE images[id] = None /\ images' = [images EXCEPT ![id] = Built(p)] /\ Hit(p)
  <2>0. id \in Ids /\ Built(p) \in ImageDir /\ Built(p) # None
        /\ Built(p).layers = Layers[id] /\ Built(p).source = proc[p].req.source
    BY <1>0, BuiltIsWhole, Zenon DEF StoreInv, Orderly_call, Asked, Requests
  <2>1. /\ images' \in [Ids -> ImageDir \cup {None}] /\ images'[id] = Built(p)
        /\ \A m \in Ids \ {id} : images'[m] = images[m]
    BY <1>1, <2>0, Zenon DEF StoreInv, StoreTypeOK
  <2>2. ImageIsWhole' /\ Growing
    BY <1>0, <1>1, <2>0, <2>1, Zenon DEF StoreInv, ImageIsWhole, Growing
  <2>3. /\ proc' \in [Pullers -> Proc] /\ futures' \in [Pullers -> Seq(Future)]
        /\ blocked' \in [Pullers -> Nat \cup {None}]
        /\ imageLock' \in [Manifests -> Pullers \cup {None}] /\ blobLock' \in [Digests -> Pullers \cup {None}]
        /\ \A q \in Pullers \ {p} : proc'[q] = proc[q] /\ futures'[q] = futures[q]
        /\ Orderly_call(p)'
    BY <1>0, <1>1, <2>0, <2>1, HitDoes, Zenon
  <2>4. StoreTypeOK' /\ Others(p)
    BY <1>0, <2>1, <2>3, Zenon DEF StoreInv, StoreTypeOK, Others
  <2> QED BY <1>0, <2>2, <2>3, <2>4, StepKeeps, Zenon
<1>2. CASE Finish(p, "err") /\ UNCHANGED images
  <2>1. StoreTypeOK' /\ Others(p)
    BY <1>0, <1>2, FinishDoes, Zenon DEF StoreInv, StoreTypeOK, Others
  <2>2. Orderly_call(p)'
    BY <1>0, <1>2, FinishIsOrderly, Zenon
  <2>3. ImageIsWhole' /\ Growing
    BY <1>0, <1>2, Zenon DEF StoreInv, ImageIsWhole, Growing
  <2> QED BY <1>0, <2>1, <2>2, <2>3, StepKeeps, Zenon
<1> QED BY <1>0, <1>1, <1>2, Zenon

\* The index is read, written aside and renamed (update_tag_mapping).
LEMMA Store_update_tag_mapping == ASSUME StoreInv, NEW p \in Pullers, update_tag_mapping(p) PROVE StoreInv'
<1>0. /\ proc[p].pc \in Tagging /\ proc[p] \in Proc /\ UNCHANGED <<blobs, parts, images, staging>>
      /\ \/ /\ proc[p].pc = "tag" /\ proc' = [proc EXCEPT ![p].pc = "tag_write", ![p].read = index]
            /\ UNCHANGED <<futures, blocked, imageLock, blobLock, index, indexTmp>>
         \/ /\ proc[p].pc = "tag_write" /\ Place(p, "tag_rename")
            /\ indexTmp' = [proc[p].read EXCEPT ![proc[p].req.id] = proc[p].req.id]
            /\ UNCHANGED <<futures, blocked, imageLock, blobLock, index>>
         \/ Finish(p, "err") /\ UNCHANGED <<index, indexTmp>>
         \/ indexTmp # None /\ Finish(p, "ok") /\ index' = indexTmp /\ indexTmp' = None
  BY ZenonT(60) DEF update_tag_mapping, StoreInv, StoreTypeOK, Tagging
<1>1. /\ ImageIsWhole' /\ Growing /\ Stage(p) \notin staging /\ proc[p].req.id \in Manifests
      /\ images[proc[p].req.id] # None /\ images[proc[p].req.id].source = proc[p].req.source
  BY <1>0, ZenonT(60) DEF StoreInv, ImageIsWhole, Growing, Orderly_call, Staged, Placed, Asked, Tagging
<1>2. CASE /\ proc[p].pc = "tag" /\ proc' = [proc EXCEPT ![p].pc = "tag_write", ![p].read = index]
           /\ UNCHANGED <<futures, blocked, imageLock, blobLock, index, indexTmp>>
  <2> DEFINE x == [proc[p] EXCEPT !.pc = "tag_write", !.read = index]
  <2>1. index \in Index /\ NamesImages(index)
    BY Zenon DEF StoreInv, StoreTypeOK
  <2>2. /\ x \in Proc /\ x.pc = "tag_write" /\ x.req = proc[p].req /\ x.read = index
        /\ x.result = proc[p].result /\ x.pulls = proc[p].pulls
    BY <1>0, <2>1, Zenon DEF Proc, StorePlaces
  <2>3. proc' = [proc EXCEPT ![p] = x]
    BY <1>2, Zenon DEF StoreInv, StoreTypeOK
  <2> HIDE DEF x
  <2>4. proc' \in [Pullers -> Proc] /\ proc'[p] = x /\ \A q \in Pullers \ {p} : proc'[q] = proc[q]
    BY <2>2, <2>3, Zenon DEF StoreInv, StoreTypeOK
  <2>5. StoreTypeOK' /\ Others(p)
    BY <1>0, <1>2, <2>4, Zenon DEF StoreInv, StoreTypeOK, Others
  <2>6. /\ proc'[p].pc = "tag_write" /\ proc'[p].req = proc[p].req /\ proc'[p].read = index
        /\ proc'[p].result = proc[p].result /\ proc'[p].pulls = proc[p].pulls /\ Orderly_call(p)
    BY <2>2, <2>4, Zenon DEF StoreInv
  <2>7. Asked(p)' /\ Sorted(p)' /\ Verified(p)'
    BY <1>0, <2>6, Zenon DEF Orderly_call, Asked, Sorted, Verified, Tagging
  <2>8. Placed(p)' /\ Staged(p)' /\ Tagged(p)'
    BY <1>0, <1>1, <2>1, <2>6, Zenon DEF Orderly_call, Placed, Staged, Stage, Tagged, NamesImages
  <2> QED BY <1>1, <1>2, <2>5, <2>7, <2>8, StepKeeps, Zenon DEF Orderly_call
<1>3. CASE /\ proc[p].pc = "tag_write" /\ Place(p, "tag_rename")
           /\ indexTmp' = [proc[p].read EXCEPT ![proc[p].req.id] = proc[p].req.id]
           /\ UNCHANGED <<futures, blocked, imageLock, blobLock, index>>
  <2>0. NamesImages(proc[p].read) /\ proc[p].req.id \in Ids /\ Orderly_call(p)
    BY <1>1, <1>3, Zenon DEF StoreInv, Orderly_call, Tagged, Manifests
  <2>1. NamesImages(indexTmp)' /\ indexTmp' \in Index
    BY <1>0, <1>1, <1>3, <2>0, Zenon DEF NamesImages, Index
  <2>2. /\ proc' \in [Pullers -> Proc] /\ \A q \in Pullers \ {p} : proc'[q] = proc[q]
        /\ proc'[p].pc = "tag_rename" /\ proc'[p].req = proc[p].req
        /\ proc'[p].result = proc[p].result /\ proc'[p].pulls = proc[p].pulls
    BY <1>3, PlaceDoes, Zenon DEF StoreInv, StorePlaces
  <2>3. StoreTypeOK' /\ Others(p)
    BY <1>0, <1>3, <2>1, <2>2, Zenon DEF StoreInv, StoreTypeOK, Others
  <2>4. Asked(p)' /\ Sorted(p)' /\ Verified(p)' /\ Tagged(p)'
    BY <1>0, <2>0, <2>2, Zenon DEF Orderly_call, Asked, Sorted, Verified, Tagged, Tagging
  <2>5. Placed(p)' /\ Staged(p)'
    BY <1>0, <1>1, <2>0, <2>2, Zenon DEF Orderly_call, Placed, Staged, Stage
  <2>6. \A q \in Pullers : Orderly_call(q)'
    BY <1>1, <2>3, <2>4, <2>5, OthersStay, Zenon DEF Orderly_call
  <2>7. NamesImages(index)'
    BY <1>0, <1>3, Zenon DEF StoreInv, NamesImages
  <2> QED BY <1>1, <2>1, <2>3, <2>6, <2>7, Zenon DEF StoreInv
<1>4. CASE Finish(p, "err") /\ UNCHANGED <<index, indexTmp>>
  <2>1. StoreTypeOK' /\ Others(p)
    BY <1>0, <1>4, FinishDoes, Zenon DEF StoreInv, StoreTypeOK, Others
  <2>2. Orderly_call(p)'
    BY <1>0, <1>1, <1>4, FinishIsOrderly, Zenon DEF Tagging
  <2> QED BY <1>1, <1>4, <2>1, <2>2, StepKeeps, Zenon
<1>5. CASE indexTmp # None /\ Finish(p, "ok") /\ index' = indexTmp /\ indexTmp' = None
  <2>1. NamesImages(index)' /\ indexTmp \in Index
    BY <1>0, <1>5, Zenon DEF StoreInv, StoreTypeOK, NamesImages
  <2>2. StoreTypeOK' /\ Others(p)
    BY <1>0, <1>5, <2>1, FinishDoes, Zenon DEF StoreInv, StoreTypeOK, Others
  <2>3. Orderly_call(p)'
    BY <1>0, <1>1, <1>5, FinishIsOrderly, Zenon DEF Tagging
  <2>4. \A q \in Pullers : Orderly_call(q)'
    BY <1>1, <2>2, <2>3, OthersStay, Zenon
  <2> QED BY <1>1, <1>5, <2>1, <2>2, <2>4, Zenon DEF StoreInv
<1> QED BY <1>0, <1>2, <1>3, <1>4, <1>5, Zenon

-----------------------------------------------------------------------------

\* A blob that nobody reads is damaged (Damage).
LEMMA Store_Damage == ASSUME StoreInv, NEW d \in Digests, Damage(d) PROVE StoreInv'
<1>0. /\ \A p \in Pullers : proc[p].pc # "download" /\ proc[p].pc # "build"
      /\ blobs' = [blobs EXCEPT ![d] = "bad"]
      /\ UNCHANGED <<proc, futures, blocked, imageLock, blobLock, parts, images, staging, index, indexTmp>>
  BY Zenon DEF Damage
<1>1. StoreTypeOK' /\ ImageIsWhole'
  BY <1>0, Zenon DEF StoreInv, StoreTypeOK, ImageIsWhole
<1>2. \A p \in Pullers : Asked(p)' /\ Verified(p)' /\ Sorted(p)'
  BY <1>0, Zenon DEF StoreInv, Orderly_call, Asked, Verified, Sorted
<1>3. \A p \in Pullers : Placed(p)' /\ Tagged(p)' /\ Staged(p)'
  BY <1>0, Zenon DEF StoreInv, Orderly_call, Placed, Tagged, NamesImages, Staged, Stage
<1>4. NamesImages(index)' /\ (indexTmp' # None => NamesImages(indexTmp)')
  BY <1>0, Zenon DEF StoreInv, NamesImages
<1> QED BY <1>1, <1>2, <1>3, <1>4, Zenon DEF StoreInv, Orderly_call

\* Nothing happens.
LEMMA Store_Stutter == ASSUME StoreInv, UNCHANGED storeVars PROVE StoreInv'
<1>0. /\ proc' = proc /\ futures' = futures /\ blocked' = blocked /\ imageLock' = imageLock /\ blobLock' = blobLock
      /\ blobs' = blobs /\ parts' = parts /\ images' = images /\ staging' = staging
      /\ index' = index /\ indexTmp' = indexTmp
  BY Zenon DEF storeVars
<1>1. StoreTypeOK' /\ ImageIsWhole'
  BY <1>0, Zenon DEF StoreInv, StoreTypeOK, ImageIsWhole
<1>2. \A p \in Pullers : Asked(p)' /\ Verified(p)' /\ Sorted(p)'
  BY <1>0, Zenon DEF StoreInv, Orderly_call, Asked, Verified, Sorted, Digest
<1>3. \A p \in Pullers : Placed(p)' /\ Tagged(p)' /\ Staged(p)'
  BY <1>0, Zenon DEF StoreInv, Orderly_call, Placed, Tagged, NamesImages, Staged, Stage
<1>4. NamesImages(index)' /\ (indexTmp' # None => NamesImages(indexTmp)')
  BY <1>0, Zenon DEF StoreInv, NamesImages
<1> QED BY <1>1, <1>2, <1>3, <1>4, Zenon DEF StoreInv, Orderly_call

\* The steps of a process, one lemma for each.
LEMMA Store_StoreStep == ASSUME StoreInv, NEW p \in Pullers, StoreStep(p) PROVE StoreInv'
<1>1. CASE Download(p)
  BY <1>1, Store_layer_lock, Store_get_or_download_layer, Store_write_layer_stream, Store_promote_layer_part,
     Store_flock_returns, Store_Ends, Store_ensure_layer_blobs, Zenon DEF Download
<1>2. CASE take_image_lock(p) \/ check_cache(p)
  BY <1>2, Store_take_image_lock, Store_check_cache, Zenon
<1>3. CASE create_rootfs(p) \/ place_checked(p) \/ place_renamed(p) \/ update_tag_mapping(p)
  BY <1>3, Store_create_rootfs, Store_place_checked, Store_place_renamed, Store_update_tag_mapping, Zenon
<1> QED BY <1>1, <1>2, <1>3, Zenon DEF StoreStep

\* A request, of each of the three kinds.
LEMMA Store_Request ==
  ASSUME StoreInv, NEW p \in Pullers, NEW id \in Ids,
         \/ \E tagged \in BOOLEAN : get_or_create_remote_oci(p, id, tagged)
         \/ get_or_create_oci_archive(p, id) \/ get_or_create_rootfs_tar(p, id)
  PROVE StoreInv'
<1>1. CASE \E tagged \in BOOLEAN : get_or_create_remote_oci(p, id, tagged)
  <2>1. PICK tagged \in BOOLEAN : id \in Manifests /\ Begin(p, id, "OciRegistry", tagged, "lock")
    BY <1>1, Zenon DEF get_or_create_remote_oci
  <2> QED BY <2>1, Store_Begin, Zenon DEF Sources
<1>2. CASE get_or_create_oci_archive(p, id)
  <2>1. id \in Manifests /\ Begin(p, id, "OciArchive", FALSE, "cached")
    BY <1>2, Zenon DEF get_or_create_oci_archive
  <2> QED BY <2>1, Store_Begin, Zenon DEF Sources
<1>3. CASE get_or_create_rootfs_tar(p, id)
  <2>1. Begin(p, id, "Tar", FALSE, "cached") /\ "Tar" # "OciRegistry"
    BY <1>3, Zenon DEF get_or_create_rootfs_tar
  <2> QED BY <2>1, Store_Begin, Zenon DEF Sources
<1> QED BY <1>1, <1>2, <1>3, Zenon

\* Every step of the store keeps the invariant.
LEMMA StoreStepKeeps == ASSUME StoreInv, [StoreNext]_storeVars PROVE StoreInv'
<1>1. CASE \E p \in Pullers : StoreStep(p) \/ Crash(p)
  BY <1>1, Store_StoreStep, Store_Ends, Zenon
<1>2. CASE \E d \in Digests : Damage(d)
  BY <1>2, Store_Damage, Zenon
<1>3. CASE \E p \in Pullers, id \in Ids :
              \/ \E tagged \in BOOLEAN : get_or_create_remote_oci(p, id, tagged)
              \/ get_or_create_oci_archive(p, id) \/ get_or_create_rootfs_tar(p, id)
  BY <1>3, Store_Request, Zenon
<1> QED BY <1>1, <1>2, <1>3, Store_Stutter, Zenon DEF StoreNext

-----------------------------------------------------------------------------

\* The invariant holds in every behaviour of the store (StoreSpec).
LEMMA StoreInvariant == StoreSpec => []StoreInv
<1>1. StoreInit => StoreInv
  BY StoreStart, Zenon
<1>2. StoreInv /\ [StoreNext]_storeVars => StoreInv'
  BY StoreStepKeeps, Zenon
<1> QED BY <1>1, <1>2, PTL DEF StoreSpec

\* For any set of processes, images and layers: the store's files and calls have their types.
THEOREM StoreTypeCorrect == StoreSpec => []StoreTypeOK
<1>1. StoreInv => StoreTypeOK
  BY Zenon DEF StoreInv
<1> QED BY <1>1, StoreInvariant, PTL

\* For any number of processes that pull any images over one directory, crash anywhere and find
\* blobs damaged: only verified layers are applied, an image that can be seen is whole, a pull
\* that succeeds leaves its image, a tag names one and a call that returns leaves no staging
\* directory (get_or_download_layer, ensure_layer_blobs, create_rootfs, update_tag_mapping,
\* StagingDir).
THEOREM ImagesWhole == StoreSpec => []ImagesAreWhole
<1>1. StoreInv => ImagesAreWhole
  <2> SUFFICES ASSUME StoreInv PROVE ImagesAreWhole
    BY Zenon
  <2>1. AppliedLayersAreVerified
    BY Zenon DEF StoreInv, Orderly_call, Verified, AppliedLayersAreVerified
  <2>2. SuccessMeansImage
    BY Zenon DEF StoreInv, Orderly_call, Placed, SuccessMeansImage
  <2>3. TagNamesImage /\ ImageIsWhole
    BY Zenon DEF StoreInv, NamesImages, TagNamesImage
  <2>4. StagingIsRemoved
    BY Zenon DEF StoreInv, Orderly_call, Staged, StagingIsRemoved
  <2> QED BY <2>1, <2>2, <2>3, <2>4, Zenon DEF ImagesAreWhole
<1> QED BY <1>1, StoreInvariant, PTL
=============================================================================
