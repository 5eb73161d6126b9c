--------------------------- MODULE Ext4Formatter ---------------------------
(***************************************************************************)
(* How the layers of an image become an ext4 file system: `apply_layer`    *)
(* (src/runtime/ocidisk/src/layer.rs) hands tar entries through Ext4Writer *)
(* to `Formatter` (src/common/ext4/src/formatter.rs), which keeps a tree   *)
(* of names, an array of inodes and a write position, appends payload      *)
(* blocks as it goes and lays out the metadata when it is closed.          *)
(*                                                                         *)
(* A path is a sequence of names.  Payload is counted in blocks; what it   *)
(* holds is the `text` of its inode.  Owners and times are left out,       *)
(* `perm` stands for the mode bits.                                        *)
(***************************************************************************)
EXTENDS Ext4Layout, Sequences, SequencesExt, TLC

CONSTANTS
    None, Err,
    Entries,        \* the tar entries a layer may hold: [type, path, target, text, size, perm]
    WhiteoutOf,     \* whiteout name -> the name it deletes
    OpaqueName,     \* the name of an opaque whiteout
    DiskSize,       \* the size asked for, in blocks
    MAX_BLOCKS_PER_EXTENT, MAX_INLINE, LEAVES_PER_BLOCK, MAX_LINKS,
    ENTRIES_PER_BLOCK,  \* directory entries of one block
    MaxEntries,     \* bound: entries applied
    OverLinks       \* whether entries may be put below, or as a directory on,
                    \* a name that is a hard link

VARIABLES
    fs,     \* the Formatter
    op,     \* the operation the last entry stands for
    state,  \* "open", "failed" or "closed"
    image,  \* what close() decided
    count   \* entries applied

fmtVars == <<fs, op, state, image, count>>

ROOT_INODE == 2
FIRST_INODE == 11

Inode(kind, perm, links, text, ranges) ==
    [kind |-> kind, perm |-> perm, links |-> links, text |-> text,
     ranges |-> ranges, index |-> {}]

NoInode == Inode("none", "none", 0, None, <<>>)

Node(inode, link, ranges) == [inode |-> inode, link |-> link, ranges |-> ranges]

----------------------------------------------------------------------------
(* Paths and the tree of names.                                            *)

parent_of(path) == SubSeq(path, 1, Len(path) - 1)

basename(path) == path[Len(path)]

ParentsOf(path) == [n \in 1 .. Len(path) - 1 |-> SubSeq(path, 1, n)]

Exists(f, path) == path \in DOMAIN f.tree

\* The inode a node carries.  A hard link carries the root's number as a
\* placeholder and its target in `link`.
InodeAt(f, path) == f.inodes[f.tree[path].inode]

TargetOf(node) == IF node.link # None THEN node.link ELSE node.inode

add_child(f, path, node) == [f EXCEPT !.tree = (path :> node) @@ @]

remove_child(f, path) ==
    [f EXCEPT !.tree = [p \in DOMAIN @ \ {path} |-> @[p]]]

SetLinks(f, ino, links) == [f EXCEPT !.inodes[ino].links = links]

----------------------------------------------------------------------------
(* Payload.                                                                *)

record_block_range(ranges, block) ==
    IF ranges # <<>> /\ Last(ranges).end = block
    THEN [ranges EXCEPT ![Len(ranges)].end = block + 1]
    ELSE Append(ranges, [first |-> block, end |-> block + 1])

write_block(acc, block) ==
    [f |-> [acc.f EXCEPT !.pos = block + 1, !.size = Max({@, block + 1})],
     ranges |-> record_block_range(acc.ranges, block)]

\* Append `n` blocks, stepping over the static metadata, and grow the image.
write_payload_bytes(f, n) ==
    LET step(acc, i) ==
            write_block(acc, skip_reserved_metadata_blocks(acc.f.pos, acc.f.size))
    IN  FoldLeft(step, [f |-> f, ranges |-> <<>>], [i \in 1 .. n |-> i])

RangeBlocks(ranges) == UNION {Blocks(ranges[i]) : i \in DOMAIN ranges}

CeilDiv(n, d) == (n + d - 1) \div d

fill_extent_leaves_from_ranges(ranges) ==
    LET leaves(acc, r) ==
            LET n == CeilDiv(r.end - r.first, MAX_BLOCKS_PER_EXTENT)
            IN  acc \o [i \in 1 .. n |->
                          [first |-> r.first + (i - 1) * MAX_BLOCKS_PER_EXTENT,
                           end |-> Min({r.end, r.first + i * MAX_BLOCKS_PER_EXTENT})]]
    IN  FoldLeft(leaves, <<>>, ranges)

\* Up to MAX_INLINE extents fit in the inode; more go to index blocks.
IndexBlocks(leaves) ==
    IF leaves > MAX_INLINE THEN CeilDiv(leaves, LEAVES_PER_BLOCK) ELSE 0

write_index(f, inode, at, n) ==
    [f |-> [f EXCEPT !.pos = at + n],
     inode |-> [inode EXCEPT !.index = at .. at + n - 1]]

\* The index blocks are written one after the other at the current position.
write_extents(f, inode) ==
    write_index(f, inode, skip_reserved_metadata_blocks(f.pos, f.size),
                IndexBlocks(Len(fill_extent_leaves_from_ranges(inode.ranges))))

----------------------------------------------------------------------------
(* The operations of the formatter.  Each gives the changed formatter, or  *)
(* Err; the caller drops a formatter that has failed.                      *)

\* Mutant: the blocks of a name are free although other names of the file remain.
unlink_node_eager(f, path) ==
    LET node   == f.tree[path]
        target == TargetOf(node)
        f1     == [remove_child(f, path) EXCEPT !.deleted = @ \cup RangeBlocks(node.ranges)]
        links  == Max({f1.inodes[target].links - 1, 0})
    IN  IF links = 0 THEN [f1 EXCEPT !.inodes[target] = NoInode] ELSE SetLinks(f1, target, links)

\* Mutant: blocks that wait for the last name are forgotten.
unlink_node_forgetful(f, path) ==
    LET node   == f.tree[path]
        target == TargetOf(node)
        f1     == remove_child(f, path)
        links  == Max({f1.inodes[target].links - 1, 0})
    IN  IF links = 0 THEN [f1 EXCEPT !.inodes[target] = NoInode,
                                     !.lost = @ \cup f.inodes[target].index,
                                     !.deleted = @ \cup RangeBlocks(node.ranges)]
        ELSE SetLinks(f1, target, links)

\* Free the blocks of an inode with its last link.  The blocks of a name that
\* goes while other names remain wait in `deferred`.
drop_link(f, target, blocks, links, waiting) ==
    IF target < FIRST_INODE THEN f
    ELSE IF links = 0
    THEN [f EXCEPT !.deleted = @ \cup blocks \cup waiting,
                   !.deferred = [i \in DOMAIN @ \ {target} |-> @[i]],
                   !.lost = @ \cup f.inodes[target].index,
                   !.inodes[target] = NoInode]
    ELSE [SetLinks(f, target, links) EXCEPT
             !.deferred = IF blocks = {} THEN @
                          ELSE (target :> (blocks \cup waiting)) @@ @]

detach(f, path, above) ==
    remove_child(IF /\ f.tree[path].link = None /\ InodeAt(f, path).kind = "dir"
                    /\ f.inodes[above].links > 2
                 THEN SetLinks(f, above, f.inodes[above].links - 1) ELSE f,
                 path)

release(f, target, ranges) ==
    drop_link(f, target, RangeBlocks(ranges),
              Max({f.inodes[target].links - 1, 0}),
              IF target \in DOMAIN f.deferred THEN f.deferred[target] ELSE {})

\* Remove one entry: detach it and give its inode one link less.
unlink_node(f, path) ==
    release(detach(f, path, f.tree[parent_of(path)].inode),
            TargetOf(f.tree[path]), f.tree[path].ranges)

Below(f, path) ==
    {p \in DOMAIN f.tree : Len(p) > Len(path) /\ SubSeq(p, 1, Len(path)) = path}

DeepestFirst(paths) == SetToSortSeq(paths, LAMBDA p, q : Len(p) > Len(q))

\* Mutant: what lies below stays.
unlink_shallow(f, path, directory_whiteout) ==
    IF Exists(f, path) /\ ~directory_whiteout THEN unlink_node(f, path) ELSE f

unlink(f, path, directory_whiteout) ==
    IF ~Exists(f, path) THEN f
    ELSE IF directory_whiteout /\ ~(f.tree[path].link = None
                                      /\ InodeAt(f, path).kind = "dir")
    THEN Err
    ELSE FoldLeft(unlink_node, f,
                  DeepestFirst(Below(f, path) \cup
                                  IF directory_whiteout THEN {} ELSE {path}))

\* A new inode and its name, the parent being there.
register(f, path, inode) ==
    LET above == f.tree[parent_of(path)].inode
        f1 == IF inode.kind = "dir"
              THEN SetLinks(f, above, f.inodes[above].links + 1) ELSE f
    IN  add_child([f1 EXCEPT !.inodes = Append(@, inode)], path,
                  Node(Len(f.inodes) + 1, None, inode.ranges))

CanHold(f, path) == f.inodes[f.tree[parent_of(path)].inode].links < MAX_LINKS

\* create() of the directories above a path, which asks for no owner and so
\* leaves one that is there alone.
create_parents(f, path) ==
    LET step(g, p) ==
            IF g = Err THEN Err
            ELSE IF Exists(g, p)
            THEN IF InodeAt(g, p).kind = "dir" THEN g ELSE Err
            ELSE IF CanHold(g, p)
            THEN register(g, p, Inode("dir", "default", 2, None, <<>>)) ELSE Err
    IN  FoldLeft(step, f, ParentsOf(path))

NewInode(o, ranges) ==
    CASE o.op = "dir" -> Inode("dir", o.perm, 2, None, <<>>)
      [] o.op = "symlink" -> Inode("link", "all", 1, o.text, ranges)
      [] o.op = "file" -> Inode("file", o.perm, 1, o.text, ranges)

WithExtents(o, w) == write_extents(w.f, NewInode(o, w.ranges))

\* The payload and the inode of a new entry.
build_inode(f, o) ==
    IF o.op = "dir" \/ o.size = 0 THEN [f |-> f, inode |-> NewInode(o, <<>>)]
    ELSE WithExtents(o, write_payload_bytes(f, o.size))

register_built(path, built) == register(built.f, path, built.inode)

create_in(f, o) ==
    IF f = Err THEN Err
    ELSE IF ~CanHold(f, o.path) THEN Err
    ELSE register_built(o.path, build_inode(f, o))

create(f, o) ==
    LET there   == Exists(f, o.path)
        refused == there /\ IF o.op = "dir" THEN InodeAt(f, o.path).kind # "dir"
                            ELSE /\ f.tree[o.path].link = None
                                 /\ InodeAt(f, o.path).kind = "dir"
                                 /\ o.op # "symlink"
    IN  IF refused THEN Err
        ELSE IF there /\ o.op = "dir"
        THEN [f EXCEPT !.inodes[f.tree[o.path].inode].perm = o.perm]
        ELSE create_in(create_parents(unlink(f, o.path, FALSE), o.path), o)

\* Mutant: the new name is not counted.
link_uncounted(f, o) ==
    IF ~Exists(f, o.target) \/ ~Exists(f, parent_of(o.path)) THEN Err
    ELSE IF InodeAt(f, o.target).kind = "dir" THEN Err
    ELSE add_child(unlink(f, o.path, FALSE), o.path,
                   Node(ROOT_INODE, f.tree[o.target].inode, <<>>))

link(f, o) ==
    IF ~Exists(f, o.target) THEN Err
    ELSE LET target == f.tree[o.target].inode
         IN  IF f.inodes[target].kind = "dir" THEN Err
             ELSE IF Exists(f, o.path) /\ TargetOf(f.tree[o.path]) = target THEN f
             ELSE IF ~Exists(f, parent_of(o.path)) THEN Err
             ELSE IF ~CanHold(f, o.path) THEN Err
             ELSE LET g == unlink(f, o.path, FALSE)
                  IN  add_child(SetLinks(g, target, g.inodes[target].links + 1),
                                o.path, Node(ROOT_INODE, target, <<>>))

----------------------------------------------------------------------------
(* close().                                                                *)

\* The names that reach the image: nothing is written below a hard link.
Visible(f) ==
    {p \in DOMAIN f.tree :
        \A n \in 0 .. Len(p) - 1 : f.tree[SubSeq(p, 1, n)].link = None}

Directories(f) ==
    {p \in Visible(f) : f.tree[p].link = None /\ InodeAt(f, p).kind = "dir"}

Children(f, path) == {p \in Visible(f) : p # <<>> /\ parent_of(p) = path}

commit_extents(g, p, ranges, x) ==
    [x.f EXCEPT !.inodes[g.tree[p].inode] = x.inode, !.tree[p].ranges = ranges]

commit_payload(g, p, w) ==
    commit_extents(g, p, w.ranges,
                   write_extents(w.f, [InodeAt(g, p) EXCEPT !.ranges = w.ranges]))

\* Breadth first; the entries of a directory, "." and ".." among them, fill
\* whole blocks.
commit_directories(f) ==
    LET step(g, p) ==
            commit_payload(g, p, write_payload_bytes(g,
                CeilDiv(Cardinality(Children(f, p)) + 2, ENTRIES_PER_BLOCK)))
    IN  FoldLeft(step, f, SetToSortSeq(Directories(f), LAMBDA p, q : Len(p) < Len(q)))

Closed(f, dind, l) ==
    IF l.fits THEN [f |-> f, image |-> [layout |-> l, dind |-> dind]] ELSE Err

close_layout(w, allocated) ==
    Closed(w.f, w.ranges,
           layout(w.f.pos, Len(w.f.inodes), Max({w.f.size, w.f.pos}), allocated))

close_committed(f) ==
    close_layout(write_payload_bytes(f, 1),
                 group_descriptor_area_blocks_for_groups(group_count(f.size)))

close(f) == close_committed(commit_directories(f))

----------------------------------------------------------------------------
(* Layers.                                                                 *)

sanitize_entry_path(path) ==
    IF ".." \in ToSet(path) THEN Err
    ELSE SelectSeq(path, LAMBDA name : name # ".")

Operation(kind, path, e) ==
    [op |-> kind, path |-> path, target |-> e.target, text |-> e.text,
     size |-> e.size, perm |-> e.perm]

parse_whiteout(path, e) ==
    IF basename(path) = OpaqueName THEN Operation("clear", parent_of(path), e)
    ELSE Operation("delete", Append(parent_of(path), WhiteoutOf[basename(path)]), e)

\* What one iteration of the loop over the entries asks of the writer.
EntryOperation(e) ==
    LET path == sanitize_entry_path(e.path)
    IN  IF path = Err THEN Operation("invalid", <<>>, e)
        ELSE IF path = <<>> THEN Operation("skip", path, e)
        ELSE IF basename(path) = OpaqueName \/ basename(path) \in DOMAIN WhiteoutOf
        THEN parse_whiteout(path, e)
        ELSE IF e.type = "link" /\ sanitize_entry_path(e.target) = Err
        THEN Operation("invalid", <<>>, e)
        ELSE Operation(IF e.type \in {"file", "dir", "symlink", "link"}
                       THEN e.type ELSE "skip", path, e)

Applied(f, o) ==
    CASE o.op = "invalid"  -> Err
      [] o.op = "skip"     -> f
      [] o.op = "clear"    -> unlink(f, o.path, TRUE)
      [] o.op = "delete"   -> unlink(f, o.path, FALSE)
      [] o.op = "link"     -> link(f, o)
      [] o.op \in {"dir", "file", "symlink"} -> create(f, o)

\* A layer that treats a hard link as a file of its own: an entry below one,
\* a directory in its place, a link to it, or a link that replaces a
\* directory by something inside it or that lies below a file.
MisusesLink(f, o) ==
    LET isLink(p) == Exists(f, p) /\ f.tree[p].link # None
        isFile(p) == Exists(f, p) /\ InodeAt(f, p).kind # "dir"
    IN  \/ o.op # "skip" /\ \E n \in 1 .. Len(o.path) - 1 : isLink(SubSeq(o.path, 1, n))
        \/ o.op = "dir" /\ isLink(o.path)
        \/ o.op = "link" /\ \/ isLink(o.target)
                             \/ o.target \in Below(f, o.path)
                             \/ isFile(parent_of(o.path))

----------------------------------------------------------------------------
(* The life of one image. *)

Take(o, f) ==
    /\ count' = count + 1
    /\ op' = IF o.op = "skip" THEN op ELSE o
    /\ fs' = IF f = Err THEN fs ELSE f
    /\ state' = IF f = Err THEN "failed" ELSE "open"
    /\ UNCHANGED image

apply_layer(e) ==
    \E o \in {EntryOperation(e)} :
        /\ state = "open" /\ count < MaxEntries
        /\ OverLinks \/ ~MisusesLink(fs, o)
        /\ \E f \in {Applied(fs, o)} : Take(o, f)

finish ==
    /\ state = "open"
    /\ \E closed \in {close(fs)} :
          IF closed = Err
          THEN state' = "failed" /\ UNCHANGED <<fs, image>>
          ELSE state' = "closed" /\ fs' = closed.f /\ image' = closed.image
    /\ UNCHANGED <<op, count>>

\* with_options: the reserved inodes, the root and /lost+found.
with_options ==
    LET inodes == [i \in 1 .. FIRST_INODE - 1 |->
                      IF i = ROOT_INODE THEN Inode("dir", "default", 2, None, <<>>)
                      ELSE NoInode]
        empty == [pos |-> 1 + group_descriptor_area_blocks_for_groups(group_count(DiskSize)),
                  size |-> DiskSize, inodes |-> inodes,
                  tree |-> (<<>> :> Node(ROOT_INODE, None, <<>>)),
                  deleted |-> {}, deferred |-> <<>>, lost |-> {}]
    IN  create(empty, [op |-> "dir", path |-> <<"lost+found">>, target |-> <<>>,
                       text |-> None, size |-> 0, perm |-> "lost"])

FmtInit ==
    /\ fs = with_options
    /\ op = None /\ state = "open" /\ image = None /\ count = 0

FmtNext == finish \/ \E e \in Entries : apply_layer(e)

FmtSpec == FmtInit /\ [][FmtNext]_fmtVars

----------------------------------------------------------------------------
(* Properties. *)

LiveInodes(f) == {i \in ROOT_INODE .. Len(f.inodes) : f.inodes[i].kind # "none"}

Owned(f, i) == RangeBlocks(f.inodes[i].ranges) \cup f.inodes[i].index

\* The formatter's records are well formed: every name has an inode, and a
\* name below the root has its parent.
FormatterTypeOK ==
    /\ state \in {"open", "failed", "closed"}
    /\ fs.pos \in Nat /\ fs.size \in Nat
    /\ \A p \in DOMAIN fs.tree :
          /\ fs.tree[p].inode \in 1 .. Len(fs.inodes)
          /\ p # <<>> => parent_of(p) \in DOMAIN fs.tree

\* The names, contents and modes that an image shows are those of its layers
\* applied in order: hard links, whiteouts and replaced entries included.
View(f) ==
    [p \in Visible(f) |->
        LET inode == f.inodes[TargetOf(f.tree[p])]
        IN  [kind |-> inode.kind, text |-> inode.text, perm |-> inode.perm]]

Tree == INSTANCE LayerTree WITH
            files <- View(fs),
            Ops <- {EntryOperation(e) : e \in Entries}

LayersAreKept == Tree!TreeSpec

\* No block belongs to two files, to a file and to the static metadata, or to
\* a file and to the list of freed blocks.
BlocksOwnedOnce ==
    /\ \A i, j \in LiveInodes(fs) : i # j => Owned(fs, i) \cap Owned(fs, j) = {}
    /\ \A i \in LiveInodes(fs) :
          /\ Owned(fs, i) \cap fs.deleted = {}
          /\ \A b \in Owned(fs, i) : skip_reserved_metadata_blocks(b, fs.size) = b

\* The link count of a file is the number of names that lead to it, so that
\* unlink frees its blocks with the last name and not before.
LinksAreNames ==
    \A i \in FIRST_INODE .. Len(fs.inodes) :
        LET names == {p \in Visible(fs) : TargetOf(fs.tree[p]) = i}
        IN  CASE fs.inodes[i].kind \in {"file", "link"} ->
                     fs.inodes[i].links = Cardinality(names)
              [] fs.inodes[i].kind = "none" -> names = {}
              [] fs.inodes[i].kind = "dir" -> Cardinality(names) <= 1

\* In a closed image the block bitmaps mark exactly the blocks in use: the
\* payload and the index blocks of the files, the metadata, and the index
\* blocks of files that are gone, which unlink does not give back.
BitmapIsRight ==
    state = "closed" =>
        LET l == image.layout
            groups == 0 .. l.total - 1
            used == UNION {BlockBitmap(l, g, fs.deleted) : g \in groups}
            meta == UNION {Blocks(StaticArea(l, g)) \cup Blocks(InodeTable(l, g))
                              \cup Blocks(Bitmaps(l, g)) : g \in groups}
            live == UNION {Owned(fs, i) : i \in LiveInodes(fs)}
                        \cup RangeBlocks(image.dind)
        IN  /\ live \cap meta = {}
            /\ used = live \cup meta \cup fs.lost
=============================================================================
