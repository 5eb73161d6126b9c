------------------------------ MODULE LayerTree ------------------------------
(***************************************************************************)
(* What an image promises: the tree of names that a sequence of layer      *)
(* entries describes when they are applied one after the other to an empty *)
(* root.  No inodes, link counts or blocks.  Ext4Formatter implements it.  *)
(***************************************************************************)
EXTENDS Integers, Sequences, TLC

CONSTANTS
    None,
    Ops         \* [op, path, target, text, size, perm]: the changes asked for

VARIABLES
    op,         \* the change asked for last
    files,      \* path -> [kind, text, perm]
    state       \* "open", "failed" or "closed"

treeVars == <<op, files, state>>

Directory(perm) == [kind |-> "dir", text |-> None, perm |-> perm]

Parent(path) == SubSeq(path, 1, Len(path) - 1)

ProperPrefixes(path) == {SubSeq(path, 1, n) : n \in 0 .. Len(path) - 1}

Below(tree, path) ==
    {p \in DOMAIN tree : Len(p) > Len(path) /\ SubSeq(p, 1, Len(path)) = path}

Without(tree, paths) == [p \in DOMAIN tree \ paths |-> tree[p]]

IsDir(path) == path \in DOMAIN files /\ files[path].kind = "dir"

\* Every name above the path is a directory or is still free.
Placeable(path) ==
    \A p \in ProperPrefixes(path) \cap DOMAIN files : IsDir(p)

\* The tree with `file` at `path` and directories above it where none are.
Placed(tree, path, file) ==
    (path :> file) @@ tree
        @@ [p \in ProperPrefixes(path) |-> Directory("default")]

----------------------------------------------------------------------------
(* The change an operation makes, where it can be made. *)

MakeDir(o) ==
    /\ Placeable(o.path)
    /\ o.path \in DOMAIN files => IsDir(o.path)
    /\ files' = Placed(files, o.path, Directory(o.perm))

WriteFile(o) ==
    /\ Placeable(o.path) /\ ~IsDir(o.path)
    /\ files' = Placed(files, o.path,
                       [kind |-> "file", text |-> o.text, perm |-> o.perm])

\* A symbolic link may take the place of a directory and all that it holds.
Symlink(o) ==
    /\ Placeable(o.path)
    /\ files' = Placed(Without(files, Below(files, o.path)), o.path,
                       [kind |-> "link", text |-> o.text, perm |-> "all"])

\* A hard link is a second name of a file; it makes no directories.
HardLink(o) ==
    /\ o.target \in DOMAIN files /\ ~IsDir(o.target)
    /\ IsDir(Parent(o.path))
    /\ files' = Placed(Without(files, Below(files, o.path)), o.path,
                       files[o.target])

Delete(o) == files' = Without(files, {o.path} \cup Below(files, o.path))

Clear(o) ==
    /\ o.path \in DOMAIN files => IsDir(o.path)
    /\ files' = Without(files, Below(files, o.path))

Change(o) ==
    \/ o.op = "dir" /\ MakeDir(o)
    \/ o.op = "file" /\ WriteFile(o)
    \/ o.op = "symlink" /\ Symlink(o)
    \/ o.op = "link" /\ HardLink(o)
    \/ o.op = "delete" /\ Delete(o)
    \/ o.op = "clear" /\ Clear(o)

\* An operation is refused only when it contradicts the tree.
Contradicts(o) ==
    \/ o.op = "invalid"
    \/ o.op \in {"dir", "file", "symlink"} /\ ~Placeable(o.path)
    \/ o.op = "dir" /\ o.path \in DOMAIN files /\ ~IsDir(o.path)
    \/ o.op = "file" /\ IsDir(o.path)
    \/ o.op = "link" /\ (o.target \notin DOMAIN files \/ IsDir(o.target)
                            \/ ~IsDir(Parent(o.path)))
    \/ o.op = "clear" /\ o.path \in DOMAIN files /\ ~IsDir(o.path)

Apply(o) ==
    /\ state = "open" /\ op' = o /\ state' = "open"
    /\ Change(o)

Refuse(o) ==
    /\ state = "open" /\ op' = o /\ state' = "failed"
    /\ Contradicts(o)
    /\ UNCHANGED files

\* Closing may still fail for want of room for the metadata.
Close ==
    /\ state = "open" /\ state' \in {"closed", "failed"}
    /\ UNCHANGED <<op, files>>

TreeInit ==
    /\ files = (<<>> :> Directory("default")) @@ (<<"lost+found">> :> Directory("lost"))
    /\ op = None
    /\ state = "open"

TreeNext == Close \/ \E o \in Ops : Apply(o) \/ Refuse(o)

TreeSpec == TreeInit /\ [][TreeNext]_treeVars
=============================================================================
