------------------------------ MODULE MCImages ------------------------------
(* From an image to a running helper, in three parts that share no state: the image store
   (ImageStore), the file system written from the layers (Ext4Formatter) and the
   configuration of the machine on its way to the hypervisor (LaunchConfig, on either
   host).  A behaviour runs one part and leaves the others in their first state. *)
EXTENDS ImageStore, TLC
CONSTANTS
    Err,
    U8_MAX, U32_MAX, Ports, GUEST_CONTROL_PORT, SSH_VSOCK_PORT, Missing, MaxBoots,
    OpaqueName, DiskSize, MAX_BLOCKS_PER_EXTENT, MAX_INLINE, LEAVES_PER_BLOCK, MAX_LINKS,
    ENTRIES_PER_BLOCK, MaxEntries, OverLinks, blocks_per_group, groups_per_descriptor_block,
    addr_per_block, RESERVED_GDT_MULTIPLIER, inodes_per_block, inode_increment
VARIABLES
    part,
    stage, spec, value, boots, idFile, ids,
    fs, op, state, image, count

-----------------------------------------------------------------------------
(* Inputs *)

\* Two images that share a layer, and one made from a plain tar.
LayersDef == [m \in {"m", "n", "t"} |->
                 CASE m = "m" -> <<1, 2>> [] m = "n" -> <<2>> [] m = "t" -> <<3>>]

\* A string is a sequence of strings without colons, each a sequence of words.
Text(w) == <<<<w>>>>
WithColon == <<<<"p">>, <<"q">>>>
Path(t, absolute) == [absolute |-> absolute, text |-> t]
Unix(peer, group) == [kind |-> "UnixDatagram", peer |-> peer, mac |-> [group |-> group, rest |-> "m"]]
Minimal ==
    [id |-> Text("vm"), guest |-> TRUE, cpus |-> None, memory |-> 1,
     kernel |-> Path(Text("k"), TRUE), initramfs |-> None, cmdline |-> <<>>, nested |-> None,
     rosetta |-> None, network |-> [kind |-> "None"], disks |-> <<>>, mounts |-> <<>>, vsock |-> <<>>]
UpTo(set, n) == UNION {[1 .. k -> set] : k \in 0 .. n}

\* VM specs that differ from a minimal one in a few related fields.
SpecsDef ==
    {[Minimal EXCEPT !.cpus = c, !.memory = m, !.rosetta = r, !.guest = g] :
        c \in {None, 0, 1, 2}, m \in {None, 0, 1}, r \in {None, TRUE}, g \in BOOLEAN}
    \cup
    {[Minimal EXCEPT !.kernel = k, !.initramfs = i, !.cmdline = c] :
        k \in {None, Path(Text("k"), FALSE), Path(Text("gone"), FALSE), Path(WithColon, TRUE)},
        i \in {None, Path(Text("i"), TRUE), Path(Text("gone"), TRUE)},
        c \in {<<>>, <<Text("quiet"), WithColon>>, <<Text("-")>>, <<Text("a"), Text("a")>>}}
    \cup
    {[Minimal EXCEPT !.network = n, !.id = i] :
        n \in {[kind |-> "VzNat"], Unix(Text("s"), FALSE), Unix(Text("s"), TRUE), Unix(<<<<>>>>, FALSE)},
        i \in {Text("vm"), <<<<>>>>}}
    \cup
    {[Minimal EXCEPT !.disks = d, !.mounts = m] :
        d \in UpTo({[path |-> Path(Text(x), TRUE), read_only |-> r] : x \in {"d", "gone"}, r \in BOOLEAN}
                      \cup {[path |-> Path(WithColon, FALSE), read_only |-> TRUE]}, 2),
        m \in UpTo([tag: {Text("t"), <<<<>>>>}, host_path: {Text("h"), WithColon}, read_only: {TRUE}], 1)}
    \cup
    {[Minimal EXCEPT !.vsock = v, !.guest = g] :
        v \in UpTo([port: Ports, mode: {"Connect", "Listen"}], 2), g \in BOOLEAN}

Entry(type, path, target, size, perm) ==
    [type |-> type, path |-> path, target |-> target,
     text |-> IF type = "symlink" THEN "s" ELSE "c", size |-> size, perm |-> perm]

\* Tar entries for three names, one below another, and their whiteouts.
EntriesDef ==
    {Entry("dir", <<"a">>, <<>>, 0, "x"), Entry("dir", <<"a", "b">>, <<>>, 0, "x"),
     Entry("file", <<"a">>, <<>>, 1, "y"), Entry("file", <<".", "a", "b">>, <<>>, 3, "y"),
     Entry("file", <<"c">>, <<>>, 2, "y"), Entry("file", <<"c">>, <<>>, 0, "z"),
     Entry("symlink", <<"a">>, <<>>, 0, "y"), Entry("symlink", <<"a", "b">>, <<>>, 1, "y"),
     Entry("link", <<"a">>, <<"c">>, 0, "y"), Entry("link", <<"c">>, <<"a", "b">>, 0, "y"),
     Entry("link", <<"a", "b">>, <<"c">>, 0, "y"),
     Entry("file", <<"a", "wh_b">>, <<>>, 0, "y"), Entry("file", <<"wh_a">>, <<>>, 0, "y"),
     Entry("file", <<"wh_c">>, <<>>, 0, "y"), Entry("file", <<"a", "opq">>, <<>>, 0, "y"),
     Entry("file", <<"opq">>, <<>>, 0, "y"), Entry("file", <<"..", "a">>, <<>>, 0, "y"),
     Entry("fifo", <<"a">>, <<>>, 0, "y"), Entry("dir", <<".">>, <<>>, 0, "y")}

WhiteoutOfDef == ("wh_a" :> "a") @@ ("wh_b" :> "b") @@ ("wh_c" :> "c")

-----------------------------------------------------------------------------
Linux == INSTANCE LaunchConfig WITH Host <- "linux", Specs <- SpecsDef
Mac == INSTANCE LaunchConfig WITH Host <- "macos", Specs <- SpecsDef
F == INSTANCE Ext4Formatter WITH Entries <- EntriesDef, WhiteoutOf <- WhiteoutOfDef

launchVars == <<stage, spec, value, boots, idFile, ids>>
fmtVars == <<fs, op, state, image, count>>
partVars == <<part, storeVars, launchVars, fmtVars>>

ImagesInit ==
    /\ part \in {"store", "linux", "macos", "ext4"}
    /\ StoreInit /\ Linux!LaunchInit /\ F!FmtInit

ImagesNext ==
    /\ UNCHANGED part
    /\ \/ part = "store" /\ StoreNext /\ UNCHANGED <<launchVars, fmtVars>>
       \/ part = "linux" /\ Linux!LaunchNext /\ UNCHANGED <<storeVars, fmtVars>>
       \/ part = "macos" /\ Mac!LaunchNext /\ UNCHANGED <<storeVars, fmtVars>>
       \/ part = "ext4" /\ F!FmtNext /\ UNCHANGED <<storeVars, launchVars>>

\* StoreFairness, for its part.
ImagesFairness ==
    \A p \in Pullers :
        /\ SF_storeVars(part = "store" /\ (take_image_lock(p) \/ flock_returns(p)))
        /\ WF_storeVars(part = "store" /\ StoreStep(p))
        /\ SF_storeVars(/\ part = "store"
                        /\ \E i \in DOMAIN futures[p] : Whole(Digest(p, i)) /\ promote_layer_part(p, i))

ImagesSpec == ImagesInit /\ [][ImagesNext]_partVars /\ ImagesFairness

\* The type invariants of the parts.
PartsTypeOK == StoreTypeOK /\ F!FormatterTypeOK

\* What LaunchConfig states, on the host that runs the helper: the helper's configuration
\* is the one of the spec, both sides agree on the ports, and what was accepted before the
\* launch is not refused after it.
LaunchIsExact ==
    part = "linux" => Linux!HelperSeesSpec /\ Linux!PortsAgree /\ Linux!NothingRefusedLate

\* What Ext4Formatter states of the file system it wrote: a block has one owner, a link
\* count is the number of names, and the bitmap marks what is in use.
FileSystemIsSound == F!BlocksOwnedOnce /\ F!LinksAreNames /\ F!BitmapIsRight

\* The formatter implements the plain tree of layers (LayerTree).
LayersAreKept == F!LayersAreKept
=============================================================================
