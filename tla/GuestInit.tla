----------------------------- MODULE GuestInit -----------------------------
(***************************************************************************)
(* The first process of a guest (guest/init/src/init.rs): it mounts what    *)
(* the initramfs needs, mounts the root disk that the command line names,   *)
(* leaves the agent in /run, moves /dev, /proc, /sys and /run to the disk   *)
(* and becomes the init of the disk.  An error ends in a rescue shell.      *)
(*                                                                          *)
(* A boot is [cmdline, devices, payload, tree, dirs, shell, busy]: the      *)
(* words of the command line, the devices by name, the agent in the         *)
(* initramfs ("none", "empty" or "whole"), the files of the disk by path    *)
(* ("file", "link" or "absolute" for a link to an absolute path), the       *)
(* directories of the disk, whether it has a shell, and what the kernel     *)
(* had mounted.                                                             *)
(***************************************************************************)
EXTENDS Integers, Sequences, SequencesExt, FiniteSets

CONSTANTS
    Boots,          \* the boots
    ReadOnly,       \* file systems no directory can be made on
    None,
    MaxFaults       \* bound: system calls that fail without a reason of their own

VARIABLES
    boot,
    stage,          \* where init is
    todo,           \* the mount points of the stage that are left
    mounts,         \* what is mounted, by mount point
    under,          \* the same below /mnt/root
    root,           \* "initramfs" or "disk": what / is
    links,          \* the applets are installed
    run,            \* the files of the tmpfs at /run: "whole" or "torn"
    failedAt,       \* the stage that failed
    faults
initVars == <<boot, stage, todo, mounts, under, root, links, run, failedAt, faults>>

Essential == <<"/dev", "/proc", "/sys", "/tmp", "/run">>
Moved == <<"/dev", "/proc", "/sys", "/run">>
Stages == <<"dirs", "essential", "install", "device", "root", "agent", "binary", "unit", "enable",
            "access", "move", "chdir", "exec">>
After(s) == Stages[1 + CHOOSE i \in DOMAIN Stages : Stages[i] = s]

InitInit ==
    /\ boot \in Boots
    /\ stage = "dirs" /\ todo = Essential /\ mounts = [p \in boot.busy |-> "kernel"] /\ under = [p \in {} |-> ""]
    /\ root = "initramfs" /\ links = FALSE /\ run = [f \in {} |-> ""] /\ failedAt = "" /\ faults = 0

-----------------------------------------------------------------------------
(* What the boot says *)

\* Mutant: the last word counts.
cmdline_value_last(cmdline, key) ==
    LET found == SelectSeq(cmdline, LAMBDA w : w.key = key)
    IN  IF found = <<>> THEN None ELSE Last(found).value

\* The first word that begins with the key.
cmdline_value(cmdline, key) ==
    LET found == SelectSeq(cmdline, LAMBDA w : w.key = key)
    IN  IF found = <<>> THEN None ELSE Head(found).value

Or(value, default) == IF value = None THEN default ELSE value
read_boot_config ==
    [root |-> Or(cmdline_value(boot.cmdline, "root="), "/dev/vda"),
     init |-> Or(cmdline_value(boot.cmdline, "init="), "/sbin/init"),
     rootfstype |-> cmdline_value(boot.cmdline, "rootfstype=")]

is_block_device(path) == path \in DOMAIN boot.devices /\ boot.devices[path].block

\* The type a device is mounted with, None when it cannot be.
mount_block_auto(path) ==
    LET holds == boot.devices[path].holds
    IN  IF holds \in {"ext4", "xfs", "btrfs", "erofs", "squashfs"} THEN holds ELSE None
mount_root(config) ==
    IF config.rootfstype = None THEN mount_block_auto(config.root)
    ELSE IF boot.devices[config.root].holds = config.rootfstype THEN config.rootfstype ELSE None

\* An absolute link is followed from the root that is in force: before the switch, the initramfs.
Executable(path) ==
    path \in DOMAIN boot.tree /\ (boot.tree[path] \in {"file", "link"} \/ (boot.tree[path] = "absolute" /\ root = "disk"))

-----------------------------------------------------------------------------
(* Steps *)

Fails == stage' = "rescue" /\ failedAt' = stage
Goes == stage' = After(stage) /\ UNCHANGED failedAt

\* A call that fails without a reason in the boot.
Fault == faults < MaxFaults /\ faults' = faults + 1
Well == UNCHANGED faults

prepare_directories ==
    /\ stage = "dirs"
    /\ (Well /\ Goes) \/ (Fault /\ Fails)
    /\ UNCHANGED <<boot, todo, mounts, under, root, links, run>>

\* What is mounted already is left as it is.
mount_essential_filesystems ==
    /\ stage = "essential"
    /\ IF todo = <<>> THEN Goes /\ todo' = Moved /\ Well /\ UNCHANGED mounts
       ELSE \/ /\ Well /\ UNCHANGED <<stage, failedAt>>
               /\ todo' = Tail(todo)
               /\ mounts' = IF Head(todo) \in DOMAIN mounts THEN mounts
                            ELSE [p \in DOMAIN mounts \cup {Head(todo)} |-> IF p = Head(todo) THEN "init" ELSE mounts[p]]
            \/ Head(todo) \notin DOMAIN mounts /\ Fault /\ Fails /\ UNCHANGED <<todo, mounts>>
    /\ UNCHANGED <<boot, under, root, links, run>>

\* A link that cannot be made is no reason to stop.
install ==
    /\ stage = "install" /\ Goes
    /\ (Well /\ links' = TRUE) \/ (Fault /\ links' = FALSE)
    /\ UNCHANGED <<boot, todo, mounts, under, root, run>>

CheckDevice ==
    /\ stage = "device" /\ Well
    /\ IF is_block_device(read_boot_config.root) THEN Goes ELSE Fails
    /\ UNCHANGED <<boot, todo, mounts, under, root, links, run>>

MountRoot ==
    /\ stage = "root"
    /\ IF mount_root(read_boot_config) = None THEN Fails /\ Well /\ UNCHANGED mounts
       ELSE \/ /\ Well /\ Goes
               /\ mounts' = [p \in DOMAIN mounts \cup {"/mnt/root"} |->
                                IF p = "/mnt/root" THEN read_boot_config.root ELSE mounts[p]]
            \/ Fault /\ Fails /\ UNCHANGED mounts
    /\ UNCHANGED <<boot, todo, under, root, links, run>>

\* prepare_agent_handoff up to the directories.
prepare_agent_handoff ==
    /\ stage = "agent"
    /\ CASE boot.payload = "none" -> Well /\ stage' = "access" /\ UNCHANGED failedAt
         [] boot.payload = "empty" -> Well /\ Fails
         [] OTHER -> (Well /\ Goes) \/ (Fault /\ Fails)
    /\ UNCHANGED <<boot, todo, mounts, under, root, links, run>>

Written(file, how) == run' = [f \in DOMAIN run \cup {file} |-> IF f = file THEN how ELSE run[f]]

\* Mutant: a short write goes unnoticed.
copy_file_short ==
    /\ stage = "binary"
    /\ (Well /\ Goes /\ Written("binary", "whole")) \/ (Fault /\ Goes /\ Written("binary", "torn"))
    /\ UNCHANGED <<boot, todo, mounts, under, root, links>>

\* A failure may leave a part of the file.
copy_file ==
    /\ stage = "binary"
    /\ (Well /\ Goes /\ Written("binary", "whole")) \/ (Fault /\ Fails /\ (UNCHANGED run \/ Written("binary", "torn")))
    /\ UNCHANGED <<boot, todo, mounts, under, root, links>>
write_static_file ==
    /\ stage = "unit"
    /\ (Well /\ Goes /\ Written("unit", "whole")) \/ (Fault /\ Fails /\ (UNCHANGED run \/ Written("unit", "torn")))
    /\ UNCHANGED <<boot, todo, mounts, under, root, links>>
EnableUnit ==
    /\ stage = "enable"
    /\ (Well /\ Goes /\ Written("wants", "whole")) \/ (Fault /\ Fails /\ UNCHANGED run)
    /\ UNCHANGED <<boot, todo, mounts, under, root, links>>

CheckInit ==
    /\ stage = "access" /\ Well
    /\ IF Executable(read_boot_config.init) THEN Goes ELSE Fails
    /\ UNCHANGED <<boot, todo, mounts, under, root, links, run>>

\* A mount that cannot be moved stays behind, and nothing is said.
CanMove(p) == p \in boot.dirs \/ mount_root(read_boot_config) \notin ReadOnly
move_mount_if_present ==
    /\ stage = "move"
    /\ IF todo = <<>> THEN Goes /\ Well /\ UNCHANGED <<todo, mounts, under>>
       ELSE /\ UNCHANGED <<stage, failedAt>> /\ todo' = Tail(todo)
            /\ \/ /\ CanMove(Head(todo)) /\ Well
                  /\ under' = [p \in DOMAIN under \cup {Head(todo)} |-> IF p = Head(todo) THEN mounts[p] ELSE under[p]]
                  /\ mounts' = [p \in DOMAIN mounts \ {Head(todo)} |-> mounts[p]]
               \/ (IF CanMove(Head(todo)) THEN Fault ELSE Well) /\ UNCHANGED <<mounts, under>>
    /\ UNCHANGED <<boot, root, links, run>>

\* do_switch_root from chdir to the second chdir.
do_switch_root ==
    /\ stage = "chdir"
    /\ \/ Well /\ Goes /\ root' = "disk"
       \/ Fault /\ Fails /\ root' \in {"initramfs", "disk"}
    /\ UNCHANGED <<boot, todo, mounts, under, links, run>>

exec_init ==
    /\ stage = "exec"
    /\ (Well /\ stage' = "running" /\ UNCHANGED failedAt) \/ (Fault /\ Fails)
    /\ UNCHANGED <<boot, todo, mounts, under, root, links, run>>

\* The shell of /bin or /sbin, /init as a shell, or the shell that is built in.
rescue_shell ==
    /\ stage = "rescue"
    /\ stage' = IF root = "initramfs" \/ boot.shell THEN "shell" ELSE "applet"
    /\ UNCHANGED <<boot, todo, mounts, under, root, links, run, failedAt, faults>>

InitNext ==
    \/ prepare_directories \/ mount_essential_filesystems \/ install \/ CheckDevice \/ MountRoot
    \/ prepare_agent_handoff \/ copy_file \/ write_static_file \/ EnableUnit \/ CheckInit
    \/ move_mount_if_present \/ do_switch_root \/ exec_init \/ rescue_shell

InitSpec == InitInit /\ [][InitNext]_initVars

-----------------------------------------------------------------------------
(* Properties *)

InitTypeOK ==
    /\ stage \in Range(Stages) \cup {"running", "rescue", "shell", "applet"}
    /\ root \in {"initramfs", "disk"} /\ DOMAIN run \subseteq {"binary", "unit", "wants"}
    /\ DOMAIN under \subseteq Range(Moved) /\ DOMAIN mounts \subseteq Range(Essential) \cup {"/mnt/root"}

\* The init of the disk runs on the disk that the first root= names, mounted as what it holds.  It finds
\* every mount at its place but for those that could not be moved, for want of a directory on a disk that
\* takes none or because the call failed; and an agent that was to be handed over is whole, enabled and,
\* where /run was moved, in sight.
HandoffIsWhole ==
    stage = "running" =>
        LET device == mounts["/mnt/root"]
            first == SelectInSeq(boot.cmdline, LAMBDA w : w.key = "root=")
            left == Range(Moved) \ DOMAIN under
        IN  /\ root = "disk"
            /\ device = IF first = 0 THEN "/dev/vda" ELSE boot.cmdline[first].value
            /\ Cardinality({p \in left : p \in boot.dirs \/ boot.devices[device].holds \notin ReadOnly}) <= faults
            /\ boot.payload # "none" => run = [f \in {"binary", "unit", "wants"} |-> "whole"]
            /\ boot.payload = "none" => run = [f \in {} |-> ""]

\* A boot that fails ends in a shell with the devices and the processes in sight, unless the failure came
\* after they were moved away; a boot fails only for what is wrong with it, a failed call, or an init that
\* is a link to an absolute path.
RescueIsUseful ==
    stage \in {"shell", "applet"} =>
        /\ failedAt \notin {"dirs", "essential", "chdir", "exec"} => {"/dev", "/proc", "/sys", "/run"} \subseteq DOMAIN mounts
        /\ stage = "applet" => failedAt \in {"chdir", "exec"}
        /\ \/ faults > 0
           \/ ~ is_block_device(read_boot_config.root) \/ mount_root(read_boot_config) = None
           \/ boot.payload = "empty"
           \/ read_boot_config.init \notin DOMAIN boot.tree \/ boot.tree[read_boot_config.init] = "absolute"

=============================================================================
