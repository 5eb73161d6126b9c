--------------------------- MODULE LaunchConfig ---------------------------
(***************************************************************************)
(* The way of a machine's configuration to the hypervisor.  vmmon turns    *)
(* the VM spec into virt's VmConfig (vmmon/src/startup.rs, machine.rs).    *)
(* On Linux virt validates it, turns it into the command line of the krun  *)
(* helper (krun/backend.rs, krun/src/builder.rs), and the helper parses    *)
(* the command line, validates it again and configures libkrun             *)
(* (krun/src/bin/krun.rs).  On macOS virt validates it and builds the      *)
(* machine itself (vz/backend.rs); the machine's identifier is generated   *)
(* there and read from a file by the next boot.                            *)
(*                                                                         *)
(* A string is the sequence of its parts between colons, and a part is a   *)
(* sequence of words: joining with ":" is concatenation, splitting at ":"  *)
(* is the identity on the sequence, and joining paths appends words.       *)
(***************************************************************************)
EXTENDS Naturals, Sequences, FiniteSets, SequencesExt, TLC

CONSTANTS
    None, Err,
    Specs,        \* VM specs with the monitor's other inputs (see Inputs)
    Host,         \* "linux" or "macos"
    U8_MAX, U32_MAX,
    Ports,        \* vsock ports, 0 among them
    GUEST_CONTROL_PORT, SSH_VSOCK_PORT,
    Missing,      \* words that name no file
    MaxBoots      \* bound: boots of the same machine

VARIABLES
    stage,        \* how far the boot is
    spec,         \* its input
    value,        \* what the last stage produced
    boots,        \* boots so far
    idFile,       \* apple-machine-id in the machine's directory
    ids           \* the identifiers of the machines that were built (history)

launchVars == <<stage, spec, value, boots, idFile, ids>>

Str(word) == <<<<word>>>>
Empty == <<<<>>>>
DataDir == "data"

Stages == {"spec", "config", "args", "parsed", "running", "rejected"}

-----------------------------------------------------------------------------
(* vmmon: from the VM spec to virt's VmConfig *)

unwrap_or(option, default) == IF option = None THEN default ELSE option

resolve_spec_path(path) ==
    IF path.absolute THEN path.text ELSE <<<<DataDir>> \o Head(path.text)>> \o Tail(path.text)

is_file(text) == \A i \in DOMAIN text : Range(text[i]) \cap Missing = {}

\* Mutant: the guest's ports are left out when the spec names ports of its own.
vm_spec_vsock_ports_own(s) ==
    IF s.vsock # <<>> THEN s.vsock
    ELSE IF s.guest
    THEN <<[port |-> GUEST_CONTROL_PORT, mode |-> "Listen"], [port |-> SSH_VSOCK_PORT, mode |-> "Connect"]>>
    ELSE <<>>

vm_spec_vsock_ports(s) ==
    s.vsock \o IF s.guest
               THEN <<[port |-> GUEST_CONTROL_PORT, mode |-> "Listen"],
                      [port |-> SSH_VSOCK_PORT, mode |-> "Connect"]>>
               ELSE <<>>

vm_spec_kernel_cmdline(s) == s.cmdline \o IF s.guest THEN <<Str("guest_port")>> ELSE <<>>

\* A MAC address is its first byte's group bit and the rest; parse_mac refuses a group
\* address.
parse_mac(mac) == IF mac.group THEN Err ELSE mac

apply_runtime_network(network) ==
    CASE network.kind = "UnixDatagram" ->
            IF parse_mac(network.mac) = Err THEN Err ELSE network
      [] OTHER -> [kind |-> network.kind]

vm_spec_boot_assets(s) ==
    IF s.kernel = None THEN Err
    ELSE LET kernel == resolve_spec_path(s.kernel)
             initramfs == IF s.initramfs = None THEN None ELSE resolve_spec_path(s.initramfs)
         IN IF ~is_file(kernel) \/ (initramfs # None /\ ~is_file(initramfs)) THEN Err
            ELSE [kernel |-> kernel, initramfs |-> initramfs]

vm_spec_machine_config(s) ==
    LET assets == vm_spec_boot_assets(s)
        network == apply_runtime_network(s.network)
    IN IF assets = Err \/ network = Err \/ \E i \in DOMAIN s.mounts : s.mounts[i].tag = Empty THEN Err
       ELSE [vm_id |-> s.id,
             cpus |-> unwrap_or(s.cpus, 1), memory_mib |-> unwrap_or(s.memory, 512),
             kernel |-> assets.kernel, initramfs |-> assets.initramfs,
             machine_identifier |-> IF Host = "macos" THEN idFile ELSE None,
             nested |-> unwrap_or(s.nested, FALSE), rosetta |-> unwrap_or(s.rosetta, FALSE),
             network |-> network,
             kernel_cmdline |-> vm_spec_kernel_cmdline(s),
             disks |-> [i \in DOMAIN s.disks |->
                          [path |-> resolve_spec_path(s.disks[i].path), read_only |-> s.disks[i].read_only]],
             mounts |-> s.mounts,
             vsock_ports |-> vm_spec_vsock_ports(s)]

-----------------------------------------------------------------------------
(* virt on Linux: validation and the helper's command line *)

\* Mutant: a port may be declared twice, whatever the directions.
unique_vsock_ports_lenient(config) ==
    LET ports == {config.vsock_ports[i].port : i \in DOMAIN config.vsock_ports}
        last(p) == CHOOSE i \in DOMAIN config.vsock_ports :
                       /\ config.vsock_ports[i].port = p
                       /\ \A j \in DOMAIN config.vsock_ports : config.vsock_ports[j].port = p => j <= i
    IN SortSeq(SetToSeq({config.vsock_ports[last(p)] : p \in ports}), LAMBDA a, b : a.port < b.port)

\* The declared ports, once each and sorted; port 0 and two directions for one port are
\* refused.
unique_vsock_ports(config) ==
    LET declared == {config.vsock_ports[i] : i \in DOMAIN config.vsock_ports}
    IN IF (\E d \in declared : d.port = 0) \/ (\E d, e \in declared : d.port = e.port /\ d.mode # e.mode)
       THEN Err
       ELSE SortSeq(SetToSeq(declared), LAMBDA a, b : a.port < b.port)

declared_vsock_mode(config, port) ==
    LET i == SelectInSeq(config.vsock_ports, LAMBDA d : d.port = port)
    IN IF i = 0 THEN None ELSE config.vsock_ports[i].mode

\* Mutant: the number of processors is not bounded.
krun_validate_wide(c) ==
    /\ c.cpus # 0 /\ c.memory_mib # 0 /\ c.memory_mib <= U32_MAX
    /\ c.machine_identifier = None /\ ~c.rosetta /\ ~c.nested
    /\ \/ c.network.kind = "None"
       \/ c.network.kind = "UnixDatagram" /\ c.network.peer # Empty /\ c.vm_id # Empty
    /\ unique_vsock_ports(c) # Err

krun_validate(c) ==
    /\ c.cpus # 0 /\ c.cpus <= U8_MAX
    /\ c.memory_mib # 0 /\ c.memory_mib <= U32_MAX
    /\ c.machine_identifier = None /\ ~c.rosetta /\ ~c.nested
    /\ \/ c.network.kind = "None"
       \/ c.network.kind = "UnixDatagram" /\ c.network.peer # Empty /\ c.vm_id # Empty
    /\ unique_vsock_ports(c) # Err

krun_prepare(c) ==
    /\ is_file(c.kernel) /\ (c.initramfs # None => is_file(c.initramfs))
    /\ \A i \in DOMAIN c.disks : is_file(c.disks[i].path)
    /\ \A i \in DOMAIN c.mounts : is_file(c.mounts[i].host_path)

build_boot_args(c) == <<Str("console=hvc0"), Str("panic=1")>> \o c.kernel_cmdline

vsock_path(p) == <<<<DataDir, "vsock", p.mode, ToString(p.port)>>>>

\* build_krun_vm: a port the host connects to is one libkrun listens on.
build_krun_vm(c) ==
    LET ports == unique_vsock_ports(c)
    IN [id |-> c.vm_id, cpus |-> c.cpus, memory_mib |-> c.memory_mib, kernel |-> c.kernel,
        initramfs |-> c.initramfs, cmdline |-> build_boot_args(c),
        disks |-> [i \in DOMAIN c.disks |->
                     [block_id |-> Str("disk" \o ToString(i - 1)), path |-> c.disks[i].path,
                      read_only |-> c.disks[i].read_only]],
        mounts |-> [i \in DOMAIN c.mounts |->
                      [tag |-> c.mounts[i].tag, path |-> c.mounts[i].host_path,
                       read_only |-> c.mounts[i].read_only]],
        vsock_ports |-> [i \in DOMAIN ports |->
                           [port |-> ports[i].port, path |-> vsock_path(ports[i]),
                            listen |-> ports[i].mode = "Connect"]],
        network |-> c.network, stdio_console |-> TRUE]

format_ro(read_only) == IF read_only THEN Str("ro") ELSE Str("rw")
format_disk(d) == d.block_id \o d.path \o format_ro(d.read_only)
format_mount(m) == m.tag \o m.path \o format_ro(m.read_only)

\* Mutant: the direction is written from the other side.
format_vsock_port_flipped(p) ==
    Str(ToString(p.port)) \o p.path \o Str(IF p.listen THEN "listen" ELSE "connect")

format_vsock_port(p) ==
    Str(ToString(p.port)) \o p.path \o Str(IF p.listen THEN "connect" ELSE "listen")

Arg(flag, text) == [flag |-> flag, text |-> text]
Args(flag, texts) == [i \in DOMAIN texts |-> Arg(flag, texts[i])]
Optional(flag, text) == IF text = None THEN <<>> ELSE <<Arg(flag, text)>>

command_args(k) ==
    <<Arg("--id", k.id), Arg("--cpus", Str(ToString(k.cpus))), Arg("--memory-mib", Str(ToString(k.memory_mib)))>>
    \o Optional("--kernel", k.kernel) \o Optional("--initramfs", k.initramfs)
    \o Args("--cmdline", k.cmdline)
    \o Args("--disk", [i \in DOMAIN k.disks |-> format_disk(k.disks[i])])
    \o Args("--mount", [i \in DOMAIN k.mounts |-> format_mount(k.mounts[i])])
    \o Args("--vsock-port", [i \in DOMAIN k.vsock_ports |-> format_vsock_port(k.vsock_ports[i])])
    \o (IF k.network.kind = "None" THEN <<Arg("--network", Str("none"))>>
        ELSE <<Arg("--network", Str("unixgram")), Arg("--net-peer", k.network.peer),
               Arg("--net-mac", k.network.mac)>>)
    \o <<Arg("--stdio-console", None)>>

-----------------------------------------------------------------------------
(* The helper: from the command line to libkrun's context *)

\* clap takes a value that begins with a hyphen for another flag.
Hyphenated(text) == text # Empty /\ text[1] # <<>> /\ text[1][1] = "-"
clap(args) == \A i \in DOMAIN args :
                 args[i].text # None /\ args[i].flag # "--net-mac" => ~Hyphenated(args[i].text)

Values(args, flag) ==
    LET of == SelectSeq(args, LAMBDA a : a.flag = flag) IN [i \in DOMAIN of |-> of[i].text]
Value(args, flag, default) == IF Values(args, flag) = <<>> THEN default ELSE Last(Values(args, flag))

Number(text, max) ==
    IF \E n \in 0..max : text = Str(ToString(n)) THEN CHOOSE n \in 0..max : text = Str(ToString(n)) ELSE Err
read_only(part) == CASE part = <<"ro">> -> TRUE [] part = <<"rw">> -> FALSE [] OTHER -> Err

parse_disk(text) ==
    IF Len(text) # 3 \/ read_only(text[3]) = Err THEN Err
    ELSE [block_id |-> <<text[1]>>, path |-> <<text[2]>>, read_only |-> read_only(text[3])]
parse_mount(text) ==
    IF Len(text) # 3 \/ read_only(text[3]) = Err THEN Err
    ELSE [tag |-> <<text[1]>>, path |-> <<text[2]>>, read_only |-> read_only(text[3])]
parse_vsock_port(text) ==
    IF Len(text) # 3 \/ Number(<<text[1]>>, U32_MAX) = Err \/ text[3] \notin {<<"connect">>, <<"listen">>} THEN Err
    ELSE [port |-> Number(<<text[1]>>, U32_MAX), path |-> <<text[2]>>, listen |-> text[3] = <<"connect">>]

cli_network(args) ==
    LET kind == Value(args, "--network", Str("none"))
        peer == Value(args, "--net-peer", None)
        mac == Value(args, "--net-mac", None)
    IN CASE kind = Str("none") -> IF peer # None \/ mac # None THEN Err ELSE [kind |-> "None"]
         [] kind = Str("unixgram") ->
                IF peer = None \/ mac = None \/ parse_mac(mac) = Err THEN Err ELSE [kind |-> "UnixDatagram", peer |-> peer, mac |-> mac]
         [] OTHER -> Err

into_config(args) ==
    LET k == [id |-> Value(args, "--id", Str("anonymous-instance")),
              cpus |-> Number(Value(args, "--cpus", Str("1")), U8_MAX),
              memory_mib |-> Number(Value(args, "--memory-mib", Str("512")), U32_MAX),
              kernel |-> Value(args, "--kernel", None), initramfs |-> Value(args, "--initramfs", None),
              cmdline |-> Values(args, "--cmdline"),
              disks |-> [i \in DOMAIN Values(args, "--disk") |-> parse_disk(Values(args, "--disk")[i])],
              mounts |-> [i \in DOMAIN Values(args, "--mount") |-> parse_mount(Values(args, "--mount")[i])],
              vsock_ports |-> [i \in DOMAIN Values(args, "--vsock-port") |-> parse_vsock_port(Values(args, "--vsock-port")[i])],
              network |-> cli_network(args),
              stdio_console |-> Values(args, "--stdio-console") # <<>>]
    IN IF \/ ~clap(args) \/ Err \in {k.cpus, k.memory_mib, k.network}
          \/ Err \in Range(k.disks) \cup Range(k.mounts) \cup Range(k.vsock_ports)
       THEN Err ELSE k

validate_config(k) ==
    /\ k.cpus # 0 /\ k.memory_mib # 0 /\ k.kernel # None
    /\ k.network.kind = "UnixDatagram" => k.id # Empty /\ k.network.peer # Empty /\ ~k.network.mac.group

\* configure_ctx: the calls on libkrun's context.
configure_ctx(k) ==
    [vm |-> <<k.cpus, k.memory_mib>>, kernel |-> <<k.kernel, k.initramfs, k.cmdline>>,
     disks |-> k.disks, mounts |-> k.mounts, vsock |-> k.vsock_ports # <<>>, ports |-> k.vsock_ports,
     network |-> k.network, console |-> k.stdio_console]

-----------------------------------------------------------------------------
(* virt on macOS *)

vz_validate(c) ==
    /\ c.cpus # 0 /\ c.memory_mib # 0
    /\ c.network.kind = "UnixDatagram" => c.network.peer # Empty /\ c.vm_id # Empty
    /\ \A i \in DOMAIN c.mounts : is_file(c.mounts[i].host_path)

\* build_vm: an identifier is generated unless the file had one.
build_vm(c, fresh) ==
    [vm |-> <<c.cpus, c.memory_mib>>, kernel |-> <<c.kernel, c.initramfs, c.kernel_cmdline>>,
     disks |-> c.disks, mounts |-> c.mounts, network |-> c.network, nested |-> c.nested,
     rosetta |-> c.rosetta, id |-> IF c.machine_identifier = None THEN fresh ELSE c.machine_identifier]

-----------------------------------------------------------------------------
(* The stages of a boot *)

Boot(s) ==
    /\ stage \in {"spec", "running", "rejected"} /\ boots < MaxBoots
    /\ spec' = s /\ boots' = boots + 1
    /\ value' = vm_spec_machine_config(s)
    /\ stage' = IF value' = Err THEN "rejected" ELSE "config"
    /\ UNCHANGED <<idFile, ids>>

\* VirtualMachine::new validates; init then writes the identifier if it was generated by
\* now; start prepares, builds the command line and spawns the helper.
StartKrun ==
    /\ Host = "linux" /\ stage = "config"
    /\ IF krun_validate(value) /\ krun_prepare(value)
       THEN stage' = "args" /\ value' = command_args(build_krun_vm(value))
       ELSE stage' = "rejected" /\ value' = Err
    /\ UNCHANGED <<spec, boots, idFile, ids>>

KrunParses ==
    /\ stage = "args"
    /\ value' = into_config(value)
    /\ stage' = IF value' = Err THEN "rejected" ELSE "parsed"
    /\ UNCHANGED <<spec, boots, idFile, ids>>

KrunStarts ==
    /\ stage = "parsed"
    /\ IF validate_config(value) THEN stage' = "running" /\ value' = configure_ctx(value)
                                 ELSE stage' = "rejected" /\ value' = Err
    /\ UNCHANGED <<spec, boots, idFile, ids>>

\* was_generated is asked before build_vm, the only place that generates: nothing is written.
StartVz ==
    /\ Host = "macos" /\ stage = "config"
    /\ IF vz_validate(value)
       THEN /\ stage' = "running" /\ value' = build_vm(value, boots)
            /\ ids' = Append(ids, value'.id)
       ELSE stage' = "rejected" /\ value' = Err /\ UNCHANGED ids
    /\ UNCHANGED <<spec, boots, idFile>>

LaunchInit ==
    /\ stage = "spec" /\ spec = None /\ value = None /\ boots = 0
    /\ idFile = None /\ ids = <<>>

LaunchNext == (\E s \in Specs : Boot(s)) \/ StartKrun \/ KrunParses \/ KrunStarts \/ StartVz

LaunchSpec == LaunchInit /\ [][LaunchNext]_launchVars

-----------------------------------------------------------------------------
(* Properties *)

\* No string of the spec that travels inside an argument has a colon or begins with a hyphen.
Texts(s) ==
    {s.kernel.text} \cup (IF s.initramfs = None THEN {} ELSE {s.initramfs.text}) \cup Range(s.cmdline)
    \cup {s.disks[i].path.text : i \in DOMAIN s.disks}
    \cup UNION {{s.mounts[i].tag, s.mounts[i].host_path} : i \in DOMAIN s.mounts}
Separable(s) == \A t \in Texts(s) : Len(t) = 1 /\ ~Hyphenated(t)

\* The command line carries the whole configuration: what libkrun is given is what the spec
\* says, in the same order, with each port in the direction its endpoint declares (the host
\* connects where libkrun listens) and with the guest's own two ports added.
HelperSeesSpec ==
    stage = "running" /\ Host = "linux" =>
        /\ value.vm = <<unwrap_or(spec.cpus, 1), unwrap_or(spec.memory, 512)>>
        /\ value.disks = [i \in DOMAIN spec.disks |->
                            [block_id |-> Str("disk" \o ToString(i - 1)),
                             path |-> resolve_spec_path(spec.disks[i].path),
                             read_only |-> spec.disks[i].read_only]]
        /\ \A i \in DOMAIN spec.mounts :
              value.mounts[i] = [tag |-> spec.mounts[i].tag, path |-> spec.mounts[i].host_path,
                                 read_only |-> spec.mounts[i].read_only]
        /\ \A i \in DOMAIN spec.vsock : \E j \in DOMAIN value.ports :
              /\ value.ports[j].port = spec.vsock[i].port
              /\ value.ports[j].listen <=> spec.vsock[i].mode = "Connect"
        /\ spec.guest => {GUEST_CONTROL_PORT, SSH_VSOCK_PORT} \subseteq {value.ports[j].port : j \in DOMAIN value.ports}

\* A port is on the device once, and the two ways virt looks a port up agree on its mode.
PortsAgree ==
    stage = "config" /\ Host = "linux" /\ krun_validate(value) =>
        LET ports == unique_vsock_ports(value)
        IN \A i, j \in DOMAIN ports :
              /\ ports[i].port = ports[j].port => i = j
              /\ declared_vsock_mode(value, ports[i].port) = ports[i].mode

\* The helper refuses nothing that virt accepted, so that a bad configuration is reported by
\* vmmon and not by a helper that exits: this holds for separable strings.
NothingRefusedLate ==
    stage \in {"args", "parsed"} /\ Separable(spec) =>
        IF stage = "args" THEN into_config(value) # Err ELSE validate_config(value)

\* A machine keeps its identity: a later boot of it uses the identifier of the first.  On macOS
\* this does not hold of two boots, as StartVz says; no run asks for it.
IdentityIsKept == \A i, j \in DOMAIN ids : ids[i] = ids[j]
=============================================================================
