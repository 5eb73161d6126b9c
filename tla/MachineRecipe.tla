----------------------------- MODULE MachineRecipe -----------------------------
(* From a recipe to a guest: the profiles of a user (a directory of yaml files that the profile
   commands and an editor change), `bento create`, which lays the options of the command line
   over a profile and has libvm check and record the machine, the updates of a machine, and the
   start, which turns the record into the two files a launch reads: the spec of the virtual
   machine and the configuration of the guest's agent.  What users write is any document; a
   path is a sequence whose first element tells an absolute path ("/"), one in the home
   directory ("~") and a relative one (".") apart.  Locks and records are MachineRegistry's,
   the keys in the configuration are those of HostKeys. *)
EXTENDS Integers, Sequences, FiniteSets

CONSTANTS
    Documents,      \* what an editor may leave in a profile's file
    NewProfiles,    \* options of `bento profile create`
    Requests,       \* options of `bento create`
    Updates,        \* settings that an update of a machine may change
    Endpoints,      \* endpoint lists that a replaced spec may have
    Profiles,       \* names of profiles, DefaultProfile among them
    DefaultProfile,
    DefaultCpus, DefaultMemory,
    Dirs,           \* working directories a command may run in
    Identifiers,    \* the names that may name a network
    Defined,        \* those of the networks that are defined
    Present,        \* the paths on the host at which there is a file
    Base,           \* length of the base image, in mebibytes
    MaxMemory,      \* the largest memory a spec can hold, in mebibytes (2^32 - 1)
    MaxStorage,     \* the largest size that can be written, in mebibytes (2^44 - 1)
    None, Err,
    MaxChanges      \* bound: changes to the profiles, and changes to the machine

VARIABLES
    profiles,   \* the files of the profile directory: name and extension to document
    pending,    \* a `bento profile create` that found no file and has not yet written one
    machine,    \* the record of the machine, None before it is created
    disk,       \* the length of its root disk
    launch,     \* the files of its last launch
    asked,      \* ghost: what the machine was created from
    wrote,      \* ghost: what a profile command meant to put in a file, None for an editor's
    changes
recipeVars == <<profiles, pending, machine, disk, launch, asked, wrote, changes>>

Or(a, b) == IF a # None THEN a ELSE b

\* ----------------------------------------------------------------------- sizes
Unit == [m |-> "mb", mb |-> "mb", mib |-> "mib", g |-> "gb", gb |-> "gb", gib |-> "gib"]
Multiplier == [mb |-> 1, mib |-> 1, gb |-> 1024, gib |-> 1024]
storage_bytes(size) == size.quantity * Multiplier[size.unit]
\* A size as written, a quantity and a unit, with the unit as it is displayed; Err when it
\* cannot be read.
Displayed(size) == [size EXCEPT !.unit = Unit[@]]
HumanSize(size) ==
    IF size.unit \in DOMAIN Unit
    THEN IF storage_bytes(Displayed(size)) <= MaxStorage THEN Displayed(size) ELSE Err
    ELSE Err
memory_mib(size) ==
    IF storage_bytes(size) \in 1 .. MaxMemory THEN storage_bytes(size) ELSE Err
\* An option or a field that may be absent; Err when it is there and cannot be read.
Read(size) == IF size = None THEN None ELSE HumanSize(size)
Memory(size) == IF Read(size) \in {None, Err} THEN Read(size) ELSE memory_mib(Read(size))
Storage(size) == IF Read(size) \in {None, Err} THEN Read(size) ELSE storage_bytes(Read(size))

\* --------------------------------------------------------------------- options
Absolute(path) == path # <<>> /\ path[1] = "/"
\* SRC:DST[:MODE]
parse_profile_mount(m) == IF m.source # <<>> /\ Absolute(m.target) THEN m ELSE Err
\* A later label of a key replaces an earlier one.
Labels(pairs) ==
    [k \in {pairs[i][1] : i \in DOMAIN pairs} |->
        pairs[CHOOSE i \in DOMAIN pairs : pairs[i][1] = k /\ \A j \in DOMAIN pairs : pairs[j][1] = k => j <= i][2]]
Private(ref) == [kind |-> "private", name |-> None, ref |-> ref]
Unnamed == [kind |-> "none", name |-> None, ref |-> None]
Named(name) == [kind |-> "named", name |-> name, ref |-> None]
Reserved == {"private", "none"}
try_named(name) == IF name \in Identifiers \ Reserved THEN Named(name) ELSE Err
\* private, none, NAME or name:NAME.
parse_machine_network_config(text, prefix) ==
    CASE ~prefix /\ text = "private" -> Private(None)
      [] ~prefix /\ text = "none" -> Unnamed
      [] OTHER -> try_named(text)
NetworkOption(o) == IF o = None THEN None ELSE parse_machine_network_config(o.text, o.prefix)
\* The command line can be read: sizes, mounts and the network.
Readable(o) ==
    /\ Err \notin {parse_profile_mount(o.mounts[i]) : i \in DOMAIN o.mounts}
    /\ NetworkOption(o.network) # Err
    /\ Err \notin {Read(o.memory), Read(o.disk)}

\* -------------------------------------------------------------------- profiles
normalize_network(raw) ==
    IF raw.name \in Reserved \/ raw.policy # None THEN Err
    ELSE CASE raw.kind \in {"private", None} /\ raw.name = None -> Private(raw.ref)
           [] raw.kind = "none" /\ raw.name = None /\ raw.ref = None -> Unnamed
           [] raw.kind \in {"named", None} /\ raw.name # None /\ raw.ref = None -> Named(raw.name)
           [] OTHER -> Err

validate_profile_any_text(p) ==
    /\ p.version = "1" /\ p.image # ""
    /\ Memory(p.memory) # Err
    /\ Storage(p.disk) \notin {Err, 0}
    /\ p.userdata # "blank"
    /\ \A i \in DOMAIN p.mounts : p.mounts[i].source # <<>> /\ Absolute(p.mounts[i].target)
validate_profile(p) ==
    /\ p.version = "1" /\ p.image # ""
    /\ Memory(p.memory) # Err
    /\ Storage(p.disk) \notin {Err, 0}
    /\ p.userdata \in {None, "script"}
    /\ \A i \in DOMAIN p.mounts : p.mounts[i].source # <<>> /\ Absolute(p.mounts[i].target)

Network(raw) == IF raw = None THEN Private(None) ELSE normalize_network(raw)
parse_profile(doc) ==
    IF Network(doc.network) # Err /\ validate_profile(doc)
    THEN [doc EXCEPT !.network = Network(doc.network)] ELSE Err
\* A profile written out: its network names its kind.
Written_unkind(p) == [p EXCEPT !.network = [kind |-> None, name |-> p.network.name, policy |-> None, ref |-> p.network.ref]]
Written(p) == [p EXCEPT !.network = [kind |-> p.network.kind, name |-> p.network.name, policy |-> None, ref |-> p.network.ref]]

built_in_default_profile ==
    [version |-> "1", image |-> "builtin", cpus |-> None, memory |-> None, disk |-> None, userdata |-> None,
     mounts |-> <<>>, network |-> Private(None), labels |-> Labels(<<>>)]

Has(name, ext) == profiles[<<name, ext>>] # None
\* The file of a profile: Err when it has two, None when it has none.
find_profile_path(name) ==
    CASE Has(name, "yaml") /\ Has(name, "yml") -> Err
      [] Has(name, "yaml") /\ ~Has(name, "yml") -> <<name, "yaml">>
      [] ~Has(name, "yaml") /\ Has(name, "yml") -> <<name, "yml">>
      [] OTHER -> None
Resolved(name, path) ==
    CASE path = Err -> Err
      [] path = None -> IF name = DefaultProfile THEN built_in_default_profile ELSE Err
      [] OTHER -> parse_profile(profiles[path])
resolve_profile(name) == Resolved(name, find_profile_path(name))

Change == changes < MaxChanges /\ changes' = changes + 1

\* The profile that the options of `bento profile create` describe.
NewProfile(o) ==
    [version |-> "1", image |-> o.image, cpus |-> o.cpus, memory |-> Read(o.memory), disk |-> Read(o.disk), userdata |-> None,
     mounts |-> o.mounts, network |-> NetworkOption(o.network), labels |-> Labels(o.labels)]
\* The name is free and the profile valid; the file is written afterwards, whatever has come
\* in between.
create_profile(name, o) ==
    /\ Change /\ pending = None /\ Readable(o)
    /\ find_profile_path(name) = None /\ validate_profile(NewProfile(o))
    /\ pending' = [name |-> name, profile |-> NewProfile(o)]
    /\ UNCHANGED <<profiles, machine, disk, launch, asked, wrote>>
path_for_new_profile(name) == <<name, "yaml">>
WriteProfile ==
    /\ pending # None /\ pending' = None
    /\ profiles' = [profiles EXCEPT ![path_for_new_profile(pending.name)] = Written(pending.profile)]
    /\ wrote' = [wrote EXCEPT ![path_for_new_profile(pending.name)] = pending.profile]
    /\ UNCHANGED <<machine, disk, launch, asked, changes>>

Leaves(slot, doc) ==
    /\ profiles' = [profiles EXCEPT ![slot] = doc]
    /\ wrote' = [wrote EXCEPT ![slot] = None]
    /\ UNCHANGED <<pending, machine, disk, launch, asked>>
\* `bento profile edit`: a profile that loads and has a file.  The editor leaves any document;
\* the command only says whether it is valid.
edit_profile(name, doc) ==
    /\ Change
    /\ resolve_profile(name) # Err /\ find_profile_path(name) # None
    /\ Leaves(find_profile_path(name), doc)
\* The user puts a file there without the command.
PutFile(slot, doc) == Change /\ Leaves(slot, doc)

\* `bento profile rm --force`: a profile must load to be removed; the built-in one has no file.
remove_profile(name) ==
    /\ Change
    /\ resolve_profile(name) # Err /\ find_profile_path(name) # None
    /\ Leaves(find_profile_path(name), None)

\* ---------------------------------------------------------------------- create
resolve_host_path(path, cwd) ==
    CASE path[1] = "/" -> path
      [] path[1] = "~" -> <<"/", "home">> \o Tail(path)
      [] OTHER -> <<"/", cwd>> \o Tail(path)
profile_mount_to_mount(m, cwd) ==
    [source |-> resolve_host_path(m.source, cwd), tag |-> m.target, read_only |-> m.mode = "ro"]
resolved_mounts_raw(mounts, cwd) ==
    [i \in DOMAIN mounts |-> [profile_mount_to_mount(mounts[i], cwd) EXCEPT !.source = mounts[i].source]]
resolved_mounts(mounts, cwd) == [i \in DOMAIN mounts |-> profile_mount_to_mount(mounts[i], cwd)]

\* The profile of a request: the default one unless a profile or an image is named.
profile_name(r) == Or(Or(r.profile, r.profile_flag), IF r.image = None THEN DefaultProfile ELSE None)
\* Without a profile the options are laid over nothing.
NoProfile == [built_in_default_profile EXCEPT !.image = None]
BaseProfile(r) == IF profile_name(r) = None THEN NoProfile ELSE resolve_profile(profile_name(r))

\* The options of the request laid over the profile p.
Merged(f, g) == [k \in DOMAIN f \cup DOMAIN g |-> IF k \in DOMAIN g THEN g[k] ELSE f[k]]
Overlay(r, p, cwd) ==
    [image |-> Or(r.image, p.image), profile |-> profile_name(r),
     labels |-> Merged(p.labels, Labels(r.labels)),
     mounts |-> resolved_mounts(p.mounts, cwd) \o resolved_mounts(r.mounts, cwd),
     network |-> Or(NetworkOption(r.network), p.network),
     userdata |-> Or(r.userdata, p.userdata),
     cpus |-> Or(r.cpus, p.cpus),
     memory |-> Or(Memory(r.memory), Memory(p.memory)),
     size |-> Or(Storage(r.disk), Storage(p.disk)),
     kernel |-> Or(r.kernel, <<"/", "assets", "default">>), initramfs |-> r.initramfs,
     rosetta |-> r.rosetta, disks |-> r.disks]
resolve(r, p, cwd) ==
    IF \/ ~Readable(r) \/ (r.profile # None /\ r.profile_flag # None)
       \/ p = Err \/ r.userdata = "unreadable" \/ Memory(r.memory) = Err
    THEN Err ELSE Overlay(r, p, cwd)

validate_machine_network_config(network) == network.kind = "named" => network.name \in Defined
assign_mount_tags(mounts) ==
    [i \in DOMAIN mounts |-> IF mounts[i].tag = <<>> THEN [mounts[i] EXCEPT !.tag = <<"mount", i - 1>>] ELSE mounts[i]]
\* What libvm demands of a new machine; the copy of the base image can only be made longer.
Acceptable(q) ==
    /\ q.size # 0 /\ (q.size # None => q.size >= Base)
    /\ \A path \in {q.kernel, q.initramfs} \cup {q.disks[i] : i \in DOMAIN q.disks} : path \in Present \cup {None}
    /\ q.userdata # "blank"
    /\ q.memory \in {None} \cup 1 .. MaxMemory
    /\ validate_machine_network_config(q.network)
NewMachine(q) ==
    [image |-> q.image, metadata |-> q.profile, labels |-> q.labels, network |-> q.network, root_disk_size |-> Or(q.size, Base),
     spec |-> [cpus |-> Or(q.cpus, DefaultCpus), memory |-> Or(q.memory, DefaultMemory), rosetta |-> q.rosetta,
               kernel |-> q.kernel, initramfs |-> q.initramfs, userdata |-> q.userdata, disks |-> q.disks,
               mounts |-> assign_mount_tags(q.mounts), endpoints |-> <<>>]]

create_machine_config(r, p, cwd, q) ==
    /\ q # Err /\ Acceptable(q)
    /\ machine' = NewMachine(q)
    /\ disk' = Or(q.size, Base)
    /\ asked' = [request |-> r, profile |-> p, cwd |-> cwd, replaced |-> FALSE]
    /\ UNCHANGED <<profiles, pending, launch, wrote, changes>>
create(r, cwd) ==
    /\ machine = None
    /\ \E p \in {BaseProfile(r)} : \E q \in {resolve(r, p, cwd)} :
           create_machine_config(r, p, cwd, q)

\* --------------------------------------------------------------- later changes
\* The settings of an update apply together or not at all; a new name is MachineRegistry's.
validate_root_disk_growth_image(size) == size >= Base
validate_root_disk_growth(size) == size >= disk
update(u) ==
    /\ Change /\ machine # None
    /\ {setting \in DOMAIN u : u[setting] # None} # {}
    /\ u.cpus # 0 /\ Memory(u.memory) # Err /\ u.size # 0
    /\ (u.size # None => validate_root_disk_growth(u.size))
    /\ (u.network # None => validate_machine_network_config(u.network))
    /\ machine' = [machine EXCEPT !.root_disk_size = Or(u.size, @), !.network = Or(u.network, @),
                       !.spec.cpus = Or(u.cpus, @), !.spec.memory = Or(Memory(u.memory), @),
                       !.spec.rosetta = Or(u.rosetta, @)]
    /\ UNCHANGED <<profiles, pending, disk, launch, asked, wrote>>

\* A replaced spec is recorded as it is; here its endpoints are what changes.
replace_config(endpoints) ==
    /\ Change /\ machine # None
    /\ machine' = [machine EXCEPT !.spec.endpoints = endpoints]
    /\ asked' = [asked EXCEPT !.replaced = TRUE]
    /\ UNCHANGED <<profiles, pending, disk, launch, wrote>>

\* ----------------------------------------------------------------------- start
normalize_mount_sources(mounts, cwd) ==
    [i \in DOMAIN mounts |-> [mounts[i] EXCEPT !.source = resolve_host_path(@, cwd)]]
DefaultInitramfs == <<"/", "assets", "initramfs">>
prepare_launch_spec(spec, cwd) ==
    IF spec.initramfs = None /\ DefaultInitramfs \notin Present THEN Err
    ELSE [spec EXCEPT !.mounts = normalize_mount_sources(@, cwd), !.initramfs = Or(@, DefaultInitramfs)]

\* The first endpoint called forward, if any, and the sockets its plugin is configured with.
ForwardAt(endpoints) ==
    {i \in DOMAIN endpoints : endpoints[i].name = "forward" /\ \A j \in 1 .. i - 1 : endpoints[j].name # "forward"}
build_forward_config(endpoints) ==
    IF ForwardAt(endpoints) = {} THEN [enabled |-> FALSE, port |-> None, uds |-> <<>>]
    ELSE LET e == endpoints[CHOOSE i \in ForwardAt(endpoints) : TRUE]
         IN IF e.config = Err THEN Err ELSE [enabled |-> TRUE, port |-> e.port, uds |-> Or(e.config, <<>>)]

build_provision_network_config(attachment) ==
    CASE attachment = "none" -> <<>>
      [] attachment = "vznat" -> <<[match |-> "driver", dhcp4 |-> TRUE]>>
      [] attachment = "datagram" -> <<[match |-> "mac", dhcp4 |-> TRUE]>>
provision_mount_entries(mounts) ==
    [i \in DOMAIN mounts |->
        [tag |-> mounts[i].tag, path |-> mounts[i].source,
         options |-> <<IF mounts[i].read_only THEN "ro" ELSE "rw", "nofail">>]]
\* The content type by the first characters after blanks; only scripts can be provisioned.
detect_userdata_content_type(userdata) ==
    IF userdata \in {"script", "padded"} THEN "script" ELSE userdata
provision_userdata(userdata) ==
    IF userdata # None /\ detect_userdata_content_type(userdata) # "script" THEN Err ELSE userdata

\* The parts that depend on the machine; the account, the keys and the locale are the host's.
build_config(spec, attachment) ==
    IF build_forward_config(spec.endpoints) = Err \/ provision_userdata(spec.userdata) = Err THEN Err
    ELSE [forward |-> build_forward_config(spec.endpoints),
          network |-> build_provision_network_config(attachment),
          rosetta |-> spec.rosetta, mounts |-> provision_mount_entries(spec.mounts),
          userdata |-> provision_userdata(spec.userdata)]

\* How a machine's network can be attached, by the drivers of the two hosts.
Attachments(network) == IF network.kind = "none" THEN {"none"} ELSE {"vznat", "datagram"}

\* The disk is brought to its size, then both files are made before either is written.
prepare_vmmon_launch_inputs(cwd, attachment) ==
    LET spec == prepare_launch_spec(machine.spec, cwd)
    IN IF spec = Err THEN Err
       ELSE IF build_config(spec, attachment) = Err THEN Err
       ELSE [spec |-> spec, config |-> build_config(spec, attachment)]
start(cwd, attachment) ==
    /\ machine # None /\ attachment \in Attachments(machine.network)
    /\ machine.root_disk_size >= disk
    /\ disk' = machine.root_disk_size
    /\ \E made \in {prepare_vmmon_launch_inputs(cwd, attachment)} :
           launch' = IF made = Err THEN launch ELSE made
    /\ UNCHANGED <<profiles, pending, machine, asked, wrote, changes>>

RecipeInit ==
    /\ profiles = [slot \in Profiles \X {"yaml", "yml"} |-> None]
    /\ pending = None /\ machine = None /\ disk = 0 /\ launch = None /\ asked = None
    /\ wrote = [slot \in Profiles \X {"yaml", "yml"} |-> None]
    /\ changes = 0

RecipeNext ==
    \/ \E name \in Profiles, o \in NewProfiles : create_profile(name, o)
    \/ WriteProfile
    \/ \E name \in Profiles, doc \in Documents : edit_profile(name, doc)
    \/ \E slot \in Profiles \X {"yaml", "yml"}, doc \in Documents : PutFile(slot, doc)
    \/ \E name \in Profiles : remove_profile(name)
    \/ \E r \in Requests, cwd \in Dirs : create(r, cwd)
    \/ \E u \in Updates : update(u)
    \/ \E endpoints \in Endpoints : replace_config(endpoints)
    \/ \E cwd \in Dirs, attachment \in {"none", "vznat", "datagram"} : start(cwd, attachment)
RecipeSpec == RecipeInit /\ [][RecipeNext]_recipeVars

\* Type invariant.
RecipeTypeOK ==
    /\ \A slot \in DOMAIN profiles : profiles[slot] \in Documents \cup {None} \/ wrote[slot] # None
    /\ machine = None => launch = None /\ asked = None /\ disk = 0
    /\ machine # None =>
           /\ machine.spec.memory \in 1 .. MaxMemory /\ machine.network.name \in Defined \cup {None}
           /\ \A i \in DOMAIN machine.spec.mounts : Absolute(machine.spec.mounts[i].source)
    /\ changes \in 0 .. MaxChanges

\* A profile that the create command wrote, and nobody has changed since, loads as what the
\* options said: writing a size or a network out and reading it back loses nothing.
WrittenProfileLoads ==
    \A slot \in DOMAIN profiles : wrote[slot] # None => parse_profile(profiles[slot]) = wrote[slot]

\* The files of a launch say what the machine was created from, whatever has become of the
\* profile and wherever the start ran: every mount of the profile and then of the options, with
\* its mode, from the directory that it named when the machine was created, under one tag in
\* both files; and the script of the options, else of the profile.
GuestGetsRecipe ==
    launch # None =>
        \E want \in {asked.profile.mounts \o asked.request.mounts} :
            /\ DOMAIN launch.config.mounts = DOMAIN want
            /\ \A i \in DOMAIN want :
                   /\ launch.config.mounts[i].path = resolve_host_path(want[i].source, asked.cwd)
                   /\ launch.config.mounts[i].options[1] = want[i].mode
                   /\ launch.config.mounts[i].tag = launch.spec.mounts[i].tag
            /\ launch.config.userdata = Or(asked.request.userdata, asked.profile.userdata)

\* What create accepts, a start can launch: with an initramfs on the host, only a replaced spec
\* or userdata of the options that is no script keeps the files from being made (a profile's
\* userdata is checked by validate_profile, that of the options is not).
CreatedStarts ==
    machine # None /\ ~asked.replaced /\ asked.request.userdata \in {None, "script", "padded"}
        /\ (DefaultInitramfs \in Present \/ machine.spec.initramfs # None)
    => \A cwd \in Dirs, attachment \in Attachments(machine.network) :
           prepare_vmmon_launch_inputs(cwd, attachment) # Err

\* The size recorded for the root disk is never below the length of the disk, through any
\* updates and starts, so bringing the disk to its size never refuses a start and never cuts it
\* below the image.
DiskOnlyGrows == machine # None => machine.root_disk_size >= disk /\ disk >= Base
===============================================================================
