------------------------------ MODULE MCCrashes ------------------------------
(* What crashes leave, on the host and in the guest: the life of a machine whose monitor and
   callers may die (MachineLifecycle), the keys that starts make side by side (HostKeys), the
   recipe that becomes the files of a launch (MachineRecipe), the init of a guest with calls
   that fail (GuestInit) and the agent, which may die as the guest may go down in the middle of
   provisioning (GuestAgent), checked side by side.  They share no state, so a behaviour runs one part and
   leaves the others in their first state.  The boots of GuestInit, the configurations and
   surroundings of GuestAgent, and the documents, options and settings of MachineRecipe are one
   plain document or request and variants with one or two things different. *)
EXTENDS MCMachineLifecycle, Sequences
CONSTANTS Absent, Wrong

\* A sound boot, and boots with one thing different.
Disk(holds) == ("/dev/vda" :> [block |-> TRUE, holds |-> holds])
Boot ==
    [cmdline |-> <<>>, devices |-> Disk("ext4"), payload |-> "whole", tree |-> ("/sbin/init" :> "link"),
     dirs |-> {"/dev", "/proc", "/sys", "/run"}, shell |-> TRUE, busy |-> {"/dev"}]
Word(key, value) == [key |-> key, value |-> value]
GuestBoots ==
    {Boot, [Boot EXCEPT !.payload = "none", !.shell = FALSE], [Boot EXCEPT !.payload = "empty"], [Boot EXCEPT !.busy = {}],
     [Boot EXCEPT !.devices = Disk("squashfs"), !.dirs = {"/dev", "/proc", "/sys"}],
     [Boot EXCEPT !.dirs = {}, !.shell = FALSE],
     [Boot EXCEPT !.devices = Disk("swap")], [Boot EXCEPT !.devices = ("/dev/vda" :> [block |-> FALSE, holds |-> ""])],
     [Boot EXCEPT !.tree = ("/sbin/init" :> "absolute")],
     [Boot EXCEPT !.cmdline = <<Word("root=", "/dev/vdb"), Word("init=", "/init2"), Word("root=", "/dev/vda")>>,
                  !.devices = @ @@ ("/dev/vdb" :> [block |-> TRUE, holds |-> "xfs"]), !.tree = ("/init2" :> "file")],
     [Boot EXCEPT !.cmdline = <<Word("root=", "vda"), Word("rootfstype=", "ext4")>>],
     [Boot EXCEPT !.cmdline = <<Word("rootfstype=", "ext4")>>],
     [Boot EXCEPT !.cmdline = <<Word("rootfstype=", "xfs")>>]}

\* Two accounts of a user, units that share a file, mounts that are there and that are not.
User(name, uid, shut, keys, sudo) ==
    [name |-> name, uid |-> uid, gecos |-> "g", home |-> name, shell |-> "sh", lock |-> shut, keys |-> keys, sudo |-> sudo]
Interface(name, label, mac) == [name |-> name, label |-> label, driver |-> "", mac |-> mac, dhcp4 |-> TRUE, dhcp6 |-> FALSE]
Script(content) == [content |-> content, type |-> "shell", once |-> TRUE]
NoConfig ==
    [enabled |-> TRUE, hostname |-> "", timezone |-> [name |-> "", known |-> FALSE], locale |-> "", users |-> <<>>, ca |-> Absent,
     resize |-> FALSE, mounts |-> <<>>, rosetta |-> Absent, interfaces |-> <<>>, userdata |-> Absent,
     forward |-> [enabled |-> FALSE, port |-> 0]]
GuestConfigs ==
    {[NoConfig EXCEPT !.hostname = "h", !.timezone = [name |-> "z", known |-> TRUE], !.userdata = Script("one"),
                      !.forward = [enabled |-> TRUE, port |-> 7]],
     [NoConfig EXCEPT !.users = <<User(<<"a", ".">>, 1, TRUE, <<"k">>, "all"), User(<<"b">>, 2, FALSE, <<>>, "")>>,
                      !.interfaces = <<Interface(<<"e", ".">>, "e.", ""), Interface(<<"e", "-">>, "e-", "m")>>],
     [NoConfig EXCEPT !.users = <<User(<<"a", ".">>, 1, FALSE, <<"j">>, ""), User(<<"a", "-">>, 2, FALSE, <<>>, "all")>>,
                      !.locale = "l", !.interfaces = <<Interface(<<"f">>, "f", "")>>],
     [NoConfig EXCEPT !.ca = [pem |-> "p", trust |-> TRUE], !.resize = TRUE, !.userdata = Script("two"),
                      !.mounts = <<[path |-> "/m", tag |-> "t", ro |-> FALSE], [path |-> "/n", tag |-> "u", ro |-> TRUE]>>,
                      !.rosetta = [path |-> "/r", tag |-> "v", binary |-> TRUE]],
     [NoConfig EXCEPT !.enabled = FALSE, !.forward = [enabled |-> TRUE, port |-> 0]]}

Dir(kind, writable, mode) == [kind |-> kind, uid |-> 0, gid |-> 0, writable |-> writable, mode |-> mode]
GuestWakes ==
    {[sshd |-> Dir("missing", FALSE, 0), mounts |-> [t \in {} |-> <<>>]],
     [sshd |-> Dir("directory", FALSE, 700), mounts |-> ("/m" :> <<[source |-> "x", ro |-> FALSE]>>)],
     [sshd |-> Dir("directory", TRUE, 777), mounts |-> ("/n" :> <<[source |-> "u", ro |-> TRUE]>>)]}
GuestSystems ==
    {[programs |-> {"findmnt", "systemctl", "chown", "passwd", "hostnamectl", "resize2fs"}, users |-> [n \in {} |-> 0]],
     [programs |-> {"systemctl"},
      users |-> (<<"b">> :> [uid |-> 2, gecos |-> "", home |-> <<"b">>, shell |-> "sh", locked |-> TRUE])]}

Size(quantity, unit) == [quantity |-> quantity, unit |-> unit]
Share(source, target, mode) == [source |-> source, target |-> target, mode |-> mode]
RawNetwork(kind, name, policy, ref) == [kind |-> kind, name |-> name, policy |-> policy, ref |-> ref]
Option(text, prefix) == [text |-> text, prefix |-> prefix]

Document ==
    [version |-> "1", image |-> "i", cpus |-> 2, memory |-> Size(1, "gb"), disk |-> Size(5, "mb"), userdata |-> "script",
     mounts |-> <<Share(<<".", "d">>, <<"/", "d">>, "ro")>>, network |-> Absent, labels |-> ("k" :> "p" @@ "l" :> "p")]
RecipeDocuments ==
    {Document, [Document EXCEPT !.network = RawNetwork("none", Absent, Absent, Absent), !.userdata = Absent],
     [Document EXCEPT !.network = RawNetwork(Absent, "n", Absent, Absent), !.disk = Absent],
     [Document EXCEPT !.network = RawNetwork("private", Absent, Absent, "r"), !.memory = Size(4, "gib")],
     [Document EXCEPT !.network = RawNetwork("named", "n", Absent, "r")], [Document EXCEPT !.userdata = "cloud"],
     [Document EXCEPT !.disk = Size(0, "mb")], [Document EXCEPT !.mounts = <<Share(<<>>, <<"/", "d">>, "rw")>>]}

NewProfileOptions ==
    [image |-> "i", cpus |-> Absent, memory |-> Absent, disk |-> Absent, mounts |-> <<>>, network |-> Option("private", FALSE), labels |-> <<>>]
RecipeProfiles ==
    {[NewProfileOptions EXCEPT !.memory = Size(2, "m"), !.disk = Size(1, "g"), !.network = Option("none", FALSE),
                               !.labels = <<<<"k", "a">>, <<"k", "b">>>>],
     [NewProfileOptions EXCEPT !.network = Option("n", TRUE), !.mounts = <<Share(<<"~", "d">>, <<"/", "d">>, "rw")>>],
     [NewProfileOptions EXCEPT !.network = Option("private", TRUE)], [NewProfileOptions EXCEPT !.memory = Size(0, "gb")]}

Request ==
    [profile |-> "dev", profile_flag |-> Absent, image |-> Absent, cpus |-> Absent, memory |-> Absent, disk |-> Absent,
     kernel |-> Absent, initramfs |-> Absent, rosetta |-> FALSE, userdata |-> Absent, disks |-> <<>>, mounts |-> <<>>,
     network |-> Absent, labels |-> <<>>]
RecipeRequests ==
    {Request, [Request EXCEPT !.profile = Absent, !.network = Option("none", FALSE)],
     [Request EXCEPT !.profile = Absent, !.profile_flag = "dev", !.image = "j", !.disk = Size(4, "mb"),
                     !.mounts = <<Share(<<"~", "e">>, <<"/", "e">>, "rw"), Share(<<"/", "f">>, <<"/", "d">>, "ro")>>,
                     !.labels = <<<<"k", "r">>, <<"k", "s">>>>, !.userdata = "padded"],
     [Request EXCEPT !.profile = Absent, !.image = "j", !.userdata = "cloud", !.initramfs = <<"/", "own">>],
     [Request EXCEPT !.profile_flag = "dev"], [Request EXCEPT !.userdata = "blank"], [Request EXCEPT !.disk = Size(2, "mb")],
     [Request EXCEPT !.profile = Absent, !.network = Option("m", FALSE), !.memory = Size(1, "mb")],
     [Request EXCEPT !.profile = "default", !.disks = <<<<"/", "gone">>>>]}

Setting == [cpus |-> Absent, memory |-> Absent, size |-> Absent, network |-> Absent, rosetta |-> Absent]
RecipeUpdates ==
    {[Setting EXCEPT !.size = 9], [Setting EXCEPT !.size = 4, !.cpus = 3], [Setting EXCEPT !.cpus = 0],
     [Setting EXCEPT !.rosetta = TRUE, !.memory = Size(3, "mb")]}
RecipeEndpoints ==
    {<<[name |-> "other", port |-> 1, config |-> Wrong], [name |-> "forward", port |-> 2, config |-> <<"s">>]>>,
     <<[name |-> "forward", port |-> 2, config |-> Wrong]>>}
RecipePresent ==
    {<<"/", "assets", "default">>, <<"/", "assets", "initramfs">>, <<"/", "own">>}

VARIABLES
    part,
    boot, stage, todo, initMounts, under, root, links, initRun, failedAt, faults,
    asked, installed, files, users, kernel, agent, agentPorts, server, ran, excuse, count,
    file, at, who, made, result, raced, keys, deaths,
    profiles, pending, machine, disk, launch, recipe, wrote, changes

I == INSTANCE GuestInit WITH Boots <- GuestBoots, ReadOnly <- {"squashfs", "erofs"}, None <- Absent, MaxFaults <- 1,
         mounts <- initMounts, run <- initRun
A == INSTANCE GuestAgent WITH Configs <- GuestConfigs, Guests <- GuestSystems, Wakes <- GuestWakes, None <- Absent,
         Plain <- {"a", "b", "e", "f", "-"}, RootType <- "ext4", Concurrency <- 1, MaxConnections <- 1,
         MaxFaults <- 1, MaxBoots <- 2, MaxStarts <- 2, config <- asked, ports <- agentPorts
K == INSTANCE HostKeys WITH Callers <- {"a", "b"}, None <- Absent, MaxDeaths <- 1
R == INSTANCE MachineRecipe WITH Documents <- RecipeDocuments, NewProfiles <- RecipeProfiles, Requests <- RecipeRequests,
         Updates <- RecipeUpdates, Endpoints <- RecipeEndpoints, Profiles <- {"default", "dev"}, DefaultProfile <- "default",
         DefaultCpus <- 1, DefaultMemory <- 512, Dirs <- {"u", "v"}, Identifiers <- {"n", "m", "private", "none"},
         Defined <- {"n"}, Present <- RecipePresent, Base <- 3, MaxMemory <- 2048, MaxStorage <- 8192,
         None <- Absent, Err <- Wrong, MaxChanges <- 2, asked <- recipe

initVars == <<boot, stage, todo, initMounts, under, root, links, initRun, failedAt, faults>>
agentVars == <<asked, installed, files, users, kernel, agent, agentPorts, server, ran, excuse, count>>
keyVars == <<file, at, who, made, result, raced, keys, deaths>>
recipeVars == <<profiles, pending, machine, disk, launch, recipe, wrote, changes>>
partVars == <<part, vars, initVars, agentVars, keyVars, recipeVars>>

\* The variables of a part while another part runs.
IdleInit ==
    /\ boot = 0 /\ stage = 0 /\ todo = 0 /\ initMounts = 0 /\ under = 0 /\ root = 0
    /\ links = 0 /\ initRun = 0 /\ failedAt = 0 /\ faults = 0
IdleAgent ==
    /\ asked = 0 /\ installed = 0 /\ files = 0 /\ users = 0 /\ kernel = 0 /\ agent = 0
    /\ agentPorts = 0 /\ server = 0 /\ ran = 0 /\ excuse = 0 /\ count = 0
IdleKeys ==
    /\ file = 0 /\ at = 0 /\ who = 0 /\ made = 0 /\ result = 0 /\ raced = 0 /\ keys = 0 /\ deaths = 0
IdleRecipe ==
    /\ profiles = 0 /\ pending = 0 /\ machine = 0 /\ disk = 0 /\ launch = 0 /\ recipe = 0 /\ wrote = 0 /\ changes = 0

PartsInit ==
    /\ part \in {"lifecycle", "keys", "recipe", "init", "agent"} /\ Init
    /\ IF part = "init" THEN I!InitInit ELSE IdleInit
    /\ IF part = "agent" THEN A!AgentInit ELSE IdleAgent
    /\ IF part = "keys" THEN K!KeysInit ELSE IdleKeys
    /\ IF part = "recipe" THEN R!RecipeInit ELSE IdleRecipe
PartsNext ==
    /\ UNCHANGED part
    /\ \/ part = "lifecycle" /\ Next /\ UNCHANGED <<initVars, agentVars, keyVars, recipeVars>>
       \/ part = "init" /\ I!InitNext /\ UNCHANGED <<vars, agentVars, keyVars, recipeVars>>
       \/ part = "agent" /\ A!AgentNext /\ UNCHANGED <<vars, initVars, keyVars, recipeVars>>
       \/ part = "keys" /\ K!KeysNext /\ UNCHANGED <<vars, initVars, agentVars, recipeVars>>
       \/ part = "recipe" /\ R!RecipeNext /\ UNCHANGED <<vars, initVars, agentVars, keyVars>>
PartsSpec == PartsInit /\ [][PartsNext]_partVars

\* The files of a launch hold what the machine's recipe asked for, with the one authority and
\* the key pair of the host.  A guest that boots runs the init of the disk that was named with
\* everything handed over, or says why in a useful shell; a guest that was provisioned is what
\* the host asked for but for the provisioners that failed, ran no script twice without a
\* reason, and can be reached once it has registered.
GuestComesUp ==
    /\ part = "keys" => K!KeysTypeOK /\ K!AuthorityIsOne /\ K!KeyIsAuthorised /\ K!FailsOnlyAfterAccident
    /\ part = "recipe" =>
           /\ R!RecipeTypeOK /\ R!WrittenProfileLoads /\ R!GuestGetsRecipe
           /\ R!CreatedStarts /\ R!DiskOnlyGrows
    /\ part = "init" => I!InitTypeOK /\ I!HandoffIsWhole /\ I!RescueIsUseful
    /\ part = "agent" => A!AgentTypeOK /\ A!GuestIsAsAsked /\ A!OnceIsOnce /\ A!RegisteredIsReachable
=============================================================================
