----------------------------- MODULE GuestAgent -----------------------------
(***************************************************************************)
(* The agent in a guest (guest/agent/src): it asks the host for its         *)
(* configuration, brings the guest to what the configuration says, one      *)
(* provisioner after another, listens, registers with the host and serves   *)
(* connections.                                                             *)
(*                                                                          *)
(* A provisioner is a list of items (a user, a mount, or all it does), and  *)
(* an item a list of operations that is made up when the item's turn comes, *)
(* from what is there by then.  An operation that fails ends its item; the  *)
(* provisioner has then failed, and the next one goes on.  systemd starts   *)
(* an agent again that ended with an error or was killed; the machine may   *)
(* go down at any moment, and come up with another configuration.           *)
(***************************************************************************)
EXTENDS Integers, Sequences, SequencesExt, FiniteSets, FiniteSetsExt, TLC

CONSTANTS
    Configs,        \* what the host may say
    Guests,         \* the guests there may be: [programs, users], the commands it has and the users it had before
    Plain,          \* the characters that may be in the name of a unit
    Wakes,          \* what may be there when it is up: [sshd, mounts], /run/sshd and the mounts by target
    RootType,       \* the file system of the guest
    None,
    Concurrency,    \* connections a server handles at a time
    MaxConnections, MaxFaults, MaxBoots, MaxStarts  \* bounds: calls, failures and deaths, boots, starts of the agent in a boot

VARIABLES
    config, installed,
    files, users,   \* the disk: contents by path, users by name
    kernel,         \* what a boot begins anew: [hostname, mounts, binfmt, networkd, trusted, sshd]
    agent,          \* [pc, step, items, ops, failed, changed]
    ports,          \* the ports that the agent listens on
    server,         \* [backlog, held, active]: the connections of the ssh server
    ran,            \* the scripts that ran to their end, in order
    excuse,         \* what went wrong in a way that shows later
    count           \* [faults, boots, starts]
agentVars == <<config, installed, files, users, kernel, agent, ports, server, ran, excuse, count>>

NoServer == [backlog |-> 0, held |-> FALSE, active |-> 0]
NoPlan == [pc |-> "connect", step |-> 0, items |-> <<>>, ops |-> <<>>, failed |-> {}, changed |-> FALSE]
Content(path) == IF path \in DOMAIN files THEN files[path] ELSE None
NetFiles == [p \in {q \in DOMAIN files : q[1] = "net"} |-> files[p]]

\* A boot; systemd-networkd is started with it once it is enabled.
Fresh(wake) ==
    [hostname |-> "", mounts |-> wake.mounts, binfmt |-> <<>>, trusted |-> "", sshd |-> wake.sshd,
     networkd |-> IF <<"enabled">> \in DOMAIN files THEN <<NetFiles>> ELSE <<>>]
Steps == <<"hostname", "timezone", "locale", "users", "ca", "resize", "mounts", "rosetta", "networkd", "userdata">>

AgentInit ==
    /\ config \in Configs /\ \E g \in Guests : installed = g.programs /\ users = g.users
    /\ files = [p \in {} |-> <<>>] /\ kernel \in {Fresh(w) : w \in Wakes}
    /\ agent = NoPlan /\ ports = {} /\ server = NoServer /\ ran = <<>> /\ excuse = {}
    /\ count = [faults |-> 0, boots |-> 1, starts |-> 1]

-----------------------------------------------------------------------------
(* What the provisioners do: operations [op, at, to] *)

Op(op, at, to) == [op |-> op, at |-> at, to |-> to]
Write(path, content) == <<Op("write", path, content)>>
Run(op, at, to) == <<Op(op, at, to)>>
If(test, ops) == IF test THEN ops ELSE <<>>
Fails == <<Op("fail", None, None)>>

\* What may not be in a unit's name becomes a dash.
sanitize_unit_name(name) ==
    IF name = <<>> THEN <<"default">> ELSE [i \in DOMAIN name |-> IF name[i] \in Plain THEN name[i] ELSE "-"]

hostname(name) ==
    If(name # "", Write(<<"hostname">>, <<name>>) \o Run("sethostname", None, name)
                  \o If("hostnamectl" \in installed, Run("sethostname", None, name)))
timezone(zone) ==
    If(zone.name # "", Write(<<"timezone">>, <<zone.name>>)
                       \o If(zone.known, Run("remove", <<"localtime">>, None) \o Write(<<"localtime">>, <<zone.name>>)))
locale(name) == If(name # "", Write(<<"locale">>, <<name>>))

Entry(u, locked) == [uid |-> u.uid, gecos |-> u.gecos, home |-> u.home, shell |-> u.shell, locked |-> locked]
create_user(u) == Run("useradd", u.name, Entry(u, FALSE)) \o If(u.lock /\ "passwd" \in installed, Run("lock", u.name, TRUE))
reconcile_home(u) == Run("mkdir", u.home, None) \o If("chown" \in installed, Run("chown", u.home, u.name))
reconcile_password_lock(u) == If("passwd" \in installed, Run("lock", u.name, u.lock))
reconcile_existing_user(u, entry) ==
    IF entry.uid # u.uid THEN Fails
    ELSE If([entry EXCEPT !.locked = FALSE] # Entry(u, FALSE), Run("usermod", u.name, Entry(u, entry.locked)))
         \o reconcile_home(u) \o reconcile_password_lock(u)
\* read_user_entry: the first line of the file with the name.
Known(name) == name \in DOMAIN users
ensure_user(u) == IF Known(u.name) THEN reconcile_existing_user(u, users[u.name]) ELSE create_user(u)
install_authorized_keys(u) ==
    If(u.keys # <<>>, Run("mkdir", u.home, None) \o Write(<<"keys", u.home>>, u.keys)
                      \o If("chown" \in installed, Run("chown", u.home, u.uid)))
Sudoers(u) == <<"sudoers", sanitize_unit_name(u.name)>>
write_sudoers(u) == IF u.sudo = "" THEN Run("remove", Sudoers(u), None) ELSE Write(Sudoers(u), <<u.name, u.sudo>>)
apply_user(u) == ensure_user(u) \o install_authorized_keys(u) \o write_sudoers(u)

ca(authority) ==
    If(authority # None, Write(<<"ca">>, <<authority.pem>>) \o If(authority.trust, Run("trust", None, authority.pem)))

resize_plan(fstype) ==
    CASE fstype \in {"ext2", "ext3", "ext4"} -> "resize2fs" [] fstype = "btrfs" -> "btrfs" [] OTHER -> None
ensure_resize_command(program) == program \in installed
resize(enabled) ==
    If(enabled, IF "findmnt" \in installed /\ ensure_resize_command(resize_plan(RootType)) THEN Run("resize", None, None) ELSE Fails)

Top(target) == Last(kernel.mounts[target])
Mounted(target) == target \in DOMAIN kernel.mounts
current_mount(target) == IF "findmnt" \in installed /\ Mounted(target) THEN Top(target) ELSE None

\* Mutant: any mount at the target will do.
matches_any(current, mount) == TRUE
matches(current, mount) == current = [source |-> mount.tag, ro |-> mount.ro]

apply_mount(m) ==
    LET current == current_mount(m.path)
        mount == Run("mount", m.path, [source |-> m.tag, ro |-> m.ro])
    IN  Run("mkdir", m.path, None)
        \o IF current = None THEN mount
           ELSE If(~ matches(current, m), Run("umount", m.path, None) \o mount)

mount_if_needed(target, source) ==
    If(current_mount(target) = None, Run("mount", target, [source |-> source, ro |-> FALSE]))
unregister_existing_rosetta == If(kernel.binfmt # <<>>, Run("unregister", None, None))
register_rosetta(path) == Run("register", None, path)
rosetta(r) ==
    If(r # None, Run("mkdir", r.path, None) \o mount_if_needed(r.path, r.tag)
                 \o IF ~ r.binary THEN Fails
                    ELSE mount_if_needed("binfmt", "binfmt_misc") \o unregister_existing_rosetta \o register_rosetta(r.path))

render_network_file(i) ==
    <<IF i.driver # "" THEN i.driver ELSE "", IF i.mac # "" THEN i.mac ELSE "",
      IF i.driver = "" /\ i.mac = "" THEN i.label ELSE "",
      IF i.dhcp4 THEN IF i.dhcp6 THEN "yes" ELSE "ipv4" ELSE IF i.dhcp6 THEN "ipv6" ELSE "no">>
NetworkFile(i) == <<"net", sanitize_unit_name(i.name)>>
networkd(interfaces) ==
    FlattenSeq([k \in DOMAIN interfaces |-> Run("ensure", NetworkFile(interfaces[k]), render_network_file(interfaces[k]))])
    \o Run("sweep", None, {NetworkFile(interfaces[k]) : k \in DOMAIN interfaces})
    \o If("systemctl" \in installed, If(interfaces # <<>>, Write(<<"enabled">>, <<"yes">>)) \o Run("apply", None, interfaces # <<>>))

\* Mutant: the mark is set before the script runs.
userdata_early(u) ==
    IF u = None \/ u.content = "" THEN <<>>
    ELSE IF u.type # "shell" THEN Fails
    ELSE If(~ (u.once /\ Content(<<"hash">>) = <<u.content>>),
            Write(<<"script">>, <<u.content>>) \o Write(<<"hash">>, <<u.content>>) \o Run("script", None, u.content))

userdata(u) ==
    IF u = None \/ u.content = "" THEN <<>>
    ELSE IF u.type # "shell" THEN Fails
    ELSE If(~ (u.once /\ Content(<<"hash">>) = <<u.content>>),
            Write(<<"script">>, <<u.content>>) \o Run("script", None, u.content) \o Write(<<"hash">>, <<u.content>>))

\* The items of a provisioner, and the operations of an item.
Items(step) == CASE step = "users" -> config.users [] step = "mounts" -> config.mounts [] OTHER -> <<None>>
Operations(step, item) ==
    CASE step = "hostname" -> hostname(config.hostname) [] step = "timezone" -> timezone(config.timezone)
      [] step = "locale" -> locale(config.locale) [] step = "users" -> apply_user(item)
      [] step = "ca" -> ca(config.ca) [] step = "resize" -> resize(config.resize)
      [] step = "mounts" -> apply_mount(item) [] step = "rosetta" -> rosetta(config.rosetta)
      [] step = "networkd" -> networkd(config.interfaces) [] step = "userdata" -> userdata(config.userdata)

-----------------------------------------------------------------------------
(* Provisioning *)

Without(f, keys) == [k \in DOMAIN f \ keys |-> f[k]]
Differs(o) == Content(o.at) # o.to
Stale(keep) == DOMAIN NetFiles \ keep
Pushed(t, m) == IF Mounted(t) THEN [kernel.mounts EXCEPT ![t] = Append(@, m)] ELSE (t :> <<m>>) @@ kernel.mounts
Popped(t) == IF Len(kernel.mounts[t]) = 1 THEN Without(kernel.mounts, {t}) ELSE [kernel.mounts EXCEPT ![t] = Front(@)]

\* Mutant: the service is started, whatever changed.
Served_started(some) == IF some /\ kernel.networkd = <<>> THEN <<NetFiles>> ELSE kernel.networkd

\* systemctl restart after a change, systemctl start otherwise.
Served(some) ==
    IF agent.changed \/ (some /\ kernel.networkd = <<>>) THEN <<NetFiles>> ELSE kernel.networkd

\* Nobody else has the user's number.
CanDo(o) == o.op # "fail" /\ (o.op = "useradd" => \A n \in DOMAIN users : users[n].uid # o.to.uid)

Effect(o) ==
    /\ files' = CASE o.op \in {"write", "ensure"} -> (o.at :> o.to) @@ files
                  [] o.op = "remove" -> Without(files, {o.at})
                  [] o.op = "sweep" -> Without(files, Stale(o.to))
                  [] OTHER -> files
    /\ users' = CASE o.op \in {"useradd", "usermod"} -> (o.at :> o.to) @@ users
                  [] o.op = "lock" -> [users EXCEPT ![o.at].locked = o.to]
                  [] OTHER -> users
    /\ kernel' = CASE o.op = "sethostname" -> [kernel EXCEPT !.hostname = o.to]
                   [] o.op = "trust" -> [kernel EXCEPT !.trusted = o.to]
                   [] o.op = "mount" -> [kernel EXCEPT !.mounts = Pushed(o.at, o.to)]
                   [] o.op = "umount" -> [kernel EXCEPT !.mounts = Popped(o.at)]
                   [] o.op = "unregister" -> [kernel EXCEPT !.binfmt = <<>>]
                   [] o.op = "register" -> [kernel EXCEPT !.binfmt = <<o.to>>]
                   [] o.op = "apply" -> [kernel EXCEPT !.networkd = Served(o.to)]
                   [] OTHER -> kernel
    /\ ran' = IF o.op = "script" THEN Append(ran, o.to) ELSE ran

\* What the files are after an operation that did not come to its end: one is as before or empty, or some are gone.
Torn(o) ==
    CASE o.op = "write" \/ (o.op = "ensure" /\ Differs(o)) -> {files, (o.at :> <<>>) @@ files}
      [] o.op = "sweep" -> {Without(files, gone) : gone \in SUBSET Stale(o.to)}
      [] OTHER -> {files}

\* What an operation that is not done, or a death in its place, leaves for later: a script that ran without its
\* mark, or files that the service has not read.
Left(o, torn) ==
    excuse \cup (IF o.op = "write" /\ o.at = <<"hash">> THEN {"userdata"} ELSE {})
           \cup (IF Steps[agent.step] = "networkd" /\ (agent.changed \/ torn # files) THEN {"networkd"} ELSE {})

\* run_provisioning: the next item of the provisioner, or the next provisioner that has something to do.
Busy(k) == Items(Steps[k]) # <<>> /\ Operations(Steps[k], Items(Steps[k])[1]) # <<>>
Begun(k) ==
    [agent EXCEPT !.step = k, !.items = Tail(Items(Steps[k])), !.ops = Operations(Steps[k], Items(Steps[k])[1]), !.changed = FALSE]
NextStep ==
    /\ agent.pc = "provision" /\ agent.ops = <<>> /\ agent.items = <<>>
    /\ \E later \in {{k \in agent.step + 1 .. Len(Steps) : Busy(k)}} :
           agent' = IF later = {} THEN [agent EXCEPT !.pc = "ssh", !.changed = FALSE] ELSE Begun(Min(later))
    /\ UNCHANGED <<config, installed, files, users, kernel, ports, server, ran, excuse, count>>
NextItem ==
    /\ agent.pc = "provision" /\ agent.ops = <<>> /\ agent.items # <<>>
    /\ agent' = [agent EXCEPT !.ops = Operations(Steps[agent.step], Head(agent.items)), !.items = Tail(@)]
    /\ UNCHANGED <<config, installed, files, users, kernel, ports, server, ran, excuse, count>>
Perform ==
    /\ agent.pc = "provision" /\ agent.ops # <<>> /\ CanDo(Head(agent.ops))
    /\ Effect(Head(agent.ops))
    /\ agent' = [agent EXCEPT !.ops = Tail(@),
                              !.changed = \/ @
                                          \/ Head(agent.ops).op = "ensure" /\ Differs(Head(agent.ops))
                                          \/ Head(agent.ops).op = "sweep" /\ Stale(Head(agent.ops).to) # {}]
    /\ UNCHANGED <<config, installed, ports, server, excuse, count>>

\* ProvisionRun.step: the failure is recorded.
PerformFails ==
    /\ agent.pc = "provision" /\ agent.ops # <<>>
    /\ IF CanDo(Head(agent.ops)) THEN count.faults < MaxFaults /\ count' = [count EXCEPT !.faults = @ + 1] ELSE UNCHANGED count
    /\ files' \in Torn(Head(agent.ops))
    /\ excuse' = Left(Head(agent.ops), files')
    /\ agent' = [agent EXCEPT !.ops = <<>>, !.failed = @ \cup {Steps[agent.step]}]
    /\ UNCHANGED <<config, installed, users, kernel, ports, server, ran>>

-----------------------------------------------------------------------------
(* The agent *)

Goes(pc) == agent' = [agent EXCEPT !.pc = pc]
Exits == Goes("failed") /\ ports' = {} /\ server' = NoServer
Stays == UNCHANGED <<config, installed, files, users, ran, excuse>>
Fault == count.faults < MaxFaults /\ count' = [count EXCEPT !.faults = @ + 1]

\* The host answers with the configuration, or it cannot be reached.
GetMetadata ==
    /\ agent.pc = "connect"
    /\ \/ /\ agent' = IF config.enabled THEN [agent EXCEPT !.pc = "provision"] ELSE [agent EXCEPT !.pc = "ssh"]
          /\ UNCHANGED <<count, ports, server>>
       \/ Fault /\ Exits
    /\ Stays /\ UNCHANGED kernel

\* What becomes of /run/sshd: None when it is not to be used.
assess_sshd_runtime_dir(dir) ==
    IF dir.kind # "directory" \/ dir.uid # 0 \/ dir.gid # 0 \/ dir.writable THEN None ELSE [dir EXCEPT !.mode = 755]
ensure_sshd_runtime_dir ==
    IF kernel.sshd.kind = "missing" THEN [kind |-> "directory", uid |-> 0, gid |-> 0, writable |-> FALSE, mode |-> 755]
    ELSE assess_sshd_runtime_dir(kernel.sshd)

\* A port that is in use is left to whoever uses it.  The server takes connections at once, before it is known
\* whether sshd has its directory.
ListenSsh ==
    /\ agent.pc = "ssh"
    /\ \/ ports' = ports \cup {"ssh"} /\ Goes("sshdir") /\ UNCHANGED <<count, server>>
       \/ ports' = ports \cup {"other"} /\ Goes("forward") /\ Fault /\ UNCHANGED server
       \/ Fault /\ Exits
    /\ Stays /\ UNCHANGED kernel
PrepareSshDir ==
    /\ agent.pc = "sshdir"
    /\ \/ /\ ensure_sshd_runtime_dir # None /\ kernel' = [kernel EXCEPT !.sshd = ensure_sshd_runtime_dir]
          /\ Goes("forward") /\ UNCHANGED <<ports, server, count>>
       \/ ensure_sshd_runtime_dir = None /\ Exits /\ UNCHANGED <<count, kernel>>
       \/ Fault /\ Exits /\ UNCHANGED kernel
    /\ Stays

ListenForward ==
    /\ agent.pc = "forward"
    /\ \/ ~ config.forward.enabled /\ Goes("register") /\ UNCHANGED <<ports, server, count>>
       \/ /\ config.forward.enabled /\ config.forward.port # 0
          /\ ports' = ports \cup {"forward"} /\ Goes("register") /\ UNCHANGED <<server, count>>
       \/ config.forward.enabled /\ config.forward.port = 0 /\ Exits /\ UNCHANGED count
       \/ config.forward.enabled /\ config.forward.port # 0 /\ Fault /\ Exits
    /\ Stays /\ UNCHANGED kernel

register ==
    /\ agent.pc = "register"
    /\ (Goes("serving") /\ UNCHANGED <<ports, server, count>>) \/ (Fault /\ Exits)
    /\ Stays /\ UNCHANGED kernel

\* systemd: Restart=on-failure.
Restart ==
    /\ agent.pc = "failed" /\ count.starts < MaxStarts
    /\ agent' = NoPlan /\ count' = [count EXCEPT !.starts = @ + 1]
    /\ Stays /\ UNCHANGED <<kernel, ports, server>>

\* The agent dies in the middle of whatever it does.
Cut ==
    IF agent.pc = "provision" /\ agent.ops # <<>>
    THEN files' \in Torn(Head(agent.ops)) /\ excuse' = Left(Head(agent.ops), files')
    ELSE UNCHANGED <<files, excuse>>
Killed ==
    /\ agent.pc # "failed" /\ Fault
    /\ Cut /\ Exits
    /\ UNCHANGED <<config, installed, users, kernel, ran>>

\* The machine goes down and comes up again.
Reboot ==
    /\ count.boots < MaxBoots
    /\ count' = [count EXCEPT !.boots = @ + 1, !.starts = 1]
    /\ config' \in Configs /\ agent' = NoPlan /\ ports' = {} /\ server' = NoServer
    /\ (IF agent.pc = "provision" /\ agent.ops # <<>> THEN files' \in Torn(Head(agent.ops)) ELSE UNCHANGED files)
    /\ excuse' = (IF agent.pc = "provision" /\ agent.ops # <<>> THEN Left(Head(agent.ops), files) ELSE excuse) \ {"networkd"}
    /\ kernel' \in {[Fresh(w) EXCEPT !.networkd = IF <<"enabled">> \in DOMAIN files' THEN <<NetFiles'>> ELSE <<>>] : w \in Wakes}
    /\ UNCHANGED <<installed, users, ran>>

-----------------------------------------------------------------------------
(* The ssh server: a connection that was accepted waits for a permit, and the next for it *)

Connects ==
    /\ "ssh" \in ports /\ server.backlog < MaxConnections
    /\ server' = [server EXCEPT !.backlog = @ + 1]
    /\ Stays /\ UNCHANGED <<kernel, agent, ports, count>>
Accepts ==
    /\ server.backlog > 0 /\ ~ server.held
    /\ server' = [server EXCEPT !.backlog = @ - 1, !.held = TRUE]
    /\ Stays /\ UNCHANGED <<kernel, agent, ports, count>>
Permitted ==
    /\ server.held /\ server.active < Concurrency
    /\ server' = [server EXCEPT !.held = FALSE, !.active = @ + 1]
    /\ Stays /\ UNCHANGED <<kernel, agent, ports, count>>

\* sshd is done, or could not be started.
handle_ssh_connection ==
    /\ server.active > 0
    /\ server' = [server EXCEPT !.active = @ - 1]
    /\ Stays /\ UNCHANGED <<kernel, agent, ports, count>>

AgentNext ==
    \/ NextStep \/ NextItem \/ Perform \/ PerformFails
    \/ GetMetadata \/ ListenSsh \/ PrepareSshDir \/ ListenForward \/ register \/ Restart \/ Killed \/ Reboot
    \/ Connects \/ Accepts \/ Permitted \/ handle_ssh_connection

AgentSpec == AgentInit /\ [][AgentNext]_agentVars

-----------------------------------------------------------------------------
(* Properties *)

AgentTypeOK ==
    /\ agent.pc \in {"connect", "provision", "ssh", "sshdir", "forward", "register", "serving", "failed"}
    /\ agent.failed \subseteq Range(Steps) /\ ports \subseteq {"ssh", "other", "forward"}
    /\ server.backlog \in 0 .. MaxConnections /\ server.active \in 0 .. Concurrency
    /\ \A t \in DOMAIN kernel.mounts : kernel.mounts[t] # <<>>

HasUser(u) ==
    /\ u.name \in DOMAIN users
    /\ [users[u.name] EXCEPT !.locked = FALSE] = Entry(u, FALSE)
    /\ "passwd" \in installed => users[u.name].locked = u.lock
    /\ u.keys # <<>> => Content(<<"keys", u.home>>) = u.keys
    /\ \E v \in Range(config.users) : Sudoers(v) = Sudoers(u) /\ Content(Sudoers(u)) = IF v.sudo = "" THEN None ELSE <<v.name, v.sudo>>

\* Two interfaces whose names make the same unit share the file: the last one has it.
HasNetwork ==
    /\ DOMAIN NetFiles = {NetworkFile(i) : i \in Range(config.interfaces)}
    /\ \A p \in DOMAIN NetFiles : \E i \in Range(config.interfaces) : NetworkFile(i) = p /\ NetFiles[p] = render_network_file(i)
    /\ "systemctl" \in installed /\ config.interfaces # <<>> => kernel.networkd = <<NetFiles>> \/ "networkd" \in excuse

Holds(step) ==
    CASE step = "hostname" -> config.hostname # "" => Content(<<"hostname">>) = <<config.hostname>> /\ kernel.hostname = config.hostname
      [] step = "timezone" -> /\ config.timezone.name # "" => Content(<<"timezone">>) = <<config.timezone.name>>
                              /\ config.timezone.known => Content(<<"localtime">>) = <<config.timezone.name>>
      [] step = "locale" -> config.locale # "" => Content(<<"locale">>) = <<config.locale>>
      [] step = "users" -> \A u \in Range(config.users) : HasUser(u)
      [] step = "ca" -> config.ca # None => /\ Content(<<"ca">>) = <<config.ca.pem>>
                                            /\ config.ca.trust => kernel.trusted = config.ca.pem
      [] step = "mounts" -> \A m \in Range(config.mounts) :
                                /\ Mounted(m.path) /\ Top(m.path) = [source |-> m.tag, ro |-> m.ro]
                                /\ Len(kernel.mounts[m.path]) <= IF "findmnt" \in installed THEN 1 ELSE 1 + count.starts
      [] step = "rosetta" -> config.rosetta # None => kernel.binfmt = <<config.rosetta.path>> /\ Mounted(config.rosetta.path)
      [] step = "networkd" -> HasNetwork
      [] step = "userdata" -> config.userdata # None => config.userdata.content = "" \/ (ran # <<>> /\ Last(ran) = config.userdata.content)
      [] OTHER -> TRUE

\* Once the provisioners are through, the guest is what the host asked for, but for those that said they
\* failed: whatever failed, died or was cut off in this boot or before, and whatever an earlier configuration
\* left.  Only a service whose files changed without a restart may go on with the old ones.
GuestIsAsAsked ==
    agent.pc \in {"ssh", "sshdir", "forward", "register", "serving"} /\ config.enabled =>
        \A step \in Range(Steps) \ agent.failed : Holds(step)

\* A script that is to run once runs again without another in between only when its mark was not written.
OnceIsOnce ==
    \A i \in 1 .. Len(ran) - 1 :
        ran[i] = ran[i + 1] =>
            "userdata" \in excuse \/ \E c \in Configs : c.userdata # None /\ c.userdata.content = ran[i] /\ ~ c.userdata.once

\* A guest that has registered can be reached: somebody listens for ssh, and the agent for what is forwarded.
RegisteredIsReachable ==
    agent.pc = "serving" =>
        /\ ports \cap {"ssh", "other"} # {}
        /\ config.forward.enabled => "forward" \in ports
        /\ "ssh" \in ports => kernel.sshd.kind = "directory" /\ kernel.sshd.uid = 0 /\ ~ kernel.sshd.writable /\ kernel.sshd.mode = 755

=============================================================================
