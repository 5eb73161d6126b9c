----------------------------- MODULE VmMonitor -----------------------------
(***************************************************************************)
(* The services of one vmmon from the moment its virtual machine runs      *)
(* (vmmon/src/{state,guest,services,shutdown}.rs and net/): the instance   *)
(* store and its broadcast bus, the guest control server with its          *)
(* registration timeout, the control socket, and the orderly shutdown.     *)
(* The tasks run on several threads.  Dispatching an action is two steps,  *)
(* because the store's mutex is released before the event is published:    *)
(* pub[t] is the event that task t has reduced and not yet published.      *)
(***************************************************************************)
EXTENDS Integers, Sequences, Options

CONSTANTS
    Clients,         \* connections to the control socket
    Registrations,   \* register calls of the guest agent
    BusCapacity      \* events the bus keeps for a slow receiver (256 in the code)

VARIABLES
    mode,      \* "none", "nowait" or "wait": guest services, and the wait for registration
    store,     \* the InstanceState: lifecycle state of the vm and of the guest
    pub,       \* what each task still has to publish
    main,      \* how far start_services and shutdown::run are
    shutdown,  \* the cancellation token
    guest,     \* the guest services task
    ready,     \* the flag shared by register and the timeout
    timeout,   \* the readiness timeout task
    reg,       \* the register handlers
    socket,    \* the accept loop of the control socket
    cl         \* the connections and the clients behind them

vars == <<mode, store, pub, main, shutdown, guest, ready, timeout, reg, socket, cl>>
dispatched == <<store, pub>>
guestVars == <<guest, ready, timeout, reg>>
hostVars == <<main, shutdown, mode>>

-----------------------------------------------------------------------------
Tasks == {"main", "guest", "timeout"} \cup Registrations

VmStates == {"starting", "running", "stopping", "stopped"}
GuestStates == {"unspecified", "starting", "running", "error"}

StatusUpdate == [source: {"vm"}, state: VmStates] \cup [source: {"guest"}, state: GuestStates]

ASSUME MonitorAssumption ==
    /\ BusCapacity \in Nat \ {0}
    /\ Registrations \cap {"main", "guest", "timeout"} = {}
    /\ None \notin StatusUpdate /\ None \notin VmStates

Places == {"idle", "queued", "handshake", "ping", "shell", "watch", "subscribe", "stream", "ok", "err"}

\* snapshot and inbox: events not yet received, of the snapshot and of the subscription;
\* lagged: the bus dropped some; ran: the vm was seen running; told: the last vm state seen;
\* gap: something was published between the snapshot and the subscription.
Client == [pc: Places, snapshot: Seq(StatusUpdate), inbox: Seq(StatusUpdate), lagged: BOOLEAN,
           ran: BOOLEAN, told: VmStates \cup {None}, gap: BOOLEAN]

NoClient == [pc |-> "idle", snapshot |-> <<>>, inbox |-> <<>>, lagged |-> FALSE,
             ran |-> FALSE, told |-> None, gap |-> FALSE]

-----------------------------------------------------------------------------
(* The store *)

Update(source, state) == [source |-> source, state |-> state]

\* Mutant: a transition of the vm is reduced into the state of the guest.
reduce_instance_state_crossed(e) == [store EXCEPT !.guest = e.state]

reduce_instance_state(e) == [store EXCEPT ![e.source] = e.state]

\* Mutant: nobody is told that the machine is being stopped.
project_status_update_quiet(e) == IF e.state = "stopping" THEN None ELSE e

project_status_update(e) == e

\* Store::dispatch: the state changes under the mutex, ...
dispatch(t, e) ==
    /\ pub[t] = None
    /\ store' = reduce_instance_state(e)
    /\ pub' = [pub EXCEPT ![t] = project_status_update(e)]

\* What a published event does to a receiver; Bus::publish drops the oldest when it is full.
Delivered(r, e) ==
    CASE r.pc = "subscribe" -> [r EXCEPT !.gap = TRUE]
      [] r.pc = "stream" /\ ~ r.lagged ->
           IF Len(r.inbox) < BusCapacity THEN [r EXCEPT !.inbox = Append(@, e)]
           ELSE [r EXCEPT !.inbox = <<>>, !.lagged = TRUE]
      [] OTHER -> r

\* ... the event follows without it.
publish(t) ==
    /\ pub[t] # None /\ main # "exited"
    /\ cl' = [c \in Clients |-> Delivered(cl[c], pub[t])]
    /\ pub' = [pub EXCEPT ![t] = None]
    /\ UNCHANGED <<store, hostVars, guestVars, socket>>

select_current_events ==
    <<Update("vm", store.vm)>>
      \o IF store.guest # "unspecified" THEN <<Update("guest", store.guest)>> ELSE <<>>

guest_shell_ready == store.guest = "running"
select_current_ping == store.vm = "running" /\ guest_shell_ready

-----------------------------------------------------------------------------
(* start_services, in the main task *)

Main(from, to) == main = from /\ pub["main"] = None /\ main' = to /\ UNCHANGED mode

Bind ==
    /\ \/ Main("bind", "announce") /\ socket' = "accept"
       \/ Main("bind", "failed") /\ UNCHANGED socket
    /\ UNCHANGED <<dispatched, shutdown, guestVars, cl>>

\* Mutant: the guest counts as running before it has registered.
Announce_running ==
    /\ Main("announce", IF mode = "none" THEN "report" ELSE "spawn")
    /\ dispatch("main", Update("guest", "running"))
    /\ UNCHANGED <<shutdown, guestVars, socket, cl>>

\* Without guest services, or without a wait for them, the guest counts as running.
Announce ==
    /\ Main("announce", IF mode = "none" THEN "report" ELSE "spawn")
    /\ dispatch("main", Update("guest", IF mode = "wait" THEN "starting" ELSE "running"))
    /\ UNCHANGED <<shutdown, guestVars, socket, cl>>

spawn_guest_services ==
    /\ \/ /\ Main("spawn", "report")
          /\ guest' = "serving"
          /\ timeout' = IF mode = "wait" THEN "sleeping" ELSE "none"
       \/ Main("spawn", "failed") /\ UNCHANGED <<guest, timeout>>
    /\ UNCHANGED <<dispatched, shutdown, ready, reg, socket, cl>>

report_started ==
    /\ Main("report", "serve") \/ Main("report", "failed")
    /\ UNCHANGED <<dispatched, shutdown, guestVars, socket, cl>>

-----------------------------------------------------------------------------
(* shutdown::run *)

\* A signal, or the machine stopped by itself; waiting for it may also fail.
SignalReceived ==
    /\ Main("serve", "cancel")
    /\ dispatch("main", Update("vm", "stopping"))
    /\ UNCHANGED <<shutdown, guestVars, socket, cl>>

MachineExited ==
    /\ \/ Main("serve", "cancel") /\ dispatch("main", Update("vm", "stopped"))
       \/ Main("serve", "failed") /\ UNCHANGED dispatched
    /\ UNCHANGED <<shutdown, guestVars, socket, cl>>

Cancel ==
    /\ Main("cancel", IF store.vm = "stopping" THEN "stopping" ELSE "drain")
    /\ shutdown' = TRUE
    /\ UNCHANGED <<dispatched, guestVars, socket, cl>>

\* The machine stops, a second signal forces the exit, or stopping fails or takes longer
\* than VM_STOP_TIMEOUT, which skips the drain.
graceful_stop ==
    /\ \/ Main("stopping", "drain") /\ dispatch("main", Update("vm", "stopped"))
       \/ Main("stopping", "drain") /\ UNCHANGED dispatched
       \/ Main("stopping", "failed") /\ UNCHANGED dispatched
    /\ UNCHANGED <<shutdown, guestVars, socket, cl>>

\* The tasks are awaited one after the other.
drain ==
    /\ \/ Main("drain", "drainsocket") /\ guest \in {"none", "done"} /\ pub["guest"] = None
       \/ Main("drainsocket", "done") /\ socket = "done"
    /\ UNCHANGED <<dispatched, shutdown, guestVars, socket, cl>>

\* With the process go its connections and whatever still runs.
ProcessExits ==
    /\ Main("done", "exited") \/ Main("failed", "exited")
    /\ cl' = [c \in Clients |-> IF cl[c].pc \in {"idle", "ok", "err"} THEN cl[c]
                                ELSE [NoClient EXCEPT !.pc = "err"]]
    /\ UNCHANGED <<dispatched, shutdown, guestVars, socket>>

MainStep ==
    \/ Bind \/ Announce \/ spawn_guest_services \/ report_started
    \/ Cancel \/ graceful_stop \/ drain \/ ProcessExits

-----------------------------------------------------------------------------
(* The guest services task, its handlers and the timeout *)

Up == main # "exited" /\ UNCHANGED <<hostVars, socket, cl>>

\* register: first the store, then the flag, then the answer.
register(r) ==
    /\ Up
    /\ \/ /\ reg[r] = "idle" /\ guest = "serving"
          /\ dispatch(r, Update("guest", "running"))
          /\ reg' = [reg EXCEPT ![r] = "flag"] /\ UNCHANGED ready
       \/ /\ reg[r] = "flag" /\ pub[r] = None
          /\ ready' = TRUE
          /\ reg' = [reg EXCEPT ![r] = "done"] /\ UNCHANGED dispatched
    /\ UNCHANGED <<guest, timeout>>

\* abort takes effect only while the task sleeps.
Aborted == IF timeout = "sleeping" THEN "done" ELSE timeout

\* After the cancellation the server lets the calls in progress finish.
GuestServerStops ==
    /\ Up /\ guest = "serving" /\ shutdown
    /\ \A r \in Registrations : reg[r] # "flag"
    /\ guest' = "done" /\ timeout' = Aborted
    /\ UNCHANGED <<dispatched, ready, reg>>

GuestServerFails ==
    /\ Up /\ guest = "serving"
    /\ dispatch("guest", Update("guest", "error"))
    /\ guest' = "done" /\ timeout' = Aborted
    /\ UNCHANGED <<ready, reg>>

\* The flag is read, and the error dispatched, in two steps.
spawn_readiness_timeout ==
    /\ Up
    /\ \/ timeout = "sleeping" /\ shutdown /\ timeout' = "done" /\ UNCHANGED dispatched
       \/ timeout = "sleeping" /\ timeout' = (IF ready THEN "done" ELSE "late") /\ UNCHANGED dispatched
       \/ timeout = "late" /\ timeout' = "done" /\ dispatch("timeout", Update("guest", "error"))
    /\ UNCHANGED <<guest, ready, reg>>

-----------------------------------------------------------------------------
(* The control socket and its clients *)

At(c, place) == cl[c].pc = place /\ main # "exited"

Goto(c, place) ==
    cl' = [cl EXCEPT ![c] = IF place \in {"ok", "err"} THEN [NoClient EXCEPT !.pc = place]
                            ELSE [@ EXCEPT !.pc = place]]

Step(c, from, to) == At(c, from) /\ Goto(c, to)

daemonVars == <<dispatched, hostVars, guestVars>>

Connect(c) ==
    /\ Step(c, "idle", "queued") /\ socket \in {"accept", "handshake"}
    /\ UNCHANGED <<daemonVars, socket>>

\* One handshake at a time.
Accept(c) ==
    /\ Step(c, "queued", "handshake") /\ socket = "accept"
    /\ socket' = "handshake"
    /\ UNCHANGED daemonVars

\* Mutant: the accept loop waits for the request as long as it takes.
HandshakeTimeout_never(c) == FALSE /\ UNCHANGED vars

\* The request is missing after HANDSHAKE_TIMEOUT, unreadable, or of another version or user.
HandshakeTimeout(c) ==
    /\ Step(c, "handshake", "err")
    /\ socket' = "accept"
    /\ UNCHANGED daemonVars

\* upgrade_rejection: a shell is refused until the guest is ready.
Negotiated(c, upgrade) ==
    /\ Step(c, "handshake", IF upgrade = "shell" /\ ~ guest_shell_ready THEN "err" ELSE upgrade)
    /\ socket' = "accept"
    /\ UNCHANGED daemonVars

\* Between handshakes the loop looks at the token; what is still queued is refused.
SocketShutdown ==
    /\ main # "exited" /\ socket = "accept" /\ shutdown
    /\ socket' = "done"
    /\ cl' = [c \in Clients |-> IF cl[c].pc = "queued" THEN [NoClient EXCEPT !.pc = "err"] ELSE cl[c]]
    /\ UNCHANGED daemonVars

\* ping and inspect; wait_for_shell_with_timeout pings until the answer is yes or time is up.
ping(c) ==
    /\ \/ select_current_ping /\ Step(c, "ping", "ok")
       \/ ~ select_current_ping /\ (Step(c, "ping", "idle") \/ Step(c, "ping", "err"))
    /\ UNCHANGED <<daemonVars, socket>>

\* The readiness is looked up again; connecting to the guest may fail.
Shell(c) ==
    /\ \/ guest_shell_ready /\ Step(c, "shell", "ok")
       \/ Step(c, "shell", "err")
    /\ UNCHANGED <<daemonVars, socket>>

\* watch_status: the snapshot, and then the subscription.
watch_status(c) ==
    /\ \/ /\ At(c, "watch")
          /\ cl' = [cl EXCEPT ![c] = [@ EXCEPT !.pc = "subscribe", !.snapshot = select_current_events]]
       \/ Step(c, "subscribe", "stream")
    /\ UNCHANGED <<daemonVars, socket>>

\* The client's answer to an update: wait_for_guest_running returns or goes on.
Verdict(ran, e) ==
    CASE e.source = "vm" /\ e.state = "stopped"    -> "err"
      [] e.source = "guest" /\ e.state = "running" -> IF ran THEN "ok" ELSE "err"
      [] e.source = "guest" /\ e.state = "error"   -> "err"
      [] OTHER -> "stream"

\* The client ends, or remembers what it was told.
Received(c, e, rest) ==
    LET pc == Verdict(rest.ran, e)
    IN  cl' = [cl EXCEPT ![c] =
                 IF pc # "stream" THEN [NoClient EXCEPT !.pc = pc]
                 ELSE [rest EXCEPT !.ran = @ \/ e = Update("vm", "running"),
                                   !.told = IF e.source = "vm" THEN e.state ELSE @]]

\* wait_for_guest_running: the snapshot's events, then the bus; a lag is an error.
wait_for_guest_running(c) ==
    /\ At(c, "stream")
    /\ \/ /\ cl[c].snapshot # <<>>
          /\ Received(c, Head(cl[c].snapshot), [cl[c] EXCEPT !.snapshot = Tail(@)])
       \/ /\ cl[c].snapshot = <<>> /\ cl[c].inbox # <<>>
          /\ Received(c, Head(cl[c].inbox), [cl[c] EXCEPT !.inbox = Tail(@)])
       \/ cl[c].snapshot = <<>> /\ cl[c].lagged /\ Goto(c, "err")
    /\ UNCHANGED <<daemonVars, socket>>

ClientTimeout(c) ==
    /\ Step(c, "stream", "err")
    /\ UNCHANGED <<daemonVars, socket>>

-----------------------------------------------------------------------------
\* startup::init has dispatched vm_starting and vm_running while nobody could listen.
Init ==
    /\ mode \in {"none", "nowait", "wait"}
    /\ store = [vm |-> "running", guest |-> "unspecified"]
    /\ pub = [t \in Tasks |-> None]
    /\ main = "bind" /\ shutdown = FALSE
    /\ guest = "none" /\ ready = FALSE /\ timeout = "none"
    /\ reg = [r \in Registrations |-> "idle"]
    /\ socket = "none" /\ cl = [c \in Clients |-> NoClient]

GuestStep == GuestServerStops \/ GuestServerFails \/ spawn_readiness_timeout

Handler(c) == ping(c) \/ Shell(c) \/ watch_status(c) \/ wait_for_guest_running(c)

Next ==
    \/ MainStep \/ SignalReceived \/ MachineExited
    \/ \E t \in Tasks : publish(t)
    \/ GuestStep
    \/ \E r \in Registrations : register(r)
    \/ SocketShutdown
    \/ \E c \in Clients : \/ Connect(c) \/ Accept(c) \/ HandshakeTimeout(c)
                          \/ \E upgrade \in {"ping", "shell", "watch"} : Negotiated(c, upgrade)
                          \/ Handler(c) \/ ClientTimeout(c)

Spec == Init /\ [][Next]_vars

\* Every task runs on when it can, timers go off, and select! picks among ready branches at
\* random, so the loop of the control socket cannot overlook the cancellation for ever.
Fairness ==
    /\ WF_vars(MainStep) /\ WF_vars(GuestServerStops) /\ WF_vars(spawn_readiness_timeout)
    /\ \A t \in Tasks : WF_vars(publish(t))
    /\ \A r \in Registrations : WF_vars(reg[r] = "flag" /\ register(r))
    /\ SF_vars(SocketShutdown)
    /\ \A c \in Clients : WF_vars(HandshakeTimeout(c)) /\ WF_vars(Handler(c))

FairSpec == Spec /\ Fairness

-----------------------------------------------------------------------------
(* Properties *)

\* Type invariant of the store, the bus, the tasks and the connections.
TypeOK ==
    /\ mode \in {"none", "nowait", "wait"}
    /\ store \in [vm: VmStates, guest: GuestStates]
    /\ pub \in [Tasks -> StatusUpdate \cup {None}]
    /\ main \in {"bind", "announce", "spawn", "report", "serve", "cancel", "stopping", "drain",
                 "drainsocket", "done", "failed", "exited"}
    /\ shutdown \in BOOLEAN /\ ready \in BOOLEAN
    /\ guest \in {"none", "serving", "done"} /\ timeout \in {"none", "sleeping", "late", "done"}
    /\ reg \in [Registrations -> {"idle", "flag", "done"}]
    /\ socket \in {"none", "accept", "handshake", "done"} /\ cl \in [Clients -> Client]

\* A client that is told the guest is ready, by wait_for_guest_running, by a ping or by a
\* shell connection, is told so after the guest agent has registered, unless the machine
\* was started without waiting for it.
ReadyIsEarned ==
    (\E c \in Clients : cl[c].pc = "ok") /\ mode = "wait" => \E r \in Registrations : reg[r] # "idle"

\* A client that has received everything and still waits has been told the vm state of the
\* store, and has nothing more to learn from it about the guest, unless an event was
\* published between its snapshot and its subscription: watch_status loses updates in that
\* window, and a client that falls behind is told so; nothing else is lost.
StreamIsComplete ==
    \A c \in Clients :
        /\ cl[c].pc = "stream" /\ cl[c].snapshot = <<>> /\ cl[c].inbox = <<>>
        /\ ~ cl[c].lagged /\ ~ cl[c].gap
        /\ \A t \in Tasks : pub[t] = None
        => cl[c].told = store.vm /\ store.guest \in {"unspecified", "starting"}

\* A cancelled monitor comes to its end: no task that drain awaits waits for a client, a
\* guest or another task that does not come.
ShutdownCompletes == shutdown ~> main = "exited"
=============================================================================
