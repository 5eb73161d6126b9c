---------------------------- MODULE ForwardPlugin ----------------------------
(***************************************************************************)
(* The forward plugin (plugins/src/bin/forward.rs) and the service of the  *)
(* guest agent that it talks to (guest/agent/src/forward.rs).  The plugin  *)
(* listens on the ports of the host that its configuration names; with     *)
(* auto_discover it also asks the guest, every two seconds, which ports    *)
(* the guest has opened since the agent began, and listens on the same     *)
(* ports of the host while they stay open.  A socket mapping (uds) behaves *)
(* like a port mapping whose host side is always free.                     *)
(***************************************************************************)
EXTENDS Integers, Options

CONSTANTS
    HostPorts,     \* the port numbers of the model
    Low,           \* those below MIN_DISCOVER_PORT
    Mapping,       \* the configured host ports, with their guest port
    Clients,       \* connections made to the host
    MaxChanges     \* bound on what the guest and other programs of the host do

VARIABLES
    guestOpen,     \* ports the guest listens on
    baseline,      \* those it listened on when the agent began
    hostTaken,     \* ports other programs of the host listen on
    changes,
    discover,      \* the loop of the plugin: where it is and what it was told
    dynamic,       \* dynamic_listeners: port -> "live", "dead" or None
    closing,       \* aborted listeners whose socket is still open
    conn           \* connections and what became of them

\* No listener is not a state of a listener.
ASSUME ForwardAssumption == None \notin {"live", "dead"}

forwardVars == <<guestOpen, baseline, hostTaken, changes, discover, dynamic, closing, conn>>
surroundings == <<guestOpen, baseline, hostTaken, changes>>

StaticPorts == DOMAIN Mapping
Unlistened == [p \in HostPorts |-> None]
Listening == {p \in HostPorts : dynamic[p] # None}

\* Mutant: the own listeners that are being taken down do not count.
Bound_elsewhere(p) == p \in hostTaken \/ p \in StaticPorts \/ dynamic[p] = "live"

\* bind fails while anybody listens on the port.
Bound(p) == p \in hostTaken \/ p \in StaticPorts \/ dynamic[p] = "live" \/ p \in closing

-----------------------------------------------------------------------------
(* The guest agent *)

\* Mutant: the ports of the image's own services are reported as well.
discover_promoted_tcp_ports_all == guestOpen \ Low

discover_promoted_tcp_ports == (guestOpen \ baseline) \ Low

-----------------------------------------------------------------------------
(* The plugin *)

\* run binds the configured ports; one that is taken makes the plugin fail.
run ==
    /\ discover.pc = "start"
    /\ \/ StaticPorts \cap hostTaken = {} /\ discover' = [discover EXCEPT !.pc = "list"]
       \/ discover' = [discover EXCEPT !.pc = "failed"]
    /\ UNCHANGED <<surroundings, dynamic, closing, conn>>

\* The agent looks at its ports when the request arrives; the plugin acts on what it saw
\* later.
list_tcp_ports ==
    /\ discover.pc = "list"
    /\ discover' = [pc |-> "sync", told |-> discover_promoted_tcp_ports]
    /\ UNCHANGED <<surroundings, dynamic, closing, conn>>

\* No stream to the guest, or an error instead of an answer, ends the plugin.
list_tcp_ports_fails ==
    /\ discover.pc = "list"
    /\ discover' = [discover EXCEPT !.pc = "failed"]
    /\ UNCHANGED <<surroundings, dynamic, closing, conn>>

\* Mutant: a listener is kept when its port is gone from the guest.
run_auto_discover_keeps ==
    /\ discover.pc = "sync"
    /\ LET desired == discover.told \ StaticPorts
       IN  dynamic' = [p \in HostPorts |->
               IF p \in desired \ Listening /\ ~ Bound(p) THEN "live" ELSE dynamic[p]]
    /\ discover' = [discover EXCEPT !.pc = "sleep"]
    /\ UNCHANGED <<surroundings, closing, conn>>

\* New ports are bound where the host lets it, the others are tried again at the next
\* round; listeners of ports that are gone are aborted.
run_auto_discover ==
    /\ discover.pc = "sync"
    /\ LET desired == discover.told \ StaticPorts
           stale == Listening \ desired
       IN  /\ dynamic' = [p \in HostPorts |->
                 IF p \in stale THEN None
                 ELSE IF p \in desired \ Listening /\ ~ Bound(p) THEN "live"
                 ELSE dynamic[p]]
           /\ closing' = closing \cup {p \in stale : dynamic[p] = "live"}
    /\ discover' = [discover EXCEPT !.pc = "sleep"]
    /\ UNCHANGED <<surroundings, conn>>

\* Mutant: the guest is asked once, before the loop.
Wake_unasked ==
    /\ discover.pc = "sleep"
    /\ discover' = [discover EXCEPT !.pc = "sync"]
    /\ UNCHANGED <<surroundings, dynamic, closing, conn>>

Wake ==
    /\ discover.pc = "sleep"
    /\ discover' = [pc |-> "list", told |-> {}]
    /\ UNCHANGED <<surroundings, dynamic, closing, conn>>

\* An aborted task is dropped with its socket.
ListenerDropped(p) ==
    /\ p \in closing
    /\ closing' = closing \ {p}
    /\ UNCHANGED <<surroundings, discover, dynamic, conn>>

\* accept fails: the task of the listener returns, and its entry stays.
AcceptFails(p) ==
    /\ dynamic[p] = "live"
    /\ dynamic' = [dynamic EXCEPT ![p] = "dead"]
    /\ UNCHANGED <<surroundings, discover, closing, conn>>

\* The process ends with all its tasks and the supervisor starts it again.
Restart ==
    /\ discover.pc = "failed"
    /\ discover' = [pc |-> "start", told |-> {}]
    /\ dynamic' = Unlistened /\ closing' = {}
    /\ conn' = [c \in Clients |-> IF conn[c].at \in {"idle", "closed"} THEN conn[c]
                                  ELSE [conn[c] EXCEPT !.at = "closed"]]
    /\ UNCHANGED surroundings

-----------------------------------------------------------------------------
(* Connections *)

\* Mutant: the host port is sent to the guest.
guest_port_same(p) == p

\* The port of the guest that a listener of the host stands for.
guest_port(p) == IF p \in StaticPorts THEN Mapping[p] ELSE p

Accepting(p) == discover.pc \notin {"start", "failed"} /\ (p \in StaticPorts \/ dynamic[p] = "live")

\* A connection is a task of its own, which outlives its listener.
accept_tcp(c, p) ==
    /\ conn[c].at = "idle" /\ Accepting(p)
    /\ conn' = [conn EXCEPT ![c] = [at |-> "proxy", host |-> p, guest |-> None]]
    /\ UNCHANGED <<surroundings, discover, dynamic, closing>>

\* proxy_tcp asks for a stream and names the guest port on it; handle_connection connects.
proxy_tcp(c) ==
    /\ conn[c].at = "proxy" /\ discover.pc \notin {"start", "failed"}
    /\ \/ /\ guest_port(conn[c].host) \in guestOpen
          /\ conn' = [conn EXCEPT ![c] = [@ EXCEPT !.at = "relay", !.guest = guest_port(conn[c].host)]]
       \/ conn' = [conn EXCEPT ![c].at = "closed"]
    /\ UNCHANGED <<surroundings, discover, dynamic, closing>>

\* copy_bidirectional is over when both directions are, or one fails.
copy_bidirectional(c) ==
    /\ conn[c].at = "relay"
    /\ conn' = [conn EXCEPT ![c] = [at |-> "closed", host |-> None, guest |-> None]]
    /\ UNCHANGED <<surroundings, discover, dynamic, closing>>

-----------------------------------------------------------------------------
(* The guest and the host *)

Change == changes < MaxChanges /\ changes' = changes + 1

GuestOpens(p) ==
    /\ p \notin guestOpen /\ Change
    /\ guestOpen' = guestOpen \cup {p}
    /\ UNCHANGED <<baseline, hostTaken, discover, dynamic, closing, conn>>

GuestCloses(p) ==
    /\ p \in guestOpen /\ Change
    /\ guestOpen' = guestOpen \ {p}
    /\ UNCHANGED <<baseline, hostTaken, discover, dynamic, closing, conn>>

HostTakes(p) ==
    /\ ~ Bound(p) \/ (p \in StaticPorts \ hostTaken /\ discover.pc \in {"start", "failed"})
    /\ Change
    /\ hostTaken' = hostTaken \cup {p}
    /\ UNCHANGED <<guestOpen, baseline, discover, dynamic, closing, conn>>

HostReleases(p) ==
    /\ p \in hostTaken /\ Change
    /\ hostTaken' = hostTaken \ {p}
    /\ UNCHANGED <<guestOpen, baseline, discover, dynamic, closing, conn>>

ForwardInit ==
    /\ baseline \in SUBSET HostPorts /\ guestOpen = baseline
    /\ hostTaken = {} /\ changes = 0
    /\ discover = [pc |-> "start", told |-> {}]
    /\ dynamic = Unlistened /\ closing = {}
    /\ conn = [c \in Clients |-> [at |-> "idle", host |-> None, guest |-> None]]

ForwardNext ==
    \/ run \/ list_tcp_ports \/ list_tcp_ports_fails \/ run_auto_discover \/ Wake \/ Restart
    \/ \E p \in HostPorts : ListenerDropped(p) \/ AcceptFails(p)
    \/ \E p \in HostPorts : GuestOpens(p) \/ GuestCloses(p) \/ HostTakes(p) \/ HostReleases(p)
    \/ \E c \in Clients : proxy_tcp(c) \/ copy_bidirectional(c) \/ \E p \in HostPorts : accept_tcp(c, p)

\* The loop goes round, an aborted task is dropped and the supervisor restarts a plugin;
\* whether the guest answers or a port can be bound at all is not assumed.
ForwardFairness ==
    /\ WF_forwardVars(run) /\ WF_forwardVars(list_tcp_ports) /\ WF_forwardVars(run_auto_discover)
    /\ WF_forwardVars(Wake) /\ WF_forwardVars(Restart)
    /\ \A p \in HostPorts : WF_forwardVars(ListenerDropped(p))

ForwardSpec == ForwardInit /\ [][ForwardNext]_forwardVars /\ ForwardFairness

-----------------------------------------------------------------------------
(* Properties *)

\* Type invariant of the listeners and the connections.
ForwardTypeOK ==
    /\ guestOpen \subseteq HostPorts /\ baseline \subseteq HostPorts /\ hostTaken \subseteq HostPorts
    /\ discover.pc \in {"start", "list", "sync", "sleep", "failed"} /\ discover.told \subseteq HostPorts
    /\ dynamic \in [HostPorts -> {"live", "dead", None}] /\ closing \subseteq HostPorts
    /\ conn \in [Clients -> [at: {"idle", "proxy", "relay", "closed"},
                             host: HostPorts \cup {None}, guest: HostPorts \cup {None}]]

\* Only what the guest opened after its agent began is forwarded without being configured,
\* however its ports come and go between the agent's look and the plugin's.
ServicesStayInside == Listening \cap (baseline \cup Low \cup StaticPorts) = {}

\* A port is listened on by one program: the plugin's own listeners, the ones it is taking
\* down included, never share a port with another program or with each other.
PortHeldOnce ==
    \A p \in HostPorts \ StaticPorts :
        /\ dynamic[p] = "live" => p \notin hostTaken /\ p \notin closing
        /\ p \in closing => p \notin hostTaken

\* A connection that is relayed goes to the port of the guest that is configured for the
\* port it came in on.
ReachesItsPort ==
    \A c \in Clients : conn[c].at = "relay" /\ conn[c].host \in StaticPorts =>
        conn[c].guest = Mapping[conn[c].host]

\* The plugin keeps running, and the guest and the host leave port p as it is.
Quiet == discover.pc \notin {"start", "failed"}
Promoted(p) == p \in guestOpen /\ p \notin baseline \cup Low \cup StaticPorts

\* A port that the guest has opened and that is free on the host is forwarded in the end,
\* even if another program held it when it was discovered.
OpenPortIsForwarded ==
    \A p \in HostPorts : <>[](Quiet /\ Promoted(p) /\ p \notin hostTaken) => <>[](dynamic[p] # None)

\* A port that the guest has closed is given back to the host in the end.
ClosedPortIsReleased ==
    \A p \in HostPorts : <>[](Quiet /\ ~ Promoted(p)) => <>[](dynamic[p] = None /\ p \notin closing)
=============================================================================
