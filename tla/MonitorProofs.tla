---------------------------- MODULE MonitorProofs ----------------------------
(* Proofs about the services of a monitor (VmMonitor), for any number of connections and
   register calls and any capacity of the bus, about its serial console (SerialConsole), for any
   number of clients, any length of output and any capacity of the broadcast channel, and about
   the two side by side as MCVmMonitor runs them. *)
EXTENDS MCVmMonitor, TLAPS

-----------------------------------------------------------------------------
(* VmMonitor *)

\* The main task until it learns that the machine goes down.
Early == {"bind", "announce", "spawn", "report", "serve"}

\* A vm update that may still be under way: the machine only goes down, and never back up.
Fits(e) ==
    e.source = "vm" => \/ e.state = "stopping" /\ store.vm \in {"stopping", "stopped"}
                       \/ e.state = "stopped" /\ store.vm = "stopped"

\* The updates on which a client stops waiting for the guest.
Decisive(e) == e.source = "guest" /\ e.state \in {"running", "error"}

\* Only the main task changes the vm's state, and it does so after the machine has run.
MainInv ==
    /\ main \in Early => store.vm = "running"
    /\ \A t \in Tasks : pub[t] # None => Fits(pub[t]) /\ (pub[t].source = "vm" => t = "main")

\* A client off the stream has nothing pending, and one about to subscribe only its snapshot.
Fresh(r) ==
    /\ r.pc \notin {"subscribe", "stream"} => r.snapshot = <<>> /\ ~ r.gap
    /\ r.pc # "stream" => r.inbox = <<>> /\ ~ r.lagged /\ r.told = None

\* The vm's update is the first of the snapshot; the inbox has none but of a machine going down.
Ordered(r) ==
    /\ r.told = None => r.snapshot # <<>> /\ r.snapshot[1].source = "vm"
    /\ \A i \in 1..Len(r.snapshot) : r.snapshot[i].source = "vm" => i = 1 /\ r.told = None
    /\ r.told # "stopped"
    /\ \A i \in 1..Len(r.inbox) : Fits(r.inbox[i])

\* The vm's state has been told, or is still to come.
VmTold(r) ==
    \/ r.told = store.vm
    \/ r.told = None /\ r.snapshot[1] = Update("vm", store.vm)
    \/ \E i \in 1..Len(r.inbox) : r.inbox[i] = Update("vm", store.vm)
    \/ pub["main"] = Update("vm", store.vm)

\* A guest that is up, or has failed, is an update still to come.
GuestTold(r) ==
    \/ store.guest \in {"unspecified", "starting"}
    \/ \E i \in 1..Len(r.snapshot) : Decisive(r.snapshot[i])
    \/ \E i \in 1..Len(r.inbox) : Decisive(r.inbox[i])
    \/ \E t \in Tasks : pub[t] # None /\ Decisive(pub[t])

\* What is true of a connection between any two steps.
Follows(r) ==
    /\ Fresh(r)
    /\ r.pc \in {"subscribe", "stream"} =>
          Ordered(r) /\ (~ r.lagged /\ ~ r.gap => VmTold(r) /\ GuestTold(r))

\* Nobody has registered, and the machine was started to wait for it.
Unregistered == mode = "wait" /\ \A r \in Registrations : reg[r] = "idle"

\* The client has not been told that the guest runs, nor will be by what is under way to it.
Untold(r) ==
    /\ r.pc # "ok"
    /\ \A i \in 1..Len(r.snapshot) : r.snapshot[i] # Update("guest", "running")
    /\ \A i \in 1..Len(r.inbox) : r.inbox[i] # Update("guest", "running")

EarnedInv ==
    Unregistered =>
        /\ store.guest # "running"
        /\ \A t \in Tasks : pub[t] # Update("guest", "running")
        /\ \A c \in Clients : Untold(cl[c])

IInv == TypeOK /\ MainInv /\ (\A c \in Clients : Follows(cl[c])) /\ EarnedInv

-----------------------------------------------------------------------------
(* The store *)

\* The two kinds of update.
LEMMA UpdateFacts ==
    /\ \A e \in StatusUpdate : e.source \in {"vm", "guest"} /\ e = Update(e.source, e.state)
    /\ \A e \in StatusUpdate : e.source = "vm" => e.state \in VmStates
    /\ \A e \in StatusUpdate : e.source = "guest" => e.state \in GuestStates
    /\ \A s \in VmStates : Update("vm", s) \in StatusUpdate
    /\ \A s \in GuestStates : Update("guest", s) \in StatusUpdate
    /\ \A s : Update("vm", s).source = "vm" /\ Update("vm", s).state = s
    /\ \A s : Update("guest", s).source = "guest" /\ Update("guest", s).state = s
BY DEF StatusUpdate, Update

\* What dispatch does to the store.
LEMMA Reduced ==
    ASSUME TypeOK, NEW t \in Tasks, NEW e \in StatusUpdate, dispatch(t, e)
    PROVE  /\ store' \in [vm: VmStates, guest: GuestStates]
           /\ e.source = "vm" => store'.vm = e.state /\ store'.guest = store.guest
           /\ e.source = "guest" => store'.guest = e.state /\ store'.vm = store.vm
           /\ pub' \in [Tasks -> StatusUpdate \cup {None}]
           /\ pub[t] = None /\ pub'[t] = e /\ \A u \in Tasks : u # t => pub'[u] = pub[u]
<1>1. CASE e.source = "vm"
  BY <1>1, UpdateFacts, ZenonT(60) DEF TypeOK, dispatch, reduce_instance_state, project_status_update
<1>2. CASE e.source = "guest"
  BY <1>2, UpdateFacts, ZenonT(60) DEF TypeOK, dispatch, reduce_instance_state, project_status_update
<1> QED BY <1>1, <1>2, UpdateFacts, Zenon

\* Dispatching an update leaves no client behind: it is under way until it is published.
LEMMA Dispatched ==
    ASSUME TypeOK, MainInv, NEW t \in Tasks, NEW e \in StatusUpdate, dispatch(t, e),
           main' \in Early => main \in Early,
           e.source = "vm" => /\ t = "main" /\ main' \notin Early
                              /\ e.state \in {"stopping", "stopped"}
                              /\ e.state = "stopping" => store.vm = "running"
    PROVE  MainInv' /\ \A r \in Client : Follows(r) => Follows(r)'
<1>1. ASSUME NEW f, Fits(f) PROVE Fits(f)'
  BY <1>1, Reduced, UpdateFacts, ZenonT(60) DEF Fits
<1>2. Fits(e)'
  BY Reduced, UpdateFacts, ZenonT(60) DEF Fits
<1>3. MainInv'
  <2>1. main' \in Early => store'.vm = "running"
    BY Reduced, UpdateFacts, ZenonT(60) DEF MainInv
  <2>2. ASSUME NEW u \in Tasks, pub'[u] # None PROVE Fits(pub[u])' /\ (pub'[u].source = "vm" => u = "main")
    <3>1. CASE u = t
      <4>1. pub'[u] = e
        BY <3>1, Reduced, ZenonT(60)
      <4> QED BY <1>2, <3>1, <4>1, Zenon DEF Fits
    <3>2. CASE u # t
      <4>1. pub'[u] = pub[u]
        BY <3>2, Reduced, ZenonT(60)
      <4>2. PICK f : f = pub[u]
        BY Zenon
      <4>3. Fits(f) /\ (f.source = "vm" => u = "main")
        BY <2>2, <4>1, <4>2, Zenon DEF MainInv
      <4>4. Fits(f)'
        BY <1>1, <4>3, Zenon
      <4> QED BY <4>1, <4>2, <4>3, <4>4, Zenon DEF Fits
    <3> QED BY <3>1, <3>2, Zenon
  <2> QED BY <2>1, <2>2, Zenon DEF MainInv
<1>4. ASSUME NEW r \in Client, Follows(r) PROVE Follows(r)'
  <2>1. Fresh(r)'
    BY <1>4, Zenon DEF Follows, Fresh
  <2> SUFFICES ASSUME r.pc \in {"subscribe", "stream"} PROVE Ordered(r)' /\ (~ r.lagged /\ ~ r.gap => VmTold(r)' /\ GuestTold(r)')
    BY <2>1, Zenon DEF Follows
  <2>2. Ordered(r)'
    BY <1>1, <1>4, Zenon DEF Follows, Ordered
  <2>3. ASSUME ~ r.lagged, ~ r.gap PROVE VmTold(r)'
    <3>1. CASE e.source = "vm"
      BY <3>1, Reduced, UpdateFacts DEF VmTold
    <3>2. CASE e.source = "guest"
      <4>1. VmTold(r)
        BY <1>4, <2>3, Zenon DEF Follows
      <4>2. pub["main"] = Update("vm", store.vm) => pub'["main"] = pub["main"]
        <5>1. "main" \in Tasks /\ store.vm \in VmStates
          BY Zenon DEF Tasks, TypeOK
        <5>2. Update("vm", store.vm) # None
          BY <5>1, UpdateFacts, MonitorAssumption, ZenonT(60)
        <5> QED BY <5>1, <5>2, Reduced, Zenon
      <4>3. store'.vm = store.vm
        BY <3>2, Reduced, Zenon
      <4> QED BY <4>1, <4>2, <4>3, Zenon DEF VmTold
    <3> QED BY <3>1, <3>2, UpdateFacts, Zenon
  <2>4. ASSUME ~ r.lagged, ~ r.gap PROVE GuestTold(r)'
    <3>1. GuestTold(r)
      BY <1>4, <2>4, Zenon DEF Follows
    <3>2. \A u \in Tasks : pub[u] # None => pub'[u] = pub[u]
      BY Reduced, Zenon
    <3>3. CASE e.source = "vm"
      <4>1. store'.guest = store.guest
        BY <3>3, Reduced, Zenon
      <4> QED BY <3>1, <3>2, <4>1, Zenon DEF GuestTold
    <3>4. CASE e.source = "guest"
      <4>1. store'.guest = e.state /\ pub'[t] = e /\ e # None /\ e.state \in GuestStates
        BY <3>4, Reduced, UpdateFacts, MonitorAssumption, ZenonT(60)
      <4> QED BY <3>4, <4>1, Zenon DEF GuestTold, Decisive, GuestStates
    <3> QED BY <3>3, <3>4, UpdateFacts, Zenon
  <2> QED BY <2>2, <2>3, <2>4, Zenon
<1> QED BY <1>3, <1>4, Zenon

\* Publishing an update puts it in the inbox of every subscriber, or tells the subscriber that
\* some were lost, or falls into the gap before the subscription.
LEMMA Published ==
    ASSUME TypeOK, MainInv, NEW t \in Tasks, NEW e \in StatusUpdate, e = pub[t],
           pub' = [pub EXCEPT ![t] = None], store' = store, main' = main
    PROVE  /\ MainInv' /\ pub' \in [Tasks -> StatusUpdate \cup {None}]
           /\ \A r \in Client : Follows(r) =>
                 Delivered(r, e) \in Client /\ Follows(Delivered(r, e))'
<1>1. e # None
  BY MonitorAssumption, Zenon
<1>2. /\ pub' \in [Tasks -> StatusUpdate \cup {None}]
      /\ pub'[t] = None /\ \A u \in Tasks : u # t => pub'[u] = pub[u]
  BY Zenon DEF TypeOK
<1>3. \A f : Fits(f) => Fits(f)'
  BY Zenon DEF Fits
<1>4. MainInv'
  BY <1>2, <1>3, Zenon DEF MainInv, Fits
<1>5. ASSUME NEW r \in Client, Follows(r) PROVE Delivered(r, e) \in Client /\ Follows(Delivered(r, e))'
  <2>1. CASE r.pc = "subscribe"
    <3> DEFINE q == [r EXCEPT !.gap = TRUE]
    <3>1. Delivered(r, e) = q
      BY <2>1, Zenon DEF Delivered
    <3>2. q \in Client /\ q.gap /\ q.pc = r.pc /\ q.snapshot = r.snapshot /\ q.inbox = r.inbox
          /\ q.told = r.told /\ q.lagged = r.lagged
      BY Zenon DEF Client
    <3> HIDE DEF q
    <3>3. Fresh(q)' /\ Ordered(q)'
      BY <1>3, <1>5, <2>1, <3>2, Zenon DEF Follows, Fresh, Ordered
    <3>4. Follows(q)'
      BY <3>2, <3>3, Zenon DEF Follows
    <3> QED BY <3>1, <3>2, <3>4, Zenon
  <2>2. CASE r.pc = "stream" /\ ~ r.lagged /\ Len(r.inbox) < BusCapacity
    <3> DEFINE q == [r EXCEPT !.inbox = Append(r.inbox, e)]
    <3>1. Delivered(r, e) = q
      BY <2>2, Zenon DEF Delivered
    <3>2. /\ q \in Client /\ q.pc = r.pc /\ q.snapshot = r.snapshot /\ q.inbox = Append(r.inbox, e)
          /\ q.told = r.told /\ q.lagged = r.lagged /\ q.gap = r.gap
      <4>1. r.inbox \in Seq(StatusUpdate)
        BY Zenon DEF Client
      <4>2. Append(r.inbox, e) \in Seq(StatusUpdate)
        BY <4>1
      <4> QED BY <4>2, Zenon DEF Client
    <3> HIDE DEF q
    <3>3. /\ Len(q.inbox) = Len(r.inbox) + 1 /\ q.inbox[Len(r.inbox) + 1] = e /\ Len(r.inbox) \in Nat
          /\ \A i \in 1..Len(r.inbox) : q.inbox[i] = r.inbox[i]
      BY <3>2 DEF Client
    <3>4. Fits(e)
      BY <1>1, Zenon DEF MainInv
    <3>5. Fresh(q)'
      BY <1>5, <2>2, <3>2, Zenon DEF Follows, Fresh
    <3>6. \A i \in 1..Len(q.inbox) : i \in 1..Len(r.inbox) \/ i = Len(r.inbox) + 1
      BY <3>3
    <3>7. Ordered(q)'
      <4>1. \A i \in 1..Len(q.inbox) : Fits(q.inbox[i])'
        BY <1>3, <1>5, <2>2, <3>3, <3>4, <3>6, Zenon DEF Follows, Ordered
      <4> QED BY <1>5, <2>2, <3>2, <4>1, Zenon DEF Follows, Ordered
    <3>8. \A i \in 1..Len(r.inbox) : i \in 1..Len(q.inbox)
      BY <3>3
    <3>9. Len(r.inbox) + 1 \in 1..Len(q.inbox)
      BY <3>3
    <3>10. ASSUME ~ r.gap PROVE VmTold(q)'
      <4>1. VmTold(r)
        BY <1>5, <2>2, <3>10, Zenon DEF Follows
      <4>2. CASE pub["main"] = Update("vm", store.vm) /\ t = "main"
        BY <1>1, <3>3, <3>9, <4>2, Zenon DEF VmTold
      <4>3. CASE pub["main"] = Update("vm", store.vm) /\ t # "main"
        <5>1. "main" \in Tasks
          BY Zenon DEF Tasks
        <5> QED BY <1>2, <4>3, <5>1, Zenon DEF VmTold
      <4> QED BY <3>2, <3>3, <3>8, <4>1, <4>2, <4>3, Zenon DEF VmTold
    <3>11. ASSUME ~ r.gap PROVE GuestTold(q)'
      <4>1. GuestTold(r)
        BY <1>5, <2>2, <3>11, Zenon DEF Follows
      <4>2. CASE \E u \in Tasks : pub[u] # None /\ Decisive(pub[u])
        <5>1. PICK u \in Tasks : pub[u] # None /\ Decisive(pub[u])
          BY <4>2, Zenon
        <5>2. CASE u = t
          BY <1>1, <3>3, <3>9, <5>1, <5>2, Zenon DEF GuestTold
        <5>3. CASE u # t
          BY <1>2, <5>1, <5>3, Zenon DEF GuestTold, Decisive
        <5> QED BY <5>2, <5>3, Zenon
      <4> QED BY <3>2, <3>3, <3>8, <4>1, <4>2, Zenon DEF GuestTold
    <3> QED BY <3>1, <3>2, <3>5, <3>7, <3>10, <3>11, Zenon DEF Follows
  <2>3. CASE r.pc = "stream" /\ ~ r.lagged /\ ~ (Len(r.inbox) < BusCapacity)
    <3> DEFINE q == [r EXCEPT !.inbox = <<>>, !.lagged = TRUE]
    <3>1. Delivered(r, e) = q
      BY <2>3, Zenon DEF Delivered
    <3>2. /\ q \in Client /\ q.pc = r.pc /\ q.snapshot = r.snapshot /\ q.inbox = <<>>
          /\ q.told = r.told /\ q.lagged /\ q.gap = r.gap
      <4>1. <<>> \in Seq(StatusUpdate)
        OBVIOUS
      <4> QED BY <4>1, Zenon DEF Client
    <3> HIDE DEF q
    <3>3. Fresh(q)' /\ Ordered(q)'
      BY <1>5, <2>3, <3>2 DEF Follows, Fresh, Ordered
    <3>4. Follows(q)'
      BY <3>2, <3>3, Zenon DEF Follows
    <3> QED BY <3>1, <3>2, <3>4, Zenon
  <2>4. CASE r.pc # "subscribe" /\ ~ (r.pc = "stream" /\ ~ r.lagged)
    <3>1. Delivered(r, e) = r
      BY <2>4, Zenon DEF Delivered
    <3>2. Fresh(r)'
      BY <1>5, Zenon DEF Follows, Fresh
    <3>3. r.pc \in {"subscribe", "stream"} => Ordered(r)' /\ r.lagged
      BY <1>3, <1>5, <2>4, Zenon DEF Follows, Ordered
    <3>4. Follows(r)'
      BY <3>2, <3>3, Zenon DEF Follows
    <3> QED BY <3>1, <3>4, Zenon
  <2> QED BY <2>1, <2>2, <2>3, <2>4, Zenon
<1> QED BY <1>2, <1>4, <1>5, Zenon

-----------------------------------------------------------------------------
(* The connections *)

\* A connection that is over has nothing pending.
LEMMA Ended ==
    ASSUME NEW place \in Places \ {"subscribe", "stream"}
    PROVE  LET q == [NoClient EXCEPT !.pc = place]
           IN  q \in Client /\ q.pc = place /\ Follows(q) /\ (place # "ok" => Untold(q))
<1> DEFINE q == [NoClient EXCEPT !.pc = place]
<1>1. <<>> \in Seq(StatusUpdate)
  OBVIOUS
<1>2. /\ q \in Client /\ q.pc = place /\ q.snapshot = <<>> /\ q.inbox = <<>> /\ q.told = None
      /\ ~ q.lagged /\ ~ q.gap
  BY <1>1, Zenon DEF NoClient, Client, Places
<1> HIDE DEF q
<1>3. Follows(q)
  BY <1>2, Zenon DEF Follows, Fresh
<1>4. place # "ok" => Untold(q)
  BY <1>2 DEF Untold
<1> QED BY <1>2, <1>3, <1>4, Zenon DEF q

\* A connection that moves on outside the stream has nothing pending either.
LEMMA Moved ==
    ASSUME NEW r \in Client, Follows(r), NEW place \in Places \ {"subscribe", "stream"},
           r.pc \notin {"subscribe", "stream"}
    PROVE  LET q == [r EXCEPT !.pc = place]
           IN  q \in Client /\ q.pc = place /\ Follows(q) /\ (place # "ok" /\ Untold(r) => Untold(q))
<1> DEFINE q == [r EXCEPT !.pc = place]
<1>2. /\ q \in Client /\ q.pc = place /\ q.snapshot = r.snapshot /\ q.inbox = r.inbox /\ q.told = r.told
      /\ q.lagged = r.lagged /\ q.gap = r.gap
  BY Zenon DEF Client
<1> HIDE DEF q
<1>3. Follows(q)
  BY <1>2, Zenon DEF Follows, Fresh
<1>4. place # "ok" /\ Untold(r) => Untold(q)
  BY <1>2, Zenon DEF Untold
<1> QED BY <1>2, <1>3, <1>4, Zenon DEF q

\* The snapshot is what the store says.
LEMMA Snapshot ==
    ASSUME TypeOK
    PROVE  /\ select_current_events \in Seq(StatusUpdate) /\ Len(select_current_events) \in {1, 2}
           /\ select_current_events[1] = Update("vm", store.vm)
           /\ store.guest = "unspecified" => Len(select_current_events) = 1
           /\ store.guest # "unspecified" =>
                 Len(select_current_events) = 2 /\ select_current_events[2] = Update("guest", store.guest)
<1>1. Update("vm", store.vm) \in StatusUpdate /\ Update("guest", store.guest) \in StatusUpdate
  BY UpdateFacts, Zenon DEF TypeOK
<1>2. PICK v \in StatusUpdate, g \in StatusUpdate : v = Update("vm", store.vm) /\ g = Update("guest", store.guest)
  BY <1>1, Zenon
<1>3. CASE store.guest = "unspecified"
  <2>1. select_current_events = <<v>> \o <<>>
    BY <1>2, <1>3, Zenon DEF select_current_events
  <2> QED BY <1>2, <1>3, <2>1
<1>4. CASE store.guest # "unspecified"
  <2>1. select_current_events = <<v>> \o <<g>>
    BY <1>2, <1>4, Zenon DEF select_current_events
  <2> QED BY <1>2, <1>4, <2>1
<1> QED BY <1>3, <1>4, Zenon

\* A client that takes its snapshot will be told the vm's state and whether the guest is decided.
LEMMA Watched ==
    ASSUME TypeOK, NEW r \in Client, Follows(r), r.pc = "watch"
    PROVE  LET q == [r EXCEPT !.pc = "subscribe", !.snapshot = select_current_events]
           IN  q \in Client /\ Follows(q) /\ (store.guest # "running" /\ Untold(r) => Untold(q))
<1>1. PICK s \in Seq(StatusUpdate) : s = select_current_events
  BY Snapshot, Zenon
<1> DEFINE q == [r EXCEPT !.pc = "subscribe", !.snapshot = s]
<1>2. /\ q \in Client /\ q.pc = "subscribe" /\ q.snapshot = s /\ q.inbox = r.inbox /\ q.told = r.told
      /\ q.lagged = r.lagged /\ q.gap = r.gap
  BY Zenon DEF Client, Places
<1> HIDE DEF q
<1>3. r.snapshot = <<>> /\ ~ r.gap /\ r.inbox = <<>> /\ ~ r.lagged /\ r.told = None
  BY Zenon DEF Follows, Fresh
<1>4. /\ Len(s) \in {1, 2} /\ s[1] = Update("vm", store.vm)
      /\ store.guest = "unspecified" => Len(s) = 1
      /\ store.guest # "unspecified" => Len(s) = 2 /\ s[2] = Update("guest", store.guest)
      /\ store.guest \in GuestStates /\ store.vm \in VmStates
  BY <1>1, Snapshot, Zenon DEF TypeOK
<1>5. Ordered(q)
  <2>1. s # <<>> /\ s[1].source = "vm"
    BY <1>4, UpdateFacts
  <2>2. \A i \in 1..Len(s) : s[i].source = "vm" => i = 1
    BY <1>4, UpdateFacts
  <2>3. q.told # "stopped"
    BY <1>2, <1>3, MonitorAssumption, Zenon DEF VmStates
  <2> QED BY <1>2, <1>3, <2>1, <2>2, <2>3 DEF Ordered
<1>6. VmTold(q)
  BY <1>2, <1>3, <1>4, Zenon DEF VmTold
<1>7. GuestTold(q)
  <2>1. CASE store.guest \in {"unspecified", "starting"}
    BY <2>1, Zenon DEF GuestTold
  <2>2. CASE store.guest \notin {"unspecified", "starting"}
    <3>1. Len(s) = 2 /\ Decisive(s[2])
      BY <1>4, <2>2, UpdateFacts DEF Decisive, GuestStates
    <3> QED BY <1>2, <3>1 DEF GuestTold
  <2> QED BY <2>1, <2>2, Zenon
<1>8. Follows(q)
  BY <1>2, <1>3, <1>5, <1>6, <1>7, Zenon DEF Follows, Fresh
<1>9. store.guest # "running" /\ Untold(r) => Untold(q)
  <2> SUFFICES ASSUME store.guest # "running" PROVE Untold(q)
    BY Zenon
  <2>1. \A i \in 1..Len(s) : s[i] # Update("guest", "running")
    BY <1>4 DEF Update
  <2> QED BY <1>2, <1>3, <2>1 DEF Untold
<1> QED BY <1>1, <1>2, <1>8, <1>9, Zenon DEF q

\* The subscription loses nothing but what was published in the gap.
LEMMA Subscribed ==
    ASSUME NEW r \in Client, Follows(r), r.pc = "subscribe"
    PROVE  LET q == [r EXCEPT !.pc = "stream"]
           IN  q \in Client /\ Follows(q) /\ (Untold(r) => Untold(q))
<1> DEFINE q == [r EXCEPT !.pc = "stream"]
<1>2. /\ q \in Client /\ q.pc = "stream" /\ q.snapshot = r.snapshot /\ q.inbox = r.inbox /\ q.told = r.told
      /\ q.lagged = r.lagged /\ q.gap = r.gap
  BY Zenon DEF Client, Places
<1> HIDE DEF q
<1>3. Ordered(q) /\ (~ q.lagged /\ ~ q.gap => VmTold(q) /\ GuestTold(q))
  BY <1>2, ZenonT(60) DEF Follows, Ordered, VmTold, GuestTold
<1>4. Follows(q)
  BY <1>2, <1>3, Zenon DEF Follows, Fresh
<1>5. Untold(r) => Untold(q)
  BY <1>2, Zenon DEF Untold
<1> QED BY <1>2, <1>4, <1>5, Zenon DEF q

\* An update on which a client goes on waiting decides nothing.
LEMMA GoesOn ==
    ASSUME NEW ran, NEW e \in StatusUpdate
    PROVE  /\ Verdict(ran, e) \in {"ok", "err", "stream"}
           /\ Verdict(ran, e) = "stream" => ~ Decisive(e) /\ ~ (e.source = "vm" /\ e.state = "stopped")
           /\ Verdict(ran, e) = "ok" => e = Update("guest", "running")
<1>1. e = Update(e.source, e.state)
  BY UpdateFacts, Zenon
<1> QED BY <1>1, UpdateFacts, Zenon DEF Verdict, Decisive

\* A client that receives an update of its snapshot and goes on has been told it.
LEMMA SnapshotReceived ==
    ASSUME TypeOK, NEW r \in Client, Follows(r), r.pc = "stream", r.snapshot # <<>>,
           NEW e, e = Head(r.snapshot), Verdict(r.ran, e) = "stream", NEW ran \in BOOLEAN
    PROVE  LET q == [r EXCEPT !.snapshot = Tail(r.snapshot), !.ran = ran,
                              !.told = IF e.source = "vm" THEN e.state ELSE r.told]
           IN  q \in Client /\ Follows(q) /\ (Untold(r) => Untold(q))
<1>1. PICK s \in Seq(StatusUpdate), told \in VmStates \cup {None} :
          s = r.snapshot /\ told = (IF e.source = "vm" THEN e.state ELSE r.told)
  BY UpdateFacts DEF Client
<1> DEFINE q == [r EXCEPT !.snapshot = Tail(s), !.ran = ran, !.told = told]
<1>2. Tail(s) \in Seq(StatusUpdate) /\ s # <<>>
  BY <1>1
<1>3. /\ q \in Client /\ q.pc = "stream" /\ q.snapshot = Tail(s) /\ q.inbox = r.inbox /\ q.told = told
      /\ q.lagged = r.lagged /\ q.gap = r.gap
  BY <1>2, Zenon DEF Client
<1> HIDE DEF q
<1>4. /\ e = s[1] /\ e \in StatusUpdate /\ Len(s) \in Nat \ {0} /\ Len(Tail(s)) = Len(s) - 1
      /\ \A i \in 1..Len(Tail(s)) : Tail(s)[i] = s[i + 1]
  BY <1>1, <1>2
<1>5. ~ Decisive(e) /\ ~ (e.source = "vm" /\ e.state = "stopped") /\ Ordered(r)
  BY <1>4, GoesOn, Zenon DEF Follows
<1>6. \A i \in 1..Len(Tail(s)) : i + 1 \in 1..Len(s) /\ i + 1 # 1
  BY <1>4
<1>7. \A i \in 1..Len(Tail(s)) : Tail(s)[i].source # "vm"
  BY <1>1, <1>4, <1>5, <1>6, ZenonT(60) DEF Ordered
<1>8. 1 \in 1..Len(s)
  BY <1>4
<1>9. told # None /\ told # "stopped" /\ (e.source # "vm" => told = r.told /\ told # None)
  BY <1>1, <1>4, <1>5, <1>8, UpdateFacts, MonitorAssumption DEF Ordered
<1>10. Ordered(q)
  BY <1>3, <1>5, <1>7, <1>9, Zenon DEF Ordered
<1>11. ASSUME VmTold(r) PROVE VmTold(q)
  <2>1. CASE r.told = store.vm
    <3>1. store.vm \in VmStates
      BY Zenon DEF TypeOK
    <3>2. r.told # None
      BY <2>1, <3>1, MonitorAssumption, Zenon
    <3>3. e.source # "vm"
      BY <1>1, <1>4, <1>5, <1>8, <3>2, Zenon DEF Ordered
    <3> QED BY <1>1, <1>3, <2>1, <3>3, Zenon DEF VmTold
  <2>2. CASE r.told = None /\ r.snapshot[1] = Update("vm", store.vm)
    <3>1. told = store.vm
      BY <1>1, <1>4, <2>2, UpdateFacts
    <3> QED BY <1>3, <3>1, Zenon DEF VmTold
  <2> QED BY <1>3, <1>11, <2>1, <2>2, Zenon DEF VmTold
<1>12. ASSUME GuestTold(r) PROVE GuestTold(q)
  <2>1. CASE \E i \in 1..Len(s) : Decisive(s[i])
    <3>1. PICK i \in 1..Len(s) : Decisive(s[i])
      BY <2>1, Zenon
    <3>2. i # 1
      BY <1>4, <1>5, <3>1, Zenon
    <3>3. i - 1 \in 1..Len(Tail(s)) /\ Tail(s)[i - 1] = s[i]
      BY <1>4, <3>2
    <3> QED BY <1>3, <3>1, <3>3, Zenon DEF GuestTold
  <2> QED BY <1>1, <1>3, <1>12, <2>1, Zenon DEF GuestTold
<1>13. Follows(q)
  BY <1>3, <1>10, <1>11, <1>12, Zenon DEF Follows, Fresh
<1>14. Untold(r) => Untold(q)
  BY <1>1, <1>3, <1>4, <1>6 DEF Untold
<1> QED BY <1>1, <1>3, <1>13, <1>14, Zenon DEF q

\* The same for an update that came over the bus, once the snapshot has been received.
LEMMA InboxReceived ==
    ASSUME TypeOK, NEW r \in Client, Follows(r), r.pc = "stream", r.snapshot = <<>>, r.inbox # <<>>,
           NEW e, e = Head(r.inbox), Verdict(r.ran, e) = "stream", NEW ran \in BOOLEAN
    PROVE  LET q == [r EXCEPT !.inbox = Tail(r.inbox), !.ran = ran,
                              !.told = IF e.source = "vm" THEN e.state ELSE r.told]
           IN  q \in Client /\ Follows(q) /\ (Untold(r) => Untold(q))
<1>1. PICK s \in Seq(StatusUpdate), told \in VmStates \cup {None} :
          s = r.inbox /\ told = (IF e.source = "vm" THEN e.state ELSE r.told)
  BY UpdateFacts DEF Client
<1> DEFINE q == [r EXCEPT !.inbox = Tail(s), !.ran = ran, !.told = told]
<1>2. Tail(s) \in Seq(StatusUpdate) /\ s # <<>>
  BY <1>1
<1>3. /\ q \in Client /\ q.pc = "stream" /\ q.snapshot = <<>> /\ q.inbox = Tail(s) /\ q.told = told
      /\ q.lagged = r.lagged /\ q.gap = r.gap
  BY <1>2, Zenon DEF Client
<1> HIDE DEF q
<1>4. /\ e = s[1] /\ e \in StatusUpdate /\ Len(s) \in Nat \ {0} /\ Len(Tail(s)) = Len(s) - 1
      /\ \A i \in 1..Len(Tail(s)) : Tail(s)[i] = s[i + 1]
  BY <1>1, <1>2
<1>5. ~ Decisive(e) /\ ~ (e.source = "vm" /\ e.state = "stopped") /\ Ordered(r)
  BY <1>4, GoesOn, Zenon DEF Follows
<1>6. \A i \in 1..Len(Tail(s)) : i + 1 \in 1..Len(s) /\ i + 1 # 1
  BY <1>4
<1>7. 1 \in 1..Len(s)
  BY <1>4
<1>8. Fits(e) /\ r.told # None
  BY <1>1, <1>4, <1>5, <1>7, Zenon DEF Ordered
<1>9. told # None /\ told # "stopped" /\ (e.source # "vm" => told = r.told)
  BY <1>1, <1>4, <1>5, <1>8, UpdateFacts, MonitorAssumption DEF Ordered
<1>10. Ordered(q)
  BY <1>1, <1>3, <1>4, <1>5, <1>6, <1>9, SMTT(60) DEF Ordered
<1>11. ASSUME VmTold(r) PROVE VmTold(q)
  <2>1. CASE e.source = "vm"
    <3>1. e.state = "stopping" /\ told = "stopping" /\ store.vm \in {"stopping", "stopped"}
      BY <1>1, <1>5, <1>8, <2>1, Zenon DEF Fits
    <3>2. CASE store.vm = "stopping"
      BY <1>3, <3>1, <3>2, Zenon DEF VmTold
    <3>3. CASE store.vm = "stopped"
      <4>1. r.told # store.vm /\ r.told # None
        BY <1>5, <1>8, <3>3, Zenon DEF Ordered
      <4>2. CASE \E i \in 1..Len(s) : s[i] = Update("vm", store.vm)
        <5>1. PICK i \in 1..Len(s) : s[i] = Update("vm", store.vm)
          BY <4>2, Zenon
        <5>2. i # 1
          BY <1>4, <3>1, <3>3, <5>1, UpdateFacts
        <5>3. i - 1 \in 1..Len(Tail(s)) /\ Tail(s)[i - 1] = s[i]
          BY <1>4, <5>2
        <5> QED BY <1>3, <5>1, <5>3, Zenon DEF VmTold
      <4> QED BY <1>1, <1>3, <1>11, <4>1, <4>2, Zenon DEF VmTold
    <3> QED BY <3>1, <3>2, <3>3, Zenon
  <2>2. CASE e.source # "vm"
    <3>1. CASE \E i \in 1..Len(s) : s[i] = Update("vm", store.vm)
      <4>1. PICK i \in 1..Len(s) : s[i] = Update("vm", store.vm)
        BY <3>1, Zenon
      <4>2. i # 1
        BY <1>4, <2>2, <4>1, UpdateFacts
      <4>3. i - 1 \in 1..Len(Tail(s)) /\ Tail(s)[i - 1] = s[i]
        BY <1>4, <4>2
      <4> QED BY <1>3, <4>1, <4>3, Zenon DEF VmTold
    <3> QED BY <1>1, <1>3, <1>8, <1>9, <1>11, <2>2, <3>1, ZenonT(60) DEF VmTold
  <2> QED BY <2>1, <2>2, Zenon
<1>12. ASSUME GuestTold(r) PROVE GuestTold(q)
  <2>1. CASE \E i \in 1..Len(s) : Decisive(s[i])
    <3>1. PICK i \in 1..Len(s) : Decisive(s[i])
      BY <2>1, Zenon
    <3>2. i # 1
      BY <1>4, <1>5, <3>1, Zenon
    <3>3. i - 1 \in 1..Len(Tail(s)) /\ Tail(s)[i - 1] = s[i]
      BY <1>4, <3>2
    <3> QED BY <1>3, <3>1, <3>3, Zenon DEF GuestTold
  <2> QED BY <1>1, <1>3, <1>12, <2>1, Zenon DEF GuestTold
<1>13. Follows(q)
  BY <1>3, <1>10, <1>11, <1>12, ZenonT(60) DEF Follows, Fresh
<1>14. Untold(r) => Untold(q)
  BY <1>1, <1>3, <1>4, <1>6 DEF Untold
<1> QED BY <1>1, <1>3, <1>13, <1>14, Zenon DEF q

-----------------------------------------------------------------------------
(* The kinds of step *)

\* A connection stays what it is while the store and the pending updates do.
LEMMA Steady ==
    ASSUME NEW r, Follows(r), store' = store, pub' = pub
    PROVE  Follows(r)'
BY ZenonT(60) DEF Follows, Fresh, Ordered, Fits, VmTold, GuestTold, Decisive

\* The daemon does something that no client is told of.
LEMMA Silent ==
    ASSUME IInv, TypeOK', UNCHANGED <<dispatched, mode, cl>>, main' \in Early => main \in Early,
           \A r \in Registrations : reg'[r] = "idle" => reg[r] = "idle"
    PROVE  IInv'
<1>1. MainInv'
  BY ZenonT(60) DEF IInv, MainInv, Fits, dispatched
<1>2. \A c \in Clients : Follows(cl[c])'
  <2> TAKE c \in Clients
  <2>1. PICK r : r = cl[c] /\ r = cl'[c]
    BY Zenon
  <2>2. Follows(r)'
    BY <2>1, Steady, Zenon DEF IInv, dispatched
  <2> QED BY <2>1, <2>2 DEF Follows, Fresh, Ordered, Fits, VmTold, GuestTold, Decisive
<1>3. EarnedInv'
  BY Zenon DEF IInv, EarnedInv, Unregistered, Untold, dispatched
<1> QED BY <1>1, <1>2, <1>3, Zenon DEF IInv

\* The daemon dispatches an update.
LEMMA Telling ==
    ASSUME IInv, NEW t \in Tasks, NEW e \in StatusUpdate, dispatch(t, e), UNCHANGED <<mode, cl>>,
           main' \in Early => main \in Early,
           e.source = "vm" => /\ t = "main" /\ main' \notin Early
                              /\ e.state \in {"stopping", "stopped"}
                              /\ e.state = "stopping" => store.vm = "running",
           Unregistered' => e # Update("guest", "running") /\ Unregistered,
           TypeOK'
    PROVE  IInv'
<1>1. MainInv' /\ \A r \in Client : Follows(r) => Follows(r)'
  BY Dispatched, ZenonT(60) DEF IInv
<1>2. \A c \in Clients : Follows(cl[c])'
  <2> TAKE c \in Clients
  <2>1. PICK r \in Client : r = cl[c] /\ r = cl'[c]
    BY Zenon DEF IInv, TypeOK
  <2>2. Follows(r)'
    BY <1>1, <2>1, Zenon DEF IInv
  <2> QED BY <2>1, <2>2 DEF Follows, Fresh, Ordered, Fits, VmTold, GuestTold, Decisive
<1>3. EarnedInv'
  <2> SUFFICES ASSUME Unregistered' PROVE /\ store'.guest # "running"
                                          /\ \A u \in Tasks : pub'[u] # Update("guest", "running")
                                          /\ \A c \in Clients : Untold(cl[c])'
    BY Zenon DEF EarnedInv
  <2>1. e # Update("guest", "running") /\ Unregistered
    BY Zenon
  <2>2. e.source = "guest" => e.state # "running"
    BY <2>1, UpdateFacts
  <2>3. store'.guest # "running"
    BY <2>1, <2>2, Reduced, UpdateFacts DEF IInv, EarnedInv
  <2>4. \A u \in Tasks : pub'[u] # Update("guest", "running")
    BY <2>1, Reduced DEF IInv, EarnedInv
  <2>5. \A c \in Clients : Untold(cl[c])'
    BY <2>1, Zenon DEF IInv, EarnedInv, Untold
  <2> QED BY <2>3, <2>4, <2>5, Zenon
<1> QED BY <1>1, <1>2, <1>3, Zenon DEF IInv

\* Connections change, and what they are told of does not.
LEMMA ClientsStep ==
    ASSUME IInv, UNCHANGED <<dispatched, mode, reg>>, TypeOK', main' \in Early => main \in Early,
           \A c \in Clients : \E q \in Client : q = cl'[c] /\ Follows(q) /\ (Unregistered => Untold(q))
    PROVE  IInv'
<1>1. MainInv'
  BY Zenon DEF IInv, MainInv, Fits, dispatched
<1>2. store' = store /\ pub' = pub /\ mode' = mode /\ reg' = reg
  BY Zenon DEF dispatched
<1>3. \A c \in Clients : Follows(cl[c])' /\ (Unregistered => Untold(cl[c])')
  <2> TAKE c \in Clients
  <2>1. PICK q \in Client : q = cl'[c] /\ Follows(q) /\ (Unregistered => Untold(q))
    BY Zenon
  <2>2. Follows(q)'
    BY <1>2, <2>1, Steady, ZenonT(60)
  <2>3. Follows(cl[c])'
    BY <2>1, <2>2 DEF Follows, Fresh, Ordered, Fits, VmTold, GuestTold, Decisive
  <2>4. Unregistered => Untold(cl[c])'
    BY <2>1, Zenon DEF Untold
  <2> QED BY <2>3, <2>4, Zenon
<1>4. EarnedInv'
  BY <1>2, <1>3, Zenon DEF IInv, EarnedInv, Unregistered
<1> QED BY <1>1, <1>3, <1>4, Zenon DEF IInv

\* One connection changes, and the daemon's state does not.
LEMMA ClientStep ==
    ASSUME IInv, UNCHANGED daemonVars, socket' \in {"none", "accept", "handshake", "done"},
           NEW c \in Clients, NEW q \in Client, cl' = [cl EXCEPT ![c] = q],
           Follows(q), Unregistered => Untold(q)
    PROVE  IInv'
<1>1. cl' \in [Clients -> Client] /\ cl'[c] = q /\ \A d \in Clients : d # c => cl'[d] = cl[d]
  BY Zenon DEF IInv, TypeOK
<1>2. \A d \in Clients : \E p \in Client : p = cl'[d] /\ Follows(p) /\ (Unregistered => Untold(p))
  <2> TAKE d \in Clients
  <2>1. cl[d] \in Client /\ Follows(cl[d]) /\ (Unregistered => Untold(cl[d]))
    BY Zenon DEF IInv, TypeOK, EarnedInv
  <2> QED BY <1>1, <2>1, ZenonT(60)
<1>3. TypeOK'
  BY <1>1 DEF IInv, TypeOK, daemonVars, dispatched, hostVars, guestVars
<1> QED BY <1>2, <1>3, ClientsStep, Zenon DEF daemonVars, hostVars, guestVars

-----------------------------------------------------------------------------
(* The steps *)

\* start_services and shutdown::run: only the main task moves the vm's state, from running down.
LEMMA MainSteps ==
    ASSUME IInv, \/ Bind \/ Announce \/ spawn_guest_services \/ report_started
                 \/ SignalReceived \/ MachineExited \/ Cancel \/ graceful_stop \/ drain
    PROVE  IInv'
<1> USE DEF hostVars, guestVars, dispatched
<1>0. TypeOK /\ MainInv /\ "main" \in Tasks
  BY Zenon DEF IInv, Tasks
<1>1. CASE Bind
  <2>1. TypeOK'
    BY <1>0, <1>1 DEF TypeOK, Bind, Main
  <2> QED BY <1>1, <2>1, Silent, ZenonT(60) DEF Bind, Main, Early
<1>2. CASE Announce
  <2>1. PICK e \in StatusUpdate : e = Update("guest", IF mode = "wait" THEN "starting" ELSE "running")
    BY UpdateFacts, Zenon DEF GuestStates
  <2>2. dispatch("main", e) /\ e.source = "guest"
    BY <1>2, <2>1, UpdateFacts, Zenon DEF Announce
  <2>3. TypeOK'
    BY <1>0, <1>2, <2>2, Reduced DEF TypeOK, Announce, Main
  <2>4. Unregistered' => e # Update("guest", "running") /\ Unregistered
    BY <1>2, <2>1, Zenon DEF Announce, Main, Unregistered, Update
  <2> QED BY <1>0, <1>2, <2>2, <2>3, <2>4, Telling, Zenon DEF Announce, Main, Early
<1>3. CASE spawn_guest_services
  <2>1. TypeOK'
    BY <1>0, <1>3 DEF TypeOK, spawn_guest_services, Main
  <2> QED BY <1>3, <2>1, Silent, Zenon DEF spawn_guest_services, Main, Early
<1>4. CASE report_started
  <2>1. TypeOK'
    BY <1>0, <1>4 DEF TypeOK, report_started, Main
  <2> QED BY <1>4, <2>1, Silent, Zenon DEF report_started, Main, Early
<1>5. CASE SignalReceived
  <2>1. PICK e \in StatusUpdate : e = Update("vm", "stopping")
    BY UpdateFacts, Zenon DEF VmStates
  <2>2. dispatch("main", e) /\ e.source = "vm" /\ e.state = "stopping" /\ store.vm = "running"
    BY <1>0, <1>5, <2>1, UpdateFacts, ZenonT(60) DEF SignalReceived, Main, MainInv, Early
  <2>3. TypeOK'
    BY <1>0, <1>5, <2>2, Reduced DEF TypeOK, SignalReceived, Main
  <2>4. Unregistered' => e # Update("guest", "running") /\ Unregistered
    BY <1>5, <2>2, UpdateFacts, ZenonT(60) DEF SignalReceived, Main, Unregistered
  <2> QED BY <1>0, <1>5, <2>2, <2>3, <2>4, Telling, Zenon DEF SignalReceived, Main, Early
<1>6. ASSUME dispatch("main", Update("vm", "stopped")), UNCHANGED <<shutdown, guestVars, socket, cl>>,
             Main("serve", "cancel") \/ Main("stopping", "drain")
      PROVE  IInv'
  <2>1. PICK e \in StatusUpdate : e = Update("vm", "stopped")
    BY UpdateFacts, Zenon DEF VmStates
  <2>2. dispatch("main", e) /\ e.source = "vm" /\ e.state = "stopped"
    BY <1>6, <2>1, UpdateFacts, ZenonT(60)
  <2>3. TypeOK'
    BY <1>0, <1>6, <2>2, Reduced DEF TypeOK, Main
  <2>4. Unregistered' => e # Update("guest", "running") /\ Unregistered
    BY <1>6, <2>2, UpdateFacts, ZenonT(60) DEF Main, Unregistered
  <2> QED BY <1>0, <1>6, <2>2, <2>3, <2>4, Telling, ZenonT(60) DEF Main, Early
<1>7. ASSUME UNCHANGED <<dispatched, shutdown, guestVars, socket, cl>>,
             \/ Main("serve", "failed") \/ Main("stopping", "drain") \/ Main("stopping", "failed")
             \/ Main("drain", "drainsocket") \/ Main("drainsocket", "done")
      PROVE  IInv'
  <2>1. TypeOK'
    BY <1>0, <1>7 DEF TypeOK, Main
  <2> QED BY <1>7, <2>1, Silent, Zenon DEF Main, Early
<1>8. CASE MachineExited
  BY <1>6, <1>7, <1>8, Zenon DEF MachineExited
<1>9. CASE Cancel
  <2>1. TypeOK'
    BY <1>0, <1>9, ZenonT(60) DEF TypeOK, Cancel, Main
  <2> QED BY <1>9, <2>1, Silent, Zenon DEF Cancel, Main, Early
<1>10. CASE graceful_stop
  BY <1>6, <1>7, <1>10, Zenon DEF graceful_stop
<1>11. CASE drain
  BY <1>7, <1>11, Zenon DEF drain
<1> QED BY <1>1, <1>2, <1>3, <1>4, <1>5, <1>8, <1>9, <1>10, <1>11, Zenon

\* register, the guest server and the readiness timeout: a guest that runs has registered.
LEMMA GuestSteps ==
    ASSUME IInv, (\E r \in Registrations : register(r)) \/ GuestStep
    PROVE  IInv'
<1> USE DEF hostVars, guestVars, dispatched, Up
<1>0. TypeOK /\ MainInv /\ {"guest", "timeout"} \subseteq Tasks /\ Registrations \subseteq Tasks
  BY Zenon DEF IInv, Tasks
<1>1. ASSUME NEW r \in Registrations, register(r), reg[r] = "idle" PROVE IInv'
  <2>1. PICK e \in StatusUpdate : e = Update("guest", "running")
    BY UpdateFacts, Zenon DEF GuestStates
  <2>2. dispatch(r, e) /\ e.source = "guest" /\ r \in Tasks
    BY <1>0, <1>1, <2>1, UpdateFacts, ZenonT(60) DEF register
  <2>3. TypeOK' /\ reg'[r] = "flag"
    BY <1>0, <1>1, <2>2, Reduced DEF TypeOK, register
  <2>4. ~ Unregistered'
    BY <2>3, Zenon DEF Unregistered
  <2> QED BY <1>1, <2>2, <2>3, <2>4, Telling, ZenonT(60) DEF register
<1>2. ASSUME NEW r \in Registrations, register(r), reg[r] # "idle" PROVE IInv'
  <2>1. TypeOK' /\ \A q \in Registrations : reg'[q] = "idle" => reg[q] = "idle"
    BY <1>0, <1>2, ZenonT(60) DEF TypeOK, register
  <2> QED BY <1>2, <2>1, Silent, Zenon DEF register
<1>3. CASE GuestServerStops
  <2>1. TypeOK'
    BY <1>0, <1>3 DEF TypeOK, GuestServerStops, Aborted
  <2> QED BY <1>3, <2>1, Silent, Zenon DEF GuestServerStops
<1>4. ASSUME NEW t \in {"guest", "timeout"}, dispatch(t, Update("guest", "error")), Up, UNCHANGED reg,
             guest' \in {"none", "serving", "done"}, timeout' \in {"none", "sleeping", "late", "done"},
             ready' = ready
      PROVE  IInv'
  <2>1. PICK e \in StatusUpdate : e = Update("guest", "error")
    BY UpdateFacts, Zenon DEF GuestStates
  <2>2. dispatch(t, e) /\ e.source = "guest" /\ e.state = "error" /\ t \in Tasks
    BY <1>0, <1>4, <2>1, UpdateFacts, Zenon
  <2>3. TypeOK'
    BY <1>0, <1>4, <2>2, Reduced DEF TypeOK
  <2>4. Unregistered' => e # Update("guest", "running") /\ Unregistered
    BY <1>4, <2>2, UpdateFacts DEF Unregistered
  <2> QED BY <1>4, <2>2, <2>3, <2>4, Telling, Zenon
<1>5. CASE GuestServerFails
  BY <1>0, <1>4, <1>5, ZenonT(60) DEF GuestServerFails, Aborted, TypeOK
<1>6. CASE spawn_readiness_timeout
  <2>1. CASE UNCHANGED dispatched
    <3>1. TypeOK'
      BY <1>0, <1>6, <2>1 DEF TypeOK, spawn_readiness_timeout
    <3> QED BY <1>6, <2>1, <3>1, Silent, ZenonT(60) DEF spawn_readiness_timeout
  <2>2. CASE timeout' = "done" /\ dispatch("timeout", Update("guest", "error"))
    BY <1>0, <1>4, <1>6, <2>2, Zenon DEF spawn_readiness_timeout, TypeOK
  <2> QED BY <1>6, <2>1, <2>2, ZenonT(60) DEF spawn_readiness_timeout
<1> QED BY <1>1, <1>2, <1>3, <1>5, <1>6, ZenonT(60) DEF GuestStep

\* An update is published to the connections.
LEMMA PublishStep ==
    ASSUME IInv, NEW t \in Tasks, publish(t)
    PROVE  IInv'
<1> USE DEF hostVars, guestVars
<1>1. PICK e \in StatusUpdate : e = pub[t]
  BY Zenon DEF publish, IInv, TypeOK
<1>2. pub' = [pub EXCEPT ![t] = None] /\ store' = store /\ main' = main /\ mode' = mode /\ reg' = reg
  BY Zenon DEF publish
<1>3. /\ MainInv' /\ pub' \in [Tasks -> StatusUpdate \cup {None}]
      /\ \A r \in Client : Follows(r) => Delivered(r, e) \in Client /\ Follows(Delivered(r, e))'
  BY <1>1, <1>2, Published, ZenonT(60) DEF IInv
<1>4. cl' = [c \in Clients |-> Delivered(cl[c], e)]
  BY <1>1, ZenonT(60) DEF publish
<1>5. \A c \in Clients : cl[c] \in Client /\ Follows(cl[c])
  BY Zenon DEF IInv, TypeOK
<1>6. TypeOK'
  <2>1. cl' \in [Clients -> Client]
    BY <1>3, <1>4, <1>5, Zenon
  <2> QED BY <1>2, <1>3, <2>1 DEF IInv, TypeOK, publish
<1>7. \A c \in Clients : Follows(cl[c])'
  <2> TAKE c \in Clients
  <2>1. PICK r \in Client : r = cl[c] /\ Follows(r)
    BY <1>5, Zenon
  <2>2. PICK q : q = Delivered(r, e)
    BY Zenon
  <2>3. Follows(q)'
    BY <1>3, <2>1, <2>2, ZenonT(60)
  <2>4. cl'[c] = q
    BY <1>4, <2>1, <2>2, ZenonT(60)
  <2> QED BY <2>3, <2>4 DEF Follows, Fresh, Ordered, Fits, VmTold, GuestTold, Decisive
<1>8. EarnedInv'
  <2> SUFFICES ASSUME Unregistered PROVE /\ store'.guest # "running"
                                         /\ \A u \in Tasks : pub'[u] # Update("guest", "running")
                                         /\ \A c \in Clients : Untold(cl[c])'
    BY <1>2, Zenon DEF EarnedInv, Unregistered
  <2>1. /\ store.guest # "running" /\ \A u \in Tasks : pub[u] # Update("guest", "running")
        /\ \A c \in Clients : Untold(cl[c])
    BY Zenon DEF IInv, EarnedInv
  <2>2. \A u \in Tasks : pub'[u] # Update("guest", "running")
    <3>1. None # Update("guest", "running")
      BY UpdateFacts, MonitorAssumption, ZenonT(60) DEF GuestStates
    <3> QED BY <1>2, <2>1, <3>1, ZenonT(60) DEF IInv, TypeOK
  <2>3. \A c \in Clients : Untold(cl[c])'
    <3> TAKE c \in Clients
    <3>1. PICK r \in Client : r = cl[c] /\ Untold(r)
      BY <1>5, <2>1, ZenonT(60)
    <3>2. e # Update("guest", "running") /\ cl'[c] = Delivered(r, e)
      BY <1>1, <1>4, <2>1, <3>1, ZenonT(60)
    <3>3. CASE r.pc = "subscribe"
      <4>1. cl'[c] = [r EXCEPT !.gap = TRUE]
        BY <3>2, <3>3, Zenon DEF Delivered
      <4> QED BY <3>1, <4>1 DEF Untold, Client
    <3>4. CASE r.pc = "stream" /\ ~ r.lagged /\ Len(r.inbox) < BusCapacity
      <4>1. cl'[c] = [r EXCEPT !.inbox = Append(r.inbox, e)]
        BY <3>2, <3>4, Zenon DEF Delivered
      <4>2. cl'[c].pc = r.pc /\ cl'[c].snapshot = r.snapshot /\ cl'[c].inbox = Append(r.inbox, e)
        BY <4>1, Zenon DEF Client
      <4>3. r.inbox \in Seq(StatusUpdate)
        BY Zenon DEF Client
      <4>4. \A i \in 1..Len(Append(r.inbox, e)) : Append(r.inbox, e)[i] # Update("guest", "running")
        BY <3>1, <3>2, <4>3 DEF Untold
      <4> QED BY <3>1, <4>2, <4>4, ZenonT(60) DEF Untold
    <3>5. CASE r.pc = "stream" /\ ~ r.lagged /\ ~ (Len(r.inbox) < BusCapacity)
      <4>1. cl'[c] = [r EXCEPT !.inbox = <<>>, !.lagged = TRUE]
        BY <3>2, <3>5, ZenonT(60) DEF Delivered
      <4>2. cl'[c].pc = r.pc /\ cl'[c].snapshot = r.snapshot /\ cl'[c].inbox = <<>>
        BY <4>1, ZenonT(60) DEF Client
      <4> QED BY <3>1, <4>2 DEF Untold
    <3>6. CASE r.pc # "subscribe" /\ ~ (r.pc = "stream" /\ ~ r.lagged)
      <4>1. cl'[c] = r
        BY <3>2, <3>6, ZenonT(60) DEF Delivered
      <4> QED BY <3>1, <4>1, ZenonT(60) DEF Untold
    <3> QED BY <3>3, <3>4, <3>5, <3>6, Zenon
  <2> QED BY <1>2, <2>1, <2>2, <2>3, ZenonT(60)
<1> QED BY <1>3, <1>6, <1>7, <1>8, Zenon DEF IInv

\* A connection moves on outside the stream, or ends.
LEMMA GotoStep ==
    ASSUME IInv, UNCHANGED daemonVars, socket' \in {"none", "accept", "handshake", "done"},
           NEW c \in Clients, NEW place \in Places \ {"subscribe", "stream"}, Goto(c, place),
           place \in {"ok", "err"} \/ cl[c].pc \notin {"subscribe", "stream"},
           place = "ok" => store.guest = "running" \/ ~ Unregistered
    PROVE  IInv'
<1>1. PICK r \in Client : r = cl[c] /\ Follows(r) /\ (Unregistered => Untold(r))
  BY Zenon DEF IInv, TypeOK, EarnedInv
<1>2. place = "ok" => ~ Unregistered
  BY Zenon DEF IInv, EarnedInv
<1>3. CASE place \in {"ok", "err"}
  <2>1. PICK q : q = [NoClient EXCEPT !.pc = place]
    BY Zenon
  <2>2. q \in Client /\ Follows(q) /\ (Unregistered => Untold(q))
    BY <1>2, <2>1, Ended, ZenonT(60)
  <2>3. cl' = [cl EXCEPT ![c] = q]
    BY <1>3, <2>1, ZenonT(60) DEF Goto
  <2> QED BY <2>2, <2>3, ClientStep, Zenon
<1>4. CASE place \notin {"ok", "err"}
  <2>1. PICK q : q = [r EXCEPT !.pc = place]
    BY Zenon
  <2>2. q \in Client /\ Follows(q) /\ (Unregistered => Untold(q))
    BY <1>1, <1>4, <2>1, Moved, ZenonT(60)
  <2>3. cl' = [cl EXCEPT ![c] = q]
    BY <1>1, <1>4, <2>1, Zenon DEF Goto
  <2> QED BY <2>2, <2>3, ClientStep, Zenon
<1> QED BY <1>3, <1>4, ZenonT(60)

\* The control socket, and the clients that ping or open a shell.
LEMMA SocketSteps ==
    ASSUME IInv, NEW c \in Clients,
           \/ Connect(c) \/ Accept(c) \/ HandshakeTimeout(c) \/ ping(c) \/ Shell(c) \/ ClientTimeout(c)
           \/ \E upgrade \in {"ping", "shell", "watch"} : Negotiated(c, upgrade)
    PROVE  IInv'
<1> USE DEF Step, At, Places
<1>0. socket \in {"none", "accept", "handshake", "done"}
  BY Zenon DEF IInv, TypeOK
<1>1. CASE Connect(c)
  BY <1>0, <1>1, GotoStep, ZenonT(60) DEF Connect
<1>2. CASE Accept(c)
  BY <1>2, GotoStep, ZenonT(60) DEF Accept
<1>3. CASE HandshakeTimeout(c)
  BY <1>3, GotoStep, Zenon DEF HandshakeTimeout
<1>4. CASE ping(c)
  BY <1>0, <1>4, GotoStep, ZenonT(60) DEF ping, select_current_ping, guest_shell_ready
<1>5. CASE Shell(c)
  BY <1>0, <1>5, GotoStep, Zenon DEF Shell, guest_shell_ready
<1>6. CASE ClientTimeout(c)
  BY <1>0, <1>6, GotoStep, Zenon DEF ClientTimeout
<1>7. ASSUME NEW upgrade \in {"ping", "shell", "watch"}, Negotiated(c, upgrade) PROVE IInv'
  BY <1>7, GotoStep, Zenon DEF Negotiated
<1> QED BY <1>1, <1>2, <1>3, <1>4, <1>5, <1>6, <1>7, ZenonT(60)

\* watch_status: the snapshot, then the subscription.
LEMMA WatchStep ==
    ASSUME IInv, NEW c \in Clients, watch_status(c)
    PROVE  IInv'
<1>0. socket' \in {"none", "accept", "handshake", "done"} /\ UNCHANGED daemonVars
  BY Zenon DEF IInv, TypeOK, watch_status
<1>1. PICK r \in Client : r = cl[c] /\ Follows(r) /\ (Unregistered => store.guest # "running" /\ Untold(r))
  BY Zenon DEF IInv, TypeOK, EarnedInv
<1>2. CASE r.pc = "watch"
  <2>1. PICK q : q = [r EXCEPT !.pc = "subscribe", !.snapshot = select_current_events]
    BY Zenon
  <2>2. q \in Client /\ Follows(q) /\ (Unregistered => Untold(q))
    BY <1>1, <1>2, <2>1, Watched, Zenon DEF IInv
  <2>3. cl' = [cl EXCEPT ![c] = q]
    BY <1>1, <1>2, <2>1, ZenonT(60) DEF watch_status, Step, At
  <2> QED BY <1>0, <2>2, <2>3, ClientStep, ZenonT(60)
<1>3. CASE r.pc = "subscribe"
  <2>1. PICK q : q = [r EXCEPT !.pc = "stream"]
    BY Zenon
  <2>2. q \in Client /\ Follows(q) /\ (Unregistered => Untold(q))
    BY <1>1, <1>3, <2>1, Subscribed, ZenonT(60)
  <2>3. cl' = [cl EXCEPT ![c] = q]
    BY <1>1, <1>3, <2>1, ZenonT(60) DEF watch_status, Step, At, Goto
  <2> QED BY <1>0, <2>2, <2>3, ClientStep, Zenon
<1> QED BY <1>1, <1>2, <1>3, ZenonT(60) DEF watch_status, Step, At

\* wait_for_guest_running: the snapshot's updates, then those of the bus.
LEMMA WaitStep ==
    ASSUME IInv, NEW c \in Clients, wait_for_guest_running(c)
    PROVE  IInv'
<1>0. socket' \in {"none", "accept", "handshake", "done"} /\ UNCHANGED daemonVars /\ TypeOK
  BY Zenon DEF IInv, TypeOK, wait_for_guest_running
<1>1. PICK r \in Client : r = cl[c] /\ Follows(r) /\ (Unregistered => Untold(r)) /\ r.pc = "stream"
  BY Zenon DEF IInv, TypeOK, EarnedInv, wait_for_guest_running, At
<1>2. r.snapshot \in Seq(StatusUpdate) /\ r.inbox \in Seq(StatusUpdate) /\ r.ran \in BOOLEAN
  BY Zenon DEF Client
<1>3. ASSUME NEW e \in StatusUpdate, Verdict(r.ran, e) # "stream", Untold(r) => e # Update("guest", "running"),
             cl' = [cl EXCEPT ![c] = [NoClient EXCEPT !.pc = Verdict(r.ran, e)]]
      PROVE  IInv'
  <2>1. PICK place \in {"ok", "err"} : place = Verdict(r.ran, e)
    BY <1>3, GoesOn, Zenon
  <2>2. PICK q : q = [NoClient EXCEPT !.pc = place]
    BY Zenon
  <2>3. place = "ok" => ~ Unregistered
    BY <1>1, <1>3, <2>1, GoesOn, ZenonT(60)
  <2>4. q \in Client /\ Follows(q) /\ (Unregistered => Untold(q))
    BY <2>2, <2>3, Ended, ZenonT(60) DEF Places
  <2>5. cl' = [cl EXCEPT ![c] = q]
    BY <1>3, <2>1, <2>2, ZenonT(60)
  <2> QED BY <1>0, <2>4, <2>5, ClientStep, ZenonT(60)
<1>4. CASE r.snapshot # <<>> /\ Received(c, Head(r.snapshot), [r EXCEPT !.snapshot = Tail(@)])
  <2>1. PICK e \in StatusUpdate : e = Head(r.snapshot) /\ e = r.snapshot[1] /\ 1 \in 1..Len(r.snapshot)
    BY <1>2, <1>4
  <2> DEFINE rest == [r EXCEPT !.snapshot = Tail(r.snapshot)]
             ran == r.ran \/ e = Update("vm", "running")
             q == [r EXCEPT !.snapshot = Tail(r.snapshot), !.ran = ran,
                            !.told = IF e.source = "vm" THEN e.state ELSE r.told]
  <2>2. rest.ran = r.ran /\ q = [rest EXCEPT !.ran = @ \/ e = Update("vm", "running"),
                                            !.told = IF e.source = "vm" THEN e.state ELSE @]
    BY Zenon DEF Client
  <2>3. CASE Verdict(r.ran, e) # "stream"
    <3>1. cl' = [cl EXCEPT ![c] = [NoClient EXCEPT !.pc = Verdict(r.ran, e)]]
      BY <1>4, <2>1, <2>2, <2>3, ZenonT(60) DEF Received
    <3> QED BY <1>3, <2>1, <2>3, <3>1, ZenonT(60) DEF Untold
  <2>4. CASE Verdict(r.ran, e) = "stream"
    <3>1. cl' = [cl EXCEPT ![c] = q]
      BY <1>4, <2>1, <2>2, <2>4, ZenonT(60) DEF Received
    <3>2. ran \in BOOLEAN
      BY <1>2, ZenonT(60)
    <3>3. q \in Client /\ Follows(q) /\ (Untold(r) => Untold(q))
      BY <1>0, <1>1, <1>4, <2>1, <2>4, <3>2, SnapshotReceived, ZenonT(60)
    <3> QED BY <1>0, <1>1, <3>1, <3>3, ClientStep, ZenonT(60)
  <2> QED BY <2>3, <2>4, Zenon
<1>5. CASE r.snapshot = <<>> /\ r.inbox # <<>> /\ Received(c, Head(r.inbox), [r EXCEPT !.inbox = Tail(@)])
  <2>1. PICK e \in StatusUpdate : e = Head(r.inbox) /\ e = r.inbox[1] /\ 1 \in 1..Len(r.inbox)
    BY <1>2, <1>5
  <2> DEFINE rest == [r EXCEPT !.inbox = Tail(r.inbox)]
             ran == r.ran \/ e = Update("vm", "running")
             q == [r EXCEPT !.inbox = Tail(r.inbox), !.ran = ran,
                            !.told = IF e.source = "vm" THEN e.state ELSE r.told]
  <2>2. rest.ran = r.ran /\ q = [rest EXCEPT !.ran = @ \/ e = Update("vm", "running"),
                                            !.told = IF e.source = "vm" THEN e.state ELSE @]
    BY Zenon DEF Client
  <2>3. CASE Verdict(r.ran, e) # "stream"
    <3>1. cl' = [cl EXCEPT ![c] = [NoClient EXCEPT !.pc = Verdict(r.ran, e)]]
      BY <1>5, <2>1, <2>2, <2>3, ZenonT(60) DEF Received
    <3> QED BY <1>3, <2>1, <2>3, <3>1, Zenon DEF Untold
  <2>4. CASE Verdict(r.ran, e) = "stream"
    <3>1. cl' = [cl EXCEPT ![c] = q]
      BY <1>5, <2>1, <2>2, <2>4, ZenonT(60) DEF Received
    <3>2. ran \in BOOLEAN
      BY <1>2, Zenon
    <3>3. q \in Client /\ Follows(q) /\ (Untold(r) => Untold(q))
      BY <1>0, <1>1, <1>5, <2>1, <2>4, <3>2, InboxReceived, ZenonT(60)
    <3> QED BY <1>0, <1>1, <3>1, <3>3, ClientStep, ZenonT(60)
  <2> QED BY <2>3, <2>4, Zenon
<1>6. CASE Goto(c, "err")
  BY <1>0, <1>6, GotoStep, Zenon DEF Places
<1> QED BY <1>1, <1>4, <1>5, <1>6, ZenonT(60) DEF wait_for_guest_running

\* The process exits, or its socket closes: the connections that were open or queued end.
LEMMA ClosingSteps ==
    ASSUME IInv, ProcessExits \/ SocketShutdown
    PROVE  IInv'
<1> USE DEF hostVars, guestVars, daemonVars
<1>1. PICK q : q = [NoClient EXCEPT !.pc = "err"]
  BY Zenon
<1>2. q \in Client /\ Follows(q) /\ Untold(q)
  BY <1>1, Ended, Zenon DEF Places
<1>3. \A c \in Clients : cl'[c] \in {cl[c], q}
  BY <1>1, Zenon DEF ProcessExits, SocketShutdown
<1>4. \A c \in Clients : \E p \in Client : p = cl'[c] /\ Follows(p) /\ (Unregistered => Untold(p))
  <2> TAKE c \in Clients
  <2>1. cl[c] \in Client /\ Follows(cl[c]) /\ (Unregistered => Untold(cl[c]))
    BY Zenon DEF IInv, TypeOK, EarnedInv
  <2> QED BY <1>2, <1>3, <2>1, ZenonT(60)
<1>5. cl' \in [Clients -> Client]
  <2>1. cl' = [c \in Clients |-> cl'[c]]
    BY Zenon DEF ProcessExits, SocketShutdown
  <2> QED BY <1>4, <2>1, ZenonT(60)
<1>6. TypeOK' /\ UNCHANGED <<dispatched, mode, reg>> /\ (main' \in Early => main \in Early)
  BY <1>5 DEF IInv, TypeOK, ProcessExits, SocketShutdown, Main, dispatched, Early
<1> QED BY <1>4, <1>6, ClientsStep, Zenon

\* The invariant holds when startup::init hands over,
LEMMA MonitorStarts == ASSUME Init PROVE IInv
<1>1. NoClient \in Client /\ Follows(NoClient) /\ Untold(NoClient)
  <2>1. <<>> \in Seq(StatusUpdate)
    OBVIOUS
  <2>2. NoClient \in Client
    BY <2>1, Zenon DEF NoClient, Client, Places
  <2>3. Follows(NoClient) /\ Untold(NoClient)
    BY DEF NoClient, Follows, Fresh, Untold
  <2> QED BY <2>2, <2>3, Zenon
<1>2. TypeOK
  BY <1>1, Zenon DEF Init, TypeOK, VmStates, GuestStates
<1>3. MainInv
  BY Zenon DEF Init, MainInv, Early
<1>4. \A c \in Clients : cl[c] = NoClient
  BY Zenon DEF Init
<1>5. EarnedInv
  <2>1. Update("guest", "running") # None
    BY UpdateFacts, MonitorAssumption, ZenonT(60) DEF GuestStates
  <2> QED BY <1>1, <1>4, <2>1, ZenonT(60) DEF Init, EarnedInv
<1> QED BY <1>1, <1>2, <1>3, <1>4, <1>5, Zenon DEF IInv

\* and every step keeps it.
LEMMA MonitorKeeps == ASSUME IInv, [Next]_vars PROVE IInv'
<1>1. CASE UNCHANGED vars
  <2>1. TypeOK'
    BY <1>1 DEF vars, IInv, TypeOK
  <2> QED BY <1>1, <2>1, Silent, ZenonT(60) DEF vars, dispatched
<1>2. CASE Next
  BY <1>2, MainSteps, GuestSteps, PublishStep, SocketSteps, WatchStep, WaitStep, ClosingSteps, Zenon
  DEF Next, MainStep, Handler
<1> QED BY <1>1, <1>2, Zenon

LEMMA MonitorInvariance == Spec => []IInv
<1>1. Init => IInv
  BY MonitorStarts, Zenon
<1>2. IInv /\ [Next]_vars => IInv'
  BY MonitorKeeps, Zenon
<1> QED BY <1>1, <1>2, PTL DEF Spec

\* The services of a monitor keep their types.
THEOREM MonitorTypeCorrect == Spec => []TypeOK
<1>1. IInv => TypeOK
  BY Zenon DEF IInv
<1> QED BY <1>1, MonitorInvariance, PTL

\* No ping, shell or wait_for_guest_running is answered with a running guest before the guest
\* agent has called register, when the machine was started to wait for it; whatever the timeout,
\* the guest server and the shutdown do in between.
THEOREM GuestHasRegistered == Spec => []ReadyIsEarned
<1>1. IInv => ReadyIsEarned
  BY ZenonT(60) DEF IInv, EarnedInv, Unregistered, Untold, ReadyIsEarned
<1> QED BY <1>1, MonitorInvariance, PTL

\* watch_status loses nothing but what is published between its snapshot and its subscription, or
\* what the bus drops and reports as a lag: a client that has received everything knows the vm's
\* state, and that the guest is undecided.  Updates of different tasks may be published in another
\* order than they were reduced in.
THEOREM WatchersAreTold == Spec => []StreamIsComplete
<1>1. IInv => StreamIsComplete
  <2> SUFFICES ASSUME IInv, NEW c \in Clients,
                      cl[c].pc = "stream", cl[c].snapshot = <<>>, cl[c].inbox = <<>>,
                      ~ cl[c].lagged, ~ cl[c].gap, \A t \in Tasks : pub[t] = None
               PROVE  cl[c].told = store.vm /\ store.guest \in {"unspecified", "starting"}
    BY Zenon DEF StreamIsComplete
  <2>1. PICK r \in Client : r = cl[c] /\ Ordered(r) /\ VmTold(r) /\ GuestTold(r)
    BY Zenon DEF IInv, TypeOK, Follows
  <2>2. pub["main"] # Update("vm", store.vm)
    <3>1. Update("vm", store.vm) # None
      BY UpdateFacts, MonitorAssumption DEF IInv, TypeOK
    <3> QED BY <3>1, Zenon DEF Tasks
  <2>3. r.told = store.vm
    BY <2>1, <2>2 DEF Ordered, VmTold
  <2>4. store.guest \in {"unspecified", "starting"}
    BY <2>1 DEF GuestTold
  <2> QED BY <2>1, <2>3, <2>4, ZenonT(60)
<1> QED BY <1>1, MonitorInvariance, PTL

-----------------------------------------------------------------------------
(* SerialConsole *)

States == [at: ClientPlaces, access: {"Interactive", "Watch"}, next: Nat, lagged: BOOLEAN]
SerialType ==
    /\ attachment \in BOOLEAN /\ copied \in BOOLEAN
    /\ attach_lock \in Callers \cup {None}
    /\ guestOut \in Nat /\ sent \in Nat /\ chunk \in Nat \cup {None}
    /\ sink \in {"no", "open", "failed"}
    /\ log \in Seq(Nat)
    /\ hubOwner \in Viewers \cup {None}
    /\ client \in [Callers -> States]

\* Whoever opens the device holds the lock and found it closed, and a closed device has no reader.
DeviceInv ==
    /\ \A c \in Callers : Is(c, "open") => attach_lock = c /\ ~attachment
    /\ readers \in {0, 1}
    /\ ~attachment => readers = 0

\* Whoever types owns the console.
TypistInv == \A c \in Viewers : Is(c, "typing") => hubOwner = c

\* The reader holds the chunk after the last one sent; the last chunk of an open log is the one
\* that was copied last.
LogInv ==
    /\ chunk # None => chunk = sent + 1
    /\ ~Is(Logger, "hub")
    /\ Is(Logger, "no") => sink = "no"
    /\ sink = "no" => log = <<>>
    /\ \A i \in 1..Len(log) : log[i] = log[1] + i - 1
    /\ Len(log) > 0 /\ sink = "open" =>
          log[Len(log)] = IF chunk # None /\ copied THEN chunk ELSE sent

SerialInv == SerialType /\ DeviceInv /\ TypistInv /\ LogInv

\* Nothing is open and nobody is attached (SerialInit).
LEMMA SerialStart == ASSUME SerialInit PROVE SerialInv
<1>1. client \in [Callers -> States]
  <2>1. [at |-> "no", access |-> "Watch", next |-> 1, lagged |-> FALSE] \in States
    BY Zenon DEF States, ClientPlaces
  <2> QED BY <2>1, Zenon DEF SerialInit
<1>2. SerialType
  <2>1. log \in Seq(Nat)
    BY DEF SerialInit
  <2>2. guestOut \in Nat /\ sent \in Nat /\ chunk \in Nat \cup {None} /\ sink \in {"no", "open", "failed"}
    BY Zenon DEF SerialInit
  <2> QED BY <1>1, <2>1, <2>2, Zenon DEF SerialInit, SerialType
<1> QED BY <1>2, SerialAssumption DEF SerialInit, SerialInv, DeviceInv, TypistInv, LogInv, Is, Callers

\* A client that moves on keeps all but its place.
LEMMA ClientMoves ==
  ASSUME SerialType, NEW c \in Callers, NEW at \in ClientPlaces, Move(c, at)
  PROVE /\ client' \in [Callers -> States]
        /\ client'[c].at = at /\ client'[c].next = client[c].next
        /\ \A d \in Callers : d # c => client'[d] = client[d]
  BY ZenonT(60) DEF SerialType, Move, States

\* A caller attaches, and opens the device if it is closed.
LEMMA Serial_ensure_attached ==
  ASSUME SerialInv, NEW c \in Callers, ensure_attached(c)
  PROVE SerialInv'
<1> USE SerialAssumption DEF ensure_attached, AfterAttach, readerVars, Is, Callers
<1>1. SerialType'
  BY ClientMoves, ZenonT(60) DEF SerialInv, SerialType, ClientPlaces
<1>2. DeviceInv'
  BY ClientMoves DEF SerialInv, SerialType, DeviceInv, ClientPlaces
<1>3. TypistInv'
  BY ClientMoves, ZenonT(60) DEF SerialInv, SerialType, TypistInv, ClientPlaces
<1>4. LogInv'
  BY ClientMoves, ZenonT(60) DEF SerialInv, SerialType, LogInv, ClientPlaces
<1> QED BY <1>1, <1>2, <1>3, <1>4, Zenon DEF SerialInv

\* The console device is opened.
LEMMA Serial_open_serial_device ==
  ASSUME SerialInv, NEW c \in Callers, open_serial_device(c)
  PROVE SerialInv'
<1> USE SerialAssumption DEF open_serial_device, AfterAttach, readerVars, Is, Callers
<1>1. SerialType'
  BY ClientMoves, ZenonT(60) DEF SerialInv, SerialType, ClientPlaces
<1>2. DeviceInv'
  BY ClientMoves DEF SerialInv, SerialType, DeviceInv, ClientPlaces
<1>3. TypistInv'
  BY ClientMoves, ZenonT(60) DEF SerialInv, SerialType, TypistInv, ClientPlaces
<1>4. LogInv'
  BY ClientMoves, ZenonT(60) DEF SerialInv, SerialType, LogInv, ClientPlaces
<1> QED BY <1>1, <1>2, <1>3, <1>4, Zenon DEF SerialInv

\* A client types, leaves and is detached.
LEMMA Serial_detach ==
  ASSUME SerialInv, NEW c \in Callers, detach(c)
  PROVE SerialInv'
<1> USE SerialAssumption DEF detach, readerVars, Is, Callers
<1>1. SerialType'
  BY ClientMoves, Zenon DEF SerialInv, SerialType, ClientPlaces
<1>2. DeviceInv'
  BY ClientMoves, ZenonT(60) DEF SerialInv, SerialType, DeviceInv, ClientPlaces
<1>3. TypistInv'
  BY ClientMoves DEF SerialInv, SerialType, TypistInv, ClientPlaces
<1>4. LogInv'
  BY ClientMoves, ZenonT(60) DEF SerialInv, SerialType, LogInv, ClientPlaces
<1> QED BY <1>1, <1>2, <1>3, <1>4, Zenon DEF SerialInv

\* A client goes, and its proxy with it.
LEMMA Serial_proxy_serial_stream_ends ==
  ASSUME SerialInv, NEW c \in Viewers, proxy_serial_stream_ends(c)
  PROVE SerialInv'
<1> USE SerialAssumption DEF proxy_serial_stream_ends, readerVars, Is, Callers
<1>1. SerialType'
  BY ClientMoves, ZenonT(60) DEF SerialInv, SerialType, ClientPlaces
<1>2. DeviceInv'
  BY ClientMoves, ZenonT(60) DEF SerialInv, SerialType, DeviceInv, ClientPlaces
<1>3. TypistInv'
  BY ClientMoves, ZenonT(60) DEF SerialInv, SerialType, TypistInv, ClientPlaces
<1>4. LogInv'
  BY ClientMoves, ZenonT(60) DEF SerialInv, SerialType, LogInv, ClientPlaces
<1> QED BY <1>1, <1>2, <1>3, <1>4, Zenon DEF SerialInv

\* A client's input reaches the device.
LEMMA Serial_write_input ==
  ASSUME SerialInv, NEW c \in Viewers, write_input(c)
  PROVE SerialInv'
<1> USE SerialAssumption DEF write_input, readerVars, Is, Callers
<1>1. SerialType'
  BY ClientMoves DEF SerialInv, SerialType, ClientPlaces
<1>2. DeviceInv'
  BY ClientMoves, SMTT(60) DEF SerialInv, SerialType, DeviceInv, ClientPlaces
<1>3. TypistInv'
  BY ClientMoves DEF SerialInv, SerialType, TypistInv, ClientPlaces
<1>4. LogInv'
  BY ClientMoves, ZenonT(60) DEF SerialInv, SerialType, LogInv, ClientPlaces
<1> QED BY <1>1, <1>2, <1>3, <1>4, Zenon DEF SerialInv

\* open_stream and stream_to_file begin.
LEMMA Serial_OpenStream ==
  ASSUME SerialInv, NEW c \in Viewers, NEW a \in {"Interactive", "Watch"},
         OpenStream(c, a)
  PROVE SerialInv'
<1> USE SerialAssumption DEF OpenStream, readerVars, Is, Callers
<1>1. /\ client' \in [Callers -> States]
      /\ client'[c].at = "check"
      /\ \A d \in Callers : d # c => client'[d] = client[d]
  <2> DEFINE q == [[client[c] EXCEPT !.at = "check"] EXCEPT !.access = a]
  <2>1. client \in [Callers -> States] /\ c \in Callers
    BY Zenon DEF SerialInv, SerialType
  <2>2. client' = [client EXCEPT ![c] = q]
    BY <2>1, Zenon
  <2>3. q \in States /\ q.at = "check"
    BY <2>1, ZenonT(60) DEF States, ClientPlaces
  <2> HIDE DEF q
  <2> QED BY <2>1, <2>2, <2>3, ZenonT(60)
<1>2. SerialType'
  BY <1>1, Zenon DEF SerialInv, SerialType
<1>3. DeviceInv'
  BY <1>1, Zenon DEF SerialInv, SerialType, DeviceInv
<1>4. TypistInv'
  BY <1>1, Zenon DEF SerialInv, SerialType, TypistInv
<1>5. LogInv'
  BY <1>1, Zenon DEF SerialInv, SerialType, LogInv
<1> QED BY <1>2, <1>3, <1>4, <1>5, Zenon DEF SerialInv

\* stream_to_file pushes its file before it attaches.
LEMMA Serial_stream_to_file ==
  ASSUME SerialInv, stream_to_file
  PROVE SerialInv'
<1> USE SerialAssumption DEF stream_to_file, readerVars, Is, Callers
<1>1. SerialType'
  BY ClientMoves, Zenon DEF SerialInv, SerialType, ClientPlaces
<1>2. DeviceInv'
  BY ClientMoves, ZenonT(60) DEF SerialInv, SerialType, DeviceInv, ClientPlaces
<1>3. TypistInv'
  BY ClientMoves, ZenonT(60) DEF SerialInv, SerialType, TypistInv, ClientPlaces
<1>4. LogInv'
  BY ClientMoves DEF SerialInv, SerialType, LogInv, ClientPlaces
<1> QED BY <1>1, <1>2, <1>3, <1>4, Zenon DEF SerialInv

\* SerialHub::attach refuses a second interactive client.
LEMMA Serial_attach ==
  ASSUME SerialInv, NEW c \in Viewers, attach(c)
  PROVE SerialInv'
<1> USE SerialAssumption DEF readerVars, Is, Callers
<1>1. /\ client' \in [Callers -> States]
      /\ client'[c].at \in {"relay", "gone"}
      /\ \A d \in Callers : d # c => client'[d] = client[d]
  <2> DEFINE q == [[client[c] EXCEPT !.at = "relay"] EXCEPT !.next = sent + 1]
  <2>1. client \in [Callers -> States] /\ c \in Callers /\ client[c] \in States /\ sent \in Nat
    BY Zenon DEF SerialInv, SerialType
  <2>2. Move(c, "gone") \/ client' = [client EXCEPT ![c] = q]
    BY <2>1, Zenon DEF attach
  <2>3. sent + 1 \in Nat
    BY <2>1, SMT
  <2>4. q \in States /\ q.at = "relay"
    BY <2>1, <2>3, ZenonT(60) DEF States, ClientPlaces
  <2> HIDE DEF q
  <2>5. CASE client' = [client EXCEPT ![c] = q]
    BY <2>1, <2>4, <2>5, Zenon
  <2>6. CASE Move(c, "gone")
    BY <2>1, <2>6, ClientMoves, Zenon DEF SerialInv, ClientPlaces
  <2> QED BY <2>2, <2>5, <2>6, Zenon
<1>2. /\ hubOwner' \in Viewers \cup {None}
      /\ hubOwner' # hubOwner => hubOwner = None \/ hubOwner' = hubOwner
  BY Zenon DEF SerialInv, SerialType, attach
<1>3. SerialType'
  BY <1>1, <1>2, Zenon DEF SerialInv, SerialType, attach
<1>4. DeviceInv'
  BY <1>1, Zenon DEF SerialInv, SerialType, DeviceInv, attach
<1>5. TypistInv'
  BY <1>1, <1>2, SMTT(60) DEF SerialInv, SerialType, TypistInv, attach
<1>6. LogInv'
  BY <1>1, Zenon DEF SerialInv, SerialType, LogInv, attach
<1> QED BY <1>3, <1>4, <1>5, <1>6, Zenon DEF SerialInv

\* A client's relay takes the next chunk, or the oldest that is kept.
LEMMA Serial_recv ==
  ASSUME SerialInv, NEW c \in Callers, recv(c)
  PROVE SerialInv'
<1> USE SerialAssumption DEF readerVars, Is
<1>1. /\ client' \in [Callers -> States]
      /\ client'[c].at = client[c].at
      /\ \A d \in Callers : d # c => client'[d] = client[d]
  <2>1. client[c].next \in Nat /\ sent \in Nat /\ client[c] \in States
    BY Zenon DEF SerialInv, SerialType, States
  <2>2. sent - client[c].next >= Capacity => sent - Capacity + 1 \in Nat
    BY <2>1
  <2>3. CASE sent - client[c].next >= Capacity
    BY <2>1, <2>2, <2>3, Zenon DEF SerialInv, SerialType, States, recv
  <2>4. CASE ~(sent - client[c].next >= Capacity)
    BY <2>1, <2>4, SMTT(60) DEF SerialInv, SerialType, States, recv
  <2> QED BY <2>3, <2>4, Zenon
<1>2. SerialType'
  BY <1>1, Zenon DEF SerialInv, SerialType, recv
<1>3. DeviceInv'
  BY <1>1, ZenonT(60) DEF SerialInv, SerialType, DeviceInv, recv
<1>4. TypistInv'
  BY <1>1, ZenonT(60) DEF SerialInv, SerialType, TypistInv, recv, Callers
<1>5. LogInv'
  BY <1>1, ZenonT(60) DEF SerialInv, SerialType, LogInv, recv, Callers
<1> QED BY <1>2, <1>3, <1>4, <1>5, Zenon DEF SerialInv

\* The reader reads a chunk, gives it to the log, then sends it.
LEMMA Serial_run_serial_reader ==
  ASSUME SerialInv, run_serial_reader
  PROVE SerialInv'
<1> USE SerialAssumption DEF run_serial_reader, Is
<1>1. SerialType'
  <2>1. /\ sent' \in Nat /\ chunk' \in Nat \cup {None}
        /\ sink' \in {"no", "open", "failed"} /\ copied' \in BOOLEAN
    <3>1. sent' = sent \/ (chunk # None /\ sent' = chunk)
      BY Zenon
    <3>2. sent' \in Nat /\ chunk' \in Nat \cup {None}
      BY <3>1 DEF SerialInv, SerialType
    <3>3. sink' \in {"no", "open", "failed"} /\ copied' \in BOOLEAN
      BY Zenon DEF SerialInv, SerialType
    <3> QED BY <3>2, <3>3, Zenon
  <2>2. log' \in Seq(Nat)
    <3>1. CASE log' = log
      BY <3>1, Zenon DEF SerialInv, SerialType
    <3>2. CASE log' = Append(log, chunk) /\ chunk # None
      <4>1. chunk \in Nat /\ log \in Seq(Nat)
        BY <3>2, Zenon DEF SerialInv, SerialType
      <4> QED BY <3>2, <4>1
    <3> QED BY <3>1, <3>2, Zenon
  <2> QED BY <2>1, <2>2, Zenon DEF SerialInv, SerialType
<1>2. DeviceInv'
  BY Zenon DEF SerialInv, SerialType, DeviceInv
<1>3. TypistInv'
  BY Zenon DEF SerialInv, SerialType, TypistInv
<1>4. LogInv'
  <2>1. CASE log' = log
    BY <2>1 DEF SerialInv, SerialType, LogInv
  <2>2. CASE log' = Append(log, chunk) /\ chunk # None /\ ~copied /\ sink = "open"
    <3>1. /\ chunk \in Nat /\ chunk = sent + 1 /\ log \in Seq(Nat)
          /\ chunk' = chunk /\ sent' = sent /\ copied' = TRUE /\ sink' = sink /\ client' = client
      BY <2>2 DEF SerialInv, SerialType, LogInv
    <3>2. /\ Len(log') = Len(log) + 1 /\ log'[Len(log) + 1] = chunk
          /\ \A i \in 1..Len(log) : log'[i] = log[i]
      BY <2>2, <3>1
    <3>3. Len(log) > 0 => log[Len(log)] = sent /\ log[Len(log)] = log[1] + Len(log) - 1
      BY <2>2, <3>1 DEF SerialInv, LogInv
    <3>4. \A i \in 1..Len(log') : log'[i] = log'[1] + i - 1
      BY <2>2, <3>1, <3>2, <3>3, SMTT(60) DEF SerialInv, LogInv
    <3> QED BY <2>2, <3>1, <3>2, <3>4, Zenon DEF SerialInv, LogInv
  <2> QED BY <2>1, <2>2, Zenon
<1> QED BY <1>1, <1>2, <1>3, <1>4, Zenon DEF SerialInv

\* Every step keeps the invariant.
LEMMA SerialKeeps == ASSUME SerialInv, [SerialNext]_serialVars PROVE SerialInv'
<1>1. CASE stream_to_file
  BY <1>1, Serial_stream_to_file, Zenon
<1>2. CASE GuestWrites
  BY <1>2, SerialAssumption DEF GuestWrites, SerialInv, SerialType, DeviceInv, TypistInv, LogInv, Is
<1>3. CASE run_serial_reader
  BY <1>3, Serial_run_serial_reader, Zenon
<1>4. CASE ReaderEnds
  BY <1>4, ZenonT(60), SerialAssumption DEF ReaderEnds, SerialInv, SerialType, DeviceInv, TypistInv, LogInv, Is
<1>5. CASE \E c \in Viewers, a \in {"Interactive", "Watch"} : OpenStream(c, a)
  BY <1>5, Serial_OpenStream, Zenon
<1>6. ASSUME NEW c \in Callers, SerialAdvance(c) PROVE SerialInv'
  <2>1. CASE attach(c)
    <3>1. c \in Viewers
      BY <1>6, <2>1, Zenon DEF attach, SerialInv, LogInv, Callers
    <3> QED BY <2>1, <3>1, Serial_attach, Zenon
  <2> QED BY <1>6, <2>1, Serial_ensure_attached, Serial_open_serial_device, Serial_recv,
             Serial_detach, Zenon DEF SerialAdvance
<1>7. CASE \E c \in Viewers : write_input(c) \/ proxy_serial_stream_ends(c)
  BY <1>7, Serial_write_input, Serial_proxy_serial_stream_ends, Zenon
<1>8. CASE UNCHANGED serialVars
  BY <1>8 DEF serialVars, SerialInv, SerialType, DeviceInv, TypistInv, LogInv, Is
<1> QED BY <1>1, <1>2, <1>3, <1>4, <1>5, <1>6, <1>7, <1>8, Zenon DEF SerialNext

LEMMA SerialInvariant == SerialSpec => []SerialInv
<1>1. SerialInit => SerialInv
  BY SerialStart, Zenon
<1>2. SerialInv /\ [SerialNext]_serialVars => SerialInv'
  BY SerialKeeps, Zenon
<1> QED BY <1>1, <1>2, PTL DEF SerialSpec

\* What the invariant says of the device, the keyboard and the log.
LEMMA SerialPromises == ASSUME SerialInv PROVE OneReader /\ OneTypist /\ LogIsContiguous
<1>1. OneReader
  BY DEF SerialInv, SerialType, DeviceInv, OneReader
<1>2. OneTypist
  BY Zenon DEF SerialInv, TypistInv, OneTypist
<1>3. LogIsContiguous
  BY SerialAssumption DEF SerialInv, SerialType, LogInv, LogIsContiguous
<1> QED BY <1>1, <1>2, <1>3, Zenon

\* The guest's output has at most one reader, however many callers find the device closed at
\* the same time (ensure_attached looks again under the lock).
THEOREM DeviceHasOneReader == SerialSpec => []OneReader
<1>1. SerialInv => OneReader
  BY SerialPromises, Zenon
<1> QED BY <1>1, SerialInvariant, PTL

\* Whoever types owns the console, so that two clients never type at once (SerialHub::attach
\* and detach against write_input's check).
THEOREM ConsoleHasOneTypist == SerialSpec => []OneTypist
<1>1. SerialInv => OneTypist
  BY SerialPromises, Zenon
<1> QED BY <1>1, SerialInvariant, PTL

\* The log is a stretch of the output without a gap, a repetition or a change of order
\* (run_serial_reader writes the sinks before it sends).
THEOREM LogHasNoHole == SerialSpec => []LogIsContiguous
<1>1. SerialInv => LogIsContiguous
  BY SerialPromises, Zenon
<1> QED BY <1>1, SerialInvariant, PTL

\* A client never sees a chunk twice, and misses only what the channel no longer keeps
\* (proxy_serial_stream and the lag of its receiver).
THEOREM ClientReadsInOrder == SerialSpec => ClientReadsOn
<1> DEFINE Reads(c) == /\ client'[c].next >= client[c].next
                       /\ client'[c].next <= client[c].next + 1 \/ client'[c].next <= sent - Capacity + 1
<1>1. ASSUME SerialInv, [SerialNext]_serialVars, NEW c \in Viewers, Relaying(c) PROVE Reads(c)
  <2> USE SerialAssumption DEF Callers
  <2>1. /\ client[c].next \in Nat /\ sent \in Nat /\ c \in Callers /\ client[c] \in States
        /\ client \in [Callers -> States]
    BY <1>1, Zenon DEF SerialInv, SerialType, States
  <2>2. CASE client'[c].next = client[c].next
    BY <2>1, <2>2
  <2>3. CASE recv(c)
    <3>1. CASE sent - client[c].next >= Capacity
      BY <2>1, <2>3, <3>1 DEF recv, States
    <3>2. CASE ~(sent - client[c].next >= Capacity)
      BY <2>1, <2>3, <3>2 DEF recv, States
    <3> QED BY <3>1, <3>2, Zenon
  <2>4. ASSUME NEW d \in Callers, d # c, SerialAdvance(d) PROVE client'[c].next = client[c].next
    BY <2>1, <2>4, ZenonT(60) DEF SerialAdvance, ensure_attached, open_serial_device, attach, recv, detach, Move, States
  <2>5. ASSUME SerialAdvance(c), ~recv(c) PROVE client'[c].next = client[c].next
    BY <1>1, <2>1, <2>5, Zenon DEF SerialAdvance, ensure_attached, open_serial_device, attach, detach, Move,
                            Is, Relaying, States
  <2>6. CASE stream_to_file \/ GuestWrites \/ run_serial_reader \/ ReaderEnds \/ UNCHANGED serialVars
    BY <2>1, <2>2, <2>6, SMTT(60) DEF stream_to_file, GuestWrites, run_serial_reader, ReaderEnds, serialVars, Move, States
  <2>7. ASSUME NEW d \in Viewers, NEW a \in {"Interactive", "Watch"},
               OpenStream(d, a) \/ write_input(d) \/ proxy_serial_stream_ends(d)
        PROVE client'[c].next = client[c].next
    BY <2>1, <2>7 DEF OpenStream, write_input, proxy_serial_stream_ends, Move, States
  <2>8. CASE \E d \in Callers : SerialAdvance(d)
    BY <2>2, <2>3, <2>4, <2>5, <2>8, Zenon
  <2>9. CASE \/ \E d \in Viewers, a \in {"Interactive", "Watch"} : OpenStream(d, a)
             \/ \E d \in Viewers : write_input(d) \/ proxy_serial_stream_ends(d)
    BY <2>2, <2>7, <2>9, Zenon
  <2> QED BY <1>1, <2>6, <2>8, <2>9, Zenon DEF SerialNext
<1>2. ASSUME SerialInv, [SerialNext]_serialVars
      PROVE [\A c \in Viewers : Relaying(c) => Reads(c)]_serialVars
  BY <1>1, <1>2, Zenon
<1> QED BY <1>2, SerialInvariant, PTL DEF SerialSpec, ClientReadsOn

-----------------------------------------------------------------------------
(* The console's bounds *)

\* No chunk is sent that the guest has not written, and no client is further than what was sent.
Bounds ==
    /\ guestOut <= MaxChunks /\ sent <= guestOut /\ (chunk # None => sent < guestOut)
    /\ log \in Seq(1..MaxChunks)
    /\ \A c \in Callers : 1 <= client[c].next /\ client[c].next <= sent + 1

\* A step of the clients that moves none of them past what was sent.
LEMMA BoundsStay ==
  ASSUME Bounds, UNCHANGED <<guestOut, chunk, sent, log>>,
         \A c \in Callers : \/ client'[c].next = client[c].next
                            \/ 1 <= client'[c].next /\ client'[c].next <= sent + 1
  PROVE Bounds'
  BY Zenon DEF Bounds

LEMMA BoundsKept == ASSUME SerialInv, Bounds, [SerialNext]_serialVars PROVE Bounds'
<1>0. /\ guestOut \in Nat /\ sent \in Nat /\ MaxChunks \in Nat /\ Capacity \in Nat \ {0} /\ None \notin Nat
      /\ client \in [Callers -> States] /\ (chunk # None => chunk = sent + 1)
      /\ \A c \in Callers : client[c] \in States /\ client[c].next \in Nat
  BY SerialAssumption, Zenon DEF SerialInv, SerialType, LogInv, States
<1>1. ASSUME NEW c \in Callers, NEW at \in ClientPlaces, Move(c, at), UNCHANGED <<guestOut, chunk, sent, log>>
      PROVE Bounds'
  <2>1. \A d \in Callers : client'[d].next = client[d].next
    BY <1>1, ClientMoves, Zenon DEF SerialInv
  <2> QED BY <1>1, <2>1, BoundsStay, Zenon
<1>2. ASSUME NEW c \in Callers, NEW q \in States, client' = [client EXCEPT ![c] = q],
             q.next = client[c].next \/ (1 <= q.next /\ q.next <= sent + 1),
             UNCHANGED <<guestOut, chunk, sent, log>>
      PROVE Bounds'
  <2>1. \A d \in Callers : client'[d] = IF d = c THEN q ELSE client[d]
    BY <1>0, <1>2, Zenon
  <2> QED BY <1>2, <2>1, BoundsStay, Zenon
<1>3. ASSUME NEW c \in Callers,
             ensure_attached(c) \/ open_serial_device(c) \/ detach(c) \/ write_input(c) \/ proxy_serial_stream_ends(c)
      PROVE Bounds'
  <2>1. /\ \E at \in ClientPlaces : Move(c, at)
        /\ UNCHANGED <<guestOut, chunk, sent, log>>
    BY <1>3, ZenonT(60) DEF ensure_attached, open_serial_device, detach, write_input, proxy_serial_stream_ends,
       AfterAttach, ClientPlaces, readerVars
  <2> QED BY <1>1, <2>1, Zenon
<1>4. CASE stream_to_file
  BY <1>1, <1>4, Zenon DEF stream_to_file, readerVars, ClientPlaces, Callers
<1>5. ASSUME NEW c \in Callers, NEW a \in {"Interactive", "Watch"}, OpenStream(c, a) PROVE Bounds'
  <2> DEFINE q == [[client[c] EXCEPT !.at = "check"] EXCEPT !.access = a]
  <2>1. client' = [client EXCEPT ![c] = q] /\ UNCHANGED <<guestOut, chunk, sent, log>>
    BY <1>0, <1>5, Zenon DEF OpenStream, readerVars
  <2>2. q \in States /\ q.next = client[c].next
    BY <1>0, ZenonT(60) DEF States, ClientPlaces
  <2> HIDE DEF q
  <2> QED BY <1>2, <2>1, <2>2, Zenon
<1>6. ASSUME NEW c \in Callers, attach(c) PROVE Bounds'
  <2> DEFINE q == [[client[c] EXCEPT !.at = "relay"] EXCEPT !.next = sent + 1]
  <2>1. /\ UNCHANGED <<guestOut, chunk, sent, log>>
        /\ Move(c, "gone") \/ client' = [client EXCEPT ![c] = q]
    BY <1>0, <1>6, Zenon DEF attach, readerVars
  <2>2. sent + 1 \in Nat /\ 1 <= sent + 1 /\ sent + 1 <= sent + 1
    BY <1>0, SMT
  <2>3. q \in States /\ q.next = sent + 1
    BY <1>0, <2>2, ZenonT(60) DEF States, ClientPlaces
  <2> HIDE DEF q
  <2>4. CASE client' = [client EXCEPT ![c] = q]
    BY <1>2, <2>1, <2>2, <2>3, <2>4, Zenon
  <2> QED BY <1>1, <2>1, <2>4, Zenon DEF ClientPlaces
<1>7. ASSUME NEW c \in Callers, recv(c) PROVE Bounds'
  <2> DEFINE n == IF sent - client[c].next >= Capacity THEN sent - Capacity + 1 ELSE client[c].next + 1
  <2>1. client[c].next <= sent /\ 1 <= client[c].next
    BY <1>7, Zenon DEF recv, Bounds
  <2>2. n \in Nat /\ 1 <= n /\ n <= sent + 1
    BY <1>0, <2>1, SMT
  <2>3. UNCHANGED <<guestOut, chunk, sent, log>> /\ \A d \in Callers : client'[d].next = IF d = c THEN n ELSE client[d].next
    <3>1. UNCHANGED <<guestOut, chunk, sent, log>>
      BY <1>7, Zenon DEF recv, readerVars
    <3>2. CASE sent - client[c].next >= Capacity
      BY <1>0, <1>7, <3>1, <3>2, ZenonT(60) DEF recv, States
    <3>3. CASE ~(sent - client[c].next >= Capacity)
      BY <1>0, <1>7, <3>1, <3>3, ZenonT(60) DEF recv, States
    <3> QED BY <3>2, <3>3, Zenon
  <2> HIDE DEF n
  <2> QED BY <2>2, <2>3, BoundsStay, Zenon
<1>8. CASE GuestWrites
  <2>1. guestOut < MaxChunks /\ guestOut' = guestOut + 1 /\ UNCHANGED <<chunk, sent, log, client>>
    BY <1>8, Zenon DEF GuestWrites
  <2>2. guestOut' <= MaxChunks /\ sent <= guestOut' /\ (chunk # None => sent < guestOut')
    BY <1>0, <2>1, SMT DEF Bounds
  <2> QED BY <2>1, <2>2, Zenon DEF Bounds
<1>9. CASE run_serial_reader
  <2>1. client' = client /\ guestOut' = guestOut
    BY <1>9, Zenon DEF run_serial_reader
  <2>2. CASE chunk = None /\ sent < guestOut /\ sent' = sent /\ log' = log
    BY <2>1, <2>2, Zenon DEF Bounds
  <2>3. CASE chunk # None /\ sent' = sent /\ chunk' = chunk /\ (log' = log \/ log' = Append(log, chunk))
    <3>1. log \in Seq(1..MaxChunks) /\ guestOut <= MaxChunks /\ sent < guestOut
      BY <2>3, Zenon DEF Bounds
    <3>2. chunk \in 1..MaxChunks
      BY <1>0, <2>3, <3>1, SMT
    <3>3. Append(log, chunk) \in Seq(1..MaxChunks)
      BY <3>1, <3>2, SMT
    <3>4. log' \in Seq(1..MaxChunks)
      BY <2>3, <3>1, <3>3, Zenon
    <3> QED BY <2>1, <2>3, <3>4, Zenon DEF Bounds
  <2>4. CASE chunk # None /\ sent' = chunk /\ chunk' = None /\ log' = log
    <3>1. guestOut <= MaxChunks /\ sent < guestOut /\ sent' = sent + 1
      BY <1>0, <2>4, Zenon DEF Bounds
    <3>2. sent' <= guestOut
      BY <1>0, <3>1, SMT
    <3>3. ASSUME NEW c \in Callers PROVE 1 <= client[c].next /\ client[c].next <= sent' + 1
      BY <1>0, <3>1, SMT DEF Bounds
    <3> QED BY <2>1, <2>4, <3>2, <3>3, Zenon DEF Bounds
  <2> QED BY <1>9, <2>2, <2>3, <2>4, Zenon DEF run_serial_reader
<1>10. CASE ReaderEnds \/ UNCHANGED serialVars
  BY <1>10, Zenon DEF ReaderEnds, serialVars, Bounds
<1> QED BY <1>3, <1>4, <1>5, <1>6, <1>7, <1>8, <1>9, <1>10, Zenon DEF SerialNext, SerialAdvance, Callers

\* The types of the console's state, from the invariants.
LEMMA SerialTyped == ASSUME SerialInv, Bounds PROVE SerialTypeOK
<1>1. /\ guestOut \in Nat /\ sent \in Nat /\ MaxChunks \in Nat /\ (chunk # None => chunk = sent + 1)
      /\ guestOut <= MaxChunks /\ sent <= guestOut /\ (chunk # None => sent < guestOut) /\ readers \in {0, 1}
  BY SerialAssumption, Zenon DEF SerialInv, SerialType, LogInv, DeviceInv, Bounds
<1>2. guestOut \in 0..MaxChunks /\ sent \in 0..MaxChunks /\ (chunk # None => chunk \in 1..MaxChunks) /\ readers \in 0..2
  BY <1>1, SMT
<1>3. ASSUME NEW c \in Callers
      PROVE client[c] \in [at: ClientPlaces, access: {"Interactive", "Watch"}, next: 1..MaxChunks + 1, lagged: BOOLEAN]
  <2>1. client[c] \in States /\ client[c].next \in Nat /\ 1 <= client[c].next /\ client[c].next <= sent + 1
    BY Zenon DEF SerialInv, SerialType, States, Bounds
  <2>2. client[c].next \in 1..MaxChunks + 1
    BY <1>1, <2>1, SMT
  <2> QED BY <2>1, <2>2, ZenonT(60) DEF States
<1>4. client \in [Callers -> [at: ClientPlaces, access: {"Interactive", "Watch"}, next: 1..MaxChunks + 1, lagged: BOOLEAN]]
  BY <1>3, Zenon DEF SerialInv, SerialType
<1> QED BY <1>2, <1>4, Zenon DEF SerialTypeOK, SerialInv, SerialType, Bounds

-----------------------------------------------------------------------------
(* The two parts together *)

PartsInv == IInv /\ SerialInv /\ Bounds

LEMMA PartsInvariant == MonitorSpec => []PartsInv
<1>1. MonitorInit => PartsInv
  <2> SUFFICES ASSUME MonitorInit PROVE PartsInv
    BY Zenon
  <2>1. IInv /\ SerialInv
    BY MonitorStarts, SerialStart, Zenon DEF MonitorInit
  <2>2. guestOut = 0 /\ sent = 0 /\ chunk = None /\ log = <<>> /\ \A c \in Callers : client[c].next = 1
    BY Zenon DEF MonitorInit, SerialInit
  <2>3. Bounds
    BY <2>2, SerialAssumption, SMT DEF Bounds
  <2> QED BY <2>1, <2>3, Zenon DEF PartsInv
<1>2. PartsInv /\ [MonitorNext]_partVars => PartsInv'
  <2> SUFFICES ASSUME PartsInv, [MonitorNext]_partVars PROVE PartsInv'
    BY Zenon
  <2>1. [Next]_vars /\ [SerialNext]_serialVars
    BY Zenon DEF MonitorNext, partVars
  <2> QED BY <2>1, MonitorKeeps, SerialKeeps, BoundsKept, Zenon DEF PartsInv
<1> QED BY <1>1, <1>2, PTL DEF MonitorSpec

\* For any number of clients and any length of output: the device has one reader, whoever types
\* owns the console, and the log has no hole (ensure_attached, SerialHub::attach,
\* run_serial_reader).
THEOREM ConsoleKeepsOrder == MonitorSpec => []ConsoleIsOrderly
<1>1. PartsInv => ConsoleIsOrderly
  BY SerialPromises, Zenon DEF PartsInv, ConsoleIsOrderly
<1> QED BY <1>1, PartsInvariant, PTL

\* The services and the console are type correct: among others no chunk is read, logged or sent
\* that the guest has not written, and no client is ahead of what was sent.
THEOREM MonitorPartsTypeCorrect == MonitorSpec => []PartsTypeOK
<1>1. PartsInv => PartsTypeOK
  BY SerialTyped, Zenon DEF PartsInv, PartsTypeOK, IInv
<1> QED BY <1>1, PartsInvariant, PTL
=============================================================================
