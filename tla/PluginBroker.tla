---------------------------- MODULE PluginBroker ----------------------------
(***************************************************************************)
(* The socket between an endpoint plugin and vmmon.  A plugin in connect   *)
(* mode asks for streams to the guest and the broker of vmmon answers      *)
(* (plugins/src/lib.rs, run_connect_broker); one in listen mode is handed  *)
(* the connections the guest makes (run_listen_dispatch).  The socket is a *)
(* pair of datagram sockets with a bounded queue each way; a frame carries *)
(* a request id and perhaps a file descriptor.  A stream is named by the   *)
(* request it was opened for, or by its place in the guest's connections.  *)
(***************************************************************************)
EXTENDS Integers, Sequences, Options

CONSTANTS
    Err,        \* an error instead of a stream
    Calls,      \* tasks of the plugin that call connect, or accept
    Queue,      \* frames a socket queue holds (net.unix.max_dgram_qlen)
    Incoming,   \* streams the channel to accept holds (128)
    MaxStreams  \* bound on the requests made and on the connections of the guest

VARIABLES
    mode,       \* "connect" or "listen"
    resets,     \* whether the system reports the closed end of a datagram pair (it may not)
    cancelled,  \* the cancellation token of vmmon
    requests,   \* frames on their way to vmmon
    replies,    \* frames on their way to the plugin
    plug,       \* the plugin's runtime
    call,       \* its tasks
    broker,     \* the control task of vmmon
    arrived     \* connections the guest has made

\* Neither the lack of a stream nor an error is a stream.
ASSUME BrokerAssumption == MaxStreams \in Nat /\ None \notin 1..MaxStreams /\ Err \notin 1..MaxStreams

brokerVars == <<mode, resets, cancelled, requests, replies, plug, call, broker, arrived>>

Streams == 1..MaxStreams

\* A frame of the protocol; fd is the stream that travels with it.
Frame(kind, id, fd) == [kind |-> kind, id |-> id, fd |-> fd]
Frames == [kind: {"connect_open", "connect_open_ok", "connect_open_err", "listen_incoming"},
           id: Streams, fd: Streams \cup {None}]

\* What a call returned.
Results == Streams \cup {Err, None}

-----------------------------------------------------------------------------
(* The plugin *)

\* The runtime of a plugin that is up; reader holds the stream it could not hand over yet.
PluginStarted == [alive |-> TRUE, reader |-> "recv", held |-> None, pending |-> {}, next |-> 1,
            incoming |-> <<>>]

expect_connect == mode = "connect"
expect_listen == mode = "listen"

\* A request is entered under its id before it is sent.
connect(c) ==
    /\ plug.alive /\ expect_connect /\ call[c].pc = "idle" /\ plug.next \in Streams
    /\ call' = [call EXCEPT ![c] = [pc |-> "send", id |-> plug.next, result |-> None]]
    /\ plug' = [plug EXCEPT !.next = @ + 1, !.pending = @ \cup {plug.next}]
    /\ UNCHANGED <<mode, resets, cancelled, requests, replies, broker, arrived>>

\* The sender waits until the queue has room; an end that is closed refuses the frame.
send_message(c) ==
    /\ plug.alive /\ call[c].pc = "send"
    /\ \/ /\ broker.pc # "ended" /\ Len(requests) < Queue
          /\ requests' = Append(requests, Frame("connect_open", call[c].id, None))
          /\ call' = [call EXCEPT ![c].pc = "wait"]
          /\ UNCHANGED plug
       \/ /\ broker.pc = "ended"
          /\ plug' = [plug EXCEPT !.pending = @ \ {call[c].id}]
          /\ call' = [call EXCEPT ![c] = [@ EXCEPT !.pc = "done", !.result = Err]]
          /\ UNCHANGED requests
    /\ UNCHANGED <<mode, resets, cancelled, replies, broker, arrived>>

\* Mutant: the answer goes to some request that waits.
satisfy_pending_any(id, result) ==
    /\ plug' = [plug EXCEPT !.pending = @ \ {id}]
    /\ LET waits == {c \in Calls : call[c].pc = "wait"}
       IN  IF waits = {} THEN UNCHANGED call
           ELSE LET w == CHOOSE c \in waits : \A d \in waits : call[c].id >= call[d].id
                IN  call' = [call EXCEPT ![w] = [@ EXCEPT !.pc = "done", !.result = result]]

\* The request is taken out of the map and its caller told.
satisfy_pending(id, result) ==
    /\ plug' = [plug EXCEPT !.pending = @ \ {id}]
    /\ call' = [c \in Calls |-> IF id \in plug.pending /\ call[c].id = id
                                  THEN [call[c] EXCEPT !.pc = "done", !.result = result]
                                  ELSE call[c]]

\* One frame: an answer goes to its request; a connection goes to the channel that accept
\* reads, and the reader waits with it while that is full.
run_control_reader ==
    /\ plug.alive /\ plug.reader = "recv" /\ replies # <<>>
    /\ LET f == Head(replies)
       IN  \/ f.kind = "connect_open_ok" /\ satisfy_pending(f.id, f.fd)
           \/ f.kind = "connect_open_err" /\ satisfy_pending(f.id, Err)
           \/ /\ f.kind = "listen_incoming"
              /\ plug' = IF Len(plug.incoming) < Incoming
                           THEN [plug EXCEPT !.incoming = Append(@, f.fd)]
                           ELSE [plug EXCEPT !.reader = "deliver", !.held = f.fd]
              /\ UNCHANGED call
    /\ replies' = Tail(replies)
    /\ UNCHANGED <<mode, resets, cancelled, requests, broker, arrived>>

deliver_incoming ==
    /\ plug.alive /\ plug.reader = "deliver" /\ Len(plug.incoming) < Incoming
    /\ plug' = [plug EXCEPT !.incoming = Append(@, plug.held), !.held = None, !.reader = "recv"]
    /\ UNCHANGED <<mode, resets, cancelled, requests, replies, call, broker, arrived>>

\* The read fails: every request in the map is told, accept gets the error in its turn and
\* the reader is over.
fail_all_pending ==
    /\ plug.alive /\ plug.reader = "recv" /\ replies = <<>>
    /\ broker.pc = "ended" /\ resets
    /\ Len(plug.incoming) < Incoming
    /\ plug' = [plug EXCEPT !.pending = {}, !.reader = "done", !.incoming = Append(@, Err)]
    /\ call' = [c \in Calls |-> IF call[c].pc \in {"send", "wait"} /\ call[c].id \in plug.pending
                                  THEN [call[c] EXCEPT !.pc = "done", !.result = Err]
                                  ELSE call[c]]
    /\ UNCHANGED <<mode, resets, cancelled, requests, replies, broker, arrived>>

\* accept takes the oldest stream; the channel is closed once the reader is over.
accept(c) ==
    /\ plug.alive /\ expect_listen /\ call[c].pc = "idle"
    /\ plug.incoming # <<>> \/ plug.reader = "done"
    /\ LET got == IF plug.incoming # <<>> THEN Head(plug.incoming) ELSE Err
       IN  call' = [call EXCEPT ![c] = [pc |-> "done", id |-> None, result |-> got]]
    /\ plug' = [plug EXCEPT !.incoming = IF @ = <<>> THEN @ ELSE Tail(@)]
    /\ UNCHANGED <<mode, resets, cancelled, requests, replies, broker, arrived>>

\* The task is through with its stream and asks for another one.
CallAgain(c) ==
    /\ plug.alive /\ call[c].pc = "done"
    /\ call' = [call EXCEPT ![c] = [pc |-> "idle", id |-> None, result |-> None]]
    /\ UNCHANGED <<mode, resets, cancelled, requests, replies, plug, broker, arrived>>

-----------------------------------------------------------------------------
(* vmmon *)

\* The control task is over and its end of the socket closed; frames it sent are still read.
Ended == [pc |-> "ended", frame |-> None, conns |-> broker.conns]

recv_message ==
    /\ broker.pc = "recv" /\ mode = "connect"
    /\ \/ /\ requests # <<>>
          /\ broker' = [broker EXCEPT !.pc = "connect", !.frame = Head(requests)]
          /\ requests' = Tail(requests)
       \/ /\ requests = <<>> /\ ~ plug.alive /\ resets
          /\ broker' = Ended /\ UNCHANGED requests
    /\ UNCHANGED <<mode, resets, cancelled, replies, plug, call, arrived>>

\* Mutant: a request that times out is dropped.
connect_vsock_silent ==
    /\ broker.pc = "connect"
    /\ \/ broker' = [broker EXCEPT !.pc = "reply", !.frame = Frame("connect_open_ok", @.id, @.id)]
       \/ broker' = [broker EXCEPT !.pc = "recv", !.frame = None]
    /\ UNCHANGED <<mode, resets, cancelled, requests, replies, plug, call, arrived>>

\* connect_vsock, or its timeout: a stream, or an error for the one who asked.  The task
\* itself fails when the stream cannot be duplicated, or when the text of the error is too
\* long for a frame.
connect_vsock ==
    /\ broker.pc = "connect"
    /\ \/ broker' = [broker EXCEPT !.pc = "reply", !.frame = Frame("connect_open_ok", @.id, @.id)]
       \/ broker' = [broker EXCEPT !.pc = "reply", !.frame = Frame("connect_open_err", @.id, None)]
       \/ broker' = Ended
    /\ UNCHANGED <<mode, resets, cancelled, requests, replies, plug, call, arrived>>

send_reply ==
    /\ broker.pc = "reply"
    /\ \/ /\ plug.alive /\ Len(replies) < Queue
          /\ replies' = Append(replies, broker.frame)
          /\ broker' = [broker EXCEPT !.pc = "recv", !.frame = None]
       \/ ~ plug.alive /\ broker' = Ended /\ UNCHANGED replies
    /\ UNCHANGED <<mode, resets, cancelled, requests, plug, call, arrived>>

GuestConnects ==
    /\ mode = "listen" /\ arrived < MaxStreams
    /\ arrived' = arrived + 1
    /\ UNCHANGED <<mode, resets, cancelled, requests, replies, plug, call, broker>>

\* The dispatcher takes the next connection, or ends with the cancellation or a listener
\* that fails.
run_listen_dispatch ==
    /\ broker.pc = "recv" /\ mode = "listen"
    /\ \/ /\ broker.conns < arrived
          /\ broker' = [broker EXCEPT !.pc = "dispatch", !.conns = @ + 1,
                            !.frame = Frame("listen_incoming", broker.conns + 1, broker.conns + 1)]
       \/ cancelled /\ broker' = Ended
       \/ broker' = Ended
    /\ UNCHANGED <<mode, resets, cancelled, requests, replies, plug, call, arrived>>

\* Mutant: a frame refused for too many descriptors in flight is taken for sent.
send_incoming_conn_once ==
    /\ broker.pc = "dispatch"
    /\ \/ /\ plug.alive /\ Len(replies) < Queue
          /\ replies' = Append(replies, broker.frame)
          /\ broker' = [broker EXCEPT !.pc = "recv", !.frame = None]
       \/ broker' = [broker EXCEPT !.pc = "recv", !.frame = None] /\ UNCHANGED replies
       \/ ~ plug.alive /\ broker' = Ended /\ UNCHANGED replies
    /\ UNCHANGED <<mode, resets, cancelled, requests, plug, call, arrived>>

\* The send blocks while the queue is full; too many descriptors in flight are waited out.
send_incoming_conn_with_retry ==
    /\ broker.pc = "dispatch"
    /\ \/ /\ plug.alive /\ Len(replies) < Queue
          /\ replies' = Append(replies, broker.frame)
          /\ broker' = [broker EXCEPT !.pc = "recv", !.frame = None]
       \/ broker' = [broker EXCEPT !.pc = "backoff"] /\ UNCHANGED replies
       \/ ~ plug.alive /\ broker' = Ended /\ UNCHANGED replies
    /\ UNCHANGED <<mode, resets, cancelled, requests, plug, call, arrived>>

retry_backoff ==
    /\ broker.pc = "backoff"
    /\ \/ broker' = [broker EXCEPT !.pc = "dispatch"]
       \/ cancelled /\ broker' = Ended
    /\ UNCHANGED <<mode, resets, cancelled, requests, replies, plug, call, arrived>>

-----------------------------------------------------------------------------
(* Their surroundings *)

BrokerCancel ==
    /\ ~ cancelled /\ cancelled' = TRUE
    /\ UNCHANGED <<mode, resets, requests, replies, plug, call, broker, arrived>>

\* The plugin exits or is killed; frames on their way to it are gone with its socket.
PluginDies ==
    /\ plug.alive
    /\ plug' = [plug EXCEPT !.alive = FALSE]
    /\ replies' = <<>>
    /\ UNCHANGED <<mode, resets, cancelled, requests, call, broker, arrived>>

\* The supervisor ends the run: its plugin is terminated and its control task aborted.
SupervisorEnds ==
    /\ cancelled \/ broker.pc = "ended" \/ ~ plug.alive
    /\ plug.alive \/ broker.pc # "ended"
    /\ plug' = [plug EXCEPT !.alive = FALSE]
    /\ broker' = IF broker.pc = "ended" THEN broker ELSE Ended
    /\ replies' = <<>> /\ requests' = <<>>
    /\ UNCHANGED <<mode, resets, cancelled, call, arrived>>

BrokerInit ==
    /\ mode \in {"connect", "listen"} /\ resets \in BOOLEAN /\ cancelled = FALSE
    /\ requests = <<>> /\ replies = <<>> /\ arrived = 0
    /\ plug = PluginStarted
    /\ call = [c \in Calls |-> [pc |-> "idle", id |-> None, result |-> None]]
    /\ broker = [pc |-> "recv", frame |-> None, conns |-> 0]

PluginStep(c) == connect(c) \/ send_message(c) \/ accept(c) \/ CallAgain(c)

ReaderStep == run_control_reader \/ deliver_incoming \/ fail_all_pending

BrokerStep == recv_message \/ connect_vsock \/ send_reply \/ run_listen_dispatch
              \/ send_incoming_conn_with_retry \/ retry_backoff

BrokerNext ==
    \/ \E c \in Calls : PluginStep(c)
    \/ ReaderStep \/ BrokerStep
    \/ GuestConnects \/ BrokerCancel \/ PluginDies \/ SupervisorEnds

\* Tasks run on, connect_vsock is bounded by its timeout, and the supervisor looks after
\* its control task and its plugin.
BrokerFairness ==
    /\ \A c \in Calls : WF_brokerVars(send_message(c))
    /\ WF_brokerVars(ReaderStep) /\ WF_brokerVars(SupervisorEnds)
    /\ WF_brokerVars(recv_message) /\ WF_brokerVars(connect_vsock) /\ WF_brokerVars(send_reply)

BrokerSpec == BrokerInit /\ [][BrokerNext]_brokerVars /\ BrokerFairness

-----------------------------------------------------------------------------
(* Properties *)

\* Type invariant of the two queues, the plugin and the control task.
BrokerTypeOK ==
    /\ mode \in {"connect", "listen"} /\ resets \in BOOLEAN /\ cancelled \in BOOLEAN
    /\ \A i \in DOMAIN requests : requests[i] \in Frames
    /\ \A i \in DOMAIN replies : replies[i] \in Frames
    /\ plug.reader \in {"recv", "deliver", "done"} /\ plug.pending \subseteq Streams
    /\ \A c \in Calls : call[c].pc \in {"idle", "send", "wait", "done"} /\ call[c].result \in Results
    /\ broker.pc \in {"recv", "connect", "reply", "dispatch", "backoff", "ended"}
    /\ broker.frame \in Frames \cup {None} /\ arrived \in 0..MaxStreams

\* Several tasks of a plugin wait for streams at once and their answers come back over one
\* socket: a task gets the stream that was opened for its own request.
AnswerIsMine ==
    \A c \in Calls : mode = "connect" /\ call[c].result \in Streams => call[c].result = call[c].id

\* The streams on their way to accept, oldest first.
OnTheirWay ==
    plug.incoming
    \o (IF plug.held = None THEN <<>> ELSE <<plug.held>>)
    \o [i \in 1..Len(replies) |-> replies[i].fd]
    \o (IF broker.pc \in {"dispatch", "backoff"} THEN <<broker.frame.fd>> ELSE <<>>)

\* However slow the plugin accepts and however often a descriptor is refused, the
\* connections of the guest come in the order they were made, none skipped and none twice.
ConnectionsInOrder ==
    mode = "listen" /\ plug.alive /\ broker.pc # "ended" =>
        OnTheirWay = [i \in 1..Len(OnTheirWay) |-> broker.conns - Len(OnTheirWay) + i]

\* A task that asks for a stream is answered, whatever the guest does: with a stream, with
\* an error, or because its plugin is terminated.
ConnectIsAnswered ==
    \A c \in Calls : [](call[c].pc \in {"send", "wait"} => <>(call[c].pc = "done" \/ ~ plug.alive))
=============================================================================
