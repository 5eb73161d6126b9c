--------------------------- MODULE SerialConsole ---------------------------
(***************************************************************************)
(* The serial console of a machine (virt/src/serial.rs): one reader task   *)
(* copies the guest's output to the log file and to every attached client, *)
(* and one interactive client at a time may type.  Output is a sequence of *)
(* chunks numbered 1, 2, ...; the broadcast channel of tokio is external   *)
(* and keeps the last Capacity chunks for each receiver.                   *)
(***************************************************************************)
EXTENDS Naturals, Sequences, Options

CONSTANTS
    Viewers,       \* callers of open_stream, each once
    Logger,        \* the task that runs stream_to_file
    Capacity,      \* of the broadcast channel: 256
    MaxChunks      \* bound: chunks the guest writes

VARIABLES
    attachment,    \* the device is open
    attach_lock,   \* who opens it
    readers,       \* reader tasks on the device
    guestOut,      \* chunks the guest has written
    chunk,         \* the chunk the reader holds: read, or None
    copied,        \* the reader has given it to the log
    sent,          \* chunks on the channel
    sink,          \* the log file: "no", "open", "failed"
    log,           \* chunks in the log, in order
    hubOwner,      \* interactive_owner
    client         \* the state of each client

serialVars == <<attachment, attach_lock, readers, guestOut, chunk, copied, sent, sink, log, hubOwner, client>>
readerVars == <<readers, guestOut, chunk, copied, sent, log>>

Callers == Viewers \cup {Logger}

\* None is neither a caller nor a chunk, and the bounds are numbers.
ASSUME SerialAssumption ==
    /\ None \notin Callers /\ None \notin Nat
    /\ MaxChunks \in Nat /\ Capacity \in Nat \ {0}

ClientPlaces == {"no", "check", "lock", "open", "hub", "relay", "typing", "dropped", "gone"}

SerialTypeOK ==
    /\ attachment \in BOOLEAN /\ copied \in BOOLEAN
    /\ attach_lock \in Callers \cup {None}
    /\ readers \in 0..2
    /\ guestOut \in 0..MaxChunks /\ sent \in 0..MaxChunks
    /\ chunk \in 1..MaxChunks \cup {None}
    /\ sink \in {"no", "open", "failed"}
    /\ log \in Seq(1..MaxChunks)
    /\ hubOwner \in Viewers \cup {None}
    /\ client \in [Callers -> [at: ClientPlaces, access: {"Interactive", "Watch"},
                               next: 1..MaxChunks + 1, lagged: BOOLEAN]]

Move(c, at) == client' = [client EXCEPT ![c].at = at]
Is(c, at) == client[c].at = at

-----------------------------------------------------------------------------
(* Attaching *)

\* open_stream begins with ensure_attached; stream_to_file pushes its file first.
OpenStream(c, access) ==
    /\ c \in Viewers /\ Is(c, "no")
    /\ client' = [client EXCEPT ![c].at = "check", ![c].access = access]
    /\ UNCHANGED <<attachment, attach_lock, readerVars, sink, hubOwner>>

stream_to_file ==
    /\ Is(Logger, "no")
    /\ sink' = "open"
    /\ Move(Logger, "check")
    /\ UNCHANGED <<attachment, attach_lock, readerVars, hubOwner>>

AfterAttach(c) == IF c = Logger THEN "gone" ELSE "hub"

\* Mutant: the second look, under the lock, is left out.
ensure_attached_once(c) ==
    /\ \/ /\ Is(c, "check")
          /\ Move(c, IF attachment THEN AfterAttach(c) ELSE "lock")
          /\ UNCHANGED attach_lock
       \/ /\ Is(c, "lock") /\ attach_lock = None
          /\ Move(c, "open") /\ attach_lock' = c
    /\ UNCHANGED <<attachment, readerVars, sink, hubOwner>>

\* ensure_attached looks twice: before it takes the lock, and under it.
ensure_attached(c) ==
    /\ \/ /\ Is(c, "check")
          /\ Move(c, IF attachment THEN AfterAttach(c) ELSE "lock")
          /\ UNCHANGED attach_lock
       \/ /\ Is(c, "lock") /\ attach_lock = None
          /\ \/ attachment /\ Move(c, AfterAttach(c)) /\ UNCHANGED attach_lock
             \/ ~attachment /\ Move(c, "open") /\ attach_lock' = c
    /\ UNCHANGED <<attachment, readerVars, sink, hubOwner>>

\* The device is opened and its reader spawned, or it cannot be opened.
open_serial_device(c) ==
    /\ Is(c, "open") /\ attach_lock' = None
    /\ \/ attachment' = TRUE /\ readers' = readers + 1 /\ Move(c, AfterAttach(c))
       \/ UNCHANGED <<attachment, readers>> /\ Move(c, "gone")
    /\ UNCHANGED <<guestOut, chunk, copied, sent, log, sink, hubOwner>>

\* Mutant: the interactive slot is taken whoever has it.
attach_always(c) ==
    /\ Is(c, "hub")
    /\ hubOwner' = IF client[c].access = "Interactive" THEN c ELSE hubOwner
    /\ client' = [client EXCEPT ![c].at = "relay", ![c].next = sent + 1]
    /\ UNCHANGED <<attachment, attach_lock, readerVars, sink>>

\* SerialHub::attach, and the subscription: from the next chunk on.
attach(c) ==
    /\ Is(c, "hub")
    /\ IF client[c].access = "Interactive" /\ hubOwner # None
       THEN Move(c, "gone") /\ UNCHANGED hubOwner
       ELSE /\ hubOwner' = IF client[c].access = "Interactive" THEN c ELSE hubOwner
            /\ client' = [client EXCEPT ![c].at = "relay", ![c].next = sent + 1]
    /\ UNCHANGED <<attachment, attach_lock, readerVars, sink>>

-----------------------------------------------------------------------------
(* The reader *)

GuestWrites ==
    /\ guestOut < MaxChunks
    /\ guestOut' = guestOut + 1
    /\ UNCHANGED <<attachment, attach_lock, readers, chunk, copied, sent, sink, log, hubOwner, client>>

\* Mutant: the reader sends without waiting for the log, and loses the chunk for it.
run_serial_reader_hasty ==
    /\ readers > 0
    /\ IF chunk = None
       THEN /\ sent < guestOut /\ chunk' = sent + 1 /\ copied' = FALSE
            /\ UNCHANGED <<sent, log, sink>>
       ELSE /\ log' = IF sink = "open" /\ copied THEN Append(log, chunk) ELSE log
            /\ \/ sent' = chunk /\ chunk' = None /\ UNCHANGED <<copied, sink>>
               \/ ~copied /\ copied' = TRUE /\ UNCHANGED <<sent, chunk, sink>>
    /\ UNCHANGED <<attachment, attach_lock, readers, guestOut, hubOwner, client>>

\* One chunk: read, written to the sinks (one that fails is removed), then sent.
run_serial_reader ==
    /\ readers > 0
    /\ \/ /\ chunk = None /\ sent < guestOut
          /\ chunk' = sent + 1 /\ copied' = FALSE
          /\ UNCHANGED <<sent, log, sink>>
       \/ /\ chunk # None /\ ~copied /\ copied' = TRUE
          /\ \/ sink = "open" /\ log' = Append(log, chunk) /\ UNCHANGED sink
             \/ sink = "open" /\ sink' = "failed" /\ UNCHANGED log
             \/ sink # "open" /\ UNCHANGED <<log, sink>>
          /\ UNCHANGED <<sent, chunk>>
       \/ /\ chunk # None /\ copied
          /\ sent' = chunk /\ chunk' = None
          /\ UNCHANGED <<copied, log, sink>>
    /\ UNCHANGED <<attachment, attach_lock, readers, guestOut, hubOwner, client>>

\* The device ends, or a read fails: the reader is over, the attachment stays.
ReaderEnds ==
    /\ readers > 0 /\ chunk = None
    /\ readers' = 0
    /\ UNCHANGED <<attachment, attach_lock, guestOut, chunk, copied, sent, sink, log, hubOwner, client>>

-----------------------------------------------------------------------------
(* A client's relay *)

Relaying(c) == client[c].at \in {"relay", "typing"}

\* Mutant: a client is given the newest chunk.
recv_newest(c) ==
    /\ Relaying(c) /\ client[c].next <= sent
    /\ client' = [client EXCEPT ![c].next = sent + 1]
    /\ UNCHANGED <<attachment, attach_lock, readerVars, sink, hubOwner>>

\* output_rx.recv and the write to the client; a receiver that fell behind skips to the
\* oldest chunk that is kept.
recv(c) ==
    /\ Relaying(c) /\ client[c].next <= sent
    /\ client' = IF sent - client[c].next >= Capacity
                 THEN [client EXCEPT ![c].next = sent - Capacity + 1, ![c].lagged = TRUE]
                 ELSE [client EXCEPT ![c].next = @ + 1]
    /\ UNCHANGED <<attachment, attach_lock, readerVars, sink, hubOwner>>

\* A keystroke: only the owner's reaches the device, after the check and under another lock.
write_input(c) ==
    /\ \/ Is(c, "relay") /\ client[c].access = "Interactive" /\ hubOwner = c /\ Move(c, "typing")
       \/ Is(c, "typing") /\ \E at \in {"relay", "dropped"} : Move(c, at)
    /\ UNCHANGED <<attachment, attach_lock, readerVars, sink, hubOwner>>

\* The client disconnects: the stream is dropped, and a task of its own detaches it.
proxy_serial_stream_ends(c) ==
    /\ Is(c, "relay") /\ Move(c, "dropped")
    /\ UNCHANGED <<attachment, attach_lock, readerVars, sink, hubOwner>>

\* Mutant: the slot is kept.
detach_nothing(c) ==
    /\ Is(c, "dropped") /\ Move(c, "gone")
    /\ UNCHANGED <<attachment, attach_lock, readerVars, sink, hubOwner>>

detach(c) ==
    /\ Is(c, "dropped") /\ Move(c, "gone")
    /\ hubOwner' = IF hubOwner = c THEN None ELSE hubOwner
    /\ UNCHANGED <<attachment, attach_lock, readerVars, sink>>

-----------------------------------------------------------------------------

SerialInit ==
    /\ attachment = FALSE /\ attach_lock = None /\ readers = 0
    /\ guestOut = 0 /\ chunk = None /\ copied = FALSE /\ sent = 0
    /\ sink = "no" /\ log = <<>> /\ hubOwner = None
    /\ client = [c \in Callers |-> [at |-> "no", access |-> "Watch", next |-> 1, lagged |-> FALSE]]

SerialAdvance(c) ==
    \/ ensure_attached(c) \/ open_serial_device(c) \/ attach(c) \/ recv(c) \/ detach(c)

SerialNext ==
    \/ stream_to_file \/ GuestWrites \/ run_serial_reader \/ ReaderEnds
    \/ \E c \in Viewers, a \in {"Interactive", "Watch"} : OpenStream(c, a)
    \/ \E c \in Callers : SerialAdvance(c)
    \/ \E c \in Viewers : write_input(c) \/ proxy_serial_stream_ends(c)

SerialSpec == SerialInit /\ [][SerialNext]_serialVars

\* The tasks are scheduled; a client need not disconnect.
SerialFairness ==
    /\ WF_serialVars(run_serial_reader)
    /\ \A c \in Callers : WF_serialVars(SerialAdvance(c))
    /\ \A c \in Viewers : WF_serialVars(Is(c, "typing") /\ write_input(c))

-----------------------------------------------------------------------------
(* Properties *)

\* The device is opened once, however many callers find it closed at the same time: two
\* readers would share the guest's output between them.
OneReader == readers <= 1 /\ (readers = 1 => attachment)

\* Two clients never type at once, and whoever types owns the console.
OneTypist == \A c \in Viewers : Is(c, "typing") => hubOwner = c

\* The log is a stretch of the output without a gap, a repetition or a change of order: a
\* chunk that cannot be written ends the log, it does not leave a hole.
LogIsContiguous ==
    /\ \A i \in 1..Len(log) : log[i] = log[1] + i - 1
    /\ Len(log) > 0 /\ sink = "open" => log[Len(log)] >= sent

\* A client never sees a chunk twice and misses only what the channel no longer keeps.
ClientReadsOn ==
    [][\A c \in Viewers : Relaying(c) =>
           /\ client'[c].next >= client[c].next
           /\ client'[c].next <= client[c].next + 1 \/ client'[c].next <= sent - Capacity + 1]_serialVars

\* The console becomes free again after its owner has gone.
ConsoleIsFreed == \A c \in Viewers : Is(c, "dropped") ~> hubOwner # c
=============================================================================
