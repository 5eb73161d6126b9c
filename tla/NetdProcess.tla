---------------------------- MODULE NetdProcess ----------------------------
(***************************************************************************)
(* The process of a network helper: its start, the two goroutines it waits  *)
(* for, its end (netd/cmd/netd/main.go, netd/internal/config), and the      *)
(* audit logger that the connections share                                  *)
(* (netd/internal/gateway/audit/audit.go).                                  *)
(*                                                                          *)
(* Every step of the start may fail; what was deferred so far is then       *)
(* undone, last first, as it is when the goroutines have returned.  A       *)
(* signal before NotifyContext kills the process.                           *)
(***************************************************************************)
EXTENDS Integers, Sequences, SequencesExt, FiniteSets

CONSTANTS
    Options,        \* [subnet, bits, sshPort, listen, cert, key, https, log]: command lines and policies
    Width,          \* bits of an address
    Emitters,       \* goroutines that serve connections
    Capacity,       \* defaultQueueCapacity
    MaxEvents       \* bound: events that are recorded

VARIABLES
    options, stack,  \* the command line and the addresses made of it
    step,            \* the step of the start, "serving", "unwinding", "exited" or "killed"
    defers,          \* what is to be undone
    files,           \* the files that exist
    signalled,       \* SIGTERM came
    accept, closer,  \* the goroutines of the group
    failure,         \* the error the process ends with, "" for none
    told,            \* the kinds of error records on stderr
    logger,          \* [closed, closing, queue, taken, done, open, late]
    emitter, readers, \* where the connections are in emit, and who holds closeMu for reading
    accepted, written, drops, broken

processVars == <<options, stack, step, defers, files, signalled, accept, closer, failure, told,
                 logger, emitter, readers, accepted, written, drops, broken>>
auditVars == <<logger, emitter, readers, accepted, written, drops, broken>>
startVars == <<options, stack, step, defers, files, accept, closer, failure, told>>

Steps == <<"logging", "parse", "policy", "pid", "signals", "audit", "proxies", "stack", "listen">>
After(s) == IF s = "listen" THEN "serving" ELSE Steps[1 + CHOOSE i \in DOMAIN Steps : Steps[i] = s]

NoLogger == [closed |-> FALSE, closing |-> "", queue |-> <<>>, taken |-> 0, done |-> FALSE, open |-> FALSE, late |-> FALSE]

ProcessInit ==
    /\ options \in Options /\ stack = <<>>
    /\ step = "logging" /\ defers = <<>> /\ files = {} /\ signalled = FALSE
    /\ accept = "none" /\ closer = "none" /\ failure = "" /\ told = {}
    /\ logger = NoLogger /\ emitter = [e \in Emitters |-> "idle"] /\ readers = {}
    /\ accepted = <<>> /\ written = <<>> /\ drops = 0 /\ broken = FALSE

-----------------------------------------------------------------------------
(* Configuration *)

\* The network part of an address, and whether an address is in the subnet.
Masked(addr, bits) == addr - (addr % 2 ^ (Width - bits))
InSubnet(addr, bits, other) == other \in 0 .. 2 ^ Width - 1 /\ Masked(other, bits) = Masked(addr, bits)

\* Mutant: a subnet of four addresses will do.
getFirstUsableIPFromSubnet_small(addr, bits) == IF bits + 1 > Width THEN 0 - 1 ELSE Masked(addr, bits) + 1

\* The gateway, the device and the host; a negative number where there is none.
getFirstUsableIPFromSubnet(addr, bits) == IF bits + 3 > Width THEN 0 - 1 ELSE Masked(addr, bits) + 1
getNextUsableIPFromSubnet(addr, bits, ip) == IF InSubnet(addr, bits, ip + 1) THEN ip + 1 ELSE 0 - 1
getLastUsableIPFromSubnet(addr, bits) == Masked(addr, bits) + 2 ^ (Width - bits) - 2

stackConfig(o) ==
    LET gateway == getFirstUsableIPFromSubnet(o.subnet, o.bits)
        device == getNextUsableIPFromSubnet(o.subnet, o.bits, gateway)
    IN  IF gateway < 0 \/ device < 0 \/ (o.sshPort # -1 /\ o.sshPort \notin 1024 .. 65535) THEN <<>>
        ELSE <<[gateway |-> gateway, device |-> device, host |-> getLastUsableIPFromSubnet(o.subnet, o.bits),
                forwards |-> {o.sshPort} \ {-1}]>>

Parses(o) == o.listen /\ stackConfig(o) # <<>> /\ (o.cert <=> o.key)

-----------------------------------------------------------------------------
(* The start *)

Fail(error) == step' = "unwinding" /\ failure' = error /\ UNCHANGED <<files, defers, stack>>

\* The files a step makes, and the calls it defers.
Made(s) ==
    CASE s = "logging" /\ options.log -> {"log"}
      [] s = "pid" -> {"pid"}
      [] s = "audit" /\ options.log -> {"audit"}
      [] s = "listen" -> {"endpoint"}
      [] OTHER -> {}
Deferred(s) ==
    CASE s = "pid" -> <<"pid">>
      [] s = "signals" -> <<"cancel">>
      [] s = "audit" -> <<"audit">>
      [] s = "listen" -> <<"conn", "endpoint">>
      [] OTHER -> <<>>
Done(s) ==
    /\ step' = After(s) /\ UNCHANGED failure
    /\ stack' = IF s = "parse" THEN stackConfig(options) ELSE stack
    /\ files' = files \cup Made(s)
    /\ defers' = defers \o Deferred(s)

\* virtualnetwork.New: the stack and its services; a host port that is taken is an error, and the ports
\* that were exposed go with the process.
New ==
    \/ stack[1].forwards # {} /\ Fail("startup_error")
    \/ Done("stack")

\* One step of main and run: what may go wrong in it, or what it leaves behind.
Start ==
    /\ \E i \in DOMAIN Steps : Steps[i] = step
    /\ CASE step = "parse" -> IF Parses(options) THEN Done(step) ELSE Fail("startup_error")
         [] step = "policy" -> \/ Fail("policy_error")
                               \/ options.https /\ ~ options.cert /\ Fail("startup_error")
                               \/ (options.https => options.cert) /\ Done(step)
         [] step = "signals" -> Done(step)
         [] step = "stack" -> New
         [] OTHER -> Done(step) \/ Fail("startup_error")
    /\ logger' = IF step = "audit" /\ step' = "proxies" /\ options.log THEN [logger EXCEPT !.open = TRUE] ELSE logger
    /\ accept' = IF step' = "serving" THEN "waiting" ELSE accept
    /\ closer' = IF step' = "serving" THEN "waiting" ELSE closer
    /\ UNCHANGED <<options, signalled, told, emitter, readers, accepted, written, drops, broken>>

-----------------------------------------------------------------------------
(* Serving *)

Notified == "cancel" \in Range(defers)

\* SIGTERM, from whoever stops the helper.
Signal ==
    /\ ~ signalled /\ step \notin {"exited", "killed"}
    /\ signalled' = TRUE
    /\ step' = IF Notified THEN step ELSE "killed"
    /\ UNCHANGED <<options, stack, defers, files, accept, closer, failure, told, auditVars>>

\* The context of the group ends with a signal or with the first error of a goroutine.
Cancelled == signalled \/ failure # ""

\* The goroutine that closes the socket.
CloserReturns ==
    /\ step = "serving" /\ closer = "waiting" /\ Cancelled
    /\ closer' = "returned"
    /\ UNCHANGED <<options, stack, step, defers, files, signalled, accept, failure, told, auditVars>>

\* A guest attaches.
AcceptVfkit ==
    /\ step = "serving" /\ accept = "waiting" /\ closer = "waiting"
    /\ accept' = "attached"
    /\ UNCHANGED <<options, stack, step, defers, files, signalled, closer, failure, told, auditVars>>

\* No guest came before the socket was closed, the guest went, or the context ended.
AcceptReturns ==
    /\ step = "serving"
    /\ \/ accept = "waiting" /\ closer = "returned" /\ failure' = (IF failure = "" THEN "startup_error" ELSE failure)
       \/ /\ accept = "attached"
          /\ failure' \in {failure, IF failure = "" THEN "startup_error" ELSE failure}
          /\ failure' = "" => Cancelled
    /\ accept' = "returned"
    /\ UNCHANGED <<options, stack, step, defers, files, signalled, closer, told, auditVars>>

\* group.Wait
GroupDone ==
    /\ step = "serving" /\ accept = "returned" /\ closer = "returned"
    /\ step' = "unwinding"
    /\ UNCHANGED <<options, stack, defers, files, signalled, accept, closer, failure, told, auditVars>>

-----------------------------------------------------------------------------
(* The audit logger *)

Alive == step \notin {"exited", "killed"}

\* emit: closed is looked at before the lock is asked for, and again under it.
EmitChecks(e) ==
    /\ Alive /\ accept # "none" /\ emitter[e] = "idle" /\ logger.open /\ Len(accepted) + drops < MaxEvents
    /\ emitter' = [emitter EXCEPT ![e] = IF logger.closed THEN "over" ELSE "checked"]
    /\ UNCHANGED <<startVars, signalled, logger, readers, accepted, written, drops, broken>>

\* Mutant: closed is not looked at under the lock.
EmitLocks_blind(e) ==
    /\ Alive /\ emitter[e] = "checked" /\ logger.closing # "lock"
    /\ emitter' = [emitter EXCEPT ![e] = "locked"] /\ readers' = readers \cup {e}
    /\ UNCHANGED <<startVars, signalled, logger, accepted, written, drops, broken>>

\* A writer that waits keeps new readers out.
EmitLocks(e) ==
    /\ Alive /\ emitter[e] = "checked" /\ logger.closing # "lock"
    /\ IF logger.closed THEN emitter' = [emitter EXCEPT ![e] = "over"] /\ UNCHANGED readers
       ELSE emitter' = [emitter EXCEPT ![e] = "locked"] /\ readers' = readers \cup {e}
    /\ UNCHANGED <<startVars, signalled, logger, accepted, written, drops, broken>>

\* The event is queued, or dropped when the queue is full; a send on the closed channel panics.
EmitSends(e) ==
    /\ Alive /\ emitter[e] = "locked"
    /\ emitter' = [emitter EXCEPT ![e] = "idle"] /\ readers' = readers \ {e}
    /\ broken' = (broken \/ logger.closed)
    /\ IF Len(logger.queue) < Capacity
       THEN /\ accepted' = Append(accepted, Len(accepted) + 1)
            /\ logger' = [logger EXCEPT !.queue = Append(@, Len(accepted) + 1)]
            /\ UNCHANGED drops
       ELSE drops' = drops + 1 /\ UNCHANGED <<logger, accepted>>
    /\ UNCHANGED <<startVars, signalled, written>>

\* drain: an event is taken, then encoded; the file may be closed by then.
DrainTakes ==
    /\ Alive /\ logger.taken = 0 /\ logger.queue # <<>>
    /\ logger' = [logger EXCEPT !.taken = Head(logger.queue), !.queue = Tail(@)]
    /\ UNCHANGED <<startVars, signalled, emitter, readers, accepted, written, drops, broken>>
DrainWrites ==
    /\ Alive /\ logger.taken # 0
    /\ written' = IF logger.open THEN Append(written, logger.taken) ELSE written
    /\ logger' = [logger EXCEPT !.taken = 0]
    /\ UNCHANGED <<startVars, signalled, emitter, readers, accepted, drops, broken>>
DrainEnds ==
    /\ Alive /\ logger.closed /\ logger.queue = <<>> /\ logger.taken = 0 /\ ~ logger.done
    /\ logger' = [logger EXCEPT !.done = TRUE]
    /\ UNCHANGED <<startVars, signalled, emitter, readers, accepted, written, drops, broken>>

\* Mutant: the channel is closed without waiting for those who hold the lock.
ChannelClosable_free == TRUE

ChannelClosable == readers = {}

\* Close: the lock is asked for and taken, the channel closed, the queue drained for five seconds at most.
CloseLocks ==
    /\ step = "unwinding" /\ defers # <<>> /\ Last(defers) = "audit" /\ logger.open /\ logger.closing = ""
    /\ logger' = [logger EXCEPT !.closing = "lock"]
    /\ UNCHANGED <<startVars, signalled, emitter, readers, accepted, written, drops, broken>>
CloseChannel ==
    /\ logger.closing = "lock" /\ ChannelClosable /\ Alive
    /\ logger' = [logger EXCEPT !.closing = "drain", !.closed = TRUE]
    /\ UNCHANGED <<startVars, signalled, emitter, readers, accepted, written, drops, broken>>
CloseFile ==
    /\ logger.closing = "drain" /\ Alive
    /\ logger' = [logger EXCEPT !.closing = "closed", !.open = FALSE, !.late = ~ logger.done]
    /\ UNCHANGED <<startVars, signalled, emitter, readers, accepted, written, drops, broken>>

-----------------------------------------------------------------------------
(* The end *)

NextDefer == Last(defers)

\* The deferred calls of run, the last first.
Unwind ==
    /\ step = "unwinding" /\ defers # <<>>
    /\ NextDefer = "audit" => ~ logger.open
    /\ files' = IF NextDefer = "audit" THEN files ELSE files \ {NextDefer}
    /\ defers' = SelectSeq(defers, LAMBDA d : d # NextDefer)
    /\ UNCHANGED <<options, stack, step, signalled, accept, closer, failure, told, auditVars>>

\* The error is told on stderr, and the process ends.
Exit ==
    /\ step = "unwinding" /\ defers = <<>>
    /\ step' = "exited"
    /\ told' = {failure} \ {""}
    /\ UNCHANGED <<options, stack, defers, files, signalled, accept, closer, failure, auditVars>>

ProcessNext ==
    \/ Start \/ Signal \/ CloserReturns \/ AcceptVfkit \/ AcceptReturns \/ GroupDone
    \/ \E e \in Emitters : EmitChecks(e) \/ EmitLocks(e) \/ EmitSends(e)
    \/ DrainTakes \/ DrainWrites \/ DrainEnds \/ CloseLocks \/ CloseChannel \/ CloseFile
    \/ Unwind \/ Exit

ProcessSpec == ProcessInit /\ [][ProcessNext]_processVars

-----------------------------------------------------------------------------
(* Properties *)

ProcessTypeOK ==
    /\ step \in Range(Steps) \cup {"serving", "unwinding", "exited", "killed"}
    /\ files \subseteq {"log", "pid", "audit", "endpoint"}
    /\ Len(logger.queue) <= Capacity /\ readers \subseteq Emitters
    /\ failure \in {"", "startup_error", "policy_error"}

\* A helper that ends by itself takes its pid file and its endpoint along, whatever step failed; while it
\* serves, both are there.
LeavesNothing ==
    /\ step = "exited" => files \cap {"pid", "endpoint"} = {}
    /\ step = "serving" => {"pid", "endpoint"} \subseteq files

\* The three addresses of a network differ and are neither its first nor its last; a helper that serves https
\* endpoints has a certificate authority.
ServesWhatItCan ==
    /\ stack # <<>> =>
        LET base == Masked(options.subnet, options.bits)
            usable == base + 1 .. base + 2 ^ (Width - options.bits) - 2
        IN  /\ {stack[1].gateway, stack[1].device, stack[1].host} \subseteq usable
            /\ Cardinality({stack[1].gateway, stack[1].device, stack[1].host}) = 3
    /\ step = "serving" /\ options.https => options.cert /\ options.key

\* Connections outlive the logger: none of them sends on the closed channel, and every event that was queued
\* is in the file, in order, when the helper ends in time.
AuditIsWhole ==
    /\ ~ broken
    /\ IsPrefix(written, accepted) \/ logger.late
    /\ step = "exited" /\ ~ logger.late => written = accepted

=============================================================================
