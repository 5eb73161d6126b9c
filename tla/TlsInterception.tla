-------------------------- MODULE TlsInterception --------------------------
(***************************************************************************)
(* What the https proxy of netd does before it reads a request              *)
(* (netd/internal/gateway/forwarder/https.go).  It looks for the server     *)
(* name in a ClientHello whose bytes the guest chose: one action per field, *)
(* whose value is any of a few.  It then serves a certificate of its own    *)
(* authority, from a cache that the connections share.                      *)
(*                                                                          *)
(* Time is counted in hours.                                                *)
(***************************************************************************)
EXTENDS Integers, FiniteSets

CONSTANTS
    None,
    Sizes,          \* lengths of a handshake record
    Lengths,        \* values of a length field
    Callers,        \* connections that need a certificate
    Hosts,          \* [name, key]: hosts as spelled, and in lower case without brackets
    Lifetime,       \* of a leaf certificate
    Refresh,        \* certificateRefreshBeforeExpiry
    CaEnds,         \* when the certificate of the authority may end
    MaxClock        \* bound

VARIABLES
    parser,          \* [size, phase, pos, end, read, limit]: the parser of a ClientHello
    clock, caEnd,
    cache,          \* the certificates by host
    caller,         \* [pc, host, now, cert]
    holder          \* who holds certificateAuthority.mu
tlsVars == <<parser, clock, caEnd, cache, caller, holder>>
certVars == <<clock, caEnd, cache, caller, holder>>

NoCall == [pc |-> "idle", host |-> None, now |-> 0, cert |-> None]
Keys == {h.key : h \in Hosts}

HelloInit ==
    \E size \in Sizes : parser = [size |-> size, phase |-> "hello", pos |-> 0, end |-> size, read |-> 0, limit |-> size]
CertInit ==
    /\ clock = 1 /\ caEnd \in CaEnds /\ cache = [k \in Keys |-> None] /\ holder = None
    /\ caller = [c \in Callers |-> NoCall]

-----------------------------------------------------------------------------
(* The ClientHello *)

Ends(phase, read) == parser' = [parser EXCEPT !.phase = phase, !.read = read]
\* The parser goes on behind a field of the given length; read is the end of what it has looked at.
Goes(phase, pos, read) == parser' = [parser EXCEPT !.phase = phase, !.pos = pos, !.read = read]

\* The type and the length of the message, and the 34 bytes of version and random.
ParseHeader ==
    /\ parser.phase = "hello"
    /\ IF parser.size < 4 THEN Ends("error", 0)
       ELSE \/ Ends("error", 4)
            \/ IF 38 > parser.size THEN Ends("error", 4) ELSE Goes("session", 38, 4)

\* Mutant: the two bytes behind the field are not asked for.
Fits_alone(pos, length, more) == pos + length <= parser.size

\* A field and the length field behind it.
Fits(pos, length, more) == pos + length + more <= parser.size

ParseSession ==
    /\ parser.phase = "session"
    /\ IF ~ Fits(parser.pos, 1, 0) THEN Ends("error", parser.read)
       ELSE \E length \in Lengths :
               IF Fits(parser.pos + 1, length, 2) THEN Goes("ciphers", parser.pos + 1 + length, parser.pos + 1)
               ELSE Ends("error", parser.pos + 1)

ParseCiphers ==
    /\ parser.phase = "ciphers"
    /\ \E length \in Lengths :
          IF Fits(parser.pos + 2, length, 1) THEN Goes("compression", parser.pos + 2 + length, parser.pos + 2)
          ELSE Ends("error", parser.pos + 2)

ParseCompression ==
    /\ parser.phase = "compression"
    /\ \E length \in Lengths :
          IF Fits(parser.pos + 1, length, 2) THEN Goes("extensions", parser.pos + 1 + length, parser.pos + 1)
          ELSE Ends("error", parser.pos + 1)

ParseExtensions ==
    /\ parser.phase = "extensions"
    /\ \E length \in Lengths :
          IF parser.pos + 2 + length > parser.size THEN Ends("error", parser.pos + 2)
          ELSE parser' = [parser EXCEPT !.phase = "extension", !.pos = @ + 2, !.end = parser.pos + 2 + length,
                                      !.read = parser.pos + 2]

\* One extension; the server name is in the first of its type.
ParseExtension ==
    /\ parser.phase = "extension"
    /\ IF parser.pos + 4 > parser.end THEN Ends("missing", parser.read)
       ELSE \E length \in Lengths :
               \/ parser.pos + 4 + length > parser.end /\ Ends("error", parser.pos + 4)
               \/ parser.pos + 4 + length <= parser.end /\ Goes("extension", parser.pos + 4 + length, parser.pos + 4)
               \/ /\ parser.pos + 4 + length <= parser.end
                  /\ parser' = [parser EXCEPT !.phase = "list", !.pos = @ + 4, !.limit = parser.pos + 4 + length,
                                            !.read = parser.pos + 4]

\* parseServerNameExtension, on the bytes of the extension alone.
ParseList ==
    /\ parser.phase = "list"
    /\ IF parser.pos + 2 > parser.limit THEN Ends("error", parser.read)
       ELSE \E length \in Lengths :
               IF parser.pos + 2 + length > parser.limit THEN Ends("error", parser.pos + 2)
               ELSE parser' = [parser EXCEPT !.phase = "name", !.pos = @ + 2, !.end = parser.pos + 2 + length,
                                           !.read = parser.pos + 2]
ParseName ==
    /\ parser.phase = "name"
    /\ IF parser.pos + 3 > parser.end THEN Ends("missing", parser.read)
       ELSE \E length \in Lengths :
               \/ parser.pos + 3 + length > parser.end /\ Ends("error", parser.pos + 3)
               \/ parser.pos + 3 + length <= parser.end /\ Goes("name", parser.pos + 3 + length, parser.pos + 3)
               \/ /\ parser.pos + 3 + length <= parser.end
                  /\ Ends(IF length = 0 THEN "missing" ELSE "found", parser.pos + 3 + length)

HelloNext ==
    /\ \/ ParseHeader \/ ParseSession \/ ParseCiphers \/ ParseCompression
       \/ ParseExtensions \/ ParseExtension \/ ParseList \/ ParseName
    /\ UNCHANGED certVars

\* No index is outside of the slice that is parsed: a panic would end the helper for every machine on the network.
ReadsInside == parser.read <= parser.limit

-----------------------------------------------------------------------------
(* Certificates *)

leafNotAfter(now) == IF caEnd < now + Lifetime THEN caEnd ELSE now + Lifetime
mint(key, now) == [key |-> key, notBefore |-> now - 1, notAfter |-> leafNotAfter(now)]

\* Mutant: a certificate is used to its last hour.
cachedCertificateUsable_last(cert, now) == cert # None /\ cert.notBefore <= now /\ now <= cert.notAfter

\* Not in its last hour, unless that is the last hour of the authority.
cachedCertificateUsable(cert, now) ==
    /\ cert # None
    /\ cert.notBefore <= now /\ now < cert.notAfter
    /\ now + Refresh < cert.notAfter \/ cert.notAfter = caEnd

\* CertificateFor reads the clock, then waits for the lock.
Ask(c, h) ==
    /\ caller[c].pc = "idle"
    /\ caller' = [caller EXCEPT ![c] = [pc |-> "waiting", host |-> h, now |-> clock, cert |-> None]]
    /\ UNCHANGED <<parser, clock, caEnd, cache, holder>>

Lock(c) ==
    /\ caller[c].pc = "waiting" /\ holder = None
    /\ holder' = c
    /\ caller' = [caller EXCEPT ![c].pc = "locked"]
    /\ UNCHANGED <<parser, clock, caEnd, cache>>

\* The key of a certificate takes a while to make; it may fail.
Serve(c) ==
    /\ caller[c].pc = "locked"
    /\ \E key \in {caller[c].host.key} :
        \/ /\ cachedCertificateUsable(cache[key], caller[c].now)
           /\ caller' = [caller EXCEPT ![c].pc = "served", ![c].cert = cache[key]]
           /\ UNCHANGED cache
        \/ /\ ~ cachedCertificateUsable(cache[key], caller[c].now)
           /\ cache' = [cache EXCEPT ![key] = mint(key, caller[c].now)]
           /\ caller' = [caller EXCEPT ![c].pc = "served", ![c].cert = mint(key, caller[c].now)]
        \/ /\ ~ cachedCertificateUsable(cache[key], caller[c].now)
           /\ caller' = [caller EXCEPT ![c] = NoCall]
           /\ UNCHANGED cache
    /\ holder' = None
    /\ UNCHANGED <<parser, clock, caEnd>>

Finish(c) ==
    /\ caller[c].pc = "served"
    /\ caller' = [caller EXCEPT ![c] = NoCall]
    /\ UNCHANGED <<parser, clock, caEnd, cache, holder>>

\* An hour passes; bound: nobody waits for longer than one.  The clock may also be set back.
Tick ==
    /\ clock < MaxClock /\ \A c \in Callers : caller[c].pc # "idle" => clock = caller[c].now
    /\ clock' = clock + 1
    /\ UNCHANGED <<parser, caEnd, cache, caller, holder>>
SetBack ==
    /\ clock > 3 /\ \A c \in Callers : caller[c].pc = "idle"
    /\ clock' = clock - 3
    /\ UNCHANGED <<parser, caEnd, cache, caller, holder>>

CertNext ==
    \/ \E c \in Callers : Lock(c) \/ Serve(c) \/ Finish(c) \/ \E h \in Hosts : Ask(c, h)
    \/ Tick \/ SetBack

\* The certificate that a guest gets is for its host and valid when it gets it, though the clock was read before
\* the lock was taken; only the authority's own end excuses it.
ServedIsValid ==
    \A c \in Callers : caller[c].pc = "served" =>
        /\ caller[c].cert.key = caller[c].host.key
        /\ clock < caEnd => caller[c].cert.notBefore <= clock /\ clock < caller[c].cert.notAfter

\* The lock protects the cache, and a certificate never outlives the authority.
CacheIsSound ==
    /\ Cardinality({c \in Callers : caller[c].pc = "locked"}) <= 1
    /\ \A k \in Keys : cache[k] # None => cache[k].key = k /\ cache[k].notAfter <= caEnd

=============================================================================
