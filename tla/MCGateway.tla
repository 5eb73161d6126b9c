----------------------------- MODULE MCGateway ------------------------------
(***************************************************************************)
(* Connections through netd (NetdGateway) under a few policies: endpoints   *)
(* with several hosts, ports and credentials, an address as a host, rules   *)
(* about addresses, and both defaults; the process itself (NetdProcess)     *)
(* with two connections that record more than the queue takes; and what     *)
(* the https proxy does with a ClientHello and with its certificates        *)
(* (TlsInterception).                                                       *)
(***************************************************************************)
EXTENDS MCSecrets

VARIABLES conn, reached, records, answered

VARIABLES options, stack, step, defers, files, signalled, accept, closer, failure, told,
          logger, emitter, readers, accepted, written, drops, broken
VARIABLES parser, clock, caEnd, cache, caller, holder

connVars == <<conn, reached, records, answered>>
netdVars == <<options, stack, step, defers, files, signalled, accept, closer, failure, told,
              logger, emitter, readers, accepted, written, drops, broken>>
tlsVars == <<parser, clock, caEnd, cache, caller, holder>>

Bearer == CredentialBlock("bearer_token", "b", Ref("https", "a"), <<>>)
AllowGet == RuleBlock("g", <<Ref("https", "a")>>, "allow", <<Attr("condition", "condition", IsGet)>>)
TwoHosts == EndpointBlock("https", "a", <<Pattern(FALSE, <<"ex", "com">>, Absent), Pattern(TRUE, <<"ex", "org">>, Absent),
                                         Pattern(FALSE, <<"ex", "com">>, 444)>>)
OtherHost == EndpointBlock("https", "w", <<Pattern(FALSE, <<"org">>, Absent), Pattern(FALSE, <<"1", "1", "1", "1">>, Absent)>>)
PlainHosts == EndpointBlock("http", "p", <<Pattern(FALSE, <<"ex", "com">>, Absent), Pattern(FALSE, <<"org">>, 81)>>)
AllowOther == RuleBlock("o", <<Ref("https", "w"), Ref("http", "p")>>, "allow", <<>>)
ByAddress(verdict) == <<IpBlock("i", <<{"n"}>>, "tcp", <<>>), RuleBlock("r", <<Ref("ip", "i")>>, verdict, <<>>)>>

\* Each default alone, and each verdict about one of the addresses.
GatewayDocuments ==
    {<<Settings(default), TwoHosts, OtherHost, PlainHosts, Bearer, AllowGet, AllowOther>> \o more :
        default \in {"allow", "deny"}, more \in {<<>>, ByAddress("allow"), ByAddress("deny")}}

Hello(kind, host) == [kind |-> kind, host |-> host, bytes |-> IF kind = "cut" THEN 3 ELSE 5]
Hellos == {Hello("sni", <<"ex", "com">>), Hello("sni", <<"a", "ex", "org">>), Hello("sni", <<"org">>),
           Hello("sni", <<"net">>), Hello("none", <<>>), Hello("other", <<>>), Hello("cut", <<>>)}
Attempt(protocol, dest, port, hello) == [protocol |-> protocol, source |-> Absent, dest |-> dest, port |-> port, hello |-> hello]
GatewayAttempts ==
    {Attempt("tcp", d, 443, h) : d \in {"n", "m", "host"}, h \in Hellos}
    \cup {Attempt("tcp", "m", 444, Hello("sni", <<"ex", "com">>))}
    \cup {Attempt("tcp", "m", p, Hello("other", <<>>)) : p \in {22, 80, 81}}
    \cup {Attempt(pr, "meta", 80, Hello("other", <<>>)) : pr \in {"tcp", "udp"}}
    \cup {Attempt("udp", d, 443, Hello("other", <<>>)) : d \in {"n", "m", "all"}}

Field(name, parts) == [name |-> name, parts |-> parts]
Message(host, method, path, headers, close) ==
    [host |-> host, method |-> method, path |-> path, query |-> <<>>, headers |-> headers,
     upgrade |-> headers # <<>> /\ headers[1].parts[1] = "upgrade", close |-> close]
GatewayMessages ==
    {Message(h, "GET", "/A", <<Field("Connection", <<t, "Authorization">>), Field("Authorization", <<"own">>)>>, FALSE) :
        h \in {Authority(<<"ex", "COM">>, Absent), Authority(<<"b", "ex", "org">>, 443)}, t \in {"Via", "upgrade"}}
    \cup {Message(h, "GET", "/A", <<>>, TRUE) :
        h \in {Absent, Authority(<<"org">>, Absent), Authority(<<"org">>, 81), Authority(<<"1", "1", "1", "1">>, Absent),
               Authority(<<"net">>, Absent), Authority(<<"ex", "com">>, 444), Authority(<<>>, Absent)}}
    \cup {Message(Authority(<<"ex", "com">>, Absent), "PUT", "/A", <<>>, FALSE)}
    \cup {Message(Authority(<<"ex", "com">>, Absent), "GET", "/B", <<Field("Connection", <<t>>)>>, TRUE) : t \in {"Via", "upgrade"}}

Scheme(s) == [scheme |-> s]
Mixed2 == <<Scheme("Basic"), Scheme(""), Scheme("Bearer"), Scheme("")>>
FewResponses ==
    {[status |-> 0, lines |-> <<>>], [status |-> 101, lines |-> <<Field("Set-Cookie", <<>>), Field("", <<>>), Field("Date", <<>>)>>]}
FullResponses ==
    {[status |-> 200, lines |-> <<a, b, c>>] :
        a \in {Field("Date", <<>>), Field("Set-Cookie", <<>>), Field("WWW-Authenticate", <<Scheme(""), Scheme("Basic")>>)},
        b \in {Field("", <<Scheme("")>>), Field("Alt-Svc", <<>>), Field("WWW-Authenticate", Mixed2)},
        c \in {Field("", <<>>), Field("WWW-Authenticate", <<Scheme("Digest"), Scheme(""), Scheme("Basic")>>), Field("Age", <<>>)}}

Gates == INSTANCE NetdGateway WITH
    None <- Absent, Documents <- GatewayDocuments, Requests <- {}, Flows <- {}, LowerOf <- LowerOfDef,
    BadNames <- {}, BadHeaders <- {}, MaxPort <- 500, Digits <- {"1", "2"}, V6 <- {"v6"},
    Attempts <- GatewayAttempts, Messages <- GatewayMessages, Responses <- ("/A" :> FewResponses @@ "/B" :> FullResponses),
    NatTable <- ("host" :> "lo"), LinkLocal <- {"meta"}, Broadcast <- {"all"},
    Spelled <- [a \in {"n", "m", "lo"} |-> IF a = "m" THEN <<"1", "1", "1", "1">> ELSE <<"2", "1", "1", "1">>],
    MaxRequests <- 2

\* A connection that is over has nothing left to do.
GatesClosed == conn.pc = "done" /\ UNCHANGED <<connVars, document, loaded, policy, closed, asked, decision>>

\* The gateway while another part is looked at.
GatesIdle == conn = <<>> /\ reached = <<>> /\ records = <<>> /\ answered = <<>>

\* What a connection may do under its policy, what it leaves behind, and what the guest sees of it.
GatesObey ==
    /\ Gates!OnlyWhatIsAllowed /\ Gates!DecidedForItsEndpoint /\ Gates!CredentialsStayHome
    /\ Gates!EverythingIsRecorded /\ Gates!NothingIsLost /\ Gates!ResponsesAreClean

-----------------------------------------------------------------------------

GoodOptions == [subnet |-> 5, bits |-> 1, sshPort |-> 2222, listen |-> TRUE, cert |-> TRUE, key |-> TRUE, https |-> TRUE, log |-> TRUE]
NetdOptions ==
    {[GoodOptions EXCEPT !.subnet = s, !.bits = b, !.sshPort = p, !.log = FALSE] :
        s \in {0, 5, 12}, b \in 0 .. 4, p \in {-1, 22, 2222}}
    \cup {[GoodOptions EXCEPT !.listen = l, !.cert = c, !.key = k, !.https = h, !.log = FALSE] :
        l \in BOOLEAN, c \in BOOLEAN, k \in BOOLEAN, h \in BOOLEAN}
    \cup {GoodOptions}

Process == INSTANCE NetdProcess WITH
    Options <- NetdOptions, Width <- 4, Emitters <- {"x", "y"}, Capacity <- 1, MaxEvents <- 3

\* A process that is over has nothing left to do.
ProcessOver == step \in {"exited", "killed"} /\ UNCHANGED netdVars
ProcessIdle ==
    /\ options = Absent /\ stack = <<>> /\ step = "" /\ defers = <<>> /\ files = {} /\ signalled = FALSE
    /\ accept = "" /\ closer = "" /\ failure = "" /\ told = {} /\ logger = <<>> /\ emitter = <<>> /\ readers = {}
    /\ accepted = <<>> /\ written = <<>> /\ drops = 0 /\ broken = FALSE

Tls == INSTANCE TlsInterception WITH
    None <- Absent, Sizes <- {3, 4, 37, 38, 39, 42, 44, 45, 50, 58}, Lengths <- {0, 1, 2, 5, 8, 12}, Callers <- {"x", "y"},
    Hosts <- {[name |-> "A", key |-> "a"], [name |-> "[v6]", key |-> "v6"]},
    Lifetime <- 3, Refresh <- 1, CaEnds <- {4, 9}, MaxClock <- 6
TlsInit ==
    \/ Tls!HelloInit /\ clock = 0 /\ caEnd = 0 /\ cache = <<>> /\ caller = <<>> /\ holder = Absent
    \/ parser = Absent /\ Tls!CertInit
TlsNext ==
    \/ parser # Absent /\ Tls!HelloNext
    \/ parser = Absent /\ Tls!CertNext
\* A ClientHello that was parsed, and an authority that nobody asks at the end of the time.
TlsOver ==
    /\ IF parser # Absent THEN parser.phase \in {"error", "missing", "found"} ELSE clock = 6
    /\ UNCHANGED tlsVars
TlsIdle == parser = Absent /\ clock = 0 /\ caEnd = 0 /\ cache = <<>> /\ caller = <<>> /\ holder = Absent
TlsKept == IF parser # Absent THEN Tls!ReadsInside ELSE Tls!ServedIsValid /\ Tls!CacheIsSound
=============================================================================
