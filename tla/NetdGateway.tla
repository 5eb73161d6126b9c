---------------------------- MODULE NetdGateway ----------------------------
(***************************************************************************)
(* A connection of the guest through netd (netd/internal/gateway).  The     *)
(* forwarders ask the policy about the flow and refuse it, connect it to    *)
(* its destination, or hand it to a proxy that reads the requests on it,    *)
(* asks the policy about each and forwards those that it allows.            *)
(*                                                                          *)
(* An attempt is [protocol, source, dest, port, hello].  Its first bytes    *)
(* are hello: a ClientHello with a server name ("sni") or without           *)
(* ("none"), something else ("other"), or fewer bytes than a TLS record     *)
(* header has ("cut").  A request is [host, method, path, query, headers,   *)
(* upgrade, close]; host is None when it names none.                        *)
(***************************************************************************)
EXTENDS PolicyEngine, HttpHeaders

CONSTANTS
    Attempts,       \* what the guest may connect to
    Messages,       \* the requests it may send
    Responses,      \* [status, lines]: what an upstream may answer, by path; status 0 is no answer
    NatTable,            \* addresses that stand for one of the host
    LinkLocal,      \* addresses of the metadata service
    Broadcast,      \* the limited broadcast address
    Spelled,        \* the labels of an address, as a host
    MaxRequests     \* bound: requests of a connection

VARIABLES
    conn,           \* the connection
    reached,        \* what was sent to an upstream, in order
    records,        \* the audit records, in order
    answered        \* what the guest got back for its requests, in order
gatewayVars == <<conn, reached, records, answered>>

NoConn == [pc |-> "idle"]
Translated(a) == IF a \in DOMAIN NatTable THEN NatTable[a] ELSE a

GatewayInit ==
    /\ PolicyInit
    /\ conn = NoConn /\ reached = <<>> /\ records = <<>> /\ answered = <<>>

-----------------------------------------------------------------------------
(* The hooks: a decision of the policy as the router gives it on *)

\* What may be classified is, even where the default denies it.
routeActionFromPolicy(d) ==
    IF d.classify THEN "classify" ELSE IF d.action = "deny" THEN "deny" ELSE "allow_direct"

Names(host) == [host |-> host, port |-> None, bracketed |-> FALSE, plain |-> TRUE]

\* What an https connection may be taken for, by its server name or by its destination.
ResolveHTTPSHost(sni, port) ==
    {[endpoint |-> e.name, authority |-> ParseAuthority(Names(sni), IF port = 0 THEN 443 ELSE port), raw |-> FALSE] :
        e \in matchHTTPFamilyHost(policy, "https", Names(sni), IF port = 0 THEN 443 ELSE port)}
ResolveHTTPSRawIP(dest, port) ==
    LET bound(e) == {b \in e.hosts : ~ b.wildcard /\ b.port = port /\ b.host = Spelled[dest]}
    IN  {[endpoint |-> e.name, authority |-> [host |-> Spelled[dest], port |-> port], raw |-> TRUE] :
            e \in {x \in policy.http : x.kind = "https" /\ bound(x) # {}}}
MatchHTTPSAuthority(host, selected) == ParseAuthority(host, 443) = selected

\* The bytes of a connection may go to its destination as they are.
flowAllowsExplicitRawFallback(action, d) ==
    action = "allow_direct" \/ (action = "classify" /\ d.source = "rule")

\* Mutant: the default is not asked.
flowAllowsRawFallback_always(action, d) == action \in {"allow_direct", "classify"}
flowAllowsRawFallback(action, d) ==
    flowAllowsExplicitRawFallback(action, d) \/ (action = "classify" /\ policy.default = "allow")

-----------------------------------------------------------------------------
(* Audit *)

\* A record of the flow, and the end of the connection.
EndFlow(verdict, reason) ==
    /\ conn' = [conn EXCEPT !.pc = "done"]
    /\ records' = Append(records, [kind |-> "flow", verdict |-> verdict, reason |-> reason])

RecordHTTP(verdict, reason) == Append(records, [kind |-> "http", verdict |-> verdict, reason |-> reason])

-----------------------------------------------------------------------------
(* Forwarders *)

Flow(a) == [protocol |-> a.protocol, source |-> a.source, dest |-> Translated(a.dest), port |-> a.port]
Opened(a, flow, d, pc) ==
    conn' = [pc |-> pc, hello |-> a.hello, flow |-> flow, decision |-> d,
             selection |-> None, request |-> None, answer |-> None, read |-> 0]

\* A connection that is over as soon as it was asked for.
Turned(a, flow, verdict, reason) ==
    /\ conn' = [pc |-> "done", hello |-> a.hello, flow |-> flow, decision |-> None,
                selection |-> None, request |-> None, answer |-> None, read |-> 0]
    /\ records' = Append(records, [kind |-> "flow", verdict |-> verdict, reason |-> reason])

Serving(port, kind) == ShouldIntercept(policy, kind, port)

\* The handler of the TCP forwarder up to its choice of a proxy.  An http endpoint on the port
\* goes before an https endpoint on the same port.
TCP(a) ==
    /\ conn = NoConn /\ policy \notin {None, Err} /\ a.protocol = "tcp"
    /\ \E flow \in {Flow(a)} : \E d \in {EvaluateFlow(policy, flow)} : \E action \in {routeActionFromPolicy(d)} :
        \/ a.dest \in LinkLocal /\ Turned(a, flow, "deny", "metadata_disabled")
        \/ a.dest \notin LinkLocal /\ action = "deny" /\ Turned(a, flow, "deny", d.reason)
        \/ a.dest \notin LinkLocal /\ action # "deny" /\ Turned(a, flow, "allow", "endpoint_error")
        \/ /\ a.dest \notin LinkLocal /\ action # "deny"
           /\ Opened(a, flow, d, IF action = "classify" /\ Serving(a.port, "http") THEN "http"
                        ELSE IF action = "classify" /\ Serving(a.port, "https") THEN "peek" ELSE "dial")
           /\ UNCHANGED records
    /\ UNCHANGED <<reached, answered, policyVars>>

UDP(a) ==
    /\ conn = NoConn /\ policy \notin {None, Err} /\ a.protocol = "udp"
    /\ \E flow \in {Flow(a)} : \E d \in {EvaluateFlow(policy, flow)} :
        \/ a.dest \in LinkLocal /\ Turned(a, flow, "deny", "metadata_disabled")
        \/ a.dest \in Broadcast /\ Turned(a, flow, "deny", "broadcast_unsupported")
        \/ /\ a.dest \notin LinkLocal \cup Broadcast /\ routeActionFromPolicy(d) = "deny"
           /\ Turned(a, flow, "deny", d.reason)
        \/ /\ a.dest \notin LinkLocal \cup Broadcast /\ routeActionFromPolicy(d) # "deny"
           /\ \/ \E reason \in {"endpoint_error", "upstream_error"} : Turned(a, flow, "allow", reason)
              \/ Opened(a, flow, d, "dial") /\ UNCHANGED records
    /\ UNCHANGED <<reached, answered, policyVars>>

Direct(lost) == [how |-> "direct", authority |-> None, decided |-> None, headers |-> <<>>, credential |-> None, lost |-> lost]

\* Dial without a proxy, then both directions are copied until the connection is over.
Dial ==
    /\ conn.pc = "dial"
    /\ \/ EndFlow("allow", "upstream_error") /\ UNCHANGED reached
       \/ EndFlow("allow", conn.decision.reason) /\ reached' = Append(reached, Direct(0))
    /\ UNCHANGED <<answered, policyVars>>

-----------------------------------------------------------------------------
(* The https proxy up to the requests *)

\* proxyDirect: what was read goes first.  A TLS record header that was not complete is forgotten.
proxyDirect ==
    \/ EndFlow("allow", "proxy_error") /\ UNCHANGED reached
    \/ /\ EndFlow("allow", "")
       /\ reached' = Append(reached, Direct(IF conn.hello.kind = "cut" THEN conn.hello.bytes ELSE 0))

Selected(s) == conn' = [conn EXCEPT !.pc = "handshake", !.selection = s] /\ UNCHANGED <<reached, records>>
Unclassified == EndFlow("allow", "proxy_error") /\ UNCHANGED reached

\* HTTPSProxy.Handle: what the first bytes say.
Peek ==
    /\ conn.pc = "peek"
    /\ \E action \in {routeActionFromPolicy(conn.decision)} :
       \E found \in {CASE conn.hello.kind = "sni" -> ResolveHTTPSHost(conn.hello.host, conn.flow.port)
                       [] conn.hello.kind = "none" -> ResolveHTTPSRawIP(conn.flow.dest, conn.flow.port)
                       [] OTHER -> {}} :
       \E fallback \in {IF conn.hello.kind = "sni" THEN flowAllowsRawFallback(action, conn.decision)
                        ELSE flowAllowsExplicitRawFallback(action, conn.decision)} :
        \/ \E s \in found : Selected(s)
        \/ found = {} /\ fallback /\ proxyDirect
        \/ found = {} /\ ~ fallback /\ Unclassified
    /\ UNCHANGED <<answered, policyVars>>

\* proxyHTTPS: the guest accepts the certificate or it does not.
Handshake ==
    /\ conn.pc = "handshake"
    /\ \/ conn' = [conn EXCEPT !.pc = "https"] /\ UNCHANGED records
       \/ EndFlow("allow", "proxy_error")
    /\ UNCHANGED <<reached, answered, policyVars>>

-----------------------------------------------------------------------------
(* Requests *)

isWebSocketUpgrade(m) ==
    Lower(m.method) = "get" /\ "upgrade" \in connectionHeaderTokens(m.headers) /\ m.upgrade

httpRequest(m) ==
    [kind |-> conn.pc, host |-> m.host, method |-> m.method, path |-> m.path, query |-> m.query,
     headers |-> [i \in DOMAIN m.headers |-> [key |-> m.headers[i].name, values |-> m.headers[i].parts]]]

\* The client hung up, or sent what is no request.
ReadEnds ==
    /\ conn.pc \in {"http", "https"}
    /\ \E reason \in {"", "proxy_error"} : EndFlow("allow", reason)
    /\ UNCHANGED <<reached, answered, policyVars>>

statusForReason(reason) ==
    CASE reason = "missing_host" -> 400
      [] reason = "host_mismatch" -> 421
      [] reason \in {"upstream_error", "credential_error"} -> 502
      [] OTHER -> 403

\* A refusal is recorded and answered, and the connection closed, whether the client takes the answer or not.
Refuse(reason) ==
    /\ conn' = [conn EXCEPT !.pc = "done", !.read = @ + 1]
    /\ answered' = Append(answered, [status |-> statusForReason(reason), lines |-> <<>>, raw |-> FALSE, from |-> <<>>])
    /\ \E outcome \in {"", "proxy_error"} :
        records' = Append(RecordHTTP("deny", reason), [kind |-> "flow", verdict |-> "allow", reason |-> outcome])
    /\ UNCHANGED reached

\* Mutant: any host of an https endpoint will do.
Misdirected_https(host, owner) ==
    IF conn.pc = "http"
    THEN /\ matchHTTPFamilyHost(policy, "http", host, 80) # {}
         /\ ParseAuthority(host, 80).port # conn.flow.port
    ELSE IF conn.selection.raw THEN ~ MatchHTTPSAuthority(host, conn.selection.authority)
    ELSE owner = None

\* The host of a request and the connection it came on.
Misdirected(host, owner) ==
    IF conn.pc = "http"
    THEN /\ matchHTTPFamilyHost(policy, "http", host, 80) # {}
         /\ ParseAuthority(host, 80).port # conn.flow.port
    ELSE IF conn.selection.raw THEN ~ MatchHTTPSAuthority(host, conn.selection.authority)
    ELSE owner = None \/ owner # conn.selection.endpoint

Owning(host) ==
    LET found == {e.name : e \in matchHTTPFamilyHost(policy, "https", host, 443)}
    IN  IF found = {} THEN {None} ELSE found

\* HTTPProxy.Handle and HTTPSProxy.proxyHTTP, for one request, up to the decision.
ReadRequest(m) ==
    /\ conn.pc \in {"http", "https"} /\ conn.read < MaxRequests
    /\ \/ m.host = None /\ Refuse("missing_host")
       \/ m.host # None /\ \E owner \in Owning(m.host) :
           \/ Misdirected(m.host, owner) /\ Refuse("host_mismatch")
           \/ /\ ~ Misdirected(m.host, owner)
              /\ \E q \in {httpRequest(m)} : \E d \in EvaluateHTTP(policy, q) :
                  \/ d.action = "deny" /\ Refuse(d.reason)
                  \/ /\ d.action # "deny"
                     /\ conn' = [conn EXCEPT !.pc = "forward", !.request = [m |-> m, kind |-> conn.pc],
                                             !.answer = d, !.read = @ + 1]
                     /\ UNCHANGED <<reached, records, answered>>
    /\ UNCHANGED policyVars

-----------------------------------------------------------------------------
(* Forwarding *)

\* Mutant: the header is cleaned after the credential was put into it.
Prepared_late(m, credential) ==
    sanitizeNormalRequestHeaders(Without(m.headers, {"Authorization"})
        \o IF credential = None THEN <<>> ELSE <<[name |-> "Authorization", parts |-> <<"injected">>]>>)

\* prepareForwardRequest and Apply: the header is cleaned, then the credential put into it.
Prepared(m, credential) ==
    LET clean == IF isWebSocketUpgrade(m) THEN Without(m.headers, {"Proxy-Authorization"})
                 ELSE sanitizeNormalRequestHeaders(m.headers)
    IN  IF credential = None THEN clean
        ELSE Append(Without(clean, {"Authorization"}), [name |-> "Authorization", parts |-> <<"injected">>])

\* The credential that is applied: the http proxy has no manager for them.
Applied == IF conn.request.kind = "https" THEN conn.answer.credential ELSE None

\* Mutant: the request goes to the host that it names.
ForwardHost_named == ParseAuthority(conn.request.m.host, DefaultPort(conn.request.kind))

\* The authority the request is rewritten to.
ForwardHost ==
    IF conn.request.kind = "https" THEN conn.selection.authority ELSE ParseAuthority(conn.request.m.host, 80)

Sent ==
    [how |-> conn.request.kind, authority |-> ForwardHost, decided |-> conn.request.m.host,
     headers |-> Prepared(conn.request.m, Applied), credential |-> Applied, lost |-> 0]

\* The request was answered.  The connection goes on unless it was to be closed or was upgraded,
\* or the client took no answer.
Answer(status, from, lines, reason) ==
    \E delivered \in BOOLEAN :
       /\ answered' = IF delivered THEN Append(answered, [status |-> status, lines |-> lines, from |-> from,
                                                          raw |-> reason = "" /\ isWebSocketUpgrade(conn.request.m)])
                      ELSE answered
       /\ IF delivered /\ ~ isWebSocketUpgrade(conn.request.m) /\ ~ conn.request.m.close
          THEN /\ conn' = [conn EXCEPT !.pc = conn.request.kind, !.request = None, !.answer = None]
               /\ records' = RecordHTTP("allow", reason)
          ELSE /\ conn' = [conn EXCEPT !.pc = "done"]
               /\ records' = Append(RecordHTTP("allow", reason),
                                    [kind |-> "flow", verdict |-> "allow",
                                     reason |-> IF delivered THEN "" ELSE "proxy_error"])

\* The secret is missing or cannot be refreshed: nothing is dialled.
CredentialFails ==
    /\ conn.pc = "forward" /\ Applied # None
    /\ Answer(502, <<>>, <<>>, "credential_error")
    /\ UNCHANGED <<reached, policyVars>>

\* The upstream cannot be reached, or does not take the request.
DialFails ==
    /\ conn.pc = "forward"
    /\ Answer(502, <<>>, <<>>, "upstream_error")
    /\ UNCHANGED <<reached, policyVars>>

Forward ==
    /\ conn.pc = "forward"
    /\ reached' = Append(reached, Sent)
    /\ conn' = [conn EXCEPT !.pc = "response"]
    /\ UNCHANGED <<records, answered, policyVars>>

\* proxyHTTPFamilyRoundTrip and proxyWebSocketUpgrade, from the response on.
Respond(r) ==
    /\ conn.pc = "response" /\ r \in Responses[conn.request.m.path]
    /\ IF r.status = 0 THEN Answer(502, <<>>, <<>>, "upstream_error")
       ELSE Answer(r.status, r.lines, IF isWebSocketUpgrade(conn.request.m) THEN sanitizeRawHTTPResponseHeader(r.lines)
                             ELSE sanitizeHTTPFamilyHeader(joined(r.lines), TRUE), "")
    /\ UNCHANGED <<reached, policyVars>>

Answerable == UNION {Responses[path] : path \in DOMAIN Responses}

GatewayNext ==
    \/ (ParseSource \/ loadNativePolicy) /\ UNCHANGED gatewayVars
    \/ \E a \in Attempts : TCP(a) \/ UDP(a)
    \/ Dial \/ Peek \/ Handshake \/ ReadEnds
    \/ \E m \in Messages : ReadRequest(m)
    \/ CredentialFails \/ DialFails \/ Forward
    \/ \E r \in Answerable : Respond(r)

GatewaySpec == GatewayInit /\ [][GatewayNext]_<<policyVars, gatewayVars>>

-----------------------------------------------------------------------------
(* Properties *)

GatewayTypeOK ==
    /\ conn.pc \in {"idle", "http", "peek", "dial", "handshake", "https", "forward", "response", "done"}
    /\ conn # NoConn => conn.read \in 0 .. MaxRequests
    /\ \A i \in DOMAIN records : records[i].kind \in {"flow", "http"} /\ records[i].verdict \in {"allow", "deny"}
    /\ \A i \in DOMAIN reached : reached[i].how \in {"direct", "http", "https"}

As(kind, authority) == [kind |-> kind, host |-> [host |-> authority.host, port |-> authority.port, bracketed |-> FALSE, plain |-> TRUE]]
Speaking == {r \in Range(loaded.rules) : ~ r.disabled /\ matchIPRule(policy, r, conn.flow)}
Refused == \E r \in Speaking : r.verdict = "deny" /\ \A s \in Speaking : s = r \/ Before(r, s)

\* Nothing leaves on a flow that a rule denies.  The bytes of a connection leave as they are only where
\* a rule or the default allows it, and never past the proxy of the host that they name; without a
\* rule, an https port carries nothing that names no host.
OnlyWhatIsAllowed ==
    \A k \in Range(reached) :
        /\ ~ Refused
        /\ k.how = "direct" =>
            /\ Speaking # {} \/ policy.default = "allow"
            /\ conn.flow.protocol = "tcp" /\ Serving(conn.flow.port, "https") =>
                \/ conn.hello.kind = "sni" /\ Owners(As("https", [host |-> conn.hello.host, port |-> conn.flow.port])) = {}
                \/ conn.hello.kind # "sni" /\ Speaking # {}

\* The endpoint whose rules allowed an https request is the endpoint of the host it is sent to, which is the
\* host that the certificate of the upstream is checked for; an http request is sent to a port of its endpoint.
DecidedForItsEndpoint ==
    \A k \in Range(reached) :
        /\ k.how = "https" =>
            /\ k.authority.port = conn.flow.port
            /\ Owners([kind |-> "https", host |-> k.decided]) = Owners(As("https", k.authority))
            /\ Owners(As("https", k.authority)) # {}
        /\ k.how = "http" => Owners([kind |-> "http", host |-> k.decided]) = {} \/ k.authority.port = conn.flow.port

\* A credential leaves netd only in a request to a host of its endpoint, in place of what the guest sent
\* and in spite of what the guest wants removed; no other request carries one.
CredentialsStayHome ==
    \A k \in Range(reached) :
        LET sent == SelectSeq(k.headers, LAMBDA h : h.name = "Authorization")
        IN  IF k.credential = None THEN \A i \in DOMAIN sent : sent[i].parts # <<"injected">>
            ELSE /\ k.how = "https" /\ k.credential.endpoint.kind = "https"
                 /\ \E e \in Owners(As("https", k.authority)) : e.name = k.credential.endpoint.name
                 /\ Len(sent) = 1 /\ sent[1].parts = <<"injected">>

\* Every connection leaves one flow record, its last, and every request one record; what is recorded as
\* denied reached nobody.
EverythingIsRecorded ==
    LET of(kind, verdict) == Cardinality({i \in DOMAIN records : records[i].kind = kind /\ records[i].verdict = verdict})
        requests == of("http", "allow") + of("http", "deny")
        pending == IF conn.pc \in {"forward", "response"} THEN 1 ELSE 0
    IN  conn # NoConn =>
            /\ (conn.pc = "done") = (of("flow", "allow") + of("flow", "deny") = 1)
            /\ conn.pc = "done" => Last(records).kind = "flow"
            /\ requests + pending = conn.read
            /\ of("flow", "deny") = 1 => reached = <<>> /\ conn.read = 0
            /\ Cardinality({i \in DOMAIN reached : reached[i].how # "direct"}) <= of("http", "allow") + pending

\* The guest sees no credential of a response, and a challenge only where it is a basic one and with all of its
\* parameters; of an upgraded connection it sees no challenge and no line that belongs to a dropped field.
ResponsesAreClean ==
    \A a \in Range(answered) :
        /\ \A i \in DOMAIN a.lines : a.lines[i].name \notin {"Alt-Svc", "Set-Cookie", "Set-Cookie2", "Proxy-Authenticate"}
        /\ LET all == joined(a.from)
               dropped == {"Alt-Svc"} \cup credentialResponseStripHeaders
               Within(part, parts) == \E j \in DOMAIN parts, k \in DOMAIN parts : part = SubSeq(parts, j, k)
           IN  IF a.raw THEN joined(a.lines) = Without(all, dropped)
               ELSE /\ Without(a.lines, {"WWW-Authenticate"}) = Without(all, dropped)
                    /\ \A i \in DOMAIN a.lines : a.lines[i].name = "WWW-Authenticate" =>
                           /\ \E x \in DOMAIN all : all[x].name = "WWW-Authenticate" /\ Within(a.lines[i].parts, all[x].parts)
                           /\ Head(a.lines[i].parts).scheme = "Basic"
                           /\ \A j \in 2 .. Len(a.lines[i].parts) : a.lines[i].parts[j].scheme = ""
                    /\ \A x \in DOMAIN all : all[x].name = "WWW-Authenticate" =>
                           \A j \in DOMAIN all[x].parts : all[x].parts[j].scheme = "Basic" =>
                               \E i \in DOMAIN a.lines : \E n \in {Len(a.lines[i].parts)} :
                                   /\ j + n - 1 <= Len(all[x].parts) /\ a.lines[i].parts = SubSeq(all[x].parts, j, j + n - 1)
                                   /\ j + n > Len(all[x].parts) \/ all[x].parts[j + n].scheme # ""

\* What the guest sent before the proxy gave up reaches the destination, unless the connection paused in
\* the first five bytes: those that had come are lost.
NothingIsLost == \A k \in Range(reached) : k.lost # 0 => conn.hello.kind = "cut"

=============================================================================
