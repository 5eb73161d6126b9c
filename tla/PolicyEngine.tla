---------------------------- MODULE PolicyEngine ----------------------------
(***************************************************************************)
(* The policy as netd uses it (netd/internal/policy).  A document that the  *)
(* parser accepted is compiled a second time: host patterns and prefixes    *)
(* are parsed here, port ranges merged, references looked up, disabled      *)
(* rules dropped and the rest sorted by priority.  Flows and requests are   *)
(* then decided one after the other; Go's maps are walked in any order.     *)
(*                                                                          *)
(* A prefix is the set of its addresses, {} one that does not parse.  An    *)
(* authority is [host, port, bracketed, plain]: host is the sequence of its *)
(* labels, plain says that it has no scheme, path or credentials.           *)
(***************************************************************************)
EXTENDS PolicyDocument, FiniteSetsExt

CONSTANTS
    Documents,     \* what the policy file may hold
    Requests,      \* HTTP requests of the guest
    Flows,         \* connections of the guest
    Digits,        \* labels made of digits
    V6             \* labels that spell an IPv6 address

VARIABLES
    document,      \* the blocks of the file
    loaded,        \* the builder Rust accepted, Err, or None before
    policy,        \* the compiled policy, Err, or None before
    closed,        \* the native handle was released
    asked,         \* the flow or request that was decided last
    decision       \* and the decision on it
policyVars == <<document, loaded, policy, closed, asked, decision>>

-----------------------------------------------------------------------------
(* The C interface: a status, and what the call gives.  A text that is not UTF-8 is None. *)

bento_policy_parse_source(source) ==
    IF source = None THEN [status |-> "invalid_argument", policy |-> None]
    ELSE LET p == parse_policy(source)
         IN  [status |-> IF p = Err THEN "load_error" ELSE "ok", policy |-> p]

\* The declarations; the compiled conditions stay behind the handle.
bento_policy_snapshot_json(p) ==
    [default_action |-> p.default_action, endpoints |-> p.endpoints, credentials |-> p.credentials, rules |-> p.rules]

bento_policy_http_condition_evaluate(p, id, context) ==
    LET result == evaluate_http_condition(p.conditions, id, context)
    IN  [status |-> IF result = Err THEN "eval_error" ELSE "ok", matches |-> result = TRUE]

-----------------------------------------------------------------------------
(* Hosts *)

DefaultPort(kind) == IF kind = "https" THEN 443 ELSE 80
IsIP4(host) == Len(host) = 4 /\ \A i \in DOMAIN host : host[i] \in Digits
IsIP6(host) == Len(host) = 1 /\ host[1] \in V6

TrimDot(host) == IF host # <<>> /\ Last(host) = "" THEN Front(host) ELSE host

\* Lower case, without the final dot, with the default port where there is none.
ParseAuthority(a, defaultPort) ==
    LET host == TrimDot([i \in DOMAIN a.host |-> Lower(a.host[i])])
    IN  IF \/ ~ a.plain \/ host = <<>>
           \/ a.port # None /\ a.port \notin 1 .. MaxPort
           \/ IsIP6(host) # a.bracketed
        THEN Err
        ELSE [host |-> host, port |-> IF a.port = None THEN defaultPort ELSE a.port]

wildcardHostLooksLikeIPPattern(host) == IsIP6(host) \/ \A i \in DOMAIN host : host[i] \in Digits

ParseBinding(p, defaultPort) ==
    LET parsed == ParseAuthority(p, defaultPort)
    IN  IF parsed = Err \/ (p.wildcard /\ wildcardHostLooksLikeIPPattern(parsed.host)) THEN Err
        ELSE [host |-> parsed.host, port |-> parsed.port, wildcard |-> p.wildcard]

\* Mutant: a wildcard also matches its own suffix.
Matches_apex(b, authority) ==
    /\ b.port = authority.port
    /\ IF b.wildcard THEN IsSuffix(b.host, authority.host) ELSE b.host = authority.host

\* A wildcard matches what is below its suffix, at any depth.
Matches(b, authority) ==
    /\ b.port = authority.port
    /\ IF b.wildcard THEN IsStrictSuffix(b.host, authority.host) ELSE b.host = authority.host

-----------------------------------------------------------------------------
(* Compiling *)

\* Mutant: ranges are joined only when they overlap, and the last end wins.
normalizePortRanges_last(ranges) ==
    LET sorted == SortSeq(ranges, LAMBDA a, b : a.start < b.start \/ (a.start = b.start /\ a.end < b.end))
    IN  FoldLeft(LAMBDA merged, r :
                    IF merged # <<>> /\ r.start <= Last(merged).end
                    THEN Append(Front(merged), [Last(merged) EXCEPT !.end = r.end])
                    ELSE Append(merged, r), <<>>, sorted)

\* Sorted, and joined where they overlap or touch.
normalizePortRanges(ranges) ==
    LET sorted == SortSeq(ranges, LAMBDA a, b : a.start < b.start \/ (a.start = b.start /\ a.end < b.end))
    IN  FoldLeft(LAMBDA merged, r :
                    IF merged # <<>> /\ r.start <= Last(merged).end + 1
                    THEN Append(Front(merged), [Last(merged) EXCEPT !.end = Max({@, r.end})])
                    ELSE Append(merged, r), <<>>, sorted)

\* Addresses in the source or the destination, and ports only with a protocol that has them.
compileIPEndpoint(e) ==
    LET protocol == IF e.decl.protocol = "" THEN "any" ELSE Lower(e.decl.protocol)
    IN  IF \/ e.decl.source = <<>> /\ e.decl.destination = <<>>
           \/ protocol \notin {"any", "tcp", "udp"}
           \/ protocol = "any" /\ e.decl.ports # <<>>
           \/ {} \in Range(e.decl.source) \cup Range(e.decl.destination)
        THEN Err
        ELSE [name |-> e.name, protocol |-> protocol, ports |-> normalizePortRanges(e.decl.ports),
              source |-> Range(e.decl.source), destination |-> Range(e.decl.destination)]

compileHTTPEndpointDecl(e) ==
    LET bindings == {ParseBinding(e.decl.hosts[i], DefaultPort(e.kind)) : i \in DOMAIN e.decl.hosts}
    IN  IF bindings = {} \/ Err \in bindings THEN Err
        ELSE [kind |-> e.kind, name |-> e.name, hosts |-> bindings]

\* Two endpoints of a kind never claim the same exact host; wildcards are not compared.
duplicatesExactBinding(p, e) ==
    \E other \in p.http, b \in e.hosts : other.kind = e.kind /\ ~ b.wildcard /\ b \in other.hosts

addEndpointDecl(p, e) ==
    LET ip == compileIPEndpoint(e)
        http == compileHTTPEndpointDecl(e)
    IN  IF p = Err THEN Err
        ELSE IF e.kind = "ip" THEN IF ip = Err THEN Err ELSE [p EXCEPT !.ip = @ \cup {ip}]
        ELSE IF http = Err THEN Err
        ELSE IF duplicatesExactBinding(p, http) THEN Err ELSE [p EXCEPT !.http = @ \cup {http}]

known(p, ref) ==
    IF ref.kind = "ip" THEN \E e \in p.ip : e.name = ref.name
    ELSE \E e \in p.http : e.kind = ref.kind /\ e.name = ref.name

addCredentialDecl(p, c) ==
    IF p = Err THEN Err
    ELSE IF \/ ~ known_credential_kind(c.kind) \/ c.endpoint.kind # "https" \/ ~ known(p, c.endpoint)
            \/ \E d \in Range(p.credentials) : d.kind = c.kind /\ d.name = c.name
    THEN Err ELSE [p EXCEPT !.credentials = Append(@, c)]

validateRuleCredential(p, r) ==
    r.credential # None =>
        \E c \in Range(p.credentials) :
            /\ c.kind = r.credential.kind /\ c.name = r.credential.name
            /\ Family(r.endpoints[1].kind) = "http" /\ c.endpoint.kind = "https"
            /\ c.endpoint \in Range(r.endpoints)

\* Disabled rules are checked and then left out.
addRuleDecl(p, r) ==
    IF p = Err THEN Err
    ELSE IF \/ r.endpoints = <<>> \/ \E e \in Range(r.endpoints) : ~ known(p, e)
            \/ Cardinality({Family(e.kind) : e \in Range(r.endpoints)}) > 1
            \/ ~ validateRuleCredential(p, r)
            \/ Family(r.endpoints[1].kind) = "ip" /\ r.condition # 0
    THEN Err
    ELSE IF r.disabled THEN p
    ELSE IF Family(r.endpoints[1].kind) = "ip" THEN [p EXCEPT !.ipRules = Append(@, r)]
    ELSE [p EXCEPT !.httpRules = Append(@, r)]

\* Mutant: a sort that is not stable.
sortRules_reversing(rules) ==
    SortSeq(rules, LAMBDA a, b : a.priority > b.priority \/ (a.priority = b.priority /\ a.order > b.order))

\* Higher priorities first, the document's order among equals.
sortRules(rules) ==
    SortSeq(rules, LAMBDA a, b : a.priority > b.priority \/ (a.priority = b.priority /\ a.order < b.order))

NewPolicy(b) ==
    [default |-> b.default_action, ip |-> {}, http |-> {}, credentials |-> <<>>,
     ipRules |-> <<>>, httpRules |-> <<>>]

compileSnapshot(b) ==
    LET endpoints == FoldLeft(addEndpointDecl, NewPolicy(b), b.endpoints)
        credentials == FoldLeft(addCredentialDecl, endpoints, b.credentials)
        rules == FoldLeft(addRuleDecl, credentials, b.rules)
    IN  IF rules = Err THEN Err
        ELSE [rules EXCEPT !.ipRules = sortRules(@), !.httpRules = sortRules(@)]

-----------------------------------------------------------------------------
(* Deciding *)

\* The endpoints a host may be taken for: an exact one, or any with the longest suffix.
matchHTTPFamilyHost(p, kind, host, defaultPort) ==
    LET authority == ParseAuthority(host, defaultPort)
        found == {<<e, b>> \in {<<e, b>> \in p.http \X UNION {x.hosts : x \in p.http} : b \in e.hosts} :
                     e.kind = kind /\ Matches(b, authority)}
        exact == {m \in found : ~ m[2].wildcard}
        longest == {m \in found : \A n \in found : Len(n[2].host) <= Len(m[2].host)}
    IN  IF authority = Err THEN {}
        ELSE {m[1] : m \in IF exact # {} THEN exact ELSE longest}

matchesIP(e, flow) ==
    /\ e.protocol \in {"any", Lower(flow.protocol)}
    /\ e.ports # <<>> => \E i \in DOMAIN e.ports : flow.port \in e.ports[i].start .. e.ports[i].end
    /\ e.source # {} => \E s \in e.source : flow.source \in s
    /\ e.destination # {} => \E d \in e.destination : flow.dest \in d

ShouldIntercept(p, kind, port) == \E e \in p.http : e.kind = kind /\ \E b \in e.hosts : b.port = port
CanClassify(p, flow) ==
    /\ Lower(flow.protocol) = "tcp"
    /\ ShouldIntercept(p, "http", flow.port) \/ ShouldIntercept(p, "https", flow.port)

Decision(action, source, rule, reason, credential, classify) ==
    [action |-> action, source |-> source, rule |-> rule, reason |-> reason,
     credential |-> credential, classify |-> classify]

\* The endpoint of an IP rule that a flow matches.
matchIPRule(p, r, flow) ==
    \E e \in p.ip : /\ [kind |-> "ip", name |-> e.name] \in Range(r.endpoints)
                    /\ matchesIP(e, flow)

EvaluateFlow(p, flow) ==
    LET matching == {i \in DOMAIN p.ipRules : matchIPRule(p, p.ipRules[i], flow)}
        r == p.ipRules[Min(matching)]
    IN  IF matching = {}
        THEN Decision(p.default, "default", None, "default", None, CanClassify(p, flow))
        ELSE Decision(r.verdict, "rule", r.name, "rule", None, r.verdict = "allow" /\ CanClassify(p, flow))

\* What a condition sees: the headers of one name in one list, the method in lower case.
\* A query that does not parse is an error for every condition.
Context(kind, request) ==
    IF request.query = Err THEN Err
    ELSE [method |-> Lower(request.method), host |-> ParseAuthority(request.host, DefaultPort(kind)).host,
          path |-> request.path, query |-> request.query,
          headers |-> [k \in {Lower(h.key) : h \in Range(request.headers)} |->
                          FlattenSeq([i \in DOMAIN SelectSeq(request.headers, LAMBDA h : Lower(h.key) = k) |->
                              SelectSeq(request.headers, LAMBDA h : Lower(h.key) = k)[i].values])]]

\* The numbered condition of the handle; a closed policy has none.
EvaluateHTTPCondition(id, context) ==
    LET answer == bento_policy_http_condition_evaluate(loaded, id, context)
    IN  IF closed \/ answer.status # "ok" THEN Err ELSE answer.matches

EvaluateIn(id, context) == IF context = Err THEN Err ELSE EvaluateHTTPCondition(id, context)

\* A condition without number holds; the context of a request is made when it is needed.
Evaluate(id, kind, request) == IF id = 0 THEN TRUE ELSE EvaluateIn(id, Context(kind, request))

\* Mutant: the first credential that matches is taken.
selectedCredential_first(p, ref, kind, request) ==
    LET bound == SelectSeq(p.credentials, LAMBDA c : c.endpoint = ref)
        results == [i \in DOMAIN bound |-> Evaluate(bound[i].condition, kind, request)]
        matching == {i \in DOMAIN bound : results[i] = TRUE}
    IN  IF \E i \in DOMAIN bound : results[i] = Err THEN [credential |-> None, reason |-> "credential_condition_error"]
        ELSE [credential |-> IF matching = {} THEN None ELSE bound[Min(matching)], reason |-> ""]

\* The one credential whose condition holds; two of them, or an error before the second,
\* refuse the request.
Selection(bound, matching, failing) ==
    LET refused == \E i \in matching : \E j \in matching : j < i /\ \A k \in failing : k > i
    IN  [credential |-> IF Cardinality(matching) = 1 /\ failing = {} THEN bound[Min(matching)] ELSE None,
         reason |-> IF refused THEN "ambiguous_credentials"
                    ELSE IF failing # {} THEN "credential_condition_error" ELSE ""]
SelectedBy(bound, results) ==
    Selection(bound, {i \in DOMAIN bound : results[i] = TRUE}, {i \in DOMAIN bound : results[i] = Err})

selectedCredentialOf(bound, kind, request) ==
    SelectedBy(bound, [i \in DOMAIN bound |-> Evaluate(bound[i].condition, kind, request)])

\* The credentials of the endpoint are asked.
selectedCredential(p, ref, kind, request) ==
    selectedCredentialOf(SelectSeq(p.credentials, LAMBDA c : c.endpoint = ref), kind, request)

\* A rule for the endpoint and, when it names one, the selected credential.
Applies(r, ref, credential) ==
    /\ ref \in Range(r.endpoints)
    /\ r.credential # None =>
           /\ credential # None
           /\ credential.kind = r.credential.kind /\ credential.name = r.credential.name

\* The first rule that holds, or cannot be told, decides.
DecideBy(p, r, result, selected) ==
    IF result = Err THEN Decision("deny", "rule", r.name, "condition_error", None, FALSE)
    ELSE Decision(r.verdict, "rule", r.name, "rule", IF r.verdict = "allow" THEN selected.credential ELSE None, FALSE)
DecideAmong(p, results, stops, selected) ==
    IF stops = {} THEN Decision(p.default, "default", None, "default", None, FALSE)
    ELSE DecideBy(p, p.httpRules[Min(stops)], results[Min(stops)], selected)
DecideFrom(p, results, selected) ==
    DecideAmong(p, results, {i \in DOMAIN p.httpRules : results[i] # FALSE}, selected)
DecideWith(p, ref, request, selected) ==
    IF selected.reason # "" THEN Decision("deny", "default", None, selected.reason, None, FALSE)
    ELSE DecideFrom(p, [i \in DOMAIN p.httpRules |->
                           IF Applies(p.httpRules[i], ref, selected.credential)
                           THEN Evaluate(p.httpRules[i].condition, ref.kind, request) ELSE FALSE], selected)
DecideFor(p, ref, request) == DecideWith(p, ref, request, selectedCredential(p, ref, ref.kind, request))
DecideAt(p, e, request) == DecideFor(p, [kind |-> e.kind, name |-> e.name], request)

\* The decisions a request may get.
EvaluateHTTP(p, request) ==
    LET endpoints == matchHTTPFamilyHost(p, request.kind, request.host, DefaultPort(request.kind))
    IN  IF ParseAuthority(request.host, DefaultPort(request.kind)) = Err
        THEN {Decision("deny", "default", None, "missing_host", None, FALSE)}
        ELSE IF endpoints = {}
        THEN {Decision(p.default, "default", None,
                       IF p.default = "deny" THEN "default" ELSE "unknown_l7_endpoint", None, FALSE)}
        ELSE {DecideAt(p, e, request) : e \in endpoints}

-----------------------------------------------------------------------------
(* netd *)

PolicyInit ==
    /\ document \in Documents
    /\ loaded = None /\ policy = None /\ closed = FALSE /\ asked = None /\ decision = None

\* native.ParseSource: Rust parses, validates and compiles the conditions.
ParseSource ==
    /\ loaded = None
    /\ LET answer == bento_policy_parse_source(document)
       IN  loaded' = IF answer.status = "ok" THEN answer.policy ELSE Err
    /\ UNCHANGED <<document, policy, closed, asked, decision>>

\* loadNativePolicy: the snapshot is compiled; the handle is released when that fails.
loadNativePolicy ==
    /\ loaded \notin {None, Err} /\ policy = None
    /\ policy' = compileSnapshot(bento_policy_snapshot_json(loaded))
    /\ closed' = (policy' = Err)
    /\ UNCHANGED <<document, loaded, asked, decision>>

\* Bound: one decision of a policy is looked at; none of them changes it.
Asking == policy \notin {None, Err} /\ asked = None

DecideHTTP(request) ==
    /\ Asking
    /\ asked' = request
    /\ \E d \in EvaluateHTTP(policy, request) : decision' = d
    /\ UNCHANGED <<document, loaded, policy, closed>>

Decide(flow) ==
    /\ Asking
    /\ asked' = flow /\ decision' = EvaluateFlow(policy, flow)
    /\ UNCHANGED <<document, loaded, policy, closed>>

\* Policy.Close, when the gateway goes down: what still runs finds the handle closed.
Close ==
    /\ Asking /\ ~ closed /\ closed' = TRUE
    /\ UNCHANGED <<document, loaded, policy, asked, decision>>

PolicyNext ==
    \/ ParseSource \/ loadNativePolicy \/ Close
    \/ \E r \in Requests : DecideHTTP(r)
    \/ \E f \in Flows : Decide(f)

PolicySpec == PolicyInit /\ [][PolicyNext]_policyVars

-----------------------------------------------------------------------------
(* Properties *)

PolicyTypeOK ==
    /\ document \in Documents
    /\ closed \in BOOLEAN /\ (closed => policy # None)
    /\ asked \in Requests \cup Flows \cup {None}
    /\ decision = None \/ decision.action \in {"allow", "deny"}

Compiled == policy \notin {None, Err}

\* Rust resolves the references of a document and Go resolves them again: what the first
\* accepted the second refuses only for a host, an address or a protocol of an endpoint.
RefusedOnlyForEndpoints ==
    policy = Err => FoldLeft(addEndpointDecl, NewPolicy(loaded), loaded.endpoints) = Err

\* A condition is evaluated by number in another language: the number of a rule or of a
\* credential stands for the condition that was written there.
ConditionsAreTheirOwn ==
    Compiled =>
        \A d \in Range(loaded.rules) \cup Range(loaded.credentials) :
            IF d.source \in {None, <<>>} THEN d.condition = 0
            ELSE loaded.conditions[d.condition] = compile(d.source)

\* Merging keeps the ports of an endpoint and leaves ranges that do not touch.
RangesAreMerged ==
    Compiled =>
        \A e \in policy.ip, d \in Range(loaded.endpoints) :
            d.kind = "ip" /\ d.name = e.name =>
                /\ UNION {r.start .. r.end : r \in Range(e.ports)} = UNION {r.start .. r.end : r \in Range(d.decl.ports)}
                /\ \A i \in 2 .. Len(e.ports) : e.ports[i].start > e.ports[i - 1].end + 1

\* The endpoints a request's host belongs to: the exact one, or those with the wildcard
\* that has the longest suffix below which the host lies.
Below(host, suffix) == \E n \in 1 .. Len(host) - 1 : SubSeq(host, n + 1, Len(host)) = suffix
Claims(e, authority, length) ==
    \E b \in e.hosts :
        /\ b.port = authority.port
        /\ IF length = None THEN ~ b.wildcard /\ b.host = authority.host
           ELSE b.wildcard /\ Below(authority.host, b.host) /\ Len(b.host) = length
Owners(q) ==
    LET authority == ParseAuthority(q.host, DefaultPort(q.kind))
        exact == {e \in policy.http : e.kind = q.kind /\ Claims(e, authority, None)}
        wild(n) == {e \in policy.http : e.kind = q.kind /\ Claims(e, authority, n)}
    IN  IF exact # {} THEN exact
        ELSE wild(Max({0} \cup {n \in 1 .. Len(authority.host) : wild(n) # {}}))

\* What the document says of a request to an endpoint: no more than one credential may hold;
\* of the enabled rules that hold, or cannot be told, the one with the highest priority that
\* stands first decides, and one that cannot be told denies.
Before(r, s) == r.priority > s.priority \/ (r.priority = s.priority /\ r.order < s.order)
AsWritten(e, q, d) ==
    LET ref == [kind |-> e.kind, name |-> e.name]
        holds(x) == Evaluate(x.condition, e.kind, q)
        mine == {c \in Range(loaded.credentials) : c.endpoint = ref}
        selected == {c \in mine : holds(c) = TRUE}
        rules == {r \in Range(loaded.rules) :
                     /\ ~ r.disabled /\ ref \in Range(r.endpoints)
                     /\ r.credential = None \/ \E c \in selected : RefKey(r.credential) = RefKey(c)
                     /\ holds(r) # FALSE}
    IN  IF Cardinality(selected) > 1 \/ \E c \in mine : holds(c) = Err
        THEN d.action = "deny" /\ d.credential = None
        ELSE IF rules = {} THEN d.action = policy.default /\ d.credential = None
        ELSE \E r \in rules :
                /\ \A s \in rules : s = r \/ Before(r, s)
                /\ d.rule = r.name
                /\ d.action = IF holds(r) = Err THEN "deny" ELSE r.verdict
                /\ d.credential # None => d.action = "allow" /\ selected = {d.credential}

\* Every request gets the decision its document states for an endpoint that owns its host; a
\* request to a host nobody owns gets the default and never a credential.
RequestsAsWritten ==
    asked \in Requests /\ decision.reason # "missing_host" =>
        IF Owners(asked) = {} THEN decision.action = policy.default /\ decision.credential = None
        ELSE \E e \in Owners(asked) : AsWritten(e, asked, decision)

\* A flow gets the verdict of the first of the enabled rules with the highest priority, and
\* is classified instead of denied only where nothing but the default speaks against it.
FlowsAsWritten ==
    asked \in Flows =>
        LET rules == {r \in Range(loaded.rules) : ~ r.disabled /\ matchIPRule(policy, r, asked)}
        IN  IF rules = {} THEN decision.action = policy.default
            ELSE \E r \in rules :
                    /\ \A s \in rules : s = r \/ Before(r, s)
                    /\ decision.action = r.verdict
                    /\ decision.classify => decision.action = "allow"
=============================================================================
