--------------------------- MODULE PolicyDocument ---------------------------
(***************************************************************************)
(* Reading a network policy (common/policy).  A document is a sequence of   *)
(* HCL blocks; a block has labels and a body of attributes and blocks.  The *)
(* builder reads block after block, collects diagnostics instead of         *)
(* stopping, then resolves the references.  Conditions are compiled while   *)
(* they are read and known to the rest of the system by number.             *)
(*                                                                          *)
(* An attribute is [key, t, content]: t is the kind of its expression.        *)
(* A condition is a sequence of comparisons joined by &&.  Text is         *)
(* compared, and lowered by LowerOf, never taken apart.                     *)
(***************************************************************************)
EXTENDS Integers, Sequences, SequencesExt, FiniteSets

CONSTANTS
    None, Err,
    LowerOf,       \* lower-case form of the texts that have another one
    BadNames,      \* labels and references that are not identifiers
    BadHeaders,    \* texts that are not HTTP header names
    MaxPort        \* 65535

Lower(s) == IF s \in DOMAIN LowerOf THEN LowerOf[s] ELSE s

Keys(body) == {body[i].key : i \in DOMAIN body}

-----------------------------------------------------------------------------
(* Conditions *)

\* A comparison: [facet, key, how, text].  method, host and path are compared with a text;
\* query and headers have a key, and either its first value or its list is looked at.
Facets == {"method", "host", "path", "query", "headers"}
Keyed == {"query", "headers"}

\* The keys of headers are always lowered; a program that mentions the method has all of its
\* literals lowered, the keys among them.
prepare_test(t, lower) ==
    [t EXCEPT !.key = IF t.facet = "headers" \/ (lower /\ t.facet = "query") THEN Lower(@) ELSE @,
              !.text = IF lower THEN Lower(@) ELSE @]

Mentions(source, facet) == \E i \in DOMAIN source : source[i].facet = facet

prepare_http_condition_source(source) ==
    [program |-> [i \in DOMAIN source |-> prepare_test(source[i], Mentions(source, "method"))],
     query_keys |-> {source[i].key : i \in {j \in DOMAIN source : source[j].facet = "query"}},
     header_keys |-> {Lower(source[i].key) : i \in {j \in DOMAIN source : source[j].facet = "headers"}}]

\* Facets that are known not to exist, and lists that are compared with a string.
reject_known_unavailable_facets(source) == \E i \in DOMAIN source : source[i].facet = "body"
reject_static_type_mismatches(source) ==
    \E i \in DOMAIN source : source[i].facet \in Keyed /\ source[i].how = "list"

\* One comparison in a context that gives every facet its value: TRUE, FALSE or an error.
compare(t, context) ==
    CASE t.facet \notin Facets -> Err
      [] t.facet \in Keyed ->
             IF t.key \notin DOMAIN context[t.facet] THEN Err
             ELSE LET values == context[t.facet][t.key]
                  IN  IF t.how = "in" THEN \E i \in DOMAIN values : values[i] = t.text
                      ELSE IF values = <<>> THEN Err ELSE values[1] = t.text
      [] OTHER -> IF t.how = "value" THEN Err ELSE context[t.facet] = t.text

\* && stops at the first comparison that is not true.
execute(program, context) ==
    LET result == [i \in DOMAIN program |-> compare(program[i], context)]
        stops == {i \in DOMAIN program : result[i] # TRUE}
    IN  IF stops = {} THEN TRUE ELSE result[CHOOSE i \in stops : \A j \in stops : i <= j]

default_with_keys(prepared) ==
    [method |-> "", host |-> "", path |-> "",
     query |-> [k \in prepared.query_keys |-> <<"", "">>],
     headers |-> [k \in prepared.header_keys |-> <<"", "">>]]

\* The keys a condition asks for are there, without values, when the request has none.
fill_missing_keys(context, prepared) ==
    [context EXCEPT
        !.query = [k \in DOMAIN @ \cup prepared.query_keys |-> IF k \in DOMAIN @ THEN @[k] ELSE <<>>],
        !.headers = [k \in DOMAIN @ \cup prepared.header_keys |-> IF k \in DOMAIN @ THEN @[k] ELSE <<>>]]

\* A program is tried once, on a request without any text.
compile(source) ==
    LET prepared == prepare_http_condition_source(source)
    IN  IF \/ reject_known_unavailable_facets(source)
           \/ reject_static_type_mismatches(source)
           \/ execute(prepared.program, default_with_keys(prepared)) = Err
        THEN Err ELSE prepared

\* Condition number id in a context; number 0 is no condition.
evaluate_http_condition(conditions, id, context) ==
    IF id = 0 THEN TRUE
    ELSE IF id \notin DOMAIN conditions THEN Err
    ELSE execute(conditions[id].program, fill_missing_keys(context, conditions[id]))

-----------------------------------------------------------------------------
(* Attributes *)

valid_identifier(name) == name \notin BadNames
ref_from_text(ref) == valid_identifier(ref.kind) /\ valid_identifier(ref.name)

\* A port or a range of ports, both ends in 1 .. MaxPort and in order.
parse_port_range(r) == r.start \in 1 .. MaxPort /\ r.end \in 1 .. MaxPort /\ r.start <= r.end

\* Whether an expression decodes to what the argument asks for.
decodes(type, e) ==
    CASE type \in {"string", "bool", "int", "size", "strings", "condition"} -> e.t = type
      [] type = "username" -> e.t = "string" /\ e.content # ""
      [] type = "header" -> e.t = "string" /\ e.content \notin BadHeaders \cup {""}
      [] type = "default_action" -> e.t = "string" /\ e.content \in {"", "allow", "deny"}
      [] type = "verdict" -> e.t = "string" /\ e.content \in {"allow", "deny"}
      [] type = "hosts" -> e.t = "strings" /\ e.content # <<>>
      [] type = "ports" -> e.t = "ports" /\ \A i \in DOMAIN e.content : parse_port_range(e.content[i])
      [] type = "ref" -> e.t = "ref" /\ ref_from_text(e.content)
      [] type = "refs" -> e.t = "refs" /\ e.content # <<>> /\ \A i \in DOMAIN e.content : ref_from_text(e.content[i])

\* The body of a block: each argument is decoded on its own, and anything else is an error.
\* fields gives the type of each argument, the result holds the values that decoded.
BodyErrors(body, fields) ==
    {body[i].key : i \in {j \in DOMAIN body :
        \/ body[j].t = "block"
        \/ body[j].key \notin DOMAIN fields
        \/ ~ decodes(fields[body[j].key], body[j])}}

Decoded(body, fields, defaults) ==
    [f \in DOMAIN defaults |->
        LET good == {i \in DOMAIN body : body[i].key = f /\ body[i].t # "block" /\ decodes(fields[f], body[i])}
        IN  IF good = {} THEN defaults[f] ELSE body[CHOOSE i \in good : TRUE].content]

-----------------------------------------------------------------------------
(* The builder *)

NewBuilder ==
    [default_action |-> "allow", audit |-> None, settings_seen |-> FALSE,
     endpoints |-> <<>>, credentials |-> <<>>, rules |-> <<>>,
     endpoint_keys |-> {}, credential_keys |-> {}, rule_names |-> {},
     conditions |-> <<>>, errors |-> {}, warnings |-> {}]

Error(b, what) == [b EXCEPT !.errors = @ \cup what]

Key(kind, name) == <<kind, name>>
RefKey(ref) == Key(ref.kind, ref.name)

\* Sizes of the audit settings; a buffer smaller than what is stored is only warned about.
read_audit_settings(b, body) ==
    LET fields == [body_buffer |-> "size", body_storage |-> "size"]
        sizes == Decoded(body, fields, [body_buffer |-> 1024, body_storage |-> 4])
    IN  [b EXCEPT !.audit = sizes,
                  !.errors = @ \cup BodyErrors(body, fields),
                  !.warnings = @ \cup IF sizes.body_buffer < sizes.body_storage THEN {"audit"} ELSE {}]

read_settings(b, body) ==
    LET audits == SelectSeq(body, LAMBDA a : a.key = "audit" /\ a.t = "block")
        others == SelectSeq(body, LAMBDA a : ~ (a.key = "audit" /\ a.t = "block"))
        fields == [default_action |-> "default_action"]
        action == Decoded(others, fields, [default_action |-> b.default_action]).default_action
        read == [Error(b, BodyErrors(others, fields)) EXCEPT
                    !.settings_seen = TRUE,
                    !.default_action = IF action = "" THEN "allow" ELSE action]
        audited == IF audits = <<>> THEN read ELSE read_audit_settings(read, audits[1].content)
    IN  IF Len(audits) > 1 THEN Error(audited, {"audit"}) ELSE audited

EndpointFields(kind) ==
    IF kind = "ip"
    THEN [source |-> "strings", destination |-> "strings", protocol |-> "string", ports |-> "ports"]
    ELSE [hosts |-> "hosts"]

read_endpoint(b, labels, body) ==
    LET kind == labels[1]
        name == labels[2]
        fields == EndpointFields(kind)
        decl == Decoded(body, fields,
                        IF kind = "ip" THEN [source |-> <<>>, destination |-> <<>>, protocol |-> "any", ports |-> <<>>]
                        ELSE [hosts |-> <<>>])
    IN  IF Len(labels) # 2 THEN Error(b, {"labels"})
        ELSE IF ~ valid_identifier(name) \/ kind \notin {"ip", "http", "https"} THEN Error(b, {"name"})
        ELSE IF Key(kind, name) \in b.endpoint_keys THEN Error(b, {"duplicate"})
        ELSE [b EXCEPT
                 !.endpoint_keys = @ \cup {Key(kind, name)},
                 !.endpoints = Append(@, [kind |-> kind, name |-> name, decl |-> decl]),
                 !.errors = @ \cup BodyErrors(body, fields)
                              \cup IF kind # "ip" /\ "hosts" \notin Keys(body) THEN {"hosts"} ELSE {}]

known_credential_kind(kind) ==
    kind \in {"basic_auth", "bearer_token", "header_token", "github_oauth", "openai_codex_oauth", "aws_credential"}

\* The secrets a credential is made of, and whether it works without them.
credential_secret_slots(kind) ==
    CASE kind = "basic_auth" -> [password |-> TRUE]
      [] kind \in {"bearer_token", "header_token"} -> [token |-> TRUE]
      [] kind \in {"github_oauth", "openai_codex_oauth"} -> [oauth |-> TRUE]
      [] kind = "aws_credential" ->
             [access_key_id |-> TRUE, secret_access_key |-> TRUE, session_token |-> FALSE, profile |-> FALSE]
      [] OTHER -> <<>>

secret_requirements(b) ==
    UNION {LET c == b.credentials[i]
           IN  {[credential |-> Key(c.kind, c.name), slot |-> s, required |-> credential_secret_slots(c.kind)[s]] :
                   s \in DOMAIN credential_secret_slots(c.kind)} : i \in DOMAIN b.credentials}

CredentialFields(kind) ==
    CASE kind = "basic_auth" -> [endpoint |-> "ref", condition |-> "condition", username |-> "username"]
      [] kind = "bearer_token" -> [endpoint |-> "ref", condition |-> "condition", idempotency_key |-> "bool"]
      [] kind = "header_token" ->
             [endpoint |-> "ref", condition |-> "condition", header |-> "header", prefix |-> "string"]
      [] OTHER -> [endpoint |-> "ref", condition |-> "condition"]

\* Mutant: a condition gets the number of the last one.
register_http_condition_shared(b, source) ==
    IF source = None \/ source = <<>> THEN [b |-> b, id |-> 0]
    ELSE IF compile(source) = Err THEN [b |-> Error(b, {"condition"}), id |-> 0]
    ELSE [b |-> [b EXCEPT !.conditions = Append(@, compile(source))],
          id |-> IF b.conditions = <<>> THEN 1 ELSE Len(b.conditions)]

\* A condition's number is its place among the compiled ones; 0 is an absent condition.
register_http_condition(b, source) ==
    IF source = None \/ source = <<>> THEN [b |-> b, id |-> 0]
    ELSE IF compile(source) = Err THEN [b |-> Error(b, {"condition"}), id |-> 0]
    ELSE [b |-> [b EXCEPT !.conditions = Append(@, compile(source))], id |-> Len(b.conditions) + 1]

credential_condition_references_secret(source) == source # None /\ Mentions(source, "secret")

read_credential(b, labels, body) ==
    LET kind == labels[1]
        name == labels[2]
        fields == CredentialFields(kind)
        v == Decoded(body, fields, [f \in DOMAIN fields |-> None])
        secret == credential_condition_references_secret(v.condition)
        named == [b EXCEPT
                    !.credential_keys = @ \cup {Key(kind, name)},
                    !.errors = @ \cup BodyErrors(body, fields)
                                 \cup IF valid_identifier(name) THEN {} ELSE {"name"}]
        registered == register_http_condition(named, IF secret THEN None ELSE v.condition)
        required == [basic_auth |-> "username", header_token |-> "header"]
    IN  IF Len(labels) # 2 THEN Error(b, {"labels"})
        ELSE IF Key(kind, name) \in b.credential_keys THEN Error(b, {"duplicate"})
        ELSE IF v.endpoint = None THEN Error(named, {"endpoint"})
        ELSE [registered.b EXCEPT
                 !.credentials = Append(@, [kind |-> kind, name |-> name, endpoint |-> v.endpoint,
                                            condition |-> registered.id, source |-> v.condition]),
                 !.errors = @ \cup (IF secret THEN {"condition"} ELSE {})
                              \cup IF kind \in DOMAIN required /\ v[required[kind]] = None
                                   THEN {"required"} ELSE {}]

RuleFields ==
    [endpoint |-> "ref", endpoints |-> "refs", credential |-> "ref", condition |-> "condition",
     verdict |-> "verdict", priority |-> "int", disabled |-> "bool", reason |-> "string"]
RuleDefaults ==
    [endpoint |-> None, endpoints |-> <<>>, credential |-> None, condition |-> None,
     verdict |-> None, priority |-> 0, disabled |-> FALSE, reason |-> ""]

\* endpoint after endpoints adds to the list, of which the first is kept.
RuleEndpoints(body, v) ==
    IF "endpoint" \notin Keys(body) THEN v.endpoints
    ELSE IF "endpoints" \in Keys(body) /\ v.endpoints # <<>> THEN <<v.endpoints[1]>>
    ELSE IF v.endpoint = None THEN <<>> ELSE <<v.endpoint>>

\* endpoints after endpoint is an error.
endpoint_first(body) ==
    \E i, j \in DOMAIN body : i < j /\ body[i].key = "endpoint" /\ body[j].key = "endpoints"

read_rule(b, labels, body) ==
    LET v == Decoded(body, RuleFields, RuleDefaults)
        endpoints == RuleEndpoints(body, v)
        named == [b EXCEPT
                    !.rule_names = @ \cup {labels[1]},
                    !.errors = @ \cup BodyErrors(body, RuleFields)
                                 \cup IF endpoint_first(body) \/ endpoints = <<>> THEN {"endpoints"} ELSE {}]
        registered == register_http_condition(named, v.condition)
    IN  IF Len(labels) # 1 THEN Error(b, {"labels"})
        ELSE IF labels[1] \in b.rule_names THEN Error(b, {"duplicate"})
        ELSE IF v.verdict = None THEN Error(named, {"verdict"})
        ELSE [registered.b EXCEPT
                 !.rules = Append(@, [name |-> labels[1], endpoints |-> endpoints, credential |-> v.credential,
                                      verdict |-> v.verdict, priority |-> v.priority, disabled |-> v.disabled,
                                      condition |-> registered.id, source |-> v.condition,
                                      order |-> Len(b.rules)])]

read_top_level_block(b, block) ==
    CASE block.id = "settings" ->
             IF block.labels # <<>> \/ b.settings_seen THEN Error(b, {"settings"}) ELSE read_settings(b, block.body)
      [] block.id = "endpoint" -> read_endpoint(b, block.labels, block.body)
      [] block.id = "credential" -> read_credential(b, block.labels, block.body)
      [] block.id = "rule" -> read_rule(b, block.labels, block.body)
      [] OTHER -> Error(b, {"block"})

-----------------------------------------------------------------------------
(* References *)

Family(kind) == IF kind = "ip" THEN "ip" ELSE "http"

CredentialError(b, c) ==
    \/ ~ known_credential_kind(c.kind)
    \/ c.endpoint.kind # "https"
    \/ RefKey(c.endpoint) \notin {Key(b.endpoints[i].kind, b.endpoints[i].name) : i \in DOMAIN b.endpoints}

\* Mutant: the endpoints of a rule are only looked up.
RuleError_lookup(b, r) ==
    \/ \E i \in DOMAIN r.endpoints : RefKey(r.endpoints[i]) \notin b.endpoint_keys
    \/ r.credential # None /\ RefKey(r.credential) \notin b.credential_keys

\* A rule's endpoints exist and are of one family; conditions and credentials are for HTTP,
\* and a credential belongs to one of the rule's endpoints.
RuleError(b, r) ==
    LET known == {Key(b.endpoints[i].kind, b.endpoints[i].name) : i \in DOMAIN b.endpoints}
        families == {Family(r.endpoints[i].kind) : i \in {j \in DOMAIN r.endpoints : RefKey(r.endpoints[j]) \in known}}
        bound == {i \in DOMAIN b.credentials :
                     r.credential # None /\ Key(b.credentials[i].kind, b.credentials[i].name) = RefKey(r.credential)}
    IN  \/ \E i \in DOMAIN r.endpoints : RefKey(r.endpoints[i]) \notin known
        \/ Cardinality(families) > 1
        \/ families = {"ip"} /\ r.condition # 0
        \/ r.credential # None /\
              \/ bound = {} \/ families # {"http"}
              \/ \A i \in bound : b.credentials[i].endpoint \notin Range(r.endpoints)

\* Credentials of one endpoint that are both unconditional, or have the same condition.
warn_credential_overlap(b) ==
    IF \E i, j \in DOMAIN b.credentials :
          /\ i # j /\ b.credentials[i].endpoint = b.credentials[j].endpoint
          /\ IF b.credentials[i].condition = 0 THEN b.credentials[j].condition = 0
             ELSE b.credentials[j].condition # 0 /\ b.credentials[i].source = b.credentials[j].source
    THEN {"overlap"} ELSE {}

validate_references(b) ==
    [b EXCEPT
        !.errors = @ \cup {"credential" : i \in {j \in DOMAIN b.credentials : CredentialError(b, b.credentials[j])}}
                     \cup {"rule" : i \in {j \in DOMAIN b.rules : RuleError(b, b.rules[j])}},
        !.warnings = @ \cup warn_credential_overlap(b)]

\* The policy of a document, or the error that it has one.
parse_policy(blocks) ==
    LET b == validate_references(FoldLeft(read_top_level_block, NewBuilder, blocks))
    IN  IF b.errors # {} THEN Err ELSE b
=============================================================================
