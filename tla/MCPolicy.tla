------------------------------ MODULE MCPolicy ------------------------------
(***************************************************************************)
(* Policy documents, flows and requests for PolicyEngine: documents whose   *)
(* rules, credentials and conditions compete for a request, documents with  *)
(* one block that does not belong there, and port ranges in every order.    *)
(***************************************************************************)
EXTENDS Integers, Sequences, TLC

CONSTANTS Absent, Err

VARIABLES document, loaded, policy, closed, asked, decision

UpTo(set, n) == UNION {[1 .. k -> set] : k \in 0 .. n}

\* Attributes and blocks of a policy document.
Attr(key, t, content) == [key |-> key, t |-> t, content |-> content]
Block(id, labels, body) == [id |-> id, labels |-> labels, body |-> body]
Authority(host, port) == [host |-> host, port |-> port, bracketed |-> FALSE, plain |-> TRUE]
Pattern(wildcard, host, port) == [wildcard |-> wildcard, host |-> host, port |-> port, bracketed |-> FALSE, plain |-> TRUE]
Ref(kind, name) == [kind |-> kind, name |-> name]
Test(facet, key, how, text) == [facet |-> facet, key |-> key, how |-> how, text |-> text]

EndpointBlock(kind, name, hosts) == Block("endpoint", <<kind, name>>, <<Attr("hosts", "strings", hosts)>>)
IpBlock(name, dest, protocol, ports) ==
    Block("endpoint", <<"ip", name>>,
          <<Attr("destination", "strings", dest), Attr("protocol", "string", protocol), Attr("ports", "ports", ports)>>)
CredentialBlock(kind, name, endpoint, condition) ==
    Block("credential", <<kind, name>>,
          <<Attr("endpoint", "ref", endpoint), Attr("condition", "condition", condition)>>
              \o IF kind = "basic_auth" THEN <<Attr("username", "string", "u")>> ELSE <<>>)
RuleBlock(name, endpoints, verdict, more) ==
    Block("rule", <<name>>, <<Attr("endpoints", "refs", endpoints), Attr("verdict", "string", verdict)>> \o more)
Settings(action) == Block("settings", <<>>, <<Attr("default_action", "string", action)>>)

ExactA == EndpointBlock("https", "a", <<Pattern(FALSE, <<"EX", "com">>, Absent)>>)
WildW == EndpointBlock("https", "w", <<Pattern(TRUE, <<"com">>, Absent), Pattern(TRUE, <<"ex", "com", "">>, 443)>>)
WildX == EndpointBlock("https", "x", <<Pattern(TRUE, <<"ex", "com">>, Absent)>>)
PlainA == EndpointBlock("http", "a", <<Pattern(FALSE, <<"ex", "com">>, 443)>>)
IsGet == <<Test("method", "", "is", "GET")>>
HasHeader == <<Test("headers", "H", "first", "1")>>
GetA == <<Test("method", "", "is", "GET"), Test("path", "", "is", "/A")>>
InQuery == <<Test("query", "Q", "in", "1")>>
Guarded == <<Test("method", "", "is", "get"), Test("undeclared", "", "is", "")>>

\* Rules of one or two priorities about the endpoints of the policy.
FirstRules ==
    {RuleBlock(n, <<Ref("https", e)>>, v, <<Attr("priority", "int", p), Attr("condition", "condition", c)>>) :
        n \in {"r"}, e \in {"a", "w"}, v \in {"allow", "deny"}, p \in {0}, c \in {<<>>, HasHeader, Guarded}}
SecondRules ==
    {RuleBlock("s", <<Ref("https", "w"), Ref("https", "a")>>, v, more) :
        v \in {"allow"},
        more \in {<<>>, <<Attr("priority", "int", 1)>>, <<Attr("disabled", "bool", TRUE)>>,
                  <<Attr("credential", "ref", Ref("bearer_token", "b"))>>,
                  <<Attr("condition", "condition", GetA), Attr("priority", "int", 1)>>}}
CredentialSets ==
    {<<>>} \cup
    {<<CredentialBlock("bearer_token", "b", Ref("https", "a"), c)>> : c \in {<<>>, IsGet}} \cup
    {<<CredentialBlock("bearer_token", "b", Ref("https", "a"), c), CredentialBlock("basic_auth", "d", Ref("https", "a"), d)>> :
        c \in {<<>>, HasHeader}, d \in {InQuery, HasHeader}}

\* Blocks that do not belong into a document, or only before or after certain others.
OddBlocks ==
    {Block("settings", <<"l">>, <<>>), Settings("maybe"), Settings(""), Block("forward", <<>>, <<>>),
     Block("settings", <<>>, <<Attr("audit", "block", <<Attr("body_buffer", "size", 2)>>),
                               Attr("audit", "block", <<>>)>>),
     Block("endpoint", <<"https">>, <<>>), Block("endpoint", <<"https", "bad name">>, <<>>),
     Block("endpoint", <<"ftp", "f">>, <<>>), Block("endpoint", <<"http", "h">>, <<>>),
     EndpointBlock("https", "z", <<Pattern(FALSE, <<"ex", "com">>, Absent)>>),
     EndpointBlock("https", "z", <<Pattern(TRUE, <<"1", "2">>, Absent)>>),
     EndpointBlock("https", "a", <<Pattern(FALSE, <<"org">>, 0)>>),
     Block("endpoint", <<"https", "y">>, <<Attr("ports", "ports", <<>>)>>),
     IpBlock("p", <<>>, "tcp", <<>>), IpBlock("p", <<{"n"}>>, "any", <<[start |-> 1, end |-> 1]>>),
     IpBlock("p", <<{}>>, "TCP", <<>>), IpBlock("p", <<{"n"}>>, "udp", <<[start |-> 2, end |-> 1]>>),
     CredentialBlock("basic_auth", "c", Ref("https", "none"), <<>>),
     CredentialBlock("bearer_token", "c", Ref("http", "a"), <<>>),
     CredentialBlock("other", "c", Ref("https", "a"), <<>>),
     CredentialBlock("bearer_token", "c", Ref("https", "a"), <<Test("secret", "", "is", "")>>),
     Block("credential", <<"basic_auth", "c">>, <<Attr("endpoint", "ref", Ref("https", "a"))>>),
     Block("credential", <<"header_token", "c">>,
           <<Attr("endpoint", "ref", Ref("https", "a")), Attr("header", "string", "bad header")>>),
     Block("credential", <<"aws_credential", "c">>, <<>>),
     Block("rule", <<>>, <<>>), Block("rule", <<"t">>, <<Attr("endpoints", "refs", <<Ref("https", "a")>>)>>),
     Block("rule", <<"t">>, <<Attr("verdict", "string", "allow")>>),
     RuleBlock("t", <<Ref("https", "a"), Ref("ip", "i")>>, "deny", <<>>),
     RuleBlock("t", <<Ref("ip", "i")>>, "deny", <<Attr("condition", "condition", IsGet)>>),
     RuleBlock("t", <<Ref("ip", "i")>>, "deny", <<Attr("credential", "ref", Ref("bearer_token", "b"))>>),
     RuleBlock("t", <<Ref("https", "w")>>, "allow", <<Attr("credential", "ref", Ref("bearer_token", "b"))>>),
     RuleBlock("t", <<Ref("https", "a")>>, "allow", <<Attr("credential", "ref", Ref("bearer_token", "q"))>>),
     RuleBlock("t", <<Ref("https", "w")>>, "allow", <<Attr("endpoint", "ref", Ref("https", "a"))>>),
     RuleBlock("t", <<Ref("https", "a")>>, "allow", <<Attr("condition", "condition", <<Test("body", "", "is", "")>>)>>),
     RuleBlock("t", <<Ref("https", "a")>>, "allow", <<Attr("condition", "condition", <<Test("path", "", "value", "")>>)>>),
     RuleBlock("t", <<Ref("https", "a")>>, "allow", <<Attr("condition", "condition", <<Test("query", "q", "list", "")>>)>>),
     RuleBlock("r", <<Ref("https", "a")>>, "allow", <<>>), RuleBlock("t", <<Ref("bad name", "a")>>, "allow", <<>>)}
Whole ==
    <<ExactA, WildW, IpBlock("i", <<{"n"}>>, "tcp", <<>>), CredentialBlock("bearer_token", "b", Ref("https", "a"), IsGet),
      RuleBlock("r", <<Ref("https", "a")>>, "allow", <<Attr("condition", "condition", HasHeader)>>)>>

PortRanges == {[start |-> 1, end |-> 2], [start |-> 2, end |-> 2], [start |-> 3, end |-> 4], [start |-> 1, end |-> 6], [start |-> 6, end |-> 7]}

DocumentsDef ==
    {<<Settings("deny"), ExactA, WildW>> \o c \o <<r, s>> : c \in CredentialSets, r \in FirstRules, s \in SecondRules}
    \cup {<<b>> \o Whole : b \in OddBlocks} \cup {Whole \o <<b>> : b \in OddBlocks}
    \cup {Absent}
    \cup {<<WildX, WildW, PlainA, RuleBlock("r", <<Ref("https", "x")>>, "deny", <<>>)>>}
    \cup {<<Settings(a), IpBlock("i", <<{"n"}>>, "TCP", ranges), IpBlock("j", <<{"n", "m"}>>, "any", <<>>), PlainA,
            RuleBlock("r", <<Ref("ip", "j")>>, "allow", <<Attr("priority", "int", p)>>),
            RuleBlock("s", <<Ref("ip", "i")>>, "deny", <<>>)>> :
             a \in {"allow", "deny"}, p \in {0 - 1, 0}, ranges \in UpTo(PortRanges, 3)}

RequestsDef ==
    {[kind |-> "https", host |-> h, method |-> m, path |-> "/A", query |-> q, headers |-> hs] :
        h \in {Authority(<<"ex", "COM">>, Absent), Authority(<<"a", "ex", "com">>, 443), Authority(<<"com">>, Absent),
               Authority(<<"org">>, Absent), Authority(<<>>, Absent)},
        m \in {"GET", "PUT"},
        q \in {Err, "Q" :> <<"1">>},
        hs \in {<<>>, <<[key |-> "H", values |-> <<"1">>], [key |-> "h", values |-> <<"2">>]>>}}
FlowsDef ==
    {[protocol |-> pr, source |-> Absent, dest |-> d, port |-> p] : pr \in {"TCP", "udp"}, d \in {"n", "m"}, p \in {2, 5, 443}}
LowerOfDef == ("GET" :> "get") @@ ("PUT" :> "put") @@ ("/A" :> "/a") @@ ("H" :> "h") @@ ("Q" :> "q")
              @@ ("EX" :> "ex") @@ ("COM" :> "com") @@ ("TCP" :> "tcp")

P == INSTANCE PolicyEngine WITH
        None <- Absent, Documents <- DocumentsDef, Requests <- RequestsDef, Flows <- FlowsDef, LowerOf <- LowerOfDef,
        BadNames <- {"bad name"}, BadHeaders <- {"bad header"}, MaxPort <- 500,
        Digits <- {"1", "2"}, V6 <- {"v6"}

\* The policy of an installation without one.
PolicyIdle ==
    /\ document = <<>> /\ loaded = Absent /\ policy = Absent /\ closed = FALSE
    /\ asked = Absent /\ decision = Absent
=============================================================================
