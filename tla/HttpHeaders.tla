---------------------------- MODULE HttpHeaders ----------------------------
(***************************************************************************)
(* What the proxies of netd take out of the header fields they pass on      *)
(* (netd/internal/gateway/forwarder/http_family.go).                        *)
(*                                                                          *)
(* A line of a header is [name, parts].  A line without a name continues    *)
(* the field before it.  The parts of a value are what the commas outside   *)
(* of quotes separate; one that begins a challenge names its scheme, any    *)
(* other is a parameter of the challenge before it.                         *)
(***************************************************************************)
EXTENDS Sequences, SequencesExt

normalRequestStripHeaders ==
    {"Connection", "Keep-Alive", "Proxy-Authenticate", "Proxy-Authorization", "Te", "Trailer", "Trailers",
     "Transfer-Encoding", "Upgrade", "Cf-Worker", "Cf-Ray", "Cf-Ew-Via", "Cf-Connecting-Ip", "Cdn-Loop",
     "X-Forwarded-For", "X-Forwarded-Host", "X-Forwarded-Proto", "Via"}
credentialResponseStripHeaders ==
    {"Set-Cookie", "Set-Cookie2", "WWW-Authenticate", "Proxy-Authenticate", "Authentication-Info",
     "Proxy-Authentication-Info"}

Continues(line) == line.name = ""
Without(header, names) == SelectSeq(header, LAMBDA h : h.name \notin names)

\* The names that the fields called Connection list.
connectionHeaderTokens(header) ==
    UNION {Range(header[i].parts) : i \in {j \in DOMAIN header : header[j].name = "Connection"}}

sanitizeNormalRequestHeaders(header) ==
    Without(header, connectionHeaderTokens(header) \cup normalRequestStripHeaders)

\* net/http joins the lines of a field before a proxy sees it.
joined(lines) ==
    FoldLeft(LAMBDA acc, line : IF Continues(line) /\ acc # <<>>
                                THEN [acc EXCEPT ![Len(acc)].parts = @ \o line.parts] ELSE Append(acc, line),
             <<>>, lines)

Begins(part) == part.scheme # ""

\* Mutant: a parameter begins a challenge of its own.
splitWWWAuthenticateChallenges_parts(parts) == [i \in DOMAIN parts |-> <<parts[i]>>]

\* A parameter belongs to the challenge before it, or begins one when it is the first part.
splitWWWAuthenticateChallenges(parts) ==
    FoldLeft(LAMBDA acc, part : IF Begins(part) \/ acc = <<>> THEN Append(acc, <<part>>)
                                ELSE [acc EXCEPT ![Len(acc)] = Append(@, part)],
             <<>>, parts)

basicWWWAuthenticateChallenges(parts) ==
    SelectSeq(splitWWWAuthenticateChallenges(parts), LAMBDA c : Head(c).scheme = "Basic")

\* A field for every basic challenge, behind the other fields: Del, then Add.
preserveBasicWWWAuthenticateHeader(header) ==
    LET kept == FlattenSeq([i \in DOMAIN header |->
                    IF header[i].name = "WWW-Authenticate" THEN basicWWWAuthenticateChallenges(header[i].parts) ELSE <<>>])
    IN  Without(header, {"WWW-Authenticate"}) \o [i \in DOMAIN kept |-> [name |-> "WWW-Authenticate", parts |-> kept[i]]]

sanitizeHTTPFamilyHeader(header, preserveBasic) ==
    LET stripped == {"Alt-Svc"} \cup credentialResponseStripHeaders
    IN  IF preserveBasic THEN preserveBasicWWWAuthenticateHeader(Without(header, stripped \ {"WWW-Authenticate"}))
        ELSE Without(header, stripped)

\* Mutant: the lines that continue a dropped field are kept.
sanitizeRawHTTPResponseHeader_folded(lines) ==
    Without(lines, {"Alt-Svc"} \cup credentialResponseStripHeaders)

\* The header of an upgraded connection is not parsed: a dropped field takes its continuation lines along.
sanitizeRawHTTPResponseHeader(lines) ==
    FoldLeft(LAMBDA acc, line :
                 LET drop == IF Continues(line) THEN acc.dropping
                             ELSE line.name \in {"Alt-Svc"} \cup credentialResponseStripHeaders
                 IN  [dropping |-> drop, kept |-> IF drop THEN acc.kept ELSE Append(acc.kept, line)],
             [dropping |-> FALSE, kept |-> <<>>], lines).kept

=============================================================================
