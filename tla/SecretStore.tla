---------------------------- MODULE SecretStore ----------------------------
(***************************************************************************)
(* The file with the secrets of the credentials.  `bento secret`            *)
(* (app/cli/lib/commands/secret.rs) writes it, and so does every netd, when *)
(* it refreshes a token on behalf of a request                              *)
(* (netd/internal/credentials, netd/internal/secrets).  The processes share *)
(* nothing but the file: each reads all of it, changes one entry, writes a  *)
(* temporary file named after its pid and renames it.  Inside a netd a      *)
(* mutex serialises the requests.                                           *)
(*                                                                          *)
(* A key is <<kind, name, slot>>.  Tokens are numbered in the order the     *)
(* provider issues them.                                                    *)
(***************************************************************************)
EXTENDS Integers, Sequences, SequencesExt, FiniteSets, TLC

CONSTANTS
    None, Err,
    Clis,           \* processes of `bento secret`, one command each
    Handlers,       \* requests that need a credential
    NetdOf,         \* the netd that serves a request
    Commands,       \* command lines
    Credentials,    \* [kind, name, complete, request]: a credential and the request it is for
    Env,            \* secrets in the environment of netd, by key
    Files,          \* what the file may hold at first
    BadKeys,        \* keys that are no secret names
    Partial,        \* a file that is not written to its end
    StoreLimit,     \* storeFileSizeLimit, in entries
    StoreFails,     \* whether writes may fail
    Rotates,        \* whether the provider issues a refresh token with every access token
    MaxTokens, MaxPolls, MaxKills   \* bounds

VARIABLES
    file,           \* the secrets by key, or None
    tmp,            \* the temporary files by pid
    actor,          \* the commands and requests
    mu,             \* who holds FileStore.mu, by netd
    issued,         \* how many tokens the provider issued
    current,        \* the refresh token that it accepts
    expired,        \* tokens that are due
    kills
secretVars == <<file, tmp, actor, mu, issued, current, expired, kills>>

Actors == Clis \cup Handlers
Netds == {NetdOf[h] : h \in Handlers}
Pid(a) == IF a \in Handlers THEN NetdOf[a] ELSE a

-----------------------------------------------------------------------------
(* Secrets *)

PlainSecret(value) == [type |-> "plain", value |-> value]
OAuth(access, refresh) == [type |-> "oauth", access |-> access, refresh |-> refresh]

validate_secret_name(key) == key \notin BadKeys
validateName(key) == key \notin BadKeys

\* Rust reads the entries whatever a plain one holds.
read_all(f) == IF f = None THEN <<>> ELSE IF f = Partial THEN Err ELSE f

validateSecret(s) == IF s.type = "plain" THEN s.value # "" ELSE s.access # None /\ s.refresh # None

\* Go validates all of the file, of which it reads no more than its limit.
readAll(f) ==
    IF f = None THEN <<>>
    ELSE IF f = Partial THEN Err
    ELSE IF Cardinality(DOMAIN f) > StoreLimit \/ \E k \in DOMAIN f : ~ validateSecret(f[k]) THEN Err
    ELSE f

-----------------------------------------------------------------------------
(* The options of `bento secret set`.  An option is None, its text, or      *)
(* "both" where --x and --x-stdin are given; stdin tells which come from it. *)

slot_key(kind, name, slot) == <<kind, name, slot>>

Given(cmd, options) == \E o \in options : cmd.options[o] # None
Token == {"token"}
Password == {"password"}
StaticAws == {"access_key_id", "secret_access_key", "session_token"}
ProviderSpecific == Token \cup Password \cup StaticAws \cup {"profile"}

plain_secret_value(cmd, option) ==
    IF cmd.options[option] \in {None, "both"} THEN Err ELSE cmd.options[option]
optional_plain_secret_value(cmd, option) ==
    IF cmd.options[option] = "both" THEN Err ELSE cmd.options[option]

Entry(key, value) == [key |-> key, value |-> value]

\* One required slot, and none of the options that are for other kinds.
one_slot_entries(kind, name, cmd, option) ==
    IF Given(cmd, ProviderSpecific \ {option}) \/ plain_secret_value(cmd, option) = Err THEN Err
    ELSE <<Entry(slot_key(kind, name, option), plain_secret_value(cmd, option))>>

\* Mutant: only the key id is written, to a slot of another name.
aws_secret_entries_short(kind, name, cmd) ==
    IF Given(cmd, Token \cup Password \cup {"profile"}) \/ ~ Given(cmd, {"access_key_id"}) THEN Err
    ELSE <<Entry(slot_key(kind, name, "access_key"), cmd.options.access_key_id)>>

aws_secret_entries(kind, name, cmd) ==
    LET required == {"access_key_id", "secret_access_key"}
        token == optional_plain_secret_value(cmd, "session_token")
    IN  IF Given(cmd, Token \cup Password) THEN Err
        ELSE IF cmd.options.profile # None
        THEN IF Given(cmd, StaticAws) THEN Err
             ELSE <<Entry(slot_key(kind, name, "profile"), cmd.options.profile)>>
        ELSE IF token = Err \/ \E o \in required : plain_secret_value(cmd, o) = Err THEN Err
        ELSE <<Entry(slot_key(kind, name, "access_key_id"), cmd.options.access_key_id),
               Entry(slot_key(kind, name, "secret_access_key"), cmd.options.secret_access_key)>>
             \o IF token = None THEN <<>> ELSE <<Entry(slot_key(kind, name, "session_token"), token)>>

set_provider_plain_secret(kind, name, cmd) ==
    IF Given(cmd, {"value"}) THEN Err
    ELSE CASE kind = "basic_auth" -> one_slot_entries(kind, name, cmd, "password")
           [] kind \in {"bearer_token", "header_token"} -> one_slot_entries(kind, name, cmd, "token")
           [] kind = "aws_credential" -> aws_secret_entries(kind, name, cmd)
           [] OTHER -> Err

\* The entries a command line writes, or Err.
set_plain_secret(cmd) ==
    IF Cardinality(cmd.stdin) > 1 THEN Err
    ELSE IF cmd.exact
    THEN IF Given(cmd, ProviderSpecific) \/ plain_secret_value(cmd, "value") = Err THEN Err
         ELSE <<Entry(cmd.key, plain_secret_value(cmd, "value"))>>
    ELSE set_provider_plain_secret(cmd.key[1], cmd.key[2], cmd)

-----------------------------------------------------------------------------
(* Steps of a process *)

\* The service and the region of a request: from the Authorization header the guest sent,
\* else from the labels of a host below amazonaws.com.
awsScopeFromHost(labels) ==
    IF labels = <<>> THEN Err
    ELSE IF Len(labels) = 1 THEN <<labels[1], "us-east-1">>
    ELSE IF Len(labels) >= 3 /\ labels[2] = "dualstack" THEN <<labels[1], labels[3]>>
    ELSE <<labels[1], labels[2]>>
awsSigningScope(request) == IF request.scope # None THEN request.scope ELSE awsScopeFromHost(request.labels)

\* GitHub's smart HTTP wants basic authentication.
isGitHubSmartHTTP(request) == request.github /\ request.service \in {"git-upload-pack", "git-receive-pack"}

\* How the secrets travel.  A key against repetition is added to what may change something.
Header(kind, request) ==
    [scheme |-> CASE kind = "basic_auth" -> "basic"
                  [] kind = "header_token" -> "custom"
                  [] kind = "aws_credential" -> "sigv4"
                  [] kind = "github_oauth" /\ isGitHubSmartHTTP(request) -> "basic"
                  [] OTHER -> "bearer",
     idempotency |-> request.key \/ (kind = "bearer_token" /\ request.idempotent /\ request.method \notin {"GET", "HEAD"})]

Injected(a, got) == [a EXCEPT !.pc = "done", !.got = got, !.result = "ok", !.header = Header(a.cmd.kind, a.cmd.request)]

Idle == [pc |-> "idle", cmd |-> None, entries |-> <<>>, i |-> 1, mem |-> None, polls |-> 0,
         got |-> <<>>, token |-> None, fromEnv |-> FALSE, header |-> None, result |-> None]

Goto(a, pc) == actor' = [actor EXCEPT ![a].pc = pc]
Return(a, result) == actor' = [actor EXCEPT ![a].pc = "done", ![a].result = result]
NothingWritten == UNCHANGED <<file, tmp, mu, issued, current, expired, kills>>

\* Cmd::run parses the options before the store is touched.  A key of its own is looked up
\* with and without --force, the slots of a credential only without.
run(c, cmd) ==
    /\ actor[c].pc = "idle" /\ NothingWritten
    /\ LET entries == IF cmd.op = "set" THEN set_plain_secret(cmd)
                      ELSE IF cmd.op = "rm" /\ ~ cmd.force THEN Err
                      ELSE <<Entry(cmd.key, None)>>
       IN  actor' = [actor EXCEPT ![c] =
             IF entries = Err THEN [@ EXCEPT !.pc = "done", !.cmd = cmd, !.result = Err]
             ELSE [@ EXCEPT !.cmd = cmd, !.entries = entries,
                            !.pc = CASE cmd.op = "login" -> "contains"
                                     [] cmd.op = "set" -> IF cmd.force /\ ~ cmd.exact THEN "put" ELSE "contains"
                                     [] OTHER -> cmd.op]]

KeyOf(c) == actor[c].entries[actor[c].i].key

\* One key after the other is looked for, then the writing starts.
contains(c) ==
    /\ actor[c].pc = "contains" /\ NothingWritten
    /\ LET secrets == read_all(file)
           a == actor[c]
       IN  IF ~ validate_secret_name(KeyOf(c)) \/ secrets = Err THEN Return(c, Err)
           ELSE IF KeyOf(c) \in DOMAIN secrets /\ ~ (a.cmd.op = "set" /\ a.cmd.force) THEN Return(c, Err)
           ELSE actor' = [actor EXCEPT ![c] =
                   IF a.i < Len(a.entries) THEN [a EXCEPT !.i = @ + 1]
                   ELSE [a EXCEPT !.i = 1, !.pc = IF a.cmd.op = "login" THEN "start" ELSE "put"]]

\* list and show only read.
list(c) ==
    /\ actor[c].pc \in {"list", "show"} /\ NothingWritten
    /\ LET secrets == read_all(file)
       IN  IF secrets = Err \/ (actor[c].pc = "show" /\ KeyOf(c) \notin DOMAIN secrets)
           THEN Return(c, Err) ELSE Return(c, "ok")

\* Device login: a code to show, polls until it was entered or ten minutes are over, and
\* the exchange of the code for tokens.
start_openai_device_flow(c) ==
    /\ actor[c].pc = "start" /\ NothingWritten
    /\ Goto(c, "poll") \/ Return(c, Err)

\* The provider says that the code was not entered yet, or answers without one.
PollAnswers == {"accepted", "pending", "incomplete", "authorized", "failed"}
is_pending_device_poll_response(answer) == answer \in {"accepted", "pending"}

\* Tokens are asked for until the deadline, here MaxPolls answers away.
poll_openai_device_flow(c) ==
    /\ actor[c].pc = "poll" /\ NothingWritten
    /\ \/ /\ actor[c].polls < MaxPolls
          /\ \E answer \in PollAnswers :
                IF is_pending_device_poll_response(answer) \/ answer = "incomplete"
                THEN actor' = [actor EXCEPT ![c].polls = @ + 1]
                ELSE IF answer = "authorized" THEN Goto(c, "exchange") ELSE Return(c, Err)
       \/ actor[c].polls = MaxPolls /\ Return(c, Err)

exchange_openai_code(c) ==
    /\ actor[c].pc = "exchange"
    /\ \/ /\ issued < MaxTokens /\ issued' = issued + 1 /\ current' = issued + 1
          /\ actor' = [actor EXCEPT ![c].pc = "put", ![c].token = issued + 1]
       \/ Return(c, Err) /\ UNCHANGED <<issued, current>>
    /\ UNCHANGED <<file, tmp, mu, expired, kills>>

\* put reads the file again, and all of it.
put(c) ==
    /\ actor[c].pc = "put" /\ NothingWritten
    /\ LET secrets == read_all(file)
           a == actor[c]
           secret == IF a.cmd.op = "login" THEN OAuth(a.token, a.token) ELSE PlainSecret(a.entries[a.i].value)
       IN  IF ~ validate_secret_name(KeyOf(c)) \/ secrets = Err THEN Return(c, Err)
           ELSE actor' = [actor EXCEPT ![c].pc = "write", ![c].mem = (KeyOf(c) :> secret) @@ secrets]

remove(c) ==
    /\ actor[c].pc = "rm" /\ NothingWritten
    /\ LET secrets == read_all(file)
       IN  IF ~ validate_secret_name(KeyOf(c)) \/ secrets = Err \/ KeyOf(c) \notin DOMAIN secrets THEN Return(c, Err)
           ELSE actor' = [actor EXCEPT ![c].pc = "write",
                                       ![c].mem = [k \in DOMAIN secrets \ {KeyOf(c)} |-> secrets[k]]]

Unlocked(a) == [n \in DOMAIN mu |-> IF mu[n] = a THEN None ELSE mu[n]]

\* write_all and writeAll: the temporary file is truncated, written, and renamed.  What
\* fails ends the command, and a request with the reason that the refresh failed.
WriteError(a) ==
    /\ StoreFails
    /\ Return(a, IF a \in Clis THEN Err ELSE "credential_refresh_error")
    /\ mu' = Unlocked(a)
    /\ UNCHANGED <<issued, current, expired, kills>>

open_tmp(a) ==
    /\ actor[a].pc = "write"
    /\ \/ /\ tmp' = [tmp EXCEPT ![Pid(a)] = Partial] /\ Goto(a, "writing")
          /\ UNCHANGED <<file, mu, issued, current, expired, kills>>
       \/ WriteError(a) /\ UNCHANGED <<file, tmp>>

write_tmp(a) ==
    /\ actor[a].pc = "writing"
    /\ \/ /\ tmp' = [tmp EXCEPT ![Pid(a)] = actor[a].mem] /\ Goto(a, "rename")
          /\ UNCHANGED <<file, mu, issued, current, expired, kills>>
       \/ WriteError(a) /\ UNCHANGED <<file, tmp>>

\* The next entry of a command, or its end; a request goes on with the token it got.
Renamed(a) ==
    IF a \in Handlers THEN Injected(actor[a], <<actor[a].token>>)
    ELSE IF actor[a].i < Len(actor[a].entries) THEN [actor[a] EXCEPT !.pc = "put", !.i = @ + 1]
    ELSE [actor[a] EXCEPT !.pc = "done", !.result = "ok"]

rename(a) ==
    /\ actor[a].pc = "rename"
    /\ \/ /\ file' = tmp[Pid(a)] /\ tmp' = [tmp EXCEPT ![Pid(a)] = None]
          /\ actor' = [actor EXCEPT ![a] = Renamed(a)]
          /\ mu' = Unlocked(a) /\ UNCHANGED <<issued, current, expired, kills>>
       \/ /\ WriteError(a) /\ UNCHANGED file
          /\ tmp' = IF a \in Handlers THEN [tmp EXCEPT ![Pid(a)] = None] ELSE tmp
       \/ /\ WriteError(a)      \* the permissions of the new file cannot be set
          /\ file' = tmp[Pid(a)] /\ tmp' = [tmp EXCEPT ![Pid(a)] = None]

-----------------------------------------------------------------------------
(* Manager.Apply *)

\* The slots of a kind in the order in which they are read, and whether one must be there.
Slots(kind) ==
    CASE kind = "basic_auth" -> <<[slot |-> "password", required |-> TRUE]>>
      [] kind \in {"bearer_token", "header_token"} -> <<[slot |-> "token", required |-> TRUE]>>
      [] kind \in {"github_oauth", "openai_codex_oauth"} -> <<[slot |-> "oauth", required |-> TRUE]>>
      [] kind = "aws_credential" ->
             <<[slot |-> "profile", required |-> FALSE], [slot |-> "access_key_id", required |-> TRUE],
               [slot |-> "secret_access_key", required |-> TRUE], [slot |-> "session_token", required |-> FALSE]>>
      [] OTHER -> <<>>

\* The value of a plain slot: the store's, else the environment's, else "" or Err.
plainSlot(secrets, key, required) ==
    IF secrets = Err \/ ~ validateName(key) THEN Err
    ELSE IF key \in DOMAIN secrets
    THEN IF secrets[key].type = "plain" THEN secrets[key].value ELSE Err
    ELSE IF key \in DOMAIN Env THEN IF Env[key] = PlainSecret("") THEN Err ELSE Env[key].value
    ELSE IF required THEN Err ELSE ""

\* The tokens of an OAuth slot.
oauthSlot(secrets, key) ==
    IF secrets = Err \/ ~ validateName(key) THEN Err
    ELSE IF key \in DOMAIN secrets
    THEN IF secrets[key].type = "oauth" THEN secrets[key] ELSE Err
    ELSE IF key \in DOMAIN Env /\ validateSecret(Env[key]) THEN Env[key] ELSE Err

\* Mutant: requests of one netd do not wait for each other.
Lockable_always(h) == TRUE

\* FileStore.mu of the request's netd is free.
Lockable(h) == mu[NetdOf[h]] = None

\* What fails before a secret is read: the policy left out what the kind needs, or AWS's
\* signature is asked for without TLS.
Refused(credential) ==
    CASE Slots(credential.kind) = <<>> \/ ~ credential.complete -> "credential_injection_error"
      [] credential.kind = "aws_credential" /\ ~ credential.request.https -> "credential_signing_error"
      [] OTHER -> None

Apply(h, credential) ==
    /\ actor[h].pc = "idle" /\ NothingWritten
    /\ actor' = [actor EXCEPT ![h] =
          IF Refused(credential) # None
          THEN [@ EXCEPT !.pc = "done", !.cmd = credential, !.result = Refused(credential)]
          ELSE [@ EXCEPT !.pc = "slot", !.cmd = credential]]

SlotOf(h) == Slots(actor[h].cmd.kind)[actor[h].i]
SlotKey(h) == slot_key(actor[h].cmd.kind, actor[h].cmd.name, SlotOf(h).slot)

\* The scope and the body of a request that AWS is to accept.
Signed(a, got) ==
    IF awsSigningScope(a.cmd.request) = Err \/ ~ a.cmd.request.body
    THEN [a EXCEPT !.pc = "done", !.got = got, !.result = "credential_signing_error"]
    ELSE Injected(a, got)

\* One plain slot, read on its own.  A profile of AWS makes the keys superfluous, and may not
\* resolve.
getPlain(h) ==
    /\ actor[h].pc = "slot" /\ SlotOf(h).slot # "oauth" /\ Lockable(h) /\ NothingWritten
    /\ LET value == plainSlot(readAll(file), SlotKey(h), SlotOf(h).required)
           got == Append(actor[h].got, value)
       IN  IF value = Err THEN Return(h, "credential_secret_error")
           ELSE IF SlotOf(h).slot = "profile" /\ value # ""
           THEN actor' = [actor EXCEPT ![h] = Signed(@, got)] \/ Return(h, "credential_secret_error")
           ELSE actor' = [actor EXCEPT ![h] =
                   IF actor[h].i < Len(Slots(actor[h].cmd.kind)) THEN [@ EXCEPT !.i = @ + 1, !.got = got]
                   ELSE IF actor[h].cmd.kind = "aws_credential" THEN Signed(@, got)
                   ELSE Injected(@, got)]

oauthNeedsRefresh(secret) == secret.access \in expired

\* The tokens of an OAuth credential; OpenAI's are refreshed when they are due.
getOAuth(h) ==
    /\ actor[h].pc = "slot" /\ SlotOf(h).slot = "oauth" /\ Lockable(h) /\ NothingWritten
    /\ LET secret == oauthSlot(readAll(file), SlotKey(h))
       IN  IF secret = Err THEN Return(h, "credential_secret_error")
           ELSE IF actor[h].cmd.kind = "openai_codex_oauth" /\ oauthNeedsRefresh(secret)
           THEN actor' = [actor EXCEPT ![h].pc = "refresh", ![h].mem = secret,
                                       ![h].fromEnv = SlotKey(h) \notin DOMAIN readAll(file)]
           ELSE actor' = [actor EXCEPT ![h] = Injected(@, <<secret.access>>)]

\* Mutant: an answer without refresh token clears it.
RefreshToken_cleared(secret, answer) == answer.refresh

\* An answer without refresh token leaves the one that was used.
RefreshToken(secret, answer) == IF answer.refresh = None THEN secret.refresh ELSE answer.refresh

\* The provider accepts only its newest refresh token.
Answers(refresh) ==
    IF refresh # current THEN {} ELSE {[access |-> issued + 1, refresh |-> IF Rotates THEN issued + 1 ELSE None]}

\* What comes from the environment is used and never stored.
refreshOpenAICodexOAuth(h) ==
    /\ actor[h].pc = "refresh"
    /\ \/ \E answer \in Answers(actor[h].mem.refresh) :
             /\ issued < MaxTokens /\ issued' = issued + 1
             /\ current' = IF answer.refresh = None THEN current ELSE answer.refresh
             /\ actor' = [actor EXCEPT ![h] =
                   IF actor[h].fromEnv THEN Injected(@, <<answer.access>>)
                   ELSE [@ EXCEPT !.pc = "update", !.token = answer.access,
                                  !.mem = OAuth(answer.access, RefreshToken(actor[h].mem, answer))]]
       \/ Return(h, "credential_refresh_error") /\ UNCHANGED <<issued, current>>
    /\ UNCHANGED <<file, tmp, mu, expired, kills>>

\* UpdateOAuth holds the mutex from here to the rename.  A secret that was removed, or
\* became a plain one, is not put back.
UpdateOAuth(h) ==
    /\ actor[h].pc = "update" /\ Lockable(h)
    /\ LET secrets == readAll(file)
       IN  IF secrets = Err \/ SlotKey(h) \notin DOMAIN secrets
           THEN Return(h, "credential_refresh_error") /\ UNCHANGED mu
           ELSE IF secrets[SlotKey(h)].type # "oauth"
           THEN Return(h, "credential_refresh_error") /\ UNCHANGED mu
           ELSE /\ mu' = [mu EXCEPT ![NetdOf[h]] = h]
                /\ actor' = [actor EXCEPT ![h].pc = "write",
                                          ![h].mem = (SlotKey(h) :> actor[h].mem) @@ secrets]
    /\ UNCHANGED <<file, tmp, issued, current, expired, kills>>

\* A token becomes due.
Expire(t) ==
    /\ t <= issued /\ t \notin expired /\ expired' = expired \cup {t}
    /\ UNCHANGED <<file, tmp, actor, mu, issued, current, kills>>

\* A process is killed, with all its requests; its files stay.
Kill(pid) ==
    /\ kills < MaxKills /\ kills' = kills + 1
    /\ \E a \in Actors : Pid(a) = pid /\ actor[a].pc \notin {"idle", "done"}
    /\ actor' = [a \in Actors |->
                    IF Pid(a) = pid /\ actor[a].pc # "done"
                    THEN [actor[a] EXCEPT !.pc = "done", !.result = "killed"] ELSE actor[a]]
    /\ mu' = [n \in DOMAIN mu |-> IF n = pid THEN None ELSE mu[n]]
    /\ UNCHANGED <<file, tmp, issued, current, expired>>

-----------------------------------------------------------------------------
SecretInit ==
    /\ file \in Files /\ tmp = [p \in Clis \cup Netds |-> None]
    /\ actor = [a \in Actors |-> Idle] /\ mu = [n \in Netds |-> None]
    /\ issued = 1 /\ current = 1 /\ expired = {} /\ kills = 0

Step(a) == open_tmp(a) \/ write_tmp(a) \/ rename(a)

Command(c) ==
    \/ \E cmd \in Commands : run(c, cmd)
    \/ contains(c) \/ list(c) \/ put(c) \/ remove(c)
    \/ start_openai_device_flow(c) \/ poll_openai_device_flow(c) \/ exchange_openai_code(c)

Request(h) ==
    \/ \E credential \in Credentials : Apply(h, credential)
    \/ getPlain(h) \/ getOAuth(h) \/ refreshOpenAICodexOAuth(h) \/ UpdateOAuth(h)

SecretNext ==
    \/ \E c \in Clis : Command(c)
    \/ \E h \in Handlers : Request(h)
    \/ \E a \in Actors : Step(a)
    \/ \E t \in 1 .. MaxTokens : Expire(t)
    \/ \E p \in Clis \cup Netds : Kill(p)

SecretSpec == SecretInit /\ [][SecretNext]_secretVars

-----------------------------------------------------------------------------
(* Properties *)

SecretTypeOK ==
    /\ current \in 1 .. issued /\ issued <= MaxTokens /\ expired \subseteq 1 .. MaxTokens /\ kills \in 0 .. MaxKills
    /\ DOMAIN actor = Actors /\ DOMAIN tmp = Clis \cup Netds
    /\ \A n \in Netds : mu[n] # None => mu[n] \in Handlers /\ NetdOf[mu[n]] = n

\* Whoever writes, is killed or fails: the file is one that was written to its end, `bento
\* secret` can read it, and netd cannot only for a plain secret that is empty or too many.
FileIsWhole ==
    /\ file # Partial
    /\ readAll(file) = Err =>
          \/ Cardinality(DOMAIN file) > StoreLimit
          \/ \E k \in DOMAIN file : file[k] = PlainSecret("")

\* Where one netd is alone with the file, and neither fails nor dies, its requests lose no
\* token: once none is between the answer of the provider and the rename, the refresh token
\* in the file is the one the provider accepts.
Alone == Cardinality(Netds) = 1 /\ Clis = {} /\ ~ StoreFails /\ MaxKills = 0
TokenIsCurrent ==
    Alone /\ (\A h \in Handlers : actor[h].pc \notin {"update", "write", "writing", "rename"}) /\ file # None =>
        \A k \in DOMAIN file : file[k].type = "oauth" /\ k[1] = "openai_codex_oauth" => file[k].refresh = current

\* What `bento secret set KIND NAME` wrote is what netd looks for: a command that ended well,
\* with text for every option, leaves a credential that can be read.
Readable(secrets, kind, name) ==
    LET value(s) == plainSlot(secrets, slot_key(kind, name, s.slot), s.required)
    IN  \/ kind = "aws_credential" /\ value([slot |-> "profile", required |-> FALSE]) \notin {"", Err}
        \/ \A s \in Range(Slots(kind)) : value(s) # Err
SetIsFound ==
    \A c \in Clis :
        /\ actor[c].pc = "done" /\ actor[c].result = "ok"
        /\ actor[c].cmd.op = "set" /\ ~ actor[c].cmd.exact
        /\ \A d \in Clis \ {c} : actor[d].pc = "idle"
        /\ readAll(file) # Err
        => Readable(readAll(file), actor[c].cmd.key[1], actor[c].cmd.key[2])

\* A request goes on only with all its secrets, and a refreshed token only once it is stored.
OnlyWithSecrets ==
    \A h \in Handlers :
        actor[h].result = "ok" =>
            /\ actor[h].got # <<>> /\ Err \notin Range(actor[h].got)
            /\ actor[h].cmd.kind = "aws_credential" =>
                  actor[h].got[1] # "" \/ (Len(actor[h].got) = 4 /\ actor[h].got[2] # "" /\ actor[h].got[3] # "")
=============================================================================
