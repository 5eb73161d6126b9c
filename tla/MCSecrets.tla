----------------------------- MODULE MCSecrets ------------------------------
(***************************************************************************)
(* The store of secrets (SecretStore) in installations: requests of one    *)
(* netd alone with the file, whose provider issues a refresh token with    *)
(* each access token or only the first; commands, requests of two netds    *)
(* and a process that is killed; one command with any two options more     *)
(* than a credential needs; and one request for every kind of credential.  *)
(***************************************************************************)
EXTENDS MCPolicy

CONSTANT Partial

VARIABLES secrets, file, tmp, actor, mu, issued, current, expired, kills

secretVars == <<secrets, file, tmp, actor, mu, issued, current, expired, kills>>

OAuthOf(token) == [type |-> "oauth", access |-> token, refresh |-> token]
PlainOf(text) == [type |-> "plain", value |-> text]

CodexKey == <<"openai_codex_oauth", "c", "oauth">>
GitHubKey == <<"github_oauth", "g", "oauth">>
BearerKey == <<"bearer_token", "b", "token">>
AwsKey(slot) == <<"aws_credential", "a", slot>>

Options == {"value", "token", "password", "access_key_id", "secret_access_key", "session_token", "profile"}
NoOption == [o \in Options |-> Absent]
Set(key, options, force) ==
    [op |-> "set", key |-> key, exact |-> Len(key) = 3, options |-> options @@ NoOption, stdin |-> {}, force |-> force]
Other(op, key, force) == [op |-> op, key |-> key, force |-> force]
Keys(v) == "access_key_id" :> v @@ "secret_access_key" :> v

PlainRequest == [https |-> TRUE, scope |-> Absent, labels |-> <<"s3", "eu">>, body |-> TRUE,
                 github |-> FALSE, service |-> "", method |-> "GET", key |-> FALSE, idempotent |-> FALSE]
Cred(kind, name, request) == [kind |-> kind, name |-> name, complete |-> TRUE, request |-> request]
Codex == Cred("openai_codex_oauth", "c", PlainRequest)

\* One netd: two credentials in the file, of which a token is refreshed.
AloneFile == CodexKey :> OAuthOf(1) @@ BearerKey :> PlainOf("v")

\* Commands and requests of several processes.
SharedCommands ==
    {Set(<<"aws_credential", "a">>, Keys("w"), TRUE),
     Set(BearerKey, "value" :> "", TRUE),
     Set(CodexKey, "value" :> "w", FALSE),
     Other("login", CodexKey, FALSE), Other("rm", CodexKey, TRUE), Other("show", CodexKey, FALSE)}
SharedCredentials == {Codex, Cred("aws_credential", "a", PlainRequest)}
SharedFile == CodexKey :> OAuthOf(1) @@ AwsKey("access_key_id") :> PlainOf("v") @@ AwsKey("secret_access_key") :> PlainOf("v")

\* One command line: what a credential takes, and any two options beside.
Targets == {<<"basic_auth", "a">>, <<"bearer_token", "a">>, <<"header_token", "a">>, <<"aws_credential", "a">>,
            <<"github_oauth", "a">>, BearerKey, <<"bad", "b", "">>}
OptionCommands ==
    {Set(key, o :> text @@ q :> "v", FALSE) : key \in Targets, o \in Options, q \in Options, text \in {"v", "both"}}
    \cup {Set(<<"aws_credential", "a">>, o :> text @@ Keys("w"), force) :
              o \in Options, text \in {"v", "both"}, force \in BOOLEAN}
    \cup {[Set(BearerKey, "value" :> "v", FALSE) EXCEPT !.stdin = given] : given \in SUBSET {"value", "token"}}
    \cup {Other(op, key, force) : op \in {"rm", "show", "list"}, key \in {BearerKey, CodexKey}, force \in BOOLEAN}

\* One request.
OptionCredentials ==
    {Cred(kind, "a", PlainRequest) : kind \in {"basic_auth", "bearer_token", "header_token", "aws_credential", "other"}}
    \cup {[Cred("header_token", "a", PlainRequest) EXCEPT !.complete = FALSE]}
    \cup {Cred("aws_credential", "a", [PlainRequest EXCEPT !.https = h, !.labels = l, !.body = b, !.scope = c]) :
              h \in BOOLEAN, l \in {<<>>, <<"s3">>, <<"s3", "dualstack", "eu">>}, b \in BOOLEAN, c \in {Absent, <<"s3", "eu">>}}
    \cup {Cred("github_oauth", "g", [PlainRequest EXCEPT !.github = g, !.service = "git-upload-pack"]) : g \in BOOLEAN}
    \cup {Cred("bearer_token", "b", [PlainRequest EXCEPT !.method = d, !.idempotent = TRUE]) : d \in {"GET", "POST"}}
    \cup {Codex}
OptionFile == BearerKey :> PlainOf("v") @@ AwsKey("session_token") :> PlainOf("v")
KeysFile == AwsKey("access_key_id") :> PlainOf("v") @@ AwsKey("secret_access_key") :> PlainOf("v") @@ CodexKey :> OAuthOf(1)
OptionEnv == GitHubKey :> OAuthOf(1) @@ CodexKey :> OAuthOf(1) @@ <<"basic_auth", "a", "password">> :> PlainOf("")

Alone == INSTANCE SecretStore WITH
    None <- Absent, Clis <- {}, Handlers <- {"r", "s", "t"}, NetdOf <- [h \in {"r", "s", "t"} |-> "n"], Commands <- {},
    Credentials <- {Codex, Cred("bearer_token", "b", PlainRequest)}, Env <- <<>>, Files <- {AloneFile}, BadKeys <- {}, StoreLimit <- 3,
    StoreFails <- FALSE, Rotates <- TRUE, MaxTokens <- 3, MaxPolls <- 1, MaxKills <- 0
Steady == INSTANCE SecretStore WITH
    None <- Absent, Clis <- {}, Handlers <- {"r", "s", "t"}, NetdOf <- [h \in {"r", "s", "t"} |-> "n"], Commands <- {},
    Credentials <- {Codex, Cred("bearer_token", "b", PlainRequest)}, Env <- <<>>, Files <- {AloneFile}, BadKeys <- {}, StoreLimit <- 3,
    StoreFails <- FALSE, Rotates <- FALSE, MaxTokens <- 3, MaxPolls <- 1, MaxKills <- 0
Shared == INSTANCE SecretStore WITH
    None <- Absent, Clis <- {"x"}, Handlers <- {"r", "s"}, NetdOf <- ("r" :> "n" @@ "s" :> "m"), Commands <- SharedCommands,
    Credentials <- SharedCredentials, Env <- <<>>, Files <- {SharedFile}, BadKeys <- {}, StoreLimit <- 3,
    StoreFails <- FALSE, Rotates <- TRUE, MaxTokens <- 2, MaxPolls <- 1, MaxKills <- 1
Lines == INSTANCE SecretStore WITH
    None <- Absent, Clis <- {"x"}, Handlers <- {}, NetdOf <- <<>>, Commands <- OptionCommands,
    Credentials <- {}, Env <- <<>>, Files <- {Absent, OptionFile}, BadKeys <- {<<"bad", "b", "">>}, StoreLimit <- 3,
    StoreFails <- TRUE, Rotates <- FALSE, MaxTokens <- 2, MaxPolls <- 1, MaxKills <- 0
Kinds == INSTANCE SecretStore WITH
    None <- Absent, Clis <- {}, Handlers <- {"r"}, NetdOf <- ("r" :> "n"), Commands <- {},
    Credentials <- OptionCredentials, Env <- OptionEnv, Files <- {Absent, OptionFile, KeysFile},
    BadKeys <- {}, StoreLimit <- 4, StoreFails <- TRUE, Rotates <- FALSE, MaxTokens <- 2, MaxPolls <- 1, MaxKills <- 0

SecretsInit ==
    \/ secrets = "alone" /\ Alone!SecretInit
    \/ secrets = "steady" /\ Steady!SecretInit
    \/ secrets = "shared" /\ Shared!SecretInit
    \/ secrets = "lines" /\ Lines!SecretInit
    \/ secrets = "kinds" /\ Kinds!SecretInit

SecretsNext ==
    /\ UNCHANGED secrets
    /\ \/ secrets = "alone" /\ Alone!SecretNext
       \/ secrets = "steady" /\ Steady!SecretNext
       \/ secrets = "shared" /\ Shared!SecretNext
       \/ secrets = "lines" /\ Lines!SecretNext
       \/ secrets = "kinds" /\ Kinds!SecretNext

\* Commands and requests that are over have nothing left to do.
SecretsServed == (\A a \in DOMAIN actor : actor[a].pc = "done") /\ UNCHANGED secretVars

\* The store while another part is looked at.
SecretsIdle ==
    /\ secrets = "none" /\ file = Absent /\ tmp = <<>> /\ actor = <<>> /\ mu = <<>>
    /\ issued = 0 /\ current = 0 /\ expired = {} /\ kills = 0

\* The type invariant of the store in each installation.
SecretsTypeOK ==
    CASE secrets = "alone" -> Alone!SecretTypeOK
      [] secrets = "steady" -> Steady!SecretTypeOK
      [] secrets = "shared" -> Shared!SecretTypeOK
      [] secrets = "lines" -> Lines!SecretTypeOK
      [] secrets = "kinds" -> Kinds!SecretTypeOK

\* In each installation: the file is whole, requests go on only with their secrets, alone a
\* netd loses no token, and netd finds what a command wrote.
SecretsKept ==
    CASE secrets = "alone" -> Alone!FileIsWhole /\ Alone!TokenIsCurrent /\ Alone!OnlyWithSecrets
      [] secrets = "steady" -> Steady!FileIsWhole /\ Steady!TokenIsCurrent
      [] secrets = "shared" -> Shared!FileIsWhole /\ Shared!OnlyWithSecrets
      [] secrets = "lines" -> Lines!FileIsWhole /\ Lines!SetIsFound
      [] secrets = "kinds" -> Kinds!FileIsWhole /\ Kinds!OnlyWithSecrets
=============================================================================
