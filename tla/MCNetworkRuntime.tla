-------------------------- MODULE MCNetworkRuntime --------------------------
(***************************************************************************)
(* Machines and the networks they share, in installations chosen by the    *)
(* initial state.  Three are of NetworkRuntime: a private machine beside   *)
(* two on a named network, with store calls that fail and a helper that    *)
(* dies; the two named machines with a caller that is killed; the two, a   *)
(* dying helper and a machine without one.  Machines of one kind are       *)
(* interchangeable.  In the others one helper is looked at from inside:    *)
(* its policy (MCPolicy), the secrets it shares with `bento secret`        *)
(* (MCSecrets), and its process, its connections and its certificates      *)
(* (MCGateway).                                                            *)
(***************************************************************************)
EXTENDS NetworkRuntime, MCGateway

CONSTANT Others   \* machines without a helper, in the last of them

VARIABLE installation

policyVars == <<document, loaded, policy, closed, asked, decision>>
servingVars == <<connVars, netdVars, tlsVars>>
insideVars == <<policyVars, secretVars, servingVars>>

Mixed == INSTANCE NetworkRuntime WITH MaxNets <- MaxNets - 1
Killed == INSTANCE NetworkRuntime WITH Private <- {}, StoreFails <- FALSE, MaxCrashes <- 1
Beside == INSTANCE NetworkRuntime WITH Private <- {}, Plain <- Others, MaxNets <- MaxNets - 1

ServingIdle == GatesIdle /\ ProcessIdle /\ TlsIdle
InsideIdle == PolicyIdle /\ SecretsIdle /\ ServingIdle

NetworksInit ==
    \/ installation = "mixed" /\ Mixed!Init /\ InsideIdle
    \/ installation = "killed" /\ Killed!Init /\ InsideIdle
    \/ installation = "beside" /\ Beside!Init /\ InsideIdle
    \/ installation = "policy" /\ Killed!Init /\ P!PolicyInit /\ SecretsIdle /\ ServingIdle
    \/ installation = "secrets" /\ Killed!Init /\ PolicyIdle /\ SecretsInit /\ ServingIdle
    \/ installation = "gateway" /\ Killed!Init /\ SecretsIdle /\ Gates!GatewayInit /\ ProcessIdle /\ TlsIdle
    \/ installation = "process" /\ Killed!Init /\ PolicyIdle /\ SecretsIdle /\ GatesIdle /\ Process!ProcessInit /\ TlsIdle
    \/ installation = "tls" /\ Killed!Init /\ PolicyIdle /\ SecretsIdle /\ GatesIdle /\ ProcessIdle /\ TlsInit

\* A policy that was asked, or did not load, has nothing left to do.
PolicyAnswered ==
    /\ asked # Absent \/ loaded = Err \/ policy = Err
    /\ UNCHANGED policyVars

NetworksNext ==
    /\ UNCHANGED installation
    /\ \/ installation = "mixed" /\ Mixed!Next /\ UNCHANGED insideVars
       \/ installation = "killed" /\ Killed!Next /\ UNCHANGED insideVars
       \/ installation = "beside" /\ Beside!Next /\ UNCHANGED insideVars
       \/ installation = "policy" /\ (P!PolicyNext \/ PolicyAnswered) /\ UNCHANGED <<vars, secretVars, servingVars>>
       \/ installation = "secrets" /\ (SecretsNext \/ SecretsServed) /\ UNCHANGED <<vars, policyVars, servingVars>>
       \/ installation = "gateway" /\ (Gates!GatewayNext \/ GatesClosed) /\ UNCHANGED <<vars, secretVars, netdVars, tlsVars>>
       \/ installation = "process" /\ (Process!ProcessNext \/ ProcessOver) /\ UNCHANGED <<vars, policyVars, secretVars, connVars, tlsVars>>
       \/ installation = "tls" /\ (TlsNext \/ TlsOver) /\ UNCHANGED <<vars, policyVars, secretVars, connVars, netdVars>>

NetworksSpec == NetworksInit /\ [][NetworksNext]_<<vars, insideVars, installation>>

Symmetry == Permutations(Named)

\* Type invariant of the rows, the helpers and the operations, and of the policy.
NetworksTypeOK ==
    CASE installation = "mixed" -> Mixed!TypeOK
      [] installation = "killed" -> Killed!TypeOK
      [] installation = "beside" -> Beside!TypeOK
      [] installation = "policy" -> P!PolicyTypeOK
      [] installation = "secrets" -> SecretsTypeOK
      [] installation = "gateway" -> Gates!GatewayTypeOK
      [] installation = "process" -> Process!ProcessTypeOK
      [] OTHER -> TRUE

\* Once the calls are over, a helper that lives has its row and directory, and a machine
\* attached to it (NothingLeaks of NetworkRuntime).
NoHelperLeaks ==
    CASE installation = "mixed" -> Mixed!NothingLeaks
      [] installation = "killed" -> Killed!NothingLeaks
      [] installation = "beside" -> Beside!NothingLeaks
      [] OTHER -> TRUE

\* While a private machine runs, nobody takes its helper or its row away.
PrivateStays == installation = "mixed" => PrivateNetworkHeld

\* Machines that run on the named network share one helper, where the store answers.
OneNetwork == installation = "killed" => SameNetwork

\* A document that loads is compiled to what it says: references that Rust resolved resolve
\* in Go, a condition's number stands for the condition that was written, and merging keeps
\* the ports of an endpoint.
PolicyLoads ==
    installation = "policy" =>
        P!RefusedOnlyForEndpoints /\ P!ConditionsAreTheirOwn /\ P!RangesAreMerged

\* Every request and every flow gets the decision its document states: by the owner of the
\* host, the single credential that holds, and the first of the rules with the highest
\* priority.
PolicyDecides ==
    installation = "policy" => P!RequestsAsWritten /\ P!FlowsAsWritten

\* The secrets survive everybody who writes them, and a request is sent only with its own
\* (FileIsWhole, TokenIsCurrent, SetIsFound and OnlyWithSecrets of SecretStore).
SecretsAreKept == installation = "secrets" => SecretsKept

\* A helper lets out what its policy allows and nothing else, each credential only to its own endpoint, and
\* records all of it; it leaves nothing behind when it ends, the records of its connections included; no
\* ClientHello ends it, and the certificates it serves are valid (the properties of NetdGateway, NetdProcess
\* and TlsInterception).
HelperObeys ==
    CASE installation = "gateway" -> GatesObey
      [] installation = "process" -> Process!LeavesNothing /\ Process!ServesWhatItCan /\ Process!AuditIsWhole
      [] installation = "tls" -> TlsKept
      [] OTHER -> TRUE
=============================================================================
