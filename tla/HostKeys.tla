------------------------------- MODULE HostKeys -------------------------------
(* The keys a host keeps for all its machines: the SSH key pair whose public half every guest
   authorises (id_ed25519, id_ed25519.pub) and the certificate authority every guest trusts
   (ca.pem, ca-key.pem).  They are made by whichever process finds them missing: a start of a
   machine (the network driver asks for the authority, then the agent's configuration for the
   key pair and the authority again) or a `bento shell` (the key pair).  A start holds the lock
   of its own machine only and a shell holds none, so processes make keys side by side, and each
   may die between two writes.  A file is written in two steps: it is created or truncated, then
   filled; the writes of one file have one length, so a late one replaces an early one whole. *)
EXTENDS Integers, FiniteSets

CONSTANTS
    Callers,      \* the processes
    None,         \* no file, or no key
    MaxDeaths     \* bound: how many processes may die

VARIABLES
    file,     \* the four files: None, or the key they belong to and whether it is written out
    at,       \* where a process is
    who,      \* what it is: a start or a shell
    made,     \* the key it is writing, None when it is not
    result,   \* what a start puts in the agent's configuration, None before it has a key
    raced,    \* some process looked at a pair while another was making it
    keys,     \* how many keys have been made
    deaths
keyVars == <<file, at, who, made, result, raced, keys, deaths>>

Files == {"private", "public", "ca", "caKey"}
Empty(k) == [key |-> k, whole |-> FALSE]
Whole(k) == [key |-> k, whole |-> TRUE]

\* A process making a pair is at the next write of it.
Writing == {"private_open", "private_fill", "public_open", "public_fill"}
Signing == {"ca_open", "ca_fill", "caKey_open", "caKey_fill"}
\* The network driver's request for the authority, the key pair, the configuration's own
\* request for the authority.
Asking == {"driver", "pair", "config"}
Ended == {"connected", "launched", "failed", "dead"}

KeysInit ==
    /\ file = [f \in Files |-> None]
    /\ who \in [Callers -> {"shell", "start"}]
    /\ at = [c \in Callers |-> IF who[c] = "shell" THEN "pair" ELSE "driver"]
    /\ made = [c \in Callers |-> None]
    /\ result = [c \in Callers |-> None]
    /\ raced = FALSE /\ keys = 0 /\ deaths = 0

Exists(f) == file[f] # None
Goes(c, place) == at' = [at EXCEPT ![c] = place]
Makes(c, place) == Goes(c, place) /\ keys' = keys + 1 /\ made' = [made EXCEPT ![c] = keys + 1]
\* Another process is between finding a pair missing and its last write of it.
Others(c, places) == \E d \in Callers \ {c} : at[d] \in places

\* -------------------------------------------------------------- SSH key pair
\* Both files are there: a start reads them, checks that they belong together and goes on to
\* the authority.
validate_guest_ssh_keypair(c) ==
    IF file["private"].whole /\ file["public"] = file["private"]
    THEN /\ Goes(c, "config")
         /\ result' = [result EXCEPT ![c] = [ssh |-> file["private"].key, ca |-> None]]
    ELSE Goes(c, "failed") /\ UNCHANGED result

PairThere_never == FALSE
PairThere == Exists("private") /\ Exists("public")

load_or_generate_guest_ssh_keypair(c) ==
    /\ at[c] = "pair" /\ who[c] = "start"
    /\ raced' = (raced \/ Others(c, Writing))
    /\ IF PairThere THEN validate_guest_ssh_keypair(c) /\ UNCHANGED <<made, keys>>
       ELSE Makes(c, "private_open") /\ UNCHANGED result
    /\ UNCHANGED <<file, who, deaths>>

\* A shell uses the private key it finds, without a look at what is in the files.
ensure_guest_ssh_keypair(c) ==
    /\ at[c] = "pair" /\ who[c] = "shell"
    /\ raced' = (raced \/ Others(c, Writing))
    /\ IF PairThere THEN Goes(c, "connected") /\ UNCHANGED <<made, keys>>
       ELSE Makes(c, "private_open")
    /\ UNCHANGED <<file, who, result, deaths>>

\* The private key, then the public one; either write replaces what is there.
generate_ssh_keypair(c) ==
    /\ \/ /\ at[c] = "private_open" /\ Goes(c, "private_fill")
          /\ file' = [file EXCEPT !["private"] = Empty(made[c])] /\ UNCHANGED <<made, result>>
       \/ /\ at[c] = "private_fill" /\ Goes(c, "public_open")
          /\ file' = [file EXCEPT !["private"] = Whole(made[c])] /\ UNCHANGED <<made, result>>
       \/ /\ at[c] = "public_open" /\ Goes(c, "public_fill")
          /\ file' = [file EXCEPT !["public"] = Empty(made[c])] /\ UNCHANGED <<made, result>>
       \/ /\ at[c] = "public_fill" /\ made' = [made EXCEPT ![c] = None]
          /\ file' = [file EXCEPT !["public"] = Whole(made[c])]
          /\ IF who[c] = "shell" THEN Goes(c, "connected") /\ UNCHANGED result
             ELSE Goes(c, "config") /\ result' = [result EXCEPT ![c] = [ssh |-> made[c], ca |-> None]]
    /\ UNCHANGED <<who, raced, keys, deaths>>

\* ------------------------------------------------------ certificate authority
\* A start goes on with the certificate ca: the driver's request is followed by the key pair,
\* the configuration's by the launch.
Trusts(c, ca) ==
    IF result[c] = None
    THEN Goes(c, "pair") /\ UNCHANGED result
    ELSE Goes(c, "launched") /\ result' = [result EXCEPT ![c].ca = ca]

load_certificate_authority(c) == Trusts(c, file["ca"])

ensure_certificate_authority_in(c) ==
    /\ at[c] \in {"driver", "config"}
    /\ raced' = (raced \/ Others(c, Signing))
    /\ \/ /\ Exists("ca") /\ Exists("caKey")
          /\ load_certificate_authority(c) /\ UNCHANGED <<made, keys>>
       \/ /\ ~Exists("ca") /\ ~Exists("caKey")
          /\ Makes(c, "ca_open") /\ UNCHANGED result
       \/ /\ Exists("ca") # Exists("caKey")
          /\ Goes(c, "failed") /\ UNCHANGED <<made, keys, result>>
    /\ UNCHANGED <<file, who, deaths>>

\* Whether the file f can be opened for a new authority: the open demands that it is new.
OpensNew_any(f) == f \in Files
OpensNew(f) == ~Exists(f)
Opens(c, f, next) ==
    IF OpensNew(f)
    THEN Goes(c, next) /\ file' = [file EXCEPT ![f] = Empty(made[c])]
    ELSE Goes(c, "failed") /\ UNCHANGED file

\* The certificate, then its private key.
generate_certificate_authority(c) ==
    /\ \/ at[c] = "ca_open" /\ Opens(c, "ca", "ca_fill") /\ UNCHANGED <<made, result>>
       \/ /\ at[c] = "ca_fill" /\ Goes(c, "caKey_open")
          /\ file' = [file EXCEPT !["ca"] = Whole(made[c])] /\ UNCHANGED <<made, result>>
       \/ at[c] = "caKey_open" /\ Opens(c, "caKey", "caKey_fill") /\ UNCHANGED <<made, result>>
       \/ /\ at[c] = "caKey_fill" /\ made' = [made EXCEPT ![c] = None]
          /\ file' = [file EXCEPT !["caKey"] = Whole(made[c])]
          /\ Trusts(c, Whole(made[c]))
    /\ UNCHANGED <<who, raced, keys, deaths>>

\* A process dies between two of its steps.
Dies(c) ==
    /\ deaths < MaxDeaths /\ at[c] \notin Ended
    /\ Goes(c, "dead") /\ deaths' = deaths + 1
    /\ UNCHANGED <<file, who, made, result, raced, keys>>
\* A process that ended without a launch is followed by a start.
Again(c) ==
    /\ at[c] \in Ended \ {"launched"}
    /\ Goes(c, "driver") /\ who' = [who EXCEPT ![c] = "start"]
    /\ made' = [made EXCEPT ![c] = None] /\ result' = [result EXCEPT ![c] = None]
    /\ UNCHANGED <<file, raced, keys, deaths>>

KeysNext ==
    \E c \in Callers :
        \/ load_or_generate_guest_ssh_keypair(c)
        \/ ensure_guest_ssh_keypair(c)
        \/ generate_ssh_keypair(c)
        \/ ensure_certificate_authority_in(c)
        \/ generate_certificate_authority(c)
        \/ Dies(c)
        \/ Again(c)
KeysSpec == KeysInit /\ [][KeysNext]_keyVars

Keys == 1 .. keys
Contents == {None} \cup {Empty(k) : k \in Keys} \cup {Whole(k) : k \in Keys}

\* Type invariant.
KeysTypeOK ==
    /\ file \in [Files -> Contents] /\ who \in [Callers -> {"shell", "start"}]
    /\ at \in [Callers -> Writing \cup Signing \cup Asking \cup Ended]
    /\ made \in [Callers -> Keys \cup {None}]
    /\ result \in [Callers -> {None} \cup [ssh : Keys, ca : Contents]]
    /\ raced \in BOOLEAN /\ keys \in Nat /\ deaths \in 0 .. MaxDeaths

\* However starts overlap and wherever they die, a certificate and a private key of different
\* authorities are never on disk together, and the certificate a start tells its guest to trust
\* is the one on disk, written out (generate_certificate_authority opens new files only).
AuthorityIsOne ==
    /\ Exists("ca") /\ Exists("caKey") => file["ca"].key = file["caKey"].key
    /\ \A c \in Callers : at[c] = "launched" => result[c].ca = file["ca"] /\ result[c].ca.whole

\* Unless two processes made the key pair at once, the private key on disk is the one that
\* every guest started so far authorises, deaths or not (load_or_generate_guest_ssh_keypair,
\* ensure_guest_ssh_keypair).
KeyIsAuthorised ==
    ~raced => \A c \in Callers : result[c] # None => file["private"] = Whole(result[c].ssh)

\* A start fails over the keys only after processes met in the middle of making a pair, or one
\* died there.
FailsOnlyAfterAccident ==
    (\E c \in Callers : at[c] = "failed") => raced \/ deaths > 0
===============================================================================
