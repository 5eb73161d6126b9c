--------------------------- MODULE HostKeysProofs ---------------------------
(* Proofs about HostKeys, for any number of processes and of deaths.  The only assumption is
   that None, which stands for a missing file and a missing key, is not a record. *)
EXTENDS HostKeys, TLAPS

Kept == [key : Nat \cup {None}, whole : BOOLEAN]
Told == [ssh : Nat \cup {None}, ca : {None} \cup Kept]
NoneIsNoRecord == None \notin Kept /\ None \notin Told

Places == Writing \cup Signing \cup Asking \cup Ended

KeysType ==
    /\ file \in [Files -> {None} \cup Kept]
    /\ at \in [Callers -> Places]
    /\ who \in [Callers -> {"shell", "start"}]
    /\ made \in [Callers -> Nat \cup {None}]
    /\ result \in [Callers -> {None} \cup Told]
    /\ raced \in BOOLEAN /\ keys \in Nat /\ deaths \in Nat

\* Whoever is past the first open of an authority owns the certificate on disk; a private key on
\* disk has its certificate, written out, beside it; and who launched was told that certificate.
Authority ==
    /\ \A c \in Callers :
          at[c] \in {"ca_fill", "caKey_open", "caKey_fill"} =>
              Exists("ca") /\ file["ca"].key = made[c]
    /\ \A c \in Callers : at[c] \in {"caKey_open", "caKey_fill"} => file["ca"].whole
    /\ Exists("caKey") =>
          Exists("ca") /\ file["ca"].whole /\ file["ca"].key = file["caKey"].key
    /\ \A c \in Callers :
          at[c] = "launched" =>
              /\ Exists("ca") /\ file["ca"].whole
              /\ result[c] # None /\ result[c].ca = file["ca"]

\* Without a race one process at most writes the pair, nobody has been told of a pair by then,
\* and whoever was told of one was told of the pair on disk.
Pair ==
    ~raced =>
        /\ \A c, d \in Callers : at[c] \in Writing /\ at[d] \in Writing => c = d
        /\ \A c, d \in Callers : at[c] \in Writing => result[d] = None
        /\ \A c \in Callers :
              at[c] \in {"public_open", "public_fill"} => file["private"] = Whole(made[c])
        /\ \A c \in Callers :
              result[c] # None => Exists("public") /\ file["private"] = Whole(result[c].ssh)

\* Without a race and a death, a file that is missing or half written is somebody's work.
Quiet ==
    ~raced /\ deaths = 0 =>
        /\ \A c, d \in Callers : at[c] \in Signing /\ at[d] \in Signing => c = d
        /\ \A c \in Callers : at[c] = "ca_open" => ~Exists("ca")
        /\ \A c \in Callers : at[c] \in {"ca_open", "ca_fill", "caKey_open"} => ~Exists("caKey")
        /\ Exists("ca") # Exists("caKey") => \E c \in Callers : at[c] \in Signing
        /\ (\A c \in Callers : at[c] \notin Writing) =>
              /\ file["private"] = file["public"]
              /\ Exists("private") => file["private"].whole
        /\ \A c \in Callers : at[c] # "failed"

KeysInv == KeysType /\ Authority /\ Pair /\ Quiet

\* What is written to a file is a file.
LEMMA WholeIsKept ==
  ASSUME NoneIsNoRecord
  PROVE \A k \in Nat \cup {None} : Whole(k) \in Kept /\ Whole(k) # None
<1>1. \A k \in Nat \cup {None} : Whole(k) \in Kept
  BY Zenon DEF Whole, Kept
<1> QED BY <1>1, Zenon DEF NoneIsNoRecord

\* The files are all missing and nobody has begun (KeysInit).
LEMMA KeysStart == ASSUME NoneIsNoRecord, KeysInit PROVE KeysInv
  BY Zenon DEF NoneIsNoRecord, KeysInit, KeysInv, KeysType, Authority, Pair, Quiet, Exists, Kept, Told,
         Places, Files, Writing, Signing, Asking, Ended

\* A process looks for the key pair (load_or_generate_guest_ssh_keypair, ensure_guest_ssh_keypair).
LEMMA PairIsLookedFor ==
  ASSUME NoneIsNoRecord, KeysInv, NEW c \in Callers,
         load_or_generate_guest_ssh_keypair(c) \/ ensure_guest_ssh_keypair(c)
  PROVE KeysInv'
<1> USE DEF NoneIsNoRecord, Exists, PairThere, Goes, Makes, Others, Whole
<1>0. /\ at[c] = "pair" /\ file' = file /\ deaths' = deaths /\ who' = who
      /\ raced' = (raced \/ Others(c, Writing))
      /\ \/ /\ PairThere /\ made' = made /\ keys' = keys
            /\ \/ /\ file["private"].whole /\ file["public"] = file["private"]
                  /\ at' = [at EXCEPT ![c] = "config"]
                  /\ result' = [result EXCEPT ![c] = [ssh |-> file["private"].key, ca |-> None]]
               \/ /\ ~(file["private"].whole /\ file["public"] = file["private"])
                  /\ at' = [at EXCEPT ![c] = "failed"] /\ result' = result
               \/ at' = [at EXCEPT ![c] = "connected"] /\ result' = result
         \/ /\ ~PairThere /\ at' = [at EXCEPT ![c] = "private_open"] /\ result' = result
            /\ keys' = keys + 1 /\ made' = [made EXCEPT ![c] = keys + 1]
  BY Zenon DEF load_or_generate_guest_ssh_keypair, ensure_guest_ssh_keypair, validate_guest_ssh_keypair
<1>1. KeysType'
  BY <1>0 DEF KeysInv, KeysType, Kept, Told, Places, Writing, Asking, Ended, Files
<1>2. Authority'
  BY <1>0 DEF KeysInv, KeysType, Authority
<1>3. Pair'
  <2> SUFFICES ASSUME ~raced' PROVE Pair'
    BY Zenon DEF Pair
  <2>0. ~raced /\ Pair /\ KeysType /\ (\A d \in Callers : at[d] \notin Writing)
    BY <1>0, Zenon DEF KeysInv, Pair, Writing
  <2>1. CASE PairThere /\ result' = result
    <3>1. \A d \in Callers : at'[d] \notin Writing
      BY <1>0, <2>0, <2>1, ZenonT(60) DEF KeysType, Writing
    <3> QED BY <1>0, <2>0, <2>1, <3>1, Zenon DEF KeysType, Pair, Writing
  <2>3. CASE ~PairThere /\ result' = result /\ at' = [at EXCEPT ![c] = "private_open"]
    <3>1. \A d \in Callers : result[d] = None
      <4>1. \A d \in Callers : result[d] # None => Exists("public") /\ file["private"] = Whole(result[d].ssh)
        BY <2>0, Zenon DEF Pair
      <4>3. \A d \in Callers : result[d] # None => result[d].ssh \in Nat \cup {None}
        BY <2>0, Zenon DEF KeysType, Told
      <4> QED BY <2>3, <4>1, <4>3, WholeIsKept, Zenon
    <3>2. \A d \in Callers : at'[d] \in Writing => d = c /\ at'[d] = "private_open"
      BY <2>0, <2>3, Zenon DEF KeysType, Writing
    <3> QED BY <1>0, <2>0, <2>3, <3>1, <3>2, ZenonT(60) DEF Pair, Writing
  <2>2. CASE /\ PairThere /\ file["private"].whole /\ at' = [at EXCEPT ![c] = "config"]
             /\ result' = [result EXCEPT ![c] = [ssh |-> file["private"].key, ca |-> None]]
    <3>1. file["private"] = Whole(file["private"].key)
      BY <2>0, <2>2, Zenon DEF KeysType, Kept, Files
    <3>2. \A d \in Callers : at'[d] \notin Writing
      BY <2>0, <2>2, Zenon DEF KeysType, Writing
    <3> QED BY <1>0, <2>0, <2>2, <3>1, <3>2, ZenonT(60) DEF KeysType, Pair, Writing
  <2> QED BY <1>0, <2>1, <2>2, <2>3, Zenon
<1>4. Quiet'
  <2> SUFFICES ASSUME ~raced', deaths' = 0 PROVE Quiet'
    BY Zenon DEF Quiet
  <2>0. Quiet /\ KeysType /\ ~raced /\ deaths = 0 /\ (\A d \in Callers : at[d] \notin Writing)
    BY <1>0, Zenon DEF KeysInv, Writing
  <2>1. \A d \in Callers : at'[d] = at[d] \/ (d = c /\ at'[d] \in {"config", "connected", "private_open"})
    BY <1>0, <2>0, ZenonT(60) DEF KeysType, Quiet
  <2>2. \A d \in Callers : at'[d] \in Signing <=> at[d] \in Signing
    BY <1>0, <2>1, Zenon DEF Signing
  <2>3. file["private"] = file["public"] /\ (Exists("private") => file["private"].whole)
    BY <2>0, Zenon DEF Quiet
  <2>4. Exists("ca") # Exists("caKey") => \E d \in Callers : at[d] \in Signing
    BY <2>0, Zenon DEF Quiet
  <2> QED BY <1>0, <2>0, <2>1, <2>2, <2>3, <2>4 DEF Quiet
<1> QED BY <1>1, <1>2, <1>3, <1>4, Zenon DEF KeysInv

\* A process writes the pair (generate_ssh_keypair).
LEMMA PairIsWritten ==
  ASSUME NoneIsNoRecord, KeysInv, NEW c \in Callers, generate_ssh_keypair(c)
  PROVE KeysInv'
<1> USE DEF NoneIsNoRecord, Exists, Goes, Whole, Empty
<1>0. /\ raced' = raced /\ deaths' = deaths /\ keys' = keys /\ who' = who
      /\ at[c] \in Writing
      /\ \/ /\ at[c] \in {"private_open", "private_fill", "public_open"}
            /\ \E p \in Writing : at' = [at EXCEPT ![c] = p]
            /\ made' = made /\ result' = result
         \/ /\ at[c] = "public_fill" /\ file' = [file EXCEPT !["public"] = Whole(made[c])]
            /\ made' = [made EXCEPT ![c] = None]
            /\ \/ at' = [at EXCEPT ![c] = "connected"] /\ result' = result
               \/ /\ at' = [at EXCEPT ![c] = "config"]
                  /\ result' = [result EXCEPT ![c] = [ssh |-> made[c], ca |-> None]]
  BY Zenon DEF generate_ssh_keypair, Writing
<1>a. \E f \in {"private", "public"}, w \in BOOLEAN :
         file' = [file EXCEPT ![f] = [key |-> made[c], whole |-> w]]
  BY Zenon DEF generate_ssh_keypair
<1>b. KeysType /\ made[c] \in Nat \cup {None}
  BY Zenon DEF KeysInv, KeysType
<1>c. file'["ca"] = file["ca"] /\ file'["caKey"] = file["caKey"]
  BY <1>a, <1>b, Zenon DEF KeysType, Files
<1>d. \A d \in Callers : d # c => at'[d] = at[d] /\ made'[d] = made[d] /\ result'[d] = result[d]
  BY <1>0, <1>b, ZenonT(60) DEF KeysType
<1>e. at'[c] \in Writing \cup {"connected", "config"}
  BY <1>0, <1>b, Zenon DEF KeysType
<1>1. KeysType'
  <2>1. file' \in [Files -> {None} \cup Kept]
    BY <1>a, <1>b DEF KeysType, Kept, Files
  <2>2. made' \in [Callers -> Nat \cup {None}]
    BY <1>0, <1>b, ZenonT(60) DEF KeysType
  <2>3. result' \in [Callers -> {None} \cup Told]
    BY <1>0, <1>b DEF KeysType, Told
  <2>4. at' \in [Callers -> Places]
    BY <1>0, <1>b DEF KeysType, Places, Asking, Ended
  <2> QED BY <1>0, <1>b, <2>1, <2>2, <2>3, <2>4, Zenon DEF KeysType
<1>2. Authority'
  BY <1>0, <1>b, <1>c, <1>d, <1>e DEF KeysInv, Authority, Writing
<1>3. Pair'
  <2> SUFFICES ASSUME ~raced' PROVE Pair'
    BY Zenon DEF Pair
  <2>0. /\ \A d \in Callers : d # c => at[d] \notin Writing
        /\ \A d \in Callers : result[d] = None
        /\ at[c] \in {"public_open", "public_fill"} => file["private"] = Whole(made[c])
    BY <1>0, Zenon DEF KeysInv, Pair
  <2>1. CASE at[c] = "private_open"
    <3>1. at' = [at EXCEPT ![c] = "private_fill"] /\ result' = result
      BY <2>1, Zenon DEF generate_ssh_keypair
    <3> QED BY <1>b, <1>d, <2>0, <3>1 DEF Pair, KeysType, Writing
  <2>2. CASE at[c] = "private_fill"
    <3>1. /\ at' = [at EXCEPT ![c] = "public_open"] /\ result' = result /\ made' = made
          /\ file' = [file EXCEPT !["private"] = Whole(made[c])]
      BY <2>2, Zenon DEF generate_ssh_keypair
    <3>2. file'["private"] = Whole(made'[c])
      BY <1>b, <3>1, Zenon DEF KeysType, Files
    <3> QED BY <1>b, <1>d, <2>0, <3>1, <3>2, ZenonT(60) DEF Pair, KeysType, Writing
  <2>3. CASE at[c] = "public_open"
    <3>1. /\ at' = [at EXCEPT ![c] = "public_fill"] /\ result' = result /\ made' = made
          /\ file' = [file EXCEPT !["public"] = Empty(made[c])]
      BY <2>3, Zenon DEF generate_ssh_keypair
    <3>2. file'["private"] = Whole(made'[c])
      BY <1>b, <2>0, <2>3, <3>1, Zenon DEF KeysType, Files
    <3> QED BY <1>b, <1>d, <2>0, <3>1, <3>2, ZenonT(60) DEF Pair, KeysType, Writing
  <2>4. CASE at[c] = "public_fill"
    <3>1. /\ file' = [file EXCEPT !["public"] = Whole(made[c])]
          /\ at'[c] \notin Writing
          /\ result'[c] = None \/ result'[c] = [ssh |-> made[c], ca |-> None]
      BY <1>0, <1>b, <2>0, <2>4, ZenonT(60) DEF KeysType, Writing
    <3>2. file'["private"] = Whole(made[c]) /\ file'["public"] = Whole(made[c])
      BY <1>b, <2>0, <2>4, <3>1, Zenon DEF KeysType, Files
    <3>3. Whole(made[c]) # None
      BY <1>b, WholeIsKept, Zenon
    <3>4. \A d \in Callers : at'[d] \notin Writing
      BY <1>d, <2>0, <3>1, Zenon
    <3>5. \A d \in Callers : result'[d] # None =>
             Exists("public")' /\ file'["private"] = Whole(result'[d].ssh)
      <4> SUFFICES ASSUME NEW d \in Callers, result'[d] # None
                   PROVE Exists("public")' /\ file'["private"] = Whole(result'[d].ssh)
        BY Zenon
      <4>1. d = c /\ result'[d] = [ssh |-> made[c], ca |-> None]
        BY <1>d, <2>0, <3>1, Zenon
      <4>2. result'[d].ssh = made[c]
        BY <4>1
      <4> QED BY <3>2, <3>3, <4>2, Zenon
    <3> QED BY <3>4, <3>5, Zenon DEF Pair, Writing
  <2> QED BY <1>0, <2>1, <2>2, <2>3, <2>4, Zenon DEF Writing
<1>4. Quiet'
  <2> SUFFICES ASSUME ~raced', deaths' = 0 PROVE Quiet'
    BY Zenon DEF Quiet
  <2>0. Quiet /\ ~raced /\ deaths = 0
    BY <1>0, Zenon DEF KeysInv
  <2>1. \A d \in Callers : at'[d] \in Signing <=> at[d] \in Signing
    BY <1>0, <1>d, <1>e, Zenon DEF Signing, Writing
  <2>2. \A d \in Callers : at'[d] \in Signing => at'[d] = at[d]
    BY <1>d, <1>e, Zenon DEF Signing, Writing
  <2>3. (\A d \in Callers : at'[d] \notin Writing) =>
           file'["private"] = file'["public"] /\ file'["private"].whole
    <3>1. at'[c] \notin Writing => at[c] = "public_fill"
      BY <1>0, <1>b, Zenon DEF KeysType
    <3>2. at[c] = "public_fill" => file["private"] = Whole(made[c]) /\ file' = [file EXCEPT !["public"] = Whole(made[c])]
      BY <1>0, <2>0, Zenon DEF KeysInv, Pair
    <3>3. at[c] = "public_fill" => file'["private"] = Whole(made[c]) /\ file'["public"] = Whole(made[c])
      BY <1>b, <3>2, Zenon DEF KeysType, Files
    <3>4. Whole(made[c]).whole
      BY Zenon
    <3> QED BY <3>1, <3>3, <3>4, Zenon
  <2>4. \A d \in Callers : at'[d] # "failed"
    BY <1>d, <1>e, <2>0, ZenonT(60) DEF Quiet, Writing
  <2>5. Exists("ca")' # Exists("caKey")' => \E d \in Callers : at'[d] \in Signing
    BY <1>c, <2>0, <2>1, Zenon DEF Quiet
  <2> QED BY <1>c, <2>0, <2>1, <2>2, <2>3, <2>4, <2>5 DEF Quiet, Signing
<1> QED BY <1>1, <1>2, <1>3, <1>4, Zenon DEF KeysInv

\* A process asks for the authority (ensure_certificate_authority_in).
LEMMA AuthorityIsLookedFor ==
  ASSUME NoneIsNoRecord, KeysInv, NEW c \in Callers, ensure_certificate_authority_in(c)
  PROVE KeysInv'
<1> USE DEF NoneIsNoRecord, Exists, Goes, Makes, Others, Trusts, load_certificate_authority
<1>0. /\ at[c] \in {"driver", "config"} /\ file' = file /\ deaths' = deaths /\ who' = who
      /\ raced' = (raced \/ Others(c, Signing))
      /\ \/ /\ Exists("ca") /\ Exists("caKey") /\ made' = made /\ keys' = keys
            /\ \/ result[c] = None /\ at' = [at EXCEPT ![c] = "pair"] /\ result' = result
               \/ /\ result[c] # None /\ at' = [at EXCEPT ![c] = "launched"]
                  /\ result' = [result EXCEPT ![c].ca = file["ca"]]
         \/ /\ ~Exists("ca") /\ ~Exists("caKey") /\ result' = result
            /\ at' = [at EXCEPT ![c] = "ca_open"] /\ keys' = keys + 1
            /\ made' = [made EXCEPT ![c] = keys + 1]
         \/ /\ Exists("ca") # Exists("caKey") /\ result' = result /\ made' = made /\ keys' = keys
            /\ at' = [at EXCEPT ![c] = "failed"]
  BY Zenon DEF ensure_certificate_authority_in
<1>a. KeysType
  BY Zenon DEF KeysInv
<1>b. \A d \in Callers : d # c => at'[d] = at[d] /\ made'[d] = made[d] /\ result'[d] = result[d]
  BY <1>0, <1>a, ZenonT(60) DEF KeysType
<1>c. at'[c] \in {"pair", "launched", "ca_open", "failed"}
  BY <1>0, <1>a, Zenon DEF KeysType
<1>d. /\ result[c] = None => result'[c] = None
      /\ result[c] # None => result'[c] \in Told /\ result'[c].ssh = result[c].ssh
  BY <1>0, <1>a DEF KeysType, Told, Files
<1>e. at'[c] = "launched" => Exists("ca") /\ Exists("caKey") /\ result[c] # None /\ result'[c].ca = file["ca"]
  BY <1>0, <1>a DEF KeysType, Told
<1>1. KeysType'
  <2>1. result' \in [Callers -> {None} \cup Told]
    BY <1>0, <1>a, <1>b, <1>d, Zenon DEF KeysType
  <2>2. at' \in [Callers -> Places]
    BY <1>0, <1>a DEF KeysType, Places, Asking, Ended, Signing
  <2> QED BY <1>0, <1>a, <2>1, <2>2 DEF KeysType
<1>2. Authority'
  BY <1>0, <1>b, <1>c, <1>d, <1>e DEF KeysInv, Authority
<1>3. Pair'
  <2>1. \A d \in Callers : at'[d] \in Writing => d # c /\ at'[d] = at[d]
    BY <1>b, <1>c, Zenon DEF Writing
  <2>2. \A d \in Callers : (result'[d] = None <=> result[d] = None)
                           /\ (result[d] # None => result'[d].ssh = result[d].ssh)
    BY <1>b, <1>d, Zenon
  <2> QED BY <1>0, <1>b, <2>1, <2>2, ZenonT(60) DEF KeysInv, Pair, Writing
<1>4. Quiet'
  <2> SUFFICES ASSUME ~raced', deaths' = 0 PROVE Quiet'
    BY Zenon DEF Quiet
  <2>0. Quiet /\ ~raced /\ deaths = 0 /\ (\A d \in Callers : at[d] \notin Signing)
    BY <1>0, Zenon DEF KeysInv, Signing
  <2>1. Exists("ca") = Exists("caKey")
    BY <2>0, Zenon DEF Quiet
  <2>2. at'[c] \in {"pair", "launched", "ca_open"} /\ (at'[c] = "ca_open" => ~Exists("ca") /\ ~Exists("caKey"))
    BY <1>0, <1>a, <2>1, ZenonT(60) DEF KeysType
  <2>3. \A d \in Callers : at'[d] \in Signing => d = c /\ at'[d] = "ca_open"
    BY <1>b, <2>0, <2>2, Zenon DEF Signing
  <2>4. \A d \in Callers : at'[d] \in Writing <=> at[d] \in Writing
    BY <1>0, <1>b, <2>2, Zenon DEF Writing
  <2>5. \A d \in Callers : at'[d] # "failed"
    BY <1>b, <2>0, <2>2, ZenonT(60) DEF Quiet
  <2>6. (\A d \in Callers : at'[d] \notin Writing) =>
           file["private"] = file["public"] /\ (Exists("private") => file["private"].whole)
    BY <2>0, <2>4, Zenon DEF Quiet
  <2> QED BY <1>0, <2>1, <2>2, <2>3, <2>5, <2>6, ZenonT(60) DEF Quiet, Signing
<1> QED BY <1>1, <1>2, <1>3, <1>4, Zenon DEF KeysInv

\* A process writes the authority into new files (generate_certificate_authority).
LEMMA AuthorityIsWritten ==
  ASSUME NoneIsNoRecord, KeysInv, NEW c \in Callers, generate_certificate_authority(c)
  PROVE KeysInv'
<1> USE DEF NoneIsNoRecord, Exists, Goes, Trusts, Opens, OpensNew, Whole, Empty
<1>0. /\ raced' = raced /\ deaths' = deaths /\ keys' = keys /\ who' = who
      /\ \/ /\ at[c] = "ca_open" /\ made' = made /\ result' = result
            /\ \/ /\ file["ca"] = None /\ at' = [at EXCEPT ![c] = "ca_fill"]
                  /\ file' = [file EXCEPT !["ca"] = Empty(made[c])]
               \/ file["ca"] # None /\ at' = [at EXCEPT ![c] = "failed"] /\ file' = file
         \/ /\ at[c] = "ca_fill" /\ made' = made /\ result' = result
            /\ at' = [at EXCEPT ![c] = "caKey_open"]
            /\ file' = [file EXCEPT !["ca"] = Whole(made[c])]
         \/ /\ at[c] = "caKey_open" /\ made' = made /\ result' = result
            /\ \/ /\ file["caKey"] = None /\ at' = [at EXCEPT ![c] = "caKey_fill"]
                  /\ file' = [file EXCEPT !["caKey"] = Empty(made[c])]
               \/ file["caKey"] # None /\ at' = [at EXCEPT ![c] = "failed"] /\ file' = file
         \/ /\ at[c] = "caKey_fill" /\ made' = [made EXCEPT ![c] = None]
            /\ file' = [file EXCEPT !["caKey"] = Whole(made[c])]
            /\ \/ result[c] = None /\ at' = [at EXCEPT ![c] = "pair"] /\ result' = result
               \/ /\ result[c] # None /\ at' = [at EXCEPT ![c] = "launched"]
                  /\ result' = [result EXCEPT ![c].ca = Whole(made[c])]
  BY Zenon DEF generate_certificate_authority
<1>a. KeysType /\ made[c] \in Nat \cup {None}
  BY Zenon DEF KeysInv, KeysType
<1>b. \A d \in Callers : d # c => at'[d] = at[d] /\ made'[d] = made[d] /\ result'[d] = result[d]
  BY <1>0, <1>a, ZenonT(60) DEF KeysType
<1>c. file'["private"] = file["private"] /\ file'["public"] = file["public"]
  BY <1>0, <1>a, ZenonT(60) DEF KeysType, Files
<1>d. Empty(made[c]) \in Kept /\ Whole(made[c]) \in Kept
  BY <1>a, Zenon DEF Kept
<1>e. /\ result[c] = None => result'[c] = None
      /\ result[c] # None => result'[c] \in Told /\ result'[c].ssh = result[c].ssh
  <2>1. result'[c] = result[c] \/ (result[c] # None /\ result'[c] = [result[c] EXCEPT !.ca = Whole(made[c])])
    BY <1>0, <1>a, ZenonT(60) DEF KeysType
  <2>2. result[c] # None => result[c] \in Told
    BY <1>a, Zenon DEF KeysType
  <2> QED BY <1>d, <2>1, <2>2, Zenon DEF Told
<1>1. KeysType'
  <2>1. file' \in [Files -> {None} \cup Kept]
    <3>1. \/ file' = file
          \/ \E f \in Files, v \in Kept : file' = [file EXCEPT ![f] = v]
      BY <1>0, <1>d, ZenonT(60) DEF Files
    <3> QED BY <1>a, <3>1, Zenon DEF KeysType
  <2>2. made' \in [Callers -> Nat \cup {None}]
    BY <1>0, <1>a, Zenon DEF KeysType
  <2>3. result' \in [Callers -> {None} \cup Told]
    BY <1>0, <1>a, <1>b, <1>e, Zenon DEF KeysType
  <2>4. at' \in [Callers -> Places]
    BY <1>0, <1>a DEF KeysType, Places, Signing, Asking, Ended
  <2> QED BY <1>0, <1>a, <2>1, <2>2, <2>3, <2>4, Zenon DEF KeysType
<1>2. Authority'
  <2>0. Authority
    BY Zenon DEF KeysInv
  <2>1. CASE at[c] = "ca_open"
    <3>1. CASE file["ca"] # None
      <4>1. file' = file /\ made' = made /\ result' = result /\ at'[c] = "failed"
        BY <1>0, <1>a, <2>1, <3>1, Zenon DEF KeysType
      <4> QED BY <1>b, <2>0, <4>1 DEF Authority
    <3>2. CASE /\ file["ca"] = None /\ at' = [at EXCEPT ![c] = "ca_fill"]
               /\ file' = [file EXCEPT !["ca"] = Empty(made[c])]
      <4>1. /\ file'["ca"] = Empty(made[c]) /\ file'["ca"] # None /\ file'["ca"].key = made[c]
            /\ file'["caKey"] = file["caKey"] /\ made' = made /\ at'[c] = "ca_fill"
        BY <1>0, <1>a, <1>d, <2>1, <3>2, Zenon DEF KeysType, Files
      <4>2. /\ file["caKey"] = None
            /\ \A d \in Callers : at[d] \notin {"ca_fill", "caKey_open", "caKey_fill", "launched"}
        BY <2>0, <3>2, Zenon DEF Authority
      <4> QED BY <1>b, <4>1, <4>2 DEF Authority
    <3> QED BY <1>0, <2>1, <3>1, <3>2, Zenon
  <2>2. CASE at[c] = "ca_fill"
    <3>1. /\ file["ca"] \in Kept /\ file["ca"].key = made[c]
          /\ file'["ca"] = Whole(made[c]) /\ file'["caKey"] = file["caKey"] /\ made' = made
          /\ at'[c] = "caKey_open" /\ result' = result
      BY <1>0, <1>a, <2>0, <2>2, ZenonT(60) DEF Authority, KeysType, Files
    <3>2. file'["ca"] # None /\ file'["ca"].whole /\ file'["ca"].key = file["ca"].key
      <4>1. Whole(made[c]).whole /\ Whole(made[c]).key = made[c] /\ Whole(made[c]) # None
        BY <1>d, Zenon
      <4> QED BY <3>1, <4>1, Zenon
    <3>3. file["ca"].whole => file'["ca"] = file["ca"]
      BY <3>1, Zenon DEF Kept
    <3> QED BY <1>b, <2>0, <3>1, <3>2, <3>3 DEF Authority
  <2>3. CASE at[c] = "caKey_open"
    <3>1. CASE file["caKey"] # None
      <4>1. file' = file /\ made' = made /\ result' = result /\ at'[c] = "failed"
        BY <1>0, <1>a, <2>3, <3>1, Zenon DEF KeysType
      <4> QED BY <1>b, <2>0, <4>1 DEF Authority
    <3>2. CASE /\ file["caKey"] = None /\ at' = [at EXCEPT ![c] = "caKey_fill"]
               /\ file' = [file EXCEPT !["caKey"] = Empty(made[c])]
      <4>1. /\ file'["ca"] = file["ca"] /\ file'["caKey"].key = made[c]
            /\ made' = made /\ at'[c] = "caKey_fill" /\ result' = result
        BY <1>0, <1>a, <2>3, <3>2, Zenon DEF KeysType, Files
      <4>2. file["ca"] # None /\ file["ca"].whole /\ file["ca"].key = made[c]
        BY <2>0, <2>3, Zenon DEF Authority
      <4> QED BY <1>b, <2>0, <4>1, <4>2 DEF Authority
    <3> QED BY <1>0, <2>3, <3>1, <3>2, ZenonT(60)
  <2>4. CASE at[c] = "caKey_fill"
    <3>1. /\ file'["ca"] = file["ca"] /\ file'["caKey"].key = made[c]
          /\ at'[c] \in {"pair", "launched"}
          /\ at'[c] = "launched" => result[c] # None /\ result'[c].ca = Whole(made[c])
      <4>1. file'["ca"] = file["ca"] /\ file'["caKey"] = Whole(made[c])
        BY <1>0, <1>a, <2>4, ZenonT(60) DEF KeysType, Files
      <4>2. Whole(made[c]).key = made[c]
        BY Zenon
      <4>3. \/ at'[c] = "pair"
            \/ at'[c] = "launched" /\ result[c] # None /\ result'[c] = [result[c] EXCEPT !.ca = Whole(made[c])]
        BY <1>0, <1>a, <2>4, ZenonT(60) DEF KeysType
      <4>4. result[c] # None => [result[c] EXCEPT !.ca = Whole(made[c])].ca = Whole(made[c])
        BY <1>a DEF KeysType, Told
      <4> QED BY <4>1, <4>2, <4>3, <4>4, Zenon
    <3>2. file["ca"] \in Kept /\ file["ca"] # None /\ file["ca"].whole /\ file["ca"].key = made[c]
      BY <1>a, <2>0, <2>4, Zenon DEF Authority, KeysType, Files
    <3>3. file["ca"] = Whole(made[c])
      BY <3>2, Zenon DEF Kept
    <3>4. at'[c] = "launched" => result'[c] # None /\ result'[c].ca = file["ca"]
      BY <1>e, <3>1, <3>3, Zenon
    <3>5. \A d \in Callers : at'[d] \in {"ca_fill", "caKey_open", "caKey_fill"} => d # c
      BY <3>1, Zenon
    <3> QED BY <1>b, <2>0, <3>1, <3>2, <3>4, <3>5 DEF Authority
  <2> QED BY <1>0, <2>1, <2>2, <2>3, <2>4, Zenon
<1>3. Pair'
  <2>1. at[c] \notin Writing /\ at'[c] \notin Writing
    BY <1>0, <1>a DEF KeysType, Writing
  <2>2. \A d \in Callers : at'[d] \in Writing => d # c /\ at'[d] = at[d]
    BY <1>b, <2>1, Zenon
  <2>3. \A d \in Callers : (result'[d] = None <=> result[d] = None)
                           /\ (result[d] # None => result'[d].ssh = result[d].ssh)
    BY <1>b, <1>e, Zenon
  <2> QED BY <1>0, <1>b, <1>c, <2>2, <2>3 DEF KeysInv, Pair, Writing
<1>4. Quiet'
  <2> SUFFICES ASSUME ~raced', deaths' = 0 PROVE Quiet'
    BY Zenon DEF Quiet
  <2>0. /\ Quiet /\ ~raced /\ deaths = 0 /\ at[c] \in Signing
        /\ at[c] = "ca_open" => file["ca"] = None
        /\ at[c] \in {"ca_open", "ca_fill", "caKey_open"} => file["caKey"] = None
        /\ at[c] = "caKey_fill" => file["ca"] # None
    BY <1>0, Zenon DEF KeysInv, Quiet, Authority, Signing
  <2>1. \A d \in Callers : d # c => at'[d] \notin Signing /\ at'[d] # "failed"
    BY <1>b, <2>0, ZenonT(60) DEF Quiet
  <2>2. \/ at'[c] \in {"ca_fill", "caKey_open"} /\ file'["caKey"] = None
        \/ at'[c] = "caKey_fill"
        \/ at'[c] \in {"pair", "launched"} /\ file'["ca"] # None /\ file'["caKey"] # None
    BY <1>0, <1>a, <1>d, <2>0, ZenonT(60) DEF KeysType, Files
  <2>3. \A d \in Callers : at'[d] \in Writing <=> at[d] \in Writing
    BY <1>b, <2>0, <2>2, Zenon DEF Writing, Signing
  <2>4. (\A d \in Callers : at'[d] \notin Writing) =>
           file["private"] = file["public"] /\ (Exists("private") => file["private"].whole)
    BY <2>0, <2>3, Zenon DEF Quiet
  <2>5. \A d \in Callers : at'[d] \in Signing => d = c /\ at'[d] # "ca_open"
    BY <2>1, <2>2, Zenon
  <2>6. at'[c] \in Signing \/ (file'["ca"] # None /\ file'["caKey"] # None)
    BY <2>2, Zenon DEF Signing
  <2> QED BY <1>c, <2>1, <2>2, <2>4, <2>5, <2>6, ZenonT(60) DEF Quiet, Signing
<1> QED BY <1>1, <1>2, <1>3, <1>4, Zenon DEF KeysInv

\* A process dies, or one that ended is followed by a start.
LEMMA ProcessChanges ==
  ASSUME NoneIsNoRecord, KeysInv, NEW c \in Callers, Dies(c) \/ Again(c)
  PROVE KeysInv'
<1> USE DEF NoneIsNoRecord, Exists, Goes
<1>0. /\ file' = file /\ raced' = raced /\ keys' = keys
      /\ \/ /\ deaths' = deaths + 1 /\ who' = who /\ made' = made /\ result' = result
            /\ at' = [at EXCEPT ![c] = "dead"]
         \/ /\ deaths' = deaths /\ who' = [who EXCEPT ![c] = "start"]
            /\ made' = [made EXCEPT ![c] = None] /\ result' = [result EXCEPT ![c] = None]
            /\ at[c] \in Ended /\ at' = [at EXCEPT ![c] = "driver"]
  BY Zenon DEF Dies, Again
<1>a. KeysType
  BY Zenon DEF KeysInv
<1>b. /\ \A d \in Callers : d # c => at'[d] = at[d] /\ made'[d] = made[d] /\ result'[d] = result[d]
      /\ at'[c] \in {"dead", "driver"} /\ (result'[c] = result[c] \/ result'[c] = None)
  BY <1>0, <1>a, ZenonT(60) DEF KeysType
<1>1. KeysType'
  BY <1>0, <1>a DEF KeysType, Places, Asking, Ended
<1>2. Authority'
  BY <1>0, <1>b DEF KeysInv, Authority
<1>3. Pair'
  <2>1. \A d \in Callers : at'[d] \in Writing => d # c /\ at'[d] = at[d]
    BY <1>b, Zenon DEF Writing
  <2> QED BY <1>0, <1>b, <2>1 DEF KeysInv, Pair, Writing
<1>4. Quiet'
  <2>1. CASE deaths' = deaths + 1
    BY <1>a, <2>1 DEF KeysType, Quiet
  <2>2. CASE deaths' = deaths /\ at[c] \in Ended /\ at' = [at EXCEPT ![c] = "driver"]
    <3>1. \A d \in Callers :
             /\ at'[d] \in Writing <=> at[d] \in Writing
             /\ at'[d] \in Signing <=> at[d] \in Signing
             /\ at'[d] = at[d] \/ (d = c /\ at'[d] = "driver")
      <4>1. at'[c] = "driver" /\ at[c] \notin Writing /\ at[c] \notin Signing
        BY <1>a, <2>2, Zenon DEF KeysType, Writing, Signing, Ended
      <4>2. "driver" \notin Writing /\ "driver" \notin Signing
        BY Zenon DEF Writing, Signing
      <4>3. \A d \in Callers : d # c => at'[d] = at[d]
        BY <1>b, Zenon
      <4> QED BY <4>1, <4>2, <4>3, Zenon
    <3> QED BY <1>0, <2>2, <3>1 DEF KeysInv, Quiet, Signing
  <2> QED BY <1>0, <2>1, <2>2, Zenon
<1> QED BY <1>1, <1>2, <1>3, <1>4, Zenon DEF KeysInv

\* The invariant holds of every state that processes reach.
LEMMA KeysInvariant == ASSUME NoneIsNoRecord PROVE KeysSpec => []KeysInv
<1>1. KeysInit => KeysInv
  BY KeysStart, Zenon
<1>2. KeysInv /\ [KeysNext]_keyVars => KeysInv'
  <2> SUFFICES ASSUME KeysInv, [KeysNext]_keyVars PROVE KeysInv'
    BY Zenon
  <2>1. CASE UNCHANGED keyVars
    BY <2>1, ZenonT(60) DEF keyVars, KeysInv, KeysType, Authority, Pair, Quiet, Exists
  <2>2. CASE KeysNext
    BY <2>2, PairIsLookedFor, PairIsWritten, AuthorityIsLookedFor, AuthorityIsWritten, ProcessChanges, Zenon
       DEF KeysNext
  <2> QED BY <2>1, <2>2, Zenon
<1> QED BY <1>1, <1>2, PTL DEF KeysSpec

\* For any number of processes, however they overlap and wherever they die: the certificate and
\* the private key on disk belong to one authority, and a machine that was launched trusts it
\* (generate_certificate_authority opens new files only).
THEOREM OneAuthority == ASSUME NoneIsNoRecord PROVE KeysSpec => []AuthorityIsOne
<1>1. KeysInv => AuthorityIsOne
  BY Zenon DEF KeysInv, Authority, AuthorityIsOne, Exists
<1> QED BY <1>1, KeysInvariant, PTL

\* For any number of processes: as long as no two of them met over a pair, the private key on
\* disk opens every guest that was started (load_or_generate_guest_ssh_keypair).
THEOREM AuthorisedKey == ASSUME NoneIsNoRecord PROVE KeysSpec => []KeyIsAuthorised
<1>1. KeysInv => KeyIsAuthorised
  BY Zenon DEF KeysInv, Pair, KeyIsAuthorised
<1> QED BY <1>1, KeysInvariant, PTL

\* For any number of processes: a start fails over the keys only after a race or a death.
THEOREM NoCauselessFailure == ASSUME NoneIsNoRecord PROVE KeysSpec => []FailsOnlyAfterAccident
<1>1. KeysInv => FailsOnlyAfterAccident
  BY DEF KeysInv, KeysType, Quiet, FailsOnlyAfterAccident
<1> QED BY <1>1, KeysInvariant, PTL
=============================================================================
