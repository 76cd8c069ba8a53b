-------------------------- MODULE ClientCertsProofs --------------------------
(***************************************************************************)
(* Theorems about ClientCerts, for any clients, bounds and failures: its   *)
(* types, RequestIsOfKey, OneValid and UsableKept.                         *)
(***************************************************************************)
EXTENDS ClientCerts, FiniteSetTheorems, TLAPS

-----------------------------------------------------------------------------
(* Types, in the parts that actions change.                                *)

KeyType ==
    /\ key \in [Client -> Keys] /\ csr \in [Client -> Keys]
    /\ chain \in [Client -> BOOLEAN]
    /\ cut \subseteq Client \X {"key", "csr"}
    /\ \A c \in Client : /\ <<c, "key">> \in cut => key[c] = 0
                         /\ <<c, "csr">> \in cut => csr[c] = 0

CertType ==
    /\ issued \in Seq(Cert) /\ Len(issued) <= MaxCerts
    /\ cert \in [Client -> 0 .. Len(issued)]
    /\ \A c \in Client : cert[c] # 0 => issued[cert[c]].client = c

LateType ==
    /\ late \subseteq Late
    /\ \A r \in late : r.op = "revoke" => r.serial \in DOMAIN issued

PlayType ==
    /\ pc \in Working \cup {"idle", "done", "failed"}
    /\ todo \in Seq(Client) /\ (pc \in Working => todo # <<>>)
    /\ facts \in Facts /\ facts.got <= Len(issued)
    /\ pc = "dump" => facts.got # 0 /\ issued[facts.got].client = Head(todo)

CountType ==
    /\ keys \in 1 .. MaxKeys /\ faults \in 0 .. MaxFaults
    /\ deletions \in 0 .. MaxDeletions /\ expiries \in 0 .. MaxExpiries
    /\ strays \in Nat

\* The parts are the whole.
LEMMA Parts ==
    /\ TypeOK <=> KeyType /\ CertType /\ LateType /\ PlayType /\ CountType
    /\ TypeOK' <=> KeyType' /\ CertType' /\ LateType' /\ PlayType' /\ CountType'
  BY DEF TypeOK, KeyType, CertType, LateType, PlayType, CountType

\* The client that a play is serving.
LEMMA Served ==
    ASSUME PlayType, pc \in Working
    PROVE  c0 \in Client /\ todo # <<>> /\ Tail(todo) \in Seq(Client)
  BY DEF PlayType, c0

\* The server's certificates, as any step leaves them.
Kept == /\ issued' \in Seq(Cert) /\ Len(issued') \in Len(issued) .. MaxCerts
        /\ \A s \in 1 .. Len(issued) : /\ issued'[s].client = issued[s].client
                                       /\ issued'[s].key = issued[s].key
                                       /\ issued'[s].status = "VALID" =>
                                              issued[s].status = "VALID"

\* Nothing issued,
LEMMA SameKept ==
    ASSUME CertType, UNCHANGED issued
    PROVE  Kept
  BY BoundAssumption DEF CertType, Kept

\* a certificate that is no longer valid,
LEMMA StatusKept ==
    ASSUME CertType, NEW s \in DOMAIN issued, NEW st \in {"REVOKED", "EXPIRED"},
           issued' = [issued EXCEPT ![s].status = st]
    PROVE  Kept /\ Len(issued') = Len(issued) /\ issued'[s].status = st
<1>1. issued[s] \in Cert /\ s \in 1 .. Len(issued)
  BY DEF CertType
<1>2. [issued[s] EXCEPT !.status = st] \in Cert
  BY <1>1 DEF Cert, Status
<1>3. issued' = [issued EXCEPT ![s] = [issued[s] EXCEPT !.status = st]]
  OBVIOUS
<1>4. issued' \in Seq(Cert) /\ Len(issued') = Len(issued)
  BY <1>1, <1>2, <1>3 DEF CertType
<1>5. issued'[s] = [issued[s] EXCEPT !.status = st]
  BY <1>3, <1>1 DEF CertType
<1>6. \A t \in 1 .. Len(issued) : t # s => issued'[t] = issued[t]
  BY <1>3 DEF CertType
<1>7. /\ issued'[s].client = issued[s].client /\ issued'[s].key = issued[s].key
      /\ issued'[s].status = st
  BY <1>1, <1>5 DEF Cert
<1>8. \A t \in 1 .. Len(issued) : /\ issued'[t].client = issued[t].client
                                  /\ issued'[t].key = issued[t].key
                                  /\ issued'[t].status = "VALID" =>
                                         issued[t].status = "VALID"
  BY <1>6, <1>7
<1>. QED
  BY <1>4, <1>7, <1>8, BoundAssumption DEF CertType, Kept

\* or one that is new.
LEMMA AppendKept ==
    ASSUME CertType, NEW c \in Client, NEW k \in Keys,
           Len(issued) < MaxCerts, issued' = Append(issued, New(c, k))
    PROVE  /\ Kept /\ Len(issued') = Len(issued) + 1
           /\ issued'[Len(issued')] = New(c, k)
           /\ \A s \in 1 .. Len(issued) : issued'[s] = issued[s]
<1>1. New(c, k) \in Cert
  BY DEF New, Cert, Status
<1>. QED
  BY <1>1, BoundAssumption DEF CertType, Kept

\* What certificates on file, requests in flight and the play refer to stays.
LEMMA KeptType ==
    ASSUME CertType, LateType, PlayType, Kept
    PROVE  /\ cert' = cert => CertType'
           /\ late' \subseteq late => LateType'
           /\ UNCHANGED <<pc, todo, facts>> => PlayType'
<1>1. Len(issued) \in Nat /\ Len(issued') \in Nat /\ Len(issued) <= Len(issued')
  BY DEF CertType, Kept
<1>2. ASSUME cert' = cert PROVE CertType'
  BY <1>1, <1>2 DEF CertType, Kept
<1>3. ASSUME late' \subseteq late PROVE LateType'
  BY <1>1, <1>3 DEF LateType, Kept, CertType
<1>4. ASSUME UNCHANGED <<pc, todo, facts>> PROVE PlayType'
  <2>1. facts.got \in Nat
    BY DEF PlayType, Facts, Serials
  <2>2. facts.got <= Len(issued')
    BY <1>1, <2>1 DEF PlayType
  <2>3. pc = "dump" => issued'[facts.got].client = Head(todo)
    BY <1>1, <2>1 DEF PlayType, Kept
  <2>. QED
    BY <1>4, <2>2, <2>3 DEF PlayType
<1>. QED
  BY <1>2, <1>3, <1>4

\* A play that goes to another task than Dump, with any facts.
LEMMA GoesType ==
    ASSUME CertType, LateType, PlayType, Kept, pc \in Working, pc' # "dump",
           pc' \in Working \cup {"done", "failed"},
           facts' \in Facts, facts'.got \in {0, facts.got},
           \/ UNCHANGED todo
           \/ todo' = Tail(todo) /\ (pc' \in Working => Tail(todo) # <<>>)
    PROVE  PlayType'
<1>1. Len(issued) \in Nat /\ Len(issued') \in Nat /\ Len(issued) <= Len(issued')
  BY DEF CertType, Kept
<1>2. facts.got \in Nat /\ facts.got <= Len(issued)
  BY DEF PlayType, Facts, Serials
<1>3. facts'.got <= Len(issued')
  BY <1>1, <1>2
<1>4. todo' \in Seq(Client) /\ (pc' \in Working => todo' # <<>>)
  BY Served DEF PlayType
<1>. QED
  BY <1>3, <1>4 DEF PlayType

\* Nothing has been registered when a client's turn comes.
LEMMA NoFactsType == NoFacts \in Facts /\ NoFacts.got = 0
  BY BoundAssumption DEF NoFacts, Facts, Serials

\* The play is done with a client,
LEMMA AdvanceType ==
    ASSUME CertType, LateType, PlayType, Kept, pc \in Working, Advance
    PROVE  PlayType'
<1>1. facts' \in Facts /\ facts'.got = 0 /\ todo' = Tail(todo)
  BY NoFactsType DEF Advance
<1>2. pc' \in {"done", "check"} /\ (pc' \in Working => Tail(todo) # <<>>)
  BY DEF Advance, Working
<1>. QED
  BY <1>1, <1>2, GoesType DEF Working

\* or the play goes on to another task.
LEMMA GotoType ==
    ASSUME CertType, LateType, PlayType, Kept, pc \in Working,
           NEW p \in (Working \cup {"done", "failed"}) \ {"dump"}, Goto(p)
    PROVE  PlayType'
  BY GoesType DEF Goto, PlayType

-----------------------------------------------------------------------------
(* Each step keeps the types.                                              *)

\* The files of a checkout are missing, and one certificate may be at the CA.
LEMMA InitType == Init => TypeOK
<1>. SUFFICES ASSUME Init PROVE TypeOK
  OBVIOUS
<1>1. 0 \in Keys /\ 1 \in Keys /\ 1 \in 1 .. MaxKeys
  BY BoundAssumption DEF Keys
<1>2. KeyType
  BY <1>1 DEF Init, KeyType
<1>3. CertType
  <2>1. \A c \in Client : New(c, 1) \in Cert
    BY <1>1 DEF New, Cert, Status
  <2>2. issued \in Seq(Cert) /\ Len(issued) \in {0, 1}
    <3>1. CASE issued = <<>>
      BY <3>1
    <3>2. ASSUME NEW c \in Client, issued = <<New(c, 1)>>
          PROVE  issued \in Seq(Cert) /\ Len(issued) = 1
      <4>. HIDE DEF New
      <4>. QED
        BY <2>1, <3>2
    <3>. QED
      BY <3>1, <3>2 DEF Init
  <2>3. Len(issued) <= MaxCerts /\ 0 \in 0 .. Len(issued)
    BY <2>2, BoundAssumption
  <2>4. cert = [c \in Client |-> 0]
    BY DEF Init
  <2>. QED
    BY <2>2, <2>3, <2>4 DEF CertType
<1>4. LateType /\ PlayType
  <2>1. Len(issued) \in Nat
    BY <1>3 DEF CertType
  <2>. QED
    BY <2>1, NoFactsType DEF Init, LateType, PlayType, Working
<1>5. CountType
  BY <1>1, BoundAssumption DEF Init, CountType
<1>. QED
  BY <1>2, <1>3, <1>4, <1>5, Parts

\* What the checks register.
LEMMA FactsType ==
    ASSUME NEW m \in BOOLEAN, NEW n \in BOOLEAN, NEW u \in BOOLEAN, NEW i \in BOOLEAN
    PROVE  LET found == [NoFacts EXCEPT !.missing = m, !.mismatch = n,
                                        !.unchained = u, !.invalid = i]
           IN  found \in Facts /\ found.got = 0
  BY NoFactsType DEF Facts

\* Tasks that only decide where to go.
LEMMA ReadStep ==
    ASSUME TypeOK, Check \/ LoadFails \/ Refuse \/ Verify
    PROVE  TypeOK'
<1>. USE Parts
<1>1. pc \in Working /\ UNCHANGED <<files, issued, late, bounds, strays>>
  BY DEF Check, LoadFails, Refuse, Verify, Working
<1>2. Kept
  BY <1>1, SameKept
<1>3. KeyType' /\ CertType' /\ LateType' /\ CountType'
  <2>1. KeyType' /\ CountType'
    BY <1>1 DEF KeyType, CountType, files, bounds
  <2>. QED
    BY <1>1, <1>2, <2>1, KeptType DEF files
<1>4. CASE Check
  <2>1. CASE Advance
    BY <1>1, <1>2, <1>3, <2>1, AdvanceType
  <2>2. CASE ~Advance
    <3>1. /\ pc' \in {"key", "chain"} /\ UNCHANGED todo
          /\ facts' \in Facts /\ facts'.got = 0
      <4> DEFINE missing   == cert[c0] = 0
                 mismatch  == ~missing /\ ~CheckedMatch
                 unchained == ~chain[c0]
                 invalid   == ~missing /\ ~unchained /\ ~ChainVerifies(c0)
                 found     == [NoFacts EXCEPT !.missing = missing,
                                  !.mismatch = mismatch, !.unchained = unchained,
                                  !.invalid = invalid]
      <4>1. pc' \in {"key", "chain"} /\ UNCHANGED todo /\ facts' = found
        BY <1>4, <2>2 DEF Check
      <4>2. /\ missing \in BOOLEAN /\ mismatch \in BOOLEAN
            /\ unchained \in BOOLEAN /\ invalid \in BOOLEAN
        OBVIOUS
      <4>. HIDE DEF missing, mismatch, unchained, invalid
      <4>3. found \in Facts /\ found.got = 0
        BY <4>2, FactsType
      <4>. QED
        BY <4>1, <4>3
    <3>2. PlayType'
      BY <1>1, <1>2, <3>1, GoesType DEF Working
    <3>. QED
      BY <1>3, <3>2
  <2>. QED
    BY <1>1, <1>3, <2>1, <2>2
<1>5. CASE LoadFails \/ Refuse
  BY <1>1, <1>2, <1>5, GotoType, <1>3 DEF LoadFails, Refuse
<1>6. CASE Verify
  BY <1>1, <1>2, <1>6, GotoType, AdvanceType, <1>3 DEF Verify
<1>. QED
  BY <1>4, <1>5, <1>6

\* Only the served client gets a key, and only if it has none, cut short or not.
LEMMA GenerateKeyStep ==
    ASSUME TypeOK, GenerateKey
    PROVE  TypeOK'
<1>. USE Parts
<1>1. pc \in Working /\ c0 \in Client /\ <<c0, "key">> \notin cut
  BY Served DEF GenerateKey, Working, Cut
<1>2. Kept /\ UNCHANGED <<csr, chain, cut, cert, issued, late>>
  BY SameKept DEF GenerateKey
<1>3. facts' \in Facts /\ facts'.got = facts.got
  <2>1. CASE UNCHANGED facts
    BY <2>1 DEF PlayType
  <2>2. CASE facts' = [facts EXCEPT !.newkey = TRUE]
    BY <2>2 DEF PlayType, Facts
  <2>. QED
    BY <2>1, <2>2 DEF GenerateKey
<1>4. PlayType'
  BY <1>1, <1>2, <1>3, GoesType DEF GenerateKey, Working
<1>5. KeyType' /\ CountType'
  <2>1. CASE UNCHANGED <<key, keys>>
    BY <1>2, <2>1 DEF GenerateKey, KeyType, CountType
  <2>2. CASE keys < MaxKeys /\ keys' = keys + 1 /\ key' = [key EXCEPT ![c0] = keys']
    <3>1. keys' \in 1 .. MaxKeys /\ keys' \in Keys
      BY <2>2, BoundAssumption DEF CountType, Keys
    <3>2. key' \in [Client -> Keys]
      BY <2>2, <3>1 DEF KeyType
    <3>3. ASSUME NEW c \in Client, <<c, "key">> \in cut PROVE key'[c] = 0
      <4>1. c # c0
        BY <1>1, <3>3
      <4>2. key[c] = 0
        BY <3>3 DEF KeyType
      <4>. QED
        BY <4>1, <4>2, <2>2, <1>1 DEF KeyType
    <3>. QED
      BY <1>2, <3>1, <3>2, <3>3 DEF GenerateKey, KeyType, CountType
  <2>. QED
    BY <2>1, <2>2 DEF GenerateKey
<1>. QED
  BY <1>2, <1>4, <1>5, KeptType

\* A request that is made is made with the client's key.
LEMMA GenerateCSRStep ==
    ASSUME TypeOK, GenerateCSR
    PROVE  TypeOK'
<1>. USE Parts
<1>1. pc \in Working /\ c0 \in Client
  BY Served DEF GenerateCSR, Working
<1>2. Kept /\ UNCHANGED <<key, chain, cut, cert, issued, late, keys, faults, deletions, expiries, strays>>
  BY SameKept DEF GenerateCSR, bounds
<1>3. PlayType'
  BY <1>1, <1>2, GotoType DEF GenerateCSR, Working
<1>4. KeyType'
  <2>1. csr' \in [Client -> Keys]
    BY <1>1 DEF GenerateCSR, KeyType
  <2>2. ASSUME NEW c \in Client, <<c, "csr">> \in cut PROVE csr'[c] = 0
    <3>0. csr[c] = 0
      BY <2>2 DEF KeyType
    <3>1. CASE c = c0
      <4>1. Cut("csr")
        BY <2>2, <3>1 DEF Cut
      <4>. QED
        BY <3>0, <4>1 DEF GenerateCSR
    <3>2. CASE c # c0
      BY <1>1, <3>0, <3>2 DEF GenerateCSR, KeyType
    <3>. QED
      BY <3>1, <3>2
  <2>. QED
    BY <1>2, <2>1, <2>2 DEF KeyType
<1>5. CountType'
  BY <1>2 DEF CountType
<1>. QED
  BY <1>2, <1>3, <1>4, <1>5, KeptType

\* A certificate is revoked, which keeps its client and key.
LEMMA RevokeStep ==
    ASSUME TypeOK, Revoke
    PROVE  TypeOK'
<1>. USE Parts
<1>1. pc \in Working /\ UNCHANGED <<files, late, bounds, strays>>
  BY DEF Revoke, Working
<1>2. Kept
  BY SameKept, StatusKept DEF Revoke, Revoked, Valid
<1>3. PlayType'
  BY <1>1, <1>2, GotoType DEF Revoke, Working
<1>4. KeyType' /\ CountType'
  BY <1>1 DEF KeyType, CountType, files, bounds
<1>. QED
  BY <1>1, <1>2, <1>3, <1>4, KeptType DEF files

\* What is found or issued belongs to the served client.
LEMMA RequestStep ==
    ASSUME TypeOK, Request
    PROVE  TypeOK'
<1>. USE Parts
<1>1. c0 \in Client /\ UNCHANGED <<files, late, bounds, strays>>
  BY Served DEF Request, Working
<1>2. PICK s \in Nat :
        /\ Kept /\ s \in 1 .. Len(issued') /\ issued'[s].client = c0
        /\ facts' = [facts EXCEPT !.got = s]
  <2>1. ASSUME NEW s \in Found(c0), UNCHANGED issued, facts' = [facts EXCEPT !.got = s]
        PROVE  Kept /\ s \in 1 .. Len(issued') /\ issued'[s].client = c0
    BY <2>1, SameKept DEF Found, Valid, CertType
  <2>2. ASSUME Len(issued) < MaxCerts, issued' = Append(issued, New(c0, csr[c0]))
        PROVE  Kept /\ Len(issued') \in 1 .. Len(issued') /\ issued'[Len(issued')].client = c0
    <3>1. csr[c0] \in Keys /\ Len(issued) \in Nat
      BY <1>1 DEF KeyType, CertType
    <3>. QED
      BY <1>1, <2>2, <3>1, AppendKept DEF New
  <2>. QED
    BY <2>1, <2>2 DEF Request
<1>3. s \in Serials
  BY <1>2, BoundAssumption DEF Kept, Serials
<1>4. facts' \in Facts /\ facts'.got = s
  BY <1>2, <1>3 DEF PlayType, Facts
<1>5. PlayType'
  BY <1>2, <1>4 DEF PlayType, Request, Working, c0
<1>6. KeyType' /\ CountType'
  BY <1>1 DEF KeyType, CountType, files, bounds
<1>. QED
  BY <1>1, <1>2, <1>5, <1>6, KeptType DEF files

\* What is dumped was found or issued.
LEMMA DumpStep ==
    ASSUME TypeOK, Dump
    PROVE  TypeOK'
<1>. USE Parts
<1>1. pc \in Working /\ c0 \in Client /\ facts.got \in 0 .. Len(issued)
  BY Served DEF Dump, Working, PlayType, CertType, Facts, Serials
<1>2. Kept /\ UNCHANGED <<key, csr, chain, cut, issued, late, keys, faults, deletions, expiries, strays>>
  BY SameKept DEF Dump, bounds
<1>3. PlayType'
  BY <1>1, <1>2, GotoType DEF Dump, Working
<1>4. CertType'
  BY <1>1, <1>2 DEF Dump, CertType, PlayType, c0
<1>5. KeyType' /\ CountType'
  BY <1>2 DEF KeyType, CountType
<1>. QED
  BY <1>2, <1>3, <1>4, <1>5, KeptType

\* Only the chain is written.
LEMMA DumpChainStep ==
    ASSUME TypeOK, DumpChain
    PROVE  TypeOK'
<1>. USE Parts
<1>1. pc \in Working /\ c0 \in Client
  BY Served DEF DumpChain, Working
<1>2. Kept /\ UNCHANGED <<key, csr, cert, cut, issued, late, keys, faults, deletions, expiries, strays>>
  BY SameKept DEF DumpChain, bounds
<1>3. PlayType'
  BY <1>1, <1>2, GotoType DEF DumpChain, Working
<1>4. KeyType'
  BY <1>1, <1>2 DEF DumpChain, KeyType
<1>5. CountType'
  BY <1>2 DEF CountType
<1>. QED
  BY <1>2, <1>3, <1>4, <1>5, KeptType

\* A play that fails or begins.
LEMMA EndsType ==
    ASSUME CertType, LateType, PlayType, Kept, pc \in Working, Goto("failed")
    PROVE  PlayType'
  BY GotoType DEF Working

\* A new play has registered nothing.
LEMMA PlayStep ==
    ASSUME TypeOK, Play
    PROVE  TypeOK'
<1>. USE Parts
<1>1. UNCHANGED <<files, issued, late, bounds, strays>>
  BY DEF Play
<1>2. KeyType' /\ CountType'
  BY <1>1 DEF KeyType, CountType, files, bounds
<1>3. CertType' /\ LateType'
  BY <1>1, SameKept, KeptType DEF files
<1>4. PlayType'
  <2>1. Len(issued') \in Nat
    BY <1>3 DEF CertType
  <2>. QED
    BY <2>1, PlaysAssumption, NoFactsType DEF Play, PlayType, Working
<1>. QED
  BY <1>2, <1>3, <1>4

\* A fault leaves a request in flight or a half-written file at most.
LEMMA FaultStep ==
    ASSUME TypeOK, Crash \/ CutShort \/ Timeout
    PROVE  TypeOK'
<1>. USE Parts
<1>1. /\ UNCHANGED <<key, csr, cert, chain, issued, keys, deletions, expiries, strays>>
      /\ pc \in Working /\ faults < MaxFaults /\ faults' = faults + 1
  BY DEF Crash, CutShort, Timeout, InFlight, Working, files
<1>2. Kept /\ PlayType'
  BY <1>1, SameKept, EndsType DEF Crash, CutShort, Timeout
<1>3. CertType'
  BY <1>1, <1>2, KeptType
<1>4. CountType'
  BY <1>1, BoundAssumption DEF CountType
<1>5. KeyType'
  <2>1. CASE UNCHANGED cut
    BY <1>1, <2>1 DEF KeyType
  <2>2. CASE CutShort
    <3>1. /\ c0 \in Client /\ cut' = cut \cup {<<c0, pc>>} /\ pc \in {"key", "csr"}
          /\ pc = "key" => key[c0] = 0
          /\ pc = "csr" => csr[c0] = 0
      BY <1>1, <2>2, Served DEF CutShort
    <3>. QED
      BY <1>1, <3>1 DEF KeyType
  <2>. QED
    BY <2>1, <2>2 DEF Crash, Timeout, files
<1>6. LateType'
  <2>1. CASE UNCHANGED late
    BY <2>1, <1>2, KeptType
  <2>2. CASE Timeout
    <3>1. PICK r \in Late : InFlight(r) /\ late' = late \cup {r}
      BY <2>2 DEF Timeout
    <3>2. r.op = "revoke" => r.serial \in DOMAIN issued
      <4>1. CASE \E s \in Valid(c0) : r = [op |-> "revoke", serial |-> s]
        BY <4>1 DEF Valid
      <4>2. CASE r = [op |-> "request", client |-> c0, key |-> csr[c0]]
        BY <4>2
      <4>. QED
        BY <3>1, <4>1, <4>2 DEF InFlight
    <3>. QED
      BY <1>1, <3>1, <3>2 DEF LateType
  <2>. QED
    BY <2>1, <2>2 DEF Crash, CutShort
<1>. QED
  BY <1>2, <1>3, <1>4, <1>5, <1>6

\* A request in flight is about a certificate or a client that is known.
LEMMA LateStepStep ==
    ASSUME TypeOK, LateStep
    PROVE  TypeOK'
<1>. USE Parts
<1>1. PICK r \in late : LateRevoke(r) \/ LateRequest(r) \/ LateDrop(r)
  BY DEF LateStep
<1>2. late' \subseteq late /\ UNCHANGED <<files, play, bounds>>
  BY <1>1 DEF LateRevoke, LateRequest, LateDrop
<1>3. Kept
  <2>1. CASE LateRevoke(r)
    <3>1. r.serial \in DOMAIN issued
      BY <2>1 DEF LateRevoke, LateType
    <3>. QED
      BY <2>1, <3>1, StatusKept DEF LateRevoke, Revoked
  <2>2. CASE LateRequest(r)
    <3>1. r.client \in Client /\ r.key \in Keys
      BY <2>2 DEF LateRequest, LateType, Late
    <3>. QED
      BY <2>2, <3>1, AppendKept DEF LateRequest
  <2>3. CASE LateDrop(r)
    BY <2>3, SameKept DEF LateDrop
  <2>. QED
    BY <1>1, <2>1, <2>2, <2>3
<1>4. strays' \in Nat
  BY <1>1 DEF LateRevoke, LateRequest, LateDrop, CountType
<1>5. KeyType' /\ CountType'
  BY <1>2, <1>4 DEF KeyType, CountType, files, bounds
<1>. QED
  BY <1>2, <1>3, <1>5, KeptType DEF files, play

\* Deleting files leaves what is missing.
LEMMA DeleteStep ==
    ASSUME TypeOK, Delete
    PROVE  TypeOK'
<1>. USE Parts
<1>1. PICK c \in Client, fs \in Deletions :
          /\ key'   = IF "key"  \in fs THEN [key EXCEPT ![c] = 0] ELSE key
          /\ csr'   = IF "csr"  \in fs THEN [csr EXCEPT ![c] = 0] ELSE csr
          /\ cert'  = IF "cert" \in fs THEN [cert EXCEPT ![c] = 0] ELSE cert
          /\ chain' = IF "chain" \in fs THEN [chain EXCEPT ![c] = FALSE] ELSE chain
          /\ cut'   = cut \ ({c} \X fs)
  BY DEF Delete
<1>2. Kept /\ UNCHANGED <<issued, late, play, keys, faults, expiries, strays>>
  BY SameKept DEF Delete
<1>3. deletions' \in 0 .. MaxDeletions
  BY BoundAssumption DEF Delete, CountType
<1>4. CountType'
  BY <1>2, <1>3 DEF CountType
<1>5. KeyType'
  <2>1. 0 \in Keys
    BY BoundAssumption DEF Keys
  <2>2. key' \in [Client -> Keys] /\ csr' \in [Client -> Keys] /\ chain' \in [Client -> BOOLEAN]
    BY <1>1, <2>1 DEF KeyType
  <2>3. cut' \subseteq cut
    BY <1>1
  <2>4. ASSUME NEW d \in Client
        PROVE  /\ <<d, "key">> \in cut' => key'[d] = 0
               /\ <<d, "csr">> \in cut' => csr'[d] = 0
    BY <1>1, <2>3 DEF KeyType
  <2>. QED
    BY <2>2, <2>3, <2>4 DEF KeyType
<1>6. CertType'
  <2>1. 0 \in 0 .. Len(issued)
    BY DEF CertType
  <2>. QED
    BY <1>1, <1>2, <2>1 DEF CertType
<1>. QED
  BY <1>2, <1>4, <1>5, <1>6, KeptType DEF play

\* An expiry is a change of status.
LEMMA ExpireStep ==
    ASSUME TypeOK, Expire
    PROVE  TypeOK'
<1>. USE Parts
<1>1. UNCHANGED <<files, late, play, keys, faults, deletions, strays>>
  BY DEF Expire
<1>2. Kept
  BY StatusKept DEF Expire
<1>3. expiries' \in 0 .. MaxExpiries
  BY BoundAssumption DEF Expire, CountType
<1>4. KeyType' /\ CountType'
  BY <1>1, <1>3 DEF KeyType, CountType, files
<1>. QED
  BY <1>1, <1>2, <1>4, KeptType DEF files, play

\* So does every step.
LEMMA NextType == TypeOK /\ [Next]_vars => TypeOK'
<1>. SUFFICES ASSUME TypeOK, [Next]_vars PROVE TypeOK'
  OBVIOUS
<1>1. CASE UNCHANGED vars
  BY <1>1 DEF TypeOK, vars, files, play, bounds
<1>2. CASE Task
  BY <1>2, ReadStep, GenerateKeyStep, GenerateCSRStep, RevokeStep, RequestStep,
     DumpStep, DumpChainStep DEF Task
<1>. QED
  BY <1>1, <1>2, PlayStep, FaultStep, LateStepStep, DeleteStep, ExpireStep DEF Next

\* Files name certificates of their client that the server has issued, a play
\* dumps one that it has got, and nothing exceeds its bound.
THEOREM TypeCorrect == Spec => []TypeOK
  BY InitType, NextType, PTL DEF Spec

-----------------------------------------------------------------------------
(* Keys and their requests.                                                *)

\* Key and request are deleted together, as with a client's directory.
KeepsTogether == \A fs \in Deletions : "key" \in fs => "csr" \in fs

\* The request on file was made with the key on file, as long as the operator
\* does not delete a key and leave its request: GenerateKey makes no key where
\* there is one, and where there is none there is no request either.
THEOREM RequestOfKey == KeepsTogether /\ Spec => []RequestIsOfKey
<1>. SUFFICES ASSUME KeepsTogether PROVE Spec => []RequestIsOfKey
  OBVIOUS
<1>1. Init => RequestIsOfKey
  BY DEF Init, RequestIsOfKey
<1>2. TypeOK /\ RequestIsOfKey /\ [Next]_vars => RequestIsOfKey'
  <2>. SUFFICES ASSUME KeyType, PlayType, RequestIsOfKey, [Next]_vars
                PROVE  RequestIsOfKey'
    BY Parts
  <2>1. CASE GenerateKey
    BY <2>1, Served DEF GenerateKey, RequestIsOfKey, KeyType, Working
  <2>2. CASE GenerateCSR
    BY <2>2, Served DEF GenerateCSR, RequestIsOfKey, KeyType, Working
  <2>3. CASE Delete
    <3>1. PICK c \in Client, fs \in Deletions :
            /\ key' = IF "key" \in fs THEN [key EXCEPT ![c] = 0] ELSE key
            /\ csr' = IF "csr" \in fs THEN [csr EXCEPT ![c] = 0] ELSE csr
      BY <2>3 DEF Delete
    <3>2. "key" \in fs => "csr" \in fs
      BY DEF KeepsTogether
    <3>. QED
      BY <3>1, <3>2 DEF RequestIsOfKey, KeyType
  <2>4. CASE UNCHANGED <<key, csr>>
    BY <2>4 DEF RequestIsOfKey
  <2>. QED
    BY <2>1, <2>2, <2>3, <2>4
       DEF Next, Task, Play, Check, LoadFails, Revoke, Request, Refuse, Dump,
           DumpChain, Verify, Crash, CutShort, Timeout, LateStep, LateRevoke,
           LateRequest, LateDrop, Expire, vars, files
<1>. QED
  BY TypeCorrect, <1>1, <1>2, PTL DEF Spec

-----------------------------------------------------------------------------
(* Valid certificates.                                                     *)

\* What a step adds to a client's valid certificates is what it issues.
LEMMA ValidGrows ==
    ASSUME CertType, Kept, NEW c \in Client
    PROVE  /\ Valid(c)' \subseteq Valid(c) \cup (Len(issued) + 1 .. Len(issued'))
           /\ IsFiniteSet(Valid(c)) /\ IsFiniteSet(Valid(c)')
           /\ Cardinality(Valid(c)) \in Nat /\ Cardinality(Valid(c)') \in Nat
<1>1. Len(issued) \in Nat /\ Len(issued') \in Nat
  BY DEF CertType, Kept
<1>2. Valid(c) \subseteq 1 .. Len(issued) /\ Valid(c)' \subseteq 1 .. Len(issued')
  BY DEF Valid, CertType, Kept
<1>3. IsFiniteSet(1 .. Len(issued)) /\ IsFiniteSet(1 .. Len(issued'))
  BY <1>1, FS_Interval
<1>4. IsFiniteSet(Valid(c)) /\ IsFiniteSet(Valid(c)')
  BY <1>2, <1>3, FS_Subset
<1>5. Cardinality(Valid(c)) \in Nat /\ Cardinality(Valid(c)') \in Nat
  BY <1>4, FS_CardinalityType
<1>6. ASSUME NEW s \in Valid(c)', s \in 1 .. Len(issued) PROVE s \in Valid(c)
  BY <1>6, <1>1 DEF Valid, Kept, CertType
<1>7. Valid(c)' \subseteq Valid(c) \cup (Len(issued) + 1 .. Len(issued'))
  BY <1>1, <1>2, <1>6
<1>. QED
  BY <1>4, <1>5, <1>7

\* If it issues nothing, there are no more than before,
LEMMA NoneIssued ==
    ASSUME CertType, Kept, Len(issued') = Len(issued), OneValid,
           strays \in Nat, UNCHANGED strays
    PROVE  OneValid'
<1>. SUFFICES ASSUME NEW c \in Client PROVE Cardinality(Valid(c)') <= 1 + strays
  BY DEF OneValid
<1>1. Len(issued) \in Nat
  BY DEF CertType
<1>2. Valid(c)' \subseteq Valid(c)
  BY <1>1, ValidGrows
<1>3. Cardinality(Valid(c)') <= Cardinality(Valid(c))
  BY <1>2, ValidGrows, FS_Subset
<1>4. Cardinality(Valid(c)) <= 1 + strays
  BY DEF OneValid
<1>. QED
  BY <1>3, <1>4, ValidGrows

\* and one certificate is at most one more.
LEMMA OneIssued ==
    ASSUME CertType, Kept, Len(issued') = Len(issued) + 1, NEW c \in Client
    PROVE  Cardinality(Valid(c)') <= Cardinality(Valid(c)) + 1
<1>1. Len(issued) \in Nat /\ Len(issued) + 1 .. Len(issued') = {Len(issued) + 1}
  BY DEF CertType
<1>2. Valid(c)' \subseteq Valid(c) \cup {Len(issued) + 1}
  BY <1>1, ValidGrows
<1>3. /\ IsFiniteSet(Valid(c) \cup {Len(issued) + 1})
      /\ Cardinality(Valid(c) \cup {Len(issued) + 1}) \in
             {Cardinality(Valid(c)), Cardinality(Valid(c)) + 1}
  BY ValidGrows, FS_AddElement
<1>4. Cardinality(Valid(c)') <= Cardinality(Valid(c) \cup {Len(issued) + 1})
  BY <1>2, <1>3, FS_Subset
<1>. QED
  BY <1>3, <1>4, ValidGrows

\* A request that is made when none is valid leaves one; the others of the
\* server are other clients'.
LEMMA RequestOne ==
    ASSUME TypeOK, OneValid, Request
    PROVE  OneValid'
<1>. USE Parts
<1>1. c0 \in Client /\ UNCHANGED strays /\ strays \in Nat
  BY Served DEF Request, Working, CountType
<1>2. CASE UNCHANGED issued
  BY <1>1, <1>2, SameKept, NoneIssued
<1>3. CASE /\ Found(c0) = {} /\ Len(issued) < MaxCerts
           /\ issued' = Append(issued, New(c0, csr[c0]))
  <2>1. csr[c0] \in Keys
    BY <1>1 DEF KeyType
  <2>2. /\ Kept /\ Len(issued') = Len(issued) + 1
        /\ issued'[Len(issued')] = New(c0, csr[c0])
    BY <1>1, <1>3, <2>1, AppendKept
  <2>. SUFFICES ASSUME NEW c \in Client PROVE Cardinality(Valid(c)') <= 1 + strays
    BY <1>1 DEF OneValid
  <2>3. Cardinality(Valid(c)') <= Cardinality(Valid(c)) + 1
    BY <2>2, OneIssued
  <2>4. Cardinality(Valid(c)) <= 1 + strays
    BY DEF OneValid
  <2>5. CASE c = c0
    <3>1. Cardinality(Valid(c)) = 0
      BY <1>3, <2>5, FS_EmptySet DEF Found
    <3>. QED
      BY <1>1, <2>2, <2>3, <3>1, ValidGrows
  <2>6. CASE c # c0
    <3>1. Len(issued) + 1 \notin Valid(c)' /\ Len(issued) \in Nat
      BY <2>2, <2>6 DEF Valid, New, CertType
    <3>2. Valid(c)' \subseteq Valid(c)
      BY <2>2, <3>1, ValidGrows
    <3>3. Cardinality(Valid(c)') <= Cardinality(Valid(c))
      BY <2>2, <3>2, ValidGrows, FS_Subset
    <3>. QED
      BY <1>1, <2>2, <2>4, <3>3, ValidGrows
  <2>. QED
    BY <2>5, <2>6
<1>. QED
  BY <1>2, <1>3 DEF Request

\* A request that is executed late makes one more, and is counted.
LEMMA LateOne ==
    ASSUME TypeOK, OneValid, LateStep
    PROVE  OneValid'
<1>. USE Parts
<1>1. PICK r \in late : LateRevoke(r) \/ LateRequest(r) \/ LateDrop(r)
  BY DEF LateStep
<1>2. CASE LateDrop(r)
  <2>1. strays \in Nat
    BY DEF CountType
  <2>. QED
    BY <1>2, <2>1, SameKept, NoneIssued DEF LateDrop
<1>3. CASE LateRevoke(r) \/ LateRequest(r)
  <2>1. strays' = strays + 1 /\ strays \in Nat
    BY <1>3 DEF LateRevoke, LateRequest, CountType
  <2>2. Kept /\ Len(issued') \in {Len(issued), Len(issued) + 1} /\ Len(issued) \in Nat
    <3>1. CASE LateRevoke(r)
      <4>1. r.serial \in DOMAIN issued
        BY <3>1 DEF LateRevoke, LateType
      <4>2. Kept /\ Len(issued') = Len(issued)
        BY <3>1, <4>1, StatusKept DEF LateRevoke, Revoked
      <4>. QED
        BY <4>2 DEF CertType
    <3>2. CASE LateRequest(r)
      <4>1. r.client \in Client /\ r.key \in Keys
        BY <3>2 DEF LateRequest, LateType, Late
      <4>2. Kept /\ Len(issued') = Len(issued) + 1
        BY <3>2, <4>1, AppendKept DEF LateRequest
      <4>. QED
        BY <4>2 DEF CertType
    <3>. QED
      BY <1>3, <3>1, <3>2
  <2>. SUFFICES ASSUME NEW c \in Client PROVE Cardinality(Valid(c)') <= 1 + strays'
    BY DEF OneValid
  <2>3. Cardinality(Valid(c)') <= Cardinality(Valid(c)) + 1
    <3>1. CASE Len(issued') = Len(issued)
      <4>1. Valid(c)' \subseteq Valid(c)
        BY <2>2, <3>1, ValidGrows
      <4>2. Cardinality(Valid(c)') <= Cardinality(Valid(c))
        BY <2>2, <4>1, ValidGrows, FS_Subset
      <4>. QED
        BY <2>2, <4>2, ValidGrows
    <3>2. CASE Len(issued') = Len(issued) + 1
      BY <2>2, <3>2, OneIssued
    <3>. QED
      BY <2>2, <3>1, <3>2
  <2>4. Cardinality(Valid(c)) <= 1 + strays
    BY DEF OneValid
  <2>. QED
    BY <2>1, <2>2, <2>3, <2>4, ValidGrows
<1>. QED
  BY <1>1, <1>2, <1>3

\* There is at most one to begin with.
LEMMA InitOne == Init => OneValid
<1>. SUFFICES ASSUME Init, NEW c \in Client PROVE Cardinality(Valid(c)) <= 1
  BY DEF Init, OneValid
<1>1. Len(issued) \in {0, 1}
  BY DEF Init
<1>2. Valid(c) \subseteq {1}
  BY <1>1 DEF Valid
<1>3. IsFiniteSet({1}) /\ Cardinality({1}) = 1
  BY FS_Singleton
<1>. QED
  BY <1>2, <1>3, FS_Subset

\* A certificate is requested only where none is found to be valid, so that
\* however a client's plays are cut off, only a request that is executed after
\* its play has ended makes another.
THEOREM OneIsValid == Spec => []OneValid
<1>1. TypeOK /\ OneValid /\ [Next]_vars => OneValid'
  <2>. SUFFICES ASSUME TypeOK, OneValid, [Next]_vars PROVE OneValid'
    OBVIOUS
  <2>. USE Parts
  <2>0. strays \in Nat
    BY DEF CountType
  <2>1. CASE UNCHANGED <<issued, strays>>
    BY <2>0, <2>1, SameKept, NoneIssued
  <2>2. CASE Revoke
    BY <2>0, <2>2, SameKept, StatusKept, NoneIssued DEF Revoke, Revoked, Valid
  <2>3. CASE Expire
    BY <2>0, <2>3, StatusKept, NoneIssued DEF Expire
  <2>. QED
    BY <2>1, <2>2, <2>3, RequestOne, LateOne
       DEF Next, Task, Play, Check, GenerateKey, LoadFails, GenerateCSR, Refuse,
           Dump, DumpChain, Verify, Crash, CutShort, Timeout, Delete, vars
<1>. QED
  BY TypeCorrect, InitOne, <1>1, PTL DEF Spec

-----------------------------------------------------------------------------
(* Pairs that work.                                                        *)

\* The only client is the one whose pair is compared.
Alone == Client = {Checked}

\* Every key anybody has a certificate or a request for has been made.
MadeInv ==
    /\ \A c \in Client : key[c] <= keys /\ csr[c] <= keys
    /\ \A s \in DOMAIN issued : issued[s].key <= keys
    /\ \A r \in late : r.op = "request" => r.key <= keys

\* A play that is at work on a pair has found that it does not work.
Replacing == pc \in {"key", "csr", "revoke", "request", "dump"}
BrokenInv == Replacing => ~Usable(c0)

\* Certificates are of keys.
LEMMA IssuedKeys ==
    ASSUME CertType, NEW s \in DOMAIN issued
    PROVE  issued[s].key \in Nat
<1>1. issued[s] \in Cert
  BY DEF CertType
<1>. QED
  BY <1>1 DEF Cert, Keys

\* The first key is the one of another checkout.
LEMMA MadeInit == Init => MadeInv
<1>. SUFFICES ASSUME Init PROVE MadeInv
  OBVIOUS
<1>1. \A s \in DOMAIN issued : issued[s].key = 1
  BY DEF Init, New
<1>. QED
  BY <1>1 DEF Init, MadeInv

\* Certificates and requests are made of keys on file.
LEMMA MadeStep == TypeOK /\ MadeInv /\ [Next]_vars => MadeInv'
<1>. SUFFICES ASSUME TypeOK, MadeInv, [Next]_vars PROVE MadeInv'
  OBVIOUS
<1>. USE Parts
<1>. DEFINE KeysMade == \A c \in Client : key[c] <= keys /\ csr[c] <= keys
            CertsMade == \A s \in DOMAIN issued : issued[s].key <= keys
            LateMade == \A r \in late : r.op = "request" => r.key <= keys
<1>0. keys \in Nat
  BY DEF CountType
<1>1. keys' \in Nat /\ keys <= keys'
  BY <1>0, NextType DEF Next, Task, Play, Check, GenerateKey, LoadFails, GenerateCSR,
     Revoke, Request, Refuse, Dump, DumpChain, Verify, Crash, CutShort, Timeout,
     LateStep, LateRevoke, LateRequest, LateDrop, Delete, Expire, bounds, vars
<1>2. KeysMade'
  <2>1. CASE UNCHANGED <<key, csr>>
    BY <1>0, <1>1, <2>1 DEF MadeInv, KeyType, Keys
  <2>2. CASE GenerateKey
    <3>1. c0 \in Client
      BY <2>2, Served DEF GenerateKey, Working
    <3>. QED
      BY <1>0, <1>1, <2>2, <3>1 DEF GenerateKey, MadeInv, KeyType, Keys
  <2>3. CASE GenerateCSR
    <3>1. c0 \in Client /\ UNCHANGED <<key, keys>>
      BY <2>3, Served DEF GenerateCSR, Working, bounds
    <3>. QED
      BY <2>3, <3>1 DEF GenerateCSR, MadeInv, KeyType
  <2>4. CASE Delete
    <3>1. PICK c \in Client, fs \in Deletions :
            /\ key' = IF "key" \in fs THEN [key EXCEPT ![c] = 0] ELSE key
            /\ csr' = IF "csr" \in fs THEN [csr EXCEPT ![c] = 0] ELSE csr
      BY <2>4 DEF Delete
    <3>2. UNCHANGED keys
      BY <2>4 DEF Delete
    <3>. QED
      BY <1>0, <3>1, <3>2 DEF MadeInv, KeyType
  <2>. QED
    BY <2>1, <2>2, <2>3, <2>4
       DEF Next, Task, Play, Check, LoadFails, Revoke, Request, Refuse, Dump,
           DumpChain, Verify, Crash, CutShort, Timeout, LateStep, LateRevoke,
           LateRequest, LateDrop, Expire, vars, files
<1>3. ASSUME Kept, Len(issued') = Len(issued) PROVE CertsMade'
  <2>1. DOMAIN issued' = 1 .. Len(issued') /\ DOMAIN issued = 1 .. Len(issued)
    BY <1>3 DEF Kept, CertType
  <2>2. \A s \in DOMAIN issued : issued[s].key \in Nat
    BY IssuedKeys
  <2>. QED
    BY <1>0, <1>1, <1>3, <2>1, <2>2 DEF Kept, MadeInv
<1>4. ASSUME NEW c \in Client, NEW k \in Keys, k <= keys, Len(issued) < MaxCerts,
             issued' = Append(issued, New(c, k))
      PROVE  CertsMade'
  <2>1. issued'[Len(issued')].key = k /\ Len(issued') = Len(issued) + 1
    BY <1>4, AppendKept DEF New
  <2>2. \A s \in 1 .. Len(issued) : issued'[s] = issued[s]
    BY <1>4, AppendKept
  <2>3. DOMAIN issued' = 1 .. Len(issued') /\ DOMAIN issued = 1 .. Len(issued)
        /\ Len(issued) \in Nat
    BY <1>4, AppendKept DEF Kept, CertType
  <2>4. \A s \in DOMAIN issued : issued[s].key \in Nat
    BY IssuedKeys
  <2>. QED
    BY <1>0, <1>1, <1>4, <2>1, <2>2, <2>3, <2>4 DEF MadeInv, Keys
<1>5. CertsMade'
  <2>1. CASE UNCHANGED issued
    BY <2>1, <1>3, SameKept
  <2>2. CASE Revoke
    BY <2>2, <1>3, SameKept, StatusKept DEF Revoke, Revoked, Valid
  <2>3. CASE Expire
    BY <2>3, <1>3, StatusKept DEF Expire
  <2>4. CASE Request
    <3>1. c0 \in Client
      BY <2>4, Served DEF Request, Working
    <3>2. csr[c0] \in Keys /\ csr[c0] <= keys
      BY <3>1 DEF KeyType, MadeInv
    <3>. QED
      BY <2>1, <2>4, <3>1, <3>2, <1>4 DEF Request
  <2>5. CASE LateStep
    <3>1. PICK r \in late : LateRevoke(r) \/ LateRequest(r) \/ LateDrop(r)
      BY <2>5 DEF LateStep
    <3>2. CASE LateRevoke(r)
      <4>1. r.serial \in DOMAIN issued
        BY <3>2 DEF LateRevoke, LateType
      <4>. QED
        BY <3>2, <4>1, <1>3, StatusKept DEF LateRevoke, Revoked
    <3>3. CASE LateRequest(r)
      <4>1. r.client \in Client /\ r.key \in Keys
        BY <3>3 DEF LateRequest, LateType, Late
      <4>2. r.key <= keys
        BY <3>3 DEF LateRequest, MadeInv
      <4>. QED
        BY <3>3, <4>1, <4>2, <1>4 DEF LateRequest
    <3>. QED
      BY <2>1, <3>1, <3>2, <3>3 DEF LateDrop
  <2>. QED
    BY <2>1, <2>2, <2>3, <2>4, <2>5
       DEF Next, Task, Play, Check, GenerateKey, LoadFails, GenerateCSR, Refuse,
           Dump, DumpChain, Verify, Crash, CutShort, Timeout, Delete, vars
<1>6. LateMade'
  <2>1. CASE late' \subseteq late
    <3>1. \A r \in late : r.op = "request" => r.key \in Nat
      BY DEF LateType, Late, Keys
    <3>. QED
      BY <1>0, <1>1, <2>1, <3>1 DEF MadeInv
  <2>2. CASE Timeout
    <3>1. PICK r \in Late : InFlight(r) /\ late' = late \cup {r}
      BY <2>2 DEF Timeout
    <3>2. UNCHANGED keys
      BY <2>2 DEF Timeout
    <3>3. r.op = "request" => r.key <= keys
      <4>1. CASE \E s \in Valid(c0) : r = [op |-> "revoke", serial |-> s]
        BY <4>1
      <4>2. CASE pc = "request" /\ r = [op |-> "request", client |-> c0, key |-> csr[c0]]
        <5>1. c0 \in Client
          BY <4>2, Served DEF Working
        <5>. QED
          BY <4>2, <5>1 DEF MadeInv
      <4>. QED
        BY <3>1, <4>1, <4>2 DEF InFlight
    <3>. QED
      BY <3>1, <3>2, <3>3 DEF MadeInv
  <2>. QED
    BY <2>1, <2>2
       DEF Next, Task, Play, Check, GenerateKey, LoadFails, GenerateCSR, Revoke, Request,
           Refuse, Dump, DumpChain, Verify, Crash, CutShort, LateStep, LateRevoke,
           LateRequest, LateDrop, Delete, Expire, vars
<1>. QED
  BY <1>2, <1>5, <1>6 DEF MadeInv

\* A pair does not begin to work by what becomes of certificates.
LEMMA StaysBroken ==
    ASSUME CertType, KeyType, Kept, NEW c \in Client, ~Usable(c),
           UNCHANGED <<key, cert>>
    PROVE  ~Usable(c)'
<1>1. CASE cert[c] = 0
  BY <1>1 DEF Usable
<1>2. CASE cert[c] # 0
  <2>1. cert[c] \in 1 .. Len(issued)
    BY <1>2 DEF CertType
  <2>. QED
    BY <1>2, <2>1 DEF Usable, Match, CertKey, Kept
<1>. QED
  BY <1>1, <1>2

\* Nor by a new key, for which nobody has a certificate.
LEMMA NewKeyBroken ==
    ASSUME TypeOK, MadeInv, BrokenInv, GenerateKey
    PROVE  ~Usable(c0)'
<1>. USE Parts
<1>1. c0 \in Client /\ ~Usable(c0) /\ c0' = c0
  BY Served DEF GenerateKey, Working, BrokenInv, Replacing, c0
<1>2. Kept /\ UNCHANGED <<cert, issued>>
  BY SameKept DEF GenerateKey
<1>3. CASE UNCHANGED key
  BY <1>1, <1>2, <1>3, StaysBroken DEF Usable, Match, CertKey
<1>4. CASE keys' = keys + 1 /\ key' = [key EXCEPT ![c0] = keys']
  <2>1. CASE cert[c0] = 0
    BY <1>1, <1>2, <2>1 DEF Usable
  <2>2. CASE cert[c0] # 0
    <3>1. cert[c0] \in DOMAIN issued /\ keys \in Nat
      BY <1>1, <2>2 DEF CertType, CountType
    <3>2. issued[cert[c0]].key # keys + 1
      BY <3>1, IssuedKeys DEF MadeInv
    <3>3. key'[c0] = keys + 1
      BY <1>1, <1>4 DEF KeyType
    <3>. QED
      BY <1>1, <1>2, <2>2, <3>2, <3>3 DEF Usable, Match, CertKey
  <2>. QED
    BY <2>1, <2>2
<1>. QED
  BY <1>3, <1>4 DEF GenerateKey

\* While a play works on a pair, the pair does not begin to work.
LEMMA BrokenStep == Alone /\ TypeOK /\ MadeInv /\ BrokenInv /\ [Next]_vars => BrokenInv'
<1>. SUFFICES ASSUME Alone, TypeOK, MadeInv, BrokenInv, [Next]_vars, Replacing'
              PROVE  ~Usable(c0)'
  BY DEF BrokenInv
<1>. USE Parts
<1>1. CASE Check
  <2>1. c0 \in Client /\ pc' = "key" /\ UNCHANGED <<files, issued, todo>>
    BY <1>1, Served DEF Check, Working, Replacing, Advance
  <2>2. cert[c0] = 0 \/ ~CheckedMatch
    BY <1>1, <2>1 DEF Check, Advance
  <2>3. ~Usable(c0)
    BY <2>1, <2>2, CheckedAssumption DEF Alone, CheckedMatch, Usable
  <2>. QED
    BY <2>1, <2>3 DEF Usable, Match, CertKey, files, c0
<1>2. CASE GenerateKey
  BY <1>2, NewKeyBroken
<1>3. ASSUME Kept, pc \in Working, Replacing, UNCHANGED <<key, cert, todo>>
      PROVE  ~Usable(c0)'
  <2>1. c0 \in Client /\ ~Usable(c0) /\ c0' = c0
    BY <1>3, Served DEF BrokenInv, c0
  <2>. QED
    BY <1>3, <2>1, StaysBroken DEF Usable, Match, CertKey
<1>4. CASE GenerateCSR
  BY <1>4, <1>3, SameKept DEF GenerateCSR, Goto, Working, Replacing
<1>5. CASE Revoke
  <2>1. Kept
    BY <1>5, SameKept, StatusKept DEF Revoke, Revoked, Valid
  <2>. QED
    BY <1>5, <2>1, <1>3 DEF Revoke, Goto, Working, Replacing, files
<1>6. CASE Request
  <2>1. c0 \in Client
    BY <1>6, Served DEF Request, Working
  <2>2. Kept
    <3>1. csr[c0] \in Keys
      BY <2>1 DEF KeyType
    <3>. QED
      BY <1>6, <2>1, <3>1, SameKept, AppendKept DEF Request
  <2>. QED
    BY <1>6, <2>2, <1>3 DEF Request, Working, Replacing, files
<1>7. CASE UNCHANGED vars
  BY <1>7, <1>3, SameKept DEF vars, files, play, Replacing, Working
<1>8. CASE LateStep
  <2>1. UNCHANGED <<files, play>>
    BY <1>8 DEF LateStep, LateRevoke, LateRequest, LateDrop
  <2>2. Kept
    <3>1. PICK r \in late : LateRevoke(r) \/ LateRequest(r) \/ LateDrop(r)
      BY <1>8 DEF LateStep
    <3>2. /\ LateRevoke(r) => r.serial \in DOMAIN issued
          /\ LateRequest(r) => r.client \in Client /\ r.key \in Keys
      BY DEF LateRevoke, LateRequest, LateType, Late
    <3>. QED
      BY <3>1, <3>2, SameKept, StatusKept, AppendKept
         DEF LateRevoke, LateRequest, LateDrop, Revoked
  <2>. QED
    BY <2>1, <2>2, <1>3 DEF files, play, Replacing, Working
<1>9. CASE Expire
  <2>1. Kept
    BY <1>9, StatusKept DEF Expire
  <2>. QED
    BY <1>9, <2>1, <1>3 DEF Expire, files, play, Replacing, Working
<1>10. CASE Play \/ LoadFails \/ Refuse \/ Dump \/ DumpChain \/ Verify \/ Crash
            \/ CutShort \/ Timeout \/ Delete
  <2>1. ~Replacing'
    BY <1>10 DEF Play, LoadFails, Refuse, Dump, DumpChain, Verify, Crash, CutShort,
       Timeout, Delete, Goto, Advance, Replacing, Working, play
  <2>. QED
    BY <2>1
<1>. QED
  BY <1>1, <1>2, <1>4, <1>5, <1>6, <1>7, <1>8, <1>9, <1>10 DEF Next, Task

\* A play that has the right pair compared leaves one that works alone: it makes
\* a key, revokes and dumps only where it has found none, or one that does not
\* match, and nothing that happens meanwhile makes such a pair work.
THEOREM UsableStays == Alone /\ Spec => UsableKept
<1>. SUFFICES ASSUME Alone PROVE Spec => UsableKept
  OBVIOUS
<1>1. Init => MadeInv /\ BrokenInv
  BY MadeInit DEF Init, BrokenInv, Replacing
<1>2. TypeOK /\ MadeInv /\ BrokenInv /\ [Next]_vars => (MadeInv /\ BrokenInv)'
  BY MadeStep, BrokenStep
<1>3. TypeOK /\ BrokenInv =>
        [Task => \A c \in Client : Usable(c) => Usable(c)']_vars
  <2>. SUFFICES ASSUME TypeOK, BrokenInv, Task, NEW c \in Client, Usable(c)
                PROVE  Usable(c)'
    OBVIOUS
  <2>. USE Parts
  <2>1. pc \in Working
    BY DEF Task, Check, GenerateKey, LoadFails, GenerateCSR, Revoke, Request, Refuse,
       Dump, DumpChain, Verify, Working
  <2>2. c = c0
    BY <2>1, Served DEF Alone
  <2>3. ~Replacing
    BY <2>2 DEF BrokenInv
  <2>4. UNCHANGED <<key, cert, issued>>
    BY <2>3 DEF Task, Check, GenerateKey, LoadFails, GenerateCSR, Revoke, Request,
       Refuse, Dump, DumpChain, Verify, Replacing, files
  <2>. QED
    BY <2>4 DEF Usable, Match, CertKey
<1>4. Spec => [](TypeOK /\ MadeInv /\ BrokenInv)
  BY TypeCorrect, <1>1, <1>2, PTL DEF Spec
<1>. QED
  BY <1>3, <1>4, PTL DEF UsableKept
=============================================================================
