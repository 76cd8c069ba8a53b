----------------------------- MODULE ClientCerts -----------------------------
(***************************************************************************)
(* The client certificates of the control host: the client-certs operation *)
(* of the ipa-certs role (op-client-certs.yaml) with the modules it calls, *)
(* openssl_privatekey, openssl_csr and ipa_cert, and the CAs of FreeIPA.   *)
(*                                                                         *)
(* A client is one use of the operation (docker, k8s): it has a directory  *)
(* with a key, a request (CSR), a certificate and a CA chain, and a        *)
(* principal at a CA of its own, so certificates of one client are never   *)
(* found for another.  A play is one ansible-playbook process; it may end  *)
(* between any two tasks, and is run again by the operator.                *)
(*                                                                         *)
(* One task is one action.  ipa_cert finds and then posts; nobody else     *)
(* works for the principal but late requests of earlier plays, and one     *)
(* that is executed between the find and the post either commutes with the *)
(* post or makes it fail, which Crash covers.                              *)
(***************************************************************************)
EXTENDS Naturals, Sequences, FiniteSets

CONSTANTS
    Client,      \* the uses of the operation
    Plays,       \* what the operator runs: sequences of clients, in order
    Checked,     \* the client whose files var/k8s/{cert,key}.pem are, or None
    None,
    NewestLast,  \* TRUE iff the server lists certificates oldest first
    Deletions,   \* sets of files the operator may delete together
    MaxKeys,     \* bound: keys ever made
    MaxCerts,    \* bound: certificates ever issued
    MaxFaults,   \* bound: plays that end early
    MaxDeletions, \* bound: deletions
    MaxExpiries  \* bound: expiries

Files == {"key", "csr", "cert", "chain"}

ASSUME PlaysAssumption == /\ Plays \subseteq Seq(Client)
                          /\ \A p \in Plays : p # <<>>
ASSUME CheckedAssumption == None \notin Client /\ Checked \in Client \cup {None}
ASSUME OrderAssumption == NewestLast \in BOOLEAN
ASSUME DeletionsAssumption == Deletions \subseteq SUBSET Files
ASSUME BoundAssumption == /\ MaxKeys \in Nat \ {0} /\ MaxCerts \in Nat \ {0}
                          /\ MaxFaults \in Nat /\ MaxDeletions \in Nat
                          /\ MaxExpiries \in Nat

VARIABLES
    key,      \* key[c]: the key in the client's directory, 0 if there is none
    csr,      \* csr[c]: the key that the request on file was made with, or 0
    cert,     \* cert[c]: serial number of the certificate on file, or 0
    chain,    \* chain[c]: the CA chain is on file
    cut,      \* keys and requests that were left half written
    issued,   \* the server's certificates, by serial number
    late,     \* requests whose play ended, and that may still be executed
    pc,       \* the task the play has come to
    todo,     \* the clients the play has still to serve, the current one first
    facts,    \* the registered results of the current operation
    keys,     \* the number of the last key made
    faults,   \* plays that ended early
    deletions, \* deletions so far
    expiries, \* expiries so far
    strays    \* history: requests that were executed late, with an effect

files  == <<key, csr, cert, chain, cut>>
play   == <<pc, todo, facts>>
bounds == <<keys, faults, deletions, expiries>>
vars   == <<files, issued, late, play, bounds, strays>>

Keys    == 0 .. MaxKeys
Serials == 0 .. MaxCerts
Status  == {"VALID", "REVOKED", "EXPIRED"}
Cert    == [client : Client, key : Keys, status : Status]

\* A request in flight: revoke a serial number, or sign a CSR.
Late == [op : {"revoke"}, serial : Serials]
        \cup [op : {"request"}, client : Client, key : Keys]

Working == {"check", "key", "csr", "revoke", "request", "dump", "chain", "verify"}

Facts == [missing : BOOLEAN, mismatch : BOOLEAN, unchained : BOOLEAN,
          invalid : BOOLEAN, newkey : BOOLEAN, got : Serials]

NoFacts == [missing |-> FALSE, mismatch |-> FALSE, unchained |-> FALSE,
            invalid |-> FALSE, newkey |-> FALSE, got |-> 0]

c0 == Head(todo)   \* the client being served

-----------------------------------------------------------------------------
(* The server's certificates.                                              *)

\* Mutant: certificates are looked for at every CA, not at `cacn`.
Valid_AnyCA(c) == {s \in DOMAIN issued : issued[s].status = "VALID"}

\* find_filter() lets only VALID certificates through.
Valid(c) == {s \in DOMAIN issued :
                issued[s].client = c /\ issued[s].status = "VALID"}

\* _post_json() returns the last certificate of the list that is left.
Last(s, ss) == \A t \in ss : IF NewestLast THEN t <= s ELSE s <= t

New(c, k) == [client |-> c, key |-> k, status |-> "VALID"]

Revoked(s) == [issued EXCEPT ![s].status = "REVOKED"]

-----------------------------------------------------------------------------
(* What openssl says of the files.                                         *)

\* The moduli are compared through md5: of a file that cannot be read it is
\* the digest of nothing, so two missing files match.
CertKey(c) == IF cert[c] = 0 THEN 0 ELSE issued[cert[c]].key
Match(c)   == CertKey(c) = key[c]

\* Mutant: two lines are counted, `uniq` having been dropped.
CheckedMatch_NoUniq == FALSE

CheckedMatch == Checked = None \/ Match(Checked)

\* Revocation is not seen: no CRL is consulted.
ChainVerifies(c) == chain[c] /\ cert[c] # 0 /\ issued[cert[c]].status # "EXPIRED"

-----------------------------------------------------------------------------
(* The play.                                                               *)

Init ==
    /\ key = [c \in Client |-> 0] /\ csr = key /\ cert = key
    /\ chain = [c \in Client |-> FALSE] /\ cut = {}
    \* another checkout may have left a certificate, for a key not held here
    /\ issued \in {<<>>} \cup {<<New(c, 1)>> : c \in Client}
    /\ late = {}
    /\ pc = "idle" /\ todo = <<>> /\ facts = NoFacts
    /\ keys = 1 /\ faults = 0 /\ deletions = 0 /\ expiries = 0 /\ strays = 0

\* ansible-playbook cluster.yaml, or with the tag of one client.
Play ==
    /\ pc \notin Working
    /\ todo' \in Plays /\ pc' = "check" /\ facts' = NoFacts
    /\ UNCHANGED <<files, issued, late, bounds, strays>>

\* The operation is over for a client.
Advance == /\ todo' = Tail(todo) /\ facts' = NoFacts
           /\ pc' = IF Tail(todo) = <<>> THEN "done" ELSE "check"

Goto(p) == pc' = p /\ UNCHANGED <<todo, facts>>

\* The first block: stat, compare and verify.  client_key_stat looks at the
\* certificate's path, and what is skipped counts as unchanged.
Check ==
    LET missing   == cert[c0] = 0
        mismatch  == ~missing /\ ~CheckedMatch
        unchained == ~chain[c0]
        invalid   == ~missing /\ ~unchained /\ ~ChainVerifies(c0)
    IN
    /\ pc = "check"
    /\ IF missing \/ mismatch \/ unchained \/ invalid
       THEN /\ pc' = IF missing \/ mismatch THEN "key" ELSE "chain"
            /\ facts' = [NoFacts EXCEPT !.missing = missing,
                            !.mismatch = mismatch, !.unchained = unchained,
                            !.invalid = invalid]
            /\ UNCHANGED todo
       ELSE Advance
    /\ UNCHANGED <<files, issued, late, bounds, strays>>

\* Mutant: force=yes, the key is made anew.
GenerateKey_Force ==
    /\ pc = "key" /\ keys < MaxKeys
    /\ keys' = keys + 1
    /\ key' = [key EXCEPT ![c0] = keys']
    /\ facts' = [facts EXCEPT !.newkey = TRUE]
    /\ pc' = "csr"
    /\ UNCHANGED <<csr, cert, chain, cut, issued, late, todo, faults, deletions, expiries, strays>>

\* A file of the client that is there and cannot be read.
Cut(f) == <<c0, f>> \in cut

\* openssl_privatekey: a key that exists is kept.
GenerateKey ==
    /\ pc = "key" /\ ~Cut("key")
    /\ \/ /\ key[c0] # 0
          /\ UNCHANGED <<key, keys, facts>>
       \/ /\ key[c0] = 0 /\ keys < MaxKeys
          /\ keys' = keys + 1
          /\ key' = [key EXCEPT ![c0] = keys']
          /\ facts' = [facts EXCEPT !.newkey = TRUE]
    /\ pc' = "csr"
    /\ UNCHANGED <<csr, cert, chain, cut, issued, late, todo, faults, deletions, expiries, strays>>

\* A half-written key exists: none is made, and its fingerprint is an error.
LoadFails ==
    /\ pc = "key" /\ Cut("key")
    /\ Goto("failed")
    /\ UNCHANGED <<files, issued, late, bounds, strays>>

\* openssl_csr: a request that exists is kept, whatever key it was made with,
\* and even if it is half written.
GenerateCSR ==
    /\ pc = "csr"
    /\ csr' = IF csr[c0] = 0 /\ ~Cut("csr") THEN [csr EXCEPT ![c0] = key[c0]] ELSE csr
    /\ Goto("revoke")
    /\ UNCHANGED <<key, cert, chain, cut, issued, late, bounds, strays>>

\* Both write in place: a process that ends while it writes leaves a part.
CutShort ==
    /\ faults < MaxFaults
    /\ \/ pc = "key" /\ key[c0] = 0
       \/ pc = "csr" /\ csr[c0] = 0
    /\ cut' = cut \cup {<<c0, pc>>}
    /\ faults' = faults + 1
    /\ Goto("failed")
    /\ UNCHANGED <<key, csr, cert, chain, issued, late, keys, deletions, expiries, strays>>

\* Mutant: `when: gen_client_key.changed` only.
MustRevoke_NewKey == facts.newkey

MustRevoke == facts.newkey \/ facts.mismatch

\* ipa_cert state=absent: of several certificates the last found is revoked.
Revoke ==
    /\ pc = "revoke"
    /\ IF MustRevoke /\ Valid(c0) # {}
       THEN \E s \in Valid(c0) : Last(s, Valid(c0)) /\ issued' = Revoked(s)
       ELSE UNCHANGED issued
    /\ Goto("request")
    /\ UNCHANGED <<files, late, bounds, strays>>

\* Mutant: a certificate is requested although one is found.
Found_Nothing(c) == {}

\* ipa_cert state=present asks for nothing if find() returned something.
Found(c) == Valid(c)

Request ==
    /\ pc = "request"
    /\ \/ \E s \in Found(c0) :
             /\ Last(s, Found(c0))
             /\ facts' = [facts EXCEPT !.got = s] /\ UNCHANGED issued
       \/ /\ Found(c0) = {} /\ ~Cut("csr") /\ Len(issued) < MaxCerts
          /\ issued' = Append(issued, New(c0, csr[c0]))
          /\ facts' = [facts EXCEPT !.got = Len(issued')]
    /\ pc' = "dump"
    /\ UNCHANGED <<files, late, todo, bounds, strays>>

\* The CA answers with an error, to half a request, and to any once it has
\* signed MaxCerts certificates.
Refuse ==
    /\ pc = "request" /\ Found(c0) = {}
    /\ Cut("csr") \/ Len(issued) = MaxCerts
    /\ Goto("failed")
    /\ UNCHANGED <<files, issued, late, bounds, strays>>

Dump ==
    /\ pc = "dump"
    /\ cert' = [cert EXCEPT ![c0] = facts.got]
    /\ Goto(IF facts.unchained \/ facts.invalid THEN "chain" ELSE "verify")
    /\ UNCHANGED <<key, csr, chain, cut, issued, late, bounds, strays>>

\* The third block only reads from the server (check_mode) and writes the file.
DumpChain ==
    /\ pc = "chain"
    /\ chain' = [chain EXCEPT ![c0] = TRUE]
    /\ Goto("verify")
    /\ UNCHANGED <<key, csr, cert, cut, issued, late, bounds, strays>>

\* The pair is compared only if there was a certificate at the start.
Verified == ChainVerifies(c0) /\ (facts.missing \/ CheckedMatch)

Verify ==
    /\ pc = "verify"
    /\ IF Verified THEN Advance ELSE Goto("failed")
    /\ UNCHANGED <<files, issued, late, bounds, strays>>

\* The play is interrupted, or a task fails for a reason of its own.
Crash ==
    /\ pc \in Working /\ faults < MaxFaults
    /\ faults' = faults + 1
    /\ Goto("failed")
    /\ UNCHANGED <<files, issued, late, keys, deletions, expiries, strays>>

\* A request of ipa_cert times out, and is on its way to the server or lost.
InFlight(r) ==
    \/ /\ pc = "revoke" /\ MustRevoke
       /\ \E s \in Valid(c0) : /\ Last(s, Valid(c0))
                               /\ r = [op |-> "revoke", serial |-> s]
    \/ /\ pc = "request" /\ Found(c0) = {} /\ ~Cut("csr")
       /\ r = [op |-> "request", client |-> c0, key |-> csr[c0]]

Timeout ==
    /\ faults < MaxFaults
    /\ \E r \in Late : InFlight(r) /\ late' = late \cup {r}
    /\ faults' = faults + 1
    /\ Goto("failed")
    /\ UNCHANGED <<files, issued, keys, deletions, expiries, strays>>

\* Revoking what is not valid is an error, as if the request had been dropped.
LateRevoke(r) ==
    /\ r.op = "revoke" /\ late' = late \ {r}
    /\ issued[r.serial].status = "VALID"
    /\ issued' = Revoked(r.serial)
    /\ strays' = strays + 1
    /\ UNCHANGED <<files, play, bounds>>

LateRequest(r) ==
    /\ r.op = "request" /\ late' = late \ {r}
    /\ Len(issued) < MaxCerts
    /\ issued' = Append(issued, New(r.client, r.key))
    /\ strays' = strays + 1
    /\ UNCHANGED <<files, play, bounds>>

LateDrop(r) == late' = late \ {r} /\ UNCHANGED <<files, issued, play, bounds, strays>>

LateStep == \E r \in late : LateRevoke(r) \/ LateRequest(r) \/ LateDrop(r)

\* The operator deletes files of a client while no play runs.
Delete ==
    /\ pc \notin Working /\ deletions < MaxDeletions
    /\ \E c \in Client, fs \in Deletions :
          /\ key'   = IF "key"  \in fs THEN [key EXCEPT ![c] = 0] ELSE key
          /\ csr'   = IF "csr"  \in fs THEN [csr EXCEPT ![c] = 0] ELSE csr
          /\ cert'  = IF "cert" \in fs THEN [cert EXCEPT ![c] = 0] ELSE cert
          /\ chain' = IF "chain" \in fs THEN [chain EXCEPT ![c] = FALSE] ELSE chain
          /\ cut'   = cut \ ({c} \X fs)
    /\ deletions' = deletions + 1
    /\ UNCHANGED <<issued, late, play, keys, faults, expiries, strays>>

Expire ==
    /\ expiries < MaxExpiries
    /\ \E s \in DOMAIN issued :
          /\ issued[s].status = "VALID"
          /\ issued' = [issued EXCEPT ![s].status = "EXPIRED"]
    /\ expiries' = expiries + 1
    /\ UNCHANGED <<files, late, play, keys, faults, deletions, strays>>

Task == \/ Check \/ GenerateKey \/ LoadFails \/ GenerateCSR \/ Revoke
        \/ Request \/ Refuse \/ Dump \/ DumpChain \/ Verify

Next == Play \/ Task \/ Crash \/ CutShort \/ Timeout \/ LateStep \/ Delete \/ Expire

Spec == Init /\ [][Next]_vars

\* A play that runs is one process and comes to its end; the operator plays
\* again and again; a request in flight is executed or lost.
FairSpec == Spec /\ WF_vars(Task) /\ WF_vars(Play) /\ WF_vars(LateStep)

-----------------------------------------------------------------------------
(* Properties.                                                             *)

\* Types; files name certificates that the server issued to the client.
TypeOK ==
    /\ key \in [Client -> Keys] /\ csr \in [Client -> Keys]
    /\ issued \in Seq(Cert) /\ Len(issued) <= MaxCerts
    /\ cert \in [Client -> 0 .. Len(issued)]
    /\ \A c \in Client : cert[c] # 0 => issued[cert[c]].client = c
    /\ chain \in [Client -> BOOLEAN]
    /\ cut \subseteq Client \X {"key", "csr"}
    /\ \A c \in Client : /\ <<c, "key">> \in cut => key[c] = 0
                         /\ <<c, "csr">> \in cut => csr[c] = 0
    /\ late \subseteq Late
    /\ \A r \in late : r.op = "revoke" => r.serial \in DOMAIN issued
    /\ pc \in Working \cup {"idle", "done", "failed"}
    /\ todo \in Seq(Client) /\ (pc \in Working => todo # <<>>)
    /\ facts \in Facts /\ facts.got <= Len(issued)
    /\ pc = "dump" => facts.got # 0 /\ issued[facts.got].client = Head(todo)
    /\ keys \in 1 .. MaxKeys /\ faults \in 0 .. MaxFaults
    /\ deletions \in 0 .. MaxDeletions /\ expiries \in 0 .. MaxExpiries
    /\ strays \in Nat

\* The request on file was made with the key on file: both are kept once they
\* exist, so this lasts only because neither is ever made anew alone.  It is
\* what lets a rerun repair a pair that does not match.
RequestIsOfKey == \A c \in Client : csr[c] \in {0, key[c]}

\* However often the play ends early, a client has no two certificates at once
\* that the CA calls valid, but for those whose requests were executed late.
OneValid == \A c \in Client : Cardinality(Valid(c)) <= 1 + strays

Usable(c) == /\ key[c] # 0 /\ cert[c] # 0 /\ Match(c)
             /\ issued[cert[c]].status = "VALID"

\* No task of a play takes the key, the certificate or its validity away from
\* a pair that works, whatever is in flight.
UsableKept == [][Task => \A c \in Client : Usable(c) => Usable(c)']_vars

\* Played again and again, the play arrives at a pair that matches, whatever
\* was interrupted, lost or executed late before, and at one that is valid
\* unless a late request revoked it: a revoked certificate is not noticed.
\* What no play gets over is a key or a request that is half written.
Healed ==
    <>[](\A c \in Client :
            (\A f \in Files : <<c, f>> \notin cut) =>
            /\ key[c] # 0 /\ cert[c] # 0 /\ Match(c)
            /\ issued[cert[c]].status = "REVOKED" => strays > 0)

=============================================================================
