------------------------- MODULE ServiceCertsProofs -------------------------
(* Proofs about ServiceCerts: for every list of services and however often *)
(* the CA is replaced and plays are interrupted, services are restarted    *)
(* onto certificates that verify, and run what is on disk or have a reason.*)
EXTENDS ServiceCerts, TLAPS

\* Every service is in the list of restarts, which lists services only.
LEMMA Lists == /\ Len(Restarts) \in Nat /\ 1 \in 1 .. Len(Restarts)
               /\ \A i \in 1 .. Len(Restarts) : Restarts[i] \in Services
               /\ \A s \in Services : \E i \in 1 .. Len(Restarts) : Restarts[i] = s
<1>1. /\ DOMAIN Restarts = 1 .. Len(Restarts) /\ Len(Restarts) \in Nat /\ Len(Restarts) # 0
  BY RestartsAssumption
<1>2. Services = {Restarts[i] : i \in DOMAIN Restarts}
  BY DEF Services, ToSet
<1>. QED
  BY <1>1, <1>2

\* What is on disk can be loaded, or is not there.
LEMMA OnDiskType == TypeOK => OnDisk \in Loaded \cup {None}
  BY DEF TypeOK, OnDisk, Loaded

-----------------------------------------------------------------------------
(* Types.                                                                  *)

\* A host without a certificate, before the first play, has the types.
LEMMA TypeInit == Init => TypeOK
<1>. SUFFICES ASSUME Init PROVE TypeOK
  OBVIOUS
<1>1. signer \in Seq(1 .. MaxCAs) /\ ca \in 1 .. MaxCAs /\ read \in 1 .. MaxCAs
  BY BoundAssumption DEF Init
<1>2. cert = None /\ chain = None /\ ipa = TRUE /\ tracked = "no"
  BY DEF Init
<1>3. runs \in [Services -> Loaded \cup {None}] /\ why \in [Services -> SUBSET Reason]
  BY DEF Init
<1>4. at \in 1 .. Len(Restarts) /\ faults \in 0 .. MaxFaults
  BY Lists, BoundAssumption DEF Init
<1>. QED
  BY <1>1, <1>2, <1>3, <1>4 DEF Init, TypeOK, Tracking, Stopped

\* A certificate that certmonger gets is a new one, signed by the CA of the time.
LEMMA SignedType ==
    ASSUME TypeOK, Signed
    PROVE  /\ signer' \in Seq(1 .. MaxCAs) /\ cert' \in 1 .. Len(signer')
           /\ tracked' = "MONITORING" /\ signer'[cert'] = ca /\ cert' # None
<1>1. /\ Len(signer) \in Nat /\ ca \in 1 .. MaxCAs /\ signer \in Seq(1 .. MaxCAs)
  BY DEF TypeOK
<1>2. /\ Append(signer, ca) \in Seq(1 .. MaxCAs) /\ Len(Append(signer, ca)) = Len(signer) + 1
      /\ Append(signer, ca)[Len(signer) + 1] = ca
  BY <1>1
<1>. QED
  BY <1>1, <1>2, RestartsAssumption DEF Signed

\* Every task, renewal, reboot and crash keeps the types.
LEMMA TypeNext == TypeOK /\ [Next]_vars => TypeOK'
<1>. SUFFICES ASSUME TypeOK, [Next]_vars PROVE TypeOK'
  OBVIOUS
<1>. USE DEF TypeOK, files, play, Working, Stopped, Tracking, Reason, Goto
<1>1. ASSUME NEW r \in Reason, Blame(r) PROVE why' \in [Services -> SUBSET Reason]
  BY <1>1 DEF Blame
<1>2. CASE Play
  BY <1>2, Lists DEF Play
<1>3. CASE ReadCA \/ DumpChain
  BY <1>3 DEF ReadCA, DumpChain
<1>4. CASE CheckTracking
  BY <1>4 DEF CheckTracking, NotFound
<1>5. CASE Request
  <2>1. why' \in [Services -> SUBSET Reason]
    BY <1>1, <1>5 DEF Request
  <2>. QED
    BY <1>5, <2>1, SignedType DEF Request
<1>6. CASE RequestFails
  <2>1. why' \in [Services -> SUBSET Reason]
    BY <1>1, <1>6 DEF RequestFails, Ends
  <2>. QED
    BY <1>6, <2>1, BoundAssumption DEF RequestFails, Ends
<1>7. CASE VerifyTask
  BY <1>7 DEF VerifyTask
<1>8. CASE VerifyFails
  <2>1. why' \in [Services -> SUBSET Reason]
    BY <1>1, <1>8 DEF VerifyFails, Ends
  <2>. QED
    BY <1>8, <2>1 DEF VerifyFails, Ends
<1>9. CASE Restart
  <2>1. runs' \in [Services -> Loaded \cup {None}]
    BY <1>9, OnDiskType DEF Restart
  <2>2. why' \in [Services -> SUBSET Reason] /\ at' \in 1 .. Len(Restarts)
    BY <1>9, Lists DEF Restart
  <2>. QED
    BY <1>9, <2>1, <2>2 DEF Restart
<1>10. CASE Crash
  <2>1. why' \in [Services -> SUBSET Reason]
    BY <1>1, <1>10 DEF Crash, Ends
  <2>. QED
    BY <1>10, <2>1, BoundAssumption DEF Crash, Ends
<1>11. CASE Reboot
  <2>1. runs' \in [Services -> Loaded \cup {None}]
    BY <1>11, OnDiskType DEF Reboot
  <2>. QED
    BY <1>11, <2>1, BoundAssumption DEF Reboot
<1>12. CASE StopIPA \/ StartIPA
  <2>1. /\ UNCHANGED <<ca, chain, cert, signer, tracked, runs, pc, at, read, chainChanged,
                       certAsked, blind, why>>
        /\ ipa' \in BOOLEAN
    BY <1>12 DEF StopIPA, StartIPA
  <2>2. faults' \in 0 .. MaxFaults
    BY <1>12, BoundAssumption DEF StopIPA, StartIPA
  <2>. QED
    BY <2>1, <2>2
<1>13. CASE Issue
  <2>1. why' \in [Services -> SUBSET Reason]
    BY <1>1, <1>13 DEF Issue
  <2>. QED
    BY <1>13, <2>1, SignedType DEF Issue
<1>14. ASSUME NEW f \in 0 .. MaxFaults, RenewAs(f) PROVE TypeOK'
  <2>1. why' \in [Services -> SUBSET Reason]
    BY <1>1, <1>14 DEF RenewAs
  <2>. QED
    BY <1>14, <2>1, SignedType DEF RenewAs
<1>15. CASE Renew \/ RenewOld
  BY <1>14, <1>15, BoundAssumption DEF Renew, RenewOld
<1>16. CASE ReplaceCA
  BY <1>16, BoundAssumption DEF ReplaceCA
<1>17. CASE UNCHANGED vars
  BY <1>17 DEF vars
<1>. QED
  BY <1>2, <1>3, <1>4, <1>5, <1>6, <1>7, <1>8, <1>9, <1>10, <1>11, <1>12, <1>13, <1>15,
     <1>16, <1>17 DEF Next, Task

\* What is on the host, in certmonger and running has its type, and certmonger
\* never monitors a certificate that was not issued.
THEOREM TypeCorrect == Spec => []TypeOK
  BY TypeInit, TypeNext, PTL DEF Spec

-----------------------------------------------------------------------------
(* What services are restarted onto, and what they run.                    *)

\* The chain is the one that the play has read, maybe of an older key; what the
\* play has asked certmonger and openssl is still so, unless the CA changed.
PlayInv ==
    /\ read <= ca
    /\ pc \in {"status", "request", "verify", "restart", "done"} => chain = read
    /\ pc \in {"verify", "restart", "done"} /\ read = ca => blind \/ tracked # "no"
    /\ pc \in {"restart", "done"} /\ read = ca => Verifies
    /\ pc \in {"read", "dump", "status", "request", "verify"} => at = 1

\* A service that does not run what is on disk has a reason, or its restart is
\* still to come.
ToCome(s) == \/ pc \in {"status", "request", "verify"} /\ chainChanged
             \/ pc = "restart" /\ \E i \in at .. Len(Restarts) : Restarts[i] = s

StaleInv == \A s \in Services : runs[s] = OnDisk \/ why[s] # {} \/ ToCome(s)

DeployInv == TypeOK /\ PlayInv /\ StaleInv

\* Before the first play the invariant holds.
LEMMA DeployInit == Init => DeployInv
  BY TypeInit DEF Init, DeployInv, PlayInv, StaleInv, OnDisk

\* What a play knows of the certificate and the chain is inductive.
LEMMA PlayNext == TypeOK /\ PlayInv /\ [Next]_vars => PlayInv'
<1>. SUFFICES ASSUME TypeOK, PlayInv, [Next]_vars PROVE PlayInv'
  OBVIOUS
<1>. USE DEF PlayInv, files, play, Goto, Working, Stopped
<1>1. ca \in Nat /\ read \in Nat /\ ca \in 1 .. MaxCAs
  BY BoundAssumption DEF TypeOK
<1>2. CASE Play \/ ReadCA \/ DumpChain
  BY <1>1, <1>2 DEF Play, ReadCA, DumpChain
<1>3. CASE CheckTracking
  BY <1>1, <1>3 DEF CheckTracking, NotFound
<1>4. CASE Request
  BY <1>1, <1>4, SignedType DEF Request
<1>5. CASE RequestFails \/ VerifyFails \/ Crash
  BY <1>1, <1>5 DEF RequestFails, VerifyFails, Crash, Ends
<1>6. CASE VerifyTask
  BY <1>1, <1>6 DEF VerifyTask, Verifies
<1>7. CASE Restart
  BY <1>1, <1>7 DEF Restart, Verifies
<1>8. CASE Reboot \/ StopIPA \/ StartIPA
  BY <1>1, <1>8 DEF Reboot, StopIPA, StartIPA, Verifies
<1>9. ASSUME Signed, UNCHANGED <<ca, chain, play>> PROVE PlayInv'
  BY <1>1, <1>9, SignedType DEF Verifies
<1>10. CASE Issue \/ Renew \/ RenewOld
  BY <1>9, <1>10 DEF Issue, Renew, RenewOld, RenewAs
<1>11. CASE ReplaceCA
  BY <1>1, <1>11 DEF ReplaceCA
<1>12. CASE UNCHANGED vars
  BY <1>1, <1>12 DEF vars, Verifies
<1>. QED
  BY <1>2, <1>3, <1>4, <1>5, <1>6, <1>7, <1>8, <1>10, <1>11, <1>12 DEF Next, Task

\* That a stale service has a reason, or a restart to come, is inductive.
LEMMA StaleNext == TypeOK /\ PlayInv /\ StaleInv /\ [Next]_vars => StaleInv'
<1>. SUFFICES ASSUME TypeOK, PlayInv, StaleInv, [Next]_vars PROVE StaleInv'
  OBVIOUS
<1>. USE DEF files, play, Goto
<1>1. ASSUME NEW r, Blame(r) PROVE StaleInv'
  BY <1>1 DEF Blame, StaleInv
<1>2. ASSUME UNCHANGED <<files, runs, why>>, \A s \in Services : ToCome(s) => ToCome(s)'
      PROVE  StaleInv'
  BY <1>2 DEF StaleInv, OnDisk
<1>3. CASE Play \/ ReadCA
  BY <1>2, <1>3 DEF Play, ReadCA, ToCome, Stopped
<1>4. CASE DumpChain
  BY <1>4 DEF DumpChain, StaleInv, ToCome, OnDisk
<1>5. CASE CheckTracking
  BY <1>2, <1>5 DEF CheckTracking, ToCome
<1>6. CASE Request
  <2>1. CASE chainChanged
    BY <1>6, <2>1 DEF Request, StaleInv, ToCome
  <2>. QED
    BY <1>1, <1>6, <2>1 DEF Request
<1>7. CASE RequestFails \/ VerifyFails \/ Crash
  BY <1>1, <1>7 DEF RequestFails, VerifyFails, Crash, Ends
<1>8. CASE VerifyTask
  <2>1. CASE chainChanged
    <3>1. pc' = "restart" /\ at' = 1 /\ UNCHANGED <<files, runs, why>>
      BY <1>8, <2>1 DEF VerifyTask, CertsChanged, PlayInv
    <3>2. \A s \in Services : ToCome(s)'
      BY <3>1, Lists DEF ToCome
    <3>. QED
      BY <1>2, <3>1, <3>2
  <2>2. CASE ~chainChanged
    BY <1>2, <1>8, <2>2 DEF VerifyTask, ToCome
  <2>. QED
    BY <2>1, <2>2
<1>9. CASE Restart
  <2>. DEFINE r == Restarts[at]
  <2>1. /\ at \in 1 .. Len(Restarts) /\ Len(Restarts) \in Nat
        /\ runs \in [Services -> Loaded \cup {None}] /\ r \in Services
    BY Lists DEF TypeOK
  <2>2. /\ runs' = [runs EXCEPT ![r] = OnDisk] /\ why' = [why EXCEPT ![r] = {}]
        /\ UNCHANGED <<chain, cert>>
    BY <1>9 DEF Restart
  <2>3. OnDisk' = OnDisk
    BY <2>2 DEF OnDisk
  <2>4. \A s \in Services \ {r} : ToCome(s) => ToCome(s)'
    BY <1>9, <2>1 DEF Restart, ToCome
  <2>. HIDE DEF r
  <2>5. runs'[r] = OnDisk' /\ \A s \in Services \ {r} : runs'[s] = runs[s] /\ why'[s] = why[s]
    BY <2>1, <2>2, <2>3 DEF TypeOK
  <2>. QED
    BY <2>3, <2>4, <2>5 DEF StaleInv
<1>10. CASE Reboot
  BY <1>10 DEF Reboot, StaleInv, OnDisk
<1>11. CASE StopIPA \/ StartIPA \/ ReplaceCA
  BY <1>2, <1>11 DEF StopIPA, StartIPA, ReplaceCA, ToCome
<1>12. CASE Issue \/ Renew \/ RenewOld
  BY <1>1, <1>12 DEF Issue, Renew, RenewOld, RenewAs
<1>13. CASE UNCHANGED vars
  BY <1>2, <1>13 DEF vars, ToCome
<1>. QED
  BY <1>3, <1>4, <1>5, <1>6, <1>7, <1>8, <1>9, <1>10, <1>11, <1>12, <1>13 DEF Next, Task

\* In every reachable state the invariant of the deployment holds.
LEMMA DeployInvariant == Spec => []DeployInv
<1>1. DeployInv /\ [Next]_vars => DeployInv'
  BY TypeNext, PlayNext, StaleNext DEF DeployInv
<1>. QED
  BY <1>1, DeployInit, PTL DEF Spec

\* A play restarts services only onto a certificate that its chain verifies and
\* that certmonger will renew, unless the CA is replaced under it or the
\* container was not there to ask.
THEOREM DeploysSound == Spec => []Sound
<1>1. DeployInv => Sound
  BY DEF DeployInv, PlayInv, Sound
<1>. QED
  BY <1>1, DeployInvariant, PTL

\* The three reasons are all the reasons why, after a play that succeeds, a
\* service may run something else than what is on disk.
THEOREM StaleExplained == Spec => []StaleHasReason
<1>1. DeployInv => StaleHasReason
  BY DEF DeployInv, StaleInv, ToCome, StaleHasReason
<1>. QED
  BY <1>1, DeployInvariant, PTL
=============================================================================
