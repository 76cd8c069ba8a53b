---------------------------- MODULE ServiceCerts ----------------------------
(***************************************************************************)
(* Service certificates on a host, as roles/ipa-certs op-service-certs     *)
(* deploys them.                                                           *)
(*                                                                         *)
(* The play writes the chain of the sub-CA to the host and has certmonger  *)
(* track a certificate.  certmonger runs in the ipa container of the host, *)
(* gets the certificate and renews it on its own.  Services load chain and *)
(* certificate when they start.  The play restarts them, one by one, if it *)
(* changed the chain.  Restarting docker ends the ipa container.           *)
(***************************************************************************)
EXTENDS Integers, Sequences, SequencesExt

CONSTANTS
    Restarts,   \* args.restart_services, a sequence
    Engine,     \* the service that containers run under (docker.service)
    None,
    MaxCAs,     \* bound: keys that the sub-CA ever has
    MaxFaults   \* bound: interruptions, reboots, failing requests, renewals

Services == ToSet(Restarts)

ASSUME RestartsAssumption == /\ Restarts \in Seq(Services) /\ Restarts # <<>>
                             /\ None \notin Nat
ASSUME BoundAssumption == MaxCAs \in Nat \ {0} /\ MaxFaults \in Nat

VARIABLES
    ca,       \* the key of the sub-CA
    chain,    \* cacert_path: the key it is about, or None
    cert,     \* cert_path: a number, or None
    signer,   \* by number, the key a certificate is signed with
    tracked,  \* what certmonger has for cert_path
    ipa,      \* the ipa container runs
    runs,     \* what each service has loaded
    pc, at,   \* the task the play has come to, the service of its loop
    read,     \* registered: ca_cert
    chainChanged, certAsked, \* registered: cacert_path_create.changed, cert_tracking.changed
    blind,    \* history: the play asked for the status of a container that is not there
    why,      \* history: why a service may run something else than is on disk
    faults

files == <<chain, cert>>
play  == <<pc, at, read, chainChanged, certAsked, blind>>
vars  == <<ca, files, signer, tracked, ipa, runs, play, why, faults>>

Tracking == {"no", "waiting", "MONITORING"}
Reason   == {"ended", "renewed", "asked"}
Working  == {"read", "dump", "status", "request", "verify", "restart"}
Stopped  == {"idle", "done", "failed"}

Loaded == [chain : 1 .. MaxCAs, cert : Nat]

\* What a service loads that starts now.
OnDisk == IF chain = None \/ cert = None THEN None ELSE [chain |-> chain, cert |-> cert]

Verifies == cert # None /\ chain = signer[cert]

\* Services that do not run what is on disk now have a reason r.
Blame(r) ==
    why' = [s \in Services |-> IF runs[s]' # OnDisk' THEN why[s] \cup {r} ELSE why[s]]

Goto(p) == pc' = p

-----------------------------------------------------------------------------

Init ==
    /\ ca = 1 /\ chain = None /\ cert = None /\ signer = <<>> /\ tracked = "no" /\ ipa = TRUE
    /\ runs = [s \in Services |-> None] /\ why = [s \in Services |-> {}]
    /\ pc = "idle" /\ at = 1 /\ read = 1
    /\ chainChanged = FALSE /\ certAsked = FALSE /\ blind = FALSE /\ faults = 0

Play ==
    /\ pc \in Stopped
    /\ Goto("read") /\ at' = 1 /\ blind' = FALSE
    /\ chainChanged' = FALSE /\ certAsked' = FALSE
    /\ UNCHANGED <<ca, files, signer, tracked, ipa, runs, read, why, faults>>

ReadCA ==
    /\ pc = "read"
    /\ read' = ca
    /\ Goto("dump")
    /\ UNCHANGED <<ca, files, signer, tracked, ipa, runs, at, chainChanged, certAsked, blind,
                   why, faults>>

\* Mutant: a chain that is there is left alone.
DumpChain_NoForce ==
    /\ pc = "dump"
    /\ chain' = (IF chain = None THEN read ELSE chain) /\ chainChanged' = (chain = None)
    /\ Goto("status")
    /\ UNCHANGED <<ca, cert, signer, tracked, ipa, runs, at, read, certAsked, blind, why, faults>>

DumpChain ==
    /\ pc = "dump"
    /\ chain' = read /\ chainChanged' = (chain # read)
    /\ Goto("status")
    /\ UNCHANGED <<ca, cert, signer, tracked, ipa, runs, at, read, certAsked, blind, why, faults>>

\* "No request found": of a container that does not run the answer is another.
NotFound == ipa /\ tracked = "no"

CheckTracking ==
    /\ pc = "status"
    /\ certAsked' = NotFound /\ blind' = ~ipa
    /\ Goto(IF NotFound THEN "request" ELSE "verify")
    /\ UNCHANGED <<ca, files, signer, tracked, ipa, runs, at, read, chainChanged, why, faults>>

\* The CA signs what certmonger asks for.
Signed ==
    /\ signer' = Append(signer, ca) /\ cert' = Len(signer) + 1 /\ tracked' = "MONITORING"

Request ==
    /\ pc = "request" /\ ipa
    /\ Signed
    /\ Goto("verify")
    /\ UNCHANGED <<ca, chain, ipa, runs, at, read, chainChanged, certAsked, blind, faults>>
    /\ IF chainChanged THEN UNCHANGED why ELSE Blame("asked")

Ends == Goto("failed") /\ Blame("ended") /\ UNCHANGED <<at, read, chainChanged, certAsked, blind>>

\* Mutant: a request that the CA has not answered is taken for a certificate.
RequestFails_Taken ==
    /\ pc = "request" /\ ipa /\ faults < MaxFaults
    /\ tracked' = "MONITORING" /\ faults' = faults + 1
    /\ UNCHANGED <<ca, files, signer, ipa, runs>>
    /\ Ends

\* certmonger keeps a request that the CA has not answered; the double-check
\* of its status fails.
RequestFails ==
    /\ pc = "request" /\ (ipa => faults < MaxFaults)
    /\ tracked' = IF ipa THEN "waiting" ELSE tracked
    /\ faults' = IF ipa THEN faults + 1 ELSE faults
    /\ UNCHANGED <<ca, files, signer, ipa, runs>>
    /\ Ends

\* Mutant: services restart if a certificate was asked for.
CertsChanged_Tracking == certAsked

\* Mutant: services restart in every play.
CertsChanged_Always == TRUE

\* The fact certmonger_certs_changed: the double-check registers cert_tracking
\* anew, never as changed.
CertsChanged == chainChanged

\* Mutant: any certificate will do.
VerifyTask_Any ==
    /\ pc = "verify" /\ ipa /\ cert # None
    /\ Goto(IF CertsChanged THEN "restart" ELSE "done")
    /\ UNCHANGED <<ca, files, signer, tracked, ipa, runs, at, read, chainChanged, certAsked,
                   blind, why, faults>>

VerifyTask ==
    /\ pc = "verify" /\ ipa /\ Verifies
    /\ Goto(IF CertsChanged THEN "restart" ELSE "done")
    /\ UNCHANGED <<ca, files, signer, tracked, ipa, runs, at, read, chainChanged, certAsked,
                   blind, why, faults>>

VerifyFails ==
    /\ pc = "verify" /\ ~(ipa /\ Verifies)
    /\ UNCHANGED <<ca, files, signer, tracked, ipa, runs, faults>>
    /\ Ends

Restart ==
    /\ pc = "restart"
    /\ LET s == Restarts[at] IN
       /\ runs' = [runs EXCEPT ![s] = OnDisk]
       /\ why' = [why EXCEPT ![s] = {}]
       /\ ipa' = (ipa /\ s # Engine)
    /\ IF at < Len(Restarts) THEN at' = at + 1 /\ UNCHANGED pc ELSE UNCHANGED at /\ Goto("done")
    /\ UNCHANGED <<ca, files, signer, tracked, read, chainChanged, certAsked, blind, faults>>

-----------------------------------------------------------------------------

\* The play ends early.
Crash ==
    /\ pc \in Working /\ faults < MaxFaults /\ faults' = faults + 1
    /\ UNCHANGED <<ca, files, signer, tracked, ipa, runs>>
    /\ Ends

Reboot ==
    /\ faults < MaxFaults /\ faults' = faults + 1
    /\ runs' = [s \in Services |-> OnDisk] /\ why' = [s \in Services |-> {}]
    /\ ipa' = TRUE
    /\ Goto(IF pc \in Working THEN "failed" ELSE pc)
    /\ UNCHANGED <<ca, files, signer, tracked, at, read, chainChanged, certAsked, blind>>

\* The ipa container ends, and someone starts it again.
StopIPA ==
    /\ ipa /\ ipa' = FALSE /\ faults < MaxFaults /\ faults' = faults + 1
    /\ UNCHANGED <<ca, files, signer, tracked, runs, play, why>>

StartIPA ==
    /\ ~ipa /\ ipa' = TRUE
    /\ UNCHANGED <<ca, files, signer, tracked, runs, play, why, faults>>

\* The CA answers a request that the play has given up.
Issue ==
    /\ ipa /\ tracked = "waiting"
    /\ UNCHANGED <<ca, chain, ipa, runs, play, faults>>
    /\ Signed /\ Blame("renewed")

\* certmonger renews a certificate before it expires.
RenewAs(f) ==
    /\ ipa /\ faults' = f
    /\ UNCHANGED <<ca, chain, ipa, runs, play>>
    /\ Signed /\ Blame("renewed")

Renew    == tracked = "MONITORING" /\ faults < MaxFaults /\ RenewAs(faults + 1)
RenewOld == tracked = "MONITORING" /\ signer[cert] # ca /\ RenewAs(faults)

\* The sub-CA is made again, alone or with the whole of FreeIPA.
ReplaceCA ==
    /\ ca < MaxCAs /\ ca' = ca + 1
    /\ tracked' \in {tracked, "no"}
    /\ UNCHANGED <<files, signer, ipa, runs, play, why, faults>>

Task == \/ ReadCA \/ DumpChain \/ CheckTracking \/ Request \/ RequestFails
        \/ VerifyTask \/ VerifyFails \/ Restart

Next == Play \/ Task \/ Crash \/ Reboot \/ StopIPA \/ StartIPA \/ Issue \/ Renew \/ RenewOld \/ ReplaceCA

Spec == Init /\ [][Next]_vars

\* A play comes to its end and is played again; ipa.service is started again;
\* certmonger asks again until the CA answers, and renews in time.
FairSpec ==
    /\ Spec
    /\ WF_vars(Task) /\ WF_vars(Play)
    /\ WF_vars(StartIPA) /\ WF_vars(Issue) /\ WF_vars(RenewOld)

-----------------------------------------------------------------------------
(* Properties.                                                             *)

\* Types, and certmonger has no certificate that was never issued.
TypeOK ==
    /\ ca \in 1 .. MaxCAs /\ read \in 1 .. MaxCAs /\ chain \in (1 .. MaxCAs) \cup {None}
    /\ signer \in Seq(1 .. MaxCAs) /\ cert \in (1 .. Len(signer)) \cup {None}
    /\ tracked \in Tracking /\ (tracked = "MONITORING" => cert # None)
    /\ ipa \in BOOLEAN /\ chainChanged \in BOOLEAN /\ certAsked \in BOOLEAN /\ blind \in BOOLEAN
    /\ runs \in [Services -> Loaded \cup {None}] /\ why \in [Services -> SUBSET Reason]
    /\ pc \in Working \cup Stopped /\ at \in 1 .. Len(Restarts)
    /\ faults \in 0 .. MaxFaults

\* Services are restarted only onto a certificate that the chain verifies, and
\* a play succeeds only if certmonger will renew it: unless the CA was replaced
\* under the play, or the container was not there to answer.
Sound ==
    pc \in {"restart", "done"} /\ read = ca =>
        Verifies /\ (blind \/ tracked # "no")

\* After a play that succeeds a service runs what is on disk, but for three
\* reasons: an earlier play ended after it changed the files and before the
\* restart, which no later play makes up for; certmonger changed the
\* certificate, which restarts nothing; or a certificate was asked for under a
\* chain that is the same, which the fact does not tell.
StaleHasReason ==
    pc = "done" => \A s \in Services : runs[s] = OnDisk \/ why[s] # {}

\* Whatever is interrupted, rebooted, replaced and late, the host has in the end
\* the chain of the CA and a certificate of it that is tracked.
GetsDeployed == <>[](chain = ca /\ Verifies /\ tracked = "MONITORING")

\* Played for ever, the operation comes to an end of restarting services (and
\* of ending the ipa container with docker).
Settles == <>[][UNCHANGED <<runs, ipa>>]_vars
=============================================================================
