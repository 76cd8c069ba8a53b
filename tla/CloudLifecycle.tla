---------------------------- MODULE CloudLifecycle ----------------------------
(***************************************************************************)
(* Droplets, their volumes and the entries of /etc/hosts on the control    *)
(* host, under three playbooks: provision.yaml, freeipa.yaml and           *)
(* destroy.yaml.                                                           *)
(*                                                                         *)
(* All hosts of a play come to a task before any comes to the next one; a  *)
(* host that fails leaves the play.  A droplet is found by its name, gets  *)
(* any free address when it is created, and takes time to be destroyed:    *)
(* until it is gone (Vanish) it is listed, with its address.  Whoever      *)
(* connects to a host gets to the address in its entry.                    *)
(***************************************************************************)
EXTENDS Integers, Sequences

CONSTANTS
    Hosts,      \* groups['all'], in the order of the inventory
    Addresses,  \* what the provider has to give
    None,
    MaxFaults   \* bound: errors of the API, timeouts, interruptions

Host == {Hosts[i] : i \in 1 .. Len(Hosts)}

ASSUME HostsAssumption ==
    /\ Hosts \in Seq(Host) /\ Len(Hosts) > 0
    /\ \A i, j \in 1 .. Len(Hosts) : Hosts[i] = Hosts[j] => i = j
ASSUME AddressAssumption == None \notin Addresses
ASSUME BoundAssumption == MaxFaults \in Nat

VARIABLES
    droplet,  \* by host: "none", "up", or "dying"
    address,  \* the droplet's
    volume,   \* by host and purpose
    entry,    \* the lines of /etc/hosts
    fact,     \* ip_addr, as this play has set it
    kind,     \* the playbook under way, or the last one
    only,     \* its hosts: all, or those of --limit
    step,     \* the task it has come to
    alive,    \* the hosts that have not failed
    todo,     \* those that have still to do the task
    faults

cloud == <<droplet, address, volume>>
play  == <<kind, only, step, alive, todo>>
vars  == <<cloud, entry, fact, play, faults>>

Purposes == {"data", "freeipa"}

Path ==
    [provision |-> <<"create", "lookup", "entries", "volume", "attach", "connect">>,
     freeipa   |-> <<"gather", "volume", "attach", "lookup", "entries", "connect">>,
     destroy   |-> <<"destroy", "delete", "lookup", "entries">>]

Kinds == DOMAIN Path

\* The volume that a playbook creates.
Purpose == IF kind = "freeipa" THEN "freeipa" ELSE "data"

Ended == alive = {} \/ step > Len(Path[kind])
Task  == Path[kind][step]

At(h, t) == ~Ended /\ Task = t /\ h \in todo

\* The last host to finish a task takes all that are left to the next.
Leaves(h, left) ==
    IF todo = {h} THEN step' = step + 1 /\ todo' = left
                  ELSE UNCHANGED step /\ todo' = todo \ {h}

Passes(h) == alive' = alive /\ Leaves(h, alive) /\ UNCHANGED <<kind, only>>
Fails(h)  == alive' = alive \ {h} /\ Leaves(h, alive \ {h}) /\ UNCHANGED <<kind, only>>

AllPass == step' = step + 1 /\ todo' = alive /\ UNCHANGED <<alive, kind, only>>
AllFail == alive' = {} /\ todo' = {} /\ UNCHANGED <<step, kind, only>>

Fault == faults < MaxFaults /\ faults' = faults + 1

Listed(h) == droplet[h] # "none"

-----------------------------------------------------------------------------
(* Creating.                                                               *)

Init ==
    /\ droplet = [h \in Host |-> "none"] /\ address = [h \in Host |-> None]
    /\ volume = [h \in Host |-> [p \in Purposes |-> "none"]]
    /\ entry = [h \in Host |-> None] /\ fact = [h \in Host |-> None]
    /\ kind = "provision" /\ only = {} /\ step = 1 /\ alive = {} /\ todo = {}
    /\ faults = 0

\* Facts that were set are not cached: a new process has none.
Play ==
    /\ Ended
    /\ kind' \in Kinds /\ only' \in (SUBSET Host) \ {{}}
    /\ step' = 1 /\ alive' = only' /\ todo' = only'
    /\ fact' = [h \in Host |-> None]
    /\ UNCHANGED <<cloud, entry, faults>>

\* A droplet of that name is taken for the one asked for, even one that is
\* being destroyed.  A new one may take longer than the task waits.
Create(h) ==
    /\ At(h, "create")
    /\ IF Listed(h)
       THEN /\ UNCHANGED <<droplet, address, faults>>
            /\ Passes(h) \/ (droplet[h] = "dying" /\ Fails(h))
       ELSE /\ droplet' = [droplet EXCEPT ![h] = "up"]
            /\ \E a \in Addresses \ {address[g] : g \in Host} :
                  address' = [address EXCEPT ![h] = a]
            /\ (Passes(h) /\ UNCHANGED faults) \/ (Fails(h) /\ Fault)
    /\ UNCHANGED <<volume, entry, fact>>

SetVolume(h, p, s) == volume' = [volume EXCEPT ![h][p] = s]

\* Mutant: a volume that is there is a conflict.
CreateVolume_Conflict(h) ==
    /\ At(h, "volume")
    /\ IF Listed(h) /\ volume[h][Purpose] = "none"
       THEN SetVolume(h, Purpose, "free") /\ Passes(h)
       ELSE UNCHANGED volume /\ Fails(h)
    /\ UNCHANGED <<droplet, address, entry, fact, faults>>

\* The droplet is looked up first; a volume of that name is taken as it is.
CreateVolume(h) ==
    /\ At(h, "volume")
    /\ IF Listed(h)
       THEN /\ IF volume[h][Purpose] = "none" THEN SetVolume(h, Purpose, "free")
                                              ELSE UNCHANGED volume
            /\ Passes(h)
       ELSE UNCHANGED volume /\ Fails(h)
    /\ UNCHANGED <<droplet, address, entry, fact, faults>>

\* Mutant: the droplet's ID is not looked up.
Attach_Unseen(h) ==
    /\ At(h, "attach") /\ SetVolume(h, Purpose, "attached") /\ Passes(h)
    /\ UNCHANGED <<droplet, address, entry, fact, faults>>

\* The droplet that was looked up may be gone, or about to be.
Attach(h) ==
    /\ At(h, "attach")
    /\ \/ Listed(h) /\ SetVolume(h, Purpose, "attached") /\ Passes(h)
       \/ droplet[h] # "up" /\ UNCHANGED volume /\ Fails(h)
    /\ UNCHANGED <<droplet, address, entry, fact, faults>>

\* Somebody answers at the address in the entry, or the host is unreachable.
Reach(h) ==
    /\ IF entry[h] # None /\ \E g \in Host : address[g] = entry[h]
       THEN Passes(h) ELSE Fails(h)
    /\ UNCHANGED <<cloud, entry, fact, faults>>

\* freeipa.yaml connects before it looks any address up.
Gather(h)  == At(h, "gather") /\ Reach(h)
Connect(h) == At(h, "connect") /\ Reach(h)

-----------------------------------------------------------------------------
(* Destroying.                                                             *)

\* Mutant: a droplet that is not there is an error.
Destroy_Strict(h) ==
    /\ At(h, "destroy")
    /\ IF droplet[h] = "up" THEN droplet' = [droplet EXCEPT ![h] = "dying"] /\ Passes(h)
                            ELSE UNCHANGED droplet /\ Fails(h)
    /\ UNCHANGED <<address, volume, entry, fact, faults>>

Destroy(h) ==
    /\ At(h, "destroy")
    /\ IF droplet[h] = "up"
       THEN droplet' = [droplet EXCEPT ![h] = "dying"] /\ Passes(h)
       ELSE UNCHANGED droplet /\ (Passes(h) \/ (droplet[h] = "dying" /\ Fails(h)))
    /\ UNCHANGED <<address, volume, entry, fact, faults>>

\* The data volume: while its droplet is being destroyed it may refuse, and
\* "retries" without "until" is one try.  The volume of FreeIPA is left, since
\* no host is in the group that the task asks for ("freeipa").
Delete(h) ==
    /\ At(h, "delete")
    /\ \/ SetVolume(h, "data", "none") /\ Passes(h)
       \/ volume[h]["data"] = "attached" /\ UNCHANGED volume /\ Fails(h)
    /\ UNCHANGED <<droplet, address, entry, fact, faults>>

-----------------------------------------------------------------------------
(* Addresses.                                                              *)

\* An error is ignored, and leaves the fact unset.
LookUp(h) ==
    /\ At(h, "lookup") /\ Passes(h)
    /\ \/ fact' = [fact EXCEPT ![h] = address[h]] /\ UNCHANGED faults
       \/ UNCHANGED fact /\ Fault
    /\ UNCHANGED <<cloud, entry>>

\* A task that runs once does so for the first host.
First ==
    LET i == CHOOSE i \in 1 .. Len(Hosts) :
                Hosts[i] \in alive /\ \A j \in 1 .. i - 1 : Hosts[j] \notin alive
    IN Hosts[i]

UpTo(n) == {Hosts[i] : i \in 1 .. n}

\* /etc/hosts when the loop over all hosts has done n of them.
Written(n) ==
    [h \in Host |-> IF h \in UpTo(n)
                    THEN IF fact[First] = None THEN None ELSE fact[h]
                    ELSE entry[h]]

\* The loop adds if the first host has an address, and gives up at one that has
\* none; else it removes.
GetsTo(n) == fact[First] = None \/ \A h \in UpTo(n) : fact[h] # None

\* Mutant: hosts that have no address are passed over.
UpdateEntries_PassOver ==
    /\ ~Ended /\ Task = "entries"
    /\ entry' = [h \in Host |-> IF fact[First] = None THEN None
                                ELSE IF fact[h] = None THEN entry[h] ELSE fact[h]]
    /\ AllPass
    /\ UNCHANGED <<cloud, fact, faults>>

\* Mutant: a line that is there is not replaced.
UpdateEntries_Once ==
    /\ ~Ended /\ Task = "entries"
    /\ entry' = [h \in Host |-> IF entry[h] # None THEN entry[h] ELSE fact[h]]
    /\ IF GetsTo(Len(Hosts)) THEN AllPass ELSE AllFail
    /\ UNCHANGED <<cloud, fact, faults>>

UpdateEntries ==
    /\ ~Ended /\ Task = "entries"
    /\ \E n \in 0 .. Len(Hosts) :
          /\ GetsTo(n) /\ entry' = Written(n)
          /\ \/ n = Len(Hosts) /\ AllPass /\ UNCHANGED faults
             \/ n < Len(Hosts) /\ ~GetsTo(n + 1) /\ AllFail /\ UNCHANGED faults
             \/ n < Len(Hosts) /\ AllFail /\ Fault
    /\ UNCHANGED <<cloud, fact>>

-----------------------------------------------------------------------------
(* What befalls droplets and plays.                                        *)

Vanish(h) ==
    /\ droplet[h] = "dying"
    /\ droplet' = [droplet EXCEPT ![h] = "none"] /\ address' = [address EXCEPT ![h] = None]
    /\ volume' = [volume EXCEPT ![h] = [p \in Purposes |->
                    IF volume[h][p] = "attached" THEN "free" ELSE volume[h][p]]]
    /\ UNCHANGED <<entry, fact, play, faults>>

\* The task of a host fails and does nothing.
TaskFails(h) ==
    /\ ~Ended /\ h \in todo /\ Task \notin {"lookup", "entries"}
    /\ Fails(h) /\ Fault
    /\ UNCHANGED <<cloud, entry, fact>>

Crash ==
    /\ ~Ended /\ AllFail /\ Fault
    /\ UNCHANGED <<cloud, entry, fact>>

Does(h) == \/ Create(h) \/ LookUp(h) \/ CreateVolume(h) \/ Attach(h)
           \/ Gather(h) \/ Connect(h) \/ Destroy(h) \/ Delete(h)

Goes == UpdateEntries \/ \E h \in Host : Does(h)

Next ==
    \/ Play \/ Goes \/ Crash
    \/ \E h \in Host : Vanish(h) \/ TaskFails(h)

Spec == Init /\ [][Next]_vars

\* Tasks end, droplets that are destroyed go, and the operator plays for ever.
FairSpec ==
    /\ Spec /\ WF_vars(Play) /\ WF_vars(Goes)
    /\ \A h \in Host : WF_vars(Vanish(h))

-----------------------------------------------------------------------------
(* Properties.                                                             *)

\* Types; an address is one droplet's, and what is attached has a droplet.
TypeOK ==
    /\ droplet \in [Host -> {"none", "up", "dying"}]
    /\ address \in [Host -> Addresses \cup {None}]
    /\ volume \in [Host -> [Purposes -> {"none", "free", "attached"}]]
    /\ \A h \in Host : /\ address[h] = None <=> ~Listed(h)
                       /\ \A p \in Purposes : volume[h][p] = "attached" => Listed(h)
    /\ \A g, h \in Host : address[g] = address[h] => g = h \/ address[g] = None
    /\ entry \in [Host -> Addresses \cup {None}] /\ fact \in [Host -> Addresses \cup {None}]
    /\ kind \in Kinds /\ only \subseteq Host
    /\ step \in Nat \ {0} /\ todo \subseteq alive /\ alive \subseteq only
    /\ faults \in 0 .. MaxFaults

\* Once a play has updated the entries, whoever connects to a host gets to its
\* own droplet, not to one that was given the address since.
ReachesOwn == [][\A h \in Host : Connect(h) /\ h \in alive' => entry[h] = address[h]]_vars

\* A host that a playbook is done with has its entry, and its volume, unless
\* its droplet was on its way out when the play met it.
DoneMeansUp ==
    Ended /\ kind # "destroy" =>
        \A h \in alive : droplet[h] = "up" =>
            entry[h] = address[h] /\ volume[h][Purpose] = "attached"

Played(k) == kind = k /\ only = Host

\* Destroying again and again leaves no droplet, data volume or entry,
ComesDown ==
    <>[]Played("destroy") =>
        <>[](\A h \in Host : ~Listed(h) /\ volume[h]["data"] = "none" /\ entry[h] = None)

\* and provisioning again and again brings all hosts up.
ComesUp ==
    <>[]Played("provision") =>
        <>[](\A h \in Host : /\ droplet[h] = "up" /\ volume[h]["data"] = "attached"
                             /\ entry[h] = address[h])
=============================================================================
