---------------------------- MODULE DockerNetwork ----------------------------
(***************************************************************************)
(* docker_network: one Docker network of one host, the module that creates *)
(* it and connects containers to it, and the containers of the host, which *)
(* start, stop, join and leave by themselves meanwhile.                    *)
(*                                                                         *)
(* A run is one process of the module; runs follow each other, because one *)
(* play works for a host.  Every call of the Docker API is a step of its   *)
(* own.  Docker refuses to connect a container that is connected already   *)
(* or does not run, to disconnect one that is not connected, and to remove *)
(* a network with containers.                                              *)
(***************************************************************************)
EXTENDS Naturals, FiniteSets

CONSTANTS
    Container,
    Option,      \* driver, driver_options.*, ipam_driver, ipam_options.*, ipv6
    Value,
    Default,     \* Default[o]: what Docker chooses for an option not given
    Unmatched,   \* options that Docker reports under another name than is given
    Jobs,        \* the parameters that the operator runs the module with
    None,        \* no network; an option not given, or given as false or empty
    MaxMoves,    \* bound: moves of containers
    MaxCrashes   \* bound: runs that end early

Ref    == [container : Container, by : {"name", "id"}]
Config == [Option -> Value]
Asked  == [Option -> Value \cup {None}]
Job    == [state : {"present", "absent"}, connected : SUBSET Ref, asked : Asked,
           force : BOOLEAN, appends : BOOLEAN, check : BOOLEAN]

ASSUME ValueAssumption == None \notin Value /\ None \notin Config /\ Default \in Config
ASSUME JobsAssumption  == Jobs \subseteq Job /\ Jobs # {} /\ Unmatched \subseteq Option
ASSUME BoundAssumption == MaxMoves \in Nat /\ MaxCrashes \in Nat

VARIABLES
    config,    \* the network's configuration, or None: there is no network
    members,   \* the containers connected to it
    running,   \* the containers that run
    pc,        \* where the run is
    job,       \* its parameters
    existing,  \* existing_network: is it there, and who was connected then
    wanted,    \* parameters.connected, after __init__
    todo,      \* what is left of the list the run goes through
    changed,   \* results['changed']
    found,     \* history: configuration and members when the run looked
    moved,     \* history: containers that moved by themselves since then
    moves, crashes

network == <<config, members>>
run     == <<pc, job, existing, wanted, todo, changed>>
vars    == <<network, running, run, found, moved, moves, crashes>>

Working  == {"find", "list", "disconnect", "create", "inspect",
             "connect", "missing"}
Stopped  == {"idle", "done", "failed"}
NotThere == [there |-> FALSE, members |-> {}]

ByName(cs)   == {[container |-> c, by |-> "name"] : c \in cs}
Listed(refs) == {r.container : r \in refs}

-----------------------------------------------------------------------------

\* Mutant: the configuration is not compared.
Different_Never(asked, cfg) == FALSE

\* has_different_config(): only what was given counts, and an option that
\* Docker reports under another name always differs.
Different(asked, cfg) ==
    \E o \in Option : asked[o] # None /\ (o \in Unmatched \/ asked[o] # cfg[o])

\* Mutant: what was not given stays open.
Created_AsGiven(asked) == asked

Created(asked) == [o \in Option |-> IF asked[o] = None THEN Default[o] ELSE asked[o]]

Init ==
    /\ config \in Config \cup {None}
    /\ running \in SUBSET Container
    /\ members \in SUBSET running /\ (config = None => members = {})
    /\ pc = "idle" /\ job \in Jobs
    /\ existing = NotThere /\ wanted = {} /\ todo = {} /\ changed = FALSE
    /\ found = [config |-> config, members |-> members]
    /\ moved = {} /\ moves = 0 /\ crashes = 0

Begin ==
    /\ pc \in Stopped
    /\ pc' = "find" /\ job' \in Jobs
    /\ existing' = NotThere /\ wanted' = {} /\ todo' = {} /\ changed' = FALSE
    /\ UNCHANGED <<network, running, found, moved, moves, crashes>>

\* An empty list is replaced by the containers found.
Wants == IF job.connected = {} /\ config # None THEN ByName(members) ELSE job.connected

MustRemove == job.state = "absent" \/ job.force \/ Different(job.asked, config)

\* __init__(), up to where present() or absent() calls Docker.
Find ==
    /\ pc = "find"
    /\ existing' = [there |-> config # None, members |-> members]
    /\ wanted' = Wants
    /\ found' = [config |-> config, members |-> members] /\ moved' = {}
    /\ \/ /\ config = None /\ todo' = {}
          /\ pc' = IF job.state = "absent" THEN "done" ELSE "create"
       \/ config # None /\ MustRemove /\ pc' = "list" /\ todo' = {}
       \/ config # None /\ ~MustRemove /\ pc' = "connect" /\ todo' = wanted'
    /\ UNCHANGED <<network, running, job, changed, moves, crashes>>

\* disconnect_all_containers() asks again who is connected.
List ==
    /\ pc = "list"
    /\ todo' = ByName(members) /\ pc' = "disconnect"
    /\ UNCHANGED <<network, running, job, existing, wanted, changed, found, moved,
                   moves, crashes>>

\* disconnect_container(), from either list.
Disconnect ==
    /\ pc \in {"disconnect", "missing"}
    /\ \E r \in todo :
          \/ /\ job.check \/ r.container \in members
             /\ members' = IF job.check THEN members ELSE members \ {r.container}
             /\ todo' = todo \ {r} /\ changed' = TRUE
             /\ UNCHANGED pc
          \/ /\ ~job.check /\ r.container \notin members
             /\ pc' = "failed" /\ UNCHANGED <<members, todo, changed>>
    /\ UNCHANGED <<config, running, job, existing, wanted, found, moved, moves, crashes>>

\* remove_network(), then existing_network = None.
Remove ==
    /\ pc = "disconnect" /\ todo = {}
    /\ \/ /\ job.check \/ members = {}
          /\ config' = IF job.check THEN config ELSE None
          /\ existing' = NotThere /\ changed' = TRUE
          /\ pc' = IF job.state = "absent" THEN "done" ELSE "create"
       \/ /\ ~job.check /\ members # {}
          /\ pc' = "failed" /\ UNCHANGED <<config, existing, changed>>
    /\ UNCHANGED <<members, running, job, wanted, todo, found, moved, moves, crashes>>

Create ==
    /\ pc = "create"
    /\ IF job.check
       THEN pc' = "connect" /\ todo' = wanted /\ changed' = TRUE /\ UNCHANGED config
       ELSE /\ config' = Created(job.asked)
            /\ pc' = "inspect" /\ UNCHANGED <<todo, changed>>
    /\ UNCHANGED <<members, running, job, existing, wanted, found, moved, moves, crashes>>

Inspect ==
    /\ pc = "inspect"
    /\ existing' = [there |-> TRUE, members |-> members]
    /\ pc' = "connect" /\ todo' = wanted /\ changed' = TRUE
    /\ UNCHANGED <<network, running, job, wanted, found, moved, moves, crashes>>

\* Mutant: whoever is listed counts as connected once the network is there.
IsConnected_Anyone(r) == existing.there

\* is_container_connected() compares names only.
IsConnected(r) == r.by = "name" /\ r.container \in existing.members

\* connect_containers().  There is no network to look into in check mode, if
\* it were created: container_names_in_network(None) raises.
Connect ==
    /\ pc = "connect"
    /\ \E r \in todo :
          \/ /\ existing.there /\ (IsConnected(r) \/ job.check)
             /\ todo' = todo \ {r} /\ changed' = (changed \/ ~IsConnected(r))
             /\ UNCHANGED <<members, pc>>
          \/ /\ existing.there /\ ~IsConnected(r) /\ ~job.check
             /\ r.container \in running \ members
             /\ members' = members \cup {r.container}
             /\ todo' = todo \ {r} /\ changed' = TRUE /\ UNCHANGED pc
          \/ /\ \/ ~existing.there
                \/ ~IsConnected(r) /\ ~job.check /\ r.container \notin running \ members
             /\ pc' = "failed" /\ UNCHANGED <<members, todo, changed>>
    /\ UNCHANGED <<config, running, job, existing, wanted, found, moved, moves, crashes>>

\* Mutant: disconnect_missing() is called for appends, not without.
Missing_Inverted == IF job.appends THEN ByName(existing.members) \ wanted ELSE {}

\* Mutant: appends is not looked at.
Missing_Always == ByName(existing.members) \ wanted

\* disconnect_missing() goes by who was connected when the run looked.
Missing == IF job.appends THEN {} ELSE ByName(existing.members) \ wanted

Connected ==
    /\ pc = "connect" /\ todo = {}
    /\ todo' = Missing /\ pc' = "missing"
    /\ UNCHANGED <<network, running, job, existing, wanted, changed, found, moved,
                   moves, crashes>>

Finish ==
    /\ pc = "missing" /\ todo = {}
    /\ pc' = "done"
    /\ UNCHANGED <<network, running, job, existing, wanted, todo, changed, found, moved,
                   moves, crashes>>

\* The play is interrupted, or Docker does not answer.
Crash ==
    /\ pc \in Working /\ crashes < MaxCrashes
    /\ pc' = "failed" /\ crashes' = crashes + 1
    /\ UNCHANGED <<network, running, job, existing, wanted, todo, changed, found, moved,
                   moves>>

\* A container starts, with or without --net, stops, joins or leaves.
Move ==
    /\ moves < MaxMoves
    /\ \E c \in Container, runs, joins \in BOOLEAN :
          /\ joins => runs /\ config # None
          /\ running' = IF runs THEN running \cup {c} ELSE running \ {c}
          /\ members' = IF joins THEN members \cup {c} ELSE members \ {c}
          /\ moved' = moved \cup {c}
    /\ moves' = moves + 1
    /\ UNCHANGED <<config, run, found, crashes>>

Task == \/ Find \/ List \/ Disconnect \/ Remove \/ Create \/ Inspect
        \/ Connect \/ Connected \/ Finish

Next == Begin \/ Task \/ Crash \/ Move

Spec == Init /\ [][Next]_vars

\* A run that is not interrupted comes to its end; the operator runs the
\* module again and again.
FairSpec == Spec /\ WF_vars(Task) /\ WF_vars(Begin)

-----------------------------------------------------------------------------
(* Properties.                                                             *)

\* Types; only containers that run are connected, and only to a network.
TypeOK ==
    /\ config \in Config \cup {None}
    /\ running \subseteq Container /\ members \subseteq running
    /\ config = None => members = {}
    /\ pc = "inspect" => config # None
    /\ pc \in {"create", "connect"} /\ existing.there => config # None
    /\ pc \in Working \cup Stopped
    /\ job \in Jobs
    /\ existing \in [there : BOOLEAN, members : SUBSET Container]
    /\ wanted \subseteq Ref /\ todo \subseteq Ref
    /\ changed \in BOOLEAN
    /\ found \in [config : Config \cup {None}, members : SUBSET Container]
    /\ moved \subseteq Container
    /\ moves \in 0 .. MaxMoves /\ crashes \in 0 .. MaxCrashes

\* The network has every option that was asked for.
HasAsked(asked, cfg) ==
    cfg # None /\ \A o \in Option : asked[o] # None => cfg[o] = asked[o]

\* The run takes down the network it finds and creates another one.
Replaces == found.config # None /\ (job.force \/ Different(job.asked, found.config))

\* A run that succeeds leaves no network (absent), or one with every option
\* asked for, to which every container of the list is connected; without
\* appends nobody else is, or nobody but those found if the list is empty;
\* with appends those found stay connected, if the network is not replaced or
\* the list is empty.  Containers that moved meanwhile are left out.  What the
\* documentation says of an empty list is EmptyLeavesNone.
DoneMeansAsked ==
    pc = "done" /\ ~job.check =>
        IF job.state = "absent" THEN config = None
        ELSE /\ HasAsked(job.asked, config)
             /\ Listed(job.connected) \ moved \subseteq members
             /\ ~job.appends =>
                   members \subseteq moved \cup
                       IF job.connected = {} THEN found.members ELSE Listed(job.connected)
             /\ job.appends /\ (job.connected = {} \/ ~Replaces) =>
                   found.members \ moved \subseteq members

\* A run that reports no change found what was asked for and left it alone,
\* in check mode too.
UnchangedIsTrue ==
    pc = "done" /\ ~changed =>
        /\ found.config = config
        /\ \A c \in Container \ moved : c \in members <=> c \in found.members
        /\ IF job.state = "absent" THEN config = None
           ELSE /\ HasAsked(job.asked, config)
                /\ Listed(job.connected) \subseteq found.members
                /\ ~job.appends /\ job.connected # {} =>
                      found.members \subseteq Listed(job.connected)

\* A run that has no reason to remove the network disconnects a container only
\* if its list is meant to be complete and does not name it.  Whether a run may
\* remove a network with containers is another matter: RemovalNeedsForce.
DisconnectsOnlyAsked ==
    [][Task => \A c \in members \ (members' \cup moved) :
          /\ ~job.check
          /\ MustRemove \/ (~job.appends /\ c \notin Listed(job.connected))]_vars

\* The job is settled: the network is what a run of it leaves behind.
Settled(j) ==
    /\ HasAsked(j.asked, config)
    /\ Listed(j.connected) \subseteq members
    /\ ~j.appends /\ j.connected # {} => members \subseteq Listed(j.connected)

\* What a rerun can repair: names, not IDs; no option that always differs;
\* not force, with which every run starts over.
Repeatable(j) ==
    /\ j.state = "present" /\ ~j.check /\ ~j.force
    /\ \A r \in j.connected : r.by = "name"
    /\ \A o \in Unmatched : j.asked[o] = None

\* Run again and again with the same parameters, the module arrives at what
\* was asked, whatever was interrupted before, if the containers listed run.
Converges ==
    \A j \in Jobs : Repeatable(j) =>
        (<>[](job = j /\ Listed(j.connected) \subseteq running) => <>[]Settled(j))

=============================================================================
