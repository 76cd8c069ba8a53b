------------------------- MODULE DockerNetworkProofs -------------------------
(* Proofs about DockerNetwork, for every set of containers, options and    *)
(* jobs, and for any number of moves and of interrupted runs.              *)
EXTENDS DockerNetwork, TLAPS

\* Who is to be connected in the end: those listed, or those found if nobody
\* is listed.
Target == IF job.connected = {} THEN found.members ELSE Listed(job.connected)

\* Those found are to stay.
Keeps == job.appends /\ (job.connected = {} \/ ~Replaces)

\* What a run has in mind until it ends: its list, and why it removes.
Intent ==
    pc \notin {"idle", "find", "failed"} =>
        /\ wanted = IF job.connected = {} /\ found.config # None
                    THEN ByName(found.members) ELSE job.connected
        /\ found.config = None => found.members = {}
        /\ pc \in {"create", "inspect", "connect", "missing"} => job.state = "present"
        /\ pc \in {"list", "disconnect"} => MustRemove /\ config = found.config
        /\ pc \in {"create", "inspect"} => Replaces \/ found.members = {}

\* A run that changes something has a network from the moment it looks into
\* it, and those it saw connected are still, but for those that moved.
Seen ==
    /\ ~job.check /\ pc = "create" => config = None
    /\ ~job.check /\ pc = "inspect" => HasAsked(job.asked, config) /\ members \subseteq moved
    /\ ~job.check /\ pc \in {"connect", "missing"} =>
          /\ existing.there /\ HasAsked(job.asked, config)
          /\ existing.members \subseteq found.members \cup moved
    /\ ~job.check /\ pc = "connect" =>
          /\ existing.members \subseteq members \cup moved
          /\ Replaces \/ found.members \subseteq members \cup moved
          /\ members \subseteq existing.members \cup Target \cup moved
          /\ todo \subseteq wanted

\* Everybody on the list is connected or still to be connected, and was not
\* seen connected if listed by an ID and done.
Pending ==
    /\ ~job.check /\ pc = "connect" =>
          /\ \A r \in wanted \ todo : r.container \in members \cup moved
          /\ \A r \in wanted \ todo : r.by = "id" => r.container \notin existing.members \ moved
    /\ ~job.check /\ pc = "missing" =>
          /\ Target \ moved \subseteq members
          /\ Keeps => found.members \ moved \subseteq members
          /\ ~job.appends => members \subseteq Target \cup moved \cup Listed(todo)
          /\ todo \subseteq Missing
          /\ \A r \in wanted : r.by = "id" => r.container \notin existing.members \ moved

\* As long as the run reports no change, all is as it was found.
Quiet ==
    ~changed /\ pc \in {"connect", "missing"} =>
        /\ existing.there /\ existing.members = found.members
        /\ config = found.config /\ config # None /\ ~Different(job.asked, config)
        /\ \A c \in Container \ moved : c \in members <=> c \in found.members
        /\ \A r \in wanted \ todo : r.container \in found.members
        /\ pc = "missing" => todo = Missing

RunInv == Intent /\ Seen /\ Pending /\ Quiet /\ DoneMeansAsked /\ UnchangedIsTrue

-----------------------------------------------------------------------------
(* Types.                                                                  *)

\* The network that create_network() makes has the configuration asked for.
LEMMA CreatedType ==
    ASSUME NEW asked \in Asked
    PROVE  Created(asked) \in Config /\ HasAsked(asked, Created(asked))
  BY ValueAssumption DEF Asked, Created, Config, HasAsked

\* What the module is asked to do is a job.
LEMMA JobType == TypeOK => job \in Job
  BY JobsAssumption DEF TypeOK

\* Looking the network up by its name keeps the types.
LEMMA FindType == ASSUME TypeOK, Find PROVE TypeOK'
<1>1. wanted' \subseteq Ref
  BY JobType DEF TypeOK, Find, Wants, ByName, Ref, Job
<1>2. existing' \in [there : BOOLEAN, members : SUBSET Container]
      /\ found' \in [config : Config \cup {None}, members : SUBSET Container]
  BY DEF TypeOK, Find
<1>. QED
  BY <1>1, <1>2 DEF TypeOK, Find, Working, Stopped, network

\* Disconnecting a container keeps the types.
LEMMA DisconnectType == ASSUME TypeOK, Disconnect PROVE TypeOK'
  BY DEF TypeOK, Disconnect, Working, Stopped

\* Removing the network keeps the types.
LEMMA RemoveType == ASSUME TypeOK, Remove PROVE TypeOK'
<1>1. config' \in Config \cup {None} /\ (config' = None => members' = {})
  BY DEF TypeOK, Remove
<1>2. existing' \in [there : BOOLEAN, members : SUBSET Container]
  <2>1. NotThere \in [there : BOOLEAN, members : SUBSET Container]
    BY DEF NotThere
  <2>2. existing' = NotThere \/ existing' = existing
    BY DEF Remove
  <2>. QED
    BY <2>1, <2>2 DEF TypeOK
<1>3. pc' \in Working \cup Stopped /\ changed' \in BOOLEAN
  BY DEF TypeOK, Remove, Working, Stopped
<1>4. ~(pc' \in {"create", "connect"} /\ existing'.there) /\ pc' # "inspect"
  BY DEF Remove, NotThere
<1>. QED
  BY <1>1, <1>2, <1>3, <1>4 DEF TypeOK, Remove

\* Creating the network keeps the types.
LEMMA CreateType == ASSUME TypeOK, Create PROVE TypeOK'
<1>1. Created(job.asked) \in Config /\ Created(job.asked) # None
  BY CreatedType, JobType, ValueAssumption DEF Job
<1>. QED
  BY <1>1 DEF TypeOK, Create, Working, Stopped

\* Connecting a container keeps the types.
LEMMA ConnectType == ASSUME TypeOK, Connect PROVE TypeOK'
<1>1. PICK r \in todo : Connect!2!(r)
  BY DEF Connect
<1>2. r \in Ref /\ r.container \in Container
  BY <1>1 DEF TypeOK, Ref
<1>. QED
  BY <1>1, <1>2 DEF TypeOK, Connect, Working, Stopped

\* A container that starts, stops, or is connected by others keeps the types.
LEMMA MoveType == ASSUME TypeOK, Move PROVE TypeOK'
  BY BoundAssumption DEF TypeOK, Move, run

\* The host as a run of the module may find it has the types.
LEMMA TypeInit == Init => TypeOK
<1>. SUFFICES ASSUME Init PROVE TypeOK
  OBVIOUS
<1>1. existing \in [there : BOOLEAN, members : SUBSET Container]
      /\ found \in [config : Config \cup {None}, members : SUBSET Container]
  BY DEF Init, NotThere
<1>2. moves \in 0 .. MaxMoves /\ crashes \in 0 .. MaxCrashes
  BY BoundAssumption DEF Init
<1>. QED
  BY <1>1, <1>2 DEF Init, TypeOK, Stopped

\* Every step of the module, of the host and of the docker daemon keeps the types.
LEMMA TypeStep == TypeOK /\ [Next]_vars => TypeOK'
<1>. SUFFICES ASSUME TypeOK, [Next]_vars PROVE TypeOK'
  OBVIOUS
<1>1. CASE Begin
  <2>1. existing' \in [there : BOOLEAN, members : SUBSET Container]
    BY <1>1 DEF Begin, NotThere
  <2>. QED
    BY <1>1, <2>1 DEF Begin, TypeOK, Working, network
<1>2. CASE List
  BY <1>2 DEF List, TypeOK, ByName, Ref, Working, network
<1>3. CASE Inspect
  <2>1. existing' \in [there : BOOLEAN, members : SUBSET Container]
    BY <1>3 DEF Inspect, TypeOK
  <2>. QED
    BY <1>3, <2>1 DEF Inspect, TypeOK, Working, network
<1>4. CASE Connected
  <2>1. todo' \subseteq Ref
    BY <1>4 DEF Connected, TypeOK, Missing, ByName, Ref
  <2>. QED
    BY <1>4, <2>1 DEF Connected, TypeOK, Working, network
<1>5. CASE Finish
  BY <1>5 DEF Finish, TypeOK, Working, Stopped, network
<1>6. CASE Crash
  BY <1>6, BoundAssumption DEF Crash, TypeOK, Working, Stopped, network
<1>7. CASE UNCHANGED vars
  BY <1>7 DEF TypeOK, vars, network, run
<1>. QED
  BY <1>1, <1>2, <1>3, <1>4, <1>5, <1>6, <1>7, FindType, DisconnectType,
     RemoveType, CreateType, ConnectType, MoveType DEF Next, Task

\* Only containers that run are connected, and only to a network that exists.
THEOREM TypeCorrect == Spec => []TypeOK
  BY TypeInit, TypeStep, PTL DEF Spec

-----------------------------------------------------------------------------
(* The run.                                                                *)

\* A network that has_different_config() finds no fault with is as asked for.
LEMMA MatchingConfig ==
    ASSUME NEW asked, NEW cfg, cfg # None, ~Different(asked, cfg)
    PROVE  HasAsked(asked, cfg)
  BY DEF Different, HasAsked

\* The containers listed by name are those that were named.
LEMMA NamesOf == ASSUME NEW cs PROVE Listed(ByName(cs)) = cs
<1>1. ASSUME NEW c \in Listed(ByName(cs)) PROVE c \in cs
  BY DEF Listed, ByName
<1>2. ASSUME NEW c \in cs PROVE c \in Listed(ByName(cs))
  <2>. DEFINE r == [container |-> c, by |-> "name"]
  <2>1. r \in ByName(cs) /\ r.container = c
    BY DEF ByName
  <2>. QED
    BY <2>1 DEF Listed
<1>. QED
  BY <1>1, <1>2

\* Who is listed after __init__() is who is to be connected.
LEMMA TargetIsWanted ==
    ASSUME Intent, pc \notin {"idle", "find", "failed"}
    PROVE  Target = Listed(wanted)
<1>1. CASE job.connected = {} /\ found.config # None
  BY <1>1, NamesOf DEF Intent, Target
<1>2. CASE job.connected # {}
  BY <1>2 DEF Intent, Target
<1>3. CASE job.connected = {} /\ found.config = None
  BY <1>3 DEF Intent, Target, Listed
<1>. QED
  BY <1>1, <1>2, <1>3

\* A run that has failed, or is about to start, promises nothing.
LEMMA NothingPromised ==
    ASSUME pc \in {"idle", "find", "failed"}
    PROVE  RunInv
  BY DEF RunInv, Intent, Seen, Pending, Quiet, DoneMeansAsked, UnchangedIsTrue

\* Looking the network up keeps what the run knows of it.
LEMMA FindRun == ASSUME TypeOK, Find PROVE RunInv'
<1>1. Intent'
  <2>1. /\ wanted' = Wants /\ job' = job /\ network' = network
        /\ found' = [config |-> config, members |-> members]
    BY DEF Find
  <2>2. found'.config = None => found'.members = {}
    BY <2>1 DEF TypeOK
  <2>3. pc' \in {"create", "connect"} => job.state = "present"
    BY JobType DEF Find, MustRemove, Job
  <2>4. /\ pc' \in {"list", "done", "create", "connect"}
        /\ pc' = "list" => MustRemove
        /\ pc' = "create" => config = None
    BY DEF Find
  <2>5. MustRemove' = MustRemove
    BY <2>1 DEF MustRemove, Different, network
  <2>6. pc' = "create" => found'.members = {}
    BY <2>1, <2>4 DEF TypeOK
  <2>. QED
    BY <2>1, <2>2, <2>3, <2>4, <2>5, <2>6 DEF Intent, Wants, network
<1>2. Seen'
  BY MatchingConfig DEF TypeOK, Find, Seen, MustRemove, Target, Replaces, network
<1>3. Pending'
  BY DEF Find, Pending
<1>4. Quiet'
  BY DEF TypeOK, Find, Quiet, MustRemove, network
<1>5. DoneMeansAsked' /\ UnchangedIsTrue'
  BY DEF Find, DoneMeansAsked, UnchangedIsTrue, network
<1>. QED
  BY <1>1, <1>2, <1>3, <1>4, <1>5 DEF RunInv

\* Listing the containers to disconnect keeps what the run knows.
LEMMA ListRun == ASSUME TypeOK, RunInv, List PROVE RunInv'
<1>1. Intent'
  BY DEF RunInv, List, Intent, MustRemove, network
<1>2. Seen' /\ Pending' /\ Quiet' /\ DoneMeansAsked' /\ UnchangedIsTrue'
  BY DEF List, Seen, Pending, Quiet, DoneMeansAsked, UnchangedIsTrue
<1>. QED
  BY <1>1, <1>2 DEF RunInv

\* Removing the network keeps what the run knows.
LEMMA RemoveRun == ASSUME TypeOK, RunInv, Remove PROVE RunInv'
<1>1. Intent'
  <2>1. pc' = "create" => job.state = "present"
    BY JobType DEF Remove, Job
  <2>2. pc' \in {"create", "done", "failed"} /\ UNCHANGED <<wanted, job, found>>
    BY DEF Remove
  <2>3. pc' = "create" => (Replaces \/ found.members = {})'
    <3>1. MustRemove /\ config = found.config
          /\ (found.config = None => found.members = {})
      BY DEF RunInv, Intent, Remove
    <3>. QED
      BY <2>1, <2>2, <3>1 DEF MustRemove, Replaces
  <2>. QED
    BY <2>1, <2>2, <2>3 DEF RunInv, Remove, Intent
<1>2. Seen' /\ Pending' /\ Quiet' /\ UnchangedIsTrue'
  BY DEF Remove, Seen, Pending, Quiet, UnchangedIsTrue
<1>3. DoneMeansAsked'
  BY DEF Remove, DoneMeansAsked
<1>. QED
  BY <1>1, <1>2, <1>3 DEF RunInv

\* Creating the network keeps what the run knows.
LEMMA CreateRun == ASSUME TypeOK, RunInv, Create PROVE RunInv'
<1>1. Intent'
  BY DEF RunInv, Create, Intent, Replaces
<1>2. Seen'
  BY CreatedType, JobType DEF TypeOK, RunInv, Create, Seen, Job
<1>3. Pending' /\ Quiet' /\ DoneMeansAsked' /\ UnchangedIsTrue'
  BY DEF Create, Pending, Quiet, DoneMeansAsked, UnchangedIsTrue
<1>. QED
  BY <1>1, <1>2, <1>3 DEF RunInv

\* Inspecting the network keeps what the run knows.
LEMMA InspectRun == ASSUME TypeOK, RunInv, Inspect PROVE RunInv'
<1>1. Intent'
  BY DEF RunInv, Inspect, Intent
<1>2. Seen'
  BY DEF TypeOK, RunInv, Inspect, Intent, Seen, Target, Replaces, network
<1>3. Pending' /\ Quiet' /\ DoneMeansAsked' /\ UnchangedIsTrue'
  BY DEF Inspect, Pending, Quiet, DoneMeansAsked, UnchangedIsTrue
<1>. QED
  BY <1>1, <1>2, <1>3 DEF RunInv

\* The end of the run keeps what it knows.
LEMMA FinishRun == ASSUME TypeOK, RunInv, Finish PROVE RunInv'
<1>1. Intent'
  BY DEF RunInv, Finish, Intent
<1>2. Seen' /\ Pending' /\ Quiet'
  BY DEF Finish, Seen, Pending, Quiet
<1>3. DoneMeansAsked'
  <2>. SUFFICES ASSUME ~job.check PROVE DoneMeansAsked'
    BY DEF Finish, DoneMeansAsked
  <2>1. /\ pc = "missing" /\ todo = {}
        /\ UNCHANGED <<config, members, job, existing, found, moved>>
    BY DEF Finish, network
  <2>2. job.state = "present" /\ HasAsked(job.asked, config)
    BY <2>1 DEF RunInv, Intent, Seen
  <2>3. /\ Target \ moved \subseteq members
        /\ Keeps => found.members \ moved \subseteq members
        /\ ~job.appends => members \subseteq Target \cup moved
    BY <2>1 DEF RunInv, Pending, Listed
  <2>4. Listed(job.connected) \ moved \subseteq members
    BY <2>3 DEF Target, Listed
  <2>. QED
    BY <2>1, <2>2, <2>3, <2>4 DEF DoneMeansAsked, Target, Keeps, Replaces
<1>4. UnchangedIsTrue'
  <2>. SUFFICES ASSUME ~changed PROVE UnchangedIsTrue'
    BY DEF Finish, UnchangedIsTrue
  <2>1. /\ config = found.config /\ config # None /\ ~Different(job.asked, config)
        /\ \A c \in Container \ moved : c \in members <=> c \in found.members
        /\ \A r \in wanted : r.container \in found.members
    BY DEF RunInv, Quiet, Finish
  <2>2. job.state = "present"
    BY DEF RunInv, Intent, Finish
  <2>3. HasAsked(job.asked, config) /\ Listed(job.connected) \subseteq found.members
    BY <2>1, MatchingConfig, TargetIsWanted DEF RunInv, Finish, Target, Listed
  <2>4. ASSUME ~job.appends, job.connected # {}, NEW c \in found.members
        PROVE  c \in Listed(job.connected)
    <3>1. wanted = job.connected /\ Missing = {} /\ c \in existing.members
      BY <2>4 DEF RunInv, Intent, Quiet, Finish
    <3>. DEFINE r == [container |-> c, by |-> "name"]
    <3>2. r \in ByName(existing.members) /\ r.container = c
      BY <3>1 DEF ByName
    <3>3. r \in job.connected
      BY <2>4, <3>1, <3>2 DEF Missing
    <3>. QED
      BY <3>2, <3>3 DEF Listed
  <2>5. /\ config' = config /\ members' = members
        /\ UNCHANGED <<job, found, moved>>
    BY DEF Finish, network
  <2>. QED
    BY <2>1, <2>2, <2>3, <2>4, <2>5 DEF UnchangedIsTrue
<1>. QED
  BY <1>1, <1>2, <1>3, <1>4 DEF RunInv

\* Disconnecting a container keeps what the run knows of the ones left to do.
LEMMA DisconnectRun == ASSUME TypeOK, RunInv, Disconnect PROVE RunInv'
<1>1. CASE pc' = "failed"
  BY <1>1 DEF RunInv, Intent, Seen, Pending, Quiet, DoneMeansAsked, UnchangedIsTrue
<1>2. CASE pc' # "failed"
  <2>1. PICK r \in todo :
          /\ members' = IF job.check THEN members ELSE members \ {r.container}
          /\ todo' = todo \ {r} /\ changed' = TRUE /\ UNCHANGED pc
    BY <1>2 DEF Disconnect
  <2>2. pc \in {"disconnect", "missing"} /\ UNCHANGED <<config, job, existing, wanted, found, moved>>
    BY DEF Disconnect
  <2>3. Intent' /\ Seen'
    BY <2>1, <2>2 DEF TypeOK, RunInv, Intent, Seen, MustRemove
  <2>4. Quiet' /\ DoneMeansAsked' /\ UnchangedIsTrue'
    BY <2>1, <2>2 DEF Quiet, DoneMeansAsked, UnchangedIsTrue
  <2>5. Pending'
    <3>. SUFFICES ASSUME ~job.check, pc = "missing" PROVE Pending'
      BY <2>1, <2>2 DEF Pending
    <3>1. r \in Missing
      BY DEF RunInv, Pending
    <3>2. r.by = "name" /\ r \notin wanted /\ r.container \in existing.members
      BY <3>1 DEF Missing, ByName
    <3>3. r.container \notin Target \ moved
      <4>1. ASSUME NEW q \in wanted, q.container = r.container, r.container \notin moved
            PROVE  FALSE
        <5>1. q \in Ref /\ r \in Ref
          BY DEF TypeOK
        <5>2. q.by = "name"
          BY <4>1, <5>1, <3>2 DEF RunInv, Pending, Ref
        <5>. QED
          BY <4>1, <5>1, <5>2, <3>2 DEF Ref
      <4>. QED
        BY <4>1, TargetIsWanted DEF RunInv, Listed
    <3>4. Target' = Target /\ Missing' = Missing /\ Keeps' = Keeps /\ ~Keeps
      BY <2>2, <3>1 DEF Target, Missing, Keeps, Replaces
    <3>5. Target \ moved \subseteq members'
      BY <2>1, <3>3 DEF RunInv, Pending
    <3>6. ~job.appends => members' \subseteq Target \cup moved \cup Listed(todo')
      BY <2>1 DEF RunInv, Pending, Listed
    <3>. QED
      BY <2>1, <2>2, <3>4, <3>5, <3>6 DEF RunInv, Pending
  <2>. QED
    BY <2>3, <2>4, <2>5 DEF RunInv
<1>. QED
  BY <1>1, <1>2

\* Connecting a container keeps what the run knows of the ones left to do.
LEMMA ConnectRun == ASSUME TypeOK, RunInv, Connect PROVE RunInv'
<1>1. CASE pc' = "failed"
  BY <1>1 DEF RunInv, Intent, Seen, Pending, Quiet, DoneMeansAsked, UnchangedIsTrue
<1>2. CASE pc' # "failed"
  <2>1. PICK r \in todo :
          /\ existing.there /\ todo' = todo \ {r} /\ UNCHANGED pc
          /\ \/ IsConnected(r) /\ UNCHANGED members /\ changed' = changed
             \/ job.check /\ UNCHANGED members /\ changed' = TRUE
             \/ /\ ~IsConnected(r) /\ r.container \in running \ members
                /\ members' = members \cup {r.container} /\ changed' = TRUE
    BY <1>2 DEF Connect, TypeOK
  <2>2. pc = "connect" /\ UNCHANGED <<config, job, existing, wanted, found, moved>>
    BY DEF Connect
  <2>3. r \in Ref /\ r.by \in {"name", "id"} /\ Target = Listed(wanted) /\ Target' = Target
        /\ Replaces' = Replaces
    BY <2>2, TargetIsWanted DEF TypeOK, Ref, RunInv, Target, Replaces
  <2>4. Intent' /\ DoneMeansAsked' /\ UnchangedIsTrue'
    BY <2>1, <2>2 DEF RunInv, Intent, DoneMeansAsked, UnchangedIsTrue
  <2>5. Seen'
    BY <2>1, <2>2, <2>3 DEF RunInv, Seen, Listed, IsConnected
  <2>6. Pending'
    <3>. SUFFICES ASSUME ~job.check PROVE Pending'
      BY <2>1, <2>2 DEF Pending
    <3>1. r.container \in members' \cup moved
      BY <2>1, <2>2 DEF RunInv, Seen, IsConnected
    <3>2. r.by = "id" => r.container \notin existing.members \ moved
      BY <2>1, <2>2 DEF RunInv, Seen, IsConnected
    <3>. QED
      BY <2>1, <2>2, <3>1, <3>2 DEF RunInv, Pending
  <2>7. Quiet'
    BY <2>1, <2>2 DEF RunInv, Quiet, IsConnected
  <2>. QED
    BY <2>4, <2>5, <2>6, <2>7 DEF RunInv
<1>. QED
  BY <1>1, <1>2

\* Choosing whom to disconnect, once all are connected, keeps what the run knows.
LEMMA ConnectedRun == ASSUME TypeOK, RunInv, Connected PROVE RunInv'
<1>1. /\ pc = "connect" /\ todo = {} /\ pc' = "missing" /\ todo' = Missing
      /\ UNCHANGED <<network, job, existing, wanted, changed, found, moved>>
  BY DEF Connected
<1>2. /\ Target = Listed(wanted) /\ Target' = Target /\ Missing' = Missing
      /\ Replaces' = Replaces /\ Keeps' = Keeps
  BY <1>1, TargetIsWanted DEF RunInv, Target, Missing, Replaces, Keeps
<1>3. Intent' /\ Seen' /\ Quiet' /\ DoneMeansAsked' /\ UnchangedIsTrue'
  BY <1>1, <1>2 DEF RunInv, Intent, Seen, Quiet, DoneMeansAsked, UnchangedIsTrue, network
<1>4. Pending'
  <2>. SUFFICES ASSUME ~job.check PROVE Pending'
    BY <1>1 DEF Pending
  <2>1. Target \ moved \subseteq members
    BY <1>1, <1>2 DEF RunInv, Pending, Listed
  <2>2. ~job.appends => members \subseteq Target \cup moved \cup Listed(Missing)
    <3>. SUFFICES ASSUME ~job.appends, NEW c \in members, c \notin Target, c \notin moved
                  PROVE  c \in Listed(Missing)
      OBVIOUS
    <3>1. c \in existing.members
      BY <1>1 DEF RunInv, Seen
    <3>. DEFINE r == [container |-> c, by |-> "name"]
    <3>2. r \in ByName(existing.members) /\ r.container = c
      BY <3>1 DEF ByName
    <3>3. r \notin wanted
      BY <1>2, <3>2 DEF Listed
    <3>. QED
      BY <3>2, <3>3 DEF Missing, Listed
  <2>3. Keeps => found.members \ moved \subseteq members
    BY <1>1, <2>1 DEF RunInv, Seen, Keeps, Target
  <2>4. \A r \in wanted : r.by = "id" => r.container \notin existing.members \ moved
    BY <1>1 DEF RunInv, Pending
  <2>. QED
    BY <1>1, <1>2, <2>1, <2>2, <2>3, <2>4 DEF Pending, network
<1>. QED
  BY <1>3, <1>4 DEF RunInv

\* What others do to the containers meanwhile keeps what the run knows.
LEMMA MoveRun == ASSUME TypeOK, RunInv, Move PROVE RunInv'
<1>1. PICK c \in Container :
        /\ moved' = moved \cup {c}
        /\ members' = members \cup {c} \/ members' = members \ {c}
        /\ UNCHANGED <<config, pc, job, existing, wanted, todo, changed, found>>
  BY DEF Move, run
<1>2. /\ Target' = Target /\ Missing' = Missing /\ MustRemove' = MustRemove
      /\ Replaces' = Replaces /\ Keeps' = Keeps
  BY <1>1 DEF Target, Missing, MustRemove, Different, Replaces, Keeps
<1>3. Intent' /\ Seen'
  BY <1>1, <1>2 DEF RunInv, Intent, Seen, HasAsked
<1>4. Pending'
  BY <1>1, <1>2 DEF RunInv, Pending
<1>5. Quiet'
  BY <1>1, <1>2 DEF RunInv, Quiet, Different
<1>6. DoneMeansAsked' /\ UnchangedIsTrue'
  BY <1>1, <1>2 DEF RunInv, DoneMeansAsked, UnchangedIsTrue, HasAsked
<1>. QED
  BY <1>3, <1>4, <1>5, <1>6 DEF RunInv

\* What a run knows of the network is inductive.
LEMMA RunStep == TypeOK /\ RunInv /\ [Next]_vars => RunInv'
<1>. SUFFICES ASSUME TypeOK, RunInv, [Next]_vars PROVE RunInv'
  OBVIOUS
<1>1. CASE Begin \/ Crash
  BY <1>1 DEF Begin, Crash, RunInv, Intent, Seen, Pending, Quiet, DoneMeansAsked,
              UnchangedIsTrue
<1>2. CASE UNCHANGED vars
  BY <1>2 DEF vars, network, run, RunInv, Intent, Seen, Pending, Quiet, DoneMeansAsked,
              UnchangedIsTrue, Target, Missing, MustRemove, Replaces, Keeps
<1>. QED
  BY <1>1, <1>2, FindRun, ListRun, DisconnectRun, RemoveRun, CreateRun, InspectRun,
     ConnectRun, ConnectedRun, FinishRun, MoveRun DEF Next, Task

\* In every state of every run, what it knows of the network is so.
LEMMA RunInvariant == Spec => [](TypeOK /\ RunInv)
<1>1. Init => RunInv
  BY NothingPromised DEF Init
<1>2. (TypeOK /\ RunInv) /\ [Next]_vars => (TypeOK /\ RunInv)'
  BY TypeStep, RunStep
<1>. QED
  BY <1>1, <1>2, TypeInit, PTL DEF Spec

\* A run that succeeds leaves the network and the connections asked for, but
\* for containers that moved meanwhile, and whatever ended early before.
THEOREM SuccessIsAsAsked == Spec => []DoneMeansAsked
<1>1. RunInv => DoneMeansAsked
  BY DEF RunInv
<1>. QED
  BY <1>1, RunInvariant, PTL

\* A run that has no reason to remove the network disconnects nobody, but those
\* that its complete list does not name.
THEOREM OnlyAskedDisconnect == Spec => DisconnectsOnlyAsked
<1>. DEFINE A == Task => \A c \in members \ (members' \cup moved) :
          /\ ~job.check
          /\ MustRemove \/ (~job.appends /\ c \notin Listed(job.connected))
<1>1. TypeOK /\ RunInv /\ [Next]_vars => [A]_vars
  <2>. SUFFICES ASSUME TypeOK, RunInv, Task,
                       NEW c \in members, c \notin members', c \notin moved
                PROVE  /\ ~job.check
                       /\ MustRemove \/ (~job.appends /\ c \notin Listed(job.connected))
    OBVIOUS
  <2>1. Disconnect
    BY DEF Task, Find, List, Remove, Create, Inspect, Connect, Connected, Finish, network
  <2>2. PICK r \in todo : ~job.check /\ members' = members \ {r.container}
    BY <2>1 DEF Disconnect
  <2>3. CASE pc = "disconnect"
    BY <2>2, <2>3 DEF RunInv, Intent
  <2>4. CASE pc = "missing"
    <3>1. r.container = c /\ r \in Missing
      BY <2>2, <2>4 DEF RunInv, Pending
    <3>2. ~job.appends /\ r.by = "name" /\ r \notin wanted /\ c \in existing.members
      BY <3>1 DEF Missing, ByName
    <3>3. c \notin Listed(wanted)
      <4>1. ASSUME NEW q \in wanted, q.container = c
            PROVE  FALSE
        <5>1. q \in Ref /\ r \in Ref
          BY DEF TypeOK
        <5>2. q.by = "name"
          BY <2>2, <2>4, <4>1, <5>1, <3>2 DEF RunInv, Pending, Ref
        <5>. QED
          BY <4>1, <5>1, <5>2, <3>1, <3>2 DEF Ref
      <4>. QED
        BY <4>1 DEF Listed
    <3>4. Target = Listed(wanted)
      BY <2>4, TargetIsWanted DEF RunInv
    <3>. QED
      BY <2>2, <3>2, <3>3, <3>4 DEF Target, Listed
  <2>. QED
    BY <2>1, <2>3, <2>4 DEF Disconnect
<1>. QED
  BY <1>1, RunInvariant, PTL DEF Spec, DisconnectsOnlyAsked

\* A run, in check mode or not, that reports no change found all as asked.
THEOREM NoChangeIsTrue == Spec => []UnchangedIsTrue
<1>1. RunInv => UnchangedIsTrue
  BY DEF RunInv
<1>. QED
  BY <1>1, RunInvariant, PTL

=============================================================================
