------------------------- MODULE CloudLifecycleProofs -------------------------
(***************************************************************************)
(* Theorems about CloudLifecycle, for any hosts, addresses and number of   *)
(* faults: its types, ReachesOwn and DoneMeansUp.                          *)
(***************************************************************************)
EXTENDS CloudLifecycle, TLAPS

\* The playbook has not come to its lookup.
Unseen == \/ kind = "provision" /\ step < 2
          \/ kind = "freeipa" /\ step < 4
          \/ kind = "destroy" /\ step < 3

\* Nothing is known before the lookup.
FactInv == Unseen => \A h \in Host : fact[h] = None

\* An address that was found is the droplet's, or nobody's.
OwnInv ==
    \A h \in Host : fact[h] # None =>
        /\ Listed(h) => address[h] = fact[h]
        /\ \A g \in Host : address[g] = fact[h] => g = h

\* The playbook has updated the entries.
Updated == \/ kind = "provision" /\ step > 3
           \/ kind = "freeipa" /\ step > 5

\* Then all are as they were found, or there is none.
EntryInv ==
    Updated /\ alive # {} =>
        \/ \A h \in Host : entry[h] = None
        \/ \A h \in Host : entry[h] = fact[h] /\ fact[h] # None

\* A host has come past a task at this place of a playbook.
Past(h, n) == step > n \/ (step = n /\ h \notin todo)

AttachDone(h) == (kind = "provision" /\ Past(h, 5)) \/ (kind = "freeipa" /\ Past(h, 3))

\* The volume is attached to a droplet that stays.
VolumeInv ==
    \A h \in alive : AttachDone(h) /\ droplet[h] = "up" => volume[h][Purpose] = "attached"

\* A host at the end of the playbook was reached.
ConnectInv == \A h \in alive : kind # "destroy" /\ Past(h, 6) => entry[h] # None

CloudInv == TypeOK /\ FactInv /\ OwnInv /\ EntryInv /\ VolumeInv /\ ConnectInv

-----------------------------------------------------------------------------
(* How a play moves.                                                       *)

\* Where each task has its place.
LEMMA Places ==
    ASSUME TypeOK, ~Ended
    PROVE  /\ step \in 1 .. 6 /\ (kind = "destroy" => step < 5)
           /\ Task = "create" <=> kind = "provision" /\ step = 1
           /\ Task = "gather" <=> kind = "freeipa" /\ step = 1
           /\ Task = "destroy" <=> kind = "destroy" /\ step = 1
           /\ Task = "delete" <=> kind = "destroy" /\ step = 2
           /\ Task = "lookup" <=> \/ kind = "provision" /\ step = 2
                                  \/ kind = "freeipa" /\ step = 4
                                  \/ kind = "destroy" /\ step = 3
           /\ Task = "entries" <=> \/ kind = "provision" /\ step = 3
                                   \/ kind = "freeipa" /\ step = 5
                                   \/ kind = "destroy" /\ step = 4
           /\ Task = "volume" <=> \/ kind = "provision" /\ step = 4
                                  \/ kind = "freeipa" /\ step = 2
           /\ Task = "attach" <=> \/ kind = "provision" /\ step = 5
                                  \/ kind = "freeipa" /\ step = 3
           /\ Task = "connect" <=> kind # "destroy" /\ step = 6
<1>1. kind \in {"provision", "freeipa", "destroy"}
  BY DEF TypeOK, Kinds, Path
<1>2. CASE kind = "provision"
  <2>1. Path[kind] = <<"create", "lookup", "entries", "volume", "attach", "connect">>
    BY <1>2 DEF Path
  <2>2. step \in 1 .. 6
    BY <2>1 DEF TypeOK, Ended
  <2>3. Task = <<"create", "lookup", "entries", "volume", "attach", "connect">>[step]
    BY <2>1 DEF Task
  <2>4. QED  BY <2>2, <2>3, <1>2
<1>3. CASE kind = "freeipa"
  <2>1. Path[kind] = <<"gather", "volume", "attach", "lookup", "entries", "connect">>
    BY <1>3 DEF Path
  <2>2. step \in 1 .. 6
    BY <2>1 DEF TypeOK, Ended
  <2>3. Task = <<"gather", "volume", "attach", "lookup", "entries", "connect">>[step]
    BY <2>1 DEF Task
  <2>4. QED  BY <2>2, <2>3, <1>3
<1>4. CASE kind = "destroy"
  <2>1. Path[kind] = <<"destroy", "delete", "lookup", "entries">>
    BY <1>4 DEF Path
  <2>2. step \in 1 .. 4
    BY <2>1 DEF TypeOK, Ended
  <2>3. Task = <<"destroy", "delete", "lookup", "entries">>[step]
    BY <2>1 DEF Task
  <2>4. QED  BY <2>2, <2>3, <1>4
<1>5. QED  BY <1>1, <1>2, <1>3, <1>4

\* What is left of the types when a host moves.
PlayTypes ==
    /\ kind \in Kinds /\ only \subseteq Host
    /\ step \in Nat \ {0} /\ todo \subseteq alive /\ alive \subseteq only

\* A host that leaves a task leaves the play well typed; no host comes past a
\* task but by doing it.
LEMMA Moves ==
    ASSUME TypeOK, ~Ended, NEW h \in todo, Passes(h) \/ Fails(h)
    PROVE  /\ PlayTypes' /\ kind' = kind /\ alive' \subseteq alive
           /\ step' \in {step, step + 1}
           /\ \A g \in alive', n \in Nat : Past(g, n)' => Past(g, n) \/ (g = h /\ step = n)
<1>1. step \in Nat \ {0} /\ todo \subseteq alive /\ alive \subseteq only /\ only \subseteq Host
  BY DEF TypeOK
<1>2. kind' = kind /\ only' = only /\ alive' \in {alive, alive \ {h}}
  BY DEF Passes, Fails
<1>3. \/ todo = {h} /\ step' = step + 1 /\ todo' = alive'
      \/ todo # {h} /\ step' = step /\ todo' = todo \ {h}
  BY DEF Passes, Fails, Leaves
<1>4. PlayTypes'
  <2>1. todo' \subseteq alive'
    BY <1>1, <1>2, <1>3
  <2>2. QED  BY <1>1, <1>2, <1>3, <2>1 DEF PlayTypes, TypeOK
<1>5. ASSUME NEW g \in alive', NEW n \in Nat, Past(g, n)'
      PROVE  Past(g, n) \/ (g = h /\ step = n)
  BY <1>1, <1>3, <1>5 DEF Past
<1>6. QED  BY <1>1, <1>2, <1>3, <1>4, <1>5

\* So no host comes past the attachment, the entries or the end on the way.
LEMMA HostMoves ==
    ASSUME TypeOK, ~Ended, Task # "entries", NEW h \in todo, Passes(h) \/ Fails(h)
    PROVE  /\ PlayTypes' /\ kind' = kind /\ alive' \subseteq alive
           /\ Unseen' => Unseen
           /\ Updated' => Updated
           /\ \A g \in alive' : AttachDone(g)' => AttachDone(g) \/ (g = h /\ Task = "attach")
           /\ \A g \in alive' : kind' # "destroy" /\ Past(g, 6)' =>
                 Past(g, 6) \/ (g = h /\ Task = "connect")
<1>1. /\ PlayTypes' /\ kind' = kind /\ alive' \subseteq alive
      /\ step' \in {step, step + 1}
      /\ \A g \in alive', n \in Nat : Past(g, n)' => Past(g, n) \/ (g = h /\ step = n)
  BY Moves
<1>2. step \in 1 .. 6
  BY Places
<1>3. Unseen' => Unseen
  BY <1>1, <1>2 DEF Unseen
<1>4. Updated' => Updated
  BY <1>1, <1>2, Places DEF Updated
<1>5. ASSUME NEW g \in alive', AttachDone(g)'
      PROVE  AttachDone(g) \/ (g = h /\ Task = "attach")
  <2>1. CASE kind = "provision"
    <3>1. Past(g, 5)'
      BY <2>1, <1>5, <1>1 DEF AttachDone
    <3>2. Past(g, 5) \/ (g = h /\ step = 5)
      BY <3>1, <1>1
    <3>3. QED  BY <3>2, <2>1, Places DEF AttachDone
  <2>2. CASE kind = "freeipa"
    <3>1. Past(g, 3)'
      BY <2>2, <1>5, <1>1 DEF AttachDone
    <3>2. Past(g, 3) \/ (g = h /\ step = 3)
      BY <3>1, <1>1
    <3>3. QED  BY <3>2, <2>2, Places DEF AttachDone
  <2>3. QED  BY <2>1, <2>2, <1>5, <1>1 DEF AttachDone
<1>6. ASSUME NEW g \in alive', kind' # "destroy", Past(g, 6)'
      PROVE  Past(g, 6) \/ (g = h /\ Task = "connect")
  <2>1. Past(g, 6) \/ (g = h /\ step = 6)
    BY <1>1, <1>6
  <2>2. QED  BY <2>1, <1>1, <1>6, Places
<1>7. QED  BY <1>1, <1>3, <1>4, <1>5, <1>6

-----------------------------------------------------------------------------
(* The invariant.                                                          *)

\* At first there is nothing.
LEMMA InitInv == Init => CloudInv
BY BoundAssumption, AddressAssumption
   DEF Init, CloudInv, TypeOK, FactInv, OwnInv, EntryInv, Updated, VolumeInv, AttachDone,
       ConnectInv, Past, Kinds, Path, Purposes, Listed

\* A new play knows nothing, and has everything to do.
LEMMA PlayStep ==
    ASSUME CloudInv, Play
    PROVE  CloudInv'
<1> USE DEF CloudInv, Play, cloud
<1>1. TypeOK'
  BY DEF TypeOK, Listed
<1>2. FactInv' /\ OwnInv'
  BY DEF FactInv, OwnInv
<1>3. step' = 1 /\ todo' = alive'
  OBVIOUS
<1>4. EntryInv'
  BY <1>3 DEF EntryInv, Updated
<1>5. VolumeInv'
  BY <1>3 DEF VolumeInv, AttachDone, Past
<1>6. ConnectInv'
  BY <1>3 DEF ConnectInv, Past
<1>7. QED  BY <1>1, <1>2, <1>4, <1>5, <1>6

\* The droplet that is found or created is not known to this play yet.
LEMMA CreateStep ==
    ASSUME CloudInv, NEW h \in Host, Create(h)
    PROVE  CloudInv'
<1>0. TypeOK /\ ~Ended /\ Task = "create" /\ h \in todo /\ (Passes(h) \/ Fails(h))
  BY DEF CloudInv, Create, At
<1>1. /\ PlayTypes' /\ kind' = kind /\ alive' \subseteq alive
      /\ Unseen' => Unseen
      /\ Updated' => Updated
      /\ \A g \in alive' : AttachDone(g)' => AttachDone(g)
      /\ \A g \in alive' : kind' # "destroy" /\ Past(g, 6)' => Past(g, 6)
  BY <1>0, HostMoves
<1>2. kind = "provision" /\ step = 1
  BY <1>0, Places
<1>3. UNCHANGED <<volume, entry, fact>> /\ faults' \in {faults, faults + 1}
  BY DEF Create, Fault
<1>4. TypeOK'
  <2>1. CASE Listed(h)
    BY <2>1, <1>0, <1>1, <1>3 DEF Create, TypeOK, PlayTypes, Listed
  <2>2. CASE ~Listed(h)
    <3>1. PICK a \in Addresses \ {address[g] : g \in Host} :
              address' = [address EXCEPT ![h] = a]
      BY <2>2 DEF Create
    <3>2. droplet' = [droplet EXCEPT ![h] = "up"]
      BY <2>2 DEF Create
    <3>3. faults' \in 0 .. MaxFaults
      BY <1>0, BoundAssumption DEF Create, Fault, TypeOK
    <3>4. /\ droplet' \in [Host -> {"none", "up", "dying"}]
          /\ address' \in [Host -> Addresses \cup {None}]
      BY <3>1, <3>2, <1>0 DEF TypeOK
    <3>5. \A g \in Host : /\ address'[g] = None <=> droplet'[g] = "none"
                          /\ \A p \in Purposes : volume'[g][p] = "attached" => droplet'[g] # "none"
      BY <3>1, <3>2, <1>0, <1>3, AddressAssumption DEF TypeOK, Listed
    <3>6. \A f, g \in Host : address'[f] = address'[g] => f = g \/ address'[f] = None
      BY <3>1, <1>0 DEF TypeOK
    <3>7. QED  BY <3>3, <3>4, <3>5, <3>6, <1>0, <1>1, <1>3 DEF TypeOK, PlayTypes, Listed
  <2>3. QED  BY <2>1, <2>2
<1>5. \A g \in Host : fact[g] = None
  BY <1>2 DEF CloudInv, FactInv, Unseen
<1>6. FactInv' /\ OwnInv'
  BY <1>5, <1>3 DEF FactInv, OwnInv
<1>7. ~Updated' /\ \A g \in alive' : ~AttachDone(g)'
  BY <1>1, <1>2 DEF Updated, AttachDone, Past
<1>8. EntryInv' /\ VolumeInv'
  BY <1>7 DEF EntryInv, VolumeInv
<1>9. ConnectInv'
  BY <1>1, <1>3 DEF CloudInv, ConnectInv
<1>10. QED  BY <1>4, <1>6, <1>8, <1>9 DEF CloudInv

\* A task that takes no droplet up, and neither looks up, connects nor attaches,
\* leaves the invariant to the types.
LEMMA PlainStep ==
    ASSUME CloudInv, TypeOK', ~Ended, NEW h \in todo, Passes(h) \/ Fails(h),
           Task \notin {"entries", "connect", "attach"}, UNCHANGED <<address, entry, fact>>,
           \A g \in Host : /\ Listed(g)' => Listed(g)
                           /\ droplet[g]' = "up" => droplet[g] = "up"
                           /\ volume[g][Purpose] = "attached" => volume'[g][Purpose] = "attached"
    PROVE  CloudInv'
<1>1. /\ PlayTypes' /\ kind' = kind /\ alive' \subseteq alive
      /\ Unseen' => Unseen
      /\ Updated' => Updated
      /\ \A g \in alive' : AttachDone(g)' => AttachDone(g)
      /\ \A g \in alive' : kind' # "destroy" /\ Past(g, 6)' => Past(g, 6)
  BY HostMoves DEF CloudInv
<1>2. FactInv'
  BY <1>1 DEF CloudInv, FactInv
<1>3. OwnInv'
  BY DEF CloudInv, OwnInv
<1>4. EntryInv'
  BY <1>1 DEF CloudInv, EntryInv
<1>5. VolumeInv'
  BY <1>1 DEF CloudInv, VolumeInv, Purpose, TypeOK
<1>6. ConnectInv'
  BY <1>1 DEF CloudInv, ConnectInv
<1>7. QED  BY <1>2, <1>3, <1>4, <1>5, <1>6 DEF CloudInv

\* One volume changes.
LEMMA OneVolume ==
    ASSUME TypeOK, NEW h \in Host, NEW p \in Purposes, NEW s \in {"none", "free", "attached"},
           SetVolume(h, p, s)
    PROVE  /\ volume' \in [Host -> [Purposes -> {"none", "free", "attached"}]]
           /\ \A g \in Host, q \in Purposes :
                 volume'[g][q] = IF g = h /\ q = p THEN s ELSE volume[g][q]
<1>1. volume \in [Host -> [Purposes -> {"none", "free", "attached"}]]
  BY DEF TypeOK
<1>2. volume' = [volume EXCEPT ![h] = [volume[h] EXCEPT ![p] = s]]
  BY <1>1 DEF SetVolume
<1>3. [volume[h] EXCEPT ![p] = s] \in [Purposes -> {"none", "free", "attached"}]
  BY <1>1
<1>4. volume' \in [Host -> [Purposes -> {"none", "free", "attached"}]]
  BY <1>1, <1>2, <1>3
<1>5. ASSUME NEW g \in Host, NEW q \in Purposes
      PROVE  volume'[g][q] = IF g = h /\ q = p THEN s ELSE volume[g][q]
  BY <1>1, <1>2
<1>6. QED  BY <1>4, <1>5

\* A volume that is created is attached to nothing yet.
LEMMA CreateVolumeStep ==
    ASSUME CloudInv, NEW h \in Host, CreateVolume(h)
    PROVE  CloudInv'
<1>0. TypeOK /\ ~Ended /\ Task = "volume" /\ h \in todo /\ (Passes(h) \/ Fails(h))
  BY DEF CloudInv, CreateVolume, At
<1>1. PlayTypes' /\ kind' = kind
  BY <1>0, HostMoves
<1>2. Purpose \in Purposes
  BY DEF Purpose, Purposes
<1>3. UNCHANGED <<droplet, address, entry, fact, faults>>
  BY DEF CreateVolume
<1>4. \/ volume' = volume
      \/ volume[h][Purpose] = "none" /\ SetVolume(h, Purpose, "free")
  BY DEF CreateVolume
<1>5. /\ volume' \in [Host -> [Purposes -> {"none", "free", "attached"}]]
      /\ \A g \in Host, p \in Purposes : volume'[g][p] = "attached" <=> volume[g][p] = "attached"
  <2>1. CASE volume' = volume
    BY <2>1, <1>0 DEF TypeOK
  <2>2. CASE volume[h][Purpose] = "none" /\ SetVolume(h, Purpose, "free")
    BY <2>2, <1>0, <1>2, OneVolume
  <2>3. QED  BY <1>4, <2>1, <2>2
<1>6. TypeOK'
  BY <1>0, <1>1, <1>3, <1>5 DEF TypeOK, PlayTypes, Listed
<1>7. QED  BY <1>0, <1>1, <1>2, <1>3, <1>5, <1>6, PlainStep DEF Purpose, Listed

\* The first connection of freeipa.yaml changes nothing of this.
LEMMA GatherStep ==
    ASSUME CloudInv, NEW h \in Host, Gather(h)
    PROVE  CloudInv'
<1>0. TypeOK /\ ~Ended /\ Task = "gather" /\ h \in todo /\ (Passes(h) \/ Fails(h))
  BY DEF CloudInv, Gather, Reach, At
<1>1. PlayTypes' /\ kind' = kind
  BY <1>0, HostMoves
<1>2. UNCHANGED <<cloud, entry, fact, faults>>
  BY DEF Gather, Reach
<1>3. TypeOK'
  BY <1>0, <1>1, <1>2 DEF TypeOK, PlayTypes, Listed, cloud
<1>4. QED  BY <1>0, <1>1, <1>2, <1>3, PlainStep DEF Listed, cloud

\* A droplet that is destroyed keeps its address until it is gone.
LEMMA DestroyStep ==
    ASSUME CloudInv, NEW h \in Host, Destroy(h)
    PROVE  CloudInv'
<1>0. TypeOK /\ ~Ended /\ Task = "destroy" /\ h \in todo /\ (Passes(h) \/ Fails(h))
  BY DEF CloudInv, Destroy, At
<1>1. PlayTypes' /\ kind' = kind
  BY <1>0, HostMoves
<1>2. UNCHANGED <<address, volume, entry, fact, faults>>
  BY DEF Destroy
<1>3. droplet' = droplet \/ (droplet[h] = "up" /\ droplet' = [droplet EXCEPT ![h] = "dying"])
  BY DEF Destroy
<1>4. /\ droplet' \in [Host -> {"none", "up", "dying"}]
      /\ \A g \in Host : /\ droplet'[g] = "none" <=> droplet[g] = "none"
                         /\ droplet'[g] = "up" => droplet[g] = "up"
  BY <1>0, <1>3 DEF TypeOK
<1>5. TypeOK'
  BY <1>0, <1>1, <1>2, <1>4 DEF TypeOK, PlayTypes, Listed
<1>6. QED  BY <1>0, <1>1, <1>2, <1>4, <1>5, PlainStep DEF Listed

\* The data volume goes in a play that promises nothing of it.
LEMMA DeleteStep ==
    ASSUME CloudInv, NEW h \in Host, Delete(h)
    PROVE  CloudInv'
<1>0. TypeOK /\ ~Ended /\ Task = "delete" /\ h \in todo /\ (Passes(h) \/ Fails(h))
  BY DEF CloudInv, Delete, At
<1>1. /\ PlayTypes' /\ kind' = kind /\ alive' \subseteq alive
      /\ Unseen' => Unseen
  BY <1>0, HostMoves
<1>2. kind = "destroy"
  BY <1>0, Places
<1>3. UNCHANGED <<droplet, address, entry, fact, faults>>
  BY DEF Delete
<1>4. volume' = volume \/ SetVolume(h, "data", "none")
  BY DEF Delete
<1>5. /\ volume' \in [Host -> [Purposes -> {"none", "free", "attached"}]]
      /\ \A g \in Host, p \in Purposes : volume'[g][p] = "attached" => volume[g][p] = "attached"
  <2>1. "data" \in Purposes
    BY DEF Purposes
  <2>2. CASE volume' = volume
    BY <2>2, <1>0 DEF TypeOK
  <2>3. CASE SetVolume(h, "data", "none")
    BY <2>1, <2>3, <1>0, OneVolume
  <2>4. QED  BY <1>4, <2>2, <2>3
<1>6. TypeOK'
  BY <1>0, <1>1, <1>3, <1>5 DEF TypeOK, PlayTypes, Listed
<1>7. FactInv' /\ OwnInv'
  BY <1>1, <1>3 DEF CloudInv, FactInv, OwnInv, Listed
<1>8. EntryInv' /\ VolumeInv' /\ ConnectInv'
  BY <1>1, <1>2 DEF EntryInv, Updated, VolumeInv, AttachDone, ConnectInv
<1>9. QED  BY <1>6, <1>7, <1>8 DEF CloudInv

\* What is attached is attached to the droplet of that name.
LEMMA AttachStep ==
    ASSUME CloudInv, NEW h \in Host, Attach(h)
    PROVE  CloudInv'
<1>0. TypeOK /\ ~Ended /\ Task = "attach" /\ h \in todo /\ (Passes(h) \/ Fails(h))
  BY DEF CloudInv, Attach, At
<1>1. /\ PlayTypes' /\ kind' = kind /\ alive' \subseteq alive
      /\ Unseen' => Unseen
      /\ Updated' => Updated
      /\ \A g \in alive' : AttachDone(g)' => AttachDone(g) \/ g = h
      /\ \A g \in alive' : kind' # "destroy" /\ Past(g, 6)' => Past(g, 6)
  BY <1>0, HostMoves
<1>2. UNCHANGED <<droplet, address, entry, fact, faults>>
  BY DEF Attach
<1>3. Purpose \in Purposes /\ Purpose' = Purpose
  BY <1>1 DEF Purpose, Purposes
<1>4. \/ Listed(h) /\ SetVolume(h, Purpose, "attached")
      \/ droplet[h] # "up" /\ volume' = volume
  BY DEF Attach
<1>5. /\ volume' \in [Host -> [Purposes -> {"none", "free", "attached"}]]
      /\ \A g \in Host, p \in Purposes :
            /\ volume[g][p] = "attached" => volume'[g][p] = "attached"
            /\ volume'[g][p] = "attached" => Listed(g)
  <2>1. CASE volume' = volume
    BY <2>1, <1>0 DEF TypeOK
  <2>2. CASE Listed(h) /\ SetVolume(h, Purpose, "attached")
    BY <2>2, <1>0, <1>3, OneVolume DEF TypeOK
  <2>3. QED  BY <1>4, <2>1, <2>2
<1>6. TypeOK'
  BY <1>0, <1>1, <1>2, <1>5 DEF TypeOK, PlayTypes, Listed
<1>7. FactInv' /\ OwnInv'
  BY <1>1, <1>2 DEF CloudInv, FactInv, OwnInv, Listed
<1>8. EntryInv' /\ ConnectInv'
  BY <1>1, <1>2 DEF CloudInv, EntryInv, ConnectInv
<1>9. VolumeInv'
  <2>1. ASSUME NEW g \in alive', AttachDone(g)', droplet'[g] = "up"
        PROVE  volume'[g][Purpose] = "attached"
    <3>1. g \in Host /\ g \in alive /\ droplet[g] = "up"
      BY <2>1, <1>0, <1>1, <1>2 DEF TypeOK
    <3>2. CASE g = h
      BY <3>1, <3>2, <1>0, <1>3, <1>4, OneVolume
    <3>3. CASE AttachDone(g)
      BY <3>1, <3>3, <1>3, <1>5 DEF CloudInv, VolumeInv
    <3>4. QED  BY <3>2, <3>3, <2>1, <1>1
  <2>2. QED  BY <2>1, <1>3 DEF VolumeInv
<1>10. QED  BY <1>6, <1>7, <1>8, <1>9 DEF CloudInv

\* Only an entry lets a host be reached.
LEMMA ConnectStep ==
    ASSUME CloudInv, NEW h \in Host, Connect(h)
    PROVE  CloudInv'
<1>0. TypeOK /\ ~Ended /\ Task = "connect" /\ h \in todo /\ (Passes(h) \/ Fails(h))
  BY DEF CloudInv, Connect, Reach, At
<1>1. /\ PlayTypes' /\ kind' = kind /\ alive' \subseteq alive
      /\ Unseen' => Unseen
      /\ Updated' => Updated
      /\ \A g \in alive' : AttachDone(g)' => AttachDone(g)
      /\ \A g \in alive' : kind' # "destroy" /\ Past(g, 6)' => Past(g, 6) \/ g = h
  BY <1>0, HostMoves
<1>2. UNCHANGED <<cloud, entry, fact, faults>>
  BY DEF Connect, Reach
<1>3. h \in alive' => entry[h] # None
  BY <1>0 DEF Connect, Reach, Fails
<1>4. TypeOK'
  BY <1>0, <1>1, <1>2 DEF TypeOK, PlayTypes, Listed, cloud
<1>5. FactInv' /\ OwnInv'
  BY <1>1, <1>2 DEF CloudInv, FactInv, OwnInv, Listed, cloud
<1>6. EntryInv' /\ VolumeInv'
  BY <1>1, <1>2 DEF CloudInv, EntryInv, VolumeInv, Purpose, cloud
<1>7. ConnectInv'
  BY <1>1, <1>2, <1>3 DEF CloudInv, ConnectInv
<1>8. QED  BY <1>4, <1>5, <1>6, <1>7 DEF CloudInv

\* An address that is found is one droplet's.
LEMMA LookUpStep ==
    ASSUME CloudInv, NEW h \in Host, LookUp(h)
    PROVE  CloudInv'
<1>0. TypeOK /\ ~Ended /\ Task = "lookup" /\ h \in todo /\ Passes(h)
  BY DEF CloudInv, LookUp, At
<1>1. /\ PlayTypes' /\ kind' = kind /\ alive' \subseteq alive
      /\ Updated' => Updated
      /\ \A g \in alive' : AttachDone(g)' => AttachDone(g)
      /\ \A g \in alive' : kind' # "destroy" /\ Past(g, 6)' => Past(g, 6)
  BY <1>0, HostMoves
<1>2. UNCHANGED <<cloud, entry>> /\ faults' \in 0 .. MaxFaults
  BY <1>0, BoundAssumption DEF LookUp, Fault, TypeOK
<1>3. fact' = fact \/ fact' = [fact EXCEPT ![h] = address[h]]
  BY DEF LookUp
<1>4. TypeOK'
  BY <1>0, <1>1, <1>2, <1>3 DEF TypeOK, PlayTypes, Listed, cloud
<1>5. ~Unseen' /\ ~Updated
  <2>1. step' \in {step, step + 1}
    BY <1>0, Moves
  <2>2. QED  BY <2>1, <1>0, <1>1, Places DEF Unseen, Updated
<1>6. FactInv' /\ EntryInv'
  BY <1>1, <1>5 DEF FactInv, EntryInv
<1>7. OwnInv'
  BY <1>0, <1>2, <1>3 DEF CloudInv, OwnInv, TypeOK, Listed, cloud
<1>8. VolumeInv' /\ ConnectInv'
  BY <1>1, <1>2 DEF CloudInv, VolumeInv, ConnectInv, Purpose, cloud
<1>9. QED  BY <1>4, <1>6, <1>7, <1>8 DEF CloudInv

\* The loop over the hosts takes all entries from what was found, or none.
LEMMA UpdateEntriesStep ==
    ASSUME CloudInv, UpdateEntries
    PROVE  CloudInv'
<1>0. TypeOK /\ ~Ended /\ Task = "entries"
  BY DEF CloudInv, UpdateEntries
<1>1. PICK n \in 0 .. Len(Hosts) :
          /\ GetsTo(n) /\ entry' = Written(n)
          /\ (n = Len(Hosts) /\ AllPass) \/ AllFail
  BY DEF UpdateEntries
<1>2. UNCHANGED <<cloud, fact>> /\ faults' \in 0 .. MaxFaults
  BY <1>0, BoundAssumption DEF UpdateEntries, Fault, TypeOK
<1>3. /\ PlayTypes' /\ kind' = kind /\ (alive' = alive \/ alive' = {})
      /\ step' \in {step, step + 1}
  BY <1>0, <1>1 DEF AllPass, AllFail, PlayTypes, TypeOK
<1>4. TypeOK'
  <2>1. entry' \in [Host -> Addresses \cup {None}]
    BY <1>0, <1>1 DEF Written, TypeOK
  <2>2. QED  BY <2>1, <1>0, <1>2, <1>3 DEF TypeOK, PlayTypes, Listed, cloud
<1>5. \/ kind = "provision" /\ step = 3
      \/ kind = "freeipa" /\ step = 5
      \/ kind = "destroy" /\ step = 4
  BY <1>0, Places
<1>6. FactInv' /\ OwnInv'
  BY <1>2, <1>3, <1>5 DEF CloudInv, FactInv, Unseen, OwnInv, Listed, cloud
<1>7. CASE AllFail
  BY <1>4, <1>6, <1>7 DEF AllFail, CloudInv, EntryInv, VolumeInv, ConnectInv
<1>8. CASE n = Len(Hosts) /\ AllPass
  <2>1. step' = step + 1 /\ todo' = alive /\ alive' = alive
    BY <1>8 DEF AllPass
  <2>2. Host = UpTo(n)
    BY <1>8 DEF Host, UpTo
  <2>3. \/ \A h \in Host : entry'[h] = None
        \/ \A h \in Host : entry'[h] = fact[h] /\ fact[h] # None
    BY <1>1, <2>2 DEF Written, GetsTo
  <2>4. EntryInv'
    BY <2>3, <1>2 DEF EntryInv
  <2>5. VolumeInv'
    BY <2>1, <1>2, <1>3, <1>5 DEF CloudInv, VolumeInv, AttachDone, Past, Purpose, cloud
  <2>6. ConnectInv'
    BY <2>1, <1>3, <1>5 DEF ConnectInv, Past
  <2>7. QED  BY <1>4, <1>6, <2>4, <2>5, <2>6 DEF CloudInv
<1>9. QED  BY <1>1, <1>7, <1>8

\* An address that goes back to the provider is still nobody's in this play.
LEMMA VanishStep ==
    ASSUME CloudInv, NEW h \in Host, Vanish(h)
    PROVE  CloudInv'
<1>0. TypeOK
  BY DEF CloudInv
<1>1. UNCHANGED <<entry, fact, kind, only, step, alive, todo, faults>>
  BY DEF Vanish, play
<1>2. /\ droplet' = [droplet EXCEPT ![h] = "none"]
      /\ address' = [address EXCEPT ![h] = None]
      /\ volume' = [volume EXCEPT ![h] = [p \in Purposes |->
                       IF volume[h][p] = "attached" THEN "free" ELSE volume[h][p]]]
  BY DEF Vanish
<1>3. [p \in Purposes |-> IF volume[h][p] = "attached" THEN "free" ELSE volume[h][p]]
          \in [Purposes -> {"none", "free", "attached"}]
  BY <1>0 DEF TypeOK
<1>4. TypeOK'
  <2>1. /\ droplet' \in [Host -> {"none", "up", "dying"}]
        /\ address' \in [Host -> Addresses \cup {None}]
        /\ volume' \in [Host -> [Purposes -> {"none", "free", "attached"}]]
    BY <1>0, <1>2, <1>3 DEF TypeOK
  <2>2. ASSUME NEW g \in Host
        PROVE  /\ address'[g] = None <=> droplet'[g] = "none"
               /\ \A p \in Purposes : volume'[g][p] = "attached" => droplet'[g] # "none"
    BY <1>0, <1>2 DEF TypeOK, Listed
  <2>3. \A f, g \in Host : address'[f] = address'[g] => f = g \/ address'[f] = None
    BY <1>0, <1>2 DEF TypeOK
  <2>4. QED  BY <2>1, <2>2, <2>3, <1>0, <1>1 DEF TypeOK, Listed
<1>5. FactInv' /\ EntryInv' /\ ConnectInv'
  BY <1>1 DEF CloudInv, FactInv, Unseen, EntryInv, Updated, ConnectInv, Past
<1>6. OwnInv'
  BY <1>0, <1>1, <1>2 DEF CloudInv, OwnInv, Listed, TypeOK
<1>7. VolumeInv'
  BY <1>0, <1>1, <1>2 DEF CloudInv, VolumeInv, AttachDone, Past, Purpose, TypeOK
<1>8. QED  BY <1>4, <1>5, <1>6, <1>7 DEF CloudInv

\* A host that fails leaves nothing undone that the others rest on.
LEMMA TaskFailsStep ==
    ASSUME CloudInv, NEW h \in Host, TaskFails(h)
    PROVE  CloudInv'
<1>0. TypeOK /\ ~Ended /\ Task # "entries" /\ h \in todo /\ Fails(h) /\ h \notin alive'
  BY DEF CloudInv, TaskFails, Fails
<1>1. /\ PlayTypes' /\ kind' = kind /\ alive' \subseteq alive
      /\ Unseen' => Unseen
      /\ Updated' => Updated
      /\ \A g \in alive' : AttachDone(g)' => AttachDone(g)
      /\ \A g \in alive' : kind' # "destroy" /\ Past(g, 6)' => Past(g, 6)
  BY <1>0, HostMoves
<1>2. UNCHANGED <<cloud, entry, fact>> /\ faults' \in 0 .. MaxFaults
  BY <1>0, BoundAssumption DEF TaskFails, Fault, TypeOK
<1>3. TypeOK'
  BY <1>0, <1>1, <1>2 DEF TypeOK, PlayTypes, Listed, cloud
<1>4. FactInv' /\ OwnInv'
  BY <1>1, <1>2 DEF CloudInv, FactInv, OwnInv, Listed, cloud
<1>5. EntryInv' /\ VolumeInv' /\ ConnectInv'
  BY <1>1, <1>2 DEF CloudInv, EntryInv, VolumeInv, ConnectInv, Purpose, cloud
<1>6. QED  BY <1>3, <1>4, <1>5 DEF CloudInv

\* A play that is interrupted promises nothing.
LEMMA CrashStep ==
    ASSUME CloudInv, Crash
    PROVE  CloudInv'
<1>1. TypeOK /\ alive' = {} /\ todo' = {} /\ UNCHANGED <<cloud, entry, fact, kind, only, step>>
  BY DEF CloudInv, Crash, AllFail
<1>2. faults' \in 0 .. MaxFaults
  BY <1>1, BoundAssumption DEF Crash, Fault, TypeOK
<1>3. TypeOK'
  BY <1>1, <1>2 DEF TypeOK, Listed, cloud
<1>4. FactInv' /\ OwnInv'
  BY <1>1 DEF CloudInv, FactInv, Unseen, OwnInv, Listed, cloud
<1>5. EntryInv' /\ VolumeInv' /\ ConnectInv'
  BY <1>1 DEF EntryInv, VolumeInv, ConnectInv
<1>6. QED  BY <1>3, <1>4, <1>5 DEF CloudInv

\* Every step keeps the invariant.
LEMMA NextInv == CloudInv /\ [Next]_vars => CloudInv'
<1>1. SUFFICES ASSUME CloudInv, [Next]_vars
               PROVE  CloudInv'
  OBVIOUS
<1>2. CASE Play
  BY <1>1, <1>2, PlayStep
<1>3. CASE UpdateEntries
  BY <1>1, <1>3, UpdateEntriesStep
<1>4. ASSUME NEW h \in Host, Does(h)
      PROVE  CloudInv'
  BY <1>1, <1>4, CreateStep, LookUpStep, CreateVolumeStep, AttachStep, GatherStep,
     ConnectStep, DestroyStep, DeleteStep DEF Does
<1>5. CASE Crash
  BY <1>1, <1>5, CrashStep
<1>6. ASSUME NEW h \in Host, Vanish(h) \/ TaskFails(h)
      PROVE  CloudInv'
  BY <1>1, <1>6, VanishStep, TaskFailsStep
<1>7. CASE UNCHANGED vars
  BY <1>1, <1>7 DEF vars, cloud, play, CloudInv, TypeOK, Listed, FactInv, Unseen, OwnInv,
     EntryInv, Updated, VolumeInv, AttachDone, Past, Purpose, ConnectInv
<1>8. QED  BY <1>1, <1>2, <1>3, <1>4, <1>5, <1>6, <1>7 DEF Next, Goes

-----------------------------------------------------------------------------
(* What follows.                                                           *)

\* What the theorems about entries and volumes rest on holds throughout.
THEOREM Invariance == Spec => []CloudInv
  BY InitInv, NextInv, PTL DEF Spec

\* Droplets, volumes and plays have their types: no address is given twice, and
\* no volume is attached to a droplet that is gone.
THEOREM TypeCorrect == Spec => []TypeOK
<1>1. CloudInv => TypeOK
  BY DEF CloudInv
<1>2. QED  BY <1>1, Invariance, PTL

\* Entries that a play has updated lead to the droplets of their hosts, however
\* often addresses have been given anew.
THEOREM ReachesItsOwn == Spec => ReachesOwn
<1>1. ASSUME CloudInv, NEW h \in Host, Connect(h), h \in alive'
      PROVE  entry[h] = address[h]
  <2>1. TypeOK /\ ~Ended /\ Task = "connect" /\ h \in todo
    BY <1>1 DEF CloudInv, Connect, At
  <2>2. PICK g \in Host : entry[h] # None /\ address[g] = entry[h]
    BY <1>1, <2>1 DEF Connect, Reach, Fails
  <2>3. Updated /\ alive # {}
    BY <2>1, Places DEF Updated, TypeOK, Kinds, Path
  <2>4. entry[h] = fact[h] /\ fact[h] # None
    BY <1>1, <2>2, <2>3 DEF CloudInv, EntryInv
  <2>5. g = h
    BY <1>1, <2>2, <2>4 DEF CloudInv, OwnInv
  <2>6. QED  BY <2>2, <2>5
<1>2. CloudInv /\ [Next]_vars => [\A h \in Host : Connect(h) /\ h \in alive' => entry[h] = address[h]]_vars
  BY <1>1
<1>3. QED  BY <1>2, Invariance, PTL DEF Spec, ReachesOwn

\* A host that a playbook has brought to its end is up as it was asked.
THEOREM DoneIsUp == Spec => []DoneMeansUp
<1>1. ASSUME CloudInv, Ended, kind # "destroy", NEW h \in alive, droplet[h] = "up"
      PROVE  entry[h] = address[h] /\ volume[h][Purpose] = "attached"
  <2>1. h \in Host /\ kind \in {"provision", "freeipa"} /\ step \in Nat
    BY <1>1 DEF CloudInv, TypeOK, Kinds, Path
  <2>2. Len(Path[kind]) = 6
    BY <2>1 DEF Path
  <2>3. step > 6
    BY <1>1, <2>1, <2>2 DEF Ended
  <2>4. Updated /\ AttachDone(h) /\ Past(h, 6)
    BY <2>1, <2>3 DEF Updated, AttachDone, Past
  <2>5. entry[h] # None /\ volume[h][Purpose] = "attached"
    BY <1>1, <2>4 DEF CloudInv, ConnectInv, VolumeInv
  <2>6. entry[h] = fact[h] /\ fact[h] # None
    BY <1>1, <2>1, <2>4, <2>5 DEF CloudInv, EntryInv
  <2>7. address[h] = fact[h]
    BY <1>1, <2>1, <2>6 DEF CloudInv, OwnInv, Listed
  <2>8. QED  BY <2>5, <2>6, <2>7
<1>2. CloudInv => DoneMeansUp
  BY <1>1 DEF DoneMeansUp
<1>3. QED  BY <1>2, Invariance, PTL
=============================================================================
