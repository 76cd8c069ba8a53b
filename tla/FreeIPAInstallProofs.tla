------------------------ MODULE FreeIPAInstallProofs ------------------------
(***************************************************************************)
(* Theorems about FreeIPAInstall, for any servers and clients and any      *)
(* number of faults: its types, WholeKept and StartsReady.                 *)
(***************************************************************************)
EXTENDS FreeIPAInstall, TLAPS

\* A container that is to install, or whose install was wiped, has a clean
\* volume; one that installs or is to has no marker.
BoxInv ==
    \A h \in Host : /\ box[h] \in {"fresh", "undercut"} => data[h] = "clean"
                    /\ box[h] \in {"fresh", "installing"} => h \notin marker

\* The unit is written before it is enabled.
UnitInv == \A h \in alive : at[h] \in {"dig", "enrol", "start"} => h \in unit

\* The master has come to its end with its install behind it, or failed.
MasterInv == At(Master, "done") => box[Master] \notin {"fresh", "installing"}

\* While the master has not failed, the others go on only when it serves.
ReadyInv ==
    \A h \in Later : At(h, "enrol") \/ At(h, "start") =>
        Master \notin alive \/ (at[Master] = "done" /\ Serving)

\* And one that is to start is not known if its volume is clean.
KnownInv ==
    \A h \in Later : At(h, "start") /\ data[h] = "clean" /\ h \notin marker =>
        Master \notin alive \/ h \notin enrolled

InstallInv == TypeOK /\ BoxInv /\ UnitInv /\ MasterInv /\ ReadyInv /\ KnownInv

-----------------------------------------------------------------------------
(* The invariant.                                                          *)

\* At first no play has begun.
LEMMA InitInv == Init => InstallInv
BY BoundAssumption, HostsAssumption
   DEF Init, InstallInv, TypeOK, BoxInv, UnitInv, MasterInv, ReadyInv, KnownInv, At,
       Contents, Boxes, Tasks

\* A new play begins where no host is at a task that matters.
LEMMA PlayInv ==
    ASSUME InstallInv, Play
    PROVE  InstallInv'
<1> USE HostsAssumption, BoundAssumption DEF InstallInv, TypeOK, Play, volume,
    host, reg, Host, Later, Ended
<1>1. TypeOK'
  BY DEF UnitInv, At, Complete, Tasks, Boxes, Contents
<1>2. UnitInv'
  BY DEF UnitInv
<1>3. MasterInv'
  BY DEF MasterInv, BoxInv, At
<1>4. ReadyInv'
  BY DEF ReadyInv, MasterInv, At, Serving
<1>5. KnownInv'
  BY DEF KnownInv, ReadyInv, BoxInv, At
<1>6. BoxInv'
  BY DEF BoxInv
<1>7. QED  BY <1>1, <1>2, <1>3, <1>4, <1>5, <1>6

\* What the stat registers is in no part of the invariant.
LEMMA StatVolumeInv ==
    ASSUME InstallInv, NEW g \in Host, StatVolume(g)
    PROVE  InstallInv'
<1> USE HostsAssumption, BoundAssumption DEF InstallInv, TypeOK, StatVolume,
    At, Goto, volume, host, reg
<1>1. TypeOK'
  BY DEF UnitInv, Complete, Tasks, Boxes, Contents, Host, Later
<1>2. UnitInv'
  BY DEF UnitInv, Host, Later
<1>3. MasterInv'
  BY DEF MasterInv, BoxInv, Host, Later
<1>4. ReadyInv'
  BY DEF ReadyInv, MasterInv, Serving, Host, Later
<1>5. KnownInv'
  BY DEF KnownInv, ReadyInv, BoxInv, Host, Later
<1>6. BoxInv'
  BY DEF BoxInv, Host, Later
<1>7. QED  BY <1>1, <1>2, <1>3, <1>4, <1>5, <1>6

\* The wipe leaves the volume clean, and a running install undercut.
LEMMA WipeVolumeInv ==
    ASSUME InstallInv, NEW g \in Host, WipeVolume(g)
    PROVE  InstallInv'
<1> USE HostsAssumption, BoundAssumption DEF InstallInv, TypeOK, WipeVolume,
    At, Goto, SetBox, SetData, volume, host, reg
<1>1. TypeOK'
  BY DEF UnitInv, Complete, Tasks, Boxes, Contents, Host, Later
<1>2. BoxInv'
  BY DEF BoxInv, Host, Later
<1>3. UnitInv'
  BY DEF UnitInv, Host, Later
<1>4. MasterInv'
  BY DEF MasterInv, BoxInv, Host, Later
<1>5. ReadyInv'
  BY DEF ReadyInv, MasterInv, Serving, Host, Later
<1>6. KnownInv'
  BY DEF KnownInv, ReadyInv, BoxInv, Host, Later
<1>7. QED  BY <1>1, <1>2, <1>3, <1>4, <1>5, <1>6

\* The unit is there before its host goes on.
LEMMA TemplateUnitInv ==
    ASSUME InstallInv, NEW g \in Host, TemplateUnit(g)
    PROVE  InstallInv'
<1> USE HostsAssumption, BoundAssumption DEF InstallInv, TypeOK, TemplateUnit,
    At, Goto, volume, host, reg
<1>1. TypeOK'
  BY DEF UnitInv, Complete, Tasks, Boxes, Contents, Host, Later
<1>2. UnitInv'
  BY DEF UnitInv, Host, Later
<1>3. MasterInv'
  BY DEF MasterInv, BoxInv, Host, Later
<1>4. ReadyInv'
  BY DEF ReadyInv, MasterInv, Serving, Host, Later
<1>5. KnownInv'
  BY DEF KnownInv, ReadyInv, BoxInv, Host, Later
<1>6. BoxInv'
  BY DEF BoxInv, Host, Later
<1>7. QED  BY <1>1, <1>2, <1>3, <1>4, <1>5, <1>6

\* A host passes when the master answers, and then it serves.
LEMMA DigInv ==
    ASSUME InstallInv, NEW g \in Host, Dig(g)
    PROVE  InstallInv'
<1> USE HostsAssumption, BoundAssumption DEF InstallInv, TypeOK, Dig, At, Goto,
    Fails, Serving, volume, host, reg, Answers
<1>1. TypeOK'
  BY DEF UnitInv, Complete, Tasks, Boxes, Contents, Host, Later
<1>2. UnitInv'
  BY DEF UnitInv, Host, Later
<1>3. MasterInv'
  BY DEF MasterInv, BoxInv, Host, Later
<1>4. ReadyInv'
  BY DEF ReadyInv, MasterInv, Host, Later
<1>5. KnownInv'
  BY DEF KnownInv, ReadyInv, BoxInv, Host, Later
<1>6. BoxInv'
  BY DEF BoxInv, Host, Later
<1>7. QED  BY <1>1, <1>2, <1>3, <1>4, <1>5, <1>6

\* A host that starts with a clean volume has been deleted.
LEMMA DeleteHostInv ==
    ASSUME InstallInv, NEW g \in Host, DeleteHost(g)
    PROVE  InstallInv'
<1> USE HostsAssumption, BoundAssumption DEF InstallInv, TypeOK, DeleteHost,
    At, Goto, Serving, Complete, volume, host, reg
<1>1. TypeOK'
  BY DEF UnitInv, Tasks, Boxes, Contents, Host, Later
<1>2. UnitInv'
  BY DEF UnitInv, Host, Later
<1>3. MasterInv'
  BY DEF MasterInv, BoxInv, Host, Later
<1>4. ReadyInv'
  BY DEF ReadyInv, MasterInv, Host, Later
<1>5. KnownInv'
  BY DEF KnownInv, ReadyInv, BoxInv, Host, Later
<1>6. BoxInv'
  BY DEF BoxInv, Host, Later
<1>7. QED  BY <1>1, <1>2, <1>3, <1>4, <1>5, <1>6

\* What starts on a clean volume without a marker is fresh.
LEMMA StartServiceInv ==
    ASSUME InstallInv, NEW g \in Host, StartService(g)
    PROVE  InstallInv'
<1> USE HostsAssumption, BoundAssumption DEF InstallInv, TypeOK, StartService,
    At, Goto, Fails, SetBox, SetData, Started, volume, host, reg, Restarts
<1>1. TypeOK'
  BY DEF UnitInv, Complete, Tasks, Boxes, Contents, Host, Later
<1>2. BoxInv'
  BY DEF BoxInv, Host, Later
<1>3. UnitInv'
  BY DEF UnitInv, Host, Later
<1>4. MasterInv'
  BY DEF MasterInv, BoxInv, Host, Later
<1>5. ReadyInv'
  BY DEF ReadyInv, MasterInv, Serving, Host, Later
<1>6. KnownInv'
  BY DEF KnownInv, ReadyInv, BoxInv, Host, Later
<1>7. QED  BY <1>1, <1>2, <1>3, <1>4, <1>5, <1>6

\* The master comes to its end with its install behind it.
LEMMA WaitInv ==
    ASSUME InstallInv, NEW g \in Host, Wait(g)
    PROVE  InstallInv'
<1> USE HostsAssumption, BoundAssumption DEF InstallInv, TypeOK, Wait, At,
    Goto, Fails, volume, host, reg
<1>1. TypeOK'
  BY DEF UnitInv, Complete, Tasks, Boxes, Contents, Host, Later
<1>2. UnitInv'
  BY DEF UnitInv, Host, Later
<1>3. MasterInv'
  BY DEF MasterInv, BoxInv, Host, Later
<1>4. ReadyInv'
  BY DEF ReadyInv, MasterInv, Serving, Host, Later
<1>5. KnownInv'
  BY DEF KnownInv, ReadyInv, BoxInv, Host, Later
<1>6. BoxInv'
  BY DEF BoxInv, Host, Later
<1>7. QED  BY <1>1, <1>2, <1>3, <1>4, <1>5, <1>6

\* An install that begins dirties the volume.
LEMMA InstallBeginsInv ==
    ASSUME InstallInv, NEW g \in Host, InstallBegins(g)
    PROVE  InstallInv'
<1> USE HostsAssumption, BoundAssumption DEF InstallInv, TypeOK, InstallBegins,
    SetBox, SetData, Serving, volume, host, reg, outside
<1>1. TypeOK'
  BY DEF UnitInv, At, Complete, Tasks, Boxes, Contents, Host, Later
<1>2. BoxInv'
  BY DEF BoxInv, Host, Later
<1>3. MasterInv'
  BY DEF MasterInv, BoxInv, At, Host, Later
<1>4. ReadyInv'
  BY DEF ReadyInv, MasterInv, At, Host, Later
<1>5. KnownInv'
  BY DEF KnownInv, ReadyInv, BoxInv, At, Host, Later
<1>6. UnitInv'
  BY DEF UnitInv, Host, Later
<1>7. QED  BY <1>1, <1>2, <1>3, <1>4, <1>5, <1>6

\* An install that ends leaves its marker.
LEMMA InstallEndsInv ==
    ASSUME InstallInv, NEW g \in Host, InstallEnds(g)
    PROVE  InstallInv'
<1> USE HostsAssumption, BoundAssumption DEF InstallInv, TypeOK, InstallEnds,
    SetBox, SetData, volume, host, reg, outside
<1>1. TypeOK'
  BY DEF UnitInv, At, Complete, Tasks, Boxes, Contents, Host, Later
<1>2. BoxInv'
  BY DEF BoxInv, Host, Later
<1>3. MasterInv'
  BY DEF MasterInv, BoxInv, At, Host, Later
<1>4. ReadyInv'
  BY DEF ReadyInv, MasterInv, At, Serving, Host, Later
<1>5. KnownInv'
  BY DEF KnownInv, ReadyInv, BoxInv, At, Host, Later
<1>6. UnitInv'
  BY DEF UnitInv, Host, Later
<1>7. QED  BY <1>1, <1>2, <1>3, <1>4, <1>5, <1>6

\* An install undercut is lost.
LEMMA InstallLostInv ==
    ASSUME InstallInv, NEW g \in Host, InstallLost(g)
    PROVE  InstallInv'
<1> USE HostsAssumption, BoundAssumption DEF InstallInv, TypeOK, InstallLost,
    SetBox, SetData, volume, host, reg, outside
<1>1. TypeOK'
  BY DEF UnitInv, At, Complete, Tasks, Boxes, Contents, Host, Later
<1>2. BoxInv'
  BY DEF BoxInv, Host, Later
<1>3. MasterInv'
  BY DEF MasterInv, BoxInv, At, Host, Later
<1>4. ReadyInv'
  BY DEF ReadyInv, MasterInv, At, Serving, Host, Later
<1>5. KnownInv'
  BY DEF KnownInv, ReadyInv, BoxInv, At, Host, Later
<1>6. UnitInv'
  BY DEF UnitInv, Host, Later
<1>7. QED  BY <1>1, <1>2, <1>3, <1>4, <1>5, <1>6

\* An install that fails leaves its volume as it is.
LEMMA InstallFailsInv ==
    ASSUME InstallInv, NEW g \in Host, InstallFails(g)
    PROVE  InstallInv'
<1> USE HostsAssumption, BoundAssumption DEF InstallInv, TypeOK, InstallFails,
    SetBox, SetData, volume, host, reg, outside
<1>1. TypeOK'
  BY DEF UnitInv, At, Complete, Tasks, Boxes, Contents, Host, Later
<1>2. BoxInv'
  BY DEF BoxInv, Host, Later
<1>3. MasterInv'
  BY DEF MasterInv, BoxInv, At, Host, Later
<1>4. ReadyInv'
  BY DEF ReadyInv, MasterInv, At, Serving, Host, Later
<1>5. UnitInv' /\ KnownInv'
  BY DEF UnitInv, KnownInv, ReadyInv, BoxInv, At, Host, Later
<1>6. QED  BY <1>1, <1>2, <1>3, <1>4, <1>5

\* The end of a container that is of no use disturbs nothing.
LEMMA UnitFailsInv ==
    ASSUME InstallInv, NEW g \in Host, UnitFails(g)
    PROVE  InstallInv'
<1> USE HostsAssumption, BoundAssumption DEF InstallInv, TypeOK, UnitFails,
    SetBox, SetData, volume, host, reg, outside
<1>1. TypeOK'
  BY DEF UnitInv, At, Complete, Tasks, Boxes, Contents, Host, Later
<1>2. BoxInv'
  BY DEF BoxInv, Host, Later
<1>3. MasterInv'
  BY DEF MasterInv, BoxInv, At, Host, Later
<1>4. ReadyInv'
  BY DEF ReadyInv, MasterInv, At, Serving, Host, Later
<1>5. UnitInv' /\ KnownInv'
  BY DEF UnitInv, KnownInv, ReadyInv, BoxInv, At, Host, Later
<1>6. QED  BY <1>1, <1>2, <1>3, <1>4, <1>5

\* A host that reboots leaves the play.
LEMMA RebootInv ==
    ASSUME InstallInv, NEW g \in Host, Reboot(g)
    PROVE  InstallInv'
<1> USE HostsAssumption, BoundAssumption DEF InstallInv, TypeOK, Reboot, Fails,
    SetBox, SetData, Started, volume, host, reg
<1>1. TypeOK'
  BY DEF UnitInv, At, Complete, Tasks, Boxes, Contents, Host, Later
<1>2. BoxInv'
  BY DEF BoxInv, Host, Later
<1>3. UnitInv'
  BY DEF UnitInv, Host, Later
<1>4. MasterInv'
  BY DEF MasterInv, BoxInv, At, Host, Later
<1>5. ReadyInv'
  BY DEF ReadyInv, MasterInv, At, Serving, Host, Later
<1>6. KnownInv'
  BY DEF KnownInv, ReadyInv, BoxInv, At, Host, Later
<1>7. QED  BY <1>1, <1>2, <1>3, <1>4, <1>5, <1>6

\* A play that ends leaves the containers alone.
LEMMA CrashInv ==
    ASSUME InstallInv, Crash
    PROVE  InstallInv'
<1> USE HostsAssumption, BoundAssumption DEF InstallInv, TypeOK, Crash, volume,
    host, reg, Ended
<1>1. TypeOK'
  BY DEF UnitInv, At, Complete, Tasks, Boxes, Contents, Host, Later
<1>2. UnitInv'
  BY DEF UnitInv, Host, Later
<1>3. MasterInv'
  BY DEF MasterInv, BoxInv, At, Host, Later
<1>4. ReadyInv'
  BY DEF ReadyInv, MasterInv, At, Serving, Host, Later
<1>5. KnownInv'
  BY DEF KnownInv, ReadyInv, BoxInv, At, Host, Later
<1>6. BoxInv'
  BY DEF BoxInv, Host, Later
<1>7. QED  BY <1>1, <1>2, <1>3, <1>4, <1>5, <1>6

\* Nothing happens.
LEMMA StutterInv ==
    ASSUME InstallInv, UNCHANGED vars
    PROVE  InstallInv'
BY DEF vars, volume, host, reg, InstallInv, TypeOK, BoxInv, UnitInv, MasterInv, ReadyInv, KnownInv,
       At, Complete, Serving

\* Every step keeps the invariant.
LEMMA NextInv == InstallInv /\ [Next]_vars => InstallInv'
<1> SUFFICES ASSUME InstallInv, [Next]_vars PROVE InstallInv'
  OBVIOUS
<1>1. CASE Play  BY <1>1, PlayInv
<1>2. CASE Crash  BY <1>2, CrashInv
<1>3. ASSUME NEW g \in Host, Task(g) PROVE InstallInv'
  BY <1>3, StatVolumeInv, WipeVolumeInv, TemplateUnitInv, DigInv, DeleteHostInv, StartServiceInv,
     WaitInv DEF Task
<1>4. ASSUME NEW g \in Host, Install(g) PROVE InstallInv'
  BY <1>4, InstallBeginsInv, InstallEndsInv, InstallLostInv DEF Install
<1>5. ASSUME NEW g \in Host, InstallFails(g) \/ UnitFails(g) \/ Reboot(g) PROVE InstallInv'
  BY <1>5, InstallFailsInv, UnitFailsInv, RebootInv
<1>6. CASE UNCHANGED vars  BY <1>6, StutterInv
<1>7. QED  BY <1>1, <1>2, <1>3, <1>4, <1>5, <1>6 DEF Next

\* The invariant holds at all times.
LEMMA Invariant == Spec => []InstallInv
BY InitInv, NextInv, PTL DEF Spec

-----------------------------------------------------------------------------
(* What follows from it.                                                   *)

\* Types, and no container serves from a volume that is not whole.
THEOREM TypeCorrect == Spec => []TypeOK
<1>1. InstallInv => TypeOK  BY DEF InstallInv
<1>2. QED  BY <1>1, Invariant, PTL

\* A step changes a complete volume only in the wipe that was decided on
\* before the install came to its end: neither an install nor a container that
\* lost its volume has a complete one before it.
LEMMA WholeStep ==
    ASSUME InstallInv, [Next]_vars, NEW h \in Host, Complete(h)
    PROVE  Complete(h)' \/ (h \in noMarker /\ At(h, "wipe"))
<1> USE DEF InstallInv, TypeOK, BoxInv, Complete
<1>1. CASE UNCHANGED volume  BY <1>1 DEF volume
<1>2. ASSUME NEW g \in Host, WipeVolume(g) PROVE Complete(h)' \/ (h \in noMarker /\ At(h, "wipe"))
  BY <1>2 DEF WipeVolume, SetData, At
<1>3. ASSUME NEW g \in Host, InstallBegins(g) \/ InstallEnds(g) \/ InstallLost(g) PROVE Complete(h)'
  BY <1>3 DEF InstallBegins, InstallEnds, InstallLost, SetData
<1>4. Next => \/ UNCHANGED volume
              \/ \E g \in Host :
                    WipeVolume(g) \/ InstallBegins(g) \/ InstallEnds(g) \/ InstallLost(g)
  BY DEF Next, Play, Crash, Task, Install, InstallFails, UnitFails, Reboot, StatVolume,
         TemplateUnit, Dig, DeleteHost, StartService, Wait, volume
<1>5. QED  BY <1>1, <1>2, <1>3, <1>4 DEF vars

\* No play wipes a complete install, but for one that came to its end between
\* the stat and the wipe of that play.
THEOREM WholeStays == Spec => WholeKept
<1>1. InstallInv /\ [Next]_vars =>
          [\A h \in Host : Complete(h) => Complete(h)' \/ (h \in noMarker /\ At(h, "wipe"))]_vars
  BY WholeStep
<1>2. QED  BY <1>1, Invariant, PTL DEF Spec, WholeKept

\* A container that is fresh after its start has a clean volume and no marker,
\* so that the master has deleted its host while it served.
LEMMA ReadyStep ==
    ASSUME InstallInv, NEW h \in Later, StartService(h), box[h]' = "fresh", Master \in alive
    PROVE  Serving /\ h \notin enrolled
<1> USE DEF InstallInv
<1>1. At(h, "start") /\ h \in Host  BY DEF StartService, Host
<1>2. data[h] = "clean" /\ h \notin marker
  BY <1>1 DEF StartService, Started, SetBox, BoxInv, TypeOK
<1>3. QED  BY <1>1, <1>2 DEF ReadyInv, KnownInv

\* While the master has not failed in a play, replicas and clients begin their
\* install in that play when it serves and does not know them.
THEOREM BeginsReady == Spec => StartsReady
<1>1. InstallInv /\ [Next]_vars =>
          [\A h \in Later : StartService(h) /\ box[h]' = "fresh" /\ Master \in alive =>
              Serving /\ h \notin enrolled]_vars
  BY ReadyStep
<1>2. QED  BY <1>1, Invariant, PTL DEF Spec, StartsReady
=============================================================================
