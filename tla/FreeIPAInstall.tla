--------------------------- MODULE FreeIPAInstall ---------------------------
(***************************************************************************)
(* FreeIPA on a set of hosts, as the role freeipa-install installs it: the *)
(* master first, then servers (replicas) and clients.                      *)
(*                                                                         *)
(* On each host the container ipa-<hostname> of ipa.service installs onto  *)
(* a volume when it starts, and leaves the file volume-version when it is  *)
(* through.  A play that finds no such file wipes the volume and starts    *)
(* the container again.  The install goes on in the background: a play may *)
(* end, and another one meet it.  All hosts come to a task before any of   *)
(* them comes to the next; one that fails leaves the play.                 *)
(***************************************************************************)
EXTENDS Integers, FiniteSets

CONSTANTS
    Master,     \* freeipa_master_host
    Servers,    \* the other servers
    Clients,
    MaxFaults   \* bound: interruptions, reboots and failing installs

Later == Servers \cup Clients
Host  == {Master} \cup Later

ASSUME HostsAssumption == Master \notin Later /\ Servers \cap Clients = {}
ASSUME BoundAssumption == MaxFaults \in Nat

VARIABLES
    data,      \* what the volume holds
    marker,    \* the hosts whose volume has the file volume-version
    box,       \* the container
    unit,      \* the hosts whose ipa.service is written
    enabled,   \* and enabled
    enrolled,  \* the hosts that the master knows
    at,        \* by host, the task the play has come to
    alive,     \* the hosts that have not failed in this play
    noMarker,  \* registered: install_path_stat.changed
    written,   \* registered: ipa_unit_file.changed, ipa_install_options.changed
    faults

volume == <<data, marker>>
host   == <<unit, enabled>>
reg    == <<noMarker, written>>
vars   == <<volume, box, host, enrolled, at, alive, reg, faults>>

Contents == {"clean", "partial", "whole"}
Boxes    == {"none", "fresh", "installing", "undercut", "stuck", "serving"}
Tasks    == {"stat", "wipe", "template", "dig", "enrol", "start", "wait", "done"}

At(h, t) == h \in alive /\ at[h] = t

Goto(h, t) == at' = [at EXCEPT ![h] = t] /\ UNCHANGED alive

Fails(h) == alive' = alive \ {h} /\ UNCHANGED at

SetBox(h, b)  == box' = [box EXCEPT ![h] = b]
SetData(h, d) == data' = [data EXCEPT ![h] = d]

\* A container that starts goes on serving, installs, or is lost: the install
\* does not resume.
Started(h) ==
    CASE data[h] = "whole" /\ h \in marker    -> "serving"
      [] data[h] = "clean" /\ h \notin marker -> "fresh"
      [] OTHER                                -> "stuck"

Serving == box[Master] = "serving"

-----------------------------------------------------------------------------
(* The play.                                                               *)

Init ==
    /\ data = [h \in Host |-> "clean"] /\ marker = {}
    /\ box = [h \in Host |-> "none"] /\ unit = {} /\ enabled = {} /\ enrolled = {}
    /\ at = [h \in Host |-> "stat"] /\ alive = {}
    /\ noMarker = {} /\ written = {} /\ faults = 0

Ended == \A h \in alive : at[h] = "done"

Play ==
    /\ Ended
    /\ at' = [h \in Host |-> "stat"] /\ alive' = Host
    /\ UNCHANGED <<volume, box, host, enrolled, reg, faults>>

StatVolume(h) ==
    /\ At(h, "stat") /\ Goto(h, "wipe")
    /\ noMarker' = IF h \in marker THEN noMarker \ {h} ELSE noMarker \cup {h}
    /\ UNCHANGED <<volume, box, host, enrolled, written, faults>>

\* Mutant: the volume is wiped in every play.
WipeVolume_Always(h) ==
    /\ At(h, "wipe") /\ Goto(h, "template")
    /\ SetData(h, "clean")
    /\ SetBox(h, IF box[h] \in {"installing", "serving"} THEN "undercut" ELSE box[h])
    /\ enrolled' = IF h = Master THEN {} ELSE enrolled
    /\ UNCHANGED <<marker, host, reg, faults>>

\* "docker rm ipa" removes nothing: the container is called ipa-<hostname>, and
\* it goes on if it runs.  The file volume-version is not among those removed.
WipeVolume(h) ==
    /\ At(h, "wipe") /\ Goto(h, "template")
    /\ IF h \in noMarker
       THEN /\ SetData(h, "clean")
            /\ SetBox(h, IF box[h] \in {"installing", "serving"} THEN "undercut" ELSE box[h])
            /\ enrolled' = IF h = Master THEN {} ELSE enrolled
       ELSE UNCHANGED <<data, box, enrolled>>
    /\ UNCHANGED <<marker, host, reg, faults>>

\* Mutant: clients get no unit.
TemplateUnit_Servers(h) ==
    /\ At(h, "template") /\ Goto(h, IF h = Master THEN "start" ELSE "dig")
    /\ unit' = IF h \in Clients THEN unit ELSE unit \cup {h}
    /\ written' = IF h \in unit THEN written \ {h} ELSE written \cup {h}
    /\ UNCHANGED <<volume, box, enabled, enrolled, noMarker, faults>>

TemplateUnit(h) ==
    /\ At(h, "template") /\ Goto(h, IF h = Master THEN "start" ELSE "dig")
    /\ unit' = unit \cup {h}
    /\ written' = IF h \in unit THEN written \ {h} ELSE written \cup {h}
    /\ UNCHANGED <<volume, box, enabled, enrolled, noMarker, faults>>

\* The master's DNS answers before its install is through.
Answers == box[Master] \in {"installing", "serving"}

\* The master has come to its end by now, or failed.  The wait for it, skipped
\* on this host, has registered install_path_stat anew, as not changed.
Dig(h) ==
    /\ At(h, "dig") /\ (Master \in alive => at[Master] = "done")
    /\ \/ Answers /\ Goto(h, "enrol")
       \/ ~Serving /\ Fails(h)
    /\ noMarker' = noMarker \ {h}
    /\ UNCHANGED <<volume, box, host, enrolled, written, faults>>

Complete(h) == h \in marker /\ data[h] = "whole"

\* Mutant: an entry that is there is left.
DeleteHost_Never(h) ==
    At(h, "enrol") /\ Goto(h, "start") /\ UNCHANGED <<volume, box, host, enrolled, reg, faults>>

\* "Ensure host not enrolled": a server in service is not deleted, and what the
\* master answers is ignored.
DeleteHost(h) ==
    /\ At(h, "enrol") /\ Goto(h, "start")
    /\ enrolled' = IF ~Serving \/ (h \in Servers /\ Complete(h)) THEN enrolled ELSE enrolled \ {h}
    /\ UNCHANGED <<volume, box, host, reg, faults>>

\* Mutant: the service is started only.
Restarts_Never(h) == FALSE

Restarts(h) == h \in noMarker \cup written

\* systemd blocks until the DNS of a server that it starts answers.
StartService(h) ==
    /\ At(h, "start")
    /\ enabled' = enabled \cup {h}
    /\ LET starts == Restarts(h) \/ box[h] = "none"
       IN /\ IF starts THEN SetBox(h, Started(h)) ELSE UNCHANGED box
          /\ IF starts /\ h \notin Clients /\ Started(h) = "stuck" THEN Fails(h) ELSE Goto(h, "wait")
    /\ UNCHANGED <<volume, unit, enrolled, reg, faults>>

\* With a marker there is nothing to wait for.
Wait(h) ==
    /\ At(h, "wait")
    /\ \/ (h \in marker \/ box[h] = "serving") /\ Goto(h, "done") /\ UNCHANGED faults
       \/ h \notin marker /\ box[h] \in {"stuck", "none"} /\ Fails(h) /\ UNCHANGED faults
       \/ faults < MaxFaults /\ faults' = faults + 1 /\ Fails(h)   \* timeout
    /\ UNCHANGED <<volume, box, host, enrolled, reg>>

-----------------------------------------------------------------------------
(* The containers, and what befalls hosts and plays.                       *)

outside == <<host, at, alive, reg>>

\* A replica or client enrols with the master, which refuses a host it knows.
InstallBegins(h) ==
    /\ box[h] = "fresh"
    /\ SetData(h, "partial")
    /\ IF h # Master /\ (~Serving \/ h \in enrolled)
       THEN SetBox(h, "stuck") /\ UNCHANGED enrolled
       ELSE /\ SetBox(h, "installing")
            /\ enrolled' = IF h = Master THEN enrolled ELSE enrolled \cup {h}
    /\ UNCHANGED <<marker, outside, faults>>

InstallEnds(h) ==
    /\ box[h] = "installing"
    /\ SetData(h, "whole") /\ marker' = marker \cup {h} /\ SetBox(h, "serving")
    /\ UNCHANGED <<enrolled, outside, faults>>

\* The volume was wiped under the container.
InstallLost(h) ==
    /\ box[h] = "undercut"
    /\ SetData(h, "partial") /\ SetBox(h, "stuck")
    /\ UNCHANGED <<marker, enrolled, outside, faults>>

InstallFails(h) ==
    /\ box[h] = "installing" /\ faults < MaxFaults /\ faults' = faults + 1
    /\ SetBox(h, "stuck")
    /\ UNCHANGED <<volume, enrolled, outside>>

\* systemd may notice that a container is of no use, or not (DEBUG_NO_EXIT).
UnitFails(h) ==
    /\ box[h] = "stuck" /\ SetBox(h, "none")
    /\ UNCHANGED <<volume, enrolled, outside, faults>>

Reboot(h) ==
    /\ faults < MaxFaults /\ faults' = faults + 1
    /\ SetBox(h, IF h \in enabled THEN Started(h) ELSE "none")
    /\ Fails(h)
    /\ UNCHANGED <<volume, host, enrolled, reg>>

Crash ==
    /\ ~Ended /\ faults < MaxFaults /\ faults' = faults + 1
    /\ alive' = {}
    /\ UNCHANGED <<volume, box, host, enrolled, at, reg>>

Task(h) == \/ StatVolume(h) \/ WipeVolume(h) \/ TemplateUnit(h) \/ Dig(h) \/ DeleteHost(h)
           \/ StartService(h) \/ Wait(h)

Install(h) == InstallBegins(h) \/ InstallEnds(h) \/ InstallLost(h)

Next ==
    \/ Play \/ Crash
    \/ \E h \in Host : Task(h) \/ Install(h) \/ InstallFails(h) \/ UnitFails(h) \/ Reboot(h)

Spec == Init /\ [][Next]_vars

\* Tasks and installs come to an end, and the operator plays again.
FairSpec ==
    /\ Spec /\ WF_vars(Play)
    /\ \A h \in Host : WF_vars(Task(h)) /\ WF_vars(Install(h))

-----------------------------------------------------------------------------
(* Properties.                                                             *)

\* Types; a container serves only from a volume that is whole.
TypeOK ==
    /\ data \in [Host -> Contents] /\ marker \subseteq Host
    /\ box \in [Host -> Boxes]
    /\ \A h \in Host : box[h] = "serving" => Complete(h)
    /\ unit \subseteq Host /\ enabled \subseteq unit /\ enrolled \subseteq Later
    /\ at \in [Host -> Tasks] /\ alive \subseteq Host
    /\ noMarker \subseteq Host /\ written \subseteq Host
    /\ faults \in 0 .. MaxFaults

\* A complete install is wiped only if it came to its end after the play had
\* looked for the marker.
WholeKept ==
    [][\A h \in Host : Complete(h) => Complete(h)' \/ (h \in noMarker /\ At(h, "wipe"))]_vars

\* Replicas and clients begin to install when the master serves and does not
\* know them any more, unless the master failed in this very play.
StartsReady ==
    [][\A h \in Later : StartService(h) /\ box[h]' = "fresh" /\ Master \in alive =>
          Serving /\ h \notin enrolled]_vars

\* The install that came to its end under the wipe leaves a marker on a volume
\* that is not whole; no later play touches it.
Overtaken(h) == h \in marker /\ data[h] # "whole"

\* A replica or client whose container is of no use is wiped in every play, and
\* not restarted: what install_path_stat registered is lost by then.
Stranded(h) == h \in Later /\ h \notin marker /\ box[h] = "stuck"

\* Played again and again all hosts get installed, but for these two cases.
GetsInstalled ==
    \/ <>[](\A h \in Host : Complete(h) /\ box[h] = "serving")
    \/ <>[](\E h \in Host : Overtaken(h) \/ Stranded(h))
=============================================================================
