--------------------------- MODULE MCDockerNetwork ---------------------------
(* A small instance of DockerNetwork.                                      *)
EXTENDS DockerNetwork, TLC

CONSTANTS c1, c2

\* The driver, and an option that Docker reports under another name, such as
\* ipam_options.aux_addresses (AuxiliaryAddresses).
MCOption  == {"driver", "aux"}
MCDefault == [o \in MCOption |-> "bridge"]

Lists == {{}, ByName({c1}), ByName({c1, c2}), {[container |-> c1, by |-> "id"]}}

Base == [state |-> "present", connected |-> {}, force |-> FALSE, appends |-> FALSE,
         check |-> FALSE,
         asked |-> [o \in MCOption |-> IF o = "driver" THEN "calico" ELSE None]]

AuxToo == [o \in MCOption |-> "calico"]

\* Every list, canonical and appended; check mode, force, absent and the
\* option that always differs, each with an empty and with a short list.
MCJobs ==
    {[Base EXCEPT !.connected = l, !.appends = a] : l \in Lists, a \in BOOLEAN}
    \cup UNION {{[Base EXCEPT !.connected = l, !.check = TRUE],
                 [Base EXCEPT !.connected = l, !.force = TRUE],
                 [Base EXCEPT !.connected = l, !.asked = AuxToo],
                 [Base EXCEPT !.connected = l, !.state = "absent"]} :
                    l \in {{}, ByName({c1})}}

-----------------------------------------------------------------------------
(* What the documentation says and the code does not do.                   *)

Succeeded == pc = "done" /\ ~job.check

\* docker_network.py:87-88: "An empty list will leave no containers connected
\* to the network", unless C(appends) is used.  The code takes the containers
\* found for the list.
EmptyLeavesNone ==
    Succeeded /\ job.state = "present" /\ ~job.appends /\ job.connected = {} =>
        members \subseteq moved

\* docker_network.py:82-83, 51-53: without C(force) a network with containers
\* "cannot be deleted", nor "updated to use the new options".  The code does not
\* look at force where state=absent or a configuration that differs removes the
\* network.
RemovalNeedsForce ==
    Succeeded /\ ~job.force /\ found.members \ moved # {} => config = found.config

\* A run of docker_network keeps at least one of the two promises.  One that
\* breaks this breaks both: without force and with an empty list it replaces a
\* network and connects to the new one the containers of the old.
OneIsKept == EmptyLeavesNone \/ RemovalNeedsForce
=============================================================================
