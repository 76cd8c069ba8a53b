-------------------------- MODULE MCCloudLifecycle --------------------------
(* A small instance of CloudLifecycle: two hosts, and one address to spare. *)
EXTENDS CloudLifecycle

TheHosts == <<"host1", "host2">>
=============================================================================
