-------------------------- MODULE MCFreeIPAInstall --------------------------
(* A small instance of FreeIPAInstall: a master, a replica and a client.   *)
EXTENDS FreeIPAInstall

TheServers == {"host2"}
TheClients == {"host3"}
=============================================================================
