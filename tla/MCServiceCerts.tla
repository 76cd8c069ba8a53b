--------------------------- MODULE MCServiceCerts ---------------------------
(* A small instance of ServiceCerts.                                       *)
EXTENDS ServiceCerts

\* cluster.yaml restarts docker after the certificates of docker, and etcd,
\* docker and calico after those of etcd: here one before docker, docker, and
\* one after it.
TheServices == <<"etcd-member", "docker", "calico">>
=============================================================================
