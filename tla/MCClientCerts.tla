---------------------------- MODULE MCClientCerts ----------------------------
(* Small instances of ClientCerts.                                         *)
EXTENDS ClientCerts

\* cluster.yaml serves docker and then k8s; each play has a tag of its own.
OnePlay  == {<<"k8s">>}
AllPlays == {<<"docker", "k8s">>, <<"docker">>, <<"k8s">>}

Directory == {Files}            \* a client's directory is deleted as a whole
=============================================================================
