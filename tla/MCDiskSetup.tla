----------------------------- MODULE MCDiskSetup -----------------------------
(* A small instance of DiskSetup: the data volume of a CoreOS host.        *)
EXTENDS DiskSetup

\* provision.yaml: swap space of swap_size, and the rest for data.
Split(size) == <<[number |-> 1, from |-> 0, to |-> size],
                 [number |-> 2, from |-> size, to |-> End]>>

Sizes == {Split(1), Split(2)}

Plain == [state |-> "present", number |-> None, label |-> None, part_type |-> FALSE,
          from |-> 0, to |-> End, flags |-> {}, check |-> FALSE]

\* By hand: remove a partition, really or in check mode, label the volume anew,
\* or set a flag.
ByHandCalls ==
    {[Plain EXCEPT !.state = "absent", !.number = n, !.check = b] : n \in {1, 2}, b \in BOOLEAN}
    \cup {[Plain EXCEPT !.label = "gpt"], [Plain EXCEPT !.number = 2, !.flags = {"boot"}]}
=============================================================================
