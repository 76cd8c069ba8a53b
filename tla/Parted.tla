------------------------------- MODULE Parted -------------------------------
(***************************************************************************)
(* parted: what one call of the module does to a disk.                     *)
(*                                                                         *)
(* A disk has a table and partitions with a number, a place, a content and *)
(* flags.  parted, the program, gives a new partition the lowest number    *)
(* that is free, and refuses places that overlap and disks in use.         *)
(***************************************************************************)
EXTENDS Integers, Sequences, FiniteSets

CONSTANTS
    MaxPart,   \* bound: the highest partition number
    End,       \* the disk's end, in units of places
    Flag,
    None       \* no partition, no label, no number

Nums     == 1 .. MaxPart
Labels   == {"gpt", "msdos"}
Tables   == Labels \cup {"unknown", "loop"}
Contents == {"nothing", "swap", "ext4", "data"}   \* data: an ext4 with files

Part == [from : 0 .. End, to : 0 .. End, holds : Contents, flags : SUBSET Flag]
Disk == [table : Tables, parts : [Nums -> Part \cup {None}]]

\* The parameters of a call.
Request == [state : {"present", "absent", "info"}, number : Nums \cup {None},
            label : Labels \cup {None}, part_type : BOOLEAN,
            from : 0 .. End, to : 0 .. End, flags : SUBSET Flag, check : BOOLEAN]

ASSUME PartedAssumption == /\ MaxPart \in Nat \ {0} /\ End \in Nat \ {0}
                           /\ None \notin Part /\ None \notin Nums /\ None \notin Labels

Exists(d, n) == n \in Nums /\ d.parts[n] # None

Labelled(label) == [table |-> label, parts |-> [n \in Nums |-> None]]

Overlaps(p, q) == p.from < q.to /\ q.from < p.to

Lowest(n, d) == n \in Nums /\ ~Exists(d, n) /\ \A m \in 1 .. n - 1 : Exists(d, m)

NewPart(q) == [from |-> q.from, to |-> q.to, holds |-> "nothing", flags |-> {}]

\* mkpart: it is not told the number.
CanMake(d, q) ==
    /\ d.table \in Labels /\ q.from < q.to
    /\ \E n \in Nums : ~Exists(d, n)
    /\ \A n \in Nums : Exists(d, n) => ~Overlaps(d.parts[n], q)

Made(d, q) ==
    [d EXCEPT !.parts = [n \in Nums |-> IF Lowest(n, d) THEN NewPart(q) ELSE @[n]]]

Changed(d, n, p) == [d EXCEPT !.parts = [@ EXCEPT ![n] = p]]

\* Mutant: the default label is taken whatever the table.
LabelToMake_Default(d, q) == IF q.label = None THEN "msdos" ELSE q.label

\* A label that is given is made, whatever the disk has.
LabelToMake(d, q) == IF d.table = "unknown" /\ q.label = None THEN "msdos" ELSE q.label

\* The first script: mklabel and mkpart.  Whether to make the partition is
\* decided by the partitions read before mklabel.
MakesPart(d, q) == q.part_type /\ ~Exists(d, q.number)

AfterLabel(d, q) == IF LabelToMake(d, q) = None THEN d ELSE Labelled(LabelToMake(d, q))

AfterScript(d, q) == IF MakesPart(d, q) THEN Made(AfterLabel(d, q), q) ELSE AfterLabel(d, q)

\* The second script: the flags of the partition, if it is there now.
AfterFlags(d, q) ==
    IF q.flags # {} /\ Exists(d, q.number)
    THEN Changed(d, q.number, [d.parts[q.number] EXCEPT !.flags = q.flags]) ELSE d

RelabelsUsed(d, q, used) == LabelToMake(d, q) # None /\ used # {}

MakesInVain(d, q) == MakesPart(d, q) /\ ~CanMake(AfterLabel(d, q), q)

\* parted refuses to relabel a disk in use and to remove a partition in use.
Refused(d, q, used) ==
    ~q.check /\ \/ q.state = "present" /\ (RelabelsUsed(d, q, used) \/ MakesInVain(d, q))
                \/ q.state = "absent" /\ Exists(d, q.number) /\ q.number \in used

\* The disks that a call goes through: every command takes effect at once, so
\* a call that is interrupted or refused leaves what the commands before did.
Steps(d, q, used) ==
    IF q.check \/ q.state = "info" THEN <<d>>
    ELSE IF q.state = "absent"
    THEN IF Exists(d, q.number) /\ q.number \notin used
         THEN <<d, Changed(d, q.number, None)>> ELSE <<d>>
    ELSE IF RelabelsUsed(d, q, used) THEN <<d>>
    ELSE IF MakesInVain(d, q) THEN <<d, AfterLabel(d, q)>>
    ELSE <<d, AfterLabel(d, q), AfterScript(d, q), AfterFlags(AfterScript(d, q), q)>>

Result(d, q, used) == LET s == Steps(d, q, used) IN s[Len(s)]

\* Before version 3.1 parted says nothing of a disk without a label; the kernel
\* is asked instead, by the name of the device, which /sys/block does not have
\* if it is a link: the size is then 0, and not a pair, and the call fails.
Unreadable(d, old, link) == old /\ link /\ d.table = "unknown"

=============================================================================
