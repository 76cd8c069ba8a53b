--------------------------- MODULE DiskSetupProofs ---------------------------
(* Proofs about DiskSetup: for every volume size, number of partitions,    *)
(* layout and call by hand, no play takes data away.                       *)
EXTENDS DiskSetup, TLAPS

-----------------------------------------------------------------------------
(* Calls of parted.                                                        *)

\* What a call may leave behind.
LEMMA StepsAre ==
    ASSUME NEW d, NEW q, NEW U, NEW i \in DOMAIN Steps(d, q, U)
    PROVE  \/ Steps(d, q, U)[i] = d
           \/ /\ ~q.check /\ q.state = "absent" /\ Exists(d, q.number) /\ q.number \notin U
              /\ Steps(d, q, U)[i] = Changed(d, q.number, None)
           \/ /\ ~q.check /\ q.state # "absent" /\ q.state # "info" /\ ~RelabelsUsed(d, q, U)
              /\ \/ Steps(d, q, U)[i] = AfterLabel(d, q)
                 \/ /\ ~MakesInVain(d, q)
                    /\ \/ Steps(d, q, U)[i] = AfterScript(d, q)
                       \/ Steps(d, q, U)[i] = AfterFlags(AfterScript(d, q), q)
<1>1. CASE Len(Steps(d, q, U)) = 1
  BY <1>1 DEF Steps
<1>. QED
  BY DEF Steps

\* The disk that a call ends with is one of those it goes through.
LEMMA ResultIsStep ==
    ASSUME NEW d, NEW q, NEW U
    PROVE  \E i \in DOMAIN Steps(d, q, U) : Result(d, q, U) = Steps(d, q, U)[i]
<1>1. Len(Steps(d, q, U)) \in DOMAIN Steps(d, q, U)
  BY DEF Steps
<1>. QED
  BY <1>1 DEF Result

\* A change of one partition leaves the table and the other partitions alone.
LEMMA ChangedType ==
    ASSUME NEW d \in Disk, NEW n \in Nums, NEW p \in Part \cup {None}
    PROVE  /\ Changed(d, n, p) \in Disk /\ Changed(d, n, p).table = d.table
           /\ \A m \in Nums : Changed(d, n, p).parts[m] = IF m = n THEN p ELSE d.parts[m]
  BY DEF Disk, Changed

\* A disk with a new label has no partitions.
LEMMA LabelledType ==
    ASSUME NEW t \in Tables
    PROVE  Labelled(t) \in Disk /\ Labelled(t).table = t /\ \A n \in Nums : ~Exists(Labelled(t), n)
  BY DEF Disk, Labelled, Exists

\* mklabel makes a disk without partitions, or is left out.
LEMMA AfterLabelType ==
    ASSUME NEW d \in Disk, NEW q \in Request
    PROVE  /\ AfterLabel(d, q) \in Disk
           /\ \/ LabelToMake(d, q) = None /\ AfterLabel(d, q) = d
              \/ /\ LabelToMake(d, q) \in Labels
                 /\ AfterLabel(d, q).table = LabelToMake(d, q)
                 /\ \A n \in Nums : ~Exists(AfterLabel(d, q), n)
<1>1. LabelToMake(d, q) \in Labels \cup {None}
  BY DEF LabelToMake, Request, Labels
<1>2. CASE LabelToMake(d, q) = None
  BY <1>2 DEF AfterLabel
<1>3. CASE LabelToMake(d, q) # None
  BY <1>1, <1>3, LabelledType DEF AfterLabel, Tables
<1>. QED
  BY <1>2, <1>3

\* mkpart leaves the partitions that exist alone, and makes at most empty ones.
LEMMA MadeType ==
    ASSUME NEW d \in Disk, NEW q \in Request
    PROVE  /\ Made(d, q) \in Disk /\ Made(d, q).table = d.table
           /\ \A n \in Nums : /\ Exists(d, n) => Made(d, q).parts[n] = d.parts[n]
                              /\ ~Exists(d, n) => Made(d, q).parts[n] \in {None, NewPart(q)}
<1>1. NewPart(q) \in Part
  BY DEF NewPart, Part, Request, Contents
<1>2. \A n \in Nums : Lowest(n, d) => ~Exists(d, n)
  BY DEF Lowest
<1>. QED
  BY <1>1, <1>2 DEF Made, Disk, Exists

\* Setting flags changes neither which partitions exist nor what they hold.
LEMMA AfterFlagsType ==
    ASSUME NEW d \in Disk, NEW q \in Request
    PROVE  /\ AfterFlags(d, q) \in Disk /\ AfterFlags(d, q).table = d.table
           /\ \A n \in Nums : /\ Exists(AfterFlags(d, q), n) <=> Exists(d, n)
                              /\ Content(AfterFlags(d, q), n) = Content(d, n)
<1>1. CASE q.flags # {} /\ Exists(d, q.number)
  <2>. DEFINE p == [d.parts[q.number] EXCEPT !.flags = q.flags]
  <2>1. q.number \in Nums /\ d.parts[q.number] \in Part
    BY <1>1 DEF Exists, Disk
  <2>2. p \in Part /\ p.holds = d.parts[q.number].holds
    BY <2>1 DEF Part, Request
  <2>3. AfterFlags(d, q) = Changed(d, q.number, p)
    BY <1>1 DEF AfterFlags
  <2>4. p # None
    BY <2>2, PartedAssumption
  <2>5. /\ Changed(d, q.number, p) \in Disk /\ Changed(d, q.number, p).table = d.table
        /\ \A m \in Nums : Changed(d, q.number, p).parts[m] =
                              IF m = q.number THEN p ELSE d.parts[m]
    BY <2>1, <2>2, ChangedType
  <2>. HIDE DEF p
  <2>. QED
    BY <1>1, <2>1, <2>2, <2>3, <2>4, <2>5 DEF Exists, Content
<1>2. CASE ~(q.flags # {} /\ Exists(d, q.number))
  BY <1>2 DEF AfterFlags
<1>. QED
  BY <1>1, <1>2

\* The first script loses no partition but to mklabel, and takes no content away.
LEMMA AfterScriptType ==
    ASSUME NEW d \in Disk, NEW q \in Request, ~MakesInVain(d, q)
    PROVE  LET e == AfterLabel(d, q) IN
           /\ AfterScript(d, q) \in Disk /\ AfterScript(d, q).table = e.table
           /\ AfterScript(d, q) # e => e.table \in Labels
           /\ \A n \in Nums : /\ Exists(e, n) => Exists(AfterScript(d, q), n)
                              /\ Content(AfterScript(d, q), n) = Content(e, n)
<1>. DEFINE e == AfterLabel(d, q)
<1>1. e \in Disk
  BY AfterLabelType
<1>2. CASE MakesPart(d, q)
  <2>1. CanMake(e, q)
    BY <1>2 DEF MakesInVain
  <2>2. AfterScript(d, q) = Made(e, q) /\ e.table \in Labels
    BY <1>2, <2>1 DEF AfterScript, CanMake
  <2>3. /\ Made(e, q) \in Disk /\ Made(e, q).table = e.table
        /\ \A n \in Nums : /\ Exists(e, n) => Made(e, q).parts[n] = e.parts[n]
                           /\ ~Exists(e, n) => Made(e, q).parts[n] \in {None, NewPart(q)}
    BY <1>1, MadeType
  <2>4. NewPart(q).holds = "nothing"
    BY DEF NewPart
  <2>. HIDE DEF e
  <2>5. \A n \in Nums : /\ Exists(e, n) => Exists(Made(e, q), n)
                        /\ Content(Made(e, q), n) = Content(e, n)
    BY <2>3, <2>4 DEF Exists, Content
  <2>. QED
    BY <2>2, <2>3, <2>5 DEF e
<1>3. CASE ~MakesPart(d, q)
  BY <1>1, <1>3 DEF AfterScript
<1>. QED
  BY <1>2, <1>3

\* What a call does to the contents of a disk, at whatever point it ends.
LEMMA CallStep ==
    ASSUME NEW d \in Disk, NEW q \in Request, NEW U, NEW i \in DOMAIN Steps(d, q, U)
    PROVE  LET e == Steps(d, q, U)[i] IN
           /\ e \in Disk
           /\ e.table = d.table \/ e.table \in Labels
           /\ e.table # d.table => \A n \in Nums : Content(e, n) = "nothing"
           /\ \A n \in Nums :
                /\ n \in U => Content(e, n) = Content(d, n)
                /\ Content(e, n) = Content(d, n)
                   \/ /\ Content(e, n) = "nothing" /\ ~q.check
                      /\ \/ q.state = "absent" /\ q.number = n
                         \/ q.state = "present" /\ LabelToMake(d, q) # None
                /\ e.table \notin Labels /\ Exists(e, n) => Exists(d, n)
<1>. DEFINE e == Steps(d, q, U)[i]
<1>1. CASE e = d
  BY <1>1
<1>2. CASE /\ ~q.check /\ q.state = "absent" /\ Exists(d, q.number) /\ q.number \notin U
           /\ e = Changed(d, q.number, None)
  <2>1. /\ Changed(d, q.number, None) \in Disk /\ Changed(d, q.number, None).table = d.table
        /\ \A m \in Nums : Changed(d, q.number, None).parts[m] =
                              IF m = q.number THEN None ELSE d.parts[m]
    BY <1>2, ChangedType DEF Exists
  <2>. HIDE DEF e
  <2>. QED
    BY <1>2, <2>1 DEF Exists, Content, e
<1>3. CASE /\ ~q.check /\ q.state # "absent" /\ q.state # "info" /\ ~RelabelsUsed(d, q, U)
           /\ \/ e = AfterLabel(d, q)
              \/ /\ ~MakesInVain(d, q)
                 /\ e = AfterScript(d, q) \/ e = AfterFlags(AfterScript(d, q), q)
  <2>. DEFINE a == AfterLabel(d, q)
  <2>1. q.state = "present"
    BY <1>3 DEF Request
  <2>2. /\ a \in Disk
        /\ \/ LabelToMake(d, q) = None /\ a = d
           \/ /\ LabelToMake(d, q) # None /\ a.table \in Labels
              /\ \A n \in Nums : Content(a, n) = "nothing"
    BY AfterLabelType, PartedAssumption DEF Content
  <2>3. /\ e \in Disk /\ e.table = a.table
        /\ \A n \in Nums : Content(e, n) = Content(a, n)
        /\ e.table \notin Labels => \A n \in Nums : Exists(e, n) => Exists(a, n)
    <3>1. CASE e = a
      BY <3>1, <2>2
    <3>2. CASE ~MakesInVain(d, q) /\ e = AfterScript(d, q)
      BY <3>2, AfterScriptType
    <3>3. CASE ~MakesInVain(d, q) /\ e = AfterFlags(AfterScript(d, q), q)
      <4>. DEFINE b == AfterScript(d, q)
      <4>1. /\ b \in Disk /\ b.table = a.table /\ (b # a => a.table \in Labels)
            /\ \A n \in Nums : Content(b, n) = Content(a, n)
        BY <3>3, AfterScriptType
      <4>2. /\ e \in Disk /\ e.table = b.table
            /\ \A n \in Nums : /\ Exists(e, n) <=> Exists(b, n)
                               /\ Content(e, n) = Content(b, n)
        BY <3>3, <4>1, AfterFlagsType
      <4>. QED
        BY <4>1, <4>2
    <3>. QED
      BY <1>3, <3>1, <3>2, <3>3
  <2>4. U # {} => LabelToMake(d, q) = None
    BY <1>3 DEF RelabelsUsed
  <2>. HIDE DEF e, a
  <2>. QED
    BY <1>3, <2>1, <2>2, <2>3, <2>4 DEF e
<1>. QED
  BY <1>1, <1>2, <1>3, StepsAre

-----------------------------------------------------------------------------
(* Types.                                                                  *)

\* A layout lists the swap and the data partition, each at a place of the disk.
LEMMA Places ==
    ASSUME NEW l \in Layouts
    PROVE  /\ Len(l) \in Nat /\ 1 \in 1 .. Len(l)
           /\ \A i \in 1 .. Len(l) : l[i] \in Place /\ l[i].number \in {Swap, Data}
           /\ \A n \in {Swap, Data} \ {None} : \E i \in 1 .. Len(l) : l[i].number = n
<1>1. l \in Seq(Place)
  BY LayoutsAssumption
<1>2. /\ DOMAIN l = 1 .. Len(l) /\ Len(l) \in Nat
      /\ \A i \in 1 .. Len(l) : l[i] \in Place
  BY <1>1
<1>3. {l[i].number : i \in DOMAIN l} = {Swap, Data} \ {None}
  BY LayoutsAssumption
<1>4. \A i \in 1 .. Len(l) : l[i].number \in {Swap, Data}
  <2>1. \A i \in DOMAIN l : l[i].number \in {l[j].number : j \in DOMAIN l}
    OBVIOUS
  <2>. QED
    BY <1>2, <1>3, <2>1
<1>5. Data # None
  BY UseAssumption, PartedAssumption
<1>6. \A n \in {Swap, Data} \ {None} : \E i \in 1 .. Len(l) : l[i].number = n
  BY <1>2, <1>3
<1>7. 1 \in 1 .. Len(l)
  BY <1>2, <1>5, <1>6
<1>. QED
  BY <1>2, <1>4, <1>6, <1>7

\* The calls that the tasks make are calls that parted takes.
LEMMA TaskCalls ==
    ASSUME TypeOK
    PROVE  LabelCall \in Request /\ PartCall \in Request
<1>1. 0 \in 0 .. End /\ End \in 0 .. End
  BY PartedAssumption
<1>2. LabelCall \in Request
  BY <1>1 DEF LabelCall, Request, Labels
<1>3. Item \in Place
  BY Places DEF TypeOK, Item
<1>. QED
  BY <1>2, <1>3 DEF LabelCall, PartCall, Request, Place

\* Writing to a partition changes its content and nothing else.
LEMMA WrittenIs ==
    ASSUME disk \in Disk, NEW n \in Nums, Exists(disk, n), NEW what \in Contents
    PROVE  /\ Written(n, what) \in Disk /\ Written(n, what).table = disk.table
           /\ \A m \in Nums : /\ Exists(Written(n, what), m) <=> Exists(disk, m)
                              /\ Content(Written(n, what), m) =
                                    IF m = n THEN what ELSE Content(disk, m)
<1>. DEFINE p == [disk.parts[n] EXCEPT !.holds = what]
<1>1. disk.parts[n] \in Part
  BY DEF Exists, Disk
<1>2. p \in Part /\ p.holds = what
  BY <1>1 DEF Part
<1>3. p # None
  BY <1>2, PartedAssumption
<1>4. /\ Changed(disk, n, p) \in Disk /\ Changed(disk, n, p).table = disk.table
      /\ \A m \in Nums : Changed(disk, n, p).parts[m] = IF m = n THEN p ELSE disk.parts[m]
  BY <1>2, ChangedType
<1>5. Written(n, what) = Changed(disk, n, p)
  BY DEF Written
<1>. HIDE DEF p
<1>. QED
  BY <1>2, <1>3, <1>4, <1>5 DEF Exists, Content

\* A call, whether it ends or not, by a task or by hand.
LEMMA CallType ==
    ASSUME TypeOK, NEW q \in Request, NEW i \in DOMAIN Steps(disk, q, InUse),
           disk' = Steps(disk, q, InUse)[i], UNCHANGED host
    PROVE  /\ disk' \in Disk
           /\ mounted' \in {None, Data}
           /\ mounted' # None => Content(disk', Data) \in {"ext4", "data"}
           /\ swapping' \in {None, Swap} /\ (swapping' # None => Content(disk', Swap) = "swap")
           /\ enabled' \subseteq {"mount", "swap"}
<1>1. /\ disk' \in Disk
      /\ \A n \in Nums : n \in InUse => Content(disk', n) = Content(disk, n)
  BY CallStep DEF TypeOK
<1>2. /\ mounted # None => Data \in InUse
      /\ swapping # None => Swap \in InUse
  BY DEF TypeOK, InUse
<1>3. Data \in Nums /\ (swapping # None => Swap \in Nums)
  BY UseAssumption DEF TypeOK
<1>. QED
  BY <1>1, <1>2, <1>3 DEF TypeOK, host

\* A new volume, and a host that runs nothing, have the types.
LEMMA TypeInit == Init => TypeOK
<1>. SUFFICES ASSUME Init PROVE TypeOK
  OBVIOUS
<1>1. disk \in Disk
  <2>1. CASE disk \in {Labelled(t) : t \in {"unknown"} \cup Labels}
    BY <2>1, LabelledType DEF Tables
  <2>2. CASE disk = Changed(Labelled("loop"), 1, Whole)
    <3>1. Whole \in Part
      BY PartedAssumption DEF Whole, Part, Contents
    <3>2. 1 \in Nums /\ Labelled("loop") \in Disk
      BY PartedAssumption, LabelledType DEF Nums, Tables
    <3>. QED
      BY <2>2, <3>1, <3>2, ChangedType
  <2>. QED
    BY <2>1, <2>2 DEF Init
<1>2. 1 \in 1 .. Len(layout)
  BY Places DEF Init
<1>. QED
  BY <1>1, <1>2, BoundAssumption DEF Init, TypeOK, Stopped

\* What a reboot, of this host or of a new one, leaves running.
LEMMA BootsType ==
    ASSUME TypeOK, NEW units, units \subseteq {"mount", "swap"}, Boots(units)
    PROVE  TypeOK'
<1>1. /\ mounted' \in {None, Data}
      /\ mounted' # None => Content(disk, Data) \in {"ext4", "data"}
      /\ swapping' \in {None, Swap} /\ (swapping' # None => Content(disk, Swap) = "swap")
  BY DEF Boots
<1>2. UNCHANGED <<disk, old, link, layout, at, used, calls>>
  BY DEF Boots, program
<1>3. \A n : Content(disk, n)' = Content(disk, n)
  BY <1>2 DEF Content, Exists
<1>4. faults' \in 0 .. MaxFaults
  BY BoundAssumption DEF Boots, TypeOK
<1>5. /\ pc' \in Working \cup Stopped
      /\ pc' \in {"swap", "mkswap", "swapon"} => Swap # None
      /\ pc' \in {"unit", "mount"} => Content(disk, Data) \in {"ext4", "data"}
  BY DEF Boots, TypeOK, Working, Stopped
<1>. QED
  BY <1>1, <1>2, <1>3, <1>4, <1>5 DEF TypeOK, Boots

\* Every task, fault and call by hand keeps the types.
LEMMA TypeNext == TypeOK /\ [Next]_vars => TypeOK'
<1>. SUFFICES ASSUME TypeOK, [Next]_vars PROVE TypeOK'
  OBVIOUS
<1>. USE DEF TypeOK, host, program, bounds, Working, Stopped
<1>1. CASE Play
  <2>1. 1 \in 1 .. Len(layout')
    BY <1>1, Places DEF Play
  <2>. QED
    BY <1>1, <2>1 DEF Play, Content, Exists
<1>2. CASE Info
  BY <1>2 DEF Info, Goto, Content, Exists
<1>3. ASSUME NEW q \in Request, NEW next \in {"part", "mkfs", "swap"}, Call(q, next),
             next = "swap" => Swap # None, at' \in 1 .. Len(layout)
      PROVE  TypeOK'
  <2>1. PICK i \in DOMAIN Steps(disk, q, InUse) : Result(disk, q, InUse) = Steps(disk, q, InUse)[i]
    BY ResultIsStep
  <2>2. disk' = Steps(disk, q, InUse)[i] /\ UNCHANGED host
    BY <1>3, <2>1 DEF Call
  <2>3. /\ disk' \in Disk
        /\ mounted' \in {None, Data}
        /\ mounted' # None => Content(disk', Data) \in {"ext4", "data"}
        /\ swapping' \in {None, Swap} /\ (swapping' # None => Content(disk', Swap) = "swap")
        /\ enabled' \subseteq {"mount", "swap"}
    BY <2>2, CallType
  <2>4. pc' \in {next, "failed"} /\ UNCHANGED <<layout, old, link, used, faults, calls>>
    BY <1>3 DEF Call, Goto
  <2>. QED
    BY <1>3, <2>3, <2>4 DEF Content, Exists
<1>4. CASE Label
  BY <1>3, <1>4, TaskCalls DEF Label
<1>5. CASE MakePartition
  <2>1. Len(layout) \in Nat
    BY Places
  <2>2. at' \in 1 .. Len(layout)
    BY <1>5, <2>1 DEF MakePartition
  <2>3. /\ AfterParts \in {"mkfs", "swap"} /\ (AfterParts = "swap" => Swap # None)
    BY DEF AfterParts
  <2>. QED
    BY <1>3, <1>5, <2>2, <2>3, TaskCalls DEF MakePartition
<1>6. CASE SwapCheck
  BY <1>6 DEF SwapCheck, Goto, Content, Exists
<1>7. CASE MkSwap
  <2>1. CASE Exists(disk, Swap) /\ Swap \notin InUse
    <3>1. disk' = Written(Swap, "swap") /\ pc' = "swapon" /\ Swap # None
      BY <1>7, <2>1 DEF MkSwap, Goto
    <3>2. Swap \in Nums /\ Data \in Nums /\ Swap # Data
      BY <3>1, UseAssumption
    <3>3. /\ disk' \in Disk /\ Content(disk', Swap) = "swap"
          /\ Content(disk', Data) = Content(disk, Data)
      BY <2>1, <3>1, <3>2, WrittenIs DEF Contents
    <3>. QED
      BY <1>7, <2>1, <3>1, <3>3 DEF MkSwap, Goto, Content, Exists
  <2>2. CASE ~(Exists(disk, Swap) /\ Swap \notin InUse)
    BY <1>7, <2>2 DEF MkSwap, Goto, Content, Exists
  <2>. QED
    BY <2>1, <2>2
<1>8. CASE SwapOn
  BY <1>8 DEF SwapOn, Goto, Content, Exists
<1>9. CASE MkFs
  <2>1. CASE Exists(disk, Data) /\ Content(disk, Data) = "nothing"
    <3>1. disk' = Written(Data, "ext4") /\ pc' = "unit"
      BY <1>9, <2>1 DEF MkFs, Goto
    <3>2. Data \in Nums /\ Swap \in Nums \cup {None} /\ Swap # Data /\ None \notin Nums
      BY UseAssumption, PartedAssumption
    <3>3. /\ disk' \in Disk /\ Content(disk', Data) = "ext4"
          /\ Swap \in Nums => Content(disk', Swap) = Content(disk, Swap)
      BY <2>1, <3>1, <3>2, WrittenIs DEF Contents
    <3>. QED
      BY <1>9, <3>1, <3>2, <3>3 DEF MkFs, Goto, Content, Exists
  <2>2. CASE ~(Exists(disk, Data) /\ Content(disk, Data) = "nothing")
    <3>1. Exists(disk, Data) => Content(disk, Data) \in Contents
      BY DEF Exists, Content, Disk, Part
    <3>. QED
      BY <1>9, <2>2, <3>1 DEF MkFs, Goto, Content, Exists, Contents
  <2>. QED
    BY <2>1, <2>2
<1>10. CASE InstallUnit
  BY <1>10 DEF InstallUnit, Goto, Content, Exists
<1>11. CASE Mount
  BY <1>11 DEF Mount, Goto, Content, Exists
<1>12. CASE Crash
  <2>1. PICK q \in Request : \/ disk' = disk
                             \/ \E i \in DOMAIN Steps(disk, q, InUse) :
                                   disk' = Steps(disk, q, InUse)[i]
    BY <1>12, TaskCalls DEF Crash
  <2>2. faults' \in 0 .. MaxFaults
    BY <1>12, BoundAssumption DEF Crash
  <2>3. UNCHANGED <<host, old, link, layout, at, used, calls>> /\ pc' = "failed"
    BY <1>12 DEF Crash
  <2>4. CASE disk' = disk
    BY <2>2, <2>3, <2>4 DEF Content, Exists
  <2>5. ASSUME NEW i \in DOMAIN Steps(disk, q, InUse), disk' = Steps(disk, q, InUse)[i]
        PROVE  TypeOK'
    <3>1. /\ disk' \in Disk
          /\ mounted' \in {None, Data}
          /\ mounted' # None => Content(disk', Data) \in {"ext4", "data"}
          /\ swapping' \in {None, Swap} /\ (swapping' # None => Content(disk', Swap) = "swap")
          /\ enabled' \subseteq {"mount", "swap"}
      BY <2>3, <2>5, CallType
    <3>. QED
      BY <2>2, <2>3, <3>1 DEF Content, Exists
  <2>. QED
    BY <2>1, <2>4, <2>5
<1>13. CASE Reboot
  BY <1>13, BootsType DEF Reboot
<1>14. CASE Replace
  BY <1>14, BootsType DEF Replace
<1>15. CASE Write
  <2>1. mounted = Data /\ Content(disk, Data) \in {"ext4", "data"}
    BY <1>15 DEF Write
  <2>2. /\ Data \in Nums /\ Swap \in Nums \cup {None} /\ Swap # Data /\ None \notin Nums
    BY UseAssumption, PartedAssumption
  <2>3. Exists(disk, Data)
    BY <2>1 DEF Content
  <2>4. /\ disk' \in Disk /\ Content(disk', Data) = "data"
        /\ Swap \in Nums => Content(disk', Swap) = Content(disk, Swap)
    BY <1>15, <2>1, <2>2, <2>3, WrittenIs DEF Contents, Write
  <2>. QED
    BY <1>15, <2>2, <2>4 DEF Write, Content, Exists
<1>16. CASE ByHand
  <2>1. PICK q \in Calls : CallByHand(q)
    BY <1>16 DEF ByHand
  <2>2. PICK i \in DOMAIN Steps(disk, q, InUse) : Result(disk, q, InUse) = Steps(disk, q, InUse)[i]
    BY ResultIsStep
  <2>3. /\ disk' \in Disk
        /\ mounted' \in {None, Data}
        /\ mounted' # None => Content(disk', Data) \in {"ext4", "data"}
        /\ swapping' \in {None, Swap} /\ (swapping' # None => Content(disk', Swap) = "swap")
        /\ enabled' \subseteq {"mount", "swap"}
    <3>1. q \in Request /\ disk' = Steps(disk, q, InUse)[i] /\ UNCHANGED host
      BY <2>1, <2>2, CallsAssumption DEF CallByHand
    <3>. QED
      BY <3>1, CallType
  <2>4. calls' \in 0 .. MaxCalls
    BY <2>1, BoundAssumption DEF CallByHand
  <2>5. pc' \in Stopped /\ UNCHANGED <<old, link, pc, layout, at, used, faults>>
    BY <2>1 DEF CallByHand
  <2>. QED
    BY <2>3, <2>4, <2>5 DEF Content, Exists
<1>17. CASE UNCHANGED vars
  BY <1>17 DEF vars, Content, Exists
<1>. QED
  BY <1>1, <1>2, <1>4, <1>5, <1>6, <1>7, <1>8, <1>9, <1>10, <1>11, <1>12, <1>13, <1>14,
     <1>15, <1>16, <1>17 DEF Next, Task

\* What is on the volume and in use on the host has its type, and only
\* partitions that exist, with the content for their use, are ever in use.
THEOREM TypeCorrect == Spec => []TypeOK
  BY TypeInit, TypeNext, PTL DEF Spec

-----------------------------------------------------------------------------
(* No play takes data away.                                                *)

\* What a table tells of the partitions.
TableInv ==
    /\ disk.table = "unknown" => \A n \in Nums : ~Exists(disk, n)
    /\ disk.table = "loop" => \A n \in Nums : Exists(disk, n) => n = 1

\* Where there is a partition for swap space it has never held data.
SwapInv == disk.table # "loop" /\ Swap # None => Content(disk, Swap) # "data"

\* A play that has come past the label, or past the partitions, knows that the
\* table is the one it takes it for: with a filesystem and no table, all the
\* partitions that were there already are the first.
PlayInv ==
    /\ pc \in {"info", "label"} => at = 1
    /\ pc = "label" => disk.table = "unknown"
    /\ pc = "part" /\ disk.table = "loop" => \A i \in 1 .. at - 1 : layout[i].number = 1
    /\ pc \in {"swap", "mkswap", "swapon"} => disk.table # "loop"

VolInv == TypeOK /\ TableInv /\ SwapInv /\ PlayInv

\* The numbers of the first, the data and the swap partition are numbers of partitions.
LEMMA Numbers == 1 \in Nums /\ Data \in Nums /\ Swap \in Nums \cup {None} /\ Swap # Data
  BY PartedAssumption, UseAssumption DEF Nums

\* The invariant of the volume holds of every volume the roles may find.
LEMMA VolInit == Init => VolInv
<1>. SUFFICES ASSUME Init PROVE VolInv
  OBVIOUS
<1>1. \A t \in Tables : /\ Labelled(t).table = t
                        /\ \A n \in Nums : ~Exists(Labelled(t), n)
  BY LabelledType
<1>2. CASE disk \in {Labelled(t) : t \in {"unknown"} \cup Labels}
  <2>1. disk.table # "loop" /\ \A n \in Nums : ~Exists(disk, n)
    BY <1>1, <1>2 DEF Tables, Labels
  <2>. QED
    BY <2>1, TypeInit, Numbers DEF Init, VolInv, TableInv, SwapInv, PlayInv, Content
<1>3. CASE disk = Changed(Labelled("loop"), 1, Whole)
  <2>1. Whole \in Part /\ Labelled("loop") \in Disk
    BY PartedAssumption, LabelledType DEF Whole, Part, Contents, Tables
  <2>2. /\ disk.table = Labelled("loop").table
        /\ \A m \in Nums : disk.parts[m] = IF m = 1 THEN Whole ELSE Labelled("loop").parts[m]
    BY <1>3, <2>1, Numbers, ChangedType
  <2>3. disk.table = "loop" /\ \A n \in Nums : Exists(disk, n) => n = 1
    BY <1>1, <2>2 DEF Exists, Tables
  <2>. QED
    BY <2>3, TypeInit DEF Init, VolInv, TableInv, SwapInv, PlayInv
<1>. QED
  BY <1>2, <1>3 DEF Init

\* A call leaves what a table tells true.
LEMMA CallKeeps ==
    ASSUME VolInv, NEW q \in Request, NEW i \in DOMAIN Steps(disk, q, InUse),
           disk' = Steps(disk, q, InUse)[i]
    PROVE  /\ TableInv' /\ SwapInv'
           /\ disk'.table = disk.table \/ disk'.table \in Labels
<1>1. /\ disk'.table = disk.table \/ disk'.table \in Labels
      /\ disk'.table # disk.table => \A n \in Nums : Content(disk', n) = "nothing"
      /\ \A n \in Nums : /\ Content(disk', n) = Content(disk, n) \/ Content(disk', n) = "nothing"
                         /\ disk'.table \notin Labels /\ Exists(disk', n) => Exists(disk, n)
  BY CallStep DEF VolInv, TypeOK
<1>2. TableInv'
  BY <1>1 DEF VolInv, TableInv, Labels, Exists
<1>3. \A n : Content(disk, n)' = Content(disk', n)
  BY DEF Content, Exists
<1>4. SwapInv'
  BY <1>1, <1>3, Numbers DEF VolInv, SwapInv
<1>. QED
  BY <1>1, <1>2, <1>4

\* A call that a play makes takes no data away.
LEMMA TaskCallKeeps ==
    ASSUME VolInv, NEW q, (q = LabelCall /\ pc = "label") \/ (q = PartCall /\ pc = "part"),
           NEW i \in DOMAIN Steps(disk, q, InUse), disk' = Steps(disk, q, InUse)[i]
    PROVE  \A n \in Nums : Content(disk, n) = "data" => Content(disk', n) = "data"
<1>1. /\ LabelCall \in Request /\ LabelCall.state = "present"
      /\ PartCall \in Request /\ PartCall.state = "present"
  BY TaskCalls DEF VolInv, LabelCall, PartCall
<1>2. disk.table # "unknown" => LabelToMake(disk, q) = None
  BY DEF VolInv, PlayInv, LabelToMake, LabelCall, PartCall
<1>3. \A n \in Nums : \/ Content(disk', n) = Content(disk, n)
                      \/ LabelToMake(disk, q) # None
  BY <1>1, CallStep DEF VolInv, TypeOK
<1>4. disk.table = "unknown" => \A n \in Nums : Content(disk, n) = "nothing"
  BY DEF VolInv, TableInv, Content
<1>. QED
  BY <1>2, <1>3, <1>4

\* On a volume with a filesystem and no table, only a partition that is there
\* lets the play go on.
LEMMA PartOnLoop ==
    ASSUME VolInv, MakePartition, pc' # "failed", disk'.table = "loop"
    PROVE  Item.number = 1 /\ disk.table = "loop"
<1>1. Item \in Place /\ Item.number \in {Swap, Data}
  BY Places DEF VolInv, TypeOK, Item
<1>2. PartCall \in Request
  BY TaskCalls DEF VolInv
<1>3. PICK i \in DOMAIN Steps(disk, PartCall, InUse) : disk' = Steps(disk, PartCall, InUse)[i]
  BY ResultIsStep DEF MakePartition, Call
<1>4. disk.table = "loop"
  BY <1>2, <1>3, CallKeeps DEF Labels
<1>5. LabelToMake(disk, PartCall) = None
  BY <1>4 DEF LabelToMake, PartCall, LabelCall
<1>6. AfterLabel(disk, PartCall) = disk
  BY <1>5 DEF AfterLabel
<1>7. ~MakesInVain(disk, PartCall)
  BY DEF MakePartition, Call, Goto, Refused, PartCall, LabelCall
<1>8. ~MakesPart(disk, PartCall)
  BY <1>4, <1>6, <1>7 DEF MakesInVain, CanMake, Labels
<1>9. Exists(disk, Item.number)
  BY <1>8 DEF MakesPart, PartCall, LabelCall
<1>. QED
  BY <1>4, <1>9 DEF VolInv, TableInv, Exists

\* The invariant of the volume is inductive.
LEMMA VolNext == VolInv /\ [Next]_vars => VolInv'
<1>. SUFFICES ASSUME VolInv, [Next]_vars PROVE VolInv'
  OBVIOUS
<1>1. TypeOK /\ TypeOK'
  BY TypeNext DEF VolInv
<1>2. ASSUME UNCHANGED disk
      PROVE  TableInv' /\ SwapInv'
  BY <1>2 DEF VolInv, TableInv, SwapInv, Content, Exists
<1>3. ASSUME NEW n \in Nums, NEW what \in Contents, Exists(disk, n), disk' = Written(n, what),
             n = Swap => what # "data"
      PROVE  TableInv' /\ SwapInv' /\ disk'.table = disk.table
  <2>1. /\ disk'.table = disk.table
        /\ \A m \in Nums : /\ Exists(disk', m) <=> Exists(disk, m)
                           /\ Content(disk', m) = IF m = n THEN what ELSE Content(disk, m)
    BY <1>1, <1>3, WrittenIs DEF TypeOK
  <2>. QED
    BY <1>3, <2>1, Numbers DEF VolInv, TableInv, SwapInv, Content, Exists
<1>4. CASE Play
  BY <1>1, <1>2, <1>4 DEF Play, VolInv, PlayInv
<1>5. CASE Info
  BY <1>1, <1>2, <1>5 DEF Info, Goto, VolInv, PlayInv, NeedsLabel
<1>6. CASE Label
  <2>1. TableInv' /\ SwapInv' /\ (disk'.table = disk.table \/ disk'.table \in Labels)
    BY <1>6, ResultIsStep, CallKeeps, TaskCalls DEF Label, Call, VolInv
  <2>. QED
    BY <1>1, <1>6, <2>1 DEF Label, Call, Goto, VolInv, PlayInv, Labels
<1>7. CASE MakePartition
  <2>1. TableInv' /\ SwapInv'
    BY <1>7, ResultIsStep, CallKeeps, TaskCalls DEF MakePartition, Call, VolInv
  <2>2. layout' = layout /\ pc' \in {"failed", "part", "swap", "mkfs"}
    BY <1>7 DEF MakePartition, Call, Goto, AfterParts
  <2>3. at \in 1 .. Len(layout) /\ Len(layout) \in Nat /\ layout \in Layouts
    BY <1>1, Places DEF TypeOK
  <2>4. CASE pc' # "failed" /\ disk'.table = "loop"
    <3>1. layout[at].number = 1 /\ disk.table = "loop"
      BY <1>7, <2>4, PartOnLoop DEF Item
    <3>2. \A i \in 1 .. at : layout[i].number = 1
      BY <1>7, <2>3, <3>1 DEF MakePartition, VolInv, PlayInv
    <3>3. CASE at < Len(layout)
      <4>1. at' = at + 1 /\ pc' = "part"
        BY <1>7, <2>4, <3>3 DEF MakePartition, Call, Goto
      <4>. QED
        BY <1>1, <2>1, <2>2, <2>3, <3>2, <4>1 DEF VolInv, PlayInv
    <3>4. CASE ~(at < Len(layout))
      <4>1. at = Len(layout) /\ pc' = AfterParts
        BY <1>7, <2>3, <2>4, <3>4 DEF MakePartition, Call, Goto
      <4>2. \A n \in {Swap, Data} \ {None} : n = 1
        BY <2>3, <3>2, <4>1, Places
      <4>3. Swap = None
        BY <4>2, Numbers, PartedAssumption
      <4>4. pc' = "mkfs"
        BY <4>1, <4>3 DEF AfterParts
      <4>. QED
        BY <1>1, <2>1, <4>4 DEF VolInv, PlayInv
    <3>. QED
      BY <3>3, <3>4
  <2>. QED
    BY <1>1, <2>1, <2>2, <2>4 DEF VolInv, PlayInv
<1>8. CASE SwapCheck
  BY <1>1, <1>2, <1>8 DEF SwapCheck, Goto, VolInv, PlayInv
<1>9. CASE MkSwap
  <2>1. CASE Exists(disk, Swap) /\ Swap \notin InUse
    <3>1. Swap \in Nums
      BY <2>1 DEF Exists
    <3>2. disk' = Written(Swap, "swap")
      BY <1>9, <2>1 DEF MkSwap
    <3>3. TableInv' /\ SwapInv' /\ disk'.table = disk.table
      BY <1>3, <2>1, <3>1, <3>2 DEF Contents
    <3>. QED
      BY <1>1, <1>9, <2>1, <3>3 DEF MkSwap, Goto, VolInv, PlayInv
  <2>2. CASE ~(Exists(disk, Swap) /\ Swap \notin InUse)
    BY <1>1, <1>2, <1>9, <2>2 DEF MkSwap, Goto, VolInv, PlayInv
  <2>. QED
    BY <2>1, <2>2
<1>10. CASE SwapOn \/ InstallUnit \/ Mount
  BY <1>1, <1>2, <1>10 DEF SwapOn, InstallUnit, Mount, Goto, VolInv, PlayInv
<1>11. CASE MkFs
  <2>1. CASE Exists(disk, Data) /\ Content(disk, Data) = "nothing"
    <3>1. disk' = Written(Data, "ext4")
      BY <1>11, <2>1 DEF MkFs
    <3>2. TableInv' /\ SwapInv'
      BY <1>3, <2>1, <3>1, Numbers DEF Contents
    <3>. QED
      BY <1>1, <1>11, <3>2 DEF MkFs, Goto, VolInv, PlayInv
  <2>2. CASE ~(Exists(disk, Data) /\ Content(disk, Data) = "nothing")
    BY <1>1, <1>2, <1>11, <2>2 DEF MkFs, Goto, VolInv, PlayInv
  <2>. QED
    BY <2>1, <2>2
<1>12. CASE Crash
  <2>1. pc' = "failed"
    BY <1>12 DEF Crash
  <2>2. TableInv' /\ SwapInv'
    BY <1>2, <1>12, CallKeeps, TaskCalls DEF Crash, VolInv
  <2>. QED
    BY <1>1, <2>1, <2>2 DEF VolInv, PlayInv
<1>13. CASE Reboot \/ Replace
  <2>1. UNCHANGED <<disk, layout, at>> /\ pc' \in {pc, "failed"}
    BY <1>13 DEF Reboot, Replace, Boots
  <2>. QED
    BY <1>1, <1>2, <2>1 DEF VolInv, PlayInv
<1>14. CASE Write
  <2>1. mounted = Data /\ Exists(disk, Data) /\ disk' = Written(Data, "data")
    BY <1>1, <1>14 DEF Write, TypeOK, Content
  <2>2. TableInv' /\ SwapInv' /\ disk'.table = disk.table
    BY <1>3, <2>1, Numbers DEF Contents
  <2>. QED
    BY <1>1, <1>14, <2>2 DEF Write, VolInv, PlayInv
<1>15. CASE ByHand
  <2>1. PICK q \in Calls : CallByHand(q)
    BY <1>15 DEF ByHand
  <2>2. TableInv' /\ SwapInv'
    BY <2>1, ResultIsStep, CallKeeps, CallsAssumption DEF CallByHand
  <2>3. pc' = pc /\ pc \in Stopped
    BY <2>1 DEF CallByHand
  <2>. QED
    BY <1>1, <2>2, <2>3 DEF VolInv, PlayInv, Stopped
<1>16. CASE UNCHANGED vars
  BY <1>1, <1>2, <1>16 DEF vars, VolInv, PlayInv
<1>. QED
  BY <1>4, <1>5, <1>6, <1>7, <1>8, <1>9, <1>10, <1>11, <1>12, <1>13, <1>14, <1>15, <1>16
     DEF Next, Task

\* What a step does to the contents.
LEMMA VolKeeps ==
    ASSUME VolInv, [Next]_vars, NEW n \in Nums, Content(disk, n) = "data"
    PROVE  Content(disk, n)' = "data" \/ GivenUp(n)
<1>. USE DEF VolInv
<1>1. Content(disk, n)' = Content(disk', n)
  BY DEF Content, Exists
<1>2. ASSUME NEW m \in Nums, NEW what \in Contents, Exists(disk, m), disk' = Written(m, what),
             m = n => what = "data"
      PROVE  Content(disk', n) = "data"
  BY <1>2, WrittenIs DEF TypeOK
<1>3. CASE Label \/ MakePartition
  <2>1. PICK q : /\ (q = LabelCall /\ pc = "label") \/ (q = PartCall /\ pc = "part")
                 /\ disk' = Result(disk, q, InUse)
    BY <1>3 DEF Label, MakePartition, Call
  <2>2. PICK i \in DOMAIN Steps(disk, q, InUse) : disk' = Steps(disk, q, InUse)[i]
    BY <2>1, ResultIsStep
  <2>. QED
    BY <1>1, <2>1, <2>2, TaskCallKeeps
<1>4. CASE MkSwap
  <2>1. Content(disk, Swap) # "data" /\ Swap # n
    BY <1>4 DEF MkSwap, SwapInv, PlayInv, TypeOK
  <2>. QED
    BY <1>1, <1>2, <1>4, <2>1 DEF MkSwap, Contents, Exists
<1>5. CASE MkFs
  BY <1>1, <1>2, <1>5, Numbers DEF MkFs, Contents
<1>6. CASE Crash
  <2>1. CASE disk' = disk
    BY <1>1, <2>1
  <2>2. CASE disk' # disk
    <3>1. PICK q : /\ (q = LabelCall /\ pc = "label") \/ (q = PartCall /\ pc = "part")
                   /\ \E i \in DOMAIN Steps(disk, q, InUse) : disk' = Steps(disk, q, InUse)[i]
      BY <1>6, <2>2 DEF Crash
    <3>2. PICK i \in DOMAIN Steps(disk, q, InUse) : disk' = Steps(disk, q, InUse)[i]
      BY <3>1
    <3>. QED
      BY <1>1, <3>1, <3>2, TaskCallKeeps
  <2>. QED
    BY <2>1, <2>2
<1>7. CASE Write
  <2>1. mounted = Data /\ Exists(disk, Data) /\ disk' = Written(Data, "data")
    BY <1>7 DEF Write, TypeOK, Content
  <2>. QED
    BY <1>1, <1>2, <2>1, Numbers DEF Contents
<1>8. CASE ByHand
  <2>1. PICK q \in Calls : CallByHand(q)
    BY <1>8 DEF ByHand
  <2>2. q \in Request
    BY CallsAssumption
  <2>3. PICK i \in DOMAIN Steps(disk, q, InUse) : disk' = Steps(disk, q, InUse)[i]
    BY <2>1, ResultIsStep DEF CallByHand
  <2>4. \/ Content(disk', n) = Content(disk, n)
        \/ /\ ~q.check
           /\ \/ q.state = "absent" /\ q.number = n
              \/ q.state = "present" /\ LabelToMake(disk, q) # None
    BY <2>2, <2>3, CallStep DEF TypeOK
  <2>5. disk.table # "unknown"
    BY DEF TableInv, Content
  <2>. QED
    BY <1>1, <2>1, <2>4, <2>5 DEF GivenUp, LabelToMake
<1>9. CASE UNCHANGED disk
  BY <1>1, <1>9
<1>. QED
  BY <1>3, <1>4, <1>5, <1>6, <1>7, <1>8, <1>9
     DEF Next, Task, vars, Play, Info, SwapCheck, SwapOn, InstallUnit, Mount, Reboot, Replace, Boots

\* No play, whatever it is interrupted by and on whatever volume, takes away
\* the data of a partition; parted by hand does only what it is told.
THEOREM DataIsKept == Spec => DataKept
<1>1. VolInv /\ [Next]_vars => [\A n \in Nums : Content(disk, n) = "data" =>
                                   Content(disk, n)' = "data" \/ GivenUp(n)]_vars
  BY VolKeeps
<1>. QED
  BY <1>1, VolInit, VolNext, PTL DEF Spec, DataKept

-----------------------------------------------------------------------------
(* A play that finds all set up.                                           *)

\* On a volume that is set up the label and the partition asked for are there.
LEMMA SetUpCall ==
    ASSUME VolInv, SetUp, pc = "part"
    PROVE  Result(disk, PartCall, InUse) = disk
<1>1. Exists(disk, Item.number)
  BY Places DEF VolInv, TypeOK, SetUp, Item
<1>2. disk.table # "unknown"
  BY <1>1 DEF VolInv, TableInv, Exists
<1>3. LabelToMake(disk, PartCall) = None
  BY <1>2 DEF LabelToMake, PartCall, LabelCall
<1>4. ~MakesPart(disk, PartCall)
  BY <1>1 DEF MakesPart, PartCall, LabelCall
<1>5. AfterLabel(disk, PartCall) = disk /\ AfterScript(disk, PartCall) = disk
  BY <1>3, <1>4 DEF AfterLabel, AfterScript
<1>6. AfterFlags(disk, PartCall) = disk
  BY DEF AfterFlags, PartCall, LabelCall
<1>7. PartCall.state = "present"
  BY DEF PartCall, LabelCall
<1>8. \A i \in DOMAIN Steps(disk, PartCall, InUse) : Steps(disk, PartCall, InUse)[i] = disk
  BY <1>5, <1>6, <1>7, StepsAre
<1>. QED
  BY <1>8, ResultIsStep

\* The roles are idempotent on a volume that is set up, in use and whole: the
\* label is not made again, no partition is added, mkswap and mkfs are left out
\* and nothing is mounted twice.
THEOREM SetUpIsQuiet == Spec => QuietWhenSetUp
<1>1. ASSUME VolInv, SetUp, Task
      PROVE  UNCHANGED <<disk, mounted, swapping>>
  <2>. USE <1>1
  <2>1. TypeOK
    BY DEF VolInv
  <2>2. mounted # None /\ Content(disk, Data) \in {"ext4", "data"}
    BY <2>1, UseAssumption, PartedAssumption DEF SetUp, TypeOK
  <2>3. CASE Label
    <3>1. disk.table = "unknown"
      BY <2>3 DEF Label, VolInv, PlayInv
    <3>2. ~Exists(disk, Data)
      BY <3>1 DEF VolInv, TableInv, Exists
    <3>. QED
      BY <2>2, <3>2 DEF Content
  <2>4. CASE MakePartition
    <3>1. disk' = disk
      BY <2>4, SetUpCall DEF MakePartition, Call
    <3>. QED
      BY <2>4, <3>1 DEF MakePartition, Call, host
  <2>5. CASE MkSwap
    <3>1. Swap # None
      BY <2>1, <2>5 DEF MkSwap, TypeOK
    <3>2. Swap \in InUse
      BY <3>1 DEF SetUp, InUse
    <3>. QED
      BY <2>5, <3>2 DEF MkSwap, host
  <2>6. CASE MkFs
    BY <2>2, <2>6 DEF MkFs, host
  <2>7. CASE SwapOn
    BY <2>7 DEF SwapOn, SetUp
  <2>8. CASE Mount
    BY <2>2, <2>8 DEF Mount
  <2>9. CASE Info \/ SwapCheck \/ InstallUnit
    BY <2>9 DEF Info, SwapCheck, InstallUnit, host
  <2>. QED
    BY <2>3, <2>4, <2>5, <2>6, <2>7, <2>8, <2>9 DEF Task
<1>2. VolInv /\ [Next]_vars =>
        [SetUp /\ Task => UNCHANGED <<disk, mounted, swapping>>]_vars
  BY <1>1
<1>. QED
  BY <1>2, VolInit, VolNext, PTL DEF Spec, QuietWhenSetUp

-----------------------------------------------------------------------------
(* Each partition lies where some play asked for it.                       *)

\* The playbooks list partitions by their numbers, from 1 on.
InOrder == \A l \in Layouts : \A i \in DOMAIN l : l[i].number = i

\* By hand no partition is made.
NoneByHand == \A q \in Calls : ~q.part_type

\* Some play so far asked for partition n to lie where p lies.
AskedAt(n, p) ==
    \E l \in used : \E i \in DOMAIN l :
        l[i].number = n /\ l[i].from = p.from /\ l[i].to = p.to

\* The partitions before the one that a play has come to are there, so that the
\* lowest number that is free is its own.
MadeInv ==
    /\ disk.table \in Labels =>
          \A n \in Nums : Exists(disk, n) => AskedAt(n, disk.parts[n])
    /\ pc \in Working => layout \in used
    /\ pc = "part" => \A j \in 1 .. at - 1 : Exists(disk, layout[j].number)

\* Partition n of e is partition n of d, with the same table.
Stays(d, e, n) ==
    /\ e.table = d.table /\ Exists(d, n)
    /\ e.parts[n].from = d.parts[n].from /\ e.parts[n].to = d.parts[n].to

\* A partition that is there after a call was there before it, at its place, or
\* is the one that the call was to make, with the lowest free number.
LEMMA CallPlaces ==
    ASSUME NEW d \in Disk, NEW q \in Request, NEW U, NEW i \in DOMAIN Steps(d, q, U),
           NEW n \in Nums, Exists(Steps(d, q, U)[i], n)
    PROVE  LET e == Steps(d, q, U)[i] IN
           \/ Stays(d, e, n)
           \/ /\ MakesPart(d, q) /\ Lowest(n, AfterLabel(d, q))
              /\ e.parts[n].from = q.from /\ e.parts[n].to = q.to
<1>. DEFINE e == Steps(d, q, U)[i]
            a == AfterLabel(d, q)
            s == AfterScript(d, q)
<1>1. a \in Disk /\ (a = d \/ \A m \in Nums : ~Exists(a, m))
  BY AfterLabelType
<1>2. CASE e = d
  BY <1>2 DEF Stays
<1>3. CASE Exists(d, q.number) /\ e = Changed(d, q.number, None)
  <2>1. /\ e.table = d.table
        /\ \A m \in Nums : e.parts[m] = IF m = q.number THEN None ELSE d.parts[m]
    BY <1>3, ChangedType DEF Exists
  <2>. HIDE DEF e
  <2>. QED
    BY <2>1 DEF Exists, Stays, e
<1>4. ASSUME Exists(a, n)
      PROVE  Stays(d, a, n)
  BY <1>1, <1>4 DEF Stays
<1>5. CASE e = a
  BY <1>4, <1>5
<1>6. ASSUME ~MakesInVain(d, q), Exists(s, n)
      PROVE  \/ Stays(d, s, n)
             \/ /\ MakesPart(d, q) /\ Lowest(n, a)
                /\ s.parts[n].from = q.from /\ s.parts[n].to = q.to
  <2>1. CASE ~MakesPart(d, q)
    BY <1>4, <1>6, <2>1 DEF AfterScript
  <2>2. CASE MakesPart(d, q)
    <3>1. s = Made(a, q)
      BY <2>2 DEF AfterScript
    <3>2. s.table = a.table
      BY <1>1, <3>1, MadeType
    <3>3. s.parts[n] = IF Lowest(n, a) THEN NewPart(q) ELSE a.parts[n]
      BY <1>1, <3>1 DEF Made, Disk
    <3>4. CASE Lowest(n, a)
      BY <2>2, <3>3, <3>4 DEF NewPart
    <3>5. CASE ~Lowest(n, a)
      <4>1. Exists(a, n)
        BY <1>6, <3>3, <3>5 DEF Exists
      <4>. QED
        BY <1>4, <3>2, <3>3, <3>5, <4>1 DEF Stays
    <3>. QED
      BY <3>4, <3>5
  <2>. QED
    BY <2>1, <2>2
<1>7. CASE ~MakesInVain(d, q) /\ e = s
  BY <1>6, <1>7
<1>8. CASE ~MakesInVain(d, q) /\ e = AfterFlags(s, q)
  <2>1. s \in Disk
    BY <1>8, AfterScriptType
  <2>2. /\ e.table = s.table /\ Exists(s, n)
        /\ e.parts[n].from = s.parts[n].from /\ e.parts[n].to = s.parts[n].to
    <3>1. CASE q.flags # {} /\ Exists(s, q.number)
      <4>. DEFINE p == [s.parts[q.number] EXCEPT !.flags = q.flags]
      <4>1. q.number \in Nums /\ s.parts[q.number] \in Part
        BY <2>1, <3>1 DEF Exists, Disk
      <4>2. /\ p \in Part /\ p.from = s.parts[q.number].from
            /\ p.to = s.parts[q.number].to
        BY <4>1 DEF Part, Request
      <4>3. e = Changed(s, q.number, p)
        BY <1>8, <3>1 DEF AfterFlags
      <4>. HIDE DEF p, s, e
      <4>4. /\ e.table = s.table
            /\ \A m \in Nums : e.parts[m] = IF m = q.number THEN p ELSE s.parts[m]
        BY <2>1, <4>1, <4>2, <4>3, ChangedType
      <4>5. Exists(e, n)
        BY DEF e
      <4>. QED
        BY <3>1, <4>2, <4>4, <4>5 DEF Exists
    <3>2. CASE ~(q.flags # {} /\ Exists(s, q.number))
      BY <1>8, <3>2 DEF AfterFlags
    <3>. QED
      BY <3>1, <3>2
  <2>. HIDE DEF e, s
  <2>. QED
    BY <1>6, <1>8, <2>2 DEF Stays, e
<1>. QED
  BY <1>2, <1>3, <1>5, <1>7, <1>8, StepsAre

\* What some play asked for stays asked for.
LEMMA StaysAsked ==
    ASSUME MadeInv, used \subseteq used',
           \A n \in Nums : Exists(disk', n) =>
               Stays(disk, disk', n) \/ AskedAt(n, disk.parts[n])'
    PROVE  disk'.table \in Labels =>
              \A n \in Nums : Exists(disk', n) => AskedAt(n, disk.parts[n])'
<1>. SUFFICES ASSUME disk'.table \in Labels, NEW n \in Nums, Exists(disk', n),
                     Stays(disk, disk', n)
              PROVE  AskedAt(n, disk.parts[n])'
  OBVIOUS
<1>1. AskedAt(n, disk.parts[n])
  BY DEF MadeInv, Stays
<1>2. PICK l \in used : \E i \in DOMAIN l :
        l[i].number = n /\ l[i].from = disk.parts[n].from /\ l[i].to = disk.parts[n].to
  BY <1>1 DEF AskedAt
<1>3. \E i \in DOMAIN l :
        /\ l[i].number = n
        /\ l[i].from = disk'.parts[n].from /\ l[i].to = disk'.parts[n].to
  BY <1>2 DEF Stays
<1>4. l \in used'
  BY <1>2
<1>. QED
  BY <1>3, <1>4 DEF AskedAt

\* The partition that a play has come to gets the number it asks for.
LEMMA PartCallAsked ==
    ASSUME VolInv, MadeInv, InOrder, pc = "part", used' = used,
           NEW i \in DOMAIN Steps(disk, PartCall, InUse),
           disk' = Steps(disk, PartCall, InUse)[i],
           NEW n \in Nums, Exists(disk', n)
    PROVE  Stays(disk, disk', n) \/ AskedAt(n, disk.parts[n])'
<1>. DEFINE q == PartCall
            a == AfterLabel(disk, q)
<1>1. q \in Request /\ disk \in Disk /\ layout \in used /\ layout \in Layouts
      /\ at \in 1 .. Len(layout) /\ DOMAIN layout = 1 .. Len(layout)
      /\ Len(layout) \in Nat
  <2>1. layout \in Seq(Place) /\ layout \in Layouts
    BY LayoutsAssumption DEF VolInv, TypeOK
  <2>2. DOMAIN layout = 1 .. Len(layout) /\ Len(layout) \in Nat
    BY <2>1
  <2>. QED
    BY <2>1, <2>2, TaskCalls DEF VolInv, TypeOK, MadeInv, Working
<1>2. q.number = at /\ q.from = layout[at].from /\ q.to = layout[at].to
  BY <1>1 DEF InOrder, PartCall, LabelCall, Item
<1>3. \A j \in 1 .. at - 1 : Exists(disk, j)
  BY <1>1 DEF MadeInv, InOrder
<1>4. SUFFICES ASSUME MakesPart(disk, q), Lowest(n, a),
                      disk'.parts[n].from = q.from, disk'.parts[n].to = q.to
               PROVE  AskedAt(n, disk.parts[n])'
  <2>. HIDE DEF q
  <2>. QED
    BY <1>1, CallPlaces DEF q
<1>5. n = at
  <2>1. at \in Nums /\ at \in Nat \ {0} /\ n \in Nat \ {0}
    <3>1. layout[at] \in Place /\ layout[at].number = at
      <4>1. layout[at] \in Place
        BY <1>1, Places
      <4>2. at \in DOMAIN layout
        BY <1>1
      <4>. QED
        BY <1>1, <4>1, <4>2 DEF InOrder
    <3>2. layout[at].number \in Nums /\ \A m \in Nums : m \in Nat \ {0}
      BY <3>1, PartedAssumption DEF Place, Nums
    <3>. QED
      BY <3>1, <3>2
  <2>2. ~Exists(disk, at)
    BY <1>2, <1>4 DEF MakesPart
  <2>3. CASE a = disk
    <3>1. ~Exists(disk, n) /\ \A m \in 1 .. n - 1 : Exists(disk, m)
      BY <1>4, <2>3 DEF Lowest
    <3>2. n < at => n \in 1 .. at - 1
      BY <2>1
    <3>3. at < n => at \in 1 .. n - 1
      BY <2>1
    <3>. HIDE DEF a, q
    <3>. QED
      BY <1>3, <2>1, <2>2, <3>1, <3>2, <3>3
  <2>4. CASE a # disk
    <3>1. disk.table = "unknown" /\ \A m \in Nums : ~Exists(a, m)
      <4>1. LabelToMake(disk, q) # None
        BY <2>4 DEF AfterLabel
      <4>2. disk.table = "unknown"
        BY <4>1 DEF LabelToMake, PartCall, LabelCall
      <4>. QED
        BY <1>1, <2>4, <4>2, AfterLabelType
    <3>2. \A m \in Nums : ~Exists(disk, m)
      BY <3>1 DEF VolInv, TableInv
    <3>3. at = 1
      <4>1. ~(1 < at)
        BY <1>3, <2>1, <3>2, Numbers
      <4>. QED
        BY <1>1, <4>1
    <3>4. ~(1 < n)
      BY <1>4, <2>1, <3>1, Numbers DEF Lowest
    <3>. QED
      BY <2>1, <3>3, <3>4 DEF Nums
  <2>. QED
    BY <2>3, <2>4
<1>6. /\ layout \in used' /\ at \in DOMAIN layout /\ layout[at].number = n
      /\ layout[at].from = disk'.parts[n].from /\ layout[at].to = disk'.parts[n].to
  BY <1>1, <1>2, <1>4, <1>5 DEF InOrder
<1>. QED
  BY <1>6 DEF AskedAt

\* A task that makes a partition and goes on leaves it there, and those before.
LEMMA PartMade ==
    ASSUME VolInv, MadeInv, InOrder, MakePartition, pc' # "failed",
           NEW j \in 1 .. at
    PROVE  Exists(disk', layout[j].number)
<1>. DEFINE q == PartCall
            a == AfterLabel(disk, q)
<1>1. /\ q \in Request /\ disk \in Disk /\ ~q.check /\ q.state = "present" /\ q.flags = {}
      /\ q.part_type /\ q.number = Item.number
  BY TaskCalls DEF VolInv, TypeOK, PartCall, LabelCall
<1>2. ~RelabelsUsed(disk, q, InUse) /\ ~MakesInVain(disk, q)
  BY <1>1 DEF MakePartition, Call, Goto, Refused
<1>3. disk' = AfterScript(disk, q)
  <2>1. Result(disk, q, InUse) = AfterFlags(AfterScript(disk, q), q)
    BY <1>1, <1>2 DEF Result, Steps
  <2>. QED
    BY <1>1, <2>1 DEF MakePartition, Call, AfterFlags
<1>4. a \in Disk /\ (a = disk \/ disk.table = "unknown")
  <2>1. a # disk => LabelToMake(disk, q) # None
    BY DEF AfterLabel
  <2>2. LabelToMake(disk, q) # None => disk.table = "unknown"
    BY DEF LabelToMake, PartCall, LabelCall
  <2>. QED
    BY <1>1, <2>1, <2>2, AfterLabelType
<1>5. \A m \in Nums : Exists(disk, m) => Exists(a, m)
  BY <1>4 DEF VolInv, TableInv
<1>6. \A m \in Nums : Exists(a, m) => Exists(disk', m)
  BY <1>1, <1>2, <1>3, AfterScriptType
<1>7. at \in Nat /\ \A k \in 1 .. at - 1 : Exists(disk, layout[k].number)
  <2>1. at \in 1 .. Len(layout) /\ Len(layout) \in Nat
    BY Places DEF VolInv, TypeOK
  <2>. QED
    BY <2>1 DEF MadeInv, MakePartition
<1>8. CASE j # at
  BY <1>5, <1>6, <1>7, <1>8 DEF Exists
<1>9. CASE j = at
  <2>1. layout[at].number = at /\ at \in Nums /\ q.number = at
    <3>1. layout \in Layouts /\ layout[at] \in Place /\ at \in DOMAIN layout
      <4>1. layout \in Layouts /\ layout \in Seq(Place) /\ at \in 1 .. Len(layout)
        BY LayoutsAssumption DEF VolInv, TypeOK
      <4>2. layout[at] \in Place
        BY <4>1, Places
      <4>3. DOMAIN layout = 1 .. Len(layout)
        BY <4>1
      <4>. QED
        BY <4>1, <4>2, <4>3
    <3>2. layout[at].number = at
      BY <3>1 DEF InOrder
    <3>3. layout[at].number \in Nums
      BY <3>1, <3>2 DEF Place, InOrder
    <3>. QED
      BY <1>1, <3>2, <3>3 DEF Item
  <2>2. CASE Exists(disk, at)
    BY <1>5, <1>6, <1>9, <2>1, <2>2
  <2>3. CASE ~Exists(disk, at) /\ Exists(a, at)
    BY <1>6, <1>9, <2>1, <2>3
  <2>4. CASE ~Exists(disk, at) /\ ~Exists(a, at)
    <3>1. MakesPart(disk, q)
      BY <1>1, <2>1, <2>4 DEF MakesPart
    <3>2. disk' = Made(a, q)
      BY <1>3, <3>1 DEF AfterScript
    <3>3. \A m \in 1 .. at - 1 : Exists(a, m)
      <4>. SUFFICES ASSUME NEW m \in 1 .. at - 1
                    PROVE  Exists(a, m)
        OBVIOUS
      <4>1. layout \in Seq(Place) /\ at \in 1 .. Len(layout)
        BY LayoutsAssumption DEF VolInv, TypeOK
      <4>2. m \in DOMAIN layout
        BY <1>7, <4>1
      <4>3. layout[m].number = m
        BY <4>2 DEF InOrder, VolInv, TypeOK
      <4>4. Exists(disk, m) /\ m \in Nums
        BY <1>7, <4>3 DEF Exists
      <4>. HIDE DEF a
      <4>. QED
        BY <1>5, <4>4
    <3>4. Lowest(at, a)
      BY <2>1, <2>4, <3>3 DEF Lowest
    <3>5. disk'.parts[at] = NewPart(q)
      BY <1>4, <2>1, <3>2, <3>4 DEF Made, Disk
    <3>6. NewPart(q) # None
      BY <1>1, PartedAssumption DEF NewPart, Part, Request, Contents
    <3>. QED
      BY <1>9, <2>1, <3>5, <3>6 DEF Exists
  <2>. QED
    BY <2>2, <2>3, <2>4
<1>. QED
  BY <1>8, <1>9

\* Writing moves no partition.
LEMMA WrittenPlaces ==
    ASSUME disk \in Disk, NEW n \in Nums, Exists(disk, n), NEW what \in Contents,
           disk' = Written(n, what)
    PROVE  /\ disk'.table = disk.table
           /\ \A m \in Nums : /\ Exists(disk', m) <=> Exists(disk, m)
                              /\ Exists(disk', m) => Stays(disk, disk', m)
<1>. DEFINE p == [disk.parts[n] EXCEPT !.holds = what]
<1>1. disk.parts[n] \in Part
  BY DEF Exists, Disk
<1>2. p \in Part /\ p.from = disk.parts[n].from /\ p.to = disk.parts[n].to
  BY <1>1 DEF Part
<1>3. disk' = Changed(disk, n, p)
  BY DEF Written
<1>4. /\ disk'.table = disk.table
      /\ \A m \in Nums : disk'.parts[m] = IF m = n THEN p ELSE disk.parts[m]
  BY <1>2, <1>3, ChangedType
<1>5. \A m \in Nums : Exists(disk', m) <=> Exists(disk, m)
  BY WrittenIs
<1>. HIDE DEF p
<1>. QED
  BY <1>2, <1>4, <1>5 DEF Stays

\* Nothing is there at first, or no table that numbers partitions.
LEMMA MadeInit == Init => MadeInv
<1>. SUFFICES ASSUME Init PROVE MadeInv
  OBVIOUS
<1>1. pc = "idle"
  BY DEF Init
<1>2. CASE disk \in {Labelled(t) : t \in {"unknown"} \cup Labels}
  <2>1. \A n \in Nums : ~Exists(disk, n)
    BY <1>2, LabelledType DEF Tables
  <2>. QED
    BY <1>1, <2>1 DEF MadeInv, Working
<1>3. CASE disk = Changed(Labelled("loop"), 1, Whole)
  <2>1. Whole \in Part /\ Labelled("loop") \in Disk /\ Labelled("loop").table = "loop"
    BY PartedAssumption, LabelledType DEF Whole, Part, Contents, Tables
  <2>2. disk.table = "loop"
    BY <1>3, <2>1, Numbers, ChangedType
  <2>. QED
    BY <1>1, <2>2 DEF MadeInv, Working, Labels
<1>. QED
  BY <1>2, <1>3 DEF Init

\* Every step leaves every partition where some play asked for it, and a play
\* goes on to the next partition only when the ones before are there.
LEMMA MadeNext ==
    ASSUME InOrder, NoneByHand, VolInv, VolInv', MadeInv, [Next]_vars
    PROVE  MadeInv'
<1>. USE DEF Working, Stopped
<1>1. ASSUME used \subseteq used', NEW q \in Request, NEW i \in DOMAIN Steps(disk, q, InUse),
             disk' = Steps(disk, q, InUse)[i], ~MakesPart(disk, q)
      PROVE  \A n \in Nums : Exists(disk', n) => Stays(disk, disk', n)
  <2>. SUFFICES ASSUME NEW n \in Nums, Exists(disk', n) PROVE Stays(disk, disk', n)
    OBVIOUS
  <2>1. disk \in Disk
    BY DEF VolInv, TypeOK
  <2>. QED
    BY <1>1, <2>1, CallPlaces
<1>2. ASSUME used \subseteq used',
             \A n \in Nums : Exists(disk', n) =>
                 Stays(disk, disk', n) \/ AskedAt(n, disk.parts[n])'
      PROVE  disk'.table \in Labels =>
                \A n \in Nums : Exists(disk', n) => AskedAt(n, disk.parts[n])'
  BY <1>2, StaysAsked
<1>3. ASSUME disk' = disk
      PROVE  \A n \in Nums : Exists(disk', n) => Stays(disk, disk', n)
  BY <1>3 DEF Stays, Exists
<1>4. ASSUME used \subseteq used',
             \A n \in Nums : Exists(disk', n) =>
                 Stays(disk, disk', n) \/ AskedAt(n, disk.parts[n])',
             pc' \in Working => layout' \in used',
             pc' = "part" => \A j \in 1 .. at' - 1 : Exists(disk', layout'[j].number)
      PROVE  MadeInv'
  BY <1>2, <1>4 DEF MadeInv, Exists
<1>5. CASE Play
  <2>1. used \subseteq used' /\ layout' \in used' /\ pc' = "info" /\ disk' = disk
    BY <1>5 DEF Play
  <2>. QED
    BY <1>3, <1>4, <2>1
<1>6. CASE Info
  <2>1. used' = used /\ layout' = layout /\ pc = "info" /\ disk' = disk /\ at' = at
    BY <1>6 DEF Info, Goto, bounds
  <2>2. at' = 1 /\ layout \in used
    BY <2>1 DEF VolInv, PlayInv, MadeInv
  <2>. QED
    BY <1>3, <1>4, <2>1, <2>2
<1>7. CASE Label
  <2>1. /\ used' = used /\ layout' = layout /\ pc = "label" /\ at' = at
        /\ disk' = Result(disk, LabelCall, InUse)
    BY <1>7 DEF Label, Call, Goto, bounds
  <2>2. at' = 1 /\ layout \in used
    BY <2>1 DEF VolInv, PlayInv, MadeInv
  <2>3. LabelCall \in Request /\ ~MakesPart(disk, LabelCall)
    BY TaskCalls DEF VolInv, LabelCall, MakesPart
  <2>4. \A n \in Nums : Exists(disk', n) => Stays(disk, disk', n)
    BY <1>1, <2>1, <2>3, ResultIsStep
  <2>. QED
    BY <1>4, <2>1, <2>2, <2>4
<1>8. CASE MakePartition
  <2>1. /\ used' = used /\ layout' = layout /\ pc = "part" /\ layout \in used
        /\ disk' = Result(disk, PartCall, InUse)
    BY <1>8 DEF MakePartition, Call, Goto, bounds, MadeInv
  <2>2. PICK i \in DOMAIN Steps(disk, PartCall, InUse) :
           disk' = Steps(disk, PartCall, InUse)[i]
    BY <2>1, ResultIsStep
  <2>3. \A n \in Nums : Exists(disk', n) =>
           Stays(disk, disk', n) \/ AskedAt(n, disk.parts[n])'
    BY <2>1, <2>2, PartCallAsked
  <2>4. pc' = "part" => \A j \in 1 .. at' - 1 : Exists(disk', layout'[j].number)
    <3>. SUFFICES ASSUME pc' = "part", NEW j \in 1 .. at' - 1
                  PROVE  Exists(disk', layout[j].number)
      BY <2>1
    <3>1. at \in 1 .. Len(layout) /\ Len(layout) \in Nat
      BY Places DEF VolInv, TypeOK
    <3>2. at < Len(layout) => at' = at + 1
      BY <1>8 DEF MakePartition
    <3>3. ~(at < Len(layout)) => pc' # "part"
      BY <1>8 DEF MakePartition, Call, Goto, AfterParts
    <3>4. j \in 1 .. at
      BY <3>1, <3>2, <3>3
    <3>. QED
      BY <1>8, <3>4, PartMade
  <2>. QED
    BY <1>4, <2>1, <2>3, <2>4
<1>9. CASE SwapCheck \/ SwapOn \/ InstallUnit \/ Mount
  <2>1. /\ used' = used /\ layout' = layout /\ pc \in Working /\ disk' = disk
        /\ pc' # "part"
    BY <1>9 DEF SwapCheck, SwapOn, InstallUnit, Mount, Goto, bounds
  <2>2. layout \in used
    BY <2>1 DEF MadeInv
  <2>. QED
    BY <1>3, <1>4, <2>1, <2>2
<1>10. CASE MkSwap \/ MkFs \/ Write
  <2>1. /\ used' = used /\ layout' = layout /\ at' = at
        /\ pc' \in {pc, "swapon", "unit", "failed"} /\ (pc' # pc => pc \in Working)
    BY <1>10 DEF MkSwap, MkFs, Write, Goto, bounds
  <2>2. /\ disk'.table = disk.table
        /\ \A m \in Nums : /\ Exists(disk', m) <=> Exists(disk, m)
                           /\ Exists(disk', m) => Stays(disk, disk', m)
    <3>1. CASE disk' = disk
      BY <1>3, <3>1 DEF Exists
    <3>2. CASE disk' # disk
      <4>1. PICK n \in Nums, what \in Contents : Exists(disk, n) /\ disk' = Written(n, what)
        <5>1. CASE MkSwap
          BY <3>2, <5>1 DEF MkSwap, Contents, Exists
        <5>2. CASE MkFs
          BY <3>2, <5>2, Numbers DEF MkFs, Contents
        <5>3. CASE Write
          <6>1. mounted = Data /\ Exists(disk, Data)
            BY <5>3 DEF Write, VolInv, TypeOK, Content
          <6>. QED
            BY <5>3, <6>1, Numbers DEF Write, Contents
        <5>. QED
          BY <1>10, <5>1, <5>2, <5>3
      <4>2. disk \in Disk
        BY DEF VolInv, TypeOK
      <4>. QED
        BY <4>1, <4>2, WrittenPlaces
    <3>. QED
      BY <3>1, <3>2
  <2>3. pc' \in Working => layout' \in used'
    BY <2>1 DEF MadeInv
  <2>4. pc' = "part" => \A j \in 1 .. at' - 1 : Exists(disk', layout'[j].number)
    BY <2>1, <2>2 DEF MadeInv, Exists
  <2>. QED
    BY <1>4, <2>1, <2>2, <2>3, <2>4
<1>11. CASE Crash
  <2>1. used' = used /\ pc' = "failed" /\ pc \in Working
    BY <1>11 DEF Crash
  <2>2. \A n \in Nums : Exists(disk', n) =>
           Stays(disk, disk', n) \/ AskedAt(n, disk.parts[n])'
    <3>1. CASE disk' = disk
      BY <1>3, <3>1
    <3>2. CASE /\ pc = "label"
               /\ \E i \in DOMAIN Steps(disk, LabelCall, InUse) :
                     disk' = Steps(disk, LabelCall, InUse)[i]
      <4>1. LabelCall \in Request /\ ~MakesPart(disk, LabelCall)
        BY TaskCalls DEF VolInv, LabelCall, MakesPart
      <4>. QED
        BY <1>1, <2>1, <3>2, <4>1
    <3>3. CASE /\ pc = "part"
               /\ \E i \in DOMAIN Steps(disk, PartCall, InUse) :
                     disk' = Steps(disk, PartCall, InUse)[i]
      BY <2>1, <3>3, PartCallAsked
    <3>. QED
      BY <1>11, <3>1, <3>2, <3>3 DEF Crash
  <2>. QED
    BY <1>4, <2>1, <2>2
<1>12. CASE Reboot \/ Replace
  <2>1. /\ used' = used /\ layout' = layout /\ at' = at /\ disk' = disk
        /\ pc' \in {pc, "failed"}
    BY <1>12 DEF Reboot, Replace, Boots
  <2>2. pc' \in Working => layout' \in used'
    BY <2>1 DEF MadeInv
  <2>3. pc' = "part" => \A j \in 1 .. at' - 1 : Exists(disk', layout'[j].number)
    BY <2>1 DEF MadeInv, Exists
  <2>. QED
    BY <1>3, <1>4, <2>1, <2>2, <2>3
<1>13. CASE ByHand
  <2>1. PICK q \in Calls : CallByHand(q)
    BY <1>13 DEF ByHand
  <2>2. q \in Request /\ ~MakesPart(disk, q)
    BY CallsAssumption DEF NoneByHand, MakesPart
  <2>3. used' = used /\ pc' = pc /\ pc \in Stopped /\ disk' = Result(disk, q, InUse)
    BY <2>1 DEF CallByHand
  <2>4. \A n \in Nums : Exists(disk', n) => Stays(disk, disk', n)
    BY <1>1, <2>2, <2>3, ResultIsStep
  <2>. QED
    BY <1>4, <2>3, <2>4
<1>14. CASE UNCHANGED vars
  <2>1. used' = used /\ layout' = layout /\ at' = at /\ disk' = disk /\ pc' = pc
    BY <1>14 DEF vars, bounds
  <2>2. pc' \in Working => layout' \in used'
    BY <2>1 DEF MadeInv
  <2>3. pc' = "part" => \A j \in 1 .. at' - 1 : Exists(disk', layout'[j].number)
    BY <2>1 DEF MadeInv, Exists
  <2>. QED
    BY <1>3, <1>4, <2>1, <2>2, <2>3
<1>. QED
  BY <1>5, <1>6, <1>7, <1>8, <1>9, <1>10, <1>11, <1>12, <1>13, <1>14 DEF Next, Task

\* parted's mkpart is not told the number of the partition it is to make, and
\* takes the lowest that is free.  If the playbooks list partitions by their
\* numbers, and none is made by hand, then wherever plays end and whatever is
\* removed between them, a partition lies where some play asked for it to be.
THEOREM NumbersAreKept == InOrder /\ NoneByHand /\ Spec => []NumbersMatch
<1>. SUFFICES ASSUME InOrder, NoneByHand
              PROVE  Spec => []NumbersMatch
  OBVIOUS
<1>1. MadeInv => NumbersMatch
  BY DEF MadeInv, NumbersMatch, AskedAt
<1>2. Spec => []VolInv
  BY VolInit, VolNext, PTL DEF Spec
<1>3. VolInv /\ VolInv' /\ MadeInv /\ [Next]_vars => MadeInv'
  BY MadeNext
<1>. QED
  BY <1>1, <1>2, <1>3, MadeInit, PTL DEF Spec
=============================================================================
