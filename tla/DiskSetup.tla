------------------------------ MODULE DiskSetup ------------------------------
(***************************************************************************)
(* A volume and the host it is attached to, as the roles disk-label, swap  *)
(* and mkfs-ext4 set them up: a label, partitions, swap space, a           *)
(* filesystem and its mount.                                               *)
(*                                                                         *)
(* A play runs the roles' tasks one after the other and may end between    *)
(* any two, or within a call of parted.  The host may reboot, and may be   *)
(* replaced by a new one that the old volume is attached to.  Between two  *)
(* plays the operator may call parted by hand.                             *)
(***************************************************************************)
EXTENDS Parted

CONSTANTS
    Swap,        \* the number of the swap partition, or None
    Data,        \* the number of the data partition
    Layouts,     \* sequences of partitions to make, one for each swap_size
    Calls,       \* calls of parted by hand
    MaxFaults,   \* bound: interruptions, reboots and replacements
    MaxCalls     \* bound: calls by hand

Place == [number : Nums, from : 0 .. End, to : 0 .. End]

ASSUME UseAssumption == Data \in Nums /\ Swap \in Nums \cup {None} /\ Swap # Data
ASSUME LayoutsAssumption ==
    /\ Layouts \subseteq Seq(Place)
    /\ \A l \in Layouts : {l[i].number : i \in DOMAIN l} = {Swap, Data} \ {None}
ASSUME CallsAssumption == Calls \subseteq Request
ASSUME BoundAssumption == MaxFaults \in Nat /\ MaxCalls \in Nat

VARIABLES
    disk,      \* the volume
    old, link, \* parted is older than 3.1; the device is given as a link
    mounted,   \* the partition that is mounted, or None
    swapping,  \* the partition that is swapped to, or None
    enabled,   \* the units that systemd starts at boot
    pc,        \* the task the play has come to
    layout,    \* the partitions it makes
    at,        \* the one it has come to
    used,      \* history: the layouts of the plays so far
    faults, calls

host    == <<mounted, swapping, enabled>>
program == <<old, link>>
bounds  == <<used, faults, calls>>
vars    == <<disk, program, host, pc, layout, at, bounds>>

Working == {"info", "label", "part", "swap", "mkswap", "swapon", "mkfs", "unit", "mount"}
Stopped == {"idle", "done", "failed"}

InUse == {mounted, swapping} \ {None}

Content(d, n) == IF Exists(d, n) THEN d.parts[n].holds ELSE "nothing"

\* What mkswap, mkfs and the applications write.
Written(n, what) == Changed(disk, n, [disk.parts[n] EXCEPT !.holds = what])

-----------------------------------------------------------------------------

Whole == [from |-> 0, to |-> End, holds |-> "data", flags |-> {}]

\* A new volume, one with a label only, or one with a filesystem and no table,
\* which parted shows as its one partition.
Init ==
    /\ disk \in {Labelled(t) : t \in {"unknown"} \cup Labels}
                \cup {Changed(Labelled("loop"), 1, Whole)}
    /\ old \in BOOLEAN /\ link \in BOOLEAN
    /\ mounted = None /\ swapping = None /\ enabled = {}
    /\ pc = "idle" /\ layout \in Layouts /\ at = 1
    /\ used = {} /\ faults = 0 /\ calls = 0

Play ==
    /\ pc \in Stopped
    /\ layout' \in Layouts /\ at' = 1 /\ used' = used \cup {layout'}
    /\ pc' = "info"
    /\ UNCHANGED <<disk, program, host, faults, calls>>

Goto(p) == pc' = p /\ UNCHANGED <<layout, program, bounds>>

Blind == Unreadable(disk, old, link)

\* Mutant: the label is made without a look at the table.
NeedsLabel_Always == TRUE

\* when: parted_info.results.0.disk.table == 'unknown'
NeedsLabel == disk.table = "unknown"

Info ==
    /\ pc = "info"
    /\ Goto(IF Blind THEN "failed" ELSE IF NeedsLabel THEN "label" ELSE "part")
    /\ UNCHANGED <<disk, host, at>>

\* A call of parted, and the task that follows if it is not refused.
Call(q, next) ==
    /\ disk' = Result(disk, q, InUse)
    /\ Goto(IF Blind \/ Refused(disk, q, InUse) THEN "failed" ELSE next)
    /\ UNCHANGED host

LabelCall == [state |-> "present", number |-> None, label |-> "gpt", part_type |-> FALSE,
              from |-> 0, to |-> End, flags |-> {}, check |-> FALSE]

Label == pc = "label" /\ Call(LabelCall, "part") /\ UNCHANGED at

\* Mutant: the partitions are made from the last to the first.
Item_Backwards == layout[Len(layout) + 1 - at]

Item == layout[at]

PartCall == [LabelCall EXCEPT !.label = None, !.part_type = TRUE,
                !.number = Item.number, !.from = Item.from, !.to = Item.to]

AfterParts == IF Swap = None THEN "mkfs" ELSE "swap"

MakePartition ==
    /\ pc = "part"
    /\ Call(PartCall, IF at < Len(layout) THEN "part" ELSE AfterParts)
    /\ at' = IF at < Len(layout) THEN at + 1 ELSE at

SwapCheck ==
    /\ pc = "swap"
    /\ Goto(IF swapping = Swap THEN "mkfs" ELSE "mkswap")
    /\ UNCHANGED <<disk, host, at>>

\* mkswap asks nothing, but for a device that is in use.
MkSwap ==
    /\ pc = "mkswap"
    /\ IF Exists(disk, Swap) /\ Swap \notin InUse
       THEN disk' = Written(Swap, "swap") /\ Goto("swapon")
       ELSE UNCHANGED disk /\ Goto("failed")
    /\ UNCHANGED <<host, at>>

\* What the task after this one verifies it cannot see: it always succeeds.
SwapOn ==
    /\ pc = "swapon"
    /\ enabled' = enabled \cup {"swap"}
    /\ IF Content(disk, Swap) = "swap"
       THEN swapping' = Swap /\ Goto("mkfs")
       ELSE UNCHANGED swapping /\ Goto("failed")
    /\ UNCHANGED <<disk, mounted, at>>

\* Mutant: force=yes, whatever the partition holds is overwritten.
MkFs_Force ==
    /\ pc = "mkfs"
    /\ disk' = IF Exists(disk, Data) THEN Written(Data, "ext4") ELSE disk
    /\ Goto(IF Exists(disk, Data) THEN "unit" ELSE "failed")
    /\ UNCHANGED <<host, at>>

\* Mutant: a partition that is there is taken for a formatted one.
MkFs_Skip ==
    /\ pc = "mkfs"
    /\ Goto(IF Exists(disk, Data) THEN "unit" ELSE "failed")
    /\ UNCHANGED <<disk, host, at>>

\* filesystem: ext4 is left alone, and another content makes it fail.
MkFs ==
    /\ pc = "mkfs"
    /\ disk' = IF Exists(disk, Data) /\ Content(disk, Data) = "nothing"
               THEN Written(Data, "ext4") ELSE disk
    /\ Goto(IF Exists(disk, Data) /\ Content(disk, Data) # "swap" THEN "unit" ELSE "failed")
    /\ UNCHANGED <<host, at>>

InstallUnit ==
    /\ pc = "unit"
    /\ enabled' = enabled \cup {"mount"}
    /\ Goto("mount") /\ UNCHANGED <<disk, mounted, swapping, at>>

\* Started if /proc/mounts does not have the path.
Mount ==
    /\ pc = "mount"
    /\ mounted' = IF mounted = None THEN Data ELSE mounted
    /\ Goto("done") /\ UNCHANGED <<disk, swapping, enabled, at>>

\* The play is interrupted, maybe within a call of parted.
Crash ==
    /\ pc \in Working /\ faults < MaxFaults
    /\ \/ UNCHANGED disk
       \/ \E q \in (IF pc = "label" THEN {LabelCall} ELSE IF pc = "part" THEN {PartCall} ELSE {}) :
             ~Blind /\ \E i \in DOMAIN Steps(disk, q, InUse) : disk' = Steps(disk, q, InUse)[i]
    /\ pc' = "failed" /\ faults' = faults + 1
    /\ UNCHANGED <<program, host, layout, at, used, calls>>

\* The host boots: systemd starts what it finds enabled, if it can.
Boots(units) ==
    /\ faults < MaxFaults /\ faults' = faults + 1
    /\ enabled' = units
    /\ mounted' = IF "mount" \in units /\ Content(disk, Data) \in {"ext4", "data"}
                  THEN Data ELSE None
    /\ swapping' = IF "swap" \in units /\ Content(disk, Swap) = "swap" THEN Swap ELSE None
    /\ pc' = IF pc \in Working THEN "failed" ELSE pc
    /\ UNCHANGED <<disk, program, layout, at, used, calls>>

Reboot  == Boots(enabled)
Replace == Boots({})        \* a new host, with the old volume

Write ==
    /\ mounted # None /\ disk' = Written(mounted, "data")
    /\ UNCHANGED <<program, host, pc, layout, at, bounds>>

\* The operator calls parted by hand.
CallByHand(q) ==
    /\ pc \in Stopped /\ calls < MaxCalls /\ ~Blind
    /\ disk' = Result(disk, q, InUse)
    /\ calls' = calls + 1
    /\ UNCHANGED <<program, host, pc, layout, at, used, faults>>

ByHand == \E q \in Calls : CallByHand(q)

Task == \/ Info \/ Label \/ MakePartition \/ SwapCheck \/ MkSwap \/ SwapOn
        \/ MkFs \/ InstallUnit \/ Mount

Next == Play \/ Task \/ Crash \/ Reboot \/ Replace \/ Write \/ ByHand

Spec == Init /\ [][Next]_vars

\* A play comes to its end, and the operator plays again and again.
FairSpec == Spec /\ WF_vars(Task) /\ WF_vars(Play)

-----------------------------------------------------------------------------
(* Properties.                                                             *)

\* Types; only partitions that exist, with the right content, are in use.
TypeOK ==
    /\ disk \in Disk
    /\ old \in BOOLEAN /\ link \in BOOLEAN
    /\ mounted \in {None, Data} /\ (mounted # None => Content(disk, Data) \in {"ext4", "data"})
    /\ swapping \in {None, Swap} /\ (swapping # None => Content(disk, Swap) = "swap")
    /\ enabled \subseteq {"mount", "swap"}
    /\ pc \in Working \cup Stopped
    /\ pc \in {"swap", "mkswap", "swapon"} => Swap # None
    /\ pc \in {"unit", "mount"} => Content(disk, Data) \in {"ext4", "data"}
    /\ layout \in Layouts /\ at \in 1 .. Len(layout) /\ used \subseteq Layouts
    /\ faults \in 0 .. MaxFaults /\ calls \in 0 .. MaxCalls

\* The operator has asked for the content of partition n to go.
GivenUp(n) ==
    \E q \in Calls :
        /\ CallByHand(q) /\ ~q.check
        /\ \/ q.state = "present" /\ q.label # None
           \/ q.state = "absent" /\ q.number = n

\* No play ever takes data away, on whatever volume and however often plays,
\* hosts and layouts come and go; parted by hand does so only if it is told.
DataKept ==
    [][\A n \in Nums : Content(disk, n) = "data" =>
          Content(disk, n)' = "data" \/ GivenUp(n)]_vars

\* mkpart is not told the number it is to make; still a partition lies where
\* some play asked for the partition of that number to be.
NumbersMatch ==
    disk.table \in Labels =>
        \A n \in Nums : Exists(disk, n) =>
            \E l \in used : \E i \in DOMAIN l :
                l[i].number = n /\ l[i].from = disk.parts[n].from /\ l[i].to = disk.parts[n].to

\* All that a play is to set up.
SetUp ==
    /\ \A i \in DOMAIN layout : Exists(disk, layout[i].number)
    /\ mounted = Data /\ swapping = Swap

\* A play that finds all set up changes nothing on the volume.
QuietWhenSetUp == [][SetUp /\ Task => UNCHANGED <<disk, mounted, swapping>>]_vars

\* Played again and again, a play sets up the volume, whatever interrupted it;
\* unless there is a filesystem and no table, the swap size changed in between,
\* or an old parted is asked for a link to a disk without a label.
GetsSetUp == <>[]SetUp \/ <>[](disk.table = "loop" \/ Cardinality(used) > 1 \/ Blind)

=============================================================================
