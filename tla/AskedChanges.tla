---------------------------- MODULE AskedChanges ----------------------------
(***************************************************************************)
(* What a FreeIPA server may see of any number of clients: tasks are asked *)
(* for, and the object changes only in ways that some task asked for so    *)
(* far accounts for, one attribute value at a time.  Nothing is said of    *)
(* finds, queues, requests or their order.  In particular a difference     *)
(* computed from an old find may be executed late, but it never removes a  *)
(* value that every task wants, and never brings in one that none wants.   *)
(***************************************************************************)
CONSTANTS ListAttr, ScalarAttr, Task, None, Default, FlagDefault, Object

VARIABLES
    obj,    \* the server's object
    asked   \* the tasks that were run for real (not in check mode)

\* A scalar parameter has a default that stands for it when it is not passed.
Given(t, k) == IF t.scalar[k] = None THEN Default[k] ELSE t.scalar[k]

\* state=absent asks for the object itself to go when nothing is passed.
AsksRemoval(t) == /\ t.state = "absent"
                  /\ \A a \in ListAttr : t.list[a] = {}
                  /\ \A k \in ScalarAttr : Given(t, k) = None
                  /\ FlagDefault = None

Wants(t, a, v)   == t.state # "absent" /\ v \in t.list[a]
Unwants(t, a, v) == \/ t.state = "exact" /\ v \notin t.list[a]
                    \/ t.state = "absent" /\ v \in t.list[a]
                    \/ AsksRemoval(t)

Sets(t, k, x) == \/ t.state # "absent" /\ x = Given(t, k)
                 \/ t.state = "absent" /\ x = Default[k] /\ Given(t, k) # None
                 \/ AsksRemoval(t) /\ x = None

\* The enable flag changes when the object comes or goes, or on demand.
Switches(t, old, new) == \/ new.flag = t.state
                         \/ old.exists # new.exists

Ask(t) == asked' = asked \cup {t} /\ UNCHANGED obj

Change ==
    /\ UNCHANGED asked
    /\ asked # {}
    /\ obj' \in Object
    /\ \A a \in ListAttr :
          /\ \A v \in obj'.list[a] \ obj.list[a] : \E t \in asked : Wants(t, a, v)
          /\ \A v \in obj.list[a] \ obj'.list[a] : \E t \in asked : Unwants(t, a, v)
    /\ \A k \in ScalarAttr : obj'.scalar[k] # obj.scalar[k] =>
          \E t \in asked : Sets(t, k, obj'.scalar[k])
    /\ obj'.flag # obj.flag => \E t \in asked : Switches(t, obj, obj')
    /\ obj.exists /\ ~obj'.exists => \E t \in asked : AsksRemoval(t)

Init == obj \in Object /\ asked = {}

Next == (\E t \in Task : Ask(t)) \/ Change

Spec == Init /\ [][Next]_<<obj, asked>>
=============================================================================
