----------------------------- MODULE MCIPAClient -----------------------------
(* Small instances of IPAClient, one per subclass that behaves differently. *)
EXTENDS IPAClasses, TLC

CONSTANTS c1, c2, v1, v2

\* The clients of an instance are alike.
ClientSymmetry == Permutations(Client)

\* Tasks whose list parameters are omitted rather than empty.
Tasks(states, checks) ==
    {p \in Params : /\ p.state \in states /\ p.check \in checks
                    /\ p.passed = {a \in ListAttr : p.list[a] # {}}}

PlainStates == {"present", "absent", "exact"}

PlainTasks  == Tasks(PlainStates, BOOLEAN)   \* with and without check mode
RealTasks   == Tasks(PlainStates, {FALSE})

\* All five states; with every list given, exact in check mode too.
FlagTasks == Tasks(States, {FALSE}) \cup
    {p \in Tasks({"exact"}, {TRUE}) : p.passed = ListAttr}

-----------------------------------------------------------------------------
(* What the documentation says and the code does not do.                   *)

Undisturbed(c) == Succeeded(c) /\ c \in undisturbed

\* ipa_service.py:27: "If the managed_by option is not supplied, state=absent
\* ensures the service itself is absent".  The defaults of three parameters
\* make every task look like one that removes parameters.
AbsentRemovesService ==
    \A c \in Client :
        /\ Undisturbed(c) /\ task[c].state = "absent"
        /\ task[c].passed = {}
        /\ \A k \in ScalarAttr : task[c].scalar[k] = None
        => ~obj.exists
=============================================================================
