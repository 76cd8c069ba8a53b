------------------------------ MODULE IPAClient ------------------------------
(***************************************************************************)
(* The idempotent FreeIPA client of lib/python/ipa.py and the classes of   *)
(* lib/modules that specialise it (group, caacl, ca, dnszone, dnsrecord,   *)
(* service, user).  A client is one Ansible task: it logs in, finds the    *)
(* object, computes the difference between what was found and what the     *)
(* task asks for, queues requests, and posts them one at a time.           *)
(*                                                                         *)
(* All clients of this module work on ONE object of the server: requests   *)
(* on different objects do not interact.  The server is not in the         *)
(* repository; Accepts and Apply say what the code relies on.              *)
(*                                                                         *)
(* A client keeps nothing between two runs, and in one run it only shares  *)
(* the server's object with the others, so computing the difference and    *)
(* queueing the requests is one step with the find that precedes them.     *)
(***************************************************************************)
EXTENDS Naturals, Sequences, FiniteSets

CONSTANTS
    Client,       \* the tasks that run against the object, maybe at once
    Task,         \* the parameters a task may be given (a subset of Params)
    ListAttr,     \* the object's list attributes
    ScalarAttr,   \* the object's scalar attributes
    Value,        \* values of list attributes
    ScalarValue,  \* values of scalar attributes
    None          \* a parameter not passed, an attribute not set

CONSTANTS \* what distinguishes the subclasses
    BaseKeys,     \* list attributes sent as addattr/delattr of <name>_mod
    ItemSteps,    \* the other list attributes: one add or remove method each
    Default,      \* the default that argument_spec gives a scalar, or None
    Modifiable,   \* scalars that <name>_mod may change once the object exists
    Enablable,    \* TRUE iff the class extends EnablableIPAClient
    FlagDefault   \* enablekey in the canonical params of a plain task, or None

CONSTANTS
    MaxRuns,      \* bound: starts of a task, reruns after a failure apart
    MaxFaults     \* bound: failures and timeouts in a behaviour

States == {"present", "absent", "exact", "enabled", "disabled"}
Flags  == {"enabled", "disabled"}

\* Parameters of a module call, after AnsibleModule has checked them; the
\* list attributes in `passed` are the ones the task names at all.
Params == {p \in [state  : States,
                  passed : SUBSET ListAttr,
                  list   : [ListAttr -> SUBSET Value],
                  scalar : [ScalarAttr -> ScalarValue \cup {None}],
                  check  : BOOLEAN] :
             \A a \in ListAttr \ p.passed : p.list[a] = {}}

ItemStep == [op : {"add", "remove"}, attrs : SUBSET ListAttr,
             announces : BOOLEAN]

\* Only the classes that extend EnablableIPAClient offer the last two states.
ASSUME TaskAssumption ==
    /\ Task \subseteq Params
    /\ \A t \in Task : t.state \in Flags => Enablable
ASSUME NoneAssumption == None \notin ScalarValue /\ None \notin Flags
ASSUME ClassAssumption ==
    /\ BaseKeys \subseteq ListAttr
    /\ ItemSteps \in Seq(ItemStep)
    /\ Default \in [ScalarAttr -> ScalarValue \cup {None}]
    /\ Modifiable \subseteq ScalarAttr
    /\ Enablable \in BOOLEAN
    /\ FlagDefault \in Flags \cup {None}
    \* every list attribute is added, and removed, by some request
    /\ \A a \in ListAttr \ BaseKeys : \A op \in {"add", "remove"} :
          \E j \in 1..Len(ItemSteps) :
             ItemSteps[j].op = op /\ a \in ItemSteps[j].attrs
ASSUME BoundAssumption == MaxRuns \in Nat /\ MaxFaults \in Nat

VARIABLES
    obj,          \* the server's object
    task,         \* task[c]: the parameters of client c, fixed from the start
    run,          \* run[c]: the module's state in the current run of c
    late,         \* requests whose client gave up and that may still execute
    runs,         \* runs[c]: how often c was started, as MaxRuns counts
    faults,       \* failures and timeouts so far
    undisturbed   \* history: clients since whose find nobody else changed obj

vars == <<obj, task, run, late, runs, faults, undisturbed>>

-----------------------------------------------------------------------------
(* The server's object and the requests it executes.                       *)

Object == [exists : BOOLEAN,
           list   : [ListAttr -> SUBSET Value],
           scalar : [ScalarAttr -> ScalarValue \cup {None}],
           flag   : Flags \cup {None}]

NoObject == [exists |-> FALSE,
             list   |-> [a \in ListAttr |-> {}],
             scalar |-> [k \in ScalarAttr |-> None],
             flag   |-> None]

\* Objects the server can hold: an object that is not there has no attributes.
ServerObject ==
    {NoObject} \cup
    {o \in Object : o.exists /\ (o.flag # None) = Enablable}

Methods == {"add", "mod", "del", "item"}
           \cup (IF Enablable THEN {"enable", "disable"} ELSE {})

Request == [method : Methods,
            add    : [ListAttr -> SUBSET Value],
            del    : [ListAttr -> SUBSET Value],
            keys   : SUBSET ScalarAttr,
            to     : [ScalarAttr -> ScalarValue \cup {None}]]

\* <name>_add needs the object to be new, every other method needs it.
Accepts(req, o) == o.exists = (req.method # "add")

Changed(req, o) ==
    [exists |-> TRUE,
     list   |-> [a \in ListAttr |-> (o.list[a] \cup req.add[a]) \ req.del[a]],
     scalar |-> [k \in ScalarAttr |-> IF k \in req.keys THEN req.to[k]
                                                        ELSE o.scalar[k]],
     flag   |-> CASE req.method = "add" /\ Enablable -> "enabled"
                  [] req.method = "enable"           -> "enabled"
                  [] req.method = "disable"          -> "disabled"
                  [] OTHER                           -> o.flag]

Apply(req, o) == IF req.method = "del" THEN NoObject ELSE Changed(req, o)

-----------------------------------------------------------------------------
(* Canonical parameters and the difference with what find returned.        *)

\* clean() drops a list that is empty as if it had not been passed.
CanonList(t, a)   == t.list[a]
CanonScalar(t, k) == IF t.scalar[k] = None THEN Default[k] ELSE t.scalar[k]
CanonFlag(t)      == IF t.state \in Flags THEN t.state ELSE FlagDefault

\* find() saw no attribute of interest, whether or not the object exists.
IsAbsent(o) ==
    \/ ~o.exists
    \/ /\ ~Enablable
       /\ \A a \in ListAttr : o.list[a] = {}
       /\ \A k \in ScalarAttr : o.scalar[k] = None

\* state=absent with parameters removes parameters, not the object.
IsRemParamRequest(t) ==
    \/ \E a \in ListAttr : CanonList(t, a) # {}
    \/ \E k \in ScalarAttr : CanonScalar(t, k) # None
    \/ CanonFlag(t) # None

ListAdd(t, o, a) ==
    IF t.state = "absent" THEN {} ELSE CanonList(t, a) \ o.list[a]

\* Mutant: state=present removes what is not passed, as state=exact does.
ListDel_Whole(t, o, a) ==
    IF t.state = "absent" THEN CanonList(t, a) \cap o.list[a]
                          ELSE o.list[a] \ CanonList(t, a)

ListDel(t, o, a) ==
    CASE t.state = "exact"  -> o.list[a] \ CanonList(t, a)
      [] t.state = "absent" -> CanonList(t, a) \cap o.list[a]
      [] OTHER              -> {}

\* Mutant: scalars are sent without comparing them with what was found.
ScalarKeys_NoCompare(t, o) ==
    {k \in ScalarAttr : CanonScalar(t, k) # None}

ScalarKeys(t, o) ==
    {k \in ScalarAttr :
        IF t.state = "absent"
        THEN CanonScalar(t, k) # None /\ CanonScalar(t, k) = o.scalar[k]
        ELSE /\ CanonScalar(t, k) # o.scalar[k]
             /\ CanonScalar(t, k) # None \/ t.state = "exact"}

ScalarTo(t, k) == IF t.state = "absent" THEN Default[k] ELSE CanonScalar(t, k)

-----------------------------------------------------------------------------
(* The requests of a run.  They are numbered in the order of               *)
(* change_functions, which is the order they are posted in: 1 removes the  *)
(* object, 2 adds or modifies it, 3 enables or disables it, and 3 + j is   *)
(* the j-th method of the class's own function (caacl                      *)
(* add_remove_list_items, group handle_members, user handle_cert and       *)
(* handle_principal, service handle_managedby_host and                     *)
(* handle_allow_keytab).                                                   *)

REM    == 1
BASE   == 2
ENABLE == 3
Items  == 4 .. (3 + Len(ItemSteps))
Steps  == {REM, BASE} \cup Items \cup (IF Enablable THEN {ENABLE} ELSE {})

\* The list attributes whose additions (removals) request i carries.
AddAttrs(i) == IF i = BASE THEN BaseKeys
               ELSE IF i \in Items /\ ItemSteps[i - 3].op = "add"
                    THEN ItemSteps[i - 3].attrs ELSE {}
DelAttrs(i) == IF i = BASE THEN BaseKeys
               ELSE IF i \in Items /\ ItemSteps[i - 3].op = "remove"
                    THEN ItemSteps[i - 3].attrs ELSE {}

Adds(i, t, o) ==
    [a \in ListAttr |-> IF a \in AddAttrs(i) THEN ListAdd(t, o, a) ELSE {}]
Dels(i, t, o) ==
    [a \in ListAttr |-> IF a \in DelAttrs(i) THEN ListDel(t, o, a) ELSE {}]

MethodOf(i, t, o) ==
    CASE i = REM    -> "del"
      [] i = BASE   -> IF IsAbsent(o) THEN "add" ELSE "mod"
      [] i = ENABLE -> IF CanonFlag(t) = "enabled" THEN "enable" ELSE "disable"
      [] OTHER      -> "item"

RequestOf(i, t, o) ==
    [method |-> MethodOf(i, t, o),
     add    |-> Adds(i, t, o),
     del    |-> Dels(i, t, o),
     keys   |-> IF i = BASE THEN ScalarKeys(t, o) ELSE {},
     to     |-> [k \in ScalarAttr |-> ScalarTo(t, k)]]

\* The task removes the object; nothing is queued after rem().
RemovesObject(t) == t.state = "absent" /\ ~IsRemParamRequest(t)

ListsChange(i, t, o) ==
    \E a \in ListAttr : Adds(i, t, o)[a] # {} \/ Dels(i, t, o)[a] # {}

RemQueued(t, o)  == ~IsAbsent(o) /\ ~t.check

\* Mutant: an object is created only if there is an attribute to set.
BaseQueued_NoCreate(t, o) == \/ ListsChange(BASE, t, o)
                             \/ ScalarKeys(t, o) # {}

BaseQueued(t, o) == \/ ListsChange(BASE, t, o)
                    \/ ScalarKeys(t, o) # {}
                    \/ ~o.exists
\* Mutant: the sense of the enable flag found is not looked at.
EnableQueued_Once(t, o) ==
    t.state \in Flags /\ o.flag = None /\ ~t.check

\* Mutant: the flag is set again although it has the value asked for.
EnableQueued_Always(t, o) ==
    t.state \in Flags /\ ~IsAbsent(o) /\ ~t.check

EnableQueued(t, o) ==
    /\ t.state \in Flags
    /\ CanonFlag(t) # o.flag
    /\ ~IsAbsent(o)
    /\ ~t.check
ItemQueued(i, t, o) == ListsChange(i, t, o) /\ ~t.check

\* Mutant: rem() does not end the queue.
Queue_NoBreak(t, o) ==
    {i \in Steps : \/ i = REM /\ RemovesObject(t) /\ RemQueued(t, o)
                   \/ i = BASE /\ BaseQueued(t, o)
                   \/ i = ENABLE /\ EnableQueued(t, o)
                   \/ i \in Items /\ ItemQueued(i, t, o)}

\* queue_requests()
Queue(t, o) ==
    IF RemovesObject(t)
    THEN {i \in {REM} : RemQueued(t, o)}
    ELSE {i \in Steps : \/ i = BASE /\ BaseQueued(t, o)
                        \/ i = ENABLE /\ EnableQueued(t, o)
                        \/ i \in Items /\ ItemQueued(i, t, o)}

\* Mutant: nothing is announced, as in ipa_service.py.
Announced_Never(t, o) == FALSE

\* Some class functions set `changed` before they look at check mode.
Announced(t, o) ==
    /\ ~RemovesObject(t)
    /\ \E i \in Items : ItemSteps[i - 3].announces /\ ListsChange(i, t, o)

\* Mutant: the class does not look at the keys of the request.
Refused_Never(t, o) == FALSE

\* CAIPAClient.mod_rewrite_list_changes() refuses the request it is given.
Refused(t, o) ==
    /\ BASE \in Queue(t, o)
    /\ MethodOf(BASE, t, o) = "mod"
    /\ ScalarKeys(t, o) \ Modifiable # {}

-----------------------------------------------------------------------------
(* One run of the module.                                                  *)

Running == {"login", "find", "process"}
PC == {"idle", "done", "failed"} \cup Running

Run == [pc : PC, seen : Object, todo : SUBSET Steps, changed : BOOLEAN]

NewRun == [pc |-> "login", seen |-> NoObject, todo |-> {}, changed |-> FALSE]

\* i is the queue entry that process_queue() has come to.
AtEntry(c, i) == /\ run[c].pc = "process"
                 /\ i \in run[c].todo
                 /\ \A j \in run[c].todo : i <= j

Init ==
    /\ obj \in ServerObject
    /\ task \in [Client -> Task]
    /\ run = [c \in Client |-> [NewRun EXCEPT !.pc = "idle"]]
    /\ late = {}
    /\ runs = [c \in Client |-> 0]
    /\ faults = 0
    /\ undisturbed = {}

\* The task is executed, for the first time or because the playbook is rerun.
Start(c) ==
    /\ run[c].pc \notin Running
    /\ \/ run[c].pc = "failed" /\ runs' = runs
       \/ runs[c] < MaxRuns /\ runs' = [runs EXCEPT ![c] = @ + 1]
    /\ run' = [run EXCEPT ![c] = NewRun]
    /\ undisturbed' = undisturbed \ {c}
    /\ UNCHANGED <<obj, task, late, faults>>

Login(c) ==
    /\ run[c].pc = "login"
    /\ run' = [run EXCEPT ![c].pc = "find"]
    /\ UNCHANGED <<obj, task, late, runs, faults, undisturbed>>

\* find() and queue_requests(): the answer is the only state of the server
\* that the rest of the run looks at.
Find(c) ==
    /\ run[c].pc = "find"
    /\ run' = [run EXCEPT ![c] =
                 [pc      |-> IF Refused(task[c], obj) THEN "failed"
                                                       ELSE "process",
                  seen    |-> obj,
                  todo    |-> Queue(task[c], obj),
                  changed |-> Announced(task[c], obj)]]
    /\ undisturbed' = undisturbed \cup {c}
    /\ UNCHANGED <<obj, task, late, runs, faults>>

\* process_queue(): one request is executed and its answer received.
Post(c) ==
    \E i \in run[c].todo : LET req == RequestOf(i, task[c], run[c].seen) IN
        /\ AtEntry(c, i) /\ ~task[c].check
        /\ Accepts(req, obj)
        /\ obj' = Apply(req, obj)
        /\ run' = [run EXCEPT ![c].todo = @ \ {i}, ![c].changed = TRUE]
        /\ undisturbed' = IF obj' = obj THEN undisturbed
                                       ELSE undisturbed \cap {c}
        /\ UNCHANGED <<task, late, runs, faults>>

\* Mutant: check mode posts the request.
Simulate_Posts(c) ==
    \E i \in run[c].todo : LET req == RequestOf(i, task[c], run[c].seen) IN
        /\ AtEntry(c, i) /\ task[c].check /\ Accepts(req, obj)
        /\ obj' = Apply(req, obj)
        /\ run' = [run EXCEPT ![c].todo = @ \ {i}, ![c].changed = TRUE]
        /\ UNCHANGED <<task, late, runs, faults, undisturbed>>

\* process_queue() in check mode.
Simulate(c) ==
    \E i \in run[c].todo :
        /\ AtEntry(c, i) /\ task[c].check
        /\ run' = [run EXCEPT ![c].todo = @ \ {i}, ![c].changed = TRUE]
        /\ UNCHANGED <<obj, task, late, runs, faults, undisturbed>>

\* The server answers with an error: the object is there, or is not.
Reject(c) ==
    \E i \in run[c].todo :
        /\ AtEntry(c, i) /\ ~task[c].check
        /\ ~Accepts(RequestOf(i, task[c], run[c].seen), obj)
        /\ run' = [run EXCEPT ![c].pc = "failed"]
        /\ UNCHANGED <<obj, task, late, runs, faults, undisturbed>>

\* fetch_url times out; the request is on its way to the server, or lost.
Timeout(c) ==
    \E i \in run[c].todo :
        /\ AtEntry(c, i) /\ ~task[c].check
        /\ faults < MaxFaults
        /\ run' = [run EXCEPT ![c].pc = "failed"]
        /\ late' = late \cup {RequestOf(i, task[c], run[c].seen)}
        /\ faults' = faults + 1
        /\ UNCHANGED <<obj, task, runs, undisturbed>>

\* Any other way a run ends early: login refused, HTTP or IPA error, an
\* exception caught by main(), the play interrupted.
Fail(c) ==
    /\ run[c].pc \in Running
    /\ faults < MaxFaults
    /\ run' = [run EXCEPT ![c].pc = "failed"]
    /\ faults' = faults + 1
    /\ UNCHANGED <<obj, task, late, runs, undisturbed>>

\* Mutant: the run ends after the first request.
Exit_Early(c) ==
    /\ run[c].pc = "process" /\ (run[c].todo = {} \/ run[c].changed)
    /\ run' = [run EXCEPT ![c].pc = "done"]
    /\ UNCHANGED <<obj, task, late, runs, faults, undisturbed>>

\* main() returns through exit_json.
Exit(c) ==
    /\ run[c].pc = "process" /\ run[c].todo = {}
    /\ run' = [run EXCEPT ![c].pc = "done"]
    /\ UNCHANGED <<obj, task, late, runs, faults, undisturbed>>

\* A request whose client gave up is executed after all ...
LateApply(req) ==
    /\ Accepts(req, obj)
    /\ obj' = Apply(req, obj)
    /\ late' = late \ {req}
    /\ undisturbed' = IF obj' = obj THEN undisturbed ELSE {}
    /\ UNCHANGED <<task, run, runs, faults>>

\* ... or never.
LateDrop(req) ==
    /\ late' = late \ {req}
    /\ UNCHANGED <<obj, task, run, runs, faults, undisturbed>>

Module(c) == \/ Login(c) \/ Find(c) \/ Post(c) \/ Simulate(c) \/ Reject(c)
             \/ Exit(c)

Next == \/ \E c \in Client : Start(c) \/ Module(c) \/ Timeout(c) \/ Fail(c)
        \/ \E req \in late : LateApply(req) \/ LateDrop(req)

Spec == Init /\ [][Next]_vars

\* The operator reruns a failed playbook.
Rerun(c) == run[c].pc # "done" /\ Start(c)

LateResolved == \E req \in late : LateApply(req) \/ LateDrop(req)

\* A started module runs to its end (it is one process), a request in flight
\* is executed or lost, and the operator reruns what failed.
FairSpec == /\ Spec
            /\ \A c \in Client : WF_vars(Module(c)) /\ WF_vars(Rerun(c))
            /\ WF_vars(LateResolved)

-----------------------------------------------------------------------------
(* Properties.                                                             *)

\* Types; an absent object has no attributes, a successful run no requests
\* left (process_queue posts them all).
TypeOK ==
    /\ obj \in ServerObject
    /\ task \in [Client -> Task]
    /\ run \in [Client -> Run]
    /\ \A c \in Client : run[c].pc = "done" => run[c].todo = {}
    /\ late \subseteq Request
    /\ runs \in [Client -> 0 .. MaxRuns]
    /\ faults \in 0 .. MaxFaults
    /\ undisturbed \subseteq Client

Succeeded(c) == run[c].pc = "done" /\ ~task[c].check

\* What the parameters of a task say about the object.
ListsPresent(t, o) == \A a \in ListAttr : CanonList(t, a) \subseteq o.list[a]

ScalarsPresent(t, o) ==
    \A k \in ScalarAttr : CanonScalar(t, k) \in {None, o.scalar[k]}

Desired(t, o) ==
    CASE t.state = "absent" /\ RemovesObject(t)  -> ~o.exists
      [] t.state = "absent" /\ ~RemovesObject(t) ->
            /\ \A a \in ListAttr : CanonList(t, a) \cap o.list[a] = {}
            /\ \A k \in ScalarAttr :
                  CanonScalar(t, k) \notin {None, Default[k]} =>
                      o.scalar[k] # CanonScalar(t, k)
      [] t.state = "exact" ->
            /\ o.exists
            /\ \A a \in ListAttr : CanonList(t, a) = o.list[a]
            /\ \A k \in ScalarAttr : CanonScalar(t, k) = o.scalar[k]
      [] OTHER ->
            /\ o.exists /\ ListsPresent(t, o) /\ ScalarsPresent(t, o)
            /\ t.state \in Flags => o.flag = t.state

\* A successful run that nobody disturbed leaves what its task asks for, but
\* for two cases that the code does not handle: an existing object without
\* attributes is taken for an absent one (is_absent), and an object that
\* state=disabled creates is left enabled (enable_or_disable).
HandledCase(t, o) ==
    /\ RemovesObject(t) => o.exists = ~IsAbsent(o)
    /\ t.state = "disabled" => ~IsAbsent(o)

DoneMeansDesired ==
    \A c \in Client :
        Succeeded(c) /\ c \in undisturbed /\ HandledCase(task[c], run[c].seen)
            => Desired(task[c], obj)

\* Running a task again after it succeeded queues nothing (the second run
\* reports changed=false), but for the case above and for a scalar with a
\* default that state=absent "removes" by setting it to that default.
RepeatsNothing(t) ==
    ~(/\ t.state = "absent"
      /\ ~RemovesObject(t)
      /\ \E k \in ScalarAttr : /\ CanonScalar(t, k) # None
                               /\ CanonScalar(t, k) = Default[k])

SecondRunIsQuiet ==
    \A c \in Client :
        /\ Succeeded(c) /\ c \in undisturbed
        /\ HandledCase(task[c], run[c].seen)
        /\ RepeatsNothing(task[c])
        => Queue(task[c], obj) = {}

\* What present-like tasks put into list attributes stays there, however
\* their runs interleave and whatever times out, is retried or arrives late,
\* as long as no task that removes anything was run: the requests carry
\* differences, never whole lists.
PresentLike == {"present", "enabled", "disabled"}

Removing(c) == runs[c] > 0 /\ ~task[c].check /\ task[c].state \notin PresentLike

NoRemoval == \A c \in Client : ~Removing(c)

PresentSticks ==
    NoRemoval => \A c \in Client : Succeeded(c) => ListsPresent(task[c], obj)

\* Why it does: until it is posted, a value that is missing waits in the queue
\* of its client, and no request on its way to the server removes anything.
Pending(c, a) ==
    UNION {Adds(i, task[c], run[c].seen)[a] : i \in run[c].todo}

Additive(req) == req.method # "del" /\ \A a \in ListAttr : req.del[a] = {}

PresentInv ==
    /\ \A c \in Client : run[c].pc # "idle" => runs[c] > 0
    /\ \A c \in Client : REM \in run[c].todo => task[c].state = "absent"
    /\ NoRemoval =>
          /\ \A req \in late : Additive(req)
          /\ \A c \in Client : \A a \in ListAttr :
                run[c].pc \in {"process", "done"} /\ ~task[c].check =>
                    CanonList(task[c], a) \subseteq obj.list[a] \cup Pending(c, a)

\* In check mode `changed` says whether a real run would have changed
\* anything, for the tasks and classes that announce every change.
Announcing(t) ==
    /\ ~RemovesObject(t)
    /\ t.state \notin Flags
    /\ \A i \in Items : ItemSteps[i - 3].announces

RealQueue(t, o) == Queue([t EXCEPT !.check = FALSE], o)

CheckModePredicts ==
    \A c \in Client :
        run[c].pc = "done" /\ task[c].check /\ Announcing(task[c]) =>
            run[c].changed = (RealQueue(task[c], run[c].seen) # {})

\* An object that a task brought to its desired state stays there
\* while only that task is rerun, whatever arrives late.
Converged == \A c \in Client : Desired(task[c], obj)
StaysConverged == [][Converged => Converged']_vars

\* Liveness: rerun until it succeeds, a real task reaches its desired state for
\* good once failures stop, unless it meets an object that exists without
\* attributes: <name>_add is then refused in every run.
EventuallyConverged ==
    obj.exists = ~IsAbsent(obj) /\ (\A c \in Client : ~task[c].check) =>
        <>[](Converged /\ \A c \in Client : run[c].pc = "done")

\* The object changes only as the tasks run so far account for.
Asked == {task[c] : c \in {d \in Client : runs[d] > 0 /\ ~task[d].check}}

Abstract == INSTANCE AskedChanges WITH asked <- Asked

OnlyAskedChanges == Abstract!Spec

\* A class that refuses to modify an attribute never does, not even when the
\* object comes into being between a find and the request it led to.
FrozenScalars ==
    [][obj.exists /\ obj'.exists =>
         \A k \in ScalarAttr \ Modifiable : obj'.scalar[k] = obj.scalar[k]]_vars
=============================================================================
