--------------------------- MODULE IPAClientProofs ---------------------------
(* Theorems about IPAClient, for every value of its constants.             *)
EXTENDS IPAClient, TLAPS

-----------------------------------------------------------------------------
(* Types.                                                                  *)

\* What a task asks for has the types of the module's parameters.
LEMMA ParamsType ==
    ASSUME NEW t \in Task
    PROVE  /\ t.state \in States
           /\ \A a \in ListAttr : t.list[a] \subseteq Value
           /\ \A k \in ScalarAttr : t.scalar[k] \in ScalarValue \cup {None}
           /\ t.check \in BOOLEAN
  BY TaskAssumption DEF Params

\* The values to add and to remove are values.
LEMMA ListDiffType ==
    ASSUME NEW t \in Task, NEW o \in Object, NEW a \in ListAttr
    PROVE  /\ ListAdd(t, o, a) \in SUBSET Value
           /\ ListDel(t, o, a) \in SUBSET Value
  BY ParamsType DEF ListAdd, ListDel, CanonList, Object

\* A scalar is set to a value, or left alone.
LEMMA ScalarToType ==
    ASSUME NEW t \in Task, NEW k \in ScalarAttr
    PROVE  ScalarTo(t, k) \in ScalarValue \cup {None}
  BY ParamsType, ClassAssumption DEF ScalarTo, CanonScalar

\* Every request that a run may post is a request of the server.
LEMMA RequestType ==
    ASSUME NEW t \in Task, NEW o \in Object, NEW i \in Steps
    PROVE  RequestOf(i, t, o) \in Request
<1>1. Adds(i, t, o) \in [ListAttr -> SUBSET Value]
  BY ListDiffType DEF Adds
<1>2. Dels(i, t, o) \in [ListAttr -> SUBSET Value]
  BY ListDiffType DEF Dels
<1>3. [k \in ScalarAttr |-> ScalarTo(t, k)]
        \in [ScalarAttr -> ScalarValue \cup {None}]
  BY ScalarToType
<1>4. MethodOf(i, t, o) \in Methods
  BY ClassAssumption DEF MethodOf, Methods, Steps, Items, REM, BASE, ENABLE
<1>5. (IF i = BASE THEN ScalarKeys(t, o) ELSE {}) \in SUBSET ScalarAttr
  BY DEF ScalarKeys
<1>. QED
  BY <1>1, <1>2, <1>3, <1>4, <1>5 DEF RequestOf, Request

\* The answer of a find that finds nothing is an object.
LEMMA NoObjectType == NoObject \in Object
  BY DEF NoObject, Object

\* An object of the server has the enabled flag exactly if its class has one.
LEMMA ServerObjectType ==
    ASSUME NEW o \in ServerObject
    PROVE  /\ o \in Object
           /\ o.exists => (o.flag # None) = Enablable
           /\ ~o.exists => o = NoObject
<1>1. CASE o = NoObject
  <2>1. ~o.exists
    BY <1>1 DEF NoObject
  <2>. QED
    BY <1>1, <2>1, NoObjectType
<1>2. CASE o \in Object /\ o.exists /\ (o.flag # None) = Enablable
  BY <1>2
<1>. QED
  BY <1>1, <1>2 DEF ServerObject

\* A request that the server accepts leaves an object of the class.
LEMMA ApplyType ==
    ASSUME NEW o \in ServerObject, NEW req \in Request, Accepts(req, o)
    PROVE  Apply(req, o) \in ServerObject
<1>. o \in Object /\ req.method \in Methods
  BY ServerObjectType DEF Request
<1>1. CASE req.method = "del"
  BY <1>1 DEF Apply, ServerObject
<1>2. CASE req.method # "del"
  <2>. DEFINE r == Changed(req, o)
  <2>1. r.list \in [ListAttr -> SUBSET Value]
    BY DEF Changed, Object, Request
  <2>2. r.scalar \in [ScalarAttr -> ScalarValue \cup {None}]
    BY DEF Changed, Object, Request
  <2>3. r.flag \in Flags \cup {None} /\ (r.flag # None) = Enablable
    <3>1. CASE req.method = "add"
      <4>1. o.flag = None
        BY <3>1, ServerObjectType DEF Accepts, NoObject, Object
      <4>. QED
        BY <3>1, <4>1, NoneAssumption, ClassAssumption DEF Changed, Flags
    <3>2. CASE req.method \in {"enable", "disable"}
      BY <3>2, NoneAssumption, ClassAssumption DEF Changed, Flags, Methods
    <3>3. CASE req.method \in {"mod", "item"}
      BY <3>3, ServerObjectType DEF Changed, Accepts, Object
    <3>. QED
      BY <1>2, <3>1, <3>2, <3>3 DEF Methods
  <2>4. r.exists = TRUE /\ r = [exists |-> r.exists, list |-> r.list,
                                scalar |-> r.scalar, flag |-> r.flag]
    BY DEF Changed
  <2>5. r \in Object
    BY <2>1, <2>2, <2>3, <2>4 DEF Object
  <2>. QED
    BY <1>2, <2>3, <2>4, <2>5 DEF Apply, ServerObject
<1>. QED
  BY <1>1, <1>2

\* The steps that a run is to take are steps.
LEMMA QueueType ==
    ASSUME NEW t \in Task, NEW o \in Object
    PROVE  Queue(t, o) \in SUBSET Steps
  BY DEF Queue, Steps

\* Clients that have not started, and any object, have the types.
LEMMA InitType == Init => TypeOK
<1>. SUFFICES ASSUME Init PROVE TypeOK
  OBVIOUS
<1>1. run \in [Client -> Run] /\ \A c \in Client : run[c].todo = {}
  BY NoObjectType DEF Init, NewRun, Run, PC
<1>. QED
  BY <1>1, BoundAssumption DEF Init, TypeOK

\* A step of client c replaces run[c] by r.
LEMMA RunType ==
    ASSUME TypeOK, NEW c \in Client, NEW r \in Run,
           r.pc = "done" => r.todo = {},
           run' = [run EXCEPT ![c] = r]
    PROVE  /\ run' \in [Client -> Run]
           /\ \A d \in Client : run'[d].pc = "done" => run'[d].todo = {}
  BY DEF TypeOK

\* The types of the parts of a state that a step uses.
LEMMA StepType ==
    ASSUME TypeOK, NEW c \in Client
    PROVE  /\ run[c].pc \in PC /\ run[c].seen \in Object
           /\ run[c].todo \in SUBSET Steps /\ run[c].changed \in BOOLEAN
           /\ task[c] \in Task
           /\ obj \in Object
           /\ \A i \in run[c].todo :
                 RequestOf(i, task[c], run[c].seen) \in Request
<1>1. run[c] \in Run /\ task[c] \in Task
  BY DEF TypeOK
<1>2. run[c].seen \in Object /\ run[c].todo \in SUBSET Steps
  BY <1>1 DEF Run
<1>. QED
  BY <1>1, <1>2, RequestType, ServerObjectType DEF TypeOK, Run

\* An executed request keeps the types.
LEMMA PostType ==
    ASSUME TypeOK, NEW c \in Client, Post(c)
    PROVE  TypeOK'
<1>1. PICK i \in run[c].todo :
        /\ AtEntry(c, i)
        /\ Accepts(RequestOf(i, task[c], run[c].seen), obj)
        /\ obj' = Apply(RequestOf(i, task[c], run[c].seen), obj)
        /\ run' = [run EXCEPT ![c].todo = @ \ {i}, ![c].changed = TRUE]
        /\ undisturbed' = IF obj' = obj THEN undisturbed ELSE undisturbed \cap {c}
        /\ UNCHANGED <<task, late, runs, faults>>
  BY DEF Post
<1>. DEFINE r == [run[c] EXCEPT !.todo = @ \ {i}, !.changed = TRUE]
<1>2. obj' \in ServerObject
  BY <1>1, StepType, ApplyType DEF TypeOK
<1>3. r \in Run /\ r.pc = "process"
  BY <1>1 DEF TypeOK, Run, AtEntry
<1>4. run' = [run EXCEPT ![c] = r]
  BY <1>1 DEF TypeOK
<1>5. /\ run' \in [Client -> Run]
      /\ \A d \in Client : run'[d].pc = "done" => run'[d].todo = {}
  <2>. HIDE DEF r
  <2>. QED BY <1>3, <1>4, RunType
<1>6. undisturbed' \subseteq Client
  BY <1>1 DEF TypeOK
<1>. QED
  BY <1>1, <1>2, <1>5, <1>6 DEF TypeOK

\* A request whose answer is late keeps the types.
LEMMA TimeoutType ==
    ASSUME TypeOK, NEW c \in Client, Timeout(c)
    PROVE  TypeOK'
<1>1. PICK i \in run[c].todo :
        /\ faults < MaxFaults
        /\ run' = [run EXCEPT ![c].pc = "failed"]
        /\ late' = late \cup {RequestOf(i, task[c], run[c].seen)}
        /\ faults' = faults + 1
        /\ UNCHANGED <<obj, task, runs, undisturbed>>
  BY DEF Timeout
<1>. DEFINE r == [run[c] EXCEPT !.pc = "failed"]
<1>2. r \in Run /\ r.pc = "failed" /\ run' = [run EXCEPT ![c] = r]
  BY <1>1 DEF TypeOK, Run, PC
<1>3. /\ run' \in [Client -> Run]
      /\ \A d \in Client : run'[d].pc = "done" => run'[d].todo = {}
  <2>. HIDE DEF r
  <2>. QED BY <1>2, RunType
<1>4. late' \subseteq Request
  BY <1>1, StepType DEF TypeOK
<1>5. faults' \in 0 .. MaxFaults
  BY <1>1, BoundAssumption DEF TypeOK
<1>. QED
  BY <1>1, <1>3, <1>4, <1>5 DEF TypeOK

\* Steps of a client that change its run, and at most the counters.
LEMMA LocalType ==
    ASSUME TypeOK, NEW c \in Client,
           \/ Start(c) \/ Login(c) \/ Find(c) \/ Simulate(c)
           \/ Reject(c) \/ Fail(c) \/ Exit(c)
    PROVE  TypeOK'
<1>1. CASE Start(c)
  <2>1. NewRun \in Run /\ NewRun.pc = "login"
    BY NoObjectType DEF NewRun, Run, PC, Running
  <2>2. /\ run' \in [Client -> Run]
        /\ \A d \in Client : run'[d].pc = "done" => run'[d].todo = {}
    BY <1>1, <2>1, RunType DEF Start
  <2>3. runs' \in [Client -> 0 .. MaxRuns]
    BY <1>1, BoundAssumption DEF Start, TypeOK
  <2>. QED
    BY <1>1, <2>2, <2>3 DEF Start, TypeOK
<1>2. CASE Login(c)
  <2>. DEFINE r == [run[c] EXCEPT !.pc = "find"]
  <2>1. r \in Run /\ r.pc = "find" /\ run' = [run EXCEPT ![c] = r]
    BY <1>2 DEF Login, TypeOK, Run, PC, Running
  <2>2. /\ run' \in [Client -> Run]
        /\ \A d \in Client : run'[d].pc = "done" => run'[d].todo = {}
    <3>. HIDE DEF r
    <3>. QED BY <2>1, RunType
  <2>. QED
    BY <1>2, <2>2 DEF Login, TypeOK
<1>3. CASE Find(c)
  <2>. DEFINE r == [pc      |-> IF Refused(task[c], obj) THEN "failed"
                                                         ELSE "process",
                    seen    |-> obj,
                    todo    |-> Queue(task[c], obj),
                    changed |-> Announced(task[c], obj)]
  <2>1. r \in Run /\ r.pc # "done"
    <3>1. Announced(task[c], obj) \in BOOLEAN
      BY DEF Announced
    <3>2. Queue(task[c], obj) \in SUBSET Steps
      BY StepType, QueueType
    <3>. HIDE DEF Announced, Queue, Refused
    <3>. QED
      BY <3>1, <3>2, StepType DEF Run, PC, Running
  <2>2. run' = [run EXCEPT ![c] = r]
    BY <1>3 DEF Find
  <2>3. /\ run' \in [Client -> Run]
        /\ \A d \in Client : run'[d].pc = "done" => run'[d].todo = {}
    <3>. HIDE DEF r
    <3>. QED BY <2>1, <2>2, RunType
  <2>. QED
    BY <1>3, <2>3 DEF Find, TypeOK
<1>4. CASE Simulate(c)
  <2>1. PICK i \in run[c].todo :
          /\ AtEntry(c, i)
          /\ run' = [run EXCEPT ![c].todo = @ \ {i}, ![c].changed = TRUE]
          /\ UNCHANGED <<obj, task, late, runs, faults, undisturbed>>
    BY <1>4 DEF Simulate
  <2>. DEFINE r == [run[c] EXCEPT !.todo = @ \ {i}, !.changed = TRUE]
  <2>2. r \in Run /\ r.pc = "process" /\ run' = [run EXCEPT ![c] = r]
    BY <2>1 DEF AtEntry, TypeOK, Run
  <2>3. /\ run' \in [Client -> Run]
        /\ \A d \in Client : run'[d].pc = "done" => run'[d].todo = {}
    <3>. HIDE DEF r
    <3>. QED BY <2>2, RunType
  <2>. QED
    BY <2>1, <2>3 DEF TypeOK
<1>5. CASE Reject(c) \/ Fail(c)
  <2>. DEFINE r == [run[c] EXCEPT !.pc = "failed"]
  <2>1. r \in Run /\ r.pc = "failed" /\ run' = [run EXCEPT ![c] = r]
    BY <1>5 DEF Reject, Fail, TypeOK, Run, PC
  <2>2. /\ run' \in [Client -> Run]
        /\ \A d \in Client : run'[d].pc = "done" => run'[d].todo = {}
    <3>. HIDE DEF r
    <3>. QED BY <2>1, RunType
  <2>3. faults' \in 0 .. MaxFaults
    BY <1>5, BoundAssumption DEF Reject, Fail, TypeOK
  <2>. QED
    BY <1>5, <2>2, <2>3 DEF Reject, Fail, TypeOK
<1>6. CASE Exit(c)
  <2>. DEFINE r == [run[c] EXCEPT !.pc = "done"]
  <2>1. r \in Run /\ r.todo = {} /\ run' = [run EXCEPT ![c] = r]
    BY <1>6 DEF Exit, TypeOK, Run, PC
  <2>2. /\ run' \in [Client -> Run]
        /\ \A d \in Client : run'[d].pc = "done" => run'[d].todo = {}
    <3>. HIDE DEF r
    <3>. QED BY <2>1, RunType
  <2>. QED
    BY <1>6, <2>2 DEF Exit, TypeOK
<1>. QED
  BY <1>1, <1>2, <1>3, <1>4, <1>5, <1>6

\* A late request that is executed after all, or lost, keeps the types.
LEMMA LateType ==
    ASSUME TypeOK, NEW req \in late, LateApply(req) \/ LateDrop(req)
    PROVE  TypeOK'
<1>1. CASE LateApply(req)
  <2>1. obj' \in ServerObject
    BY <1>1, ApplyType DEF LateApply, TypeOK
  <2>. QED
    BY <1>1, <2>1 DEF LateApply, TypeOK
<1>2. CASE LateDrop(req)
  BY <1>2 DEF LateDrop, TypeOK
<1>. QED
  BY <1>1, <1>2

\* Every variable keeps its type, an absent object has no attributes, and a
\* run succeeds only when its queue is empty.
THEOREM TypeCorrect == Spec => []TypeOK
<1>1. TypeOK /\ [Next]_vars => TypeOK'
  <2>. SUFFICES ASSUME TypeOK, [Next]_vars PROVE TypeOK'
    OBVIOUS
  <2>1. CASE UNCHANGED vars
    BY <2>1 DEF vars, TypeOK
  <2>2. CASE Next
    BY <2>2, LocalType, PostType, TimeoutType, LateType DEF Next, Module
  <2>. QED
    BY <2>1, <2>2
<1>. QED
  BY InitType, <1>1, PTL DEF Spec

-----------------------------------------------------------------------------
(* What present-like tasks add stays.                                      *)

\* A value that a present-like task finds missing is in some queued request.
LEMMA MissingIsQueued ==
    ASSUME NEW t \in Task, NEW o \in Object, NEW a \in ListAttr,
           t.state \in PresentLike, ~t.check,
           NEW v \in CanonList(t, a), v \notin o.list[a]
    PROVE  \E i \in Queue(t, o) : v \in Adds(i, t, o)[a]
<1>1. ~RemovesObject(t) /\ v \in ListAdd(t, o, a)
  BY DEF RemovesObject, ListAdd, PresentLike
<1>2. CASE a \in BaseKeys
  <2>1. v \in Adds(BASE, t, o)[a]
    BY <1>1, <1>2 DEF Adds, AddAttrs
  <2>2. BASE \in Queue(t, o)
    BY <1>1, <2>1 DEF Queue, BaseQueued, ListsChange, Steps
  <2>. QED
    BY <2>1, <2>2
<1>3. ASSUME NEW j \in 1..Len(ItemSteps),
             ItemSteps[j].op = "add", a \in ItemSteps[j].attrs
      PROVE  \E i \in Queue(t, o) : v \in Adds(i, t, o)[a]
  <2>. DEFINE i == 3 + j
  <2>1. i \in Items /\ i - 3 = j /\ i # BASE
    BY ClassAssumption DEF Items, BASE
  <2>2. v \in Adds(i, t, o)[a]
    BY <1>1, <1>3, <2>1 DEF Adds, AddAttrs
  <2>3. i \in Queue(t, o)
    BY <1>1, <2>1, <2>2 DEF Queue, ItemQueued, ListsChange, Steps
  <2>. QED
    BY <2>2, <2>3
<1>. QED
  BY <1>2, <1>3, ClassAssumption

\* The requests of a present-like task remove nothing.
LEMMA PresentAdditive ==
    ASSUME NEW t \in Task, NEW o \in Object, NEW i \in Steps \ {REM},
           t.state \in PresentLike
    PROVE  Additive(RequestOf(i, t, o))
  BY DEF Additive, RequestOf, MethodOf, Dels, ListDel, PresentLike

\* Executing an additive request keeps every value and adds those it carries.
LEMMA AdditiveKeeps ==
    ASSUME NEW o \in Object, NEW req \in Request, Additive(req),
           NEW a \in ListAttr
    PROVE  /\ o.list[a] \subseteq Apply(req, o).list[a]
           /\ req.add[a] \subseteq Apply(req, o).list[a]
  BY DEF Additive, Apply, Changed

\* If no task so far removes anything, none did one step earlier.
LEMMA NoRemovalBefore ==
    ASSUME TypeOK, Next, NoRemoval'
    PROVE  NoRemoval
<1>1. /\ task' = task
      /\ \/ runs' = runs
         \/ \E c \in Client : runs' = [runs EXCEPT ![c] = @ + 1]
  <2>1. CASE \E c \in Client : Start(c)
    BY <2>1 DEF Start
  <2>2. CASE \E c \in Client : Module(c) \/ Timeout(c) \/ Fail(c)
    BY <2>2 DEF Module, Login, Find, Post, Simulate, Reject, Exit, Timeout, Fail
  <2>3. CASE \E req \in late : LateApply(req) \/ LateDrop(req)
    BY <2>3 DEF LateApply, LateDrop
  <2>. QED
    BY <2>1, <2>2, <2>3 DEF Next
<1>2. ASSUME NEW c \in Client, Removing(c)
      PROVE  Removing(c)'
  <2>1. runs[c] > 0 => runs'[c] > 0
    BY <1>1, BoundAssumption DEF TypeOK
  <2>2. runs'[c] > 0
    BY <1>2, <2>1 DEF Removing
  <2>3. task'[c] = task[c]
    BY <1>1
  <2>. QED
    BY <1>2, <2>2, <2>3, Zenon DEF Removing
<1>. QED
  BY <1>2 DEF NoRemoval

\* A client that is posting has a present-like task, if none removes.
LEMMA PostingIsPresent ==
    ASSUME TypeOK, PresentInv, NoRemoval, NEW c \in Client,
           run[c].pc \in {"process", "done"}, ~task[c].check
    PROVE  /\ task[c].state \in PresentLike
           /\ \A i \in run[c].todo :
                Additive(RequestOf(i, task[c], run[c].seen))
<1>1. task[c].state \in PresentLike
  BY DEF PresentInv, NoRemoval, Removing
<1>2. REM \notin run[c].todo
  BY <1>1 DEF PresentInv, PresentLike
<1>. QED
  BY <1>1, <1>2, StepType, PresentAdditive

\* The part of PresentInv that speaks of client c.
ClientInv(c) ==
    /\ run[c].pc # "idle" => runs[c] > 0
    /\ REM \in run[c].todo => task[c].state = "absent"
    /\ NoRemoval => \A a \in ListAttr :
          run[c].pc \in {"process", "done"} /\ ~task[c].check =>
              CanonList(task[c], a) \subseteq obj.list[a] \cup Pending(c, a)

\* The invariant is one of each client and one of the late requests.
LEMMA PresentInvSplit ==
    PresentInv <=> /\ \A c \in Client : ClientInv(c)
                   /\ NoRemoval => \A req \in late : Additive(req)
  BY DEF PresentInv, ClientInv

\* The parts of the invariant in the next state make it whole.
LEMMA SplitPrime ==
    ASSUME \A c \in Client : ClientInv(c)',
           NoRemoval' => \A req \in late' : Additive(req)
    PROVE  PresentInv'
  BY DEF PresentInv, ClientInv, Additive

\* A step that leaves the run of d and what it waits for alone.
LEMMA OtherClient ==
    ASSUME TypeOK, NEW d \in Client, ClientInv(d), NoRemoval' => NoRemoval,
           run'[d] = run[d], task' = task, runs'[d] = runs[d],
           NoRemoval' => \A a \in ListAttr : obj.list[a] \subseteq obj'.list[a]
    PROVE  ClientInv(d)'
<1>1. \A a \in ListAttr : Pending(d, a)' = Pending(d, a)
  BY DEF Pending, Adds, AddAttrs, ListAdd, CanonList
<1>. QED
  BY <1>1 DEF ClientInv, CanonList

\* An executed request puts into the object what the run then no longer owes.
LEMMA PostInv ==
    ASSUME TypeOK, PresentInv, NEW c \in Client, Post(c),
           NoRemoval' => NoRemoval
    PROVE  PresentInv'
<1>1. PICK i \in run[c].todo :
        /\ AtEntry(c, i) /\ ~task[c].check
        /\ obj' = Apply(RequestOf(i, task[c], run[c].seen), obj)
        /\ run' = [run EXCEPT ![c].todo = @ \ {i}, ![c].changed = TRUE]
        /\ UNCHANGED <<task, late, runs, faults>>
  BY DEF Post
<1>. DEFINE req == RequestOf(i, task[c], run[c].seen)
<1>2. req \in Request /\ obj \in Object
  BY StepType
<1>3. NoRemoval' =>
        \A a \in ListAttr : /\ obj.list[a] \subseteq obj'.list[a]
                            /\ Adds(i, task[c], run[c].seen)[a] \subseteq obj'.list[a]
  <2>. SUFFICES ASSUME NoRemoval, NEW a \in ListAttr
                PROVE  /\ obj.list[a] \subseteq obj'.list[a]
                       /\ Adds(i, task[c], run[c].seen)[a] \subseteq obj'.list[a]
    OBVIOUS
  <2>1. Additive(req)
    BY <1>1, PostingIsPresent DEF AtEntry
  <2>2. req.add[a] = Adds(i, task[c], run[c].seen)[a]
    BY DEF RequestOf
  <2>. QED
    BY <1>1, <1>2, <2>1, <2>2, AdditiveKeeps
<1>4. ASSUME NEW d \in Client, d # c
      PROVE  ClientInv(d)'
  <2>1. run'[d] = run[d]
    BY <1>1, <1>4 DEF TypeOK
  <2>. QED
    BY <1>1, <1>3, <2>1, OtherClient, PresentInvSplit
<1>5. ClientInv(c)'
  <2>1. /\ run'[c].pc = run[c].pc /\ run'[c].seen = run[c].seen
        /\ run'[c].todo = run[c].todo \ {i}
    BY <1>1 DEF TypeOK, Run
  <2>2. ASSUME NoRemoval', NEW a \in ListAttr
        PROVE  CanonList(task[c], a) \subseteq obj'.list[a] \cup Pending(c, a)'
    <3>1. CanonList(task[c], a) \subseteq obj.list[a] \cup Pending(c, a)
      BY <1>1, <2>2 DEF PresentInv, AtEntry
    <3>2. Pending(c, a)' = UNION {Adds(j, task[c], run[c].seen)[a] :
                                    j \in run[c].todo \ {i}}
      BY <1>1, <2>1 DEF Pending, Adds, AddAttrs, ListAdd, CanonList
    <3>3. Pending(c, a) \subseteq
              Adds(i, task[c], run[c].seen)[a] \cup Pending(c, a)'
      BY <3>2 DEF Pending
    <3>. QED
      BY <1>3, <2>2, <3>1, <3>3
  <2>3. ClientInv(c)
    BY PresentInvSplit
  <2>. QED
    BY <1>1, <2>1, <2>2, <2>3 DEF ClientInv, CanonList
<1>6. \A d \in Client : ClientInv(d)'
  BY <1>4, <1>5
<1>7. NoRemoval' => \A q \in late' : Additive(q)
  BY <1>1, PresentInvSplit
<1>. QED
  BY <1>6, <1>7, SplitPrime
\* Steps that change the run of c alone, and neither the object nor, unless
\* the request is additive, what is in flight.
LEMMA RunStepInv ==
    ASSUME TypeOK, PresentInv, NEW c \in Client, NoRemoval' => NoRemoval,
           task' = task, NEW m, runs' = [runs EXCEPT ![c] = m],
           NEW r, run' = [run EXCEPT ![c] = r], obj' = obj,
           NoRemoval' => \A req \in late' : Additive(req),
           ClientInv(c)'
    PROVE  PresentInv'
<1>1. ASSUME NEW d \in Client, d # c
      PROVE  ClientInv(d)'
  <2>1. run'[d] = run[d] /\ runs'[d] = runs[d]
    BY <1>1 DEF TypeOK
  <2>. QED
    BY <2>1, OtherClient, PresentInvSplit
<1>. QED
  BY <1>1, SplitPrime

\* A step of c that keeps its queue, its find's answer, and the object, and
\* does not enter "process" or "done" from outside.
LEMMA SameQueueInv ==
    ASSUME TypeOK, PresentInv, NEW c \in Client, NoRemoval' => NoRemoval,
           UNCHANGED <<obj, task, runs>>,
           NEW p, run' = [run EXCEPT ![c].pc = p], run[c].pc # "idle",
           p \in {"process", "done"} => run[c].pc \in {"process", "done"},
           NoRemoval' => \A req \in late' : Additive(req)
    PROVE  PresentInv'
<1>1. /\ run'[c].pc = p /\ run'[c].seen = run[c].seen
      /\ run'[c].todo = run[c].todo
  BY DEF TypeOK, Run
<1>2. \A a \in ListAttr : Pending(c, a)' = Pending(c, a)
  BY <1>1 DEF Pending, Adds, AddAttrs, ListAdd, CanonList
<1>3. ClientInv(c)
  BY PresentInvSplit
<1>4. ClientInv(c)'
  BY <1>1, <1>2, <1>3 DEF ClientInv, CanonList
<1>5. ASSUME NEW d \in Client, d # c
      PROVE  ClientInv(d)'
  <2>1. run'[d] = run[d] /\ runs'[d] = runs[d]
    BY <1>5 DEF TypeOK
  <2>. QED
    BY <2>1, OtherClient, PresentInvSplit
<1>. QED
  BY <1>4, <1>5, SplitPrime

\* After a find, what the task asks for is in the object found or queued.
LEMMA FindInv ==
    ASSUME TypeOK, PresentInv, NEW c \in Client, Find(c),
           NoRemoval' => NoRemoval
    PROVE  PresentInv'
<1>. DEFINE r == [pc      |-> IF Refused(task[c], obj) THEN "failed"
                                                       ELSE "process",
                  seen    |-> obj,
                  todo    |-> Queue(task[c], obj),
                  changed |-> Announced(task[c], obj)]
<1>1. /\ run[c].pc = "find" /\ run' = [run EXCEPT ![c] = r]
      /\ UNCHANGED <<obj, task, late, runs>>
  BY DEF Find
<1>2. /\ run'[c].seen = obj /\ run'[c].todo = Queue(task[c], obj)
  BY <1>1 DEF TypeOK
<1>3. runs[c] > 0
  BY <1>1 DEF PresentInv
<1>4. REM \in Queue(task[c], obj) => task[c].state = "absent"
  BY DEF Queue, RemovesObject, REM, BASE, ENABLE, Items
<1>5. ASSUME NoRemoval', NEW a \in ListAttr, ~task[c].check
      PROVE  CanonList(task[c], a) \subseteq obj.list[a] \cup Pending(c, a)'
  <2>1. task[c].state \in PresentLike
    BY <1>3, <1>5 DEF NoRemoval, Removing
  <2>2. task[c] \in Task /\ obj \in Object
    BY StepType, ServerObjectType DEF TypeOK
  <2>3. Pending(c, a)' = UNION {Adds(i, task[c], obj)[a] :
                                  i \in Queue(task[c], obj)}
    BY <1>1, <1>2 DEF Pending, Adds, AddAttrs, ListAdd, CanonList
  <2>4. ASSUME NEW v \in CanonList(task[c], a), v \notin obj.list[a]
        PROVE  v \in Pending(c, a)'
    <3>1. PICK i \in Queue(task[c], obj) : v \in Adds(i, task[c], obj)[a]
      BY <1>5, <2>1, <2>2, <2>4, MissingIsQueued
    <3>. QED
      BY <2>3, <3>1
  <2>. QED
    BY <2>4
<1>6. ClientInv(c)'
  BY <1>1, <1>2, <1>3, <1>4, <1>5 DEF ClientInv, CanonList
<1>7. NoRemoval' => \A q \in late' : Additive(q)
  BY <1>1, PresentInvSplit
<1>8. runs' = [runs EXCEPT ![c] = runs[c]]
  BY <1>1 DEF TypeOK
<1>. QED
  <2>. HIDE DEF r
  <2>. QED BY <1>1, <1>6, <1>7, <1>8, RunStepInv

\* A task that starts owes nothing yet.
LEMMA StartInv ==
    ASSUME TypeOK, PresentInv, NEW c \in Client, Start(c),
           NoRemoval' => NoRemoval
    PROVE  PresentInv'
<1>1. /\ run[c].pc \notin Running
      /\ run' = [run EXCEPT ![c] = NewRun]
      /\ UNCHANGED <<obj, task, late>>
  BY DEF Start
<1>2. PICK m \in Nat : m > 0 /\ runs' = [runs EXCEPT ![c] = m]
  <2>1. CASE run[c].pc = "failed" /\ runs' = runs
    <3>1. runs[c] > 0
      BY <2>1 DEF PresentInv
    <3>2. runs[c] \in Nat /\ runs' = [runs EXCEPT ![c] = runs[c]]
      BY <2>1, BoundAssumption DEF TypeOK
    <3>. QED
      BY <3>1, <3>2
  <2>2. CASE runs' = [runs EXCEPT ![c] = @ + 1]
    <3>1. runs[c] \in Nat
      BY BoundAssumption DEF TypeOK
    <3>2. runs[c] + 1 \in Nat /\ runs[c] + 1 > 0
      BY <3>1
    <3>. QED
      BY <2>2, <3>2
  <2>. QED
    BY <2>1, <2>2 DEF Start
<1>3. run'[c].pc = "login" /\ run'[c].todo = {} /\ runs'[c] > 0
  BY <1>1, <1>2 DEF TypeOK, NewRun
<1>4. ClientInv(c)'
  BY <1>3 DEF ClientInv
<1>5. NoRemoval' => \A q \in late' : Additive(q)
  BY <1>1, PresentInvSplit
<1>. QED
  BY <1>1, <1>2, <1>4, <1>5, RunStepInv

\* Check mode, which posts nothing, owes nothing.
LEMMA SimulateInv ==
    ASSUME TypeOK, PresentInv, NEW c \in Client, Simulate(c),
           NoRemoval' => NoRemoval
    PROVE  PresentInv'
<1>1. PICK i \in run[c].todo :
        /\ AtEntry(c, i) /\ task[c].check
        /\ run' = [run EXCEPT ![c].todo = @ \ {i}, ![c].changed = TRUE]
        /\ UNCHANGED <<obj, task, late, runs>>
  BY DEF Simulate
<1>. DEFINE r == [run[c] EXCEPT !.todo = @ \ {i}, !.changed = TRUE]
<1>2. run' = [run EXCEPT ![c] = r]
  BY <1>1
<1>3. run'[c].pc = run[c].pc /\ run'[c].todo = run[c].todo \ {i}
  BY <1>1 DEF TypeOK, Run
<1>4. ClientInv(c)
  BY PresentInvSplit
<1>5. ClientInv(c)'
  BY <1>1, <1>3, <1>4 DEF ClientInv
<1>6. NoRemoval' => \A q \in late' : Additive(q)
  BY <1>1, PresentInvSplit
<1>7. runs' = [runs EXCEPT ![c] = runs[c]]
  BY <1>1 DEF TypeOK
<1>. QED
  <2>. HIDE DEF r
  <2>. QED BY <1>1, <1>2, <1>5, <1>6, <1>7, RunStepInv

\* A run that times out has failed, and its late request only adds.
LEMMA TimeoutInv ==
    ASSUME TypeOK, PresentInv, NEW c \in Client, Timeout(c),
           NoRemoval' => NoRemoval
    PROVE  PresentInv'
<1>1. PICK i \in run[c].todo :
        /\ AtEntry(c, i) /\ ~task[c].check
        /\ run' = [run EXCEPT ![c].pc = "failed"]
        /\ late' = late \cup {RequestOf(i, task[c], run[c].seen)}
        /\ UNCHANGED <<obj, task, runs>>
  BY DEF Timeout
<1>2. NoRemoval' => Additive(RequestOf(i, task[c], run[c].seen))
  BY <1>1, PostingIsPresent DEF AtEntry
<1>3. NoRemoval' => \A q \in late' : Additive(q)
  BY <1>1, <1>2, PresentInvSplit
<1>. QED
  BY <1>1, <1>3, SameQueueInv DEF AtEntry

\* Logging in, being rejected, failing and ending touch no object.
LEMMA PcInv ==
    ASSUME TypeOK, PresentInv, NEW c \in Client,
           Login(c) \/ Reject(c) \/ Fail(c) \/ Exit(c),
           NoRemoval' => NoRemoval
    PROVE  PresentInv'
<1>1. UNCHANGED <<obj, task, late, runs>> /\ run[c].pc \in Running
  BY DEF Login, Reject, Fail, Exit, AtEntry, Running
<1>2. NoRemoval' => \A q \in late' : Additive(q)
  BY <1>1, PresentInvSplit
<1>3. CASE Login(c)
  BY <1>1, <1>2, <1>3, SameQueueInv DEF Login
<1>4. CASE Reject(c) \/ Fail(c)
  BY <1>1, <1>2, <1>4, SameQueueInv DEF Reject, Fail, Running
<1>5. CASE Exit(c)
  BY <1>1, <1>2, <1>5, SameQueueInv DEF Exit
<1>. QED
  BY <1>3, <1>4, <1>5

\* A late request that is executed or lost takes nothing away.
LEMMA LateInv ==
    ASSUME TypeOK, PresentInv, NEW q \in late, LateApply(q) \/ LateDrop(q),
           NoRemoval' => NoRemoval
    PROVE  PresentInv'
<1>1. UNCHANGED <<task, run, runs>> /\ late' \subseteq late
  BY DEF LateApply, LateDrop
<1>2. NoRemoval' => \A a \in ListAttr : obj.list[a] \subseteq obj'.list[a]
  <2>1. CASE LateApply(q)
    <3>1. q \in Request /\ obj \in Object /\ obj' = Apply(q, obj)
      BY <2>1, ServerObjectType DEF LateApply, TypeOK
    <3>2. NoRemoval' => Additive(q)
      BY PresentInvSplit
    <3>. QED
      BY <3>1, <3>2, AdditiveKeeps
  <2>2. CASE LateDrop(q)
    BY <2>2 DEF LateDrop
  <2>. QED
    BY <2>1, <2>2
<1>3. ASSUME NEW d \in Client
      PROVE  ClientInv(d)'
  BY <1>1, <1>2, OtherClient, PresentInvSplit
<1>4. NoRemoval' => \A r \in late' : Additive(r)
  BY <1>1, PresentInvSplit
<1>. QED
  BY <1>3, <1>4, SplitPrime

\* Until it is posted, a value that a present-like task found missing waits in
\* the queue of its client, and while no removing task was run nothing in
\* flight removes anything.
THEOREM PresentInvariant == Spec => []PresentInv
<1>1. Init => PresentInv
  BY DEF Init, PresentInv, NewRun
<1>2. TypeOK /\ PresentInv /\ [Next]_vars => PresentInv'
  <2>. SUFFICES ASSUME TypeOK, PresentInv, [Next]_vars PROVE PresentInv'
    OBVIOUS
  <2>1. CASE UNCHANGED vars
    BY <2>1 DEF vars, PresentInv, NoRemoval, Removing, Pending, Adds,
                AddAttrs, ListAdd, CanonList, Additive
  <2>2. CASE Next
    <3>1. NoRemoval' => NoRemoval
      BY <2>2, NoRemovalBefore
    <3>. QED
      BY <2>2, <3>1, StartInv, FindInv, PostInv, SimulateInv, TimeoutInv,
         PcInv, LateInv DEF Next, Module
  <2>. QED
    BY <2>1, <2>2
<1>. QED
  BY TypeCorrect, <1>1, <1>2, PTL DEF Spec

\* What present-like tasks put into list attributes stays there, however runs
\* interleave and whatever times out, is retried or arrives late: requests
\* carry the difference with what was found, never whole lists.
THEOREM PresentStays == Spec => []PresentSticks
<1>1. TypeOK /\ PresentInv => PresentSticks
  <2>. SUFFICES ASSUME TypeOK, PresentInv, NoRemoval,
                       NEW c \in Client, Succeeded(c), NEW a \in ListAttr
                PROVE  CanonList(task[c], a) \subseteq obj.list[a]
    BY DEF PresentSticks, ListsPresent
  <2>1. run[c].todo = {}
    BY DEF TypeOK, Succeeded
  <2>2. Pending(c, a) = {}
    BY <2>1 DEF Pending
  <2>. QED
    BY <2>2 DEF PresentInv, Succeeded
<1>. QED
  BY TypeCorrect, PresentInvariant, <1>1, PTL
=============================================================================
