-------------------------- MODULE IPAClientRunProofs --------------------------
(***************************************************************************)
(* Theorems about what the requests of IPAClient come from, and about what *)
(* a run that succeeds has done, for every value of the constants.         *)
(***************************************************************************)
EXTENDS IPAClientProofs

-----------------------------------------------------------------------------
(* Every change of the object comes from a find of a task that was run.    *)

\* req is what client c sends, or sent, after a find that returned o.
From(req, c) ==
    /\ runs[c] > 0
    /\ ~task[c].check
    /\ \E o \in Object :
          /\ ~Refused(task[c], o)
          /\ \E i \in Queue(task[c], o) : req = RequestOf(i, task[c], o)

\* A queue holds nothing but what the find it followed calls for, whatever
\* happened to the object since, and so does the network.
OriginInv ==
    /\ \A c \in Client : run[c].pc # "idle" => runs[c] > 0
    /\ \A c \in Client : run[c].pc = "process" =>
          /\ run[c].todo \subseteq Queue(task[c], run[c].seen)
          /\ ~Refused(task[c], run[c].seen)
    /\ \A req \in late : \E c \in Client : From(req, c)

\* The part of OriginInv that speaks of the run of client c.
OriginOf(c) ==
    /\ run[c].pc # "idle" => runs[c] > 0
    /\ run[c].pc = "process" =>
          /\ run[c].todo \subseteq Queue(task[c], run[c].seen)
          /\ ~Refused(task[c], run[c].seen)

\* Counters of starts never go down, and nobody's parameters change.
LEMMA RunsGrow ==
    ASSUME TypeOK, [Next]_vars
    PROVE  /\ task' = task
           /\ \A c \in Client : runs[c] > 0 => runs'[c] > 0
<1>1. /\ task' = task
      /\ \/ runs' = runs
         \/ \E c \in Client : runs' = [runs EXCEPT ![c] = @ + 1]
  <2>1. CASE \E c \in Client : Start(c)
    BY <2>1 DEF Start
  <2>2. CASE \E c \in Client : Module(c) \/ Timeout(c) \/ Fail(c)
    BY <2>2 DEF Module, Login, Find, Post, Simulate, Reject, Exit, Timeout, Fail
  <2>3. CASE \E req \in late : LateApply(req) \/ LateDrop(req)
    BY <2>3 DEF LateApply, LateDrop
  <2>4. CASE UNCHANGED vars
    BY <2>4 DEF vars
  <2>. QED
    BY <2>1, <2>2, <2>3, <2>4 DEF Next
<1>. QED
  BY <1>1, BoundAssumption DEF TypeOK

\* What a request came from, it came from for good.
LEMMA FromStays ==
    ASSUME TypeOK, [Next]_vars, NEW req, NEW c \in Client, From(req, c)
    PROVE  From(req, c)'
<1>1. task' = task /\ runs'[c] > 0
  BY RunsGrow DEF From
<1>2. (~task[c].check)' /\ (runs[c] > 0)'
  BY <1>1 DEF From
<1>3. \E o \in Object :
         /\ ~Refused(task'[c], o)
         /\ \E i \in Queue(task'[c], o) : req = RequestOf(i, task'[c], o)
  BY <1>1 DEF From
<1>. QED
  BY <1>2, <1>3 DEF From, Object

\* The request at which a queue stands comes from the find of its run.
LEMMA PostedFrom ==
    ASSUME TypeOK, OriginInv, NEW c \in Client, NEW i \in run[c].todo,
           AtEntry(c, i), ~task[c].check
    PROVE  From(RequestOf(i, task[c], run[c].seen), c)
<1>1. runs[c] > 0 /\ ~Refused(task[c], run[c].seen)
      /\ i \in Queue(task[c], run[c].seen)
  BY DEF OriginInv, AtEntry
<1>2. run[c].seen \in Object
  BY StepType
<1>. QED
  BY <1>1, <1>2 DEF From

\* A run that a step leaves alone still has its origin.
LEMMA SameOrigin ==
    ASSUME TypeOK, [Next]_vars, NEW c \in Client, OriginOf(c),
           run'[c].todo \subseteq run[c].todo, run'[c].seen = run[c].seen,
           run[c].pc # "idle" \/ run'[c].pc = "idle",
           run'[c].pc = "process" => run[c].pc = "process"
    PROVE  OriginOf(c)'
<1>1. task' = task /\ (runs[c] > 0 => runs'[c] > 0)
  BY RunsGrow
<1>2. run'[c].pc # "idle" => runs'[c] > 0
  BY <1>1 DEF OriginOf
<1>3. run'[c].pc = "process" =>
        /\ run'[c].todo \subseteq Queue(task'[c], run'[c].seen)
        /\ ~Refused(task'[c], run'[c].seen)
  BY <1>1 DEF OriginOf
<1>. QED
  BY <1>2, <1>3 DEF OriginOf

\* A run that starts has nothing queued, one that finds queues what its find
\* calls for.
LEMMA NewOrigin ==
    ASSUME TypeOK, [Next]_vars, NEW c \in Client, OriginOf(c),
           Start(c) \/ Find(c)
    PROVE  OriginOf(c)'
<1>1. task' = task /\ (runs[c] > 0 => runs'[c] > 0)
  BY RunsGrow
<1>2. CASE Start(c)
  <2>1. runs'[c] > 0
    <3>1. CASE run[c].pc = "failed"
      BY <1>1, <3>1 DEF OriginOf
    <3>2. CASE runs' = [runs EXCEPT ![c] = @ + 1]
      BY <3>2, BoundAssumption DEF TypeOK
    <3>. QED
      BY <1>2, <3>1, <3>2 DEF Start
  <2>2. run'[c].pc = "login"
    BY <1>2 DEF Start, TypeOK, NewRun
  <2>. QED
    BY <2>1, <2>2 DEF OriginOf
<1>3. CASE Find(c)
  <2>1. /\ run'[c].pc = "process" => ~Refused(task[c], obj)
        /\ run'[c].todo = Queue(task[c], obj)
        /\ run'[c].seen = obj
    BY <1>3 DEF Find, TypeOK
  <2>2. run[c].pc = "find"
    BY <1>3 DEF Find
  <2>3. runs'[c] > 0
    BY <1>1, <2>2 DEF OriginOf
  <2>4. run'[c].pc = "process" =>
          /\ run'[c].todo \subseteq Queue(task'[c], run'[c].seen)
          /\ ~Refused(task'[c], run'[c].seen)
    BY <1>1, <2>1
  <2>. QED
    BY <2>3, <2>4 DEF OriginOf
<1>. QED
  BY <1>2, <1>3

\* Any other step of a client keeps its find, and takes from its queue.
LEMMA StepOrigin ==
    ASSUME TypeOK, Next, NEW c \in Client, OriginOf(c)
    PROVE  OriginOf(c)'
<1>1. CASE Start(c) \/ Find(c)
  BY <1>1, NewOrigin
<1>2. CASE run'[c] = run[c]
  BY <1>2, SameOrigin
<1>3. CASE Login(c) \/ Reject(c) \/ Exit(c) \/ Timeout(c) \/ Fail(c)
  <2>1. /\ run'[c].todo = run[c].todo /\ run'[c].seen = run[c].seen
        /\ run[c].pc # "idle" /\ run'[c].pc # "process"
    BY <1>3 DEF Login, Reject, Exit, Timeout, Fail, TypeOK, Run, AtEntry, Running
  <2>. QED
    BY <2>1, SameOrigin
<1>4. CASE Post(c) \/ Simulate(c)
  <2>1. PICK i \in run[c].todo :
          /\ AtEntry(c, i)
          /\ run' = [run EXCEPT ![c].todo = @ \ {i}, ![c].changed = TRUE]
    BY <1>4 DEF Post, Simulate
  <2>2. /\ run'[c].todo = run[c].todo \ {i} /\ run'[c].seen = run[c].seen
        /\ run[c].pc = "process" /\ run'[c].pc = "process"
    BY <2>1 DEF TypeOK, Run, AtEntry
  <2>. QED
    BY <2>2, SameOrigin
<1>5. ASSUME NEW d \in Client, d # c,
             Start(d) \/ Module(d) \/ Timeout(d) \/ Fail(d)
      PROVE  run'[c] = run[c]
  BY <1>5 DEF TypeOK, Start, Module, Login, Find, Post, Simulate, Reject, Exit,
              Timeout, Fail
<1>6. ASSUME NEW req \in late, LateApply(req) \/ LateDrop(req)
      PROVE  run'[c] = run[c]
  BY <1>6 DEF LateApply, LateDrop
<1>. QED
  BY <1>1, <1>2, <1>3, <1>4, <1>5, <1>6 DEF Next, Module

\* Nothing gets on its way to the server but a request of a queue.
LEMMA LateOrigin ==
    ASSUME TypeOK, OriginInv, Next, NEW req \in late'
    PROVE  \E c \in Client : From(req, c)
<1>1. CASE req \in late
  BY <1>1 DEF OriginInv
<1>2. ASSUME NEW c \in Client, Timeout(c)
      PROVE  \E d \in Client : From(req, d)
  <2>1. PICK i \in run[c].todo :
          /\ AtEntry(c, i) /\ ~task[c].check
          /\ late' = late \cup {RequestOf(i, task[c], run[c].seen)}
    BY <1>2 DEF Timeout
  <2>. QED
    BY <1>1, <2>1, PostedFrom
<1>3. (\A c \in Client : ~Timeout(c)) => req \in late
  BY DEF Next, Start, Module, Login, Find, Post, Simulate, Reject, Exit, Fail,
         LateApply, LateDrop
<1>. QED
  BY <1>1, <1>2, <1>3

\* Whatever is queued or on its way to the server comes from a find of a task
\* that was run for real: process_queue() posts what queue_requests() made of
\* the answer to find(), and nothing else.
THEOREM OriginInvariant == Spec => []OriginInv
<1>1. Init => OriginInv
  BY DEF Init, OriginInv, NewRun
<1>2. TypeOK /\ OriginInv /\ [Next]_vars => OriginInv'
  <2>. SUFFICES ASSUME TypeOK, OriginInv, [Next]_vars PROVE OriginInv'
    OBVIOUS
  <2>1. ASSUME NEW c \in Client
        PROVE  OriginOf(c)'
    <3>1. OriginOf(c)
      BY DEF OriginInv, OriginOf
    <3>2. CASE UNCHANGED vars
      BY <3>1, <3>2, SameOrigin DEF vars
    <3>. QED
      BY <3>1, <3>2, StepOrigin
  <2>2. ASSUME NEW req \in late'
        PROVE  \E c \in Client : From(req, c)'
    <3>1. CASE UNCHANGED vars
      BY <3>1, FromStays DEF vars, OriginInv
    <3>2. CASE Next
      BY <3>2, LateOrigin, FromStays
    <3>. QED
      BY <3>1, <3>2
  <2>. QED
    BY <2>1, <2>2 DEF OriginInv, OriginOf
<1>. QED
  BY TypeCorrect, <1>1, <1>2, PTL DEF Spec

\* A change of the object is the execution of one such request.
LEMMA ChangeFrom ==
    ASSUME TypeOK, OriginInv, [Next]_vars, obj' # obj
    PROVE  \E req \in Request : \E c \in Client :
              /\ From(req, c)
              /\ Accepts(req, obj)
              /\ obj' = Apply(req, obj)
<1>1. CASE \E c \in Client : Post(c)
  <2>. PICK c \in Client : Post(c)
    BY <1>1
  <2>1. PICK i \in run[c].todo :
          /\ AtEntry(c, i) /\ ~task[c].check
          /\ Accepts(RequestOf(i, task[c], run[c].seen), obj)
          /\ obj' = Apply(RequestOf(i, task[c], run[c].seen), obj)
    BY DEF Post
  <2>2. RequestOf(i, task[c], run[c].seen) \in Request
    BY StepType
  <2>. QED
    BY <2>1, <2>2, PostedFrom
<1>2. CASE \E req \in late : LateApply(req)
  BY <1>2 DEF LateApply, OriginInv, TypeOK
<1>3. (\E c \in Client : Post(c)) \/ (\E req \in late : LateApply(req))
  BY DEF Next, vars, Start, Module, Login, Find, Simulate, Reject, Exit,
         Timeout, Fail, LateDrop
<1>. QED
  BY <1>1, <1>2, <1>3

\* What a find leads to, method by method.
LEMMA QueuedRequest ==
    ASSUME NEW t \in Task, NEW o \in Object, NEW i \in Queue(t, o)
    PROVE  /\ i \in Steps
           /\ i = REM <=> RequestOf(i, t, o).method = "del"
           /\ i = BASE <=> RequestOf(i, t, o).method \in {"add", "mod"}
           /\ i = ENABLE <=> RequestOf(i, t, o).method \in {"enable", "disable"}
           /\ i = REM <=> RemovesObject(t)
           /\ i = ENABLE => t.state \in Flags /\ CanonFlag(t) = t.state
           /\ i # BASE => RequestOf(i, t, o).keys = {}
<1>1. i \in Steps
  BY QueueType
<1>2. i = REM <=> RemovesObject(t)
  BY DEF Queue, REM, BASE, ENABLE, Items
<1>3. i = ENABLE => t.state \in Flags /\ CanonFlag(t) = t.state
  BY DEF Queue, REM, BASE, ENABLE, Items, EnableQueued, CanonFlag
<1>. QED
  BY <1>1, <1>2, <1>3 DEF RequestOf, MethodOf, REM, BASE, ENABLE

\* CAIPAClient.mod_rewrite_list_changes() raises when the request to modify a
\* CA has keys other than its description.  The test is made on the answer of
\* find, but what it lets through is right whenever it is executed.
THEOREM FrozenStays == Spec => FrozenScalars
<1>1. ASSUME TypeOK, OriginInv, [Next]_vars, obj.exists, obj'.exists,
             NEW k \in ScalarAttr \ Modifiable
      PROVE  obj'.scalar[k] = obj.scalar[k]
  <2>1. SUFFICES ASSUME obj' # obj
                 PROVE  obj'.scalar[k] = obj.scalar[k]
    OBVIOUS
  <2>2. PICK req \in Request, c \in Client :
          From(req, c) /\ Accepts(req, obj) /\ obj' = Apply(req, obj)
    BY <1>1, <2>1, ChangeFrom
  <2>3. req.method \notin {"add", "del"}
    BY <1>1, <2>2 DEF Accepts, Apply, NoObject
  <2>4. k \notin req.keys
    <3>1. task[c] \in Task
      BY <1>1 DEF TypeOK
    <3>2. PICK o \in Object :
            /\ ~Refused(task[c], o)
            /\ \E i \in Queue(task[c], o) : req = RequestOf(i, task[c], o)
      BY <2>2 DEF From
    <3>3. PICK i \in Queue(task[c], o) : req = RequestOf(i, task[c], o)
      BY <3>2
    <3>4. CASE i = BASE
      <4>1. MethodOf(BASE, task[c], o) = "mod"
        <5>1. req.method = "mod"
          BY <2>3, <3>1, <3>3, <3>4, QueuedRequest
        <5>2. req.method = MethodOf(i, task[c], o)
          BY <3>3 DEF RequestOf
        <5>. QED
          BY <3>4, <5>1, <5>2
      <4>2. req.keys = ScalarKeys(task[c], o)
        BY <3>3, <3>4 DEF RequestOf
      <4>. QED
        BY <3>2, <3>3, <3>4, <4>1, <4>2 DEF Refused
    <3>5. CASE i # BASE
      BY <3>1, <3>3, <3>5, QueuedRequest
    <3>. QED
      BY <3>4, <3>5
  <2>5. obj \in Object
    BY <1>1, ServerObjectType DEF TypeOK
  <2>. QED
    BY <2>2, <2>3, <2>4, <2>5 DEF Apply, Changed
<1>2. TypeOK /\ OriginInv /\ [Next]_vars =>
        (obj.exists /\ obj'.exists =>
            \A k \in ScalarAttr \ Modifiable : obj'.scalar[k] = obj.scalar[k])
  BY <1>1
<1>. QED
  BY TypeCorrect, OriginInvariant, <1>2, PTL DEF Spec, FrozenScalars

-----------------------------------------------------------------------------
(* The refinement of AskedChanges.                                         *)

\* What a request does to lists and scalars is what its task asks for.
LEMMA RequestAsked ==
    ASSUME NEW t \in Task, NEW o \in Object, NEW i \in Queue(t, o)
    PROVE  LET req == RequestOf(i, t, o) IN
           /\ \A a \in ListAttr :
                 /\ \A v \in req.add[a] : Abstract!Wants(t, a, v)
                 /\ \A v \in req.del[a] : Abstract!Unwants(t, a, v)
           /\ \A k \in req.keys : Abstract!Sets(t, k, req.to[k])
           /\ req.method = "del" => Abstract!AsksRemoval(t)
           /\ req.method = "enable" => t.state = "enabled"
           /\ req.method = "disable" => t.state = "disabled"
<1>. DEFINE req == RequestOf(i, t, o)
<1>1. ASSUME NEW a \in ListAttr, NEW v \in req.add[a]
      PROVE  Abstract!Wants(t, a, v)
  BY <1>1 DEF RequestOf, Adds, ListAdd, CanonList, Abstract!Wants
<1>2. ASSUME NEW a \in ListAttr, NEW v \in req.del[a]
      PROVE  Abstract!Unwants(t, a, v)
  BY <1>2 DEF RequestOf, Dels, ListDel, CanonList, Abstract!Unwants
<1>3. ASSUME NEW k \in req.keys
      PROVE  Abstract!Sets(t, k, req.to[k])
  <2>1. k \in ScalarKeys(t, o) /\ req.to[k] = ScalarTo(t, k)
    BY <1>3 DEF RequestOf, ScalarKeys
  <2>. QED
    BY <2>1 DEF ScalarKeys, ScalarTo, CanonScalar, Abstract!Sets, Abstract!Given
<1>4. req.method = "del" => Abstract!AsksRemoval(t)
  <2>1. RemovesObject(t) => Abstract!AsksRemoval(t)
    BY NoneAssumption DEF RemovesObject, IsRemParamRequest, CanonList,
       CanonScalar, CanonFlag, Flags, Abstract!AsksRemoval, Abstract!Given
  <2>. QED
    BY <2>1, QueuedRequest
<1>5. /\ req.method = "enable" => t.state = "enabled"
      /\ req.method = "disable" => t.state = "disabled"
  <2>1. req.method \in {"enable", "disable"} =>
          i = ENABLE /\ t.state \in Flags /\ CanonFlag(t) = t.state
    BY QueuedRequest
  <2>2. i = ENABLE => req.method =
            IF CanonFlag(t) = "enabled" THEN "enable" ELSE "disable"
    BY DEF RequestOf, MethodOf, REM, BASE, ENABLE
  <2>. QED
    BY <2>1, <2>2 DEF Flags
<1>. QED
  BY <1>1, <1>2, <1>3, <1>4, <1>5

\* A step that changes the object is a change that a task asked for.
LEMMA ChangeIsAsked ==
    ASSUME TypeOK, OriginInv, [Next]_vars, obj' # obj, Asked' = Asked, TypeOK'
    PROVE  Abstract!Change
<1>1. PICK req \in Request, c \in Client :
        From(req, c) /\ Accepts(req, obj) /\ obj' = Apply(req, obj)
  BY ChangeFrom
<1>. DEFINE t == task[c]
<1>2. t \in Task /\ t \in Asked
  BY <1>1 DEF From, Asked, TypeOK
<1>3. PICK o \in Object : \E i \in Queue(t, o) : req = RequestOf(i, t, o)
  BY <1>1 DEF From
<1>4. PICK i \in Queue(t, o) : req = RequestOf(i, t, o)
  BY <1>3
<1>5. /\ \A a \in ListAttr :
            /\ \A v \in req.add[a] : Abstract!Wants(t, a, v)
            /\ \A v \in req.del[a] : Abstract!Unwants(t, a, v)
      /\ \A k \in req.keys : Abstract!Sets(t, k, req.to[k])
      /\ req.method = "del" => Abstract!AsksRemoval(t)
      /\ req.method = "enable" => t.state = "enabled"
      /\ req.method = "disable" => t.state = "disabled"
  BY <1>2, <1>4, RequestAsked
<1>6. obj \in Object /\ obj' \in Object
  BY ServerObjectType DEF TypeOK
<1>7. CASE req.method = "del"
  <2>1. obj' = NoObject /\ obj.exists /\ Abstract!AsksRemoval(t)
    BY <1>1, <1>5, <1>7 DEF Apply, Accepts
  <2>2. \A a \in ListAttr :
           /\ \A v \in obj'.list[a] \ obj.list[a] :
                 \E u \in Asked : Abstract!Wants(u, a, v)
           /\ \A v \in obj.list[a] \ obj'.list[a] :
                 \E u \in Asked : Abstract!Unwants(u, a, v)
    BY <1>2, <2>1 DEF NoObject, Abstract!Unwants
  <2>3. \A k \in ScalarAttr : \E u \in Asked : Abstract!Sets(u, k, obj'.scalar[k])
    BY <1>2, <2>1 DEF NoObject, Abstract!Sets
  <2>4. \E u \in Asked : Abstract!Switches(u, obj, obj')
    BY <1>2, <2>1 DEF NoObject, Abstract!Switches
  <2>. QED
    BY <1>2, <1>6, <2>1, <2>2, <2>3, <2>4 DEF Abstract!Change
<1>8. CASE req.method # "del"
  <2>1. obj' = Changed(req, obj)
    BY <1>1, <1>8 DEF Apply
  <2>2. \A a \in ListAttr :
           /\ \A v \in obj'.list[a] \ obj.list[a] :
                 \E u \in Asked : Abstract!Wants(u, a, v)
           /\ \A v \in obj.list[a] \ obj'.list[a] :
                 \E u \in Asked : Abstract!Unwants(u, a, v)
    BY <1>2, <1>5, <2>1 DEF Changed
  <2>3. \A k \in ScalarAttr : obj'.scalar[k] # obj.scalar[k] =>
           \E u \in Asked : Abstract!Sets(u, k, obj'.scalar[k])
    BY <1>2, <1>5, <2>1 DEF Changed
  <2>4. obj'.flag # obj.flag => \E u \in Asked : Abstract!Switches(u, obj, obj')
    <3>1. CASE req.method = "add"
      <4>1. obj'.exists = TRUE
        BY <2>1 DEF Changed
      <4>2. obj.exists = FALSE
        BY <1>1, <3>1 DEF Accepts
      <4>. QED
        BY <1>2, <4>1, <4>2 DEF Abstract!Switches
    <3>2. CASE req.method \in {"enable", "disable"}
      BY <1>2, <1>5, <2>1, <3>2 DEF Changed, Abstract!Switches
    <3>3. CASE req.method \notin {"add", "enable", "disable"}
      BY <2>1, <3>3 DEF Changed
    <3>. QED
      BY <3>1, <3>2, <3>3
  <2>5. obj'.exists
    BY <2>1 DEF Changed
  <2>. QED
    BY <1>2, <1>6, <2>2, <2>3, <2>4, <2>5 DEF Abstract!Change
<1>. QED
  BY <1>7, <1>8

\* Only the start of a task asks for anything, and it changes nothing else.
LEMMA StartAsks ==
    ASSUME TypeOK, [Next]_vars, Asked' # Asked
    PROVE  \E t \in Task : Abstract!Ask(t)
<1>1. PICK c \in Client : Start(c)
  <2>1. (\A c \in Client : ~Start(c)) => task' = task /\ runs' = runs
    BY DEF Next, vars, Module, Login, Find, Post, Simulate, Reject, Exit,
           Timeout, Fail, LateApply, LateDrop
  <2>. QED
    BY <2>1 DEF Asked
<1>2. obj' = obj /\ task' = task
  BY <1>1 DEF Start
<1>3. \A d \in Client : d # c => runs'[d] = runs[d]
  BY <1>1 DEF Start, TypeOK
<1>4. runs[c] > 0 => runs'[c] > 0
  BY RunsGrow
<1>5. Asked' = {task[d] : d \in {e \in Client : runs'[e] > 0 /\ ~task[e].check}}
  BY <1>2 DEF Asked
<1>6. Asked' = Asked \cup {task[c]}
  <2>1. Asked \subseteq Asked' /\ Asked' \subseteq Asked \cup {task[c]}
    BY <1>3, <1>4, <1>5 DEF Asked
  <2>. QED
    BY <2>1
<1>7. task[c] \in Task
  BY DEF TypeOK
<1>. QED
  BY <1>2, <1>6, <1>7 DEF Abstract!Ask

\* Any number of clients, interleaved, timed out, rerun and late as they may
\* be, show the server only changes that tasks run so far asked for: a
\* difference computed from an old find never removes what all of them want,
\* and never brings in what none of them wants.
THEOREM AskedOnly == Spec => OnlyAskedChanges
<1>1. Init => Abstract!Init
  BY ServerObjectType DEF Init, Asked, Abstract!Init
<1>2. TypeOK /\ OriginInv /\ TypeOK' /\ [Next]_vars
        => [Abstract!Next]_<<obj, Asked>>
  <2>. SUFFICES ASSUME TypeOK, OriginInv, TypeOK', [Next]_vars,
                       <<obj, Asked>>' # <<obj, Asked>>
                PROVE  Abstract!Next
    OBVIOUS
  <2>1. CASE Asked' # Asked
    BY <2>1, StartAsks DEF Abstract!Next
  <2>2. CASE Asked' = Asked
    BY <2>2, ChangeIsAsked DEF Abstract!Next
  <2>. QED
    BY <2>1, <2>2
<1>. QED
  BY TypeCorrect, OriginInvariant, <1>1, <1>2, PTL
     DEF Spec, OnlyAskedChanges, Abstract!Spec

-----------------------------------------------------------------------------
(* What a task brought about, its own late requests leave alone.           *)

\* A request carries no more than the difference it was made from.
LEMMA RequestParts ==
    ASSUME NEW t \in Task, NEW o \in Object, NEW i \in Queue(t, o)
    PROVE  LET req == RequestOf(i, t, o) IN
           /\ \A a \in ListAttr : /\ req.add[a] \subseteq ListAdd(t, o, a)
                                  /\ req.del[a] \subseteq ListDel(t, o, a)
           /\ req.keys \subseteq ScalarKeys(t, o)
           /\ \A k \in ScalarAttr : req.to[k] = ScalarTo(t, k)
  BY DEF RequestOf, Adds, Dels

\* The flag of an object after a request: <name>_add enables a new object of
\* a class that can be enabled, <name>_mod and the item methods keep the flag.
LEMMA ChangedFlag ==
    ASSUME NEW req \in Request, NEW o
    PROVE  /\ req.method = "enable" => Changed(req, o).flag = "enabled"
           /\ req.method = "disable" => Changed(req, o).flag = "disabled"
           /\ req.method \in {"mod", "item"} => Changed(req, o).flag = o.flag
           /\ req.method = "add" =>
                 Changed(req, o).flag = IF Enablable THEN "enabled" ELSE o.flag
<1>1. req.method = "enable" => Changed(req, o).flag = "enabled"
  BY DEF Changed
<1>2. req.method = "disable" => Changed(req, o).flag = "disabled"
  BY DEF Changed
<1>3. req.method \in {"mod", "item"} => Changed(req, o).flag = o.flag
  BY DEF Changed
<1>4. req.method = "add" =>
        Changed(req, o).flag = IF Enablable THEN "enabled" ELSE o.flag
  BY ClassAssumption DEF Changed
<1>. QED
  BY <1>1, <1>2, <1>3, <1>4

\* A request that comes from a find of a task, however old, leaves an object
\* as the task wants it.
LEMMA DesiredKept ==
    ASSUME NEW t \in Task, NEW o \in Object, NEW i \in Queue(t, o),
           NEW x \in Object, Desired(t, x), Accepts(RequestOf(i, t, o), x)
    PROVE  Desired(t, Apply(RequestOf(i, t, o), x))
<1>. DEFINE req == RequestOf(i, t, o)
            y   == Changed(req, x)
<1>1. req \in Request /\ i \in Steps
  BY QueueType, RequestType
<1>2. CASE i = REM
  <2>1. RemovesObject(t) /\ req.method = "del"
    BY <1>2, QueuedRequest
  <2>2. Desired(t, NoObject)
    BY <2>1 DEF Desired, RemovesObject, NoObject
  <2>. QED
    BY <2>1, <2>2 DEF Apply
<1>3. CASE i # REM
  <2>1. ~RemovesObject(t) /\ req.method # "del"
    BY <1>3, QueuedRequest
  <2>2. /\ y.exists = TRUE
        /\ \A a \in ListAttr : y.list[a] = (x.list[a] \cup req.add[a]) \ req.del[a]
        /\ \A k \in ScalarAttr : y.scalar[k] = IF k \in req.keys THEN req.to[k]
                                                                ELSE x.scalar[k]
    <3>. HIDE DEF req
    <3>. QED BY DEF Changed
  <2>3. ASSUME NEW a \in ListAttr
        PROVE  /\ t.state = "absent" =>
                     (CanonList(t, a) \cap x.list[a] = {} =>
                         CanonList(t, a) \cap y.list[a] = {})
               /\ t.state = "exact" =>
                     (CanonList(t, a) = x.list[a] => CanonList(t, a) = y.list[a])
               /\ t.state \in PresentLike =>
                     (CanonList(t, a) \subseteq x.list[a] =>
                         CanonList(t, a) \subseteq y.list[a])
    <3>1. /\ req.add[a] \subseteq ListAdd(t, o, a)
          /\ req.del[a] \subseteq ListDel(t, o, a)
      BY RequestParts
    <3>2. y.list[a] = (x.list[a] \cup req.add[a]) \ req.del[a]
      BY <2>2
    <3>. QED
      BY <3>1, <3>2 DEF ListAdd, ListDel, PresentLike
  <2>4. ASSUME NEW k \in ScalarAttr
        PROVE  \/ y.scalar[k] = x.scalar[k]
               \/ t.state = "absent" /\ y.scalar[k] = Default[k]
               \/ t.state # "absent" /\ y.scalar[k] = CanonScalar(t, k)
    <3>1. req.to[k] = ScalarTo(t, k)
      BY RequestParts
    <3>. QED
      BY <2>2, <3>1 DEF ScalarTo
  <2>5. CASE t.state = "absent"
    <3>1. /\ \A a \in ListAttr : CanonList(t, a) \cap x.list[a] = {}
          /\ \A k \in ScalarAttr :
                CanonScalar(t, k) \notin {None, Default[k]} =>
                    x.scalar[k] # CanonScalar(t, k)
      BY <2>1, <2>5 DEF Desired
    <3>2. /\ \A a \in ListAttr : CanonList(t, a) \cap y.list[a] = {}
          /\ \A k \in ScalarAttr :
                CanonScalar(t, k) \notin {None, Default[k]} =>
                    y.scalar[k] # CanonScalar(t, k)
      BY <2>3, <2>4, <2>5, <3>1
    <3>. QED
      BY <2>1, <2>5, <3>2 DEF Desired, Apply
  <2>6. CASE t.state = "exact"
    <3>1. /\ \A a \in ListAttr : CanonList(t, a) = x.list[a]
          /\ \A k \in ScalarAttr : CanonScalar(t, k) = x.scalar[k]
      BY <2>6 DEF Desired
    <3>2. /\ \A a \in ListAttr : CanonList(t, a) = y.list[a]
          /\ \A k \in ScalarAttr : CanonScalar(t, k) = y.scalar[k]
      BY <2>3, <2>4, <2>6, <3>1
    <3>. QED
      BY <2>1, <2>2, <2>6, <3>2 DEF Desired, Apply
  <2>7. CASE t.state \in PresentLike
    <3>1. /\ x.exists
          /\ \A a \in ListAttr : CanonList(t, a) \subseteq x.list[a]
          /\ \A k \in ScalarAttr : CanonScalar(t, k) \in {None, x.scalar[k]}
          /\ t.state \in Flags => x.flag = t.state
      BY <2>7 DEF Desired, ListsPresent, ScalarsPresent, PresentLike
    <3>2. /\ \A a \in ListAttr : CanonList(t, a) \subseteq y.list[a]
          /\ \A k \in ScalarAttr : CanonScalar(t, k) \in {None, y.scalar[k]}
      BY <2>3, <2>4, <2>7, <3>1 DEF PresentLike
    <3>3. t.state \in Flags => y.flag = t.state
      <4>1. req.method # "add"
        BY <3>1 DEF Accepts
      <4>2. CASE req.method \in {"mod", "item"}
        BY <1>1, <3>1, <4>2, ChangedFlag
      <4>3. CASE req.method \in {"enable", "disable"}
        <5>1. /\ req.method = "enable" => t.state = "enabled"
              /\ req.method = "disable" => t.state = "disabled"
          BY RequestAsked
        <5>. QED
          BY <1>1, <4>3, <5>1, ChangedFlag
      <4>. QED
        BY <1>1, <2>1, <4>1, <4>2, <4>3 DEF Request, Methods
    <3>. QED
      BY <2>1, <2>2, <2>7, <3>2, <3>3
         DEF Desired, ListsPresent, ScalarsPresent, PresentLike, Apply
  <2>. QED
    BY <2>5, <2>6, <2>7, ParamsType DEF States, PresentLike
<1>. QED
  BY <1>2, <1>3

\* The clients are runs of one task: the playbook is rerun, or run twice.
SameTask == \A c, d \in Client : task[c] = task[d]

\* Once the object is as a task wants it, neither what runs of that task still
\* send nor what they sent before they gave up makes it otherwise: each request
\* carries only differences towards the parameters, from whatever find.
THEOREM ConvergedStays == SameTask /\ Spec => StaysConverged
<1>1. ASSUME TypeOK, OriginInv, SameTask, Converged, [Next]_vars
      PROVE  Converged'
  <2>1. task' = task
    BY <1>1, RunsGrow
  <2>2. CASE obj' = obj
    BY <1>1, <2>1, <2>2 DEF Converged
  <2>3. CASE obj' # obj
    <3>1. PICK req \in Request, c \in Client :
            From(req, c) /\ Accepts(req, obj) /\ obj' = Apply(req, obj)
      BY <1>1, <2>3, ChangeFrom
    <3>2. PICK o \in Object : \E i \in Queue(task[c], o) :
                                 req = RequestOf(i, task[c], o)
      BY <3>1 DEF From
    <3>3. task[c] \in Task /\ obj \in Object
      BY <1>1, ServerObjectType DEF TypeOK
    <3>4. Desired(task[c], obj)
      BY <1>1 DEF Converged
    <3>5. Desired(task[c], obj')
      BY <3>1, <3>2, <3>3, <3>4, DesiredKept
    <3>6. \A d \in Client : task'[d] = task[c]
      BY <1>1, <2>1 DEF SameTask
    <3>. QED
      BY <3>5, <3>6 DEF Converged
  <2>. QED
    BY <2>2, <2>3
<1>2. TypeOK /\ OriginInv /\ SameTask /\ [Next]_vars =>
        /\ SameTask'
        /\ Converged => Converged'
  <2>1. TypeOK /\ SameTask /\ [Next]_vars => SameTask'
    BY RunsGrow DEF SameTask
  <2>. QED
    BY <1>1, <2>1
<1>. QED
  BY TypeCorrect, OriginInvariant, <1>2, PTL DEF Spec, StaysConverged

-----------------------------------------------------------------------------
(* What a run has done that nobody disturbed.                              *)

\* The requests that client c has posted in this run.
Posted(c) == Queue(task[c], run[c].seen) \ run[c].todo

\* o is what the requests in P make of s, each made from the find that saw s.
Reached(t, s, P, o) ==
    IF REM \in P THEN o = NoObject
    ELSE /\ o.exists = (s.exists \/ P # {})
         /\ \A a \in ListAttr :
               o.list[a] = (s.list[a] \cup UNION {Adds(i, t, s)[a] : i \in P})
                           \ UNION {Dels(i, t, s)[a] : i \in P}
         /\ \A k \in ScalarAttr :
               o.scalar[k] = IF BASE \in P /\ k \in ScalarKeys(t, s)
                             THEN ScalarTo(t, k) ELSE s.scalar[k]
         /\ o.flag = IF ENABLE \in P THEN CanonFlag(t)
                     ELSE IF BASE \in P /\ IsAbsent(s) /\ Enablable
                          THEN "enabled" ELSE s.flag

\* The object is what the run found and the requests it has posted since.
OwnOf(c) ==
    run[c].pc \in {"process", "done"} =>
        /\ run[c].seen \in ServerObject
        /\ run[c].todo \subseteq Queue(task[c], run[c].seen)
        /\ c \in undisturbed /\ ~task[c].check =>
              Reached(task[c], run[c].seen, Posted(c), obj)

OwnInv == \A c \in Client : OwnOf(c)

\* What is to be added was not found, what is to be removed was.
LEMMA DiffDisjoint ==
    ASSUME NEW t, NEW s, NEW a
    PROVE  /\ ListAdd(t, s, a) \cap s.list[a] = {}
           /\ ListDel(t, s, a) \subseteq s.list[a]
  BY DEF ListAdd, ListDel

\* Adds and Dels of a request are parts of the difference.
LEMMA PartOfDiff ==
    ASSUME NEW t, NEW s, NEW a \in ListAttr, NEW i
    PROVE  /\ Adds(i, t, s)[a] \subseteq ListAdd(t, s, a)
           /\ Dels(i, t, s)[a] \subseteq ListDel(t, s, a)
  BY DEF Adds, Dels

\* Nothing was posted: the object is what was found.
LEMMA ReachedStart ==
    ASSUME NEW t, NEW s \in ServerObject
    PROVE  Reached(t, s, {}, s)
  BY ServerObjectType DEF Reached, Object

\* One more request, whichever it is, is posted.
LEMMA ReachedStep ==
    ASSUME NEW t \in Task, NEW s \in ServerObject, NEW o \in Object,
           NEW P \in SUBSET Queue(t, s), NEW i \in Queue(t, s),
           Reached(t, s, P, o)
    PROVE  Reached(t, s, P \cup {i}, Apply(RequestOf(i, t, s), o))
<1>. DEFINE req == RequestOf(i, t, s)
            y   == Changed(req, o)
            Q   == P \cup {i}
<1>1. s \in Object
  BY ServerObjectType
<1>2. req \in Request /\ i \in Steps
  BY <1>1, QueueType, RequestType
<1>3. CASE i = REM
  <2>1. Apply(req, o) = NoObject
    BY <1>1, <1>3, QueuedRequest DEF Apply
  <2>. QED
    BY <1>3, <2>1 DEF Reached
<1>4. CASE i # REM
  <2>1. REM \notin Q /\ Apply(req, o) = y
    BY <1>1, <1>4, QueuedRequest DEF Apply
  <2>2. /\ \A a \in ListAttr :
              o.list[a] = (s.list[a] \cup UNION {Adds(j, t, s)[a] : j \in P})
                          \ UNION {Dels(j, t, s)[a] : j \in P}
        /\ \A k \in ScalarAttr :
              o.scalar[k] = IF BASE \in P /\ k \in ScalarKeys(t, s)
                            THEN ScalarTo(t, k) ELSE s.scalar[k]
        /\ o.flag = IF ENABLE \in P THEN CanonFlag(t)
                    ELSE IF BASE \in P /\ IsAbsent(s) /\ Enablable
                         THEN "enabled" ELSE s.flag
    BY <2>1 DEF Reached
  <2>3. /\ y.exists = TRUE
        /\ \A a \in ListAttr : y.list[a] = (o.list[a] \cup req.add[a]) \ req.del[a]
        /\ \A k \in ScalarAttr : y.scalar[k] = IF k \in req.keys THEN req.to[k]
                                                                ELSE o.scalar[k]
    <3>. HIDE DEF req
    <3>. QED BY DEF Changed
  <2>4. ASSUME NEW a \in ListAttr
        PROVE  y.list[a] = (s.list[a] \cup UNION {Adds(j, t, s)[a] : j \in Q})
                           \ UNION {Dels(j, t, s)[a] : j \in Q}
    <3>. DEFINE A  == UNION {Adds(j, t, s)[a] : j \in P}
                D  == UNION {Dels(j, t, s)[a] : j \in P}
                Ai == Adds(i, t, s)[a]
                Di == Dels(i, t, s)[a]
    <3>1. /\ UNION {Adds(j, t, s)[a] : j \in Q} = A \cup Ai
          /\ UNION {Dels(j, t, s)[a] : j \in Q} = D \cup Di
      OBVIOUS
    <3>2. D \subseteq ListDel(t, s, a) /\ Ai \subseteq ListAdd(t, s, a)
      BY PartOfDiff
    <3>3. Ai \cap D = {}
      BY <3>2, DiffDisjoint
    <3>4. req.add[a] = Ai /\ req.del[a] = Di
      BY DEF RequestOf
    <3>5. y.list[a] = (((s.list[a] \cup A) \ D) \cup Ai) \ Di
      BY <2>2, <2>3, <3>4
    <3>. HIDE DEF A, D, Ai, Di
    <3>. QED
      BY <3>1, <3>3, <3>5
  <2>5. ASSUME NEW k \in ScalarAttr
        PROVE  y.scalar[k] = IF BASE \in Q /\ k \in ScalarKeys(t, s)
                             THEN ScalarTo(t, k) ELSE s.scalar[k]
    <3>1. req.to[k] = ScalarTo(t, k)
      BY DEF RequestOf
    <3>2. req.keys = IF i = BASE THEN ScalarKeys(t, s) ELSE {}
      BY DEF RequestOf
    <3>3. y.scalar[k] = IF k \in req.keys THEN req.to[k] ELSE o.scalar[k]
      BY <2>3
    <3>4. o.scalar[k] = IF BASE \in P /\ k \in ScalarKeys(t, s)
                        THEN ScalarTo(t, k) ELSE s.scalar[k]
      BY <2>2
    <3>. HIDE DEF req, y
    <3>. QED
      BY <3>1, <3>2, <3>3, <3>4
  <2>6. y.flag = IF ENABLE \in Q THEN CanonFlag(t)
                 ELSE IF BASE \in Q /\ IsAbsent(s) /\ Enablable
                      THEN "enabled" ELSE s.flag
    <3>1. BASE # ENABLE
      BY DEF BASE, ENABLE
    <3>2. CASE i = ENABLE
      <4>1. CanonFlag(t) \in Flags
        BY <1>1, <3>2, QueuedRequest
      <4>2. req.method = IF CanonFlag(t) = "enabled" THEN "enable" ELSE "disable"
        BY <3>2 DEF RequestOf, MethodOf, REM, BASE, ENABLE
      <4>3. y.flag = CanonFlag(t)
        BY <1>2, <4>1, <4>2, ChangedFlag DEF Flags
      <4>. QED
        BY <3>2, <4>3
    <3>3. CASE i = BASE
      <4>1. req.method = IF IsAbsent(s) THEN "add" ELSE "mod"
        BY <3>3 DEF RequestOf, MethodOf, REM, BASE, ENABLE
      <4>2. CASE IsAbsent(s)
        <5>1. ENABLE \notin Q
          BY <3>1, <3>3, <4>2 DEF Queue, EnableQueued, BASE, ENABLE, REM, Items
        <5>2. y.flag = IF Enablable THEN "enabled" ELSE o.flag
          BY <1>2, <4>1, <4>2, ChangedFlag
        <5>3. ~Enablable => o.flag = s.flag
          BY <2>2, <5>1
        <5>. QED
          BY <3>3, <4>2, <5>1, <5>2, <5>3
      <4>3. CASE ~IsAbsent(s)
        <5>1. y.flag = o.flag
          BY <1>2, <4>1, <4>3, ChangedFlag
        <5>. QED
          BY <2>2, <3>1, <3>3, <4>3, <5>1
      <4>. QED
        BY <4>2, <4>3
    <3>4. CASE i \notin {ENABLE, BASE}
      <4>1. req.method = "item"
        BY <1>4, <3>4 DEF RequestOf, MethodOf
      <4>2. y.flag = o.flag
        BY <1>2, <4>1, ChangedFlag
      <4>. QED
        BY <2>2, <3>4, <4>2
    <3>. QED
      BY <3>2, <3>3, <3>4
  <2>. HIDE DEF y
  <2>. QED
    BY <2>1, <2>3, <2>4, <2>5, <2>6 DEF Reached
<1>. QED
  BY <1>3, <1>4

\* A step that keeps a run's find and queue and does not begin it, nor changes
\* the object unless someone disturbs the run by it.
LEMMA SameOwn ==
    ASSUME TypeOK, NEW c \in Client, OwnOf(c), task' = task,
           run'[c].seen = run[c].seen, run'[c].todo = run[c].todo,
           run'[c].pc \in {"process", "done"} => run[c].pc \in {"process", "done"},
           c \in undisturbed' => c \in undisturbed /\ obj' = obj
    PROVE  OwnOf(c)'
<1>. SUFFICES ASSUME run'[c].pc \in {"process", "done"}
              PROVE  OwnOf(c)'
  BY DEF OwnOf
<1>1. /\ run'[c].seen \in ServerObject
      /\ run'[c].todo \subseteq Queue(task[c], run'[c].seen)
      /\ c \in undisturbed' /\ ~task[c].check =>
            Reached(task[c], run[c].seen, Posted(c), obj)
  BY DEF OwnOf
<1>2. Posted(c)' = Posted(c)
  BY DEF Posted
<1>3. c \in undisturbed' /\ ~task'[c].check =>
        Reached(task'[c], run'[c].seen, Posted(c)', obj')
  BY <1>1, <1>2
<1>4. ServerObject' = ServerObject
  BY DEF ServerObject, Object, NoObject
<1>5. (Reached(task[c], run[c].seen, Posted(c), obj))'
        = Reached(task'[c], run'[c].seen, Posted(c)', obj')
  OBVIOUS
<1>. QED
  BY <1>1, <1>3, <1>4, <1>5 DEF OwnOf

\* Nobody but the poster stays undisturbed by a request that changes the
\* object.
LEMMA Disturbs ==
    ASSUME TypeOK, Next, NEW c \in Client, c \in undisturbed', obj' # obj
    PROVE  c \in undisturbed /\ Post(c)
<1>1. CASE \E d \in Client : Post(d)
  <2>1. PICK d \in Client : Post(d)
    BY <1>1
  <2>2. undisturbed' = undisturbed \cap {d}
    BY <2>1 DEF Post
  <2>. QED
    BY <2>1, <2>2
<1>2. CASE \E req \in late : LateApply(req)
  BY <1>2 DEF LateApply
<1>3. (\E d \in Client : Post(d)) \/ (\E req \in late : LateApply(req))
  BY DEF Next, Start, Module, Login, Find, Simulate, Reject, Exit,
         Timeout, Fail, LateDrop
<1>. QED
  BY <1>1, <1>2, <1>3

\* find() gives a run its queue; nothing is posted yet.
LEMMA FindOwn ==
    ASSUME TypeOK, NEW c \in Client, Find(c)
    PROVE  OwnOf(c)'
<1>1. /\ run'[c].todo = Queue(task[c], obj) /\ run'[c].seen = obj
      /\ obj' = obj /\ task' = task
  BY DEF Find, TypeOK
<1>2. obj \in ServerObject
  BY DEF TypeOK
<1>3. Posted(c)' = {}
  BY <1>1 DEF Posted
<1>4. Reached(task'[c], run'[c].seen, Posted(c)', obj')
  BY <1>1, <1>2, <1>3, ReachedStart
<1>5. run'[c].seen \in ServerObject
      /\ run'[c].todo \subseteq Queue(task'[c], run'[c].seen)
  BY <1>1, <1>2
<1>. QED
  BY <1>4, <1>5 DEF OwnOf, ServerObject, Object, NoObject

\* process_queue() posts a request, or only says so in check mode.
LEMMA PostOwn ==
    ASSUME TypeOK, NEW c \in Client, OwnOf(c), Post(c) \/ Simulate(c)
    PROVE  OwnOf(c)'
<1>1. PICK i \in run[c].todo :
        /\ AtEntry(c, i)
        /\ run' = [run EXCEPT ![c].todo = @ \ {i}, ![c].changed = TRUE]
        /\ task' = task
        /\ c \in undisturbed' => c \in undisturbed
        /\ ~task[c].check => obj' = Apply(RequestOf(i, task[c], run[c].seen), obj)
  <2>1. CASE Post(c)
    BY <2>1 DEF Post
  <2>2. CASE Simulate(c)
    BY <2>2 DEF Simulate
  <2>. QED
    BY <2>1, <2>2
<1>2. /\ run'[c].pc = run[c].pc /\ run[c].pc = "process"
      /\ run'[c].seen = run[c].seen /\ run'[c].todo = run[c].todo \ {i}
  BY <1>1 DEF TypeOK, Run, AtEntry
<1>3. /\ run[c].seen \in ServerObject
      /\ run[c].todo \subseteq Queue(task[c], run[c].seen)
      /\ c \in undisturbed /\ ~task[c].check =>
            Reached(task[c], run[c].seen, Posted(c), obj)
  BY <1>2 DEF OwnOf
<1>4. Posted(c)' = Posted(c) \cup {i}
  BY <1>1, <1>2, <1>3 DEF Posted
<1>5. task[c] \in Task /\ obj \in Object
  BY StepType
<1>6. c \in undisturbed' /\ ~task[c].check =>
        Reached(task[c], run[c].seen, Posted(c) \cup {i}, obj')
  BY <1>1, <1>3, <1>5, ReachedStep DEF Posted
<1>7. /\ run'[c].seen \in ServerObject
      /\ run'[c].todo \subseteq Queue(task'[c], run'[c].seen)
      /\ c \in undisturbed' /\ ~task'[c].check =>
            Reached(task'[c], run'[c].seen, Posted(c)', obj')
  BY <1>1, <1>2, <1>3, <1>4, <1>6
<1>. QED
  BY <1>7 DEF OwnOf, ServerObject, Object, NoObject

\* While nobody disturbs a run, the object is what the run found and what it
\* has posted since, as set by set and key by key as the requests say.
THEOREM OwnInvariant == Spec => []OwnInv
<1>1. Init => OwnInv
  BY DEF Init, OwnInv, OwnOf, NewRun
<1>2. TypeOK /\ OwnInv /\ [Next]_vars => OwnInv'
  <2>. SUFFICES ASSUME TypeOK, OwnInv, [Next]_vars, NEW c \in Client
                PROVE  OwnOf(c)'
    BY DEF OwnInv
  <2>1. OwnOf(c) /\ task' = task
    BY RunsGrow DEF OwnInv
  <2>2. CASE UNCHANGED vars
    BY <2>1, <2>2, SameOwn DEF vars
  <2>3. CASE Find(c)
    BY <2>3, FindOwn
  <2>4. CASE Post(c) \/ Simulate(c)
    BY <2>1, <2>4, PostOwn
  <2>5. CASE Start(c)
    BY <2>5 DEF Start, TypeOK, NewRun, OwnOf
  <2>6. CASE Next /\ ~Find(c) /\ ~Post(c) /\ ~Simulate(c) /\ ~Start(c)
    <3>1. c \in undisturbed' => c \in undisturbed /\ obj' = obj
      <4>1. obj' = obj /\ c \in undisturbed' => c \in undisturbed
        BY <2>6 DEF Next, Start, Module, Login, Find, Post, Simulate, Reject,
                    Exit, Timeout, Fail, LateApply, LateDrop
      <4>. QED
        BY <2>6, <4>1, Disturbs
    <3>2. CASE run'[c] = run[c]
      BY <2>1, <3>1, <3>2, SameOwn
    <3>3. CASE Login(c) \/ Reject(c) \/ Exit(c) \/ Timeout(c) \/ Fail(c)
      <4>1. /\ run'[c].seen = run[c].seen /\ run'[c].todo = run[c].todo
            /\ run'[c].pc \in {"process", "done"} => run[c].pc = "process"
        BY <3>3 DEF Login, Reject, Exit, Timeout, Fail, TypeOK, Run
      <4>. QED
        BY <2>1, <3>1, <4>1, SameOwn
    <3>4. ASSUME NEW d \in Client, d # c,
                 Start(d) \/ Module(d) \/ Timeout(d) \/ Fail(d)
          PROVE  run'[c] = run[c]
      BY <3>4 DEF TypeOK, Start, Module, Login, Find, Post, Simulate, Reject,
                  Exit, Timeout, Fail
    <3>5. ASSUME NEW req \in late, LateApply(req) \/ LateDrop(req)
          PROVE  run'[c] = run[c]
      BY <3>5 DEF LateApply, LateDrop
    <3>. QED
      BY <2>6, <3>2, <3>3, <3>4, <3>5 DEF Next, Module
  <2>. QED
    BY <2>2, <2>3, <2>4, <2>5, <2>6
<1>. QED
  BY TypeCorrect, <1>1, <1>2, PTL DEF Spec

\* Every value of the difference is in some queued request: every list
\* attribute has a method that adds and one that removes.
LEMMA DiffIsQueued ==
    ASSUME NEW t \in Task, NEW s, NEW a \in ListAttr,
           ~RemovesObject(t), ~t.check
    PROVE  /\ \A v \in ListAdd(t, s, a) :
                 \E i \in Queue(t, s) : v \in Adds(i, t, s)[a]
           /\ \A v \in ListDel(t, s, a) :
                 \E i \in Queue(t, s) : v \in Dels(i, t, s)[a]
<1>1. CASE a \in BaseKeys
  <2>1. /\ Adds(BASE, t, s)[a] = ListAdd(t, s, a)
        /\ Dels(BASE, t, s)[a] = ListDel(t, s, a)
    BY <1>1 DEF Adds, Dels, AddAttrs, DelAttrs
  <2>2. ListAdd(t, s, a) # {} \/ ListDel(t, s, a) # {} => BASE \in Queue(t, s)
    BY <2>1 DEF Queue, BaseQueued, ListsChange, Steps
  <2>. QED
    BY <2>1, <2>2
<1>2. CASE a \notin BaseKeys
  <2>1. ASSUME NEW op \in {"add", "remove"}
        PROVE  \E i \in Items : /\ ItemSteps[i - 3].op = op
                                /\ a \in ItemSteps[i - 3].attrs
    <3>1. PICK j \in 1..Len(ItemSteps) :
            ItemSteps[j].op = op /\ a \in ItemSteps[j].attrs
      BY <1>2, ClassAssumption
    <3>2. Len(ItemSteps) \in Nat
      BY ClassAssumption
    <3>3. 3 + j \in Items /\ (3 + j) - 3 = j
      BY <3>2 DEF Items
    <3>. QED
      BY <3>1, <3>3
  <2>2. \A i \in Items : i # BASE /\ i \in Steps
    BY ClassAssumption DEF Items, BASE, Steps
  <2>3. ASSUME NEW v \in ListAdd(t, s, a)
        PROVE  \E i \in Queue(t, s) : v \in Adds(i, t, s)[a]
    <3>1. PICK i \in Items : /\ ItemSteps[i - 3].op = "add"
                             /\ a \in ItemSteps[i - 3].attrs
      BY <2>1
    <3>2. v \in Adds(i, t, s)[a]
      BY <2>2, <2>3, <3>1 DEF Adds, AddAttrs
    <3>3. i \in Queue(t, s)
      BY <2>2, <3>2 DEF Queue, ItemQueued, ListsChange
    <3>. QED
      BY <3>2, <3>3
  <2>4. ASSUME NEW v \in ListDel(t, s, a)
        PROVE  \E i \in Queue(t, s) : v \in Dels(i, t, s)[a]
    <3>1. PICK i \in Items : /\ ItemSteps[i - 3].op = "remove"
                             /\ a \in ItemSteps[i - 3].attrs
      BY <2>1
    <3>2. v \in Dels(i, t, s)[a]
      BY <2>2, <2>4, <3>1 DEF Dels, DelAttrs
    <3>3. i \in Queue(t, s)
      BY <2>2, <3>2 DEF Queue, ItemQueued, ListsChange
    <3>. QED
      BY <3>2, <3>3
  <2>. QED
    BY <2>3, <2>4
<1>. QED
  BY <1>1, <1>2

\* When everything is posted the object is what was found, with the whole
\* difference made good.
LEMMA ReachedAll ==
    ASSUME NEW t \in Task, NEW s \in ServerObject, NEW o,
           ~RemovesObject(t), ~t.check, Reached(t, s, Queue(t, s), o)
    PROVE  /\ o.exists
           /\ \A a \in ListAttr :
                 o.list[a] = (s.list[a] \cup ListAdd(t, s, a)) \ ListDel(t, s, a)
           /\ \A k \in ScalarAttr :
                 o.scalar[k] = IF k \in ScalarKeys(t, s) THEN ScalarTo(t, k)
                                                        ELSE s.scalar[k]
<1>1. REM \notin Queue(t, s)
  BY DEF Queue, REM, BASE, ENABLE, Items
<1>2. o.exists
  <2>1. ~s.exists => BASE \in Queue(t, s)
    BY DEF Queue, BaseQueued, Steps
  <2>. QED
    BY <1>1, <2>1 DEF Reached
<1>3. ASSUME NEW a \in ListAttr
      PROVE  o.list[a] = (s.list[a] \cup ListAdd(t, s, a)) \ ListDel(t, s, a)
  <2>. DEFINE A == UNION {Adds(i, t, s)[a] : i \in Queue(t, s)}
              D == UNION {Dels(i, t, s)[a] : i \in Queue(t, s)}
  <2>1. A = ListAdd(t, s, a)
    BY DiffIsQueued, PartOfDiff
  <2>2. D = ListDel(t, s, a)
    BY DiffIsQueued, PartOfDiff
  <2>3. o.list[a] = (s.list[a] \cup A) \ D
    BY <1>1 DEF Reached
  <2>. QED
    BY <2>1, <2>2, <2>3
<1>4. ASSUME NEW k \in ScalarAttr
      PROVE  o.scalar[k] = IF k \in ScalarKeys(t, s) THEN ScalarTo(t, k)
                                                    ELSE s.scalar[k]
  <2>1. k \in ScalarKeys(t, s) => BASE \in Queue(t, s)
    BY DEF Queue, BaseQueued, Steps
  <2>. QED
    BY <1>1, <2>1 DEF Reached
<1>. QED
  BY <1>2, <1>3, <1>4

\* The flag, once everything is posted, of a task that asks for one.
LEMMA ReachedFlag ==
    ASSUME NEW t \in Task, NEW s \in ServerObject, NEW o,
           t.state \in Flags, ~t.check, HandledCase(t, s),
           Reached(t, s, Queue(t, s), o)
    PROVE  o.flag = t.state
<1>1. Enablable /\ CanonFlag(t) = t.state /\ ~RemovesObject(t)
  BY TaskAssumption DEF CanonFlag, RemovesObject, Flags
<1>2. REM \notin Queue(t, s)
  BY <1>1 DEF Queue, REM, BASE, ENABLE, Items
<1>3. o.flag = IF ENABLE \in Queue(t, s) THEN CanonFlag(t)
               ELSE IF BASE \in Queue(t, s) /\ IsAbsent(s) /\ Enablable
                    THEN "enabled" ELSE s.flag
  BY <1>2 DEF Reached
<1>4. CASE IsAbsent(s)
  <2>1. t.state = "enabled"
    BY <1>4 DEF HandledCase, Flags
  <2>2. ~s.exists /\ BASE \in Queue(t, s)
    BY <1>1, <1>4 DEF IsAbsent, Queue, BaseQueued, Steps
  <2>. QED
    BY <1>1, <1>3, <1>4, <2>1, <2>2
<1>5. CASE ~IsAbsent(s)
  <2>1. ENABLE \in Queue(t, s) <=> CanonFlag(t) # s.flag
    BY <1>1, <1>5 DEF Queue, EnableQueued, Steps, REM, BASE, ENABLE, Items
  <2>. QED
    BY <1>1, <1>3, <1>5, <2>1
<1>. QED
  BY <1>4, <1>5

\* Posting everything leaves what the task asks for.
LEMMA ReachedDesired ==
    ASSUME NEW t \in Task, NEW s \in ServerObject, NEW o,
           ~t.check, HandledCase(t, s), Reached(t, s, Queue(t, s), o)
    PROVE  Desired(t, o) /\ (RemovesObject(t) \/ o.exists)
<1>1. CASE RemovesObject(t)
  <2>1. CASE IsAbsent(s)
    <3>1. ~s.exists
      BY <1>1, <2>1 DEF HandledCase
    <3>2. Queue(t, s) = {}
      BY <1>1, <2>1 DEF Queue, RemQueued
    <3>3. ~o.exists
      BY <3>1, <3>2 DEF Reached
    <3>. QED
      BY <1>1, <3>3 DEF Desired, RemovesObject
  <2>2. CASE ~IsAbsent(s)
    <3>1. REM \in Queue(t, s)
      BY <1>1, <2>2 DEF Queue, RemQueued
    <3>2. ~o.exists
      BY <3>1 DEF Reached, NoObject
    <3>. QED
      BY <1>1, <3>2 DEF Desired, RemovesObject
  <2>. QED
    BY <2>1, <2>2
<1>2. CASE ~RemovesObject(t)
  <2>1. /\ o.exists
        /\ \A a \in ListAttr :
              o.list[a] = (s.list[a] \cup ListAdd(t, s, a)) \ ListDel(t, s, a)
        /\ \A k \in ScalarAttr :
              o.scalar[k] = IF k \in ScalarKeys(t, s) THEN ScalarTo(t, k)
                                                     ELSE s.scalar[k]
    BY <1>2, ReachedAll
  <2>2. CASE t.state = "absent"
    <3>1. \A a \in ListAttr : CanonList(t, a) \cap o.list[a] = {}
      BY <2>1, <2>2 DEF ListAdd, ListDel
    <3>2. \A k \in ScalarAttr :
             CanonScalar(t, k) \notin {None, Default[k]} =>
                o.scalar[k] # CanonScalar(t, k)
      BY <2>1, <2>2 DEF ScalarKeys, ScalarTo
    <3>. QED
      BY <1>2, <2>1, <2>2, <3>1, <3>2 DEF Desired
  <2>3. CASE t.state = "exact"
    <3>1. ASSUME NEW a \in ListAttr
          PROVE  CanonList(t, a) = o.list[a]
      <4>1. o.list[a] = (s.list[a] \cup (CanonList(t, a) \ s.list[a]))
                        \ (s.list[a] \ CanonList(t, a))
        BY <2>1, <2>3 DEF ListAdd, ListDel
      <4>. QED
        BY <4>1
    <3>2. \A k \in ScalarAttr : CanonScalar(t, k) = o.scalar[k]
      BY <2>1, <2>3 DEF ScalarKeys, ScalarTo
    <3>. QED
      BY <2>1, <2>3, <3>1, <3>2 DEF Desired
  <2>4. CASE t.state \in PresentLike
    <3>1. ListsPresent(t, o)
      BY <2>1, <2>4 DEF ListAdd, ListDel, PresentLike, ListsPresent
    <3>2. ScalarsPresent(t, o)
      BY <2>1, <2>4 DEF ScalarKeys, ScalarTo, PresentLike, ScalarsPresent
    <3>3. t.state \in Flags => o.flag = t.state
      BY ReachedFlag
    <3>. QED
      BY <2>1, <2>4, <3>1, <3>2, <3>3 DEF Desired, PresentLike
  <2>. QED
    BY <2>1, <2>2, <2>3, <2>4, ParamsType DEF States, PresentLike
<1>. QED
  BY <1>1, <1>2

\* An object that is as a task wants it leaves the task nothing to queue.
LEMMA DesiredIsQuiet ==
    ASSUME NEW t \in Task, NEW o, Desired(t, o), RepeatsNothing(t),
           RemovesObject(t) \/ o.exists
    PROVE  Queue(t, o) = {}
<1>1. CASE RemovesObject(t)
  BY <1>1 DEF Desired, RemovesObject, Queue, RemQueued, IsAbsent
<1>2. CASE ~RemovesObject(t)
  <2>1. \A a \in ListAttr : ListAdd(t, o, a) = {} /\ ListDel(t, o, a) = {}
    <3>1. CASE t.state = "absent"
      BY <1>2, <3>1 DEF Desired, ListAdd, ListDel
    <3>2. CASE t.state = "exact"
      BY <3>2 DEF Desired, ListAdd, ListDel
    <3>3. CASE t.state \in PresentLike
      BY <3>3 DEF Desired, ListsPresent, ListAdd, ListDel, PresentLike
    <3>. QED
      BY <3>1, <3>2, <3>3, ParamsType DEF States, PresentLike
  <2>2. ScalarKeys(t, o) = {}
    <3>1. CASE t.state = "absent"
      BY <1>2, <3>1 DEF Desired, ScalarKeys, RepeatsNothing
    <3>2. CASE t.state = "exact"
      BY <3>2 DEF Desired, ScalarKeys
    <3>3. CASE t.state \in PresentLike
      BY <3>3 DEF Desired, ScalarsPresent, ScalarKeys, PresentLike
    <3>. QED
      BY <3>1, <3>2, <3>3, ParamsType DEF States, PresentLike
  <2>3. \A i : ~ListsChange(i, t, o)
    BY <2>1, PartOfDiff DEF ListsChange
  <2>4. ~EnableQueued(t, o)
    BY DEF EnableQueued, CanonFlag, Desired, Flags
  <2>. QED
    BY <1>2, <2>2, <2>3, <2>4 DEF Queue, BaseQueued, ItemQueued
<1>. QED
  BY <1>1, <1>2

\* The object after a successful run that nobody disturbed.
LEMMA DoneReached ==
    ASSUME TypeOK, OwnInv, NEW c \in Client, Succeeded(c), c \in undisturbed,
           HandledCase(task[c], run[c].seen)
    PROVE  /\ Desired(task[c], obj)
           /\ RemovesObject(task[c]) \/ obj.exists
<1>1. task[c] \in Task /\ run[c].todo = {} /\ ~task[c].check
  BY DEF TypeOK, Succeeded
<1>2. /\ run[c].seen \in ServerObject
      /\ Reached(task[c], run[c].seen, Posted(c), obj)
  BY DEF OwnInv, OwnOf, Succeeded
<1>3. Posted(c) = Queue(task[c], run[c].seen)
  BY <1>1 DEF Posted
<1>. QED
  BY <1>1, <1>2, <1>3, ReachedDesired

\* exit_json is reached with the object as the task asks for: one find, the
\* difference, and each request posted once, in the cases the code handles.
THEOREM DoneIsDesired == Spec => []DoneMeansDesired
<1>1. TypeOK /\ OwnInv => DoneMeansDesired
  BY DoneReached DEF DoneMeansDesired
<1>. QED
  BY TypeCorrect, OwnInvariant, <1>1, PTL

\* The client is idempotent: a second run finds nothing to change, unless it
\* "removes" a scalar by setting it to the value it has (RepeatsNothing).
THEOREM SecondIsQuiet == Spec => []SecondRunIsQuiet
<1>1. TypeOK /\ OwnInv => SecondRunIsQuiet
  <2>. SUFFICES ASSUME TypeOK, OwnInv, NEW c \in Client,
                       Succeeded(c), c \in undisturbed,
                       HandledCase(task[c], run[c].seen), RepeatsNothing(task[c])
                PROVE  Queue(task[c], obj) = {}
    BY DEF SecondRunIsQuiet
  <2>1. task[c] \in Task
    BY DEF TypeOK
  <2>. QED
    BY <2>1, DoneReached, DesiredIsQuiet
<1>. QED
  BY TypeCorrect, OwnInvariant, <1>1, PTL

-----------------------------------------------------------------------------
(* Check mode.                                                             *)

\* In check mode a run has said `changed`, or has an entry left to say it for,
\* exactly if a real run would have queued anything.
CheckInv ==
    \A c \in Client :
        /\ run[c].pc \in {"process", "done"}
        /\ task[c].check
        /\ Announcing(task[c])
        => (run[c].changed \/ run[c].todo # {}) =
               (RealQueue(task[c], run[c].seen) # {})

\* What queue_requests() leaves out of the queue in check mode it has announced.
LEMMA FindPredicts ==
    ASSUME NEW t \in Task, NEW o, t.check, Announcing(t)
    PROVE  (Announced(t, o) \/ Queue(t, o) # {}) = (RealQueue(t, o) # {})
<1>. DEFINE u == [t EXCEPT !.check = FALSE]
<1>1. /\ u.state = t.state /\ u.list = t.list /\ u.scalar = t.scalar
      /\ u.check = FALSE
  BY TaskAssumption DEF Params
<1>2. /\ \A i : Adds(i, u, o) = Adds(i, t, o) /\ Dels(i, u, o) = Dels(i, t, o)
      /\ ScalarKeys(u, o) = ScalarKeys(t, o)
  <2>. HIDE DEF u
  <2>. QED
    BY <1>1 DEF Adds, Dels, ListAdd, ListDel, CanonList, ScalarKeys, CanonScalar
<1>3. RemovesObject(u) <=> RemovesObject(t)
  <2>. HIDE DEF u
  <2>. QED
    BY <1>1 DEF RemovesObject, IsRemParamRequest, CanonList, CanonScalar, CanonFlag
<1>4. \A i : ListsChange(i, u, o) <=> ListsChange(i, t, o)
  <2>. HIDE DEF u
  <2>. QED
    BY <1>2 DEF ListsChange
<1>5. BaseQueued(u, o) <=> BaseQueued(t, o)
  <2>. HIDE DEF u
  <2>. QED
    BY <1>2, <1>4 DEF BaseQueued
<1>6. ~RemovesObject(t) /\ t.state \notin Flags
  BY DEF Announcing
<1>7. BASE \in Steps /\ Items \subseteq Steps
  BY DEF Steps
<1>8. RealQueue(t, o) # {} <=>
        BaseQueued(t, o) \/ \E i \in Items : ListsChange(i, t, o)
  <2>1. RealQueue(t, o) = {i \in Steps : \/ i = BASE /\ BaseQueued(u, o)
                                         \/ i = ENABLE /\ EnableQueued(u, o)
                                         \/ i \in Items /\ ItemQueued(i, u, o)}
    BY <1>3, <1>6 DEF RealQueue, Queue
  <2>2. ~EnableQueued(u, o)
    <3>. HIDE DEF u
    <3>. QED
      BY <1>1, <1>6 DEF EnableQueued
  <2>3. \A i : ItemQueued(i, u, o) <=> ListsChange(i, t, o)
    <3>. HIDE DEF u
    <3>. QED
      BY <1>1, <1>4 DEF ItemQueued
  <2>. HIDE DEF u
  <2>. QED
    BY <1>5, <1>7, <2>1, <2>2, <2>3
<1>9. Queue(t, o) # {} <=> BaseQueued(t, o)
  BY <1>6, <1>7 DEF Queue, EnableQueued, ItemQueued
<1>10. Announced(t, o) <=> \E i \in Items : ListsChange(i, t, o)
  BY <1>6 DEF Announced, Announcing
<1>. QED
  BY <1>8, <1>9, <1>10

\* A client whose run a step leaves alone, or which only leaves "process".
LEMMA SameCheck ==
    ASSUME TypeOK, CheckInv, NEW c \in Client, task' = task,
           run'[c].todo = run[c].todo, run'[c].seen = run[c].seen,
           run'[c].changed = run[c].changed,
           run'[c].pc \in {"process", "done"} => run[c].pc \in {"process", "done"},
           run'[c].pc \in {"process", "done"}, task[c].check, Announcing(task[c])
    PROVE  (run'[c].changed \/ run'[c].todo # {}) =
               (RealQueue(task[c], run'[c].seen) # {})
  BY DEF CheckInv

\* A task in check mode tells whether it would change anything, for the classes
\* that set `changed` before they look at check mode.
THEOREM CheckPredicts == Spec => []CheckModePredicts
<1>1. Init => CheckInv
  BY DEF Init, CheckInv, NewRun
<1>2. TypeOK /\ CheckInv /\ [Next]_vars => CheckInv'
  <2>1. ASSUME TypeOK, CheckInv, [Next]_vars, NEW c \in Client,
               run'[c].pc \in {"process", "done"}, task[c].check,
               Announcing(task[c])
        PROVE  (run'[c].changed \/ run'[c].todo # {}) =
                   (RealQueue(task[c], run'[c].seen) # {})
    <3>1. task' = task
      BY <2>1, RunsGrow
    <3>2. CASE run'[c] = run[c]
      BY <2>1, <3>1, <3>2, SameCheck
    <3>3. CASE Login(c) \/ Reject(c) \/ Exit(c) \/ Timeout(c) \/ Fail(c)
      <4>1. /\ run'[c].seen = run[c].seen /\ run'[c].todo = run[c].todo
            /\ run'[c].changed = run[c].changed
            /\ run'[c].pc \in {"process", "done"} => run[c].pc = "process"
        BY <2>1, <3>3 DEF Login, Reject, Exit, Timeout, Fail, TypeOK, Run
      <4>. QED
        BY <2>1, <3>1, <4>1, SameCheck
    <3>4. CASE Find(c)
      <4>1. /\ run'[c].todo = Queue(task[c], obj) /\ run'[c].seen = obj
            /\ run'[c].changed = Announced(task[c], obj)
        BY <2>1, <3>4 DEF Find, TypeOK
      <4>2. task[c] \in Task
        BY <2>1 DEF TypeOK
      <4>. QED
        BY <2>1, <4>1, <4>2, FindPredicts
    <3>5. CASE Simulate(c)
      <4>1. PICK i \in run[c].todo :
              /\ AtEntry(c, i)
              /\ run' = [run EXCEPT ![c].todo = @ \ {i}, ![c].changed = TRUE]
        BY <3>5 DEF Simulate
      <4>2. /\ run[c].pc = "process" /\ run'[c].seen = run[c].seen
            /\ run'[c].changed = TRUE
        BY <2>1, <4>1 DEF AtEntry, TypeOK, Run
      <4>3. RealQueue(task[c], run[c].seen) # {}
        BY <2>1, <4>1, <4>2 DEF CheckInv
      <4>. QED
        BY <4>2, <4>3
    <3>6. ~Post(c)
      BY <2>1 DEF Post
    <3>7. ~Start(c)
      BY <2>1 DEF Start, TypeOK, NewRun
    <3>8. ASSUME NEW d \in Client, d # c,
                 Start(d) \/ Module(d) \/ Timeout(d) \/ Fail(d)
          PROVE  run'[c] = run[c]
      BY <2>1, <3>8 DEF TypeOK, Start, Module, Login, Find, Post, Simulate,
                        Reject, Exit, Timeout, Fail
    <3>9. ASSUME NEW req \in late, LateApply(req) \/ LateDrop(req)
          PROVE  run'[c] = run[c]
      BY <3>9 DEF LateApply, LateDrop
    <3>10. UNCHANGED vars => run'[c] = run[c]
      BY DEF vars
    <3>. QED
      BY <2>1, <3>2, <3>3, <3>4, <3>5, <3>6, <3>7, <3>8, <3>9, <3>10
         DEF Next, Module
  <2>. SUFFICES ASSUME TypeOK, CheckInv, [Next]_vars
                PROVE  CheckInv'
    OBVIOUS
  <2>2. task' = task
    BY RunsGrow
  <2>3. ASSUME NEW c \in Client, run'[c].pc \in {"process", "done"},
               task'[c].check, Announcing(task'[c])
        PROVE  (run'[c].changed \/ run'[c].todo # {}) =
                   (RealQueue(task'[c], run'[c].seen) # {})
    BY <2>1, <2>2, <2>3
  <2>4. \A c \in Client : Announcing(task[c])' = Announcing(task'[c])
    OBVIOUS
  <2>. QED
    BY <2>3, <2>4 DEF CheckInv
<1>3. TypeOK /\ CheckInv => CheckModePredicts
  <2>. SUFFICES ASSUME TypeOK, CheckInv, NEW c \in Client, run[c].pc = "done",
                       task[c].check, Announcing(task[c])
                PROVE  run[c].changed = (RealQueue(task[c], run[c].seen) # {})
    BY DEF CheckModePredicts
  <2>1. run[c].todo = {} /\ run[c].changed \in BOOLEAN
    BY StepType DEF TypeOK
  <2>2. (run[c].changed \/ run[c].todo # {}) =
            (RealQueue(task[c], run[c].seen) # {})
    BY DEF CheckInv
  <2>. QED
    BY <2>1, <2>2
<1>. QED
  BY TypeCorrect, <1>1, <1>2, <1>3, PTL DEF Spec
=============================================================================
