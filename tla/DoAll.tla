------------------------------- MODULE DoAll -------------------------------
(***************************************************************************)
(* Parallel loops of the Galois library on the harts of the PREP backend.  *)
(*                                                                         *)
(* A blocking loop makes a WaitGroup, creates one task per item, waits     *)
(* until the counter of the WaitGroup is zero and frees it.  The           *)
(* non-blocking form takes the handle of an existing WaitGroup, so that    *)
(* tasks created by tasks are waited for by the outermost loop.  Tasks are *)
(* queued at a core; the harts of a core are fibres of one thread that     *)
(* take tasks from its queue, or from that of the neighbouring core, and   *)
(* change places only where they yield.                                    *)
(*                                                                         *)
(* A task is named by the path to it: <<>> is the CP of node 0, <<i>> the  *)
(* task for item i of the loop that it runs, <<i, j>> the one for item j   *)
(* of the loop in the body of <<i>>.  A loop has the name of its caller.   *)
(*                                                                         *)
(* An idle hart is not represented: it dequeues, fails and yields, which   *)
(* changes nothing.  A hart that runs a task is represented by the task.   *)
(***************************************************************************)
EXTENDS Integers, FiniteSets, Sequences, SequencesExt

CONSTANTS
  NodeCount,       \* getPlaceDims().node.id
  CoreCount,       \* cores of a node
  HartCount,       \* harts of a core
  StealThreshold,  \* STEAL_THRESH_HOLD_SIZE
  OuterSize,       \* items of the loop of the CP
  InnerSize,       \* items of a loop in the body of a task
  Blocking,        \* items whose body may call a blocking loop
  Spawning,        \* items whose body may call a loop with the handle given
  DeltaModulus,    \* 2^32: add takes a std::uint32_t
  Freed            \* the counter of a WaitGroup that does not exist

ASSUME DimsAssumption ==
  /\ {NodeCount, CoreCount, HartCount, OuterSize, InnerSize} \subseteq Nat \ {0}
  /\ StealThreshold \in Nat
  /\ Freed \notin Int

\* The size of a range is a 64-bit number, and the code does not check that it
\* fits; a loop of DeltaModulus items would count none of them.
ASSUME DeltaAssumption ==
  DeltaModulus \in Nat /\ OuterSize < DeltaModulus /\ InnerSize < DeltaModulus

\* A task that waits keeps its hart, and all of them may be at one core.
ASSUME HartsAssumption ==
  /\ Blocking \cup Spawning \subseteq 0 .. OuterSize - 1
  /\ Cardinality(Blocking) < HartCount

Node == 0 .. NodeCount - 1
Core == Node \X (0 .. CoreCount - 1)
CP == <<>>
OuterTask == {<<i>> : i \in 0 .. OuterSize - 1}
InnerTask == {<<i, j>> : i \in 0 .. OuterSize - 1, j \in 0 .. InnerSize - 1}
Task == OuterTask \cup InnerTask
Caller == {CP} \cup OuterTask
Nowhere == <<-1, -1>>

VARIABLES
  variant,   \* the CP calls doAll ("range") or doAllEvenlyPartition ("even")
  tooLarge,  \* levels of loops whose tasks do not fit a request
  pc,        \* what the CP and each task are doing
  at,        \* the core a task is meant for, queued at or running on
  body,      \* what the body of an outer task does
  iter,      \* next item of a caller's loop
  count,     \* counter of the WaitGroup made by a caller
  status,    \* what the wait of a caller's loop returned
  mutex,     \* holder of a mutex in the memory of each node
  grab       \* a hart of the core has seen work in its neighbour's queue

vars == <<variant, tooLarge, pc, at, body, iter, count, status, mutex, grab>>

(***************************************************************************)
(* Places.                                                                 *)
(***************************************************************************)
NodeOf(a) == IF a = CP THEN 0 ELSE at[a][1]
Size(a) == IF a = CP THEN OuterSize ELSE InnerSize
Child(a, j) == Append(a, j)

\* localityOf(curr): the element of the range is spread over the nodes.
LocalityOf(t) == Last(t) % NodeCount

\* doAllEvenlyPartition: items are dealt to the nodes in blocks.
AssignedHost(i) ==
  LET workPerHost == OuterSize \div NodeCount
      host == CASE workPerHost > 0 -> i \div workPerHost
                [] workPerHost = 0 /\ NodeCount % OuterSize = 0 ->
                     i * (NodeCount \div OuterSize)
                [] OTHER -> i
  IN  IF host >= NodeCount THEN NodeCount - 1 ELSE host

Even(a) == a = CP /\ variant = "even"

\* Mutant: the stripe runs past the last core.
MutantPlaces(t) ==
  IF Even(Front(t))
    THEN {<<AssignedHost(t[1]), t[1] + 1>>}
    ELSE {<<LocalityOf(t), k>> : k \in 0 .. CoreCount - 1}

\* schedulerImpl: RANDOM for ranges, CORE_STRIPE for the even partition.
Places(t) ==
  IF Even(Front(t))
    THEN {<<AssignedHost(t[1]), (t[1] + 1) % CoreCount>>}
    ELSE {<<LocalityOf(t), k>> : k \in 0 .. CoreCount - 1}

(***************************************************************************)
(* WaitGroups.  The group of a loop is its caller's own if the loop is     *)
(* blocking, otherwise the one the caller was given.  The counter is in    *)
(* the memory of the node that made the group.                             *)
(***************************************************************************)
Group(a) == IF a = CP \/ body[a] = "block" THEN a ELSE CP
GroupOf(t) == Group(Front(t))
Home(w) == NodeOf(w)

(***************************************************************************)
(* Harts.  A fibre leaves its core only in the states in which it yields.  *)
(***************************************************************************)
Queue(c) == {t \in Task : pc[t] = "queued" /\ at[t] = c}

Yielding == {"add", "added", "undoing", "undone", "wait", "decrement", "decremented"}
\* Mutant: a fibre yields within its critical section.
MutantOnCore == {"invoke", "create", "undo", "check", "done"}

OnCore == {"invoke", "create", "undo", "check", "critical", "done"}
Running(c) ==
  {t \in Task : at[t] = c /\ pc[t] \in Yielding \cup OnCore}

\* No fibre of the core, other than those of S, is between two yields.
CoreFree(c, S) == ~grab[c] /\ \A t \in Running(c) \ S : pc[t] \notin OnCore
HartFree(c) == CoreFree(c, {}) /\ Cardinality(Running(c)) < HartCount
Neighbour(c) == <<c[1], (c[2] + 1) % CoreCount>>

\* The fibre has its core, or gets it.  The CP is a thread of its own.
HasCore(a) == a # CP => CoreFree(at[a], {a})

Init ==
  /\ variant \in {"range", "even"}
  /\ tooLarge \in SUBSET {0, 1}
  /\ pc = [a \in {CP} \cup Task |-> IF a = CP THEN "invoke" ELSE "none"]
  /\ at = [t \in Task |-> Nowhere]
  /\ body = [t \in OuterTask |-> "none"]
  /\ iter = [a \in Caller |-> 0]
  /\ count = [a \in Caller |-> Freed]
  /\ status = [a \in Caller |-> "none"]
  /\ mutex = [n \in Node |-> CP]
  /\ grab = [c \in Core |-> FALSE]

(***************************************************************************)
(* The hart loop.  STEAL reads the size of the neighbour's queue, and      *)
(* dequeues only afterwards.                                               *)
(***************************************************************************)
tryDequeue(t) ==
  /\ pc[t] = "queued"
  /\ HartFree(at[t])
  /\ pc' = [pc EXCEPT ![t] = "invoke"]
  /\ UNCHANGED <<variant, tooLarge, at, body, iter, count, status, mutex, grab>>

workStealing(c) ==
  /\ HartFree(c)
  /\ Queue(c) = {}
  /\ Cardinality(Queue(Neighbour(c))) > StealThreshold
  /\ grab' = [grab EXCEPT ![c] = TRUE]
  /\ UNCHANGED <<variant, tooLarge, pc, at, body, iter, count, status, mutex>>

stealTask(c) ==
  /\ grab[c]
  /\ \/ \E t \in Queue(Neighbour(c)) :
          /\ pc' = [pc EXCEPT ![t] = "invoke"]
          /\ at' = [at EXCEPT ![t] = c]
     \/ Queue(Neighbour(c)) = {} /\ UNCHANGED <<pc, at>>
  /\ grab' = [grab EXCEPT ![c] = FALSE]
  /\ UNCHANGED <<variant, tooLarge, body, iter, count, status, mutex>>

\* The request of a remote executeOn arrives.
handleRequest(t) ==
  /\ pc[t] = "sent"
  /\ pc' = [pc EXCEPT ![t] = "queued"]
  /\ UNCHANGED <<variant, tooLarge, at, body, iter, count, status, mutex, grab>>

(***************************************************************************)
(* Bodies.  A body works under a mutex of its node, or calls a blocking    *)
(* loop, or a loop with the handle it was given.                           *)
(***************************************************************************)
\* Mutex::lock spins without yielding, so the fibre stays on its core.
lock(t) ==
  /\ pc[t] = "invoke"
  /\ mutex[NodeOf(t)] = CP
  /\ mutex' = [mutex EXCEPT ![NodeOf(t)] = t]
  /\ pc' = [pc EXCEPT ![t] = "critical"]
  /\ UNCHANGED <<variant, tooLarge, at, body, iter, count, status, grab>>

unlock(t) ==
  /\ pc[t] = "critical"
  /\ HasCore(t)
  /\ mutex' = [mutex EXCEPT ![NodeOf(t)] = CP]
  /\ pc' = [pc EXCEPT ![t] = "done"]
  /\ UNCHANGED <<variant, tooLarge, at, body, iter, count, status, grab>>

\* Where a caller goes on when its loop is over.
AfterLoop(a) == IF a = CP THEN "over" ELSE "done"

\* What add(size) adds: the parameter is narrower than the size of a range.
Delta(n) == n % DeltaModulus

\* A blocking doAll: initialize(0), and add(size) unless it counts one by one.
doAllBlocking(a) ==
  /\ pc[a] = "invoke"
  /\ a # CP => a[1] \in Blocking
  /\ body' = IF a = CP THEN body ELSE [body EXCEPT ![a] = "block"]
  /\ count' = [count EXCEPT ![a] = IF Even(a) THEN 0 ELSE Delta(Size(a))]
  /\ pc' = [pc EXCEPT ![a] = "create"]
  /\ UNCHANGED <<variant, tooLarge, at, iter, status, mutex, grab>>

\* The counter cannot be allocated: the loop returns at once.
initializeFails(a) ==
  /\ pc[a] = "invoke"
  /\ a # CP => a[1] \in Blocking
  /\ pc' = [pc EXCEPT ![a] = AfterLoop(a)]
  /\ status' = [status EXCEPT ![a] = "BadAlloc"]
  /\ UNCHANGED <<variant, tooLarge, at, body, iter, count, mutex, grab>>

\* Mutant: the items of the inner loop are never added.
MutantDoAll(t) ==
  /\ pc[t] = "invoke"
  /\ t[1] \in Spawning
  /\ body' = [body EXCEPT ![t] = "spawn"]
  /\ pc' = [pc EXCEPT ![t] = "create"]
  /\ UNCHANGED <<variant, tooLarge, at, iter, count, status, mutex, grab>>

\* doAll with a handle: add(size) comes before the first task.
doAll(t) ==
  /\ pc[t] = "invoke"
  /\ t[1] \in Spawning
  /\ body' = [body EXCEPT ![t] = "spawn"]
  /\ \/ /\ NodeOf(t) = Home(CP)
        /\ count' = [count EXCEPT ![CP] = @ + Delta(InnerSize)]
        /\ pc' = [pc EXCEPT ![t] = "create"]
     \/ /\ NodeOf(t) # Home(CP)
        /\ pc' = [pc EXCEPT ![t] = "add"]
        /\ UNCHANGED count
  /\ UNCHANGED <<variant, tooLarge, at, iter, status, mutex, grab>>

\* The remote add is applied; the fibre goes on when it gets its core.
handleAdd(t) ==
  /\ pc[t] = "add"
  /\ count' = [count EXCEPT ![CP] = @ + Delta(InnerSize)]
  /\ pc' = [pc EXCEPT ![t] = "added"]
  /\ UNCHANGED <<variant, tooLarge, at, body, iter, status, mutex, grab>>

resumeAdd(t) ==
  /\ pc[t] = "added"
  /\ HasCore(t)
  /\ pc' = [pc EXCEPT ![t] = "create"]
  /\ UNCHANGED <<variant, tooLarge, at, body, iter, count, status, mutex, grab>>

\* Where a caller goes on when it has created its tasks, or gives up.
Created(a) == IF Group(a) = a THEN "wait" ELSE "done"

(***************************************************************************)
(* executeOn for the next item.  A request that is too large cannot be     *)
(* sent; a task for the caller's own node always can be created.  In the   *)
(* even partition addOne precedes each executeOn, and done follows if it   *)
(* fails, which leaves the counter as it was.                              *)
(***************************************************************************)
executeOn(a) ==
  LET t == Child(a, iter[a])
      more == iter[a] + 1 < Size(a)
  IN
  /\ pc[a] = "create"
  /\ \E place \in Places(t) :
       LET local == place[1] = NodeOf(a) IN
       \/ /\ local \/ Len(a) \notin tooLarge
          /\ pc' = [pc EXCEPT ![t] = IF local THEN "queued" ELSE "sent",
                              ![a] = IF more THEN "create" ELSE Created(a)]
          /\ at' = [at EXCEPT ![t] = place]
          /\ iter' = [iter EXCEPT ![a] = @ + 1]
          /\ count' = IF Even(a) THEN [count EXCEPT ![a] = @ + 1] ELSE count
       \/ /\ ~local /\ Len(a) \in tooLarge
          /\ pc' = [pc EXCEPT ![a] = IF Even(a) THEN "wait" ELSE "undo"]
          /\ UNCHANGED <<at, iter, count>>
  /\ UNCHANGED <<variant, tooLarge, body, status, mutex, grab>>

\* After a failure: done() for the item that failed and for each one after it.
undo(a) ==
  LET w == Group(a) IN
  /\ pc[a] = "undo"
  /\ \/ /\ iter[a] = Size(a)
        /\ pc' = [pc EXCEPT ![a] = Created(a)]
        /\ UNCHANGED <<iter, count>>
     \/ /\ iter[a] < Size(a) /\ NodeOf(a) = Home(w)
        /\ count' = [count EXCEPT ![w] = @ - 1]
        /\ iter' = [iter EXCEPT ![a] = @ + 1]
        /\ UNCHANGED pc
     \/ /\ iter[a] < Size(a) /\ NodeOf(a) # Home(w)
        /\ pc' = [pc EXCEPT ![a] = "undoing"]
        /\ UNCHANGED <<iter, count>>
  /\ UNCHANGED <<variant, tooLarge, at, body, status, mutex, grab>>

handleUndo(t) ==
  /\ pc[t] = "undoing"
  /\ count' = [count EXCEPT ![GroupOf(t)] = @ - 1]
  /\ iter' = [iter EXCEPT ![t] = @ + 1]
  /\ pc' = [pc EXCEPT ![t] = "undone"]
  /\ UNCHANGED <<variant, tooLarge, at, body, status, mutex, grab>>

resumeUndo(t) ==
  /\ pc[t] = "undone"
  /\ HasCore(t)
  /\ pc' = [pc EXCEPT ![t] = "undo"]
  /\ UNCHANGED <<variant, tooLarge, at, body, iter, count, status, mutex, grab>>

(***************************************************************************)
(* WaitGroup::wait: yield until the counter is zero, then read it again    *)
(* for the status; deinitialize.  The status of the creation is dropped.   *)
(***************************************************************************)
\* Mutant: the last task is not waited for.
MutantWait(a) ==
  /\ pc[a] = "wait"
  /\ HasCore(a)
  /\ count[a] <= 1
  /\ pc' = [pc EXCEPT ![a] = "check"]
  /\ UNCHANGED <<variant, tooLarge, at, body, iter, count, status, mutex, grab>>

wait(a) ==
  /\ pc[a] = "wait"
  /\ HasCore(a)
  /\ count[a] = 0
  /\ pc' = [pc EXCEPT ![a] = "check"]
  /\ UNCHANGED <<variant, tooLarge, at, body, iter, count, status, mutex, grab>>

deinitialize(a) ==
  /\ pc[a] = "check"
  /\ status' = [status EXCEPT ![a] = IF count[a] < 0 THEN "Error" ELSE "Success"]
  /\ count' = [count EXCEPT ![a] = Freed]
  /\ pc' = [pc EXCEPT ![a] = AfterLoop(a)]
  /\ UNCHANGED <<variant, tooLarge, at, body, iter, mutex, grab>>

(***************************************************************************)
(* notifyFunc: the body is over, wgh.done() and the end of the task.       *)
(***************************************************************************)
done(t) ==
  /\ pc[t] = "done"
  /\ \/ /\ NodeOf(t) = Home(GroupOf(t))
        /\ count' = [count EXCEPT ![GroupOf(t)] = @ - 1]
        /\ pc' = [pc EXCEPT ![t] = "over"]
        /\ at' = [at EXCEPT ![t] = Nowhere]
     \/ /\ NodeOf(t) # Home(GroupOf(t))
        /\ pc' = [pc EXCEPT ![t] = "decrement"]
        /\ UNCHANGED <<at, count>>
  /\ UNCHANGED <<variant, tooLarge, body, iter, status, mutex, grab>>

handleDecrement(t) ==
  /\ pc[t] = "decrement"
  /\ count' = [count EXCEPT ![GroupOf(t)] = @ - 1]
  /\ pc' = [pc EXCEPT ![t] = "decremented"]
  /\ UNCHANGED <<variant, tooLarge, at, body, iter, status, mutex, grab>>

\* Mutant: the decrement is repeated when its reply comes.
MutantResumeDone(t) ==
  /\ pc[t] = "decremented"
  /\ HasCore(t)
  /\ count' = [count EXCEPT ![GroupOf(t)] = @ - 1]
  /\ pc' = [pc EXCEPT ![t] = "over"]
  /\ at' = [at EXCEPT ![t] = Nowhere]
  /\ UNCHANGED <<variant, tooLarge, body, iter, status, mutex, grab>>

resumeDone(t) ==
  /\ pc[t] = "decremented"
  /\ HasCore(t)
  /\ pc' = [pc EXCEPT ![t] = "over"]
  /\ at' = [at EXCEPT ![t] = Nowhere]
  /\ UNCHANGED <<variant, tooLarge, body, iter, count, status, mutex, grab>>

\* Everything has returned; the harts go on looking for work.
idle ==
  /\ pc[CP] = "over"
  /\ \A t \in Task : pc[t] \in {"none", "over"}
  /\ UNCHANGED vars

CallerStep(a) ==
  \/ doAllBlocking(a) \/ initializeFails(a) \/ executeOn(a)
  \/ undo(a) \/ wait(a) \/ deinitialize(a)

TaskStep(t) ==
  \/ handleRequest(t) \/ tryDequeue(t) \/ lock(t) \/ unlock(t)
  \/ done(t) \/ handleDecrement(t) \/ resumeDone(t)

OuterStep(t) ==
  \/ doAll(t) \/ handleAdd(t) \/ resumeAdd(t) \/ handleUndo(t) \/ resumeUndo(t)

Next ==
  \/ \E a \in Caller : CallerStep(a)
  \/ \E t \in Task : TaskStep(t)
  \/ \E t \in OuterTask : OuterStep(t)
  \/ \E c \in Core : workStealing(c) \/ stealTask(c)
  \/ idle

Spec == Init /\ [][Next]_vars

\* Fibres that yield queue up for their core, and handlers run in a thread of
\* their own.  No hart is obliged to look at its neighbour's queue.
Fairness ==
  /\ WF_vars(CallerStep(CP))
  /\ \A t \in OuterTask : WF_vars(CallerStep(t) \/ TaskStep(t) \/ OuterStep(t))
  /\ \A t \in InnerTask : WF_vars(TaskStep(t))
  /\ \A c \in Core : WF_vars(stealTask(c))

FairSpec == Spec /\ Fairness

-----------------------------------------------------------------------------
(***************************************************************************)
(* Properties.                                                             *)
(***************************************************************************)
PcOfTask == {"none", "sent", "queued", "over"} \cup Yielding \cup OnCore

TypeOK ==
  /\ variant \in {"range", "even"} /\ tooLarge \subseteq {0, 1}
  /\ pc \in [{CP} \cup Task -> PcOfTask]
  /\ at \in [Task -> Core \cup {Nowhere}]
  /\ body \in [OuterTask -> {"none", "block", "spawn"}]
  /\ \A a \in Caller : iter[a] \in 0 .. Size(a)
  /\ count \in [Caller -> Int \cup {Freed}]
  /\ status \in [Caller -> {"none", "Success", "Error", "BadAlloc"}]
  /\ mutex \in [Node -> {CP} \cup Task]
  /\ grab \in [Core -> BOOLEAN]

\* The counter of a group still stands for this task: it exists and has not
\* been subtracted, or it will be created or given up by its caller.
Owed(t) ==
  LET a == Front(t) IN
  \/ pc[t] \in {"sent", "queued"} \cup OnCore \cup (Yielding \ {"decremented"})
  \/ /\ pc[t] = "none" /\ ~Even(a)
     /\ pc[a] \in {"added", "create", "undo", "undoing", "undone"}
     /\ Last(t) >= iter[a]

\* The counter of a WaitGroup is at every moment the number of tasks it still
\* stands for, however add and done of several nodes interleave and also while
\* a failed doAll gives items back (do_all.hpp: add before the first task, done
\* once for each item).
CountExact ==
  \A a \in Caller :
    count[a] # Freed =>
      count[a] = Cardinality({t \in Task : GroupOf(t) = a /\ Owed(t)})

\* Nobody uses the counter of a WaitGroup that has been freed: while a task has
\* its done (or the add of a loop in its body) before it, the group exists.
GroupLives == \A t \in Task : Owed(t) => count[GroupOf(t)] # Freed

(***************************************************************************)
(* The WaitGroup of caller a as an abstract group.                         *)
(***************************************************************************)
Waiting(a) ==
  CASE Group(a) = a /\ pc[a] \in {"create", "undo"} -> "open"
    [] Group(a) = a /\ pc[a] = "wait" -> "join"
    [] OTHER -> "away"
Alive(a) == {t \in Task : pc[t] # "none" /\ GroupOf(t) = a /\ Owed(t)}

Loop(a) == INSTANCE ForkJoin WITH caller <- Waiting(a), alive <- Alive(a)

\* Every loop, nested or not, is a fork and join of its tasks, with the counter of
\* its WaitGroup on any node: the caller passes its wait (wait_group.hpp:120) only
\* when the tasks added by it and by other tasks are over, and none comes later.
LoopsJoin ==
  /\ \A a \in Caller : Loop(a)!Init
  /\ [][\A a \in Caller : [Loop(a)!Next]_(Loop(a)!vars)]_vars

\* The node of a task and of its caller; a task that executeOn refused, or
\* that comes after one that was refused, is not created.
PlaceNode(a) == IF a = CP THEN 0 ELSE (CHOOSE p \in Places(a) : TRUE)[1]
Refused(t) ==
  LET a == Front(t) IN
  /\ Len(a) \in tooLarge
  /\ \E k \in 0 .. Last(t) : PlaceNode(Child(a, k)) # PlaceNode(a)

\* When a blocking loop returns, its tasks and those created with its handle
\* have run and have said so, except for the ones that could not be created;
\* it reports success in either case.
LoopOver ==
  \A a \in Caller : status[a] \in {"Success", "Error"} =>
    /\ status[a] = "Success"
    /\ \A t \in Task :
         LET calls == Front(t) = CP \/ body[Front(t)] # "none" IN
         GroupOf(t) = a /\ calls =>
           IF Refused(t) THEN pc[t] = "none" ELSE pc[t] \in {"decremented", "over"}

\* The blocking loop of the CP returns, and with it every loop in it: waits
\* yield, critical sections do not, and one hart of each core is never blocked.
LoopReturns == <>(pc[CP] = "over")
=============================================================================
