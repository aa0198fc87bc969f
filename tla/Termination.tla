----------------------------- MODULE Termination -----------------------------
(***************************************************************************)
(* Tasks, remote task requests and termination detection in the PREP       *)
(* backend of the PANDO runtime.                                           *)
(*                                                                         *)
(* Every node (PXN) is a process with one command processor (CP), which    *)
(* runs pandoMain, and a number of harts, which run tasks.  A task is      *)
(* created with executeOn or executeOnWait by a CP or by another task.  If *)
(* the target is the caller's own node the caller counts the task and      *)
(* enqueues it; if not, the caller only sends an active message, and it is *)
(* the handler of that message, on the target node, that counts and        *)
(* enqueues the task.  waitAll is the collective operation that returns    *)
(* when the counters say that no task is left.                             *)
(*                                                                         *)
(* The CP of a node is represented by the node itself, so the callers of   *)
(* executeOn are Node \cup Task.  Which calls the program makes is a       *)
(* parameter: four relations between the caller's node and the target.     *)
(***************************************************************************)
EXTENDS Integers, FiniteSets

CONSTANTS
  Node,          \* the PXNs
  Task,          \* the tasks the program may create
  HartCount,     \* harts of a node, over all its cores
  WaitAllCalls,  \* number of times pandoMain calls waitAll on every node
  CpAsync,       \* <<n, m>>: the CP of n may call executeOn for node m
  CpWait,        \* <<n, m>>: the CP of n may call executeOnWait for node m
  TaskAsync,     \* <<n, m>>: a task on n may call executeOn for node m
  TaskWait       \* <<n, m>>: a task on n may call executeOnWait for node m

ASSUME NodeAssumption == Node # {} /\ IsFiniteSet(Node)
ASSUME TaskAssumption == IsFiniteSet(Task) /\ Task \cap Node = {}
ASSUME CountAssumption == HartCount \in Nat /\ WaitAllCalls \in Nat
ASSUME CallAssumption ==
  /\ CpAsync \subseteq Node \X Node
  /\ CpWait \subseteq Node \X Node
  /\ TaskAsync \subseteq Node \X Node
  /\ TaskWait \subseteq Node \X Node

(***************************************************************************)
(* Two disciplines under which programs are studied.  A local program      *)
(* never creates a task on another node (every single-PXN program).  In a  *)
(* structured program a task waits for every task it creates, wherever it  *)
(* runs, and a CP calls executeOn for its own node only.                   *)
(***************************************************************************)
LocalProgram ==
  \A c \in CpAsync \cup CpWait \cup TaskAsync \cup TaskWait : c[1] = c[2]

StructuredProgram == TaskAsync = {} /\ \A c \in CpAsync : c[1] = c[2]

Caller == Node \cup Task

VARIABLES
  status,          \* where each task is in its life
  home,            \* the node a task was created for
  parent,          \* the CP or the task that created it
  blocking,        \* the parent waits for the result (executeOnWait)
  lineage,         \* history: the tasks above a task in the tree of calls
  created,         \* taskCreatedCount of each node
  finished,        \* taskFinishedCount of each node
  cp,              \* what the CP of each node is doing
  prevCreated,     \* waitAll's local variables, one set per CP
  finishedRead,
  newTasks,
  partialPending,
  calls            \* number of waitAll calls each CP has made

taskVars == <<status, home, parent, blocking, lineage>>
countVars == <<created, finished>>
waitVars == <<prevCreated, finishedRead, newTasks, partialPending, calls>>
vars == <<taskVars, countVars, cp, waitVars>>

(***************************************************************************)
(* A task has been "sent" while its active message is in flight, is        *)
(* "counted" between the increment of taskCreatedCount and the enqueue, is *)
(* "executed" once its body is over and its result, if any, is visible,    *)
(* and "finished" once taskFinishedCount accounts for it.  It is "dropped" *)
(* when its queue is cleared with the task still in it.                    *)
(***************************************************************************)
Status == {"none", "sent", "counted", "queued", "running", "executed",
           "finished", "dropped"}

CpState == {"main", "reduce", "readFinished", "readCreated", "leave",
            "stopping", "down"}

Executed(t) == status[t] \in {"executed", "finished"}

\* Tasks of node n that taskCreatedCount, taskFinishedCount account for.
Counted(n) == {t \in Task : home[t] = n /\ status[t] \notin {"none", "sent"}}
Finished(n) == {t \in Task : home[t] = n /\ status[t] = "finished"}

\* The tasks that occupy a hart of node n.
OnHart(n) == {t \in Task : home[t] = n /\ status[t] \in {"running", "executed"}}

At(a) == IF a \in Node THEN a ELSE home[a]

(***************************************************************************)
(* A caller is inside executeOn until a task for its own node is in the    *)
(* queue, and inside executeOnWait until the result is visible.            *)
(***************************************************************************)
Busy(a) ==
  \E t \in Task :
    /\ parent[t] = a
    /\ \/ status[t] = "counted" /\ home[t] = At(a)
       \/ status[t] # "none" /\ blocking[t] /\ ~Executed(t)

\* User code is running for a: pandoMain of a CP, or the body of a task.
InUserCode(a) ==
  /\ IF a \in Node THEN cp[a] = "main" ELSE status[a] = "running"
  /\ ~Busy(a)

May(a, m, cpCalls, taskCalls) ==
  <<At(a), m>> \in (IF a \in Node THEN cpCalls ELSE taskCalls)

Init ==
  /\ status = [t \in Task |-> "none"]
  /\ home = [t \in Task |-> CHOOSE n \in Node : TRUE]
  /\ parent = [t \in Task |-> CHOOSE n \in Node : TRUE]
  /\ blocking = [t \in Task |-> FALSE]
  /\ lineage = [t \in Task |-> {}]
  /\ created = [n \in Node |-> 0]
  /\ finished = [n \in Node |-> 0]
  /\ cp = [n \in Node |-> "main"]
  /\ prevCreated = [n \in Node |-> 0]
  /\ finishedRead = [n \in Node |-> 0]
  /\ newTasks = [n \in Node |-> 0]
  /\ partialPending = [n \in Node |-> 0]
  /\ calls = [n \in Node |-> 0]

-----------------------------------------------------------------------------
(***************************************************************************)
(* Creating a task.  Only a task for the caller's own node is counted by   *)
(* the caller.                                                             *)
(***************************************************************************)
\* Mutant: the counter runs the wrong way.
MutantCreatedSign(n) == created' = [created EXCEPT ![n] = @ - 1]

increaseTasksCreated(n) == created' = [created EXCEPT ![n] = @ + 1]

Call(a, t, m, wait) ==
  /\ InUserCode(a)
  /\ status[t] = "none"
  /\ home' = [home EXCEPT ![t] = m]
  /\ parent' = [parent EXCEPT ![t] = a]
  /\ blocking' = [blocking EXCEPT ![t] = wait]
  /\ lineage' = [lineage EXCEPT ![t] = IF a \in Node THEN {}
                                       ELSE lineage[a] \cup {a}]
  /\ \/ /\ m = At(a)
        /\ status' = [status EXCEPT ![t] = "counted"]
        /\ increaseTasksCreated(m)
     \/ /\ m # At(a)
        /\ status' = [status EXCEPT ![t] = "sent"]
        /\ UNCHANGED created
  /\ UNCHANGED <<finished, cp, waitVars>>

executeOn(a, t, m) ==
  /\ May(a, m, CpAsync, TaskAsync)
  /\ Call(a, t, m, FALSE)

executeOnWait(a, t, m) ==
  /\ May(a, m, CpWait, TaskWait)
  /\ Call(a, t, m, TRUE)

(***************************************************************************)
(* The handler of a task request.  GASNet delivers every message once, in  *)
(* any order, and runs handlers on any thread that polls, so handlers of   *)
(* several messages may overlap.                                           *)
(***************************************************************************)
handleRequest(t) ==
  /\ status[t] = "sent"
  /\ cp[home[t]] # "down"
  /\ status' = [status EXCEPT ![t] = "counted"]
  /\ increaseTasksCreated(home[t])
  /\ UNCHANGED <<home, parent, blocking, lineage, finished, cp, waitVars>>

\* The second half of detail::executeOn, run by the caller or the handler.
\* Once the cores are gone there is no queue to put the task in.
enqueue(t) ==
  /\ status[t] = "counted"
  /\ status' = [status EXCEPT ![t] =
                  IF cp[home[t]] = "down" THEN "dropped" ELSE "queued"]
  /\ UNCHANGED <<home, parent, blocking, lineage, countVars, cp, waitVars>>

(***************************************************************************)
(* The hart loop.  A hart that has already tested its core's active flag   *)
(* takes another task after the core was told to stop.                     *)
(***************************************************************************)
tryDequeue(t) ==
  /\ status[t] = "queued"
  /\ cp[home[t]] # "down"
  /\ Cardinality(OnHart(home[t])) < HartCount
  /\ status' = [status EXCEPT ![t] = "running"]
  /\ UNCHANGED <<home, parent, blocking, lineage, countVars, cp, waitVars>>

\* Mutant: executeOnWait returns before the result is visible.
MutantInvokeNoWait(t) ==
  /\ status[t] = "running"
  /\ status' = [status EXCEPT ![t] = "executed"]
  /\ UNCHANGED <<home, parent, blocking, lineage, countVars, cp, waitVars>>

\* The body returns; with a result, the ready flag is set.
invoke(t) ==
  /\ status[t] = "running"
  /\ ~Busy(t)
  /\ status' = [status EXCEPT ![t] = "executed"]
  /\ UNCHANGED <<home, parent, blocking, lineage, countVars, cp, waitVars>>

\* Mutant: the end of a task is not counted.
MutantFinishedLost(t) ==
  /\ status[t] = "executed"
  /\ status' = [status EXCEPT ![t] = "finished"]
  /\ UNCHANGED <<home, parent, blocking, lineage, countVars, cp, waitVars>>

increaseTasksFinished(t) ==
  /\ status[t] = "executed"
  /\ status' = [status EXCEPT ![t] = "finished"]
  /\ finished' = [finished EXCEPT ![home[t]] = @ + 1]
  /\ UNCHANGED <<home, parent, blocking, lineage, created, cp, waitVars>>

-----------------------------------------------------------------------------
\* Mutant: the first contribution is zero.
MutantWaitAllZero(n) ==
  /\ cp[n] = "main"
  /\ ~Busy(n)
  /\ calls[n] < WaitAllCalls
  /\ prevCreated' = [prevCreated EXCEPT ![n] = created[n]]
  /\ newTasks' = [newTasks EXCEPT ![n] = 0]
  /\ partialPending' = [partialPending EXCEPT ![n] = 0]
  /\ calls' = [calls EXCEPT ![n] = @ + 1]
  /\ cp' = [cp EXCEPT ![n] = "reduce"]
  /\ UNCHANGED <<taskVars, countVars, finishedRead>>

\* Mutant: the CP enters waitAll without waiting for its executeOnWait.
MutantWaitAllBusy(n) ==
  /\ cp[n] = "main"
  /\ calls[n] < WaitAllCalls
  /\ prevCreated' = [prevCreated EXCEPT ![n] = created[n]]
  /\ newTasks' = [newTasks EXCEPT ![n] = created[n]]
  /\ partialPending' = [partialPending EXCEPT ![n] = created[n]]
  /\ calls' = [calls EXCEPT ![n] = @ + 1]
  /\ cp' = [cp EXCEPT ![n] = "reduce"]
  /\ UNCHANGED <<taskVars, countVars, finishedRead>>

(***************************************************************************)
(* waitAll.  The first contribution does not count finished tasks.         *)
(***************************************************************************)
waitAll(n) ==
  /\ cp[n] = "main"
  /\ ~Busy(n)
  /\ calls[n] < WaitAllCalls
  /\ prevCreated' = [prevCreated EXCEPT ![n] = created[n]]
  /\ newTasks' = [newTasks EXCEPT ![n] = created[n]]
  /\ partialPending' = [partialPending EXCEPT ![n] = created[n]]
  /\ calls' = [calls EXCEPT ![n] = @ + 1]
  /\ cp' = [cp EXCEPT ![n] = "reduce"]
  /\ UNCHANGED <<taskVars, countVars, finishedRead>>

(***************************************************************************)
(* The sum of an integer-valued function on nodes: the number of units     *)
(* under its positive values less the number above its negative ones.      *)
(***************************************************************************)
Units(f) == UNION {{n} \X (1 .. f[n]) : n \in Node}
Sum(f) == Cardinality(Units(f)) - Cardinality(Units([n \in Node |-> -f[n]]))

\* Mutant: the verdict ignores the pending tasks.
MutantReduceNew ==
  /\ \A n \in Node : cp[n] = "reduce"
  /\ cp' = [n \in Node |-> IF Sum(newTasks) = 0 THEN "leave" ELSE "readFinished"]
  /\ UNCHANGED <<taskVars, countVars, waitVars>>

(***************************************************************************)
(* The two allreduce calls of a round.  Both operands were computed before *)
(* the first call, so the round is one collective step; what a CP does     *)
(* with the result is its own next step.                                   *)
(***************************************************************************)
allreduce ==
  /\ \A n \in Node : cp[n] = "reduce"
  /\ cp' = [n \in Node |->
              IF Sum(newTasks) = 0 /\ Sum(partialPending) = 0
              THEN "leave" ELSE "readFinished"]
  /\ UNCHANGED <<taskVars, countVars, waitVars>>

\* getTaskCounts reads the two counters one after the other.
readFinished(n) ==
  /\ cp[n] = "readFinished"
  /\ finishedRead' = [finishedRead EXCEPT ![n] = finished[n]]
  /\ cp' = [cp EXCEPT ![n] = "readCreated"]
  /\ UNCHANGED <<taskVars, countVars, prevCreated, newTasks, partialPending, calls>>

\* Mutant: the baseline of created tasks is not moved on.
MutantBaseline(n) ==
  /\ cp[n] = "readCreated"
  /\ newTasks' = [newTasks EXCEPT ![n] = created[n] - prevCreated[n]]
  /\ partialPending' = [partialPending EXCEPT ![n] = created[n] - finishedRead[n]]
  /\ cp' = [cp EXCEPT ![n] = "reduce"]
  /\ UNCHANGED <<taskVars, countVars, prevCreated, finishedRead, calls>>

readCreated(n) ==
  /\ cp[n] = "readCreated"
  /\ newTasks' = [newTasks EXCEPT ![n] = created[n] - prevCreated[n]]
  /\ partialPending' = [partialPending EXCEPT ![n] = created[n] - finishedRead[n]]
  /\ prevCreated' = [prevCreated EXCEPT ![n] = created[n]]
  /\ cp' = [cp EXCEPT ![n] = "reduce"]
  /\ UNCHANGED <<taskVars, countVars, finishedRead, calls>>

\* waitAll returns to pandoMain.  After its last call pandoMain returns and
\* powerOff tells the cores of the node to stop.
return(n) ==
  /\ cp[n] = "leave"
  /\ cp' = [cp EXCEPT ![n] = IF calls[n] < WaitAllCalls THEN "main" ELSE "stopping"]
  /\ UNCHANGED <<taskVars, countVars, waitVars>>

(***************************************************************************)
(* ComputeCore::stop has joined the harts: what is still queued is cleared *)
(* and the polling thread ends.                                            *)
(***************************************************************************)
stop(n) ==
  /\ cp[n] = "stopping"
  /\ OnHart(n) = {}
  /\ status' = [t \in Task |->
                  IF home[t] = n /\ status[t] = "queued" THEN "dropped" ELSE status[t]]
  /\ cp' = [cp EXCEPT ![n] = "down"]
  /\ UNCHANGED <<home, parent, blocking, lineage, countVars, waitVars>>

\* Every process has ended.
PoweredOff ==
  /\ \A n \in Node : cp[n] = "down"
  /\ \A t \in Task : status[t] # "counted"
  /\ UNCHANGED vars

Runtime(t) ==
  \/ handleRequest(t)
  \/ enqueue(t)
  \/ tryDequeue(t)
  \/ invoke(t)
  \/ increaseTasksFinished(t)

CommandProcessor(n) ==
  \/ waitAll(n)
  \/ readFinished(n)
  \/ readCreated(n)
  \/ return(n)
  \/ stop(n)

Next ==
  \/ \E a \in Caller, t \in Task, m \in Node :
       executeOn(a, t, m) \/ executeOnWait(a, t, m)
  \/ \E t \in Task : Runtime(t)
  \/ \E n \in Node : CommandProcessor(n)
  \/ allreduce
  \/ PoweredOff

Spec == Init /\ [][Next]_vars

(***************************************************************************)
(* Fairness: the polling thread, the harts and the CPs keep running, and   *)
(* the body of a task and pandoMain end; nobody has to create a task.      *)
(***************************************************************************)
Fairness ==
  /\ \A t \in Task : /\ WF_vars(handleRequest(t))
                     /\ WF_vars(enqueue(t))
                     /\ WF_vars(tryDequeue(t))
                     /\ WF_vars(invoke(t))
                     /\ WF_vars(increaseTasksFinished(t))
  /\ \A n \in Node : WF_vars(CommandProcessor(n))
  /\ WF_vars(allreduce)

FairSpec == Spec /\ Fairness

-----------------------------------------------------------------------------
TypeOK ==
  /\ status \in [Task -> Status]
  /\ home \in [Task -> Node]
  /\ parent \in [Task -> Caller]
  /\ blocking \in [Task -> BOOLEAN]
  /\ lineage \in [Task -> SUBSET Task]
  /\ created \in [Node -> Nat]
  /\ finished \in [Node -> Nat]
  /\ cp \in [Node -> CpState]
  /\ prevCreated \in [Node -> Nat]
  /\ finishedRead \in [Node -> Nat]
  /\ newTasks \in [Node -> Int]
  /\ partialPending \in [Node -> Int]
  /\ calls \in [Node -> Nat]

(***************************************************************************)
(* The counters of a node count exactly the tasks that were handed to its  *)
(* queues and those whose bodies ran to the end: no interleaving of        *)
(* callers, handlers and harts loses or repeats an increment.              *)
(***************************************************************************)
CountsExact ==
  \A n \in Node : /\ created[n] = Cardinality(Counted(n))
                  /\ finished[n] = Cardinality(Finished(n))

\* waitAll has decided that there is no task left and no CP has moved on.
Detected == \A n \in Node : cp[n] = "leave"

(***************************************************************************)
(* When waitAll returns every task created so far has executed and is      *)
(* accounted for (the comment at the head of waitAll).                     *)
(***************************************************************************)
Quiescent == \A t \in Task : status[t] \in {"none", "finished"}
DetectedQuiescent == Detected => Quiescent

(***************************************************************************)
(* When waitAll returns the body of every task created so far has run; at  *)
(* most its increment of taskFinishedCount may be outstanding.             *)
(***************************************************************************)
AllExecuted == \A t \in Task : status[t] \in {"none", "executed", "finished"}
DetectedExecuted == Detected => AllExecuted

(***************************************************************************)
(* No task is lost when a node powers off: none is in a queue that is      *)
(* cleared, none arrives at a node whose polling thread has ended.         *)
(***************************************************************************)
NoTaskLost ==
  \A t \in Task : /\ status[t] # "dropped"
                  /\ status[t] = "sent" => cp[home[t]] # "down"

(***************************************************************************)
(* In a structured program executeOnWait waits for the whole tree of calls *)
(* below the task, on whatever nodes it is: when the result of a task is   *)
(* visible every task below it has executed, and when a CP has gone on to  *)
(* waitAll so has every task below those it waited for, none of them is on *)
(* its way as a message that no counter knows of.                          *)
(***************************************************************************)
WaitsForSubtree ==
  \A t \in Task : status[t] # "none" =>
    /\ \A a \in lineage[t] : Executed(a) => Executed(t)
    /\ \A r \in lineage[t] \cup {t} :
         blocking[r] /\ parent[r] \in Node /\ cp[parent[r]] # "main" => Executed(t)

\* If every CP calls waitAll, waitAll returns everywhere and all nodes end.
WaitAllReturns == <>(\A n \in Node : cp[n] = "down")
=============================================================================
