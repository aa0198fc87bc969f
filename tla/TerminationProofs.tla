-------------------------- MODULE TerminationProofs --------------------------
(***************************************************************************)
(* Proofs about task creation and waitAll, for any number of nodes, tasks, *)
(* harts and waitAll calls.                                                *)
(***************************************************************************)
EXTENDS Termination, FiniteSetTheorems, TLAPS

\* The units of an integer-valued function are finitely many.
LEMMA UnitsFinite ==
  ASSUME NEW f \in [Node -> Int]
  PROVE  IsFiniteSet(Units(f))
<1> DEFINE P == {{n} \X (1 .. f[n]) : n \in Node}
           g == [n \in Node |-> {n} \X (1 .. f[n])]
<1>1. g \in Surjection(Node, P)
  BY Zenon DEF Surjection
<1>2. IsFiniteSet(P)
  BY <1>1, NodeAssumption, FS_Surjection
<1>3. \A T \in P : IsFiniteSet(T)
  <2> TAKE T \in P
  <2>1. PICK n \in Node : T = {n} \X (1 .. f[n])
    OBVIOUS
  <2>2. IsFiniteSet({n}) /\ IsFiniteSet(1 .. f[n])
    <3>1. f[n] \in Int /\ 1 \in Int
      OBVIOUS
    <3>2. IsFiniteSet({n})
      BY FS_Singleton, Zenon
    <3>3. IsFiniteSet(1 .. f[n])
      BY <3>1, FS_Interval, Zenon
    <3> QED BY <3>2, <3>3
  <2> QED BY <2>1, <2>2, FS_Product
<1> QED BY <1>2, <1>3, FS_UNION DEF Units

\* A round whose contributions are natural numbers reads zero only if every
\* node contributed zero.
LEMMA SumZero ==
  ASSUME NEW f \in [Node -> Nat], Sum(f) = 0
  PROVE  \A n \in Node : f[n] = 0
<1> DEFINE h == [n \in Node |-> -f[n]]
<1>1. Units(h) = {}
  BY DEF Units
<1>2. Cardinality(Units(h)) = 0
  BY <1>1, FS_EmptySet
<1>3. IsFiniteSet(Units(f))
  BY UnitsFinite
<1>4. Cardinality(Units(f)) \in Nat
  BY <1>3, FS_CardinalityType
<1>5. Units(f) = {}
  BY <1>2, <1>3, <1>4, FS_EmptySet DEF Sum
<1>6. ASSUME NEW n \in Node, f[n] # 0 PROVE FALSE
  <2>1. <<n, 1>> \in {n} \X (1 .. f[n])
    BY <1>6
  <2>2. <<n, 1>> \in Units(f)
    BY <2>1 DEF Units
  <2> QED BY <2>2, <1>5
<1> QED BY <1>6

LEMMA InitType == Init => TypeOK
  BY NodeAssumption DEF Init, TypeOK, Status, CpState, Caller

LEMMA NextType == TypeOK /\ [Next]_vars => TypeOK'
<1> SUFFICES ASSUME TypeOK, [Next]_vars PROVE TypeOK'
  OBVIOUS
<1> USE DEF TypeOK
<1>1. ASSUME NEW a \in Caller, NEW t \in Task, NEW m \in Node, NEW w \in BOOLEAN,
             Call(a, t, m, w)
      PROVE  TypeOK'
  <2>1. status' \in [Task -> Status] /\ created' \in [Node -> Nat]
    BY <1>1 DEF Call, increaseTasksCreated, Status
  <2>2. lineage' \in [Task -> SUBSET Task]
    BY <1>1 DEF Call, Caller
  <2> QED BY <1>1, <2>1, <2>2 DEF Call, waitVars
<1>2. ASSUME NEW t \in Task, Runtime(t) PROVE TypeOK'
  BY <1>2 DEF Runtime, handleRequest, enqueue, tryDequeue, invoke,
     increaseTasksFinished, increaseTasksCreated, Status, waitVars, countVars
<1>3. ASSUME NEW n \in Node, CommandProcessor(n) PROVE TypeOK'
  BY <1>3 DEF CommandProcessor, waitAll, readFinished, readCreated, return, stop,
     Status, CpState, taskVars, waitVars, countVars
<1>4. ASSUME allreduce PROVE TypeOK'
  BY <1>4 DEF allreduce, CpState, taskVars, waitVars, countVars
<1>5. ASSUME UNCHANGED vars PROVE TypeOK'
  BY <1>5 DEF vars, taskVars, waitVars, countVars
<1> QED BY <1>1, <1>2, <1>3, <1>4, <1>5 DEF Next, executeOn, executeOnWait, PoweredOff

\* Every variable keeps its type.
THEOREM TypeCorrect == Spec => []TypeOK
  BY InitType, NextType, PTL DEF Spec

-----------------------------------------------------------------------------
(***************************************************************************)
(* The counters.                                                           *)
(***************************************************************************)
\* The tasks of a node are finitely many, and a finished one was counted.
LEMMA CountedFinite ==
  ASSUME NEW n
  PROVE  /\ IsFiniteSet(Counted(n)) /\ IsFiniteSet(Finished(n))
         /\ Finished(n) \subseteq Counted(n)
         /\ Cardinality(Counted(n)) \in Nat /\ Cardinality(Finished(n)) \in Nat
         /\ Cardinality(Finished(n)) <= Cardinality(Counted(n))
         /\ Cardinality(Finished(n)) = Cardinality(Counted(n))
              => Finished(n) = Counted(n)
<1>1. Counted(n) \in SUBSET Task /\ Finished(n) \in SUBSET Counted(n)
  BY DEF Counted, Finished
<1>2. IsFiniteSet(Counted(n))
  BY <1>1, TaskAssumption, FS_Subset
<1>3. /\ IsFiniteSet(Finished(n))
      /\ Cardinality(Finished(n)) <= Cardinality(Counted(n))
      /\ Cardinality(Counted(n)) = Cardinality(Finished(n)) => Counted(n) = Finished(n)
  BY <1>1, <1>2, FS_Subset
<1> QED BY <1>1, <1>2, <1>3, FS_CardinalityType

LEMMA InitCounts == Init => CountsExact
<1> SUFFICES ASSUME Init, NEW n \in Node
             PROVE  /\ created[n] = Cardinality(Counted(n))
                    /\ finished[n] = Cardinality(Finished(n))
  BY DEF CountsExact
<1>1. Counted(n) = {} /\ Finished(n) = {}
  BY DEF Init, Counted, Finished
<1> QED BY <1>1, FS_EmptySet DEF Init

\* A step that hands task t to the queues of its node, and counts it.
LEMMA CountUp ==
  ASSUME TypeOK, CountsExact, NEW t \in Task,
         status[t] \in {"none", "sent"},
         status' = [status EXCEPT ![t] = "counted"],
         home' = [home EXCEPT ![t] = home'[t]], home'[t] \in Node,
         increaseTasksCreated(home'[t]), UNCHANGED finished
  PROVE  CountsExact'
<1> SUFFICES ASSUME NEW n \in Node
             PROVE  /\ created'[n] = Cardinality(Counted(n)')
                    /\ finished'[n] = Cardinality(Finished(n)')
  BY DEF CountsExact
<1>1. Finished(n)' = Finished(n)
  BY DEF TypeOK, Finished
<1>2. CASE n = home'[t]
  <2>1. Counted(n)' = Counted(n) \cup {t} /\ t \notin Counted(n)
    BY <1>2 DEF TypeOK, Counted
  <2>2. created'[n] = created[n] + 1
    BY <1>2 DEF increaseTasksCreated, TypeOK
  <2>3. Cardinality(Counted(n) \cup {t}) = Cardinality(Counted(n)) + 1
    BY <2>1, CountedFinite, FS_AddElement
  <2> QED BY <1>1, <2>1, <2>2, <2>3 DEF CountsExact
<1>3. CASE n # home'[t]
  <2>1. Counted(n)' = Counted(n)
    BY <1>3 DEF TypeOK, Counted
  <2>2. created'[n] = created[n]
    BY <1>3 DEF increaseTasksCreated, TypeOK
  <2> QED BY <1>1, <2>1, <2>2 DEF CountsExact
<1> QED BY <1>2, <1>3

\* A step that neither counts a task nor ends the life of one.
LEMMA CountSame ==
  ASSUME CountsExact, UNCHANGED countVars,
         \A n \in Node : Counted(n)' = Counted(n) /\ Finished(n)' = Finished(n)
  PROVE  CountsExact'
  BY DEF CountsExact, countVars

LEMMA NextCounts == TypeOK /\ CountsExact /\ [Next]_vars => CountsExact'
<1> SUFFICES ASSUME TypeOK, CountsExact, [Next]_vars PROVE CountsExact'
  OBVIOUS
<1>1. ASSUME NEW a \in Caller, NEW t \in Task, NEW m \in Node, NEW w \in BOOLEAN,
             Call(a, t, m, w)
      PROVE  CountsExact'
  <2>1. CASE status'[t] = "counted"
    <3>1. /\ status[t] = "none" /\ UNCHANGED finished
          /\ status' = [status EXCEPT ![t] = "counted"]
          /\ increaseTasksCreated(m)
          /\ home'[t] = m /\ home' = [home EXCEPT ![t] = m]
      BY <1>1, <2>1 DEF Call, TypeOK
    <3> QED BY <3>1, CountUp
  <2>2. CASE status'[t] = "sent"
    <3>1. \A n \in Node : Counted(n)' = Counted(n) /\ Finished(n)' = Finished(n)
      BY <1>1, <2>2 DEF Call, TypeOK, Counted, Finished
    <3>2. UNCHANGED countVars
      BY <1>1, <2>2 DEF Call, TypeOK, countVars
    <3> QED BY <3>1, <3>2, CountSame
  <2> QED BY <1>1, <2>1, <2>2 DEF Call, TypeOK
<1>2. ASSUME NEW t \in Task, handleRequest(t) PROVE CountsExact'
  <2>1. /\ status[t] = "sent" /\ UNCHANGED <<finished, home>>
        /\ status' = [status EXCEPT ![t] = "counted"]
        /\ increaseTasksCreated(home[t])
    BY <1>2 DEF handleRequest
  <2>2. home'[t] = home[t] /\ home' = [home EXCEPT ![t] = home'[t]] /\ home'[t] \in Node
    BY <2>1 DEF TypeOK
  <2> QED BY <2>1, <2>2, CountUp
<1>3. ASSUME NEW t \in Task, enqueue(t) \/ tryDequeue(t) \/ invoke(t)
      PROVE  CountsExact'
  <2>1. \A n \in Node : Counted(n)' = Counted(n) /\ Finished(n)' = Finished(n)
    BY <1>3 DEF enqueue, tryDequeue, invoke, TypeOK, Counted, Finished
  <2> QED BY <1>3, <2>1, CountSame DEF enqueue, tryDequeue, invoke
<1>4. ASSUME NEW t \in Task, increaseTasksFinished(t) PROVE CountsExact'
  <2> SUFFICES ASSUME NEW n \in Node
               PROVE  /\ created'[n] = Cardinality(Counted(n)')
                      /\ finished'[n] = Cardinality(Finished(n)')
    BY DEF CountsExact
  <2>1. Counted(n)' = Counted(n) /\ created' = created
    BY <1>4 DEF increaseTasksFinished, TypeOK, Counted
  <2>2. CASE n = home[t]
    <3>1. Finished(n)' = Finished(n) \cup {t} /\ t \notin Finished(n)
      BY <1>4, <2>2 DEF increaseTasksFinished, TypeOK, Finished
    <3>2. Cardinality(Finished(n) \cup {t}) = Cardinality(Finished(n)) + 1
      BY <3>1, CountedFinite, FS_AddElement
    <3>3. finished'[n] = finished[n] + 1
      BY <1>4, <2>2 DEF increaseTasksFinished, TypeOK
    <3> QED BY <2>1, <3>1, <3>2, <3>3 DEF CountsExact
  <2>3. CASE n # home[t]
    <3>1. Finished(n)' = Finished(n) /\ finished'[n] = finished[n]
      BY <1>4, <2>3 DEF increaseTasksFinished, TypeOK, Finished
    <3> QED BY <2>1, <3>1 DEF CountsExact
  <2> QED BY <2>2, <2>3
<1>5. ASSUME NEW n \in Node, stop(n) PROVE CountsExact'
  <2>1. \A k \in Node : Counted(k)' = Counted(k) /\ Finished(k)' = Finished(k)
    BY <1>5 DEF stop, TypeOK, Counted, Finished
  <2> QED BY <1>5, <2>1, CountSame DEF stop
<1>6. ASSUME UNCHANGED <<taskVars, countVars>> PROVE CountsExact'
  <2>1. \A k \in Node : Counted(k)' = Counted(k) /\ Finished(k)' = Finished(k)
    BY <1>6 DEF taskVars, Counted, Finished
  <2> QED BY <1>6, <2>1, CountSame
<1> QED
  BY <1>1, <1>2, <1>3, <1>4, <1>5, <1>6
  DEF Next, executeOn, executeOnWait, Runtime, CommandProcessor, waitAll,
      readFinished, readCreated, return, allreduce, PoweredOff, vars

(***************************************************************************)
(* In every execution, for any program, the counters waitAll reads account *)
(* exactly for the tasks handed to the queues and the tasks finished.      *)
(***************************************************************************)
THEOREM CountsCorrect == Spec => []CountsExact
<1>1. TypeOK /\ CountsExact /\ [Next]_vars => (TypeOK /\ CountsExact)'
  BY NextType, NextCounts
<1> QED BY InitType, InitCounts, <1>1, PTL DEF Spec

-----------------------------------------------------------------------------
(***************************************************************************)
(* What the local variables of waitAll say about the counters.  The order  *)
(* of the two reads of getTaskCounts matters here: what was read of        *)
(* taskFinishedCount is at most what taskCreatedCount is read to be.       *)
(***************************************************************************)
ReadOK(n) ==
  /\ prevCreated[n] <= created[n]
  /\ cp[n] = "readCreated" => finishedRead[n] <= finished[n]
  /\ cp[n] = "reduce" => newTasks[n] \in Nat /\ partialPending[n] \in Nat

ReadInv == \A n \in Node : ReadOK(n)

\* What the counters say of the tasks of a node.
LEMMA FinishedAtMostCreated ==
  ASSUME TypeOK, CountsExact, NEW n \in Node
  PROVE  /\ finished[n] <= created[n]
         /\ finished[n] = created[n] => Finished(n) = Counted(n)
         /\ created[n] = 0 => Counted(n) = {}
<1>1. created[n] = Cardinality(Counted(n)) /\ finished[n] = Cardinality(Finished(n))
  BY DEF CountsExact
<1>2. created[n] = 0 => Counted(n) = {}
  BY <1>1, CountedFinite, FS_EmptySet
<1> QED BY <1>1, <1>2, CountedFinite

\* The counters never decrease.
LEMMA CountersGrow ==
  ASSUME TypeOK, [Next]_vars, NEW n \in Node
  PROVE  created'[n] >= created[n] /\ finished'[n] >= finished[n]
<1> USE DEF TypeOK
<1>1. ASSUME NEW a \in Caller, NEW t \in Task, NEW m \in Node, NEW w \in BOOLEAN,
             Call(a, t, m, w)
      PROVE  created'[n] >= created[n] /\ finished'[n] >= finished[n]
  BY <1>1 DEF Call, increaseTasksCreated
<1>2. ASSUME NEW t \in Task, Runtime(t)
      PROVE  created'[n] >= created[n] /\ finished'[n] >= finished[n]
  BY <1>2 DEF Runtime, handleRequest, enqueue, tryDequeue, invoke,
     increaseTasksFinished, increaseTasksCreated, countVars
<1>3. ASSUME UNCHANGED countVars
      PROVE  created'[n] >= created[n] /\ finished'[n] >= finished[n]
  BY <1>3 DEF countVars
<1> QED
  BY <1>1, <1>2, <1>3
  DEF Next, executeOn, executeOnWait, CommandProcessor, waitAll, readFinished,
      readCreated, return, stop, allreduce, PoweredOff, vars

LEMMA NextRead == TypeOK /\ CountsExact /\ ReadInv /\ [Next]_vars => ReadInv'
<1> SUFFICES ASSUME TypeOK, CountsExact, ReadInv, [Next]_vars, NEW n \in Node
             PROVE  ReadOK(n)'
  BY DEF ReadInv
<1>0. /\ created'[n] >= created[n] /\ finished'[n] >= finished[n]
      /\ created'[n] \in Nat /\ finished'[n] \in Nat
  BY CountersGrow, NextType DEF TypeOK
<1> USE DEF TypeOK, ReadOK
<1>1. ASSUME UNCHANGED <<cp, waitVars>>
      PROVE  ReadOK(n)'
  BY <1>0, <1>1 DEF ReadInv, waitVars
<1>2. ASSUME NEW k \in Node, waitAll(k) \/ return(k) \/ stop(k)
      PROVE  ReadOK(n)'
  BY <1>2 DEF ReadInv, waitAll, return, stop, countVars, waitVars
<1>3. ASSUME NEW k \in Node, readFinished(k)
      PROVE  ReadOK(n)'
  BY <1>3 DEF ReadInv, readFinished, countVars
<1>4. ASSUME NEW k \in Node, readCreated(k)
      PROVE  ReadOK(n)'
  <2>1. finished[k] <= created[k] /\ prevCreated[k] <= created[k]
        /\ finishedRead[k] <= finished[k]
    BY <1>4, FinishedAtMostCreated DEF ReadInv, readCreated
  <2> QED BY <1>4, <2>1 DEF ReadInv, readCreated, countVars
<1>5. ASSUME allreduce
      PROVE  ReadOK(n)'
  BY <1>5 DEF ReadInv, allreduce, countVars, waitVars
<1> QED
  BY <1>1, <1>2, <1>3, <1>4, <1>5
  DEF Next, executeOn, executeOnWait, Call, Runtime, handleRequest, enqueue,
      tryDequeue, invoke, increaseTasksFinished, CommandProcessor, PoweredOff, vars

\* A round that finds no task left was given zero by every node.
LEMMA VerdictZero ==
  ASSUME TypeOK, ReadInv, allreduce, Detected'
  PROVE  \A n \in Node : cp[n] = "reduce" /\ partialPending[n] = 0
<1>1. \A n \in Node : cp[n] = "reduce"
  BY DEF allreduce
<1>2. partialPending \in [Node -> Nat]
  BY <1>1 DEF ReadInv, ReadOK, TypeOK
<1>3. PICK n \in Node : TRUE
  BY NodeAssumption
<1>4. cp'[n] = "leave"
  BY <1>3 DEF Detected
<1>5. Sum(partialPending) = 0
  BY <1>4 DEF allreduce
<1> QED BY <1>1, <1>2, <1>5, SumZero

-----------------------------------------------------------------------------
(***************************************************************************)
(* Local programs.                                                         *)
(***************************************************************************)

\* No task of node n is left, and none will be created for it by others.
Quiet(n) == \A t \in Task : home[t] = n => status[t] \in {"none", "finished"}

(***************************************************************************)
(* The inductive invariant: a node that contributes zero to the pending    *)
(* tasks is quiet when it reads taskCreatedCount, and stays so until the   *)
(* round is over.                                                          *)
(***************************************************************************)
NoneSent == \A t \in Task : status[t] # "sent"
QuietInv == \A n \in Node : cp[n] = "reduce" /\ partialPending[n] = 0 => Quiet(n)
LocalInv ==
  /\ TypeOK /\ CountsExact /\ ReadInv
  /\ NoneSent /\ QuietInv /\ DetectedQuiescent

LEMMA InitRead == Init => ReadInv
  BY DEF Init, ReadInv, ReadOK

LEMMA InitLocal == Init => LocalInv
<1> SUFFICES ASSUME Init PROVE NoneSent /\ QuietInv /\ DetectedQuiescent
  BY InitType, InitCounts, InitRead DEF LocalInv
<1>1. \A t \in Task : status[t] = "none"
  BY DEF Init
<1> QED BY <1>1 DEF NoneSent, QuietInv, Quiet, DetectedQuiescent, Quiescent

\* A caller of executeOn in a local program creates a task for its own node.
LEMMA LocalCall ==
  ASSUME LocalProgram, NEW a \in Caller, NEW t \in Task, NEW m \in Node,
         executeOn(a, t, m) \/ executeOnWait(a, t, m)
  PROVE  m = At(a) /\ \E w \in BOOLEAN : Call(a, t, m, w)
<1>1. <<At(a), m>> \in CpAsync \cup CpWait \cup TaskAsync \cup TaskWait
  BY DEF executeOn, executeOnWait, May
<1>2. At(a) = m
  BY <1>1 DEF LocalProgram
<1> QED BY <1>2 DEF executeOn, executeOnWait

LEMMA NextLocal == LocalProgram /\ LocalInv /\ [Next]_vars => LocalInv'
<1> SUFFICES ASSUME LocalProgram, LocalInv, [Next]_vars
             PROVE  NoneSent' /\ QuietInv' /\ DetectedQuiescent'
  BY NextType, NextCounts, NextRead DEF LocalInv
<1>0. /\ TypeOK /\ CountsExact /\ ReadInv
      /\ NoneSent /\ QuietInv /\ DetectedQuiescent
  BY DEF LocalInv
<1> USE <1>0
<1>1. ASSUME NEW a \in Caller, NEW t \in Task, NEW m \in Node,
             executeOn(a, t, m) \/ executeOnWait(a, t, m)
      PROVE  NoneSent' /\ QuietInv' /\ DetectedQuiescent'
  <2>1. PICK w \in BOOLEAN : Call(a, t, m, w)
    BY <1>1, LocalCall
  <2>2. m = At(a)
    BY <1>1, LocalCall
  <2>3. /\ status' = [status EXCEPT ![t] = "counted"]
        /\ home' = [home EXCEPT ![t] = m]
        /\ UNCHANGED <<cp, partialPending>>
    BY <2>1, <2>2 DEF Call, waitVars
  <2>4. NoneSent'
    BY <2>3 DEF NoneSent, TypeOK
  <2>5. a \in Node => cp[a] = "main" /\ m = a
    BY <2>1, <2>2 DEF Call, InUserCode, At
  <2>6. a \notin Node => a \in Task /\ status[a] = "running" /\ home[a] = m
    BY <2>1, <2>2 DEF Call, InUserCode, At, Caller
  <2>7. QuietInv'
    <3> SUFFICES ASSUME NEW n \in Node, cp'[n] = "reduce", partialPending'[n] = 0
                 PROVE  Quiet(n)'
      BY DEF QuietInv
    <3>1. Quiet(n)
      BY <2>3 DEF QuietInv
    <3>2. m # n
      BY <2>3, <2>5, <2>6, <3>1 DEF Quiet
    <3> QED BY <2>3, <3>1, <3>2 DEF Quiet, TypeOK
  <2>8. DetectedQuiescent'
    BY <2>3, <2>5, <2>6 DEF DetectedQuiescent, Detected, Quiescent, TypeOK
  <2> QED BY <2>4, <2>7, <2>8
<1>2. ASSUME NEW t \in Task, Runtime(t)
      PROVE  NoneSent' /\ QuietInv' /\ DetectedQuiescent'
  <2>1. /\ status[t] \notin {"none", "finished"}
        /\ UNCHANGED <<home, cp, partialPending>>
        /\ \E s \in {"queued", "dropped", "running", "executed", "finished"} :
             status' = [status EXCEPT ![t] = s]
    BY <1>2 DEF Runtime, handleRequest, enqueue, tryDequeue, invoke,
       increaseTasksFinished, waitVars, NoneSent
  <2>2. QuietInv'
    BY <2>1 DEF QuietInv, Quiet, TypeOK
  <2> QED BY <2>1, <2>2 DEF NoneSent, DetectedQuiescent, Detected, Quiescent, TypeOK
<1>3. ASSUME NEW n \in Node, waitAll(n)
      PROVE  NoneSent' /\ QuietInv' /\ DetectedQuiescent'
  <2>1. UNCHANGED <<home, status>>
    BY <1>3 DEF waitAll, taskVars
  <2>2. created[n] = 0 => Quiet(n)
    BY FinishedAtMostCreated DEF Quiet, Counted, NoneSent
  <2>3. QuietInv'
    BY <1>3, <2>1, <2>2 DEF QuietInv, Quiet, waitAll, TypeOK
  <2>4. ~Detected'
    BY <1>3 DEF Detected, waitAll, TypeOK
  <2> QED BY <2>1, <2>3, <2>4 DEF NoneSent, DetectedQuiescent
<1>4. ASSUME NEW n \in Node, readCreated(n)
      PROVE  NoneSent' /\ QuietInv' /\ DetectedQuiescent'
  <2>1. UNCHANGED <<home, status>>
    BY <1>4 DEF readCreated, taskVars
  <2>2. created[n] - finishedRead[n] = 0 => Quiet(n)
    <3> SUFFICES ASSUME created[n] - finishedRead[n] = 0 PROVE Quiet(n)
      OBVIOUS
    <3>1. finished[n] = created[n]
      BY <1>4, FinishedAtMostCreated DEF ReadInv, ReadOK, readCreated, TypeOK
    <3>2. Finished(n) = Counted(n)
      BY <3>1, FinishedAtMostCreated
    <3> QED BY <3>2 DEF Finished, Counted, Quiet, NoneSent
  <2>3. QuietInv'
    BY <1>4, <2>1, <2>2 DEF QuietInv, Quiet, readCreated, TypeOK
  <2>4. ~Detected'
    BY <1>4 DEF Detected, readCreated, TypeOK
  <2> QED BY <2>1, <2>3, <2>4 DEF NoneSent, DetectedQuiescent
<1>5. ASSUME NEW n \in Node, readFinished(n) \/ return(n)
      PROVE  NoneSent' /\ QuietInv' /\ DetectedQuiescent'
  <2>1. UNCHANGED <<home, status, partialPending>>
    BY <1>5 DEF readFinished, return, taskVars, waitVars
  <2>2. QuietInv'
    BY <1>5, <2>1 DEF QuietInv, Quiet, readFinished, return, TypeOK
  <2>3. ~Detected'
    BY <1>5 DEF Detected, readFinished, return, TypeOK
  <2> QED BY <2>1, <2>2, <2>3 DEF NoneSent, DetectedQuiescent
<1>6. ASSUME NEW n \in Node, stop(n)
      PROVE  NoneSent' /\ QuietInv' /\ DetectedQuiescent'
  <2>1. QuietInv'
    BY <1>6 DEF QuietInv, Quiet, stop, waitVars, TypeOK
  <2>2. ~Detected'
    BY <1>6 DEF Detected, stop, TypeOK
  <2> QED BY <1>6, <2>1, <2>2 DEF stop, NoneSent, DetectedQuiescent
<1>7. ASSUME allreduce
      PROVE  NoneSent' /\ QuietInv' /\ DetectedQuiescent'
  <2>1. UNCHANGED <<home, status>> /\ \A n \in Node : cp'[n] # "reduce"
    BY <1>7 DEF allreduce, taskVars
  <2>2. ASSUME Detected' PROVE Quiescent
    <3>1. \A n \in Node : Quiet(n)
      BY <1>7, <2>2, VerdictZero DEF QuietInv
    <3> QED BY <3>1 DEF Quiet, Quiescent, TypeOK
  <2> QED BY <2>1, <2>2 DEF NoneSent, QuietInv, DetectedQuiescent, Quiescent
<1>8. ASSUME UNCHANGED vars
      PROVE  NoneSent' /\ QuietInv' /\ DetectedQuiescent'
  BY <1>8 DEF vars, taskVars, waitVars, NoneSent, QuietInv, Quiet,
     DetectedQuiescent, Detected, Quiescent
<1> QED
  BY <1>1, <1>2, <1>3, <1>4, <1>5, <1>6, <1>7, <1>8
  DEF Next, CommandProcessor, PoweredOff

(***************************************************************************)
(* In a local program waitAll returns only when every task created so far  *)
(* has run and is accounted for: the claim of the comment in waitAll.      *)
(***************************************************************************)
THEOREM LocalTermination ==
  ASSUME LocalProgram
  PROVE  Spec => []DetectedQuiescent
<1>1. LocalInv /\ [Next]_vars => LocalInv'
  BY NextLocal
<1>2. LocalInv => DetectedQuiescent
  BY DEF LocalInv
<1> QED BY InitLocal, <1>1, <1>2, PTL DEF Spec

-----------------------------------------------------------------------------
(***************************************************************************)
(* Structured programs.                                                    *)
(***************************************************************************)
Asked(t) == status[t] # "none"

(***************************************************************************)
(* The tree of calls.  The tasks above a task were asked for; each of them *)
(* has a child on the way down to the task; one of them was created by a   *)
(* CP; every call of a task is an executeOnWait.                           *)
(***************************************************************************)
TreeInv ==
  \A t \in Task : Asked(t) =>
    /\ t \notin lineage[t]
    /\ \A x \in lineage[t] :
         Asked(x) /\ (parent[t] = x \/ \E c \in lineage[t] : parent[c] = x)
    /\ parent[t] \in Node \/ \E r \in lineage[t] : parent[r] \in Node
    /\ parent[t] \in Task => blocking[t]

\* A task whose body is over has nothing left to run below it.
BelowInv ==
  \A t \in Task : Asked(t) => \A x \in lineage[t] : Executed(x) => Executed(t)

(***************************************************************************)
(* The tasks a CP created: those it does not wait for are on its own node, *)
(* and never travel as a message; those it waits for have run when it is   *)
(* in waitAll; and if it contributes zero, all of them have run.           *)
(***************************************************************************)
RootInv ==
  \A n \in Node : \A t \in Task : Asked(t) /\ parent[t] = n =>
    /\ ~blocking[t] => home[t] = n /\ status[t] # "sent"
    /\ blocking[t] /\ cp[n] # "main" => Executed(t)
    /\ cp[n] = "reduce" /\ partialPending[n] = 0 => Executed(t)

StructuredInv ==
  /\ TypeOK /\ CountsExact /\ ReadInv
  /\ TreeInv /\ BelowInv /\ RootInv /\ DetectedExecuted

LEMMA InitStructured == Init => StructuredInv
<1> SUFFICES ASSUME Init PROVE TreeInv /\ BelowInv /\ RootInv /\ DetectedExecuted
  BY InitType, InitCounts, InitRead DEF StructuredInv
<1>1. \A t \in Task : status[t] = "none"
  BY DEF Init
<1> QED BY <1>1 DEF TreeInv, BelowInv, RootInv, DetectedExecuted, AllExecuted, Asked

\* A step that only moves tasks along their lives, never back.
Progress ==
  /\ UNCHANGED <<home, parent, blocking, lineage>>
  /\ \A t \in Task : /\ Asked(t)' <=> Asked(t)
                     /\ Executed(t) => Executed(t)'
                     /\ status'[t] = "sent" => status[t] = "sent"

\* The tree of calls stays as it is,
LEMMA TreeProgress ==
  ASSUME TypeOK, TreeInv, Progress
  PROVE  TreeInv'
  BY DEF TreeInv, Progress, TypeOK

\* A body does not end before the bodies it waits for.
LEMMA BelowProgress ==
  ASSUME TypeOK, TreeInv, BelowInv, Progress,
         \A x \in Task : Executed(x)' => Executed(x) \/ ~Busy(x)
  PROVE  BelowInv'
<1> SUFFICES ASSUME NEW t \in Task, Asked(t)', NEW x \in lineage'[t], Executed(x)'
             PROVE  Executed(t)'
  BY DEF BelowInv
<1>1. Asked(t) /\ x \in lineage[t] /\ x \in Task
  BY DEF Progress, TypeOK
<1>2. CASE Executed(x)
  BY <1>1, <1>2 DEF BelowInv, Progress
<1>3. CASE ~Busy(x)
  <2>1. ASSUME NEW c \in Task, Asked(c), parent[c] = x PROVE Executed(c)
    <3>1. blocking[c]
      BY <1>1, <2>1 DEF TreeInv
    <3> QED BY <1>3, <2>1, <3>1 DEF Busy, Asked
  <2>2. CASE parent[t] = x
    BY <1>1, <2>1, <2>2 DEF Progress
  <2>3. ASSUME NEW c \in lineage[t], parent[c] = x PROVE Executed(t)'
    <3>1. c \in Task /\ Asked(c)
      BY <1>1, <2>3 DEF TreeInv, TypeOK
    <3>2. Executed(c)
      BY <2>1, <2>3, <3>1
    <3> QED BY <1>1, <3>2 DEF BelowInv, Progress
  <2> QED BY <1>1, <2>2, <2>3 DEF TreeInv
<1> QED BY <1>1, <1>2, <1>3

\* and so do the tasks of the CPs.
LEMMA RootProgress ==
  ASSUME TypeOK, RootInv, Progress, UNCHANGED <<cp, partialPending>>
  PROVE  RootInv'
  BY DEF RootInv, Progress, TypeOK

\* Creating a task in a structured program.
LEMMA StructuredCall ==
  ASSUME StructuredProgram, NEW a \in Caller, NEW t \in Task, NEW m \in Node,
         executeOn(a, t, m) \/ executeOnWait(a, t, m)
  PROVE  \E w \in BOOLEAN : /\ Call(a, t, m, w)
                            /\ a \notin Node => w
                            /\ ~w => m = At(a)
<1>1. CASE executeOn(a, t, m)
  <2>1. a \in Node /\ <<At(a), m>> \in CpAsync
    BY <1>1 DEF executeOn, May, StructuredProgram
  <2>2. At(a) = m
    BY <2>1 DEF StructuredProgram
  <2> QED BY <1>1, <2>1, <2>2 DEF executeOn
<1>2. CASE executeOnWait(a, t, m)
  BY <1>2 DEF executeOnWait
<1> QED BY <1>1, <1>2

\* The parts of the invariant after a call.
LEMMA CallStructured ==
  ASSUME StructuredInv, NEW a \in Caller, NEW t \in Task, NEW m \in Node,
         NEW w \in BOOLEAN, Call(a, t, m, w), a \notin Node => w, ~w => m = At(a)
  PROVE  TreeInv' /\ BelowInv' /\ RootInv' /\ DetectedExecuted'
<1>0. TypeOK /\ TreeInv /\ BelowInv /\ RootInv /\ DetectedExecuted
  BY DEF StructuredInv
<1> USE <1>0
<1>1. /\ status[t] = "none" /\ ~Asked(t)
      /\ \E s \in {"counted", "sent"} : status' = [status EXCEPT ![t] = s]
      /\ home' = [home EXCEPT ![t] = m] /\ parent' = [parent EXCEPT ![t] = a]
      /\ blocking' = [blocking EXCEPT ![t] = w]
      /\ UNCHANGED <<cp, partialPending>>
  BY DEF Call, waitVars, Asked
<1>2. lineage' = [lineage EXCEPT ![t] = IF a \in Node THEN {} ELSE lineage[a] \cup {a}]
  BY DEF Call
<1>3. /\ Asked(t)' /\ ~Executed(t)'
      /\ \A x \in Task \ {t} : (Asked(x)' <=> Asked(x)) /\ (Executed(x)' <=> Executed(x))
                               /\ status'[x] = status[x]
  BY <1>1 DEF Asked, Executed, TypeOK
<1>4. a \notin Node => /\ a \in Task /\ status[a] = "running" /\ a # t
                       /\ Asked(a) /\ ~Executed(a)
  BY <1>1 DEF Call, InUserCode, Caller, Asked, Executed
<1>5. \A x \in Task \ {t} : Asked(x) => t \notin lineage[x]
  BY <1>1 DEF TreeInv
<1>6. TreeInv'
  <2> SUFFICES ASSUME NEW y \in Task, Asked(y)'
      PROVE /\ y \notin lineage'[y]
            /\ \A x \in lineage'[y] :
                 Asked(x)' /\ (parent'[y] = x \/ \E c \in lineage'[y] : parent'[c] = x)
            /\ parent'[y] \in Node \/ \E r \in lineage'[y] : parent'[r] \in Node
            /\ parent'[y] \in Task => blocking'[y]
    BY DEF TreeInv
  <2>1. CASE y # t
    <3>1. /\ lineage'[y] = lineage[y] /\ parent'[y] = parent[y]
          /\ blocking'[y] = blocking[y] /\ Asked(y)
          /\ lineage[y] \subseteq Task \ {t}
      BY <1>1, <1>2, <1>3, <1>5, <2>1 DEF TypeOK
    <3>2. \A c \in lineage[y] : parent'[c] = parent[c] /\ (Asked(c) => Asked(c)')
      BY <1>1, <1>3, <3>1 DEF TypeOK
    <3> QED BY <3>1, <3>2 DEF TreeInv
  <2>2. CASE y = t /\ a \in Node
    <3>1. lineage'[t] = {} /\ parent'[t] = a /\ a \notin Task
      BY <1>1, <1>2, <2>2, TaskAssumption DEF TypeOK
    <3> QED BY <2>2, <3>1
  <2>3. CASE y = t /\ a \notin Node
    <3>1. /\ lineage'[t] = lineage[a] \cup {a} /\ parent'[t] = a /\ blocking'[t]
          /\ t \notin lineage[a] /\ lineage[a] \subseteq Task /\ a \in Task /\ a # t
      BY <1>1, <1>2, <1>4, <1>5, <2>3 DEF TypeOK
    <3>2. \A c \in lineage[a] \cup {a} : parent'[c] = parent[c] /\ (Asked(c) => Asked(c)')
      BY <1>1, <1>3, <3>1 DEF TypeOK
    <3>3. /\ \A x \in lineage[a] :
               Asked(x) /\ (parent[a] = x \/ \E c \in lineage[a] : parent[c] = x)
          /\ parent[a] \in Node \/ \E r \in lineage[a] : parent[r] \in Node
      BY <1>4, <2>3 DEF TreeInv
    <3>4. \A x \in lineage[a] \cup {a} :
            Asked(x)' /\ (parent'[t] = x \/ \E c \in lineage'[t] : parent'[c] = x)
      BY <1>4, <2>3, <3>1, <3>2, <3>3
    <3>5. \E r \in lineage'[t] : parent'[r] \in Node
      BY <3>1, <3>2, <3>3
    <3> QED BY <2>3, <3>1, <3>4, <3>5
  <2> QED BY <2>1, <2>2, <2>3
<1>7. BelowInv'
  <2> SUFFICES ASSUME NEW y \in Task, Asked(y)', NEW x \in lineage'[y], Executed(x)'
               PROVE  Executed(y)'
    BY DEF BelowInv
  <2>1. CASE y # t
    <3>1. lineage'[y] = lineage[y] /\ Asked(y) /\ x \in Task \ {t}
      BY <1>2, <1>3, <1>5, <2>1 DEF TypeOK
    <3> QED BY <1>3, <2>1, <3>1 DEF BelowInv
  <2>2. CASE y = t
    <3>1. a \notin Node /\ (x \in lineage[a] \/ x = a)
      BY <1>2, <2>2 DEF TypeOK
    <3>2. x \in Task \ {t}
      BY <1>4, <1>5, <3>1 DEF TypeOK
    <3>3. Executed(x)
      BY <1>3, <3>2
    <3> QED BY <1>4, <3>1, <3>3 DEF BelowInv
  <2> QED BY <2>1, <2>2
<1>8. RootInv'
  <2> SUFFICES ASSUME NEW n \in Node, NEW y \in Task, Asked(y)', parent'[y] = n
      PROVE /\ ~blocking'[y] => home'[y] = n /\ status'[y] # "sent"
            /\ blocking'[y] /\ cp'[n] # "main" => Executed(y)'
            /\ cp'[n] = "reduce" /\ partialPending'[n] = 0 => Executed(y)'
    BY DEF RootInv
  <2>1. CASE y # t
    <3>1. /\ parent[y] = n /\ Asked(y) /\ home'[y] = home[y]
          /\ blocking'[y] = blocking[y] /\ status'[y] = status[y]
          /\ Executed(y) <=> Executed(y)'
      BY <1>1, <1>3, <2>1 DEF TypeOK
    <3> QED BY <1>1, <3>1 DEF RootInv
  <2>2. CASE y = t
    <3>1. a = n /\ blocking'[t] = w /\ home'[t] = m
      BY <1>1, <2>2 DEF TypeOK
    <3>2. cp[n] = "main"
      BY <3>1 DEF Call, InUserCode
    <3>3. ~w => home'[t] = n /\ status'[t] # "sent"
      BY <3>1 DEF At, Call, TypeOK
    <3> QED BY <1>1, <2>2, <3>1, <3>2, <3>3
  <2> QED BY <2>1, <2>2
<1>9. DetectedExecuted'
  <2>1. a \in Node => cp[a] = "main"
    BY DEF Call, InUserCode
  <2> QED BY <1>1, <1>4, <2>1 DEF DetectedExecuted, Detected, AllExecuted
<1> QED BY <1>6, <1>7, <1>8, <1>9

LEMMA NextStructured ==
  StructuredProgram /\ StructuredInv /\ [Next]_vars => StructuredInv'
<1> SUFFICES ASSUME StructuredProgram, StructuredInv, [Next]_vars
             PROVE  TreeInv' /\ BelowInv' /\ RootInv' /\ DetectedExecuted'
  BY NextType, NextCounts, NextRead DEF StructuredInv
<1>0. /\ TypeOK /\ CountsExact /\ ReadInv
      /\ TreeInv /\ BelowInv /\ RootInv /\ DetectedExecuted
  BY DEF StructuredInv
<1> USE <1>0
<1>1. ASSUME NEW a \in Caller, NEW t \in Task, NEW m \in Node,
             executeOn(a, t, m) \/ executeOnWait(a, t, m)
      PROVE  TreeInv' /\ BelowInv' /\ RootInv' /\ DetectedExecuted'
  BY <1>1, StructuredCall, CallStructured
<1>2. ASSUME NEW t \in Task, Runtime(t)
      PROVE  TreeInv' /\ BelowInv' /\ RootInv' /\ DetectedExecuted'
  <2>1. Progress
    BY <1>2 DEF Progress, Runtime, handleRequest, enqueue, tryDequeue, invoke,
       increaseTasksFinished, Asked, Executed, TypeOK
  <2>2. UNCHANGED <<cp, partialPending>>
    BY <1>2 DEF Runtime, handleRequest, enqueue, tryDequeue, invoke,
       increaseTasksFinished, waitVars
  <2>3. \A x \in Task : Executed(x)' => Executed(x) \/ ~Busy(x)
    BY <1>2 DEF Runtime, handleRequest, enqueue, tryDequeue, invoke,
       increaseTasksFinished, Executed, TypeOK
  <2>4. ASSUME Detected PROVE AllExecuted'
    BY <1>2, <2>4 DEF DetectedExecuted, AllExecuted, Runtime, handleRequest,
       enqueue, tryDequeue, invoke, increaseTasksFinished, TypeOK
  <2>5. DetectedExecuted'
    BY <2>2, <2>4 DEF DetectedExecuted, Detected
  <2> QED BY <2>1, <2>2, <2>3, <2>5, TreeProgress, BelowProgress, RootProgress
<1>3. ASSUME UNCHANGED <<taskVars>>
      PROVE  /\ TreeInv' /\ BelowInv' /\ Progress
             /\ \A t \in Task : (Asked(t)' <=> Asked(t)) /\ (Executed(t)' <=> Executed(t))
  BY <1>3 DEF taskVars, TreeInv, BelowInv, Progress, Asked, Executed
<1>4. ASSUME NEW n \in Node, waitAll(n) \/ readCreated(n)
      PROVE  TreeInv' /\ BelowInv' /\ RootInv' /\ DetectedExecuted'
  <2>1. UNCHANGED <<taskVars>>
    BY <1>4 DEF waitAll, readCreated
  <2>2. ASSUME NEW t \in Task, Asked(t), parent[t] = n, blocking[t]
        PROVE  Executed(t)
    <3>1. CASE waitAll(n)
      BY <2>2, <3>1 DEF waitAll, Busy, Asked
    <3>2. CASE readCreated(n)
      BY <2>2, <3>2 DEF readCreated, RootInv
    <3> QED BY <1>4, <3>1, <3>2
  <2>3. ASSUME NEW t \in Task, Asked(t), parent[t] = n, ~blocking[t],
               partialPending'[n] = 0
        PROVE  Executed(t)
    <3>1. t \in Counted(n)
      BY <2>3 DEF RootInv, Counted, Asked
    <3>2. CASE waitAll(n)
      <4>1. created[n] = 0
        BY <2>3, <3>2 DEF waitAll, TypeOK
      <4> QED BY <3>1, <4>1, FinishedAtMostCreated
    <3>3. CASE readCreated(n)
      <4>1. created[n] - finishedRead[n] = 0 /\ finishedRead[n] <= finished[n]
        BY <2>3, <3>3 DEF readCreated, ReadInv, ReadOK, TypeOK
      <4>2. finished[n] = created[n]
        BY <4>1, FinishedAtMostCreated DEF TypeOK
      <4>3. t \in Finished(n)
        BY <3>1, <4>2, FinishedAtMostCreated
      <4> QED BY <4>3 DEF Finished, Executed
    <3> QED BY <1>4, <3>2, <3>3
  <2>4. /\ \A k \in Node : k # n => cp'[k] = cp[k] /\ partialPending'[k] = partialPending[k]
        /\ cp'[n] = "reduce"
    BY <1>4 DEF waitAll, readCreated, TypeOK
  <2>5. RootInv'
    <3> SUFFICES ASSUME NEW k \in Node, NEW t \in Task, Asked(t), parent[t] = k
        PROVE /\ ~blocking[t] => home[t] = k /\ status[t] # "sent"
              /\ blocking[t] /\ cp'[k] # "main" => Executed(t)
              /\ cp'[k] = "reduce" /\ partialPending'[k] = 0 => Executed(t)
      BY <1>3, <2>1 DEF RootInv, taskVars
    <3>1. CASE k # n
      BY <2>4, <3>1 DEF RootInv
    <3>2. CASE k = n
      BY <2>2, <2>3, <2>4, <3>2 DEF RootInv
    <3> QED BY <3>1, <3>2
  <2>6. ~Detected'
    BY <2>4 DEF Detected
  <2> QED BY <1>3, <2>1, <2>5, <2>6 DEF DetectedExecuted
<1>5. ASSUME NEW n \in Node, readFinished(n) \/ return(n)
      PROVE  TreeInv' /\ BelowInv' /\ RootInv' /\ DetectedExecuted'
  <2>1. UNCHANGED <<taskVars>>
    BY <1>5 DEF readFinished, return
  <2>2. /\ \A k \in Node : cp'[k] = "reduce" => cp[k] = "reduce"
        /\ \A k \in Node : cp'[k] # "main" => cp[k] # "main"
        /\ UNCHANGED partialPending
    BY <1>5 DEF readFinished, return, waitVars, TypeOK
  <2>3. RootInv'
    BY <1>3, <2>1, <2>2 DEF RootInv, taskVars
  <2>4. ~Detected'
    BY <1>5 DEF readFinished, return, Detected, TypeOK
  <2> QED BY <1>3, <2>1, <2>3, <2>4 DEF DetectedExecuted
<1>6. ASSUME NEW n \in Node, stop(n)
      PROVE  TreeInv' /\ BelowInv' /\ RootInv' /\ DetectedExecuted'
  <2>1. Progress
    BY <1>6 DEF stop, Progress, Asked, Executed, TypeOK
  <2>2. \A x \in Task : Executed(x)' => Executed(x)
    BY <1>6 DEF stop, Executed, TypeOK
  <2>3. /\ \A k \in Node : cp'[k] = "reduce" => cp[k] = "reduce"
        /\ \A k \in Node : cp'[k] # "main" => cp[k] # "main"
        /\ UNCHANGED partialPending
    BY <1>6 DEF stop, waitVars, TypeOK
  <2>4. RootInv'
    BY <2>1, <2>3 DEF RootInv, Progress, TypeOK
  <2>5. ~Detected'
    BY <1>6 DEF stop, Detected, TypeOK
  <2> QED BY <2>1, <2>2, <2>4, <2>5, TreeProgress, BelowProgress DEF DetectedExecuted
<1>7. ASSUME allreduce
      PROVE  TreeInv' /\ BelowInv' /\ RootInv' /\ DetectedExecuted'
  <2>1. UNCHANGED <<taskVars>>
    BY <1>7 DEF allreduce
  <2>2. /\ \A k \in Node : cp'[k] # "reduce" /\ cp[k] # "main"
        /\ UNCHANGED partialPending
    BY <1>7 DEF allreduce, waitVars
  <2>3. RootInv'
    BY <1>3, <2>1, <2>2 DEF RootInv, taskVars
  <2>4. ASSUME Detected' PROVE AllExecuted
    <3>1. \A n \in Node : cp[n] = "reduce" /\ partialPending[n] = 0
      BY <1>7, <2>4, VerdictZero
    <3>2. ASSUME NEW r \in Task, Asked(r), parent[r] \in Node PROVE Executed(r)
      BY <3>1, <3>2 DEF RootInv
    <3>3. ASSUME NEW t \in Task, Asked(t) PROVE Executed(t)
      <4>1. CASE parent[t] \in Node
        BY <3>2, <3>3, <4>1
      <4>2. ASSUME NEW r \in lineage[t], parent[r] \in Node PROVE Executed(t)
        <5>1. r \in Task /\ Asked(r)
          BY <3>3 DEF TreeInv, TypeOK
        <5>2. Executed(r)
          BY <3>2, <4>2, <5>1
        <5> QED BY <3>3, <5>2 DEF BelowInv
      <4> QED BY <3>3, <4>1, <4>2 DEF TreeInv
    <3> QED BY <3>3 DEF AllExecuted, Asked, Executed
  <2>5. DetectedExecuted'
    BY <2>1, <2>4 DEF DetectedExecuted, AllExecuted, taskVars
  <2> QED BY <1>3, <2>1, <2>3, <2>5
<1>8. ASSUME UNCHANGED vars
      PROVE  TreeInv' /\ BelowInv' /\ RootInv' /\ DetectedExecuted'
  <2>1. UNCHANGED <<taskVars>> /\ UNCHANGED <<cp, partialPending>>
    BY <1>8 DEF vars, waitVars
  <2>2. RootInv'
    BY <1>3, <2>1, RootProgress
  <2>3. DetectedExecuted'
    BY <2>1 DEF DetectedExecuted, Detected, AllExecuted, taskVars
  <2> QED BY <1>3, <2>1, <2>2, <2>3
<1> QED
  BY <1>1, <1>2, <1>4, <1>5, <1>6, <1>7, <1>8
  DEF Next, CommandProcessor, PoweredOff

(***************************************************************************)
(* In a structured program waitAll returns only when the body of every     *)
(* task created so far has run, although remote tasks are not counted      *)
(* while they are in flight.                                               *)
(***************************************************************************)
THEOREM StructuredTermination ==
  ASSUME StructuredProgram
  PROVE  Spec => []DetectedExecuted
<1>1. StructuredInv /\ [Next]_vars => StructuredInv'
  BY NextStructured
<1>2. StructuredInv => DetectedExecuted
  BY DEF StructuredInv
<1> QED BY InitStructured, <1>1, <1>2, PTL DEF Spec

(***************************************************************************)
(* In a structured program a call of executeOnWait returns, to a task or   *)
(* to a CP, only when every task below in the tree of calls has executed.  *)
(***************************************************************************)
THEOREM WaitReturnsLast ==
  ASSUME StructuredProgram
  PROVE  Spec => []WaitsForSubtree
<1>1. StructuredInv /\ [Next]_vars => StructuredInv'
  BY NextStructured
<1>2. StructuredInv => WaitsForSubtree
  <2> SUFFICES ASSUME StructuredInv, NEW t \in Task, Asked(t)
               PROVE  /\ \A a \in lineage[t] : Executed(a) => Executed(t)
                      /\ \A r \in lineage[t] \cup {t} :
                           blocking[r] /\ parent[r] \in Node /\ cp[parent[r]] # "main"
                             => Executed(t)
    BY DEF WaitsForSubtree, Asked
  <2>1. \A a \in lineage[t] : Executed(a) => Executed(t)
    BY DEF StructuredInv, BelowInv
  <2>2. ASSUME NEW r \in lineage[t] \cup {t},
               blocking[r], parent[r] \in Node, cp[parent[r]] # "main"
        PROVE  Executed(t)
    <3>1. r \in Task /\ Asked(r)
      BY DEF StructuredInv, TreeInv, TypeOK
    <3>2. Executed(r)
      BY <2>2, <3>1 DEF StructuredInv, RootInv
    <3> QED BY <2>1, <3>2
  <2> QED BY <2>1, <2>2
<1> QED BY InitStructured, <1>1, <1>2, PTL DEF Spec

-----------------------------------------------------------------------------
(***************************************************************************)
(* Power off.  All nodes have completed the same number of waitAll calls,  *)
(* so a node that stops knows that the others are past their last one too. *)
(***************************************************************************)
Rounds(n) == IF cp[n] \in {"reduce", "readFinished", "readCreated"} THEN calls[n] - 1
                                                                    ELSE calls[n]

CallsInv ==
  /\ \A n, m \in Node : Rounds(n) = Rounds(m)
  /\ \A n \in Node :
       /\ calls[n] <= WaitAllCalls
       /\ cp[n] # "main" => calls[n] >= 1
       /\ cp[n] = "main" => calls[n] < WaitAllCalls \/ calls[n] = 0
       /\ cp[n] \in {"stopping", "down"} => calls[n] = WaitAllCalls

Ending == \E n \in Node : cp[n] \in {"stopping", "down"}

EndInv == NoTaskLost /\ (Ending => AllExecuted)

\* One node moves on, or all of them by a round of waitAll.
LEMMA NextCalls == TypeOK /\ CallsInv /\ [Next]_vars => CallsInv'
<1> SUFFICES ASSUME TypeOK, CallsInv, [Next]_vars PROVE CallsInv'
  OBVIOUS
<1> USE DEF TypeOK
<1>1. ASSUME NEW k \in Node,
             cp' = [cp EXCEPT ![k] = cp'[k]], calls' = [calls EXCEPT ![k] = calls'[k]],
             Rounds(k)' = Rounds(k), calls'[k] <= WaitAllCalls,
             cp'[k] # "main" => calls'[k] >= 1,
             cp'[k] = "main" => calls'[k] < WaitAllCalls \/ calls'[k] = 0,
             cp'[k] \in {"stopping", "down"} => calls'[k] = WaitAllCalls
      PROVE  CallsInv'
  <2>1. \A n \in Node : n # k => cp'[n] = cp[n] /\ calls'[n] = calls[n]
    BY <1>1
  <2>2. \A n \in Node : Rounds(n)' = Rounds(n)
    BY <1>1, <2>1 DEF Rounds
  <2> QED BY <1>1, <2>1, <2>2 DEF CallsInv
<1>2. ASSUME NEW n \in Node, waitAll(n) PROVE CallsInv'
  <2>1. /\ cp[n] = "main" /\ cp'[n] = "reduce" /\ calls'[n] = calls[n] + 1
        /\ calls[n] < WaitAllCalls /\ calls[n] \in Nat
        /\ cp' = [cp EXCEPT ![n] = cp'[n]] /\ calls' = [calls EXCEPT ![n] = calls'[n]]
    BY <1>2 DEF waitAll
  <2>2. Rounds(n)' = Rounds(n)
    BY <2>1 DEF Rounds
  <2>3. calls'[n] <= WaitAllCalls /\ calls'[n] >= 1
    BY <2>1, CountAssumption
  <2> QED BY <1>1, <2>1, <2>2, <2>3
<1>3. ASSUME NEW n \in Node, readFinished(n) \/ readCreated(n) PROVE CallsInv'
  <2>1. /\ cp[n] \in {"readFinished", "readCreated"} /\ cp'[n] \in {"readCreated", "reduce"}
        /\ calls' = calls /\ calls'[n] = calls[n]
        /\ cp' = [cp EXCEPT ![n] = cp'[n]] /\ calls' = [calls EXCEPT ![n] = calls'[n]]
    BY <1>3 DEF readFinished, readCreated
  <2>2. Rounds(n)' = Rounds(n)
    BY <2>1 DEF Rounds
  <2>3. calls[n] <= WaitAllCalls /\ calls[n] >= 1
    BY <2>1 DEF CallsInv
  <2> QED BY <1>1, <2>1, <2>2, <2>3
<1>4. ASSUME NEW n \in Node, return(n) PROVE CallsInv'
  <2>1. /\ cp[n] = "leave" /\ calls' = calls /\ calls'[n] = calls[n]
        /\ cp'[n] = IF calls[n] < WaitAllCalls THEN "main" ELSE "stopping"
        /\ cp' = [cp EXCEPT ![n] = cp'[n]] /\ calls' = [calls EXCEPT ![n] = calls'[n]]
    BY <1>4 DEF return, waitVars
  <2>2. Rounds(n)' = Rounds(n)
    BY <2>1 DEF Rounds
  <2>3. calls[n] <= WaitAllCalls /\ calls[n] >= 1 /\ calls[n] \in Nat
    BY <2>1 DEF CallsInv
  <2> QED BY <1>1, <2>1, <2>2, <2>3, CountAssumption
<1>5. ASSUME NEW n \in Node, stop(n) PROVE CallsInv'
  <2>1. /\ cp[n] = "stopping" /\ cp'[n] = "down" /\ calls' = calls /\ calls'[n] = calls[n]
        /\ cp' = [cp EXCEPT ![n] = cp'[n]] /\ calls' = [calls EXCEPT ![n] = calls'[n]]
    BY <1>5 DEF stop, waitVars
  <2>2. Rounds(n)' = Rounds(n)
    BY <2>1 DEF Rounds
  <2>3. calls[n] <= WaitAllCalls /\ calls[n] >= 1 /\ calls[n] = WaitAllCalls
    BY <2>1 DEF CallsInv
  <2> QED BY <1>1, <2>1, <2>2, <2>3
<1>6. ASSUME allreduce PROVE CallsInv'
  <2>1. /\ calls' = calls /\ \A n \in Node : cp[n] = "reduce"
        /\ (\A n \in Node : cp'[n] = "leave") \/ (\A n \in Node : cp'[n] = "readFinished")
    BY <1>6 DEF allreduce, waitVars
  <2>2. \A n, m \in Node : calls[n] = calls[m]
    BY <2>1 DEF CallsInv, Rounds
  <2>3. \A n, m \in Node : Rounds(n)' = Rounds(m)'
    BY <2>1, <2>2 DEF Rounds
  <2>4. \A n \in Node : cp'[n] \in {"leave", "readFinished"} /\ calls'[n] = calls[n]
    BY <2>1
  <2> QED BY <2>1, <2>3, <2>4 DEF CallsInv
<1>7. ASSUME UNCHANGED <<cp, calls>> PROVE CallsInv'
  BY <1>7 DEF CallsInv, Rounds
<1> QED
  BY <1>2, <1>3, <1>4, <1>5, <1>6, <1>7
  DEF Next, executeOn, executeOnWait, Call, Runtime, handleRequest, enqueue, tryDequeue, invoke,
      increaseTasksFinished, CommandProcessor, PoweredOff, vars, waitVars

\* When a node ends, the others have left their last waitAll or will.
LEMMA EndingCps ==
  ASSUME TypeOK, CallsInv, NEW n \in Node, cp[n] \in {"leave", "stopping", "down"},
         calls[n] = WaitAllCalls
  PROVE  \A m \in Node : cp[m] \in {"leave", "stopping", "down"}
<1> SUFFICES ASSUME NEW m \in Node PROVE cp[m] \in {"leave", "stopping", "down"}
  OBVIOUS
<1>1. calls[m] \in Nat /\ calls[m] <= WaitAllCalls /\ calls[n] >= 1 /\ WaitAllCalls \in Nat
  BY CountAssumption DEF CallsInv, TypeOK
<1>2. Rounds(n) = WaitAllCalls /\ Rounds(m) = Rounds(n)
  BY DEF Rounds, CallsInv
<1>3. cp[m] \notin {"reduce", "readFinished", "readCreated"}
  BY <1>1, <1>2 DEF Rounds
<1>4. calls[m] = WaitAllCalls
  BY <1>2, <1>3 DEF Rounds
<1>5. cp[m] # "main"
  BY <1>1, <1>4 DEF CallsInv
<1> QED BY <1>3, <1>5 DEF TypeOK, CpState

\* No task is created, and none is in the way, once a node ends.
LEMMA NextEnd ==
  ASSUME TypeOK, CallsInv, EndInv, DetectedExecuted, [Next]_vars
  PROVE  EndInv'
<1>0. NoTaskLost /\ (Ending => AllExecuted)
  BY DEF EndInv
<1>1. Ending => \A m \in Node : cp[m] \in {"leave", "stopping", "down"}
  BY EndingCps DEF Ending, CallsInv
<1>2. ASSUME NEW a \in Caller, NEW t \in Task, NEW m \in Node, NEW w \in BOOLEAN,
             Call(a, t, m, w)
      PROVE  EndInv'
  <2>1. /\ UNCHANGED cp /\ home' = [home EXCEPT ![t] = m]
        /\ \E s \in {"counted", "sent"} : status' = [status EXCEPT ![t] = s]
    BY <1>2 DEF Call
  <2>2. ~Ending
    <3> SUFFICES ASSUME Ending PROVE FALSE
      OBVIOUS
    <3>1. CASE a \in Node
      BY <1>1, <1>2, <3>1 DEF Call, InUserCode
    <3>2. CASE a \notin Node
      <4>1. a \in Task /\ status[a] = "running"
        BY <1>2, <3>2 DEF Call, InUserCode, Caller
      <4> QED BY <1>0, <4>1 DEF AllExecuted
    <3> QED BY <3>1, <3>2
  <2>3. \A n \in Node : cp'[n] # "down"
    BY <2>1, <2>2 DEF Ending
  <2>4. NoTaskLost'
    BY <1>0, <2>1, <2>3 DEF NoTaskLost, TypeOK
  <2> QED BY <2>1, <2>2, <2>4 DEF EndInv, Ending
<1>3. ASSUME NEW t \in Task, Runtime(t) PROVE EndInv'
  <2>1. /\ UNCHANGED <<home, cp>>
        /\ \E s \in Status : status' = [status EXCEPT ![t] = s]
        /\ status'[t] # "sent"
        /\ status'[t] = "dropped" => status[t] = "counted" /\ cp[home[t]] = "down"
        /\ status[t] \notin {"none", "finished"}
        /\ status[t] = "executed" => status'[t] = "finished"
    BY <1>3 DEF Runtime, handleRequest, enqueue, tryDequeue, invoke, increaseTasksFinished,
       Status, TypeOK
  <2>2. Ending => status[t] = "executed"
    BY <1>0, <2>1 DEF AllExecuted
  <2>3. status'[t] # "dropped"
    <3>1. status'[t] = "dropped" => Ending
      BY <2>1 DEF Ending, TypeOK
    <3> QED BY <2>1, <2>2, <3>1
  <2>4. NoTaskLost'
    BY <1>0, <2>1, <2>3 DEF NoTaskLost, TypeOK
  <2>5. Ending => AllExecuted'
    BY <1>0, <2>1, <2>2 DEF AllExecuted, TypeOK
  <2> QED BY <2>1, <2>4, <2>5 DEF EndInv, Ending
<1>4. ASSUME NEW n \in Node, waitAll(n) \/ readFinished(n) \/ readCreated(n) PROVE EndInv'
  <2>1. UNCHANGED <<status, home>> /\ \A m \in Node : cp'[m] \in {"stopping", "down"} => cp'[m] = cp[m]
    BY <1>4 DEF waitAll, readFinished, readCreated, taskVars, TypeOK
  <2> QED BY <1>0, <2>1 DEF EndInv, NoTaskLost, Ending, AllExecuted, TypeOK
<1>5. ASSUME NEW n \in Node, return(n) PROVE EndInv'
  <2>1. /\ UNCHANGED <<status, home>> /\ cp[n] = "leave"
        /\ cp' = [cp EXCEPT ![n] = IF calls[n] < WaitAllCalls THEN "main" ELSE "stopping"]
    BY <1>5 DEF return, taskVars
  <2>2. CASE calls[n] < WaitAllCalls
    <3>1. \A m \in Node : cp'[m] \in {"stopping", "down"} => cp'[m] = cp[m]
      BY <2>1, <2>2 DEF TypeOK
    <3> QED BY <1>0, <2>1, <3>1 DEF EndInv, NoTaskLost, Ending, AllExecuted, TypeOK
  <2>3. CASE ~(calls[n] < WaitAllCalls)
    <3>1. calls[n] = WaitAllCalls
      BY <2>3, CountAssumption DEF CallsInv, TypeOK
    <3>2. \A m \in Node : cp[m] \in {"leave", "stopping", "down"}
      BY <2>1, <3>1, EndingCps
    <3>3. AllExecuted
      BY <1>0, <3>2 DEF Ending, DetectedExecuted, Detected
    <3> QED BY <2>1, <3>3 DEF EndInv, NoTaskLost, AllExecuted
  <2> QED BY <2>2, <2>3
<1>6. ASSUME NEW n \in Node, stop(n) PROVE EndInv'
  <2>1. AllExecuted /\ UNCHANGED home
    BY <1>0, <1>6 DEF stop, Ending
  <2>2. \A t \in Task : status'[t] = status[t]
    BY <1>6, <2>1 DEF stop, AllExecuted
  <2> QED BY <2>1, <2>2 DEF EndInv, NoTaskLost, AllExecuted
<1>7. ASSUME allreduce PROVE EndInv'
  <2>1. UNCHANGED <<status, home>> /\ \A n \in Node : cp'[n] \in {"leave", "readFinished"}
    BY <1>7 DEF allreduce, taskVars
  <2> QED BY <1>0, <2>1 DEF EndInv, NoTaskLost, Ending, TypeOK
<1>8. ASSUME UNCHANGED vars PROVE EndInv'
  BY <1>0, <1>8 DEF vars, taskVars, EndInv, NoTaskLost, Ending, AllExecuted
<1> QED
  BY <1>2, <1>3, <1>4, <1>5, <1>6, <1>7, <1>8
  DEF Next, executeOn, executeOnWait, CommandProcessor, PoweredOff

LEMMA InitEnd == Init => CallsInv /\ EndInv
<1> SUFFICES ASSUME Init PROVE CallsInv /\ EndInv
  OBVIOUS
<1>1. \A n \in Node : cp[n] = "main" /\ calls[n] = 0
  BY DEF Init
<1>2. \A t \in Task : status[t] = "none"
  BY DEF Init
<1>3. CallsInv
  BY <1>1, CountAssumption DEF CallsInv, Rounds
<1> QED BY <1>1, <1>2, <1>3 DEF EndInv, NoTaskLost, Ending

(***************************************************************************)
(* In a local program no task is lost when the nodes power off: no queue   *)
(* is cleared with a task in it, and none is put in a queue that is gone.  *)
(***************************************************************************)
THEOREM LocalPowerOff ==
  ASSUME LocalProgram
  PROVE  Spec => []NoTaskLost
<1> DEFINE Inv == LocalInv /\ CallsInv /\ EndInv
<1>1. Init => Inv
  BY InitLocal, InitEnd
<1>2. Inv /\ [Next]_vars => Inv'
  <2> SUFFICES ASSUME Inv, [Next]_vars PROVE Inv'
    OBVIOUS
  <2>1. TypeOK /\ DetectedExecuted
    BY DEF LocalInv, DetectedQuiescent, Quiescent, DetectedExecuted, AllExecuted
  <2> QED BY <2>1, NextLocal, NextCalls, NextEnd
<1>3. Inv => NoTaskLost
  BY DEF EndInv
<1> QED BY <1>1, <1>2, <1>3, PTL DEF Spec

(***************************************************************************)
(* In a structured program no task is lost either, and no request is on    *)
(* its way to a node whose polling thread has ended.                       *)
(***************************************************************************)
THEOREM StructuredPowerOff ==
  ASSUME StructuredProgram
  PROVE  Spec => []NoTaskLost
<1> DEFINE Inv == StructuredInv /\ CallsInv /\ EndInv
<1>1. Init => Inv
  BY InitStructured, InitEnd
<1>2. Inv /\ [Next]_vars => Inv'
  <2> SUFFICES ASSUME Inv, [Next]_vars PROVE Inv'
    OBVIOUS
  <2>1. TypeOK /\ DetectedExecuted
    BY DEF StructuredInv
  <2> QED BY <2>1, NextStructured, NextCalls, NextEnd
<1>3. Inv => NoTaskLost
  BY DEF EndInv
<1> QED BY <1>1, <1>2, <1>3, PTL DEF Spec
=============================================================================
