---------------------------- MODULE DoAllProofs ----------------------------
(***************************************************************************)
(* Proofs about the parallel loops and their wait groups, for any number   *)
(* of nodes, cores and harts and any size of the loops: the counter of a   *)
(* WaitGroup is exact and outlives the tasks it counts; each WaitGroup is  *)
(* an implementation of ForkJoin; and a loop that has returned has run     *)
(* every task that was not refused.                                        *)
(***************************************************************************)
EXTENDS DoAll, FiniteSetTheorems, SequenceTheorems, TLAPS

\* Front and Last take apart what Append puts together.
LEMMA FrontLastAppend ==
  ASSUME NEW s \in Seq(Int), NEW e \in Int
  PROVE  Front(Append(s, e)) = s /\ Last(Append(s, e)) = e
<1> DEFINE t == Append(s, e)
           f == SubSeq(t, 1, Len(t) - 1)
<1>1. /\ t \in Seq(Int) /\ Len(t) = Len(s) + 1 /\ t[Len(t)] = e
      /\ \A i \in 1 .. Len(s) : t[i] = s[i]
  BY AppendProperties
<1>2. Len(s) \in Nat
  BY LenProperties
<1>3. f \in Seq(Int) /\ Len(f) = Len(s) /\ \A i \in 1 .. Len(s) : f[i] = s[i]
  <2>1. 1 \in 1 .. Len(t) + 1 /\ Len(t) - 1 \in 0 .. Len(t)
    BY <1>1, <1>2
  <2>2. f \in Seq(Int) /\ Len(f) = Len(t) - 1
    BY <1>1, <1>2, <2>1, SubSeqProperties
  <2>3. \A i \in 1 .. Len(s) : f[i] = t[i]
    BY <1>1, <1>2, <2>1, SubSeqProperties
  <2> QED BY <1>1, <1>2, <2>2, <2>3
<1>4. f = s
  BY <1>2, <1>3, SeqEqual
<1> QED BY <1>1, <1>4 DEF Front, Last

\* A path of two items is the path of one with the other appended.
LEMMA AppendPair ==
  ASSUME NEW i \in Int, NEW j \in Int
  PROVE  Append(<<i>>, j) = <<i, j>>
<1>1. <<i>> \in Seq(Int) /\ Len(<<i>>) = 1 /\ <<i>>[1] = i
  OBVIOUS
<1>2. <<i, j>> \in Seq(Int) /\ Len(<<i, j>>) = 2 /\ <<i, j>>[1] = i /\ <<i, j>>[2] = j
  OBVIOUS
<1> DEFINE t == Append(<<i>>, j)
<1>3. t \in Seq(Int) /\ Len(t) = 2 /\ t[1] = i /\ t[2] = j
  BY <1>1, AppendProperties
<1>4. \A k \in 1 .. 2 : k = 1 \/ k = 2
  OBVIOUS
<1> HIDE DEF t
<1>5. t = <<i, j>>
  BY <1>2, <1>3, <1>4, SeqEqual
<1> QED BY <1>5 DEF t

\* The path of an item of a loop gives back the caller and the item.
LEMMA ChildPath ==
  ASSUME NEW a \in Caller, NEW j \in 0 .. Size(a) - 1
  PROVE  /\ Child(a, j) \in Task /\ Front(Child(a, j)) = a /\ Last(Child(a, j)) = j
         /\ a = CP => Child(a, j) \in OuterTask
         /\ a # CP => Child(a, j) \in InnerTask
<1>0. Size(a) \in Nat
  BY DimsAssumption DEF Size
<1>1. a \in Seq(Int) /\ j \in Int
  <2>1. a = <<>> \/ \E i \in 0 .. OuterSize - 1 : a = <<i>>
    BY DEF Caller, OuterTask, CP
  <2>2. ASSUME NEW i \in 0 .. OuterSize - 1, a = <<i>> PROVE a \in Seq(Int)
    <3>1. i \in Int
      BY DimsAssumption
    <3> QED BY <2>2, <3>1
  <2>3. <<>> \in Seq(Int)
    BY EmptySeq
  <2>4. a \in Seq(Int)
    BY <2>1, <2>2, <2>3, Zenon
  <2>5. j \in Int
    BY <1>0
  <2> QED BY <2>4, <2>5, Zenon
<1>2. ASSUME a = CP PROVE Child(a, j) \in OuterTask /\ Child(a, j) \in Task
  <2>1. Child(a, j) = <<j>> /\ j \in 0 .. OuterSize - 1
    BY <1>2 DEF Child, CP, Size
  <2>2. Child(a, j) \in OuterTask
    BY <2>1 DEF OuterTask
  <2> QED BY <1>2, <2>2, Zenon DEF Task
<1>3. ASSUME a # CP PROVE Child(a, j) \in InnerTask /\ Child(a, j) \in Task
  <2>1. PICK i \in 0 .. OuterSize - 1 : a = <<i>>
    BY <1>3 DEF OuterTask, Caller
  <2>2. Child(a, j) = <<i, j>>
    BY <1>1, <2>1, AppendPair DEF Child
  <2>3. j \in 0 .. InnerSize - 1
    BY <1>3 DEF Size
  <2>4. Child(a, j) \in InnerTask
    BY <2>2, <2>3 DEF InnerTask
  <2> QED BY <1>3, <2>4, Zenon DEF Task
<1>4. Front(Child(a, j)) = a /\ Last(Child(a, j)) = j
  BY <1>1, FrontLastAppend, Zenon DEF Child
<1> QED BY <1>2, <1>3, <1>4

\* Every task is an item of the loop of a caller.
LEMMA TaskPath ==
  ASSUME NEW t \in Task
  PROVE  /\ Front(t) \in Caller /\ Last(t) \in 0 .. Size(Front(t)) - 1
         /\ t = Child(Front(t), Last(t)) /\ t # CP
         /\ t \in OuterTask <=> Front(t) = CP
<1>1. CASE t \in OuterTask
  <2>1. PICK i \in 0 .. OuterSize - 1 : t = <<i>>
    BY <1>1 DEF OuterTask
  <2>2. CP \in Caller /\ i \in 0 .. Size(CP) - 1 /\ t = Child(CP, i) /\ t # CP
    BY <2>1 DEF Caller, Size, Child, CP
  <2> QED BY <1>1, <2>2, ChildPath
<1>2. CASE t \in InnerTask
  <2>1. PICK i \in 0 .. OuterSize - 1, j \in 0 .. InnerSize - 1 : t = <<i, j>>
    BY <1>2 DEF InnerTask
  <2>2. /\ <<i>> \in Caller /\ <<i>> # CP /\ j \in 0 .. Size(<<i>>) - 1
        /\ t = Child(<<i>>, j) /\ t # CP /\ t \notin OuterTask
    BY <2>1 DEF Caller, Size, Child, CP, OuterTask
  <2> QED BY <2>2, ChildPath
<1> QED BY <1>1, <1>2 DEF Task

\* The callers of loops are the CP and the tasks of the outer loop.
LEMMA CallerKinds ==
  /\ CP \in Caller /\ CP \notin Task
  /\ \A a \in Caller : a # CP <=> a \in OuterTask
  /\ OuterTask \subseteq Task /\ OuterTask \subseteq Caller
  /\ \A a \in Caller : Size(a) \in Nat \ {0}
  BY DimsAssumption, TaskPath DEF Caller, Task, Size

\* There are finitely many tasks, so that they can be counted.
LEMMA TaskFinite == IsFiniteSet(Task)
<1>1. OuterSize - 1 \in Int /\ InnerSize - 1 \in Int /\ 0 \in Int
  BY DimsAssumption
<1>2. IsFiniteSet(0 .. OuterSize - 1) /\ IsFiniteSet(0 .. InnerSize - 1)
  BY <1>1, FS_Interval, Zenon
<1> DEFINE I == 0 .. OuterSize - 1
           J == 0 .. InnerSize - 1
           f == [i \in I |-> <<i>>]
           g == [p \in I \X J |-> <<p[1], p[2]>>]
<1>3. f \in Surjection(I, OuterTask)
  BY Zenon DEF OuterTask, Surjection
<1>4. InnerTask = I \X J
  BY DEF InnerTask
<1>5. IsFiniteSet(OuterTask)
  BY <1>2, <1>3, FS_Surjection
<1>6. IsFiniteSet(InnerTask)
  BY <1>2, <1>4, FS_Product
<1> QED BY <1>5, <1>6, FS_Union DEF Task

-----------------------------------------------------------------------------
(***************************************************************************)
(* The inductive invariant.                                                *)
(***************************************************************************)
\* Where the CP and a caller of a loop are, how far its loop is, and whether
\* the WaitGroup that it makes exists.
CallerInv ==
  /\ pc[CP] \in {"invoke", "create", "undo", "wait", "check", "over"}
  /\ pc[CP] = "undo" => variant # "even"
  /\ \A a \in OuterTask :
       /\ pc[a] \in {"none", "sent", "queued", "invoke"} => body[a] = "none"
       /\ pc[a] \in {"add", "added", "undoing", "undone"} => body[a] = "spawn"
       /\ pc[a] \in {"create", "undo"} => body[a] # "none"
       /\ pc[a] \in {"wait", "check"} => body[a] = "block"
  /\ \A a \in Caller :
       /\ pc[a] \in {"none", "sent", "queued", "invoke", "add", "added"} => iter[a] = 0
       /\ pc[a] \in {"create", "undoing"} => iter[a] < Size(a)
       /\ pc[a] \in {"create", "undo", "wait", "check"} /\ Group(a) = a
            <=> count[a] # Freed
       /\ pc[a] = "check" => count[a] = 0

\* Tasks are created in the order of the items.
TaskInv == \A t \in Task : Last(t) >= iter[Front(t)] => pc[t] = "none"

IInv ==
  /\ TypeOK /\ iter \in [Caller -> Int]
  /\ CallerInv /\ TaskInv /\ CountExact /\ GroupLives

\* The states in which a task has its done before it, and those in which a
\* caller has counted items for which it has not created tasks yet.
LivePc == {"sent", "queued"} \cup OnCore \cup (Yielding \ {"decremented"})
CountedPc == {"added", "create", "undo", "undoing", "undone"}

-----------------------------------------------------------------------------
(***************************************************************************)
(* What a step does to the tasks that a counter stands for.                *)
(***************************************************************************)
\* A step of a caller or task x that leaves the items of its loop alone, or
\* that has none of them left, concerns nobody's counter but that of x.
LEMMA PcStep ==
  ASSUME TypeOK, NEW x \in {CP} \cup Task, NEW q,
         pc[x] # "none", q # "none",
         pc' = [pc EXCEPT ![x] = q], UNCHANGED <<variant, body, iter>>,
         x \in Caller /\ iter[x] < Size(x) /\ ~Even(x)
           => (pc[x] \in CountedPc <=> q \in CountedPc)
  PROVE  /\ \A t \in Task : GroupOf(t)' = GroupOf(t)
         /\ \A t \in Task : t # x => (Owed(t)' <=> Owed(t))
         /\ x \in Task => (Owed(x) <=> pc[x] \in LivePc) /\ (Owed(x)' <=> q \in LivePc)
<1>1. \A t \in Task : GroupOf(t)' = GroupOf(t)
  BY DEF GroupOf, Group
<1>2. pc \in [{CP} \cup Task -> PcOfTask]
  BY DEF TypeOK
<1>3. ASSUME NEW t \in Task, t # x PROVE Owed(t)' <=> Owed(t)
  <2>1. pc'[t] = pc[t]
    BY <1>2, <1>3
  <2>2. Front(t) \in Caller /\ Last(t) \in Int /\ Last(t) < Size(Front(t))
    BY TaskPath, CallerKinds
  <2>3. iter[Front(t)] \in Int
    BY <2>2, CallerKinds DEF TypeOK
  <2>4. CASE Front(t) # x
    <3>1. Front(t) \in {CP} \cup Task
      BY <2>2, CallerKinds
    <3>2. pc'[Front(t)] = pc[Front(t)]
      BY <1>2, <2>4, <3>1
    <3> QED BY <2>1, <3>2 DEF Owed, Even
  <2>5. CASE Front(t) = x
    <3>1. pc'[x] = q
      BY <1>2
    <3>2. Even(x)' <=> Even(x)
      BY DEF Even
    <3>3. CASE Last(t) >= iter[x] /\ ~Even(x)
      <4>1. pc[x] \in CountedPc <=> q \in CountedPc
        BY <2>2, <2>3, <2>5, <3>3, CallerKinds
      <4> QED BY <2>1, <2>5, <3>1, <3>2, <4>1 DEF Owed, CountedPc
    <3>4. CASE ~(Last(t) >= iter[x] /\ ~Even(x))
      BY <2>1, <2>5, <3>1, <3>2, <3>4 DEF Owed
    <3> QED BY <3>3, <3>4
  <2> QED BY <2>4, <2>5
<1>4. ASSUME x \in Task
      PROVE  (Owed(x) <=> pc[x] \in LivePc) /\ (Owed(x)' <=> q \in LivePc)
  <2>1. pc'[x] = q
    BY <1>2
  <2> QED BY <2>1 DEF Owed, LivePc
<1> QED BY <1>1, <1>3, <1>4

\* The tasks that the counter of w stands for.
Stands(w) == {t \in Task : GroupOf(t) = w /\ Owed(t)}

\* A counter stands for finitely many tasks,
LEMMA StandsFinite ==
  ASSUME NEW w
  PROVE  IsFiniteSet(Stands(w)) /\ Cardinality(Stands(w)) \in Nat
<1>1. Stands(w) \subseteq Task
  BY DEF Stands
<1> QED BY <1>1, TaskFinite, FS_Subset, FS_CardinalityType

\* before and after a step.
LEMMA StandsFinitePrime ==
  ASSUME NEW w
  PROVE  IsFiniteSet(Stands(w)') /\ Cardinality(Stands(w)') \in Nat
<1>1. Stands(w)' \subseteq Task
  BY DEF Stands
<1> QED BY <1>1, TaskFinite, FS_Subset, FS_CardinalityType

\* The tasks counted and the counters stay as they are.
LEMMA CountSame ==
  ASSUME CountExact, GroupLives, UNCHANGED count,
         \A t \in Task : GroupOf(t)' = GroupOf(t) /\ (Owed(t)' <=> Owed(t))
  PROVE  CountExact' /\ GroupLives'
<1>1. \A a : Stands(a)' = Stands(a)
  BY DEF Stands
<1> QED BY <1>1 DEF CountExact, GroupLives, Stands

\* One done: a task that is counted leaves the count of its group.
LEMMA CountDown ==
  ASSUME TypeOK, CountExact, GroupLives, NEW x \in Task, NEW w \in Caller,
         GroupOf(x) = w, Owed(x), ~Owed(x)',
         \A t \in Task : GroupOf(t)' = GroupOf(t),
         \A t \in Task : t # x => (Owed(t)' <=> Owed(t)),
         count' = [count EXCEPT ![w] = @ - 1]
  PROVE  CountExact' /\ GroupLives' /\ count' \in [Caller -> Int \cup {Freed}]
<1>1. count \in [Caller -> Int \cup {Freed}] /\ count[w] # Freed /\ count[w] \in Int
  BY DEF TypeOK, GroupLives
<1>2. count'[w] = count[w] - 1 /\ count'[w] \in Int /\ count'[w] # Freed
  BY <1>1, DimsAssumption
<1>3. \A a \in Caller : a # w => count'[a] = count[a] /\ Stands(a)' = Stands(a)
  BY <1>1 DEF Stands
<1>4. Stands(w)' = Stands(w) \ {x} /\ x \in Stands(w)
  BY DEF Stands
<1>5. Cardinality(Stands(w)') = Cardinality(Stands(w)) - 1
  <2>1. PICK S : S = Stands(w) /\ IsFiniteSet(S)
    BY StandsFinite
  <2>2. Cardinality(S \ {x}) = Cardinality(S) - 1
    BY <1>4, <2>1, FS_RemoveElement
  <2> QED BY <1>4, <2>1, <2>2
<1>6. CountExact'
  BY <1>1, <1>2, <1>3, <1>5 DEF CountExact, Stands
<1>7. GroupLives'
  BY <1>1, <1>2, <1>3 DEF GroupLives, TypeOK
<1> QED BY <1>1, <1>2, <1>6, <1>7

\* An add, or a new group: the tasks S join the count of group w.
LEMMA CountMore ==
  ASSUME TypeOK, CountExact, GroupLives, NEW w \in Caller, NEW S \in SUBSET Task,
         \A t \in Task : Owed(t) => GroupOf(t)' = GroupOf(t),
         \A t \in Task : Owed(t)' <=> Owed(t) \/ t \in S,
         \A t \in S : ~Owed(t) /\ GroupOf(t)' = w,
         count' = [count EXCEPT ![w] = Cardinality(Stands(w)) + Cardinality(S)]
  PROVE  CountExact' /\ GroupLives' /\ count' \in [Caller -> Int \cup {Freed}]
<1>1. count \in [Caller -> Int \cup {Freed}]
  BY DEF TypeOK
<1>2. IsFiniteSet(S) /\ Cardinality(S) \in Nat
  BY TaskFinite, FS_Subset, FS_CardinalityType
<1>3. IsFiniteSet(Stands(w)) /\ Cardinality(Stands(w)) \in Nat
  BY StandsFinite
<1>4. /\ count'[w] = Cardinality(Stands(w)) + Cardinality(S)
      /\ count'[w] \in Int /\ count'[w] # Freed
  BY <1>1, <1>2, <1>3, DimsAssumption
<1>5. \A a \in Caller : a # w => count'[a] = count[a] /\ Stands(a)' = Stands(a)
  BY <1>1 DEF Stands
<1>6. Stands(w)' = Stands(w) \cup S /\ Stands(w) \cap S = {}
  BY DEF Stands
<1>7. Cardinality(Stands(w)') = Cardinality(Stands(w)) + Cardinality(S)
  <2>1. Cardinality(Stands(w) \cup S)
          = Cardinality(Stands(w)) + Cardinality(S) - Cardinality(Stands(w) \cap S)
    BY <1>2, <1>3, FS_Union
  <2>2. Cardinality(Stands(w) \cap S) = 0
    BY <1>6, FS_EmptySet
  <2> QED BY <1>2, <1>3, <1>6, <2>1, <2>2
<1>8. CountExact'
  BY <1>4, <1>5, <1>7 DEF CountExact, Stands
<1>9. GroupLives'
  BY <1>4, <1>5 DEF GroupLives
<1> QED BY <1>1, <1>4, <1>8, <1>9

\* The tasks of the loop of caller a.
ItemsOf(a) == {t \in Task : Front(t) = a}

\* A loop has as many tasks as items.
LEMMA ItemsCount ==
  ASSUME NEW a \in Caller
  PROVE  Cardinality(ItemsOf(a)) = Size(a)
<1> DEFINE I == 0 .. Size(a) - 1
           f == [j \in I |-> Child(a, j)]
<1>1. Size(a) \in Nat \ {0}
  BY CallerKinds
<1>2. IsFiniteSet(I) /\ Cardinality(I) = Size(a)
  <2>1. 0 \in Int /\ Size(a) - 1 \in Int
    BY <1>1
  <2>2. /\ IsFiniteSet(I)
        /\ Cardinality(I) = IF 0 > Size(a) - 1 THEN 0 ELSE (Size(a) - 1) - 0 + 1
    BY <2>1, FS_Interval, Zenon
  <2> QED BY <1>1, <2>2
<1>3. f \in Bijection(I, ItemsOf(a))
  <2>1. \A j \in I : f[j] \in ItemsOf(a) /\ Last(f[j]) = j
    BY ChildPath DEF ItemsOf
  <2>2. ASSUME NEW t \in ItemsOf(a) PROVE \E j \in I : f[j] = t
    <3>1. Last(t) \in I /\ t = Child(a, Last(t))
      BY TaskPath DEF ItemsOf
    <3> QED BY <3>1
  <2>3. f \in [I -> ItemsOf(a)]
    BY <2>1
  <2>4. \A i, j \in I : f[i] = f[j] => i = j
    BY <2>1
  <2> HIDE DEF f, I
  <2>5. f \in Injection(I, ItemsOf(a))
    BY <2>3, <2>4 DEF Injection, IsInjective
  <2>6. f \in Surjection(I, ItemsOf(a))
    BY <2>2, <2>3 DEF Surjection
  <2> QED BY <2>5, <2>6, Zenon DEF Bijection
<1> QED BY <1>2, <1>3, FS_Bijection, ZenonT(60) DEF ExistsBijection

-----------------------------------------------------------------------------
(***************************************************************************)
(* The invariant is kept by every step.                                    *)
(***************************************************************************)
LEMMA IInvParts ==
  ASSUME IInv
  PROVE  /\ TypeOK /\ iter \in [Caller -> Int] /\ CallerInv /\ TaskInv
         /\ CountExact /\ GroupLives
         /\ pc \in [{CP} \cup Task -> PcOfTask] /\ body \in [OuterTask -> {"none", "block", "spawn"}]
         /\ count \in [Caller -> Int \cup {Freed}]
  BY DEF IInv, TypeOK

\* A caller that has passed its wait has no task left.
LEMMA CheckEmpty ==
  ASSUME IInv, NEW a \in Caller, pc[a] = "check"
  PROVE  Stands(a) = {}
<1>1. count[a] = 0 /\ count[a] # Freed
  BY IInvParts, DimsAssumption DEF CallerInv
<1>2. Cardinality(Stands(a)) = 0
  BY <1>1, IInvParts DEF CountExact, Stands
<1> QED BY <1>2, StandsFinite, FS_EmptySet

\* The group of a task that is counted is open, or its maker waits for it.
LEMMA GroupOpen ==
  ASSUME IInv, NEW t \in Task, Owed(t)
  PROVE  /\ GroupOf(t) \in Caller /\ count[GroupOf(t)] \in Int
         /\ pc[GroupOf(t)] \in {"create", "undo", "wait"}
         /\ Group(GroupOf(t)) = GroupOf(t)
<1>1. GroupOf(t) \in Caller
  BY TaskPath, CallerKinds DEF GroupOf, Group
<1>2. count[GroupOf(t)] # Freed
  BY IInvParts DEF GroupLives
<1>3. GroupOf(t) \in Caller => t \in Stands(GroupOf(t))
  BY DEF Stands
<1>4. pc[GroupOf(t)] # "check"
  BY <1>1, <1>3, CheckEmpty
<1> QED BY <1>1, <1>2, <1>4, IInvParts DEF CallerInv

\* A step of x that changes no counter, no loop and no body.
LEMMA QuietStep ==
  ASSUME IInv, TypeOK', NEW x \in {CP} \cup Task, NEW q,
         pc[x] # "none", q # "none",
         pc' = [pc EXCEPT ![x] = q], UNCHANGED <<variant, body, iter, count>>,
         x \in Caller /\ iter[x] < Size(x) /\ ~Even(x)
           => (pc[x] \in CountedPc <=> q \in CountedPc),
         x \in Task => (pc[x] \in LivePc <=> q \in LivePc),
         CallerInv'
  PROVE  IInv'
<1>1. /\ TypeOK /\ iter \in [Caller -> Int] /\ TaskInv /\ CountExact /\ GroupLives
      /\ pc \in [{CP} \cup Task -> PcOfTask]
  BY IInvParts
<1>2. \A t \in Task : GroupOf(t)' = GroupOf(t) /\ (Owed(t)' <=> Owed(t))
  BY <1>1, PcStep
<1>3. CountExact' /\ GroupLives'
  BY <1>1, <1>2, CountSame
<1>4. TaskInv'
  BY <1>1 DEF TaskInv
<1> QED BY <1>1, <1>3, <1>4 DEF IInv

\* One lemma for each operation of the runtime, of a task and of a caller:
\* the operation preserves the invariant.
LEMMA HandleRequestInv ==
  ASSUME IInv, NEW t \in Task, handleRequest(t) PROVE IInv'
<1> USE IInvParts
<1>1. TypeOK'
  BY DEF TypeOK, handleRequest, PcOfTask
<1>2. CallerInv'
  BY CallerKinds DEF CallerInv, handleRequest, Group
<1> QED BY <1>1, <1>2, QuietStep DEF handleRequest, CountedPc, LivePc, Yielding, OnCore

LEMMA TryDequeueInv ==
  ASSUME IInv, NEW t \in Task, tryDequeue(t) PROVE IInv'
<1> USE IInvParts
<1>1. TypeOK'
  BY DEF TypeOK, tryDequeue, PcOfTask, OnCore
<1>2. CallerInv'
  BY CallerKinds DEF CallerInv, tryDequeue, Group
<1> QED BY <1>1, <1>2, QuietStep DEF tryDequeue, CountedPc, LivePc, Yielding, OnCore

LEMMA LockInv ==
  ASSUME IInv, NEW t \in Task, lock(t) \/ unlock(t) PROVE IInv'
<1> USE IInvParts
<1>1. TypeOK'
  BY DEF TypeOK, lock, unlock, PcOfTask, OnCore
<1>2. CallerInv'
  BY CallerKinds DEF CallerInv, lock, unlock, Group
<1> QED BY <1>1, <1>2, QuietStep DEF lock, unlock, CountedPc, LivePc, Yielding, OnCore

LEMMA StealInv ==
  ASSUME IInv, NEW c \in Core, workStealing(c) \/ stealTask(c) PROVE IInv'
<1> USE IInvParts
<1>1. TypeOK'
  <2>1. /\ pc' \in [{CP} \cup Task -> PcOfTask]
        /\ at' \in [Task -> Core \cup {Nowhere}]
    BY DEF TypeOK, workStealing, stealTask, Queue, PcOfTask, OnCore
  <2>2. grab' \in [Core -> BOOLEAN]
    BY DEF TypeOK, workStealing, stealTask
  <2> QED BY <2>1, <2>2 DEF TypeOK, workStealing, stealTask
<1>2. CallerInv'
  BY CallerKinds DEF CallerInv, workStealing, stealTask, Queue, Group
<1>3. CASE UNCHANGED pc /\ UNCHANGED <<variant, body, iter, count>>
  <2>1. \A t \in Task : GroupOf(t)' = GroupOf(t) /\ (Owed(t)' <=> Owed(t))
    BY <1>3 DEF GroupOf, Group, Owed, Even
  <2>2. CountExact' /\ GroupLives'
    BY <2>1, <1>3, CountSame
  <2>3. TaskInv'
    BY <1>3 DEF TaskInv
  <2> QED BY <1>1, <1>2, <1>3, <2>2, <2>3 DEF IInv
<1>4. CASE /\ \E t \in Task : pc[t] = "queued" /\ pc' = [pc EXCEPT ![t] = "invoke"]
           /\ UNCHANGED <<variant, body, iter, count>>
  BY <1>1, <1>2, <1>4, QuietStep DEF CountedPc, LivePc, Yielding, OnCore
<1> QED BY <1>3, <1>4 DEF workStealing, stealTask, Queue

LEMMA ResumeInv ==
  ASSUME IInv, NEW t \in OuterTask, resumeAdd(t) \/ resumeUndo(t) PROVE IInv'
<1> USE IInvParts
<1>1. TypeOK'
  BY CallerKinds DEF TypeOK, resumeAdd, resumeUndo, PcOfTask, OnCore
<1>2. CallerInv'
  <2>1. t \in Task /\ t # CP /\ Size(t) \in Nat \ {0} /\ t \in Caller
    BY CallerKinds
  <2> QED BY <2>1, CallerKinds DEF CallerInv, resumeAdd, resumeUndo, Group
<1> QED BY <1>1, <1>2, QuietStep, CallerKinds
        DEF resumeAdd, resumeUndo, CountedPc, LivePc, Yielding, OnCore

LEMMA WaitInv ==
  ASSUME IInv, NEW a \in Caller, wait(a) PROVE IInv'
<1> USE IInvParts
<1>1. TypeOK'
  BY CallerKinds DEF TypeOK, wait, PcOfTask, OnCore
<1>2. CallerInv'
  BY CallerKinds DEF CallerInv, wait, Group
<1> QED BY <1>1, <1>2, QuietStep, CallerKinds
        DEF wait, CountedPc, LivePc, Yielding, OnCore

LEMMA InitializeFailsInv ==
  ASSUME IInv, NEW a \in Caller, initializeFails(a) PROVE IInv'
<1> USE IInvParts
<1>1. TypeOK'
  BY CallerKinds DEF TypeOK, initializeFails, PcOfTask, OnCore, AfterLoop
<1>2. CallerInv'
  BY CallerKinds DEF CallerInv, initializeFails, Group, AfterLoop
<1> QED BY <1>1, <1>2, QuietStep, CallerKinds
        DEF initializeFails, AfterLoop, CountedPc, LivePc, Yielding, OnCore

LEMMA DeinitializeInv ==
  ASSUME IInv, NEW a \in Caller, deinitialize(a) PROVE IInv'
<1> USE IInvParts
<1>1. TypeOK'
  BY CallerKinds DEF TypeOK, deinitialize, PcOfTask, OnCore, AfterLoop
<1>2. CallerInv'
  BY CallerKinds, DimsAssumption DEF CallerInv, deinitialize, Group, AfterLoop
<1>3. \A t \in Task : GroupOf(t)' = GroupOf(t) /\ (Owed(t)' <=> Owed(t))
  <2>1. /\ AfterLoop(a) # "none" /\ AfterLoop(a) \notin CountedPc
        /\ a # CP => AfterLoop(a) \in LivePc
    BY DEF AfterLoop, CountedPc, LivePc, OnCore
  <2>2. /\ pc[a] = "check" /\ "check" \in LivePc /\ "check" \notin CountedPc
        /\ pc' = [pc EXCEPT ![a] = AfterLoop(a)] /\ UNCHANGED <<variant, body, iter>>
    BY DEF deinitialize, CountedPc, LivePc, OnCore
  <2>3. a \in {CP} \cup Task
    BY CallerKinds
  <2> QED BY <2>1, <2>2, <2>3, PcStep, CallerKinds
<1>4. Stands(a) = {}
  BY CheckEmpty DEF deinitialize
<1>5. GroupLives'
  BY <1>3, <1>4 DEF GroupLives, Stands, deinitialize
<1>6. CountExact'
  <2>1. \A b : Stands(b)' = Stands(b)
    BY <1>3 DEF Stands
  <2>2. \A b \in Caller : count'[b] # Freed => count'[b] = count[b]
    BY DEF deinitialize
  <2> QED BY <2>1, <2>2 DEF CountExact, Stands
<1>7. TaskInv'
  BY CallerKinds DEF TaskInv, deinitialize
<1> QED BY <1>1, <1>2, <1>5, <1>6, <1>7 DEF IInv, deinitialize

\* A step of t that takes it out of the count of its group.
LEMMA DoneStep ==
  ASSUME IInv, NEW t \in Task, NEW q \in {"decremented", "over"},
         pc[t] \in {"done", "decrement"},
         pc' = [pc EXCEPT ![t] = q],
         count' = [count EXCEPT ![GroupOf(t)] = @ - 1],
         at' \in [Task -> Core \cup {Nowhere}],
         UNCHANGED <<variant, tooLarge, body, iter, status, mutex, grab>>
  PROVE  /\ IInv' /\ Owed(t) /\ ~Owed(t)'
         /\ \A u \in Task : GroupOf(u)' = GroupOf(u)
         /\ \A u \in Task : u # t => (Owed(u)' <=> Owed(u))
<1> USE IInvParts
<1> DEFINE w == GroupOf(t)
<1>1. /\ pc[t] \in LivePc /\ pc[t] \notin CountedPc /\ pc[t] # "none"
      /\ q \notin LivePc /\ q \notin CountedPc /\ q # "none"
  BY DEF LivePc, CountedPc, OnCore, Yielding
<1>2. /\ \A u \in Task : GroupOf(u)' = GroupOf(u)
      /\ \A u \in Task : u # t => (Owed(u)' <=> Owed(u))
      /\ Owed(t) /\ ~Owed(t)'
  BY <1>1, PcStep
<1>3. /\ w \in Caller /\ count[w] \in Int /\ pc[w] \in {"create", "undo", "wait"}
      /\ Group(w) = w
  BY <1>2, GroupOpen
<1>4. CountExact' /\ GroupLives' /\ count' \in [Caller -> Int \cup {Freed}]
  BY <1>2, <1>3, CountDown
<1>5. TypeOK'
  BY <1>4 DEF TypeOK, PcOfTask, Yielding
<1>6. CallerInv'
  <2>1. \A a \in Caller : (count'[a] # Freed <=> count[a] # Freed)
    BY <1>3, DimsAssumption
  <2>2. \A a \in Caller : pc[a] = "check" => count'[a] = count[a]
    BY <1>3
  <2> QED BY <2>1, <2>2, CallerKinds DEF CallerInv, Group
<1>7. TaskInv'
  BY <1>1 DEF TaskInv
<1> QED BY <1>2, <1>4, <1>5, <1>6, <1>7 DEF IInv

LEMMA DoneInv ==
  ASSUME IInv, NEW t \in Task, done(t) \/ handleDecrement(t) \/ resumeDone(t)
  PROVE  IInv'
<1> USE IInvParts
<1>1. at \in [Task -> Core \cup {Nowhere}]
  BY DEF TypeOK
<1>2. CASE done(t) /\ pc' = [pc EXCEPT ![t] = "over"]
  BY <1>1, <1>2, DoneStep DEF done
<1>3. CASE handleDecrement(t)
  BY <1>1, <1>3, DoneStep DEF handleDecrement
<1>4. CASE done(t) /\ pc' = [pc EXCEPT ![t] = "decrement"]
  <2>0. /\ pc[t] = "done" /\ pc' = [pc EXCEPT ![t] = "decrement"]
        /\ UNCHANGED <<variant, tooLarge, at, body, iter, count, status, mutex, grab>>
    BY <1>4 DEF done
  <2>1. TypeOK'
    BY <2>0 DEF TypeOK, PcOfTask, Yielding
  <2>2. CallerInv'
    BY <2>0, CallerKinds DEF CallerInv, Group
  <2> QED BY <2>0, <2>1, <2>2, QuietStep DEF CountedPc, LivePc, Yielding, OnCore
<1>5. CASE resumeDone(t)
  <2>1. TypeOK'
    BY <1>5 DEF TypeOK, PcOfTask, resumeDone
  <2>2. CallerInv'
    BY <1>5, CallerKinds DEF CallerInv, Group, resumeDone
  <2> QED BY <1>5, <2>1, <2>2, QuietStep
          DEF resumeDone, CountedPc, LivePc, Yielding, OnCore
<1> QED BY <1>2, <1>3, <1>4, <1>5 DEF done

\* A done for an item that is given up: q is where caller a is next.
LEMMA UndoStep ==
  ASSUME IInv, NEW a \in Caller, NEW q,
         (pc[a] = "undo" /\ q = "undo") \/ (pc[a] = "undoing" /\ q = "undone"),
         iter[a] < Size(a),
         pc' = [pc EXCEPT ![a] = q],
         count' = [count EXCEPT ![Group(a)] = @ - 1],
         iter' = [iter EXCEPT ![a] = @ + 1],
         UNCHANGED <<variant, tooLarge, at, body, status, mutex, grab>>
  PROVE  /\ IInv'
         /\ \A t \in Task : GroupOf(t)' = GroupOf(t)
         /\ \A t \in Task : pc[t] # "none" => (Owed(t)' <=> Owed(t))
<1> USE IInvParts
<1>1. iter[a] \in 0 .. Size(a) - 1 /\ Size(a) \in Nat /\ iter[a] \in Int
  BY CallerKinds DEF TypeOK
<1>2. PICK x \in Task : x = Child(a, iter[a]) /\ Front(x) = a /\ Last(x) = iter[a]
  BY <1>1, ChildPath
<1>3. pc[x] = "none"
  BY <1>1, <1>2 DEF TaskInv
<1>4. ~Even(a)
  BY CallerKinds DEF CallerInv, Even
<1>5. /\ pc[a] \in CountedPc /\ q \in CountedPc /\ pc[a] \in LivePc /\ q \in LivePc
      /\ pc[a] # "none" /\ q # "none" /\ a \in {CP} \cup Task /\ x # a
  BY <1>3, CallerKinds DEF CountedPc, LivePc, OnCore, Yielding
<1>6. /\ \A u \in {CP} \cup Task : u # a => pc'[u] = pc[u]
      /\ pc'[a] = q
      /\ \A b \in Caller : b # a => iter'[b] = iter[b]
      /\ iter'[a] = iter[a] + 1
  BY <1>5
<1>7. \A t \in Task : GroupOf(t)' = GroupOf(t)
  BY DEF GroupOf, Group
<1>8. Owed(x) /\ ~Owed(x)'
  <2>1. Owed(x)
    BY <1>1, <1>2, <1>3, <1>4, <1>5 DEF Owed, CountedPc
  <2>2. pc'[x] = "none" /\ Front(x) = a /\ ~(Last(x) >= iter'[a])
    BY <1>1, <1>2, <1>3, <1>5, <1>6
  <2>3. ~Owed(x)'
    BY <2>2 DEF Owed, OnCore, Yielding
  <2> QED BY <2>1, <2>3
<1>9. ASSUME NEW t \in Task, t # x PROVE Owed(t)' <=> Owed(t)
  <2>1. /\ Front(t) \in Caller /\ Last(t) \in Int /\ t = Child(Front(t), Last(t))
        /\ Front(t) \in {CP} \cup Task
    BY TaskPath, CallerKinds
  <2>2. CASE t = a
    <3>1. pc[t] \in LivePc /\ pc'[t] \in LivePc
      BY <1>5, <1>6, <2>2
    <3> QED BY <3>1 DEF Owed, LivePc
  <2>3. CASE t # a /\ Front(t) = a
    <3>1. Last(t) # iter[a] /\ pc'[t] = pc[t]
      BY <1>2, <1>6, <1>9, <2>1, <2>3
    <3>2. Last(t) >= iter[a] <=> Last(t) >= iter'[a]
      BY <1>1, <1>6, <2>1, <3>1
    <3>3. Even(a)' = Even(a) /\ pc'[a] \in CountedPc
      BY <1>5, <1>6 DEF Even
    <3> QED BY <1>4, <1>5, <2>3, <3>1, <3>2, <3>3 DEF Owed, CountedPc
  <2>4. CASE t # a /\ Front(t) # a
    <3>1. pc'[t] = pc[t] /\ pc'[Front(t)] = pc[Front(t)] /\ iter'[Front(t)] = iter[Front(t)]
      BY <1>6, <2>1, <2>4
    <3> QED BY <3>1 DEF Owed, Even
  <2> QED BY <2>2, <2>3, <2>4
<1>10. PICK w : w = Group(a) /\ GroupOf(x) = w
  BY <1>2 DEF GroupOf
<1>11. /\ w \in Caller /\ count[w] \in Int /\ pc[w] \in {"create", "undo", "wait"}
  BY <1>2, <1>8, <1>10, GroupOpen
<1>12. CountExact' /\ GroupLives' /\ count' \in [Caller -> Int \cup {Freed}]
  BY <1>7, <1>8, <1>9, <1>10, <1>11, CountDown
<1>13. iter' \in [Caller -> Int]
  BY <1>1
<1>14. TypeOK'
  <2>1. pc' \in [{CP} \cup Task -> PcOfTask]
    BY DEF PcOfTask, OnCore, Yielding
  <2>2. \A b \in Caller : iter'[b] \in 0 .. Size(b)
    BY <1>1, <1>6 DEF TypeOK
  <2> QED BY <1>12, <2>1, <2>2 DEF TypeOK, Size
<1>15. CallerInv'
  <2>1. \A b \in Caller : (count'[b] # Freed <=> count[b] # Freed)
    BY <1>10, <1>11, DimsAssumption
  <2>2. \A b \in Caller : pc[b] = "check" => count'[b] = count[b]
    BY <1>10, <1>11
  <2>3. pc'[CP] = pc[CP]
    BY <1>6, CallerKinds DEF CallerInv
  <2>4. ASSUME NEW b \in Caller
        PROVE  /\ pc'[b] \in {"none", "sent", "queued", "invoke", "add", "added"} => iter'[b] = 0
               /\ pc'[b] \in {"create", "undoing"} => iter'[b] < Size(b)
               /\ pc'[b] \in {"create", "undo", "wait", "check"} /\ Group(b)' = b
                   <=> count'[b] # Freed
               /\ pc'[b] = "check" => count'[b] = 0
    <3>1. Group(b)' = Group(b)
      BY DEF Group
    <3>2. CASE b # a
      BY <1>6, <2>1, <2>2, <3>1, <3>2, CallerKinds DEF CallerInv
    <3>3. CASE b = a
      BY <1>6, <2>1, <2>2, <3>1, <3>3, CallerKinds DEF CallerInv
    <3> QED BY <3>2, <3>3
  <2>5. ASSUME NEW b \in OuterTask
        PROVE  /\ pc'[b] \in {"none", "sent", "queued", "invoke"} => body'[b] = "none"
               /\ pc'[b] \in {"add", "added", "undoing", "undone"} => body'[b] = "spawn"
               /\ pc'[b] \in {"create", "undo"} => body'[b] # "none"
               /\ pc'[b] \in {"wait", "check"} => body'[b] = "block"
    BY <1>6, CallerKinds DEF CallerInv
  <2> QED BY <2>3, <2>4, <2>5 DEF CallerInv, Size
<1>16. TaskInv'
  <2> SUFFICES ASSUME NEW t \in Task, Last(t) >= iter'[Front(t)] PROVE pc'[t] = "none"
    BY DEF TaskInv
  <2>1. Front(t) \in Caller /\ Last(t) \in Int
    BY TaskPath, CallerKinds
  <2>2. Last(t) >= iter[Front(t)]
    BY <1>1, <1>6, <2>1
  <2>3. pc[t] = "none"
    BY <2>2 DEF TaskInv
  <2> QED BY <1>5, <1>6, <2>3
<1> QED BY <1>3, <1>7, <1>9, <1>12, <1>13, <1>14, <1>15, <1>16 DEF IInv

LEMMA UndoInv ==
  ASSUME IInv, NEW a \in Caller, undo(a) PROVE IInv'
<1> USE IInvParts
<1>1. CASE iter[a] = Size(a) /\ pc' = [pc EXCEPT ![a] = Created(a)]
           /\ UNCHANGED <<iter, count>>
  <2>0. /\ pc[a] = "undo" /\ a \in {CP} \cup Task
        /\ UNCHANGED <<variant, tooLarge, at, body, status, mutex, grab>>
        /\ Size(a) \in Nat
    BY CallerKinds DEF undo
  <2>1. /\ Created(a) \in {"wait", "done"} /\ (a = CP => Created(a) = "wait")
        /\ Created(a) = "wait" <=> Group(a) = a
        /\ a # CP /\ Created(a) = "wait" => body[a] = "block"
    BY DEF Created, Group
  <2>2. TypeOK'
    BY <1>1, <2>0, <2>1 DEF TypeOK, PcOfTask, OnCore, Yielding, Size
  <2>3. CallerInv'
    BY <1>1, <2>0, <2>1, CallerKinds DEF CallerInv, Group, Size
  <2>4. pc[a] \in LivePc /\ Created(a) \in LivePc /\ Created(a) # "none"
    BY <2>0, <2>1 DEF LivePc, OnCore, Yielding
  <2>5. ~(iter[a] < Size(a))
    BY <1>1, <2>0
  <2>6. UNCHANGED <<variant, body, iter, count>> /\ pc[a] # "none"
    BY <1>1, <2>0
  <2> QED BY <1>1, <2>0, <2>2, <2>3, <2>4, <2>5, <2>6, QuietStep
<1>2. CASE /\ iter[a] < Size(a) /\ NodeOf(a) = Home(Group(a))
           /\ count' = [count EXCEPT ![Group(a)] = @ - 1]
           /\ iter' = [iter EXCEPT ![a] = @ + 1]
           /\ UNCHANGED pc
  <2>1. pc[a] = "undo" /\ a \in {CP} \cup Task
    BY CallerKinds DEF undo
  <2>2. pc' = [pc EXCEPT ![a] = "undo"]
    BY <1>2, <2>1
  <2>3. UNCHANGED <<variant, tooLarge, at, body, status, mutex, grab>>
    BY DEF undo
  <2> QED BY <1>2, <2>1, <2>2, <2>3, UndoStep
<1>3. CASE /\ iter[a] < Size(a) /\ NodeOf(a) # Home(Group(a))
           /\ pc' = [pc EXCEPT ![a] = "undoing"]
           /\ UNCHANGED <<iter, count>>
  <2>0. /\ pc[a] = "undo" /\ a \in {CP} \cup Task
        /\ UNCHANGED <<variant, tooLarge, at, body, status, mutex, grab>>
    BY CallerKinds DEF undo
  <2>1. Group(a) # a /\ a \in OuterTask /\ body[a] = "spawn"
    BY <1>3, <2>0, CallerKinds DEF Home, Group, CallerInv
  <2>2. TypeOK'
    BY <1>3, <2>0 DEF TypeOK, PcOfTask, Yielding, Size
  <2>3. CallerInv'
    BY <1>3, <2>0, <2>1, CallerKinds DEF CallerInv, Group, Size
  <2> QED BY <1>3, <2>0, <2>2, <2>3, QuietStep DEF CountedPc, LivePc, OnCore, Yielding
<1> QED BY <1>1, <1>2, <1>3 DEF undo

LEMMA HandleUndoInv ==
  ASSUME IInv, NEW t \in OuterTask, handleUndo(t) PROVE IInv'
<1> USE IInvParts
<1>1. Group(t) = CP /\ GroupOf(t) = CP
  BY CallerKinds, TaskPath DEF handleUndo, CallerInv, GroupOf, Group
<1>2. iter[t] < Size(t)
  BY CallerKinds DEF handleUndo, CallerInv
<1>3. /\ pc[t] = "undoing" /\ pc' = [pc EXCEPT ![t] = "undone"]
      /\ count' = [count EXCEPT ![Group(t)] = @ - 1]
      /\ iter' = [iter EXCEPT ![t] = @ + 1]
      /\ UNCHANGED <<variant, tooLarge, at, body, status, mutex, grab>>
      /\ t \in Caller
  BY <1>1, CallerKinds DEF handleUndo
<1> QED BY <1>2, <1>3, UndoStep

\* Caller a counts the items of its loop: all of them join its group, unless
\* the loop counts them one by one.
LEMMA OpenStep ==
  ASSUME IInv, NEW a \in Caller, NEW q \in {"create", "added"},
         pc[a] \in {"invoke", "add"},
         pc' = [pc EXCEPT ![a] = q], UNCHANGED <<variant, iter>>,
         \A b \in OuterTask : b # a => body'[b] = body[b]
  PROVE  /\ \A t \in Task : Owed(t) => GroupOf(t)' = GroupOf(t)
         /\ \A t \in Task : Owed(t)' <=> Owed(t) \/ (t \in ItemsOf(a) /\ ~Even(a))
         /\ \A t \in ItemsOf(a) : pc[t] = "none" /\ ~Owed(t) /\ GroupOf(t)' = Group(a)'
<1> USE IInvParts
<1>1. /\ a \in {CP} \cup Task /\ pc[a] \in LivePc /\ q \in LivePc
      /\ pc[a] \notin CountedPc /\ q \in CountedPc
  BY CallerKinds DEF LivePc, CountedPc, OnCore, Yielding
<1>2. pc'[a] = q /\ \A u \in {CP} \cup Task : u # a => pc'[u] = pc[u]
  BY <1>1
<1>3. iter[a] = 0
  BY DEF CallerInv
<1>4. ASSUME NEW t \in ItemsOf(a)
      PROVE  /\ t \in Task /\ Front(t) = a /\ pc[t] = "none" /\ ~Owed(t)
             /\ Owed(t)' <=> ~Even(a)
  <2>1. t \in Task /\ Front(t) = a /\ Last(t) >= iter[a]
    BY <1>3, TaskPath, CallerKinds DEF ItemsOf
  <2>2. pc[t] = "none"
    BY <2>1 DEF TaskInv
  <2>3. ~Owed(t)
    BY <1>1, <2>1, <2>2 DEF Owed, CountedPc, OnCore, Yielding
  <2>4. pc'[t] = "none" /\ pc'[a] = q /\ iter'[a] = iter[a] /\ Even(a)' = Even(a)
    BY <1>1, <1>2, <2>1, <2>2 DEF Even
  <2>5. Owed(t)' <=> ~Even(a)
    BY <1>1, <2>1, <2>4 DEF Owed, CountedPc, OnCore, Yielding
  <2> QED BY <2>1, <2>2, <2>3, <2>5
<1>5. ASSUME NEW t \in Task, t \notin ItemsOf(a)
      PROVE  GroupOf(t)' = GroupOf(t) /\ (Owed(t)' <=> Owed(t))
  <2>1. Front(t) # a /\ Front(t) \in {CP} \cup Task /\ Front(t) \in Caller
    BY <1>5, TaskPath, CallerKinds DEF ItemsOf
  <2>2. GroupOf(t)' = GroupOf(t)
    BY <2>1, CallerKinds DEF GroupOf, Group
  <2>3. pc'[Front(t)] = pc[Front(t)] /\ Even(Front(t))' = Even(Front(t))
    BY <1>2, <2>1 DEF Even
  <2>4. CASE t = a
    <3>1. pc[t] \in LivePc /\ pc'[t] \in LivePc
      BY <1>1, <1>2, <2>4
    <3> QED BY <2>2, <3>1 DEF Owed, LivePc
  <2>5. CASE t # a
    <3>1. pc'[t] = pc[t]
      BY <1>2, <2>5
    <3> QED BY <2>2, <2>3, <3>1 DEF Owed
  <2> QED BY <2>4, <2>5
<1>6. \A t \in ItemsOf(a) : GroupOf(t)' = Group(a)'
  BY <1>4 DEF GroupOf
<1> QED BY <1>4, <1>5, <1>6

\* The items of a loop that is not too long are added up as they are.
LEMMA DeltaSize == Delta(InnerSize) = InnerSize /\ \A a : Delta(Size(a)) = Size(a)
<1>1. ASSUME NEW k \in Nat, k < DeltaModulus PROVE Delta(k) = k
  BY <1>1, DeltaAssumption DEF Delta
<1>2. OuterSize \in Nat /\ InnerSize \in Nat
  BY DimsAssumption
<1> QED BY <1>1, <1>2, DeltaAssumption DEF Size

LEMMA DoAllBlockingInv ==
  ASSUME IInv, NEW a \in Caller, doAllBlocking(a)
  PROVE  IInv' /\ Stands(a) = {} /\ \A t \in ItemsOf(a) : pc[t] = "none"
<1> USE IInvParts
<1>1. PICK S : S = IF Even(a) THEN {} ELSE ItemsOf(a)
  OBVIOUS
<1>2. /\ pc[a] = "invoke" /\ pc' = [pc EXCEPT ![a] = "create"]
      /\ UNCHANGED <<variant, tooLarge, at, iter, status, mutex, grab>>
      /\ body' \in [OuterTask -> {"none", "block", "spawn"}]
      /\ \A b \in OuterTask : b # a => body'[b] = body[b]
      /\ a # CP => body'[a] = "block"
  BY CallerKinds, DeltaSize DEF doAllBlocking
<1>3. Group(a)' = a
  BY <1>2 DEF Group
<1>4. /\ \A t \in Task : Owed(t) => GroupOf(t)' = GroupOf(t)
      /\ \A t \in Task : Owed(t)' <=> Owed(t) \/ t \in S
      /\ \A t \in S : ~Owed(t) /\ GroupOf(t)' = Group(a)'
      /\ \A t \in ItemsOf(a) : pc[t] = "none"
      /\ S \in SUBSET Task
  <2>1. pc[a] \in {"invoke", "add"} /\ "create" \in {"create", "added"}
        /\ UNCHANGED <<variant, iter>>
    BY <1>2
  <2>2. /\ \A t \in Task : Owed(t) => GroupOf(t)' = GroupOf(t)
        /\ \A t \in Task : Owed(t)' <=> Owed(t) \/ (t \in ItemsOf(a) /\ ~Even(a))
        /\ \A t \in ItemsOf(a) : pc[t] = "none" /\ ~Owed(t) /\ GroupOf(t)' = Group(a)'
    BY <1>2, <2>1, OpenStep, Zenon
  <2>3. ItemsOf(a) \in SUBSET Task
    BY DEF ItemsOf
  <2> QED BY <1>1, <2>2, <2>3
<1>5. count[a] = Freed
  BY <1>2 DEF CallerInv
<1>6. Stands(a) = {}
  BY <1>5 DEF GroupLives, Stands
<1>7. Size(a) \in Nat \ {0}
  BY CallerKinds
<1>8. /\ Cardinality(Stands(a)) = 0
      /\ Cardinality(S) = IF Even(a) THEN 0 ELSE Size(a)
  BY <1>1, <1>6, FS_EmptySet, ItemsCount
<1>9. count' = [count EXCEPT ![a] = Cardinality(Stands(a)) + Cardinality(S)]
  <2>1. count' = [count EXCEPT ![a] = IF Even(a) THEN 0 ELSE Size(a)]
    BY DeltaSize DEF doAllBlocking
  <2>2. Cardinality(Stands(a)) + Cardinality(S) = IF Even(a) THEN 0 ELSE Size(a)
    BY <1>7, <1>8
  <2> QED BY <2>1, <2>2
<1>10. CountExact' /\ GroupLives' /\ count' \in [Caller -> Int \cup {Freed}]
  BY <1>3, <1>4, <1>9, CountMore
<1>11. TypeOK'
  <2>1. pc' \in [{CP} \cup Task -> PcOfTask]
    BY <1>2, CallerKinds DEF PcOfTask, OnCore
  <2> QED BY <1>2, <1>10, <2>1 DEF TypeOK, Size
<1>12. CallerInv'
  <2>1. /\ count'[a] # Freed /\ pc'[a] = "create" /\ iter'[a] = 0 /\ 0 < Size(a)
        /\ a \in {CP} \cup Task
    BY <1>2, <1>7, <1>8, <1>9, DimsAssumption, CallerKinds DEF CallerInv
  <2>2. ASSUME NEW b \in Caller, b # a
        PROVE  /\ count'[b] = count[b] /\ pc'[b] = pc[b] /\ iter'[b] = iter[b]
               /\ Group(b)' = Group(b) /\ (b # CP => body'[b] = body[b])
    BY <1>2, <1>9, <2>2, CallerKinds DEF Group
  <2>3. ASSUME NEW b \in Caller
        PROVE  /\ pc'[b] \in {"none", "sent", "queued", "invoke", "add", "added"} => iter'[b] = 0
               /\ pc'[b] \in {"create", "undoing"} => iter'[b] < Size(b)
               /\ pc'[b] \in {"create", "undo", "wait", "check"} /\ Group(b)' = b
                   <=> count'[b] # Freed
               /\ pc'[b] = "check" => count'[b] = 0
    BY <1>3, <2>1, <2>2 DEF CallerInv
  <2>4. ASSUME NEW b \in OuterTask
        PROVE  /\ pc'[b] \in {"none", "sent", "queued", "invoke"} => body'[b] = "none"
               /\ pc'[b] \in {"add", "added", "undoing", "undone"} => body'[b] = "spawn"
               /\ pc'[b] \in {"create", "undo"} => body'[b] # "none"
               /\ pc'[b] \in {"wait", "check"} => body'[b] = "block"
    BY <1>2, <2>1, <2>2, CallerKinds DEF CallerInv
  <2>5. /\ pc'[CP] \in {"invoke", "create", "undo", "wait", "check", "over"}
        /\ pc'[CP] = "undo" => variant' # "even"
    BY <1>2, <2>1, <2>2, CallerKinds DEF CallerInv
  <2> QED BY <2>3, <2>4, <2>5 DEF CallerInv, Size
<1>13. TaskInv'
  BY <1>2, CallerKinds DEF TaskInv
<1> QED BY <1>2, <1>4, <1>6, <1>10, <1>11, <1>12, <1>13 DEF IInv

\* A task counts the items of the loop in its body in the group of the CP.
LEMMA AddStep ==
  ASSUME IInv, NEW t \in OuterTask, NEW q \in {"create", "added"},
         pc[t] \in {"invoke", "add"},
         pc' = [pc EXCEPT ![t] = q],
         body' = [body EXCEPT ![t] = "spawn"],
         count' = [count EXCEPT ![CP] = @ + InnerSize],
         UNCHANGED <<variant, tooLarge, at, iter, status, mutex, grab>>
  PROVE  /\ IInv' /\ \A u \in ItemsOf(t) : pc[u] = "none"
         /\ \A u \in Task : Owed(u) => GroupOf(u)' = GroupOf(u)
         /\ \A u \in Task : Owed(u)' <=> Owed(u) \/ u \in ItemsOf(t)
<1> USE IInvParts
<1>1. PICK S : S = ItemsOf(t)
  OBVIOUS
<1>2. /\ t \in Task /\ t \in Caller /\ t # CP /\ CP \in Caller /\ GroupOf(t) = CP
      /\ Group(t) = CP /\ Group(t)' = CP /\ ~Even(t) /\ Size(t) = InnerSize
      /\ InnerSize \in Nat \ {0}
  BY CallerKinds, TaskPath DEF CallerInv, GroupOf, Group, Even, Size
<1>3. \A b \in OuterTask : b # t => body'[b] = body[b]
  OBVIOUS
<1>4. /\ \A u \in Task : Owed(u) => GroupOf(u)' = GroupOf(u)
      /\ \A u \in Task : Owed(u)' <=> Owed(u) \/ u \in S
      /\ \A u \in S : ~Owed(u) /\ GroupOf(u)' = Group(t)'
      /\ \A u \in ItemsOf(t) : pc[u] = "none"
      /\ S \in SUBSET Task
  <2>1. ItemsOf(t) \in SUBSET Task /\ UNCHANGED <<variant, iter>>
    BY DEF ItemsOf
  <2>2. /\ \A u \in Task : Owed(u) => GroupOf(u)' = GroupOf(u)
        /\ \A u \in Task : Owed(u)' <=> Owed(u) \/ (u \in ItemsOf(t) /\ ~Even(t))
        /\ \A u \in ItemsOf(t) : pc[u] = "none" /\ ~Owed(u) /\ GroupOf(u)' = Group(t)'
    BY <1>2, <1>3, <2>1, OpenStep, Zenon
  <2> QED BY <1>1, <1>2, <2>1, <2>2
<1>5. Owed(t)
  BY DEF Owed, OnCore, Yielding
<1>6. count[CP] \in Int /\ pc[CP] \in {"create", "undo", "wait"}
  BY <1>2, <1>5, GroupOpen
<1>7. count[CP] = Cardinality(Stands(CP)) /\ Cardinality(S) = InnerSize
  BY <1>1, <1>2, <1>6, ItemsCount, DimsAssumption DEF CountExact, Stands
<1>8. count' = [count EXCEPT ![CP] = Cardinality(Stands(CP)) + Cardinality(S)]
  BY <1>7
<1>9. CountExact' /\ GroupLives' /\ count' \in [Caller -> Int \cup {Freed}]
  BY <1>2, <1>4, <1>8, CountMore
<1>10. TypeOK'
  <2>1. pc' \in [{CP} \cup Task -> PcOfTask]
    BY <1>2 DEF PcOfTask, OnCore, Yielding
  <2>2. body' \in [OuterTask -> {"none", "block", "spawn"}]
    OBVIOUS
  <2> QED BY <1>9, <2>1, <2>2 DEF TypeOK, Size
<1>11. CallerInv'
  <2>1. /\ count'[CP] # Freed /\ pc'[t] = q /\ iter'[t] = 0 /\ 0 < Size(t)
        /\ body'[t] = "spawn" /\ count'[t] = count[t] /\ count[t] = Freed
    BY <1>2, <1>6, DimsAssumption DEF CallerInv
  <2>2. ASSUME NEW b \in Caller, b # t
        PROVE  /\ b # CP => count'[b] = count[b]
               /\ pc'[b] = pc[b] /\ iter'[b] = iter[b]
               /\ Group(b)' = Group(b) /\ (b # CP => body'[b] = body[b])
    BY <1>2, <2>2, CallerKinds DEF Group
  <2>3. ASSUME NEW b \in Caller
        PROVE  /\ pc'[b] \in {"none", "sent", "queued", "invoke", "add", "added"} => iter'[b] = 0
               /\ pc'[b] \in {"create", "undoing"} => iter'[b] < Size(b)
               /\ pc'[b] \in {"create", "undo", "wait", "check"} /\ Group(b)' = b
                   <=> count'[b] # Freed
               /\ pc'[b] = "check" => count'[b] = 0
    <3>1. CASE b = t
      BY <1>2, <2>1, <3>1
    <3>2. CASE b = CP
      BY <1>2, <1>6, <2>1, <2>2, <3>2, DimsAssumption DEF CallerInv
    <3>3. CASE b # CP /\ b # t
      BY <2>2, <3>3 DEF CallerInv
    <3> QED BY <3>1, <3>2, <3>3
  <2>4. ASSUME NEW b \in OuterTask
        PROVE  /\ pc'[b] \in {"none", "sent", "queued", "invoke"} => body'[b] = "none"
               /\ pc'[b] \in {"add", "added", "undoing", "undone"} => body'[b] = "spawn"
               /\ pc'[b] \in {"create", "undo"} => body'[b] # "none"
               /\ pc'[b] \in {"wait", "check"} => body'[b] = "block"
    BY <2>1, <2>2, CallerKinds DEF CallerInv
  <2>5. pc'[CP] = pc[CP]
    BY <1>2, <2>2
  <2> QED BY <2>3, <2>4, <2>5 DEF CallerInv, Size
<1>12. TaskInv'
  BY <1>2 DEF TaskInv
<1> QED BY <1>1, <1>4, <1>9, <1>10, <1>11, <1>12 DEF IInv

LEMMA AddInv ==
  ASSUME IInv, NEW t \in OuterTask, doAll(t) \/ handleAdd(t) PROVE IInv'
<1> USE IInvParts
<1>0. t \in Task /\ t \in Caller /\ t # CP
  BY CallerKinds
<1>1. CASE doAll(t) /\ pc' = [pc EXCEPT ![t] = "create"]
           /\ count' = [count EXCEPT ![CP] = @ + InnerSize]
  BY <1>1, AddStep, DeltaSize DEF doAll
<1>2. CASE handleAdd(t)
  <2>1. body' = [body EXCEPT ![t] = "spawn"]
    BY <1>2 DEF handleAdd, CallerInv
  <2> QED BY <1>2, <2>1, AddStep, DeltaSize DEF handleAdd
<1>3. CASE doAll(t) /\ pc' = [pc EXCEPT ![t] = "add"] /\ UNCHANGED count
  <2>0. /\ pc[t] = "invoke" /\ body' = [body EXCEPT ![t] = "spawn"] /\ body[t] = "none"
        /\ iter[t] = 0
        /\ UNCHANGED <<variant, tooLarge, at, iter, count, status, mutex, grab>>
    BY <1>0, <1>3 DEF doAll, CallerInv
  <2>1. \A b \in Caller : Group(b)' = Group(b)
    BY <2>0, CallerKinds DEF Group
  <2>2. TypeOK'
    BY <1>3, <2>0 DEF TypeOK, PcOfTask, Yielding, Size
  <2>3. CallerInv'
    BY <1>0, <1>3, <2>0, <2>1, CallerKinds DEF CallerInv, Size
  <2>4. TaskInv'
    BY <1>0, <1>3, <2>0 DEF TaskInv
  <2>5. ASSUME NEW u \in Task PROVE GroupOf(u)' = GroupOf(u) /\ (Owed(u)' <=> Owed(u))
    <3>1. Front(u) \in Caller /\ Front(u) \in {CP} \cup Task
      BY TaskPath, CallerKinds
    <3>2. GroupOf(u)' = GroupOf(u)
      BY <2>1, <3>1 DEF GroupOf
    <3>3. Even(Front(u))' = Even(Front(u))
      BY <2>0 DEF Even
    <3>4. /\ pc'[u] = pc[u] \/ (pc[u] = "invoke" /\ pc'[u] = "add")
          /\ \/ pc'[Front(u)] = pc[Front(u)]
             \/ pc[Front(u)] = "invoke" /\ pc'[Front(u)] = "add"
      BY <1>0, <1>3, <2>0, <3>1
    <3> QED BY <2>0, <3>2, <3>3, <3>4 DEF Owed, OnCore, Yielding
  <2>6. CountExact' /\ GroupLives'
    BY <2>0, <2>5, CountSame
  <2> QED BY <2>0, <2>2, <2>3, <2>4, <2>6 DEF IInv
<1> QED BY <1>1, <1>2, <1>3, DeltaSize DEF doAll

\* doAllEvenlyPartition gives every item a node.
LEMMA AssignedHostType ==
  ASSUME NEW i \in 0 .. OuterSize - 1
  PROVE  AssignedHost(i) \in Node
<1> DEFINE work == OuterSize \div NodeCount
           host == CASE work > 0 -> i \div work
                     [] work = 0 /\ NodeCount % OuterSize = 0 ->
                          i * (NodeCount \div OuterSize)
                     [] OTHER -> i
<1>1. NodeCount \in Nat \ {0} /\ OuterSize \in Nat \ {0} /\ i \in Nat
  BY DimsAssumption
<1>2. work \in Nat /\ NodeCount \div OuterSize \in Nat
  BY <1>1
<1>3. work > 0 => i \div work \in Nat
  BY <1>1, <1>2
<1>4. i * (NodeCount \div OuterSize) \in Nat
  <2>1. \A m, n \in Nat : m * n \in Nat
    OBVIOUS
  <2> QED BY <1>1, <1>2, <2>1
<1> HIDE DEF work
<1>5. host \in Nat
  BY <1>1, <1>2, <1>3, <1>4
<1>6. AssignedHost(i) = IF host >= NodeCount THEN NodeCount - 1 ELSE host
  BY Zenon DEF AssignedHost, work
<1> HIDE DEF host
<1> QED BY <1>1, <1>5, <1>6 DEF Node

\* A task is meant for a core that exists.
LEMMA PlacesType ==
  ASSUME NEW t \in Task
  PROVE  Places(t) \subseteq Core
<1>1. NodeCount \in Nat \ {0} /\ CoreCount \in Nat \ {0}
  BY DimsAssumption
<1>2. CASE Even(Front(t))
  <2>1. t \in OuterTask
    BY <1>2, TaskPath DEF Even
  <2>2. t[1] \in 0 .. OuterSize - 1
    BY <2>1 DEF OuterTask
  <2>3. AssignedHost(t[1]) \in Node /\ t[1] \in Int
    BY <2>2, AssignedHostType, DimsAssumption
  <2>4. (t[1] + 1) % CoreCount \in 0 .. CoreCount - 1
    BY <1>1, <2>3
  <2> QED BY <1>2, <2>3, <2>4 DEF Places, Core
<1>3. CASE ~Even(Front(t))
  <2>1. Last(t) \in Int
    BY TaskPath, CallerKinds
  <2>2. LocalityOf(t) \in Node
    BY <1>1, <2>1 DEF LocalityOf, Node
  <2> QED BY <1>3, <2>2 DEF Places, Core
<1> QED BY <1>2, <1>3

\* Caller a creates the task x of its next item.
LEMMA CreateStep ==
  ASSUME IInv, NEW a \in Caller, NEW x \in Task, x = Child(a, iter[a]),
         NEW p \in {"queued", "sent"}, NEW r, pc[a] = "create",
         r = IF iter[a] + 1 < Size(a) THEN "create" ELSE Created(a),
         pc' = [pc EXCEPT ![x] = p, ![a] = r],
         at' \in [Task -> Core \cup {Nowhere}],
         iter' = [iter EXCEPT ![a] = @ + 1],
         count' = IF Even(a) THEN [count EXCEPT ![a] = @ + 1] ELSE count,
         UNCHANGED <<variant, tooLarge, body, status, mutex, grab>>
  PROVE  /\ IInv' /\ pc[x] = "none" /\ x # a /\ Owed(x)' /\ GroupOf(x) = Group(a)
         /\ \A t \in Task : GroupOf(t)' = GroupOf(t)
         /\ \A t \in Task : t # x => (Owed(t)' <=> Owed(t))
<1> USE IInvParts
<1>1. /\ iter[a] \in 0 .. Size(a) - 1 /\ Size(a) \in Nat \ {0} /\ iter[a] \in Int
      /\ iter[a] >= 0 /\ iter[a] < Size(a)
  BY CallerKinds DEF TypeOK, CallerInv
<1>2. Front(x) = a /\ Last(x) = iter[a]
  BY <1>1, ChildPath
<1>3. pc[x] = "none" /\ x # a /\ a \in {CP} \cup Task
  BY <1>1, <1>2, CallerKinds DEF TaskInv
<1>4. /\ r \in {"create", "wait", "done"} /\ r \in LivePc
      /\ iter[a] + 1 < Size(a) => r = "create"
      /\ iter[a] + 1 >= Size(a) => r \in {"wait", "done"} /\ (r = "wait" <=> Group(a) = a)
  BY <1>1 DEF Created, LivePc, OnCore, Yielding
<1>5. /\ \A u \in {CP} \cup Task : u # a /\ u # x => pc'[u] = pc[u]
      /\ pc'[a] = r /\ pc'[x] = p
      /\ \A b \in Caller : b # a => iter'[b] = iter[b]
      /\ iter'[a] = iter[a] + 1
  BY <1>3
<1>6. \A t \in Task : GroupOf(t)' = GroupOf(t)
  BY DEF GroupOf, Group
<1>7. Owed(x)' /\ (Owed(x) <=> ~Even(a))
  <2>1. Owed(x)'
    BY <1>5 DEF Owed
  <2>2. Owed(x) <=> ~Even(a)
    BY <1>1, <1>2, <1>3 DEF Owed, OnCore, Yielding
  <2> QED BY <2>1, <2>2
<1>8. ASSUME NEW t \in Task, t # x PROVE Owed(t)' <=> Owed(t)
  <2>1. /\ Front(t) \in Caller /\ Last(t) \in Int /\ t = Child(Front(t), Last(t))
        /\ Front(t) \in {CP} \cup Task /\ Last(t) < Size(Front(t))
    BY TaskPath, CallerKinds
  <2>2. CASE t = a
    <3>1. pc[t] \in LivePc /\ pc'[t] \in LivePc
      BY <1>4, <1>5, <2>2 DEF LivePc, OnCore
    <3> QED BY <3>1 DEF Owed, LivePc
  <2>3. CASE t # a /\ Front(t) = a
    <3>1. Last(t) # iter[a] /\ pc'[t] = pc[t] /\ Last(t) < Size(a)
      BY <1>5, <1>8, <2>1, <2>3
    <3>2. Even(a)' = Even(a) /\ pc'[a] = r
      BY <1>5 DEF Even
    <3>3. Last(t) >= iter[a] <=> Last(t) >= iter'[a] /\ r = "create"
      BY <1>1, <1>4, <1>5, <2>1, <3>1
    <3> QED BY <1>4, <2>3, <3>1, <3>2, <3>3 DEF Owed
  <2>4. CASE t # a /\ Front(t) # a /\ Front(t) # x
    <3>1. pc'[t] = pc[t] /\ pc'[Front(t)] = pc[Front(t)] /\ iter'[Front(t)] = iter[Front(t)]
      BY <1>5, <1>8, <2>1, <2>4
    <3> QED BY <3>1 DEF Owed, Even
  <2>5. CASE t # a /\ Front(t) = x
    <3>1. pc'[t] = pc[t] /\ pc'[x] = p
      BY <1>5, <1>8, <2>5
    <3> QED BY <1>3, <2>5, <3>1 DEF Owed
  <2> QED BY <2>2, <2>3, <2>4, <2>5, <1>3
<1>9. CountExact' /\ GroupLives' /\ count' \in [Caller -> Int \cup {Freed}]
  <2>1. CASE ~Even(a)
    <3>1. \A t \in Task : Owed(t)' <=> Owed(t)
      BY <1>7, <1>8, <2>1
    <3> QED BY <1>6, <2>1, <3>1, CountSame
  <2>2. CASE Even(a)
    <3>1. a = CP /\ Group(a) = a /\ count[a] # Freed /\ count[a] \in Int
      BY <2>2 DEF Even, Group, CallerInv
    <3>2. {x} \in SUBSET Task /\ Cardinality({x}) = 1
      BY FS_Singleton
    <3>3. count[a] = Cardinality(Stands(a))
      BY <3>1 DEF CountExact, Stands
    <3>4. count' = [count EXCEPT ![a] = Cardinality(Stands(a)) + Cardinality({x})]
      BY <2>2, <3>2, <3>3
    <3>5. GroupOf(x)' = a
      BY <1>2, <3>1, <1>6 DEF GroupOf
    <3>6. /\ \A t \in Task : Owed(t) => GroupOf(t)' = GroupOf(t)
          /\ \A t \in Task : Owed(t)' <=> Owed(t) \/ t \in {x}
          /\ \A t \in {x} : ~Owed(t) /\ GroupOf(t)' = a
      BY <1>6, <1>7, <1>8, <2>2, <3>2, <3>5
    <3> QED BY <3>2, <3>4, <3>6, CountMore
  <2> QED BY <2>1, <2>2
<1>10. TypeOK' /\ iter' \in [Caller -> Int]
  <2>1. pc' \in [{CP} \cup Task -> PcOfTask]
    BY <1>3, <1>4 DEF PcOfTask, OnCore, Yielding
  <2>2. iter' \in [Caller -> Int] /\ \A b \in Caller : iter'[b] \in 0 .. Size(b)
    BY <1>1, <1>5 DEF TypeOK
  <2> QED BY <1>9, <2>1, <2>2 DEF TypeOK, Size
<1>11. CallerInv'
  <2>1. ASSUME NEW b \in Caller, b # a
        PROVE  /\ count'[b] = count[b] /\ iter'[b] = iter[b] /\ Group(b)' = Group(b)
               /\ pc'[b] = pc[b] \/ (b = x /\ pc[b] = "none" /\ pc'[b] = p)
    BY <1>3, <1>5, <2>1, CallerKinds DEF Group
  <2>2. /\ count'[a] # Freed <=> count[a] # Freed
        /\ Group(a)' = Group(a)
    BY DimsAssumption DEF Group, Even, CallerInv
  <2>3. ASSUME NEW b \in Caller
        PROVE  /\ pc'[b] \in {"none", "sent", "queued", "invoke", "add", "added"} => iter'[b] = 0
               /\ pc'[b] \in {"create", "undoing"} => iter'[b] < Size(b)
               /\ pc'[b] \in {"create", "undo", "wait", "check"} /\ Group(b)' = b
                   <=> count'[b] # Freed
               /\ pc'[b] = "check" => count'[b] = 0
    <3>0. /\ pc[b] \in {"none", "sent", "queued", "invoke", "add", "added"} => iter[b] = 0
          /\ pc[b] \in {"create", "undoing"} => iter[b] < Size(b)
          /\ pc[b] \in {"create", "undo", "wait", "check"} /\ Group(b) = b
              <=> count[b] # Freed
          /\ pc[b] = "check" => count[b] = 0
      BY DEF CallerInv
    <3>1. CASE b = a
      <4>1. r = "create" => iter'[a] < Size(a)
        BY <1>1, <1>4, <1>5
      <4>2. count[a] # Freed <=> Group(a) = a
        BY <3>0, <3>1
      <4>3. r \in {"create", "wait"} /\ Group(a) = a <=> Group(a) = a
        BY <1>1, <1>4
      <4> QED BY <1>4, <1>5, <2>2, <3>1, <4>1, <4>2, <4>3
    <3>2. CASE b # a
      <4>1. /\ count'[b] = count[b] /\ iter'[b] = iter[b] /\ Group(b)' = Group(b)
            /\ pc'[b] = pc[b] \/ (pc[b] = "none" /\ pc'[b] \in {"queued", "sent"})
        BY <2>1, <3>2
      <4> HIDE IInvParts
      <4> QED BY <3>0, <4>1
    <3> QED BY <3>1, <3>2
  <2>4. ASSUME NEW b \in OuterTask
        PROVE  /\ pc'[b] \in {"none", "sent", "queued", "invoke"} => body'[b] = "none"
               /\ pc'[b] \in {"add", "added", "undoing", "undone"} => body'[b] = "spawn"
               /\ pc'[b] \in {"create", "undo"} => body'[b] # "none"
               /\ pc'[b] \in {"wait", "check"} => body'[b] = "block"
    <3>0. /\ pc[b] \in {"none", "sent", "queued", "invoke"} => body[b] = "none"
          /\ pc[b] \in {"add", "added", "undoing", "undone"} => body[b] = "spawn"
          /\ pc[b] \in {"create", "undo"} => body[b] # "none"
          /\ pc[b] \in {"wait", "check"} => body[b] = "block"
          /\ body' = body /\ b \in Caller
      BY CallerKinds DEF CallerInv
    <3>1. CASE b = a
      <4>1. r = "wait" => body[a] = "block"
        BY <1>1, <1>4, <3>1, CallerKinds DEF Group
      <4> QED BY <1>4, <1>5, <3>0, <3>1, <4>1
    <3>2. CASE b # a
      <4>1. pc'[b] = pc[b] \/ (pc[b] = "none" /\ pc'[b] \in {"queued", "sent"})
        BY <2>1, <3>0, <3>2
      <4> QED BY <3>0, <4>1
    <3> QED BY <3>1, <3>2
  <2>5. /\ pc'[CP] \in {"invoke", "create", "undo", "wait", "check", "over"}
        /\ pc'[CP] = "undo" => variant' # "even"
    BY <1>1, <1>3, <1>4, <1>5, CallerKinds DEF CallerInv, Group
  <2> QED BY <2>3, <2>4, <2>5 DEF CallerInv, Size
<1>12. TaskInv'
  <2> SUFFICES ASSUME NEW t \in Task, Last(t) >= iter'[Front(t)] PROVE pc'[t] = "none"
    BY DEF TaskInv
  <2>1. Front(t) \in Caller /\ Last(t) \in Int
    BY TaskPath, CallerKinds
  <2>2. Last(t) >= iter[Front(t)] /\ t # x
    BY <1>1, <1>2, <1>5, <2>1
  <2>3. pc[t] = "none"
    BY <2>2 DEF TaskInv
  <2> QED BY <1>5, <2>2, <2>3
<1> QED BY <1>2, <1>3, <1>6, <1>7, <1>8, <1>9, <1>10, <1>11, <1>12 DEF IInv, GroupOf

\* executeOn creates the task of the next item, or cannot send its request.
LEMMA ExecuteOnCases ==
  ASSUME IInv, NEW a \in Caller, executeOn(a)
  PROVE  /\ pc[a] = "create"
         /\ UNCHANGED <<variant, tooLarge, body, status, mutex, grab>>
         /\ \/ \E x \in Task, p \in {"queued", "sent"} :
                 /\ x = Child(a, iter[a])
                 /\ pc' = [pc EXCEPT
                      ![x] = p,
                      ![a] = IF iter[a] + 1 < Size(a) THEN "create" ELSE Created(a)]
                 /\ at' \in [Task -> Core \cup {Nowhere}]
                 /\ iter' = [iter EXCEPT ![a] = @ + 1]
                 /\ count' = IF Even(a) THEN [count EXCEPT ![a] = @ + 1] ELSE count
            \/ /\ pc' = [pc EXCEPT ![a] = IF Even(a) THEN "wait" ELSE "undo"]
               /\ UNCHANGED <<at, iter, count>>
<1>1. PICK x : x = Child(a, iter[a])
  OBVIOUS
<1>2. x \in Task
  <2>1. iter[a] \in 0 .. Size(a) - 1
    BY IInvParts, CallerKinds DEF TypeOK, CallerInv, executeOn
  <2> QED BY <1>1, <2>1, ChildPath
<1>3. PICK place \in Places(x) :
        \/ /\ pc' = [pc EXCEPT
                   ![x] = IF place[1] = NodeOf(a) THEN "queued" ELSE "sent",
                   ![a] = IF iter[a] + 1 < Size(a) THEN "create" ELSE Created(a)]
           /\ at' = [at EXCEPT ![x] = place]
           /\ iter' = [iter EXCEPT ![a] = @ + 1]
           /\ count' = IF Even(a) THEN [count EXCEPT ![a] = @ + 1] ELSE count
        \/ /\ pc' = [pc EXCEPT ![a] = IF Even(a) THEN "wait" ELSE "undo"]
           /\ UNCHANGED <<at, iter, count>>
  BY <1>1, Zenon DEF executeOn
<1>4. place \in Core
  BY <1>2, <1>3, PlacesType
<1>5. at \in [Task -> Core \cup {Nowhere}]
  BY IInvParts DEF TypeOK
<1>6. PICK p : p = (IF place[1] = NodeOf(a) THEN "queued" ELSE "sent")
               /\ p \in {"queued", "sent"}
  OBVIOUS
<1>7. [at EXCEPT ![x] = place] \in [Task -> Core \cup {Nowhere}]
  BY <1>4, <1>5
<1>8. pc[a] = "create" /\ UNCHANGED <<variant, tooLarge, body, status, mutex, grab>>
  BY DEF executeOn
<1> QED BY <1>1, <1>2, <1>3, <1>6, <1>7, <1>8, Zenon

LEMMA ExecuteOnInv ==
  ASSUME IInv, NEW a \in Caller, executeOn(a) PROVE IInv'
<1> USE IInvParts
<1>1. /\ pc[a] = "create" /\ a \in {CP} \cup Task
      /\ UNCHANGED <<variant, tooLarge, body, status, mutex, grab>>
  BY ExecuteOnCases, CallerKinds
<1>2. CASE \E x \in Task, p \in {"queued", "sent"} :
             /\ x = Child(a, iter[a])
             /\ pc' = [pc EXCEPT
                  ![x] = p,
                  ![a] = IF iter[a] + 1 < Size(a) THEN "create" ELSE Created(a)]
             /\ at' \in [Task -> Core \cup {Nowhere}]
             /\ iter' = [iter EXCEPT ![a] = @ + 1]
             /\ count' = IF Even(a) THEN [count EXCEPT ![a] = @ + 1] ELSE count
  BY <1>1, <1>2, CreateStep, Zenon
<1>3. CASE /\ pc' = [pc EXCEPT ![a] = IF Even(a) THEN "wait" ELSE "undo"]
           /\ UNCHANGED <<at, iter, count>>
  <2>1. TypeOK'
    BY <1>1, <1>3 DEF TypeOK, PcOfTask, OnCore, Yielding, Size
  <2>2. CallerInv'
    BY <1>1, <1>3, CallerKinds DEF CallerInv, Group, Even, Size
  <2> QED BY <1>1, <1>3, <2>1, <2>2, QuietStep DEF CountedPc, LivePc, OnCore, Yielding
<1> QED BY <1>2, <1>3, ExecuteOnCases, Zenon

\* The invariant holds at the start and is preserved by every step.
LEMMA InitIInv == Init => IInv
<1> SUFFICES ASSUME Init PROVE IInv
  OBVIOUS
<1>1. /\ pc \in [{CP} \cup Task -> PcOfTask] /\ pc[CP] = "invoke"
      /\ \A t \in Task : pc[t] = "none"
  BY CallerKinds DEF Init, PcOfTask, OnCore
<1>2. TypeOK /\ iter \in [Caller -> Int]
  BY <1>1, CallerKinds DEF Init, TypeOK
<1>3. \A t \in Task : ~Owed(t)
  <2> SUFFICES ASSUME NEW t \in Task PROVE ~Owed(t)
    OBVIOUS
  <2>1. Front(t) = CP \/ Front(t) \in Task
    BY TaskPath, CallerKinds
  <2> QED BY <1>1, <2>1 DEF Owed, OnCore, Yielding
<1>4. CountExact /\ GroupLives
  BY <1>3 DEF CountExact, GroupLives, Init
<1>5. TaskInv
  BY <1>1 DEF TaskInv
<1>6. CallerInv
  BY <1>1, CallerKinds DEF CallerInv, Init
<1> QED BY <1>2, <1>4, <1>5, <1>6 DEF IInv

LEMMA StutterInv == IInv /\ UNCHANGED vars => IInv'
  BY DEF IInv, TypeOK, CallerInv, TaskInv, CountExact, GroupLives, GroupOf, Group,
     Owed, Even, Size, vars

LEMMA NextIInv == IInv /\ [Next]_vars => IInv'
<1> SUFFICES ASSUME IInv, [Next]_vars PROVE IInv'
  OBVIOUS
<1>1. ASSUME NEW a \in Caller, CallerStep(a) PROVE IInv'
  BY <1>1, DoAllBlockingInv, InitializeFailsInv, ExecuteOnInv, UndoInv, WaitInv,
     DeinitializeInv, Zenon DEF CallerStep
<1>2. ASSUME NEW t \in Task, TaskStep(t) PROVE IInv'
  BY <1>2, HandleRequestInv, TryDequeueInv, LockInv, DoneInv, Zenon DEF TaskStep
<1>3. ASSUME NEW t \in OuterTask, OuterStep(t) PROVE IInv'
  BY <1>3, AddInv, ResumeInv, HandleUndoInv, Zenon DEF OuterStep
<1>4. ASSUME NEW c \in Core, workStealing(c) \/ stealTask(c) PROVE IInv'
  BY <1>4, StealInv, Zenon
<1>5. ASSUME idle \/ UNCHANGED vars PROVE IInv'
  BY <1>5, StutterInv, Zenon DEF idle
<1> QED BY <1>1, <1>2, <1>3, <1>4, <1>5, Zenon DEF Next

\* The inductive invariant holds in every state of the loops: counters, freed
\* WaitGroups and the places of callers and tasks fit together.
THEOREM Invariance == Spec => []IInv
  BY InitIInv, NextIInv, PTL DEF Spec

\* Every variable keeps its type; in particular the counter of a WaitGroup is a
\* number whenever an add or a done is applied to it.
THEOREM TypeCorrect == Spec => []TypeOK
<1>1. IInv => TypeOK
  BY DEF IInv
<1> QED BY <1>1, Invariance, PTL

\* The counter of every WaitGroup is the number of tasks it stands for, for any
\* number of nodes, cores, harts and items (wait_group.hpp, do_all.hpp).
THEOREM CounterExact == Spec => []CountExact
<1>1. IInv => CountExact
  BY DEF IInv
<1> QED BY <1>1, Invariance, PTL

\* No add or done is applied to a WaitGroup that was freed.
THEOREM GroupOutlivesTasks == Spec => []GroupLives
<1>1. IInv => GroupLives
  BY DEF IInv
<1> QED BY <1>1, Invariance, PTL

-----------------------------------------------------------------------------
(***************************************************************************)
(* Every step of the loops is, for each WaitGroup, a step of ForkJoin or   *)
(* no step at all.                                                         *)
(***************************************************************************)
\* A step as the WaitGroup made by a caller sees it.
LoopStep(a) == [Loop(a)!Next]_(Loop(a)!vars)

\* A step that changes neither the caller nor the tasks of its group.
LEMMA LoopStutter ==
  ASSUME NEW a \in Caller, Waiting(a)' = Waiting(a), Alive(a)' = Alive(a)
  PROVE  LoopStep(a)
  BY DEF LoopStep, Loop!vars

\* Where a caller is with respect to its group, before and after a step.
LEMMA WaitingValue ==
  ASSUME NEW a \in Caller
  PROVE  Waiting(a) = IF Group(a) # a THEN "away"
                      ELSE IF pc[a] \in {"create", "undo"} THEN "open"
                      ELSE IF pc[a] = "wait" THEN "join" ELSE "away"
  BY DEF Waiting

LEMMA WaitingNext ==
  ASSUME NEW a \in Caller
  PROVE  Waiting(a)' = IF Group(a)' # a THEN "away"
                       ELSE IF pc'[a] \in {"create", "undo"} THEN "open"
                       ELSE IF pc'[a] = "wait" THEN "join" ELSE "away"
  BY DEF Waiting

\* When the tasks of every group stay the same.
LEMMA AliveSame ==
  ASSUME \A t \in Task : /\ pc'[t] = "none" <=> pc[t] = "none"
                         /\ pc[t] # "none" => (Owed(t)' <=> Owed(t))
                         /\ Owed(t) => GroupOf(t)' = GroupOf(t)
  PROVE  \A b : Alive(b)' = Alive(b)
  BY DEF Alive

\* A step of x that changes no counter, no loop and no body.
LEMMA QuietLoops ==
  ASSUME IInv, NEW x \in {CP} \cup Task, NEW q,
         pc[x] # "none", q # "none",
         pc' = [pc EXCEPT ![x] = q], UNCHANGED <<variant, body, iter>>,
         x \in Caller /\ iter[x] < Size(x) /\ ~Even(x)
           => (pc[x] \in CountedPc <=> q \in CountedPc),
         x \in Task => (pc[x] \in LivePc <=> q \in LivePc)
  PROVE  /\ \A b : Alive(b)' = Alive(b)
         /\ \A b \in Caller : b # x => LoopStep(b)
         /\ \A b \in Caller : Group(b)' = Group(b)
         /\ pc'[x] = q
<1>1. TypeOK /\ pc \in [{CP} \cup Task -> PcOfTask]
  BY IInvParts
<1>2. \A t \in Task : GroupOf(t)' = GroupOf(t) /\ (Owed(t)' <=> Owed(t))
  BY <1>1, PcStep
<1>3. \A b : Alive(b)' = Alive(b)
  <2>1. \A t \in Task : pc'[t] = "none" <=> pc[t] = "none"
    BY <1>1
  <2> QED BY <1>2, <2>1, AliveSame
<1>4. \A b \in Caller : Group(b)' = Group(b)
  BY DEF Group
<1>5. ASSUME NEW b \in Caller, b # x PROVE LoopStep(b)
  <2>1. pc'[b] = pc[b]
    BY <1>1, <1>5, CallerKinds
  <2>2. Waiting(b)' = Waiting(b)
    BY <1>4, <2>1 DEF Waiting
  <2> QED BY <1>3, <2>2, LoopStutter
<1> QED BY <1>1, <1>3, <1>4, <1>5

\* ... and that is not a step of its own loop.
LEMMA QuietLoopsAll ==
  ASSUME IInv, NEW x \in {CP} \cup Task, NEW q,
         pc[x] # "none", q # "none",
         pc' = [pc EXCEPT ![x] = q], UNCHANGED <<variant, body, iter>>,
         x \in Caller /\ iter[x] < Size(x) /\ ~Even(x)
           => (pc[x] \in CountedPc <=> q \in CountedPc),
         x \in Task => (pc[x] \in LivePc <=> q \in LivePc),
         x \in Caller /\ Group(x) = x =>
           /\ pc[x] \in {"create", "undo"} <=> q \in {"create", "undo"}
           /\ pc[x] # "wait" /\ q # "wait"
  PROVE  \A b \in Caller : LoopStep(b)
<1>1. /\ \A b : Alive(b)' = Alive(b)
      /\ \A b \in Caller : b # x => LoopStep(b)
      /\ \A b \in Caller : Group(b)' = Group(b)
      /\ pc'[x] = q
  BY QuietLoops
<1>2. ASSUME x \in Caller PROVE Waiting(x)' = Waiting(x)
  BY <1>1, <1>2, WaitingValue, WaitingNext
<1> QED BY <1>1, <1>2, LoopStutter

\* One lemma for each operation: it is a step of ForkJoin, or none, for the
\* group of every caller.  The runtime moves tasks without any group noticing.
LEMMA RuntimeLoops ==
  ASSUME IInv, NEW t \in Task,
         handleRequest(t) \/ tryDequeue(t) \/ lock(t) \/ unlock(t) \/ resumeDone(t)
  PROVE  \A b \in Caller : LoopStep(b)
<1>1. PICK q : /\ \/ pc[t] = "sent" /\ q = "queued"
                  \/ pc[t] = "queued" /\ q = "invoke"
                  \/ pc[t] = "invoke" /\ q = "critical"
                  \/ pc[t] = "critical" /\ q = "done"
                  \/ pc[t] = "decremented" /\ q = "over"
               /\ pc' = [pc EXCEPT ![t] = q]
               /\ UNCHANGED <<variant, body, iter>>
  BY Zenon DEF handleRequest, tryDequeue, lock, unlock, resumeDone
<1>2. /\ q # "none" /\ pc[t] \notin CountedPc /\ q \notin CountedPc
      /\ pc[t] \in LivePc <=> q \in LivePc
      /\ pc[t] # "none" /\ pc[t] \notin {"create", "undo"} /\ q \notin {"create", "undo"}
      /\ pc[t] # "wait" /\ q # "wait"
  BY <1>1 DEF CountedPc, LivePc, OnCore, Yielding
<1> QED BY <1>1, <1>2, QuietLoopsAll

LEMMA StealLoops ==
  ASSUME IInv, NEW c \in Core, workStealing(c) \/ stealTask(c)
  PROVE  \A b \in Caller : LoopStep(b)
<1>1. CASE UNCHANGED pc /\ UNCHANGED <<variant, body, iter, count>>
  <2>1. \A t \in Task : GroupOf(t)' = GroupOf(t) /\ (Owed(t)' <=> Owed(t))
    BY <1>1 DEF GroupOf, Group, Owed, Even
  <2>2. \A b : Alive(b)' = Alive(b)
    BY <1>1, <2>1, AliveSame
  <2>3. \A b \in Caller : Waiting(b)' = Waiting(b)
    BY <1>1 DEF Waiting, Group
  <2> QED BY <2>2, <2>3, LoopStutter
<1>2. CASE /\ \E t \in Task : pc[t] = "queued" /\ pc' = [pc EXCEPT ![t] = "invoke"]
           /\ UNCHANGED <<variant, body, iter, count>>
  BY <1>2, QuietLoopsAll DEF CountedPc, LivePc, Yielding, OnCore
<1> QED BY <1>1, <1>2 DEF workStealing, stealTask, Queue

LEMMA ResumeLoops ==
  ASSUME IInv, NEW t \in OuterTask, resumeAdd(t) \/ resumeUndo(t)
  PROVE  \A b \in Caller : LoopStep(b)
<1>1. Group(t) # t /\ t \in Task
  BY IInvParts, CallerKinds DEF resumeAdd, resumeUndo, CallerInv, Group
<1> QED BY <1>1, QuietLoopsAll
        DEF resumeAdd, resumeUndo, CountedPc, LivePc, Yielding, OnCore

LEMMA InitializeFailsLoops ==
  ASSUME IInv, NEW a \in Caller, initializeFails(a) \/ deinitialize(a)
  PROVE  \A b \in Caller : LoopStep(b)
<1>1. /\ AfterLoop(a) # "none" /\ AfterLoop(a) \notin CountedPc
      /\ a # CP => AfterLoop(a) \in LivePc
      /\ AfterLoop(a) \notin {"create", "undo", "wait"}
  BY DEF AfterLoop, CountedPc, LivePc, OnCore
<1>2. /\ pc[a] \in {"invoke", "check"} /\ pc[a] \in LivePc /\ pc[a] \notin CountedPc
      /\ pc' = [pc EXCEPT ![a] = AfterLoop(a)] /\ UNCHANGED <<variant, body, iter>>
  BY DEF initializeFails, deinitialize, CountedPc, LivePc, OnCore
<1>3. a \in {CP} \cup Task /\ (a \in Task => a # CP)
  BY CallerKinds
<1> QED BY <1>1, <1>2, <1>3, QuietLoopsAll

\* The caller passes its wait: no task of its group is alive.
LEMMA WaitLoops ==
  ASSUME IInv, NEW a \in Caller, wait(a)
  PROVE  \A b \in Caller : LoopStep(b)
<1>1. /\ pc[a] = "wait" /\ count[a] = 0 /\ a \in {CP} \cup Task
      /\ pc' = [pc EXCEPT ![a] = "check"] /\ UNCHANGED <<variant, body, iter>>
  BY CallerKinds DEF wait
<1>2. /\ \A b : Alive(b)' = Alive(b)
      /\ \A b \in Caller : b # a => LoopStep(b)
      /\ Group(a)' = Group(a) /\ pc'[a] = "check"
  BY <1>1, QuietLoops DEF CountedPc, LivePc, OnCore, Yielding
<1>3. Group(a) = a /\ count[a] # Freed
  BY <1>1, IInvParts, CallerKinds, DimsAssumption DEF CallerInv, Group
<1>4. Stands(a) = {}
  <2>1. Cardinality(Stands(a)) = 0
    BY <1>1, <1>3, IInvParts DEF CountExact, Stands
  <2> QED BY <2>1, StandsFinite, FS_EmptySet
<1>5. Alive(a) = {}
  BY <1>4 DEF Alive, Stands
<1>6. Waiting(a) = "join" /\ Waiting(a)' = "away"
  BY <1>1, <1>2, <1>3, WaitingValue, WaitingNext
<1>7. LoopStep(a)
  BY <1>2, <1>5, <1>6 DEF LoopStep, Loop!Next, Loop!Leave
<1> QED BY <1>2, <1>7

\* Taking back what was counted for items that get no task ends nothing; with
\* the last of them taken back the caller begins to wait.
LEMMA UndoLoops ==
  ASSUME IInv, NEW a \in Caller, undo(a)
  PROVE  \A b \in Caller : LoopStep(b)
<1>0. /\ pc[a] = "undo" /\ a \in {CP} \cup Task /\ Size(a) \in Nat
      /\ UNCHANGED <<variant, tooLarge, at, body, status, mutex, grab>>
  BY CallerKinds DEF undo
<1>1. CASE iter[a] = Size(a) /\ pc' = [pc EXCEPT ![a] = Created(a)]
           /\ UNCHANGED <<iter, count>>
  <2>1. ~(iter[a] < Size(a)) /\ UNCHANGED <<variant, body, iter>>
    BY <1>0, <1>1
  <2>2. /\ Created(a) \in {"wait", "done"} /\ (Created(a) = "wait" <=> Group(a) = a)
        /\ Created(a) \in LivePc /\ pc[a] \in LivePc
    BY <1>0 DEF Created, LivePc, OnCore, Yielding
  <2>3. /\ \A b : Alive(b)' = Alive(b)
        /\ \A b \in Caller : b # a => LoopStep(b)
        /\ Group(a)' = Group(a) /\ pc'[a] = Created(a)
    BY <1>0, <1>1, <2>1, <2>2, QuietLoops
  <2>4. CASE Group(a) = a
    <3>1. Waiting(a) = "open" /\ Waiting(a)' = "join"
      BY <1>0, <2>2, <2>3, <2>4, WaitingValue, WaitingNext
    <3>2. LoopStep(a)
      BY <2>3, <3>1 DEF LoopStep, Loop!Next, Loop!Join
    <3> QED BY <2>3, <3>2
  <2>5. CASE Group(a) # a
    <3>1. Waiting(a)' = Waiting(a)
      BY <2>3, <2>5, WaitingValue, WaitingNext
    <3> QED BY <2>3, <3>1, LoopStutter
  <2> QED BY <2>4, <2>5
<1>2. CASE /\ iter[a] < Size(a)
           /\ count' = [count EXCEPT ![Group(a)] = @ - 1]
           /\ iter' = [iter EXCEPT ![a] = @ + 1]
           /\ UNCHANGED pc
  <2>1. pc' = [pc EXCEPT ![a] = "undo"]
    BY <1>0, <1>2, IInvParts
  <2>2. /\ \A t \in Task : GroupOf(t)' = GroupOf(t)
        /\ \A t \in Task : pc[t] # "none" => (Owed(t)' <=> Owed(t))
    BY <1>0, <1>2, <2>1, UndoStep
  <2>3. \A b : Alive(b)' = Alive(b)
    BY <1>2, <2>2, AliveSame
  <2>4. \A b \in Caller : Waiting(b)' = Waiting(b)
    BY <1>0, <1>2 DEF Waiting, Group
  <2> QED BY <2>3, <2>4, LoopStutter
<1>3. CASE /\ NodeOf(a) # Home(Group(a))
           /\ pc' = [pc EXCEPT ![a] = "undoing"] /\ UNCHANGED <<iter, count>>
  <2>1. Group(a) # a
    BY <1>3 DEF Home
  <2> QED BY <1>0, <1>3, <2>1, QuietLoopsAll DEF CountedPc, LivePc, OnCore, Yielding
<1> QED BY <1>1, <1>2, <1>3 DEF undo

LEMMA HandleUndoLoops ==
  ASSUME IInv, NEW t \in OuterTask, handleUndo(t)
  PROVE  \A b \in Caller : LoopStep(b)
<1>1. Group(t) = CP /\ GroupOf(t) = CP /\ t # CP /\ t \in Caller /\ t \in Task
  BY IInvParts, CallerKinds, TaskPath DEF handleUndo, CallerInv, GroupOf, Group
<1>2. iter[t] < Size(t)
  BY <1>1, IInvParts DEF handleUndo, CallerInv
<1>3. /\ pc[t] = "undoing" /\ pc' = [pc EXCEPT ![t] = "undone"]
      /\ count' = [count EXCEPT ![Group(t)] = @ - 1]
      /\ iter' = [iter EXCEPT ![t] = @ + 1]
      /\ UNCHANGED <<variant, tooLarge, at, body, status, mutex, grab>>
  BY <1>1 DEF handleUndo
<1>4. /\ \A u \in Task : GroupOf(u)' = GroupOf(u)
      /\ \A u \in Task : pc[u] # "none" => (Owed(u)' <=> Owed(u))
  BY <1>1, <1>2, <1>3, UndoStep
<1>5. /\ \A u \in {CP} \cup Task : u # t => pc'[u] = pc[u]
      /\ pc'[t] = "undone"
  BY <1>1, <1>3, IInvParts
<1>6. \A b : Alive(b)' = Alive(b)
  BY <1>3, <1>4, <1>5, AliveSame
<1>7. ASSUME NEW b \in Caller PROVE Waiting(b)' = Waiting(b)
  <2>1. Group(b)' = Group(b)
    BY <1>3 DEF Group
  <2>2. b # t => pc'[b] = pc[b]
    BY <1>5, CallerKinds
  <2> QED BY <1>1, <2>1, <2>2, WaitingValue, WaitingNext
<1> QED BY <1>6, <1>7, LoopStutter

\* The done of task t: it ends for its group.
LEMMA EndLoops ==
  ASSUME IInv, NEW t \in Task, NEW q \in {"decremented", "over"},
         pc[t] \in {"done", "decrement"},
         pc' = [pc EXCEPT ![t] = q],
         count' = [count EXCEPT ![GroupOf(t)] = @ - 1],
         at' \in [Task -> Core \cup {Nowhere}],
         UNCHANGED <<variant, tooLarge, body, iter, status, mutex, grab>>
  PROVE  \A b \in Caller : LoopStep(b)
<1>1. /\ Owed(t) /\ ~Owed(t)'
      /\ \A u \in Task : GroupOf(u)' = GroupOf(u)
      /\ \A u \in Task : u # t => (Owed(u)' <=> Owed(u))
  BY DoneStep
<1>2. /\ \A u \in {CP} \cup Task : u # t => pc'[u] = pc[u]
      /\ pc'[t] = q
  BY IInvParts
<1>3. ASSUME NEW b \in Caller PROVE Waiting(b)' = Waiting(b)
  <2>1. Group(b)' = Group(b)
    BY DEF Group
  <2>2. b # t => pc'[b] = pc[b]
    BY <1>2, CallerKinds
  <2> QED BY <1>2, <2>1, <2>2, WaitingValue, WaitingNext
<1>4. ASSUME NEW b \in Caller, b # GroupOf(t) PROVE LoopStep(b)
  <2>1. Alive(b)' = Alive(b)
    BY <1>1, <1>2, <1>4 DEF Alive
  <2> QED BY <1>3, <2>1, LoopStutter
<1>5. ASSUME NEW b \in Caller, b = GroupOf(t) PROVE LoopStep(b)
  <2>1. Alive(b)' = Alive(b) \ {t} /\ t \in Alive(b)
    BY <1>1, <1>2, <1>5 DEF Alive
  <2>2. Waiting(b)' = Waiting(b)
    BY <1>3
  <2> QED BY <2>1, <2>2 DEF LoopStep, Loop!Next, Loop!End
<1> QED BY <1>4, <1>5

\* done and the decrement it sends end a task.
LEMMA DoneLoops ==
  ASSUME IInv, NEW t \in Task, done(t) \/ handleDecrement(t)
  PROVE  \A b \in Caller : LoopStep(b)
<1>1. at \in [Task -> Core \cup {Nowhere}]
  BY IInvParts DEF TypeOK
<1>2. CASE done(t) /\ pc' = [pc EXCEPT ![t] = "over"]
  <2>1. /\ pc[t] \in {"done", "decrement"} /\ "over" \in {"decremented", "over"}
        /\ count' = [count EXCEPT ![GroupOf(t)] = @ - 1]
        /\ at' \in [Task -> Core \cup {Nowhere}]
        /\ UNCHANGED <<variant, tooLarge, body, iter, status, mutex, grab>>
    BY <1>1, <1>2, IInvParts DEF done
  <2> QED BY <1>2, <2>1, EndLoops, Zenon
<1>3. CASE handleDecrement(t)
  <2>1. /\ pc[t] \in {"done", "decrement"} /\ "decremented" \in {"decremented", "over"}
        /\ pc' = [pc EXCEPT ![t] = "decremented"]
        /\ count' = [count EXCEPT ![GroupOf(t)] = @ - 1]
        /\ at' \in [Task -> Core \cup {Nowhere}]
        /\ UNCHANGED <<variant, tooLarge, body, iter, status, mutex, grab>>
    BY <1>1, <1>3 DEF handleDecrement
  <2> QED BY <2>1, EndLoops, Zenon
<1>4. CASE done(t) /\ pc' = [pc EXCEPT ![t] = "decrement"]
  <2>0. /\ pc[t] = "done" /\ pc' = [pc EXCEPT ![t] = "decrement"]
        /\ UNCHANGED <<variant, body, iter>>
    BY <1>4 DEF done
  <2> QED BY <2>0, QuietLoopsAll DEF CountedPc, LivePc, Yielding, OnCore
<1> QED BY <1>2, <1>3, <1>4 DEF done

\* A body that counts its items in the group it belongs to creates none yet.
LEMMA AddLoops ==
  ASSUME IInv, NEW t \in OuterTask, doAll(t) \/ handleAdd(t)
  PROVE  \A b \in Caller : LoopStep(b)
<1>0. t \in Task /\ t \in Caller /\ t # CP
  BY CallerKinds
<1>1. PICK q \in {"create", "added", "add"} :
        /\ pc[t] \in {"invoke", "add"} /\ pc' = [pc EXCEPT ![t] = q]
        /\ body' = [body EXCEPT ![t] = "spawn"]
        /\ q # "add" => count' = [count EXCEPT ![CP] = @ + InnerSize]
        /\ q = "add" => pc[t] = "invoke"
        /\ UNCHANGED <<variant, tooLarge, at, iter, status, mutex, grab>>
  <2>1. CASE doAll(t)
    BY <2>1, DimsAssumption, DeltaSize DEF doAll
  <2>2. CASE handleAdd(t)
    <3>1. body' = [body EXCEPT ![t] = "spawn"]
      BY <2>2, IInvParts DEF handleAdd, CallerInv
    <3> QED BY <2>2, <3>1, DeltaSize DEF handleAdd
  <2> QED BY <2>1, <2>2
<1>2. /\ \A u \in {CP} \cup Task : u # t => pc'[u] = pc[u]
      /\ pc'[t] = q /\ pc[t] # "none"
  BY <1>0, <1>1, IInvParts
<1>3. \A b \in Caller : Group(b)' = Group(b)
  <2>1. body[t] # "block" /\ body'[t] # "block"
        /\ \A b \in OuterTask : b # t => body'[b] = body[b]
    BY <1>1, IInvParts DEF CallerInv
  <2> QED BY <2>1, CallerKinds DEF Group
<1>4. Group(t) = CP
  BY <1>0, <1>1, IInvParts DEF Group, CallerInv
<1>5. ASSUME NEW b \in Caller PROVE Waiting(b)' = Waiting(b)
  <2>1. b # t => pc'[b] = pc[b]
    BY <1>2, CallerKinds
  <2> QED BY <1>0, <1>3, <1>4, <2>1, WaitingValue, WaitingNext
<1>6. ASSUME NEW u \in Task
      PROVE  /\ pc'[u] = "none" <=> pc[u] = "none"
             /\ pc[u] # "none" => (Owed(u)' <=> Owed(u))
             /\ GroupOf(u)' = GroupOf(u)
  <2>1. GroupOf(u)' = GroupOf(u)
    BY <1>3, TaskPath DEF GroupOf
  <2>2. pc'[u] = "none" <=> pc[u] = "none"
    BY <1>2
  <2>3. pc[u] # "none" => (Owed(u)' <=> Owed(u))
    BY <1>1, <1>2 DEF Owed, OnCore, Yielding
  <2> QED BY <2>1, <2>2, <2>3
<1>7. \A b : Alive(b)' = Alive(b)
  BY <1>6, AliveSame
<1> QED BY <1>5, <1>7, LoopStutter

\* A blocking loop opens a group that nobody is in.
LEMMA DoAllBlockingLoops ==
  ASSUME IInv, NEW a \in Caller, doAllBlocking(a)
  PROVE  \A b \in Caller : LoopStep(b)
<1>1. /\ pc[a] = "invoke" /\ pc' = [pc EXCEPT ![a] = "create"]
      /\ UNCHANGED <<variant, tooLarge, at, iter, status, mutex, grab>>
      /\ \A b \in OuterTask : b # a => body'[b] = body[b]
      /\ a # CP => body'[a] = "block"
  BY IInvParts, CallerKinds, DeltaSize DEF doAllBlocking
<1>2. Stands(a) = {} /\ \A t \in ItemsOf(a) : pc[t] = "none"
  BY DoAllBlockingInv
<1>3. /\ \A u \in {CP} \cup Task : u # a => pc'[u] = pc[u]
      /\ pc'[a] = "create" /\ a \in {CP} \cup Task
  BY <1>1, IInvParts, CallerKinds
<1>4. ASSUME NEW t \in Task
      PROVE  /\ pc'[t] = "none" <=> pc[t] = "none"
             /\ pc[t] # "none" => (Owed(t)' <=> Owed(t)) /\ GroupOf(t)' = GroupOf(t)
  <2>1. pc'[t] = "none" <=> pc[t] = "none"
    BY <1>1, <1>3
  <2>2. pc[t] # "none" => (Owed(t)' <=> Owed(t))
    BY <1>1, <1>3 DEF Owed, OnCore, Yielding
  <2>3. pc[t] # "none" => Front(t) # a /\ Front(t) \in Caller
    BY <1>2, TaskPath DEF ItemsOf
  <2>4. pc[t] # "none" => GroupOf(t)' = GroupOf(t)
    BY <1>1, <2>3, CallerKinds DEF GroupOf, Group
  <2> QED BY <2>1, <2>2, <2>4
<1>5. \A b : Alive(b)' = Alive(b)
  BY <1>4 DEF Alive
<1>6. ASSUME NEW b \in Caller, b # a PROVE LoopStep(b)
  <2>1. Group(b)' = Group(b) /\ pc'[b] = pc[b]
    BY <1>1, <1>3, <1>6, CallerKinds DEF Group
  <2>2. Waiting(b)' = Waiting(b)
    BY <2>1, WaitingValue, WaitingNext
  <2> QED BY <1>5, <2>2, LoopStutter
<1>7. LoopStep(a)
  <2>1. Waiting(a) = "away" /\ Waiting(a)' = "open"
    BY <1>1, <1>3, WaitingValue, WaitingNext DEF Group
  <2>2. Alive(a) = {}
    BY <1>2 DEF Alive, Stands
  <2> QED BY <1>5, <2>1, <2>2 DEF LoopStep, Loop!Next, Loop!Open
<1> QED BY <1>6, <1>7

\* A task is added by the caller that opened the group, or by a task of it.
LEMMA CreateLoops ==
  ASSUME IInv, NEW a \in Caller, NEW x \in Task, x = Child(a, iter[a]),
         NEW p \in {"queued", "sent"}, NEW r, pc[a] = "create",
         r = IF iter[a] + 1 < Size(a) THEN "create" ELSE Created(a),
         pc' = [pc EXCEPT ![x] = p, ![a] = r],
         at' \in [Task -> Core \cup {Nowhere}],
         iter' = [iter EXCEPT ![a] = @ + 1],
         count' = IF Even(a) THEN [count EXCEPT ![a] = @ + 1] ELSE count,
         UNCHANGED <<variant, tooLarge, body, status, mutex, grab>>
  PROVE  \A b \in Caller : LoopStep(b)
<1>1. /\ pc[x] = "none" /\ x # a /\ Owed(x)' /\ GroupOf(x) = Group(a)
      /\ \A t \in Task : GroupOf(t)' = GroupOf(t)
      /\ \A t \in Task : t # x => (Owed(t)' <=> Owed(t))
  BY CreateStep
<1>2. /\ \A u \in {CP} \cup Task : u # a /\ u # x => pc'[u] = pc[u]
      /\ pc'[a] = r /\ pc'[x] = p /\ a \in {CP} \cup Task
  BY <1>1, IInvParts, CallerKinds
<1>3. r \in {"create", "wait", "done"} /\ (Group(a) = a => r \in {"create", "wait"})
  BY DEF Created
<1>4. PICK w \in Caller : w = Group(a)
  BY CallerKinds DEF Group
<1>5. \A b \in Caller : Group(b)' = Group(b)
  BY DEF Group
<1>6. \A b : b # w => Alive(b)' = Alive(b)
  BY <1>1, <1>2, <1>3, <1>4 DEF Alive
<1>7. Alive(w)' = Alive(w) \cup {x} /\ x \notin Alive(w)
  BY <1>1, <1>2, <1>3, <1>4 DEF Alive
<1>8. ASSUME NEW b \in Caller, b # a PROVE Waiting(b)' = Waiting(b)
  <2>1. pc'[b] = pc[b] \/ (pc[b] = "none" /\ pc'[b] \in {"queued", "sent"})
    BY <1>1, <1>2, <1>8, CallerKinds
  <2> QED BY <1>5, <2>1, WaitingValue, WaitingNext
<1>9. CASE w = a
  <2>1. Waiting(a) = "open" /\ Waiting(a)' \in {"open", "join"}
    BY <1>2, <1>3, <1>4, <1>5, <1>9, WaitingValue, WaitingNext
  <2>2. LoopStep(a)
    BY <1>7, <1>9, <2>1 DEF LoopStep, Loop!Next, Loop!Fork
  <2>3. ASSUME NEW b \in Caller, b # a PROVE LoopStep(b)
    BY <1>6, <1>8, <1>9, <2>3, LoopStutter
  <2> QED BY <2>2, <2>3
<1>10. CASE w # a
  <2>1. w = CP /\ a \in Task /\ a \in OuterTask
    BY <1>4, <1>10, CallerKinds DEF Group
  <2>2. Owed(a) /\ GroupOf(a) = CP
    BY <2>1, TaskPath DEF Owed, OnCore, GroupOf, Group
  <2>3. pc[CP] \in {"create", "undo", "wait"} /\ Group(CP) = CP
    BY <2>1, <2>2, GroupOpen
  <2>4. Waiting(CP) # "away" /\ a \in Alive(CP)
    BY <2>1, <2>2, <2>3, CallerKinds, WaitingValue DEF Alive
  <2>5. LoopStep(CP)
    <3>1. Waiting(CP)' = Waiting(CP)
      BY <1>8, <1>10, <2>1
    <3> QED BY <1>7, <2>1, <2>4, <3>1 DEF LoopStep, Loop!Next, Loop!Spawn
  <2>6. LoopStep(a)
    <3>1. Waiting(a)' = Waiting(a)
      BY <1>4, <1>5, <1>10, WaitingValue, WaitingNext
    <3> QED BY <1>6, <1>10, <3>1, LoopStutter
  <2>7. ASSUME NEW b \in Caller, b # a, b # CP PROVE LoopStep(b)
    BY <1>6, <1>8, <2>1, <2>7, LoopStutter
  <2> QED BY <2>5, <2>6, <2>7
<1> QED BY <1>9, <1>10

\* Creating a task forks it, or spawns it in the group of the body.
LEMMA ExecuteOnLoops ==
  ASSUME IInv, NEW a \in Caller, executeOn(a)
  PROVE  \A b \in Caller : LoopStep(b)
<1>1. /\ pc[a] = "create" /\ a \in {CP} \cup Task
      /\ UNCHANGED <<variant, tooLarge, body, status, mutex, grab>>
  BY ExecuteOnCases, CallerKinds
<1>2. CASE \E x \in Task, p \in {"queued", "sent"} :
             /\ x = Child(a, iter[a])
             /\ pc' = [pc EXCEPT
                  ![x] = p,
                  ![a] = IF iter[a] + 1 < Size(a) THEN "create" ELSE Created(a)]
             /\ at' \in [Task -> Core \cup {Nowhere}]
             /\ iter' = [iter EXCEPT ![a] = @ + 1]
             /\ count' = IF Even(a) THEN [count EXCEPT ![a] = @ + 1] ELSE count
  BY <1>1, <1>2, CreateLoops, Zenon
<1>3. CASE /\ pc' = [pc EXCEPT ![a] = "undo"] /\ ~Even(a)
           /\ UNCHANGED <<at, iter, count>>
  BY <1>1, <1>3, QuietLoopsAll DEF CountedPc, LivePc, OnCore, Yielding
<1>4. CASE /\ pc' = [pc EXCEPT ![a] = "wait"] /\ Even(a)
           /\ UNCHANGED <<at, iter, count>>
  <2>1. /\ \A b : Alive(b)' = Alive(b)
        /\ \A b \in Caller : b # a => LoopStep(b)
        /\ Group(a)' = Group(a) /\ pc'[a] = "wait"
    BY <1>1, <1>4, QuietLoops DEF CountedPc, LivePc, OnCore, Yielding
  <2>2. Waiting(a) = "open" /\ Waiting(a)' = "join"
    BY <1>1, <1>4, <2>1, WaitingValue, WaitingNext DEF Even, Group
  <2>3. LoopStep(a)
    BY <2>1, <2>2 DEF LoopStep, Loop!Next, Loop!Join
  <2> QED BY <2>1, <2>3
<1>5. \/ pc' = [pc EXCEPT ![a] = IF Even(a) THEN "wait" ELSE "undo"]
           /\ UNCHANGED <<at, iter, count>>
      => \/ /\ pc' = [pc EXCEPT ![a] = "undo"] /\ ~Even(a)
            /\ UNCHANGED <<at, iter, count>>
         \/ /\ pc' = [pc EXCEPT ![a] = "wait"] /\ Even(a)
            /\ UNCHANGED <<at, iter, count>>
  BY DEF Even
<1> QED BY <1>2, <1>3, <1>4, <1>5, ExecuteOnCases, Zenon

\* Every step of the loops, for the groups of all callers.
LEMMA NextLoops ==
  IInv /\ [Next]_vars => [\A a \in Caller : LoopStep(a)]_vars
<1> SUFFICES ASSUME IInv, Next PROVE (\A b \in Caller : LoopStep(b)) \/ UNCHANGED vars
  BY Zenon
<1>1. ASSUME NEW a \in Caller, CallerStep(a) PROVE \A b \in Caller : LoopStep(b)
  BY <1>1, DoAllBlockingLoops, InitializeFailsLoops, ExecuteOnLoops, UndoLoops, WaitLoops,
     Zenon DEF CallerStep
<1>2. ASSUME NEW t \in Task, TaskStep(t) PROVE \A b \in Caller : LoopStep(b)
  BY <1>2, RuntimeLoops, DoneLoops, Zenon DEF TaskStep
<1>3. ASSUME NEW t \in OuterTask, OuterStep(t) PROVE \A b \in Caller : LoopStep(b)
  BY <1>3, AddLoops, ResumeLoops, HandleUndoLoops, Zenon DEF OuterStep
<1>4. ASSUME NEW c \in Core, workStealing(c) \/ stealTask(c)
      PROVE  \A b \in Caller : LoopStep(b)
  BY <1>4, StealLoops, Zenon
<1> QED BY <1>1, <1>2, <1>3, <1>4, Zenon DEF Next, idle

\* At the start no caller has a group and no task is alive.
LEMMA InitLoops == Init => \A a \in Caller : Loop(a)!Init
<1> SUFFICES ASSUME Init, NEW a \in Caller PROVE Loop(a)!Init
  OBVIOUS
<1>1. pc[a] \in {"invoke", "none"} /\ \A t \in Task : pc[t] = "none"
  BY CallerKinds DEF Init
<1>2. Waiting(a) = "away" /\ Alive(a) = {}
  BY <1>1, WaitingValue DEF Alive
<1> QED BY <1>2 DEF Loop!Init

\* Every loop, nested or not, forks and joins: ForkJoin is implemented by the
\* WaitGroup of every caller, for any number of nodes, cores, harts and items.
THEOREM LoopsForkAndJoin == Spec => LoopsJoin
<1>1. IInv /\ [Next]_vars
        => [\A a \in Caller : [Loop(a)!Next]_(Loop(a)!vars)]_vars
  BY NextLoops DEF LoopStep
<1> QED BY <1>1, InitLoops, Invariance, PTL DEF Spec, LoopsJoin

-----------------------------------------------------------------------------
(***************************************************************************)
(* What a loop has done when it returns.                                   *)
(***************************************************************************)
\* A task runs on the node it was meant for, also if its core was not: work
\* is taken over only from a core of the same node.
PlaceInv ==
  \A t \in Task : pc[t] \notin {"none", "over"} =>
    at[t] \in Core /\ at[t][1] = PlaceNode(t)

\* The states of a caller that creates no more tasks.
After == {"undo", "undoing", "undone", "wait", "check",
          "done", "decrement", "decremented", "over"}
Calls(a) == IF a = CP THEN status[CP] # "BadAlloc" ELSE body[a] # "none"

\* Tasks are created up to the first one that is refused.
CreatedInv ==
  \A t \in Task :
    /\ pc[t] # "none" => ~Refused(t)
    /\ pc[t] = "none" /\ pc[Front(t)] = "create" => Last(t) >= iter[Front(t)]
    /\ pc[t] = "none" /\ pc[Front(t)] \in After /\ Calls(Front(t)) => Refused(t)

\* The status of a loop is set when it returns, and by wait only for a loop
\* with a WaitGroup of its own; a body that has the mutex calls no loop.
StatusInv ==
  /\ status[CP] = "BadAlloc" => pc[CP] = "over"
  /\ \A a \in OuterTask : pc[a] = "critical" => body[a] = "none"
  /\ \A a \in Caller : status[a] \in {"Success", "Error"} =>
       /\ status[a] = "Success"
       /\ pc[a] \in {"done", "decrement", "decremented", "over"}
       /\ a # CP => body[a] = "block"

RInv == IInv /\ PlaceInv /\ CreatedInv /\ StatusInv

\* Where a task goes and whether it is refused is settled from the start.
LEMMA RefusedSame ==
  ASSUME UNCHANGED <<variant, tooLarge>>, NEW t
  PROVE  Refused(t)' = Refused(t) /\ PlaceNode(t)' = PlaceNode(t)
  BY DEF Refused, PlaceNode, Places, Even

\* The cores a task may be created at are all on one node.
LEMMA PlacesNode ==
  ASSUME NEW t \in Task, NEW p \in Places(t)
  PROVE  p[1] = PlaceNode(t)
<1>1. t # CP
  BY TaskPath
<1>2. PICK n : \A r \in Places(t) : r[1] = n
  BY DEF Places
<1>3. (CHOOSE r \in Places(t) : TRUE) \in Places(t)
  OBVIOUS
<1> QED BY <1>1, <1>2, <1>3 DEF PlaceNode

\* The parts of the invariant.
LEMMA RInvParts ==
  ASSUME RInv
  PROVE  /\ IInv /\ PlaceInv /\ CreatedInv /\ StatusInv
         /\ pc \in [{CP} \cup Task -> PcOfTask] /\ iter \in [Caller -> Int]
         /\ at \in [Task -> Core \cup {Nowhere}]
         /\ status \in [Caller -> {"none", "Success", "Error", "BadAlloc"}]
         /\ body \in [OuterTask -> {"none", "block", "spawn"}]
  BY DEF RInv, IInv, TypeOK

\* A step of x, other than the creation of a task.
LEMMA CallStep ==
  ASSUME RInv, NEW x \in {CP} \cup Task, NEW q,
         pc[x] # "none", q # "none", pc[x] # "over",
         pc' = [pc EXCEPT ![x] = q], UNCHANGED <<variant, tooLarge>>,
         \A b \in Caller : b # x => iter'[b] = iter[b] /\ (Calls(b)' <=> Calls(b)),
         x \in Caller /\ q = "create" => iter'[x] = 0,
         x \in Caller /\ q \in After /\ Calls(x)' =>
           \/ pc[x] \in After /\ Calls(x)
           \/ \A t \in ItemsOf(x) : pc[t] = "none" => Refused(t),
         \A t \in Task : t # x => at'[t] = at[t],
         x \in Task => q = "over" \/ (at'[x] \in Core /\ at'[x][1] = at[x][1])
  PROVE  PlaceInv' /\ CreatedInv'
<1>1. /\ \A u \in {CP} \cup Task : u # x => pc'[u] = pc[u]
      /\ pc'[x] = q
  BY RInvParts
<1>2. PlaceInv'
  <2> SUFFICES ASSUME NEW t \in Task, pc'[t] \notin {"none", "over"}
               PROVE  at'[t] \in Core /\ at'[t][1] = PlaceNode(t)'
    BY DEF PlaceInv
  <2>1. pc[t] \notin {"none", "over"}
    BY <1>1
  <2>2. at[t] \in Core /\ at[t][1] = PlaceNode(t)
    BY <2>1, RInvParts DEF PlaceInv
  <2> QED BY <1>1, <2>2, RefusedSame
<1>3. CreatedInv'
  <2> SUFFICES ASSUME NEW t \in Task
               PROVE  /\ pc'[t] # "none" => ~Refused(t)
                      /\ pc'[t] = "none" /\ pc'[Front(t)] = "create" => Last(t) >= iter'[Front(t)]
                      /\ pc'[t] = "none" /\ pc'[Front(t)] \in After /\ Calls(Front(t))'
                           => Refused(t)
    BY RefusedSame DEF CreatedInv, After
  <2>1. /\ Front(t) \in Caller /\ Front(t) \in {CP} \cup Task
        /\ Last(t) \in Int /\ Last(t) >= 0
    BY TaskPath, CallerKinds
  <2>2. pc'[t] = "none" <=> pc[t] = "none"
    BY <1>1
  <2>3. /\ pc[t] # "none" => ~Refused(t)
        /\ pc[t] = "none" /\ pc[Front(t)] = "create" => Last(t) >= iter[Front(t)]
        /\ pc[t] = "none" /\ pc[Front(t)] \in After /\ Calls(Front(t)) => Refused(t)
    BY RInvParts DEF CreatedInv
  <2>4. CASE Front(t) # x
    BY <1>1, <2>1, <2>2, <2>3, <2>4
  <2>5. CASE Front(t) = x
    <3>1. t \in ItemsOf(x)
      BY <2>5 DEF ItemsOf
    <3> QED BY <1>1, <2>1, <2>2, <2>3, <2>5, <3>1
  <2> QED BY <2>4, <2>5
<1> QED BY <1>2, <1>3

\* The steps of a task that are not those of a loop in its body.
LEMMA TaskStepRefused ==
  ASSUME RInv, NEW t \in Task, TaskStep(t)
  PROVE  PlaceInv' /\ CreatedInv' /\ StatusInv'
<1> USE RInvParts
<1>1. PICK q : /\ \/ pc[t] = "sent" /\ q = "queued"
                  \/ pc[t] = "queued" /\ q = "invoke"
                  \/ pc[t] = "invoke" /\ q = "critical"
                  \/ pc[t] = "critical" /\ q = "done"
                  \/ pc[t] = "done" /\ q = "decrement"
                  \/ pc[t] = "decrement" /\ q = "decremented"
                  \/ pc[t] \in {"done", "decremented"} /\ q = "over"
               /\ pc' = [pc EXCEPT ![t] = q]
               /\ q # "over" => UNCHANGED at
               /\ q = "over" => at' = [at EXCEPT ![t] = Nowhere]
               /\ UNCHANGED <<variant, tooLarge, body, iter, status>>
  BY DEF TaskStep, handleRequest, tryDequeue, lock, unlock, done, handleDecrement, resumeDone
<1>2. pc[t] \notin {"none", "over"} /\ q \notin {"none", "create"}
  BY <1>1
<1>3. \A b \in Caller : Calls(b)' <=> Calls(b)
  BY <1>1 DEF Calls
<1>4. t \in Caller /\ q \in After /\ Calls(t)' => pc[t] \in After /\ Calls(t)
  BY <1>1, <1>3, CallerKinds DEF After, StatusInv, Calls
<1>5. at[t] \in Core
  BY <1>2 DEF PlaceInv
<1>6. /\ \A u \in Task : u # t => at'[u] = at[u]
      /\ q = "over" \/ (at'[t] \in Core /\ at'[t][1] = at[t][1])
  BY <1>1, <1>5
<1>7. StatusInv'
  <2>1. /\ pc'[CP] = pc[CP] /\ \A a \in Caller : a # t => pc'[a] = pc[a]
        /\ pc'[t] = q
    BY <1>1, CallerKinds
  <2>2. q = "critical" => (t \in OuterTask => body[t] = "none")
    BY <1>1, CallerKinds, IInvParts DEF CallerInv
  <2>3. pc[t] \in {"done", "decrement", "decremented", "over"}
          => q \in {"done", "decrement", "decremented", "over"}
    BY <1>1
  <2>4. ASSUME NEW a \in Caller, status'[a] \in {"Success", "Error"}
        PROVE  /\ status'[a] = "Success"
               /\ pc'[a] \in {"done", "decrement", "decremented", "over"}
               /\ a # CP => body'[a] = "block"
    BY <1>1, <2>1, <2>3, <2>4 DEF StatusInv
  <2>5. \A a \in OuterTask : pc'[a] = "critical" => body'[a] = "none"
    BY <1>1, <2>1, <2>2, CallerKinds DEF StatusInv
  <2> QED BY <1>1, <2>1, <2>4, <2>5 DEF StatusInv
<1>8. /\ \A b \in Caller : b # t => iter'[b] = iter[b] /\ (Calls(b)' <=> Calls(b))
      /\ UNCHANGED <<variant, tooLarge>>
  BY <1>1, <1>3
<1> HIDE RInvParts
<1> QED BY <1>1, <1>2, <1>4, <1>6, <1>7, <1>8, CallStep

\* The operations preserve what was created, where it runs and the status.
LEMMA StealRefused ==
  ASSUME RInv, NEW c \in Core, workStealing(c) \/ stealTask(c)
  PROVE  PlaceInv' /\ CreatedInv' /\ StatusInv'
<1> USE RInvParts
<1>1. UNCHANGED <<variant, tooLarge, body, iter, status>>
  BY DEF workStealing, stealTask
<1>2. \A b \in Caller : Calls(b)' <=> Calls(b)
  BY <1>1 DEF Calls
<1>3. CASE UNCHANGED <<pc, at>>
  <2>1. PlaceInv'
    BY <1>1, <1>3, RefusedSame DEF PlaceInv
  <2>2. CreatedInv'
    BY <1>1, <1>2, <1>3, RefusedSame, TaskPath DEF CreatedInv, After
  <2>3. StatusInv'
    BY <1>1, <1>3 DEF StatusInv
  <2> QED BY <2>1, <2>2, <2>3
<1>4. ASSUME NEW t \in Task, pc[t] = "queued", at[t] = Neighbour(c),
             pc' = [pc EXCEPT ![t] = "invoke"], at' = [at EXCEPT ![t] = c]
      PROVE  PlaceInv' /\ CreatedInv' /\ StatusInv'
  <2>1. at'[t] = c /\ at'[t][1] = at[t][1] /\ \A u \in Task : u # t => at'[u] = at[u]
    BY <1>4 DEF Neighbour
  <2>2. StatusInv'
    BY <1>1, <1>4, CallerKinds DEF StatusInv
  <2>3. "invoke" \notin After
    BY DEF After
  <2>4. PlaceInv' /\ CreatedInv'
    BY <1>1, <1>2, <1>4, <2>1, <2>3, CallStep
  <2> QED BY <2>2, <2>4
<1> QED BY <1>3, <1>4 DEF workStealing, stealTask, Queue

LEMMA OuterStepRefused ==
  ASSUME RInv, NEW t \in OuterTask, OuterStep(t)
  PROVE  PlaceInv' /\ CreatedInv' /\ StatusInv'
<1> USE RInvParts
<1>0. t \in Task /\ t \in Caller /\ t # CP
  BY CallerKinds
<1>1. PICK q : /\ \/ /\ pc[t] = "invoke" /\ q \in {"create", "add"}
                     /\ body' = [body EXCEPT ![t] = "spawn"] /\ UNCHANGED iter
                  \/ /\ pc[t] = "add" /\ q = "added" /\ UNCHANGED <<body, iter>>
                  \/ /\ pc[t] = "added" /\ q = "create" /\ UNCHANGED <<body, iter>>
                  \/ /\ pc[t] = "undoing" /\ q = "undone" /\ UNCHANGED body
                     /\ iter' = [iter EXCEPT ![t] = @ + 1]
                  \/ /\ pc[t] = "undone" /\ q = "undo" /\ UNCHANGED <<body, iter>>
               /\ pc' = [pc EXCEPT ![t] = q]
               /\ UNCHANGED <<variant, tooLarge, at, status>>
  BY DEF OuterStep, doAll, handleAdd, resumeAdd, handleUndo, resumeUndo
<1>2. /\ pc[t] \notin {"none", "over"} /\ q # "none"
      /\ pc[t] \notin {"critical", "done", "decrement", "decremented", "over"}
      /\ q # "critical"
  BY <1>1
<1>3. \A b \in Caller : b # t => /\ (b # CP => body'[b] = body[b]) /\ iter'[b] = iter[b]
                                /\ (Calls(b)' <=> Calls(b))
  BY <1>1, CallerKinds DEF Calls
<1>4. q = "create" => iter'[t] = 0
  BY <1>0, <1>1, IInvParts DEF CallerInv
<1>5. q \in After /\ Calls(t)' => pc[t] \in After /\ Calls(t)
  BY <1>0, <1>1 DEF After, Calls
<1>6. at'[t] \in Core /\ at'[t][1] = at[t][1] /\ \A u \in Task : u # t => at'[u] = at[u]
  BY <1>0, <1>1, <1>2 DEF PlaceInv
<1>7. StatusInv'
  <2>1. /\ pc'[CP] = pc[CP] /\ \A a \in Caller : a # t => pc'[a] = pc[a]
        /\ pc'[t] = q
    BY <1>0, <1>1, CallerKinds
  <2>2. status[t] \notin {"Success", "Error"}
    BY <1>0, <1>2 DEF StatusInv
  <2>3. ASSUME NEW a \in Caller, status'[a] \in {"Success", "Error"}
        PROVE  /\ status'[a] = "Success"
               /\ pc'[a] \in {"done", "decrement", "decremented", "over"}
               /\ a # CP => body'[a] = "block"
    BY <1>1, <1>3, <2>1, <2>2, <2>3 DEF StatusInv
  <2>4. \A a \in OuterTask : pc'[a] = "critical" => body'[a] = "none"
    BY <1>0, <1>2, <1>3, <2>1, CallerKinds DEF StatusInv
  <2> QED BY <1>1, <2>1, <2>3, <2>4 DEF StatusInv
<1>8. UNCHANGED <<variant, tooLarge>> /\ pc' = [pc EXCEPT ![t] = q]
  BY <1>1
<1> HIDE RInvParts
<1> QED BY <1>0, <1>2, <1>3, <1>4, <1>5, <1>6, <1>7, <1>8, CallStep

LEMMA CallerStepRefused ==
  ASSUME RInv, NEW a \in Caller,
         doAllBlocking(a) \/ initializeFails(a) \/ undo(a) \/ wait(a) \/ deinitialize(a)
  PROVE  PlaceInv' /\ CreatedInv' /\ StatusInv'
<1> USE RInvParts
<1>0. a \in {CP} \cup Task /\ (a # CP => a \in OuterTask /\ a \in Task)
  BY CallerKinds
<1>1. PICK q : /\ \/ /\ pc[a] = "invoke" /\ q = "create" /\ UNCHANGED <<iter, status>>
                     /\ body' = IF a = CP THEN body ELSE [body EXCEPT ![a] = "block"]
                  \/ /\ pc[a] = "invoke" /\ q = AfterLoop(a) /\ UNCHANGED <<body, iter>>
                     /\ status' = [status EXCEPT ![a] = "BadAlloc"]
                  \/ /\ pc[a] = "undo" /\ q \in {"undo", "undoing", "wait", "done"}
                     /\ UNCHANGED <<body, status>>
                     /\ \A b \in Caller : b # a => iter'[b] = iter[b]
                  \/ pc[a] = "wait" /\ q = "check" /\ UNCHANGED <<body, iter, status>>
                  \/ /\ pc[a] = "check" /\ q = AfterLoop(a) /\ UNCHANGED <<body, iter>>
                     /\ status' = [status EXCEPT ![a] = "Success"]
               /\ pc' = [pc EXCEPT ![a] = q]
               /\ UNCHANGED <<variant, tooLarge, at>>
  <2>1. CASE doAllBlocking(a)
    BY <2>1 DEF doAllBlocking
  <2>2. CASE initializeFails(a)
    BY <2>2 DEF initializeFails
  <2>3. CASE undo(a)
    <3>1. pc[a] = "undo" /\ UNCHANGED <<variant, tooLarge, at>> /\ UNCHANGED <<body, status>>
      BY <2>3 DEF undo
    <3>2. \A b \in Caller : b # a => iter'[b] = iter[b]
      BY <2>3 DEF undo
    <3>3. \E q \in {"undo", "undoing", "wait", "done"} : pc' = [pc EXCEPT ![a] = q]
      <4>1. UNCHANGED pc => pc' = [pc EXCEPT ![a] = "undo"]
        BY <1>0, <3>1
      <4> QED BY <2>3, <4>1 DEF undo, Created
    <3> QED BY <3>1, <3>2, <3>3
  <2>4. CASE wait(a)
    BY <2>4 DEF wait
  <2>5. CASE deinitialize(a)
    <3>1. count[a] = 0
      BY <2>5, IInvParts DEF deinitialize, CallerInv
    <3>2. /\ pc[a] = "check" /\ pc' = [pc EXCEPT ![a] = AfterLoop(a)]
          /\ status' = [status EXCEPT ![a] = IF count[a] < 0 THEN "Error" ELSE "Success"]
          /\ UNCHANGED <<variant, tooLarge, at>> /\ UNCHANGED <<body, iter>>
      BY <2>5 DEF deinitialize
    <3>3. status' = [status EXCEPT ![a] = "Success"]
      BY <3>1, <3>2
    <3> QED BY <3>2, <3>3
  <2> QED BY <2>1, <2>2, <2>3, <2>4, <2>5
<1>2. /\ pc[a] \notin {"none", "over", "critical", "done", "decrement", "decremented"}
      /\ AfterLoop(a) \in {"done", "over"} /\ q \notin {"none", "critical"}
  BY <1>1 DEF AfterLoop
<1>3. \A b \in Caller : b # a => /\ (b # CP => body'[b] = body[b]) /\ iter'[b] = iter[b]
                                /\ status'[b] = status[b] /\ (Calls(b)' <=> Calls(b))
  <2>1. \A b \in Caller : b # a => /\ (b # CP => body'[b] = body[b]) /\ iter'[b] = iter[b]
                                  /\ status'[b] = status[b]
    BY <1>0, <1>1, CallerKinds
  <2> QED BY <2>1 DEF Calls
<1>4. q = "create" => iter'[a] = 0
  BY <1>1, <1>2, IInvParts DEF CallerInv
<1>5. q \in After /\ Calls(a)' => pc[a] \in After /\ Calls(a)
  <2>1. CASE pc[a] = "invoke"
    BY <1>0, <1>1, <2>1, IInvParts DEF After, Calls, CallerInv, AfterLoop
  <2>2. CASE pc[a] # "invoke"
    BY <1>0, <1>1, <1>2, <2>2 DEF After, Calls, StatusInv
  <2> QED BY <2>1, <2>2
<1>6. /\ a \in Task => at'[a] \in Core /\ at'[a][1] = at[a][1]
      /\ \A u \in Task : u # a => at'[u] = at[u]
  BY <1>1, <1>2 DEF PlaceInv
<1>7. StatusInv'
  <2>1. pc'[a] = q /\ \A b \in Caller : b # a => pc'[b] = pc[b]
    BY <1>0, <1>1, CallerKinds
  <2>2. status[a] \notin {"Success", "Error"}
    BY <1>2 DEF StatusInv
  <2>3. ASSUME NEW b \in Caller, status'[b] \in {"Success", "Error"}
        PROVE  /\ status'[b] = "Success"
               /\ pc'[b] \in {"done", "decrement", "decremented", "over"}
               /\ b # CP => body'[b] = "block"
    <3>1. CASE b # a
      BY <1>3, <2>1, <2>3, <3>1 DEF StatusInv
    <3>2. CASE b = a
      <4>1. pc[a] = "check" /\ q = AfterLoop(a) /\ UNCHANGED body /\ status'[a] = "Success"
        BY <1>1, <2>2, <2>3, <3>2
      <4>2. a # CP => body[a] = "block"
        BY <1>0, <4>1, IInvParts DEF CallerInv
      <4> QED BY <1>2, <2>1, <3>2, <4>1, <4>2
    <3> QED BY <3>1, <3>2
  <2>4. \A b \in OuterTask : pc'[b] = "critical" => body'[b] = "none"
    BY <1>2, <1>3, <2>1, CallerKinds DEF StatusInv
  <2>5. status'[CP] = "BadAlloc" => pc'[CP] = "over"
    <3>1. CASE a = CP
      BY <1>1, <1>2, <2>1, <3>1, CallerKinds DEF StatusInv, AfterLoop
    <3>2. CASE a # CP
      BY <1>3, <2>1, <3>2, CallerKinds DEF StatusInv
    <3> QED BY <3>1, <3>2
  <2> QED BY <2>3, <2>4, <2>5 DEF StatusInv
<1>8. UNCHANGED <<variant, tooLarge>> /\ pc' = [pc EXCEPT ![a] = q]
  BY <1>1
<1> HIDE RInvParts
<1> QED BY <1>0, <1>2, <1>3, <1>4, <1>5, <1>6, <1>7, <1>8, CallStep

LEMMA ExecuteOnRefused ==
  ASSUME RInv, NEW a \in Caller, executeOn(a)
  PROVE  PlaceInv' /\ CreatedInv' /\ StatusInv'
<1> USE RInvParts
<1>0. a \in {CP} \cup Task /\ (a # CP => a \in OuterTask /\ a \in Task)
  BY CallerKinds
<1>1. /\ pc[a] = "create" /\ UNCHANGED <<variant, tooLarge, body, status>>
      /\ Size(a) \in Nat \ {0} /\ iter[a] \in 0 .. Size(a) - 1
  BY IInvParts, CallerKinds DEF TypeOK, CallerInv, executeOn
<1>2. PICK x \in Task : x = Child(a, iter[a]) /\ Front(x) = a /\ Last(x) = iter[a]
  BY <1>1, ChildPath
<1>3. PICK place \in Places(x) :
        \/ /\ place[1] = NodeOf(a) \/ Len(a) \notin tooLarge
           /\ pc' = [pc EXCEPT
                   ![x] = IF place[1] = NodeOf(a) THEN "queued" ELSE "sent",
                   ![a] = IF iter[a] + 1 < Size(a) THEN "create" ELSE Created(a)]
           /\ at' = [at EXCEPT ![x] = place]
           /\ iter' = [iter EXCEPT ![a] = @ + 1]
        \/ /\ place[1] # NodeOf(a) /\ Len(a) \in tooLarge
           /\ pc' = [pc EXCEPT ![a] = IF Even(a) THEN "wait" ELSE "undo"]
           /\ UNCHANGED <<at, iter>>
  BY <1>2, Zenon DEF executeOn
<1>4. place \in Core /\ place[1] = PlaceNode(x)
  BY PlacesType, PlacesNode
<1>5. NodeOf(a) = PlaceNode(a)
  BY <1>0, <1>1 DEF NodeOf, PlaceNode, PlaceInv
<1>6. \A t \in Task : Refused(t) <=>
        /\ Len(Front(t)) \in tooLarge
        /\ \E k \in 0 .. Last(t) : PlaceNode(Child(Front(t), k)) # PlaceNode(Front(t))
  BY Zenon DEF Refused
<1>7. pc[x] = "none" /\ x # a
  BY <1>1, <1>2, IInvParts DEF TaskInv
<1>8. \A b \in Caller : Calls(b)' <=> Calls(b)
  BY <1>1 DEF Calls
<1>9. StatusInv'
  <2>1. \A b \in Caller : pc'[b] = pc[b] \/ pc[b] \in {"none", "create"}
    BY <1>1, <1>3, <1>7, CallerKinds
  <2>2. pc'[a] # "critical" /\ pc'[x] # "critical"
    BY <1>0, <1>1, <1>3, <1>7 DEF Created
  <2>3. \A b \in OuterTask : pc'[b] = "critical" => pc[b] = "critical"
    BY <1>3, <2>2, CallerKinds
  <2> QED BY <1>1, <2>1, <2>3, CallerKinds DEF StatusInv
<1>10. CASE /\ place[1] # NodeOf(a) /\ Len(a) \in tooLarge
            /\ pc' = [pc EXCEPT ![a] = IF Even(a) THEN "wait" ELSE "undo"]
            /\ UNCHANGED <<at, iter>>
  <2>1. ASSUME NEW t \in ItemsOf(a), pc[t] = "none" PROVE Refused(t)
    <3>1. t \in Task /\ Front(t) = a
      BY <2>1 DEF ItemsOf
    <3>2. Last(t) >= iter[a] /\ Last(t) \in Int
      BY <1>1, <2>1, <3>1, TaskPath, CallerKinds DEF CreatedInv
    <3>3. iter[a] \in 0 .. Last(t)
      BY <1>1, <3>2
    <3>4. PlaceNode(Child(a, iter[a])) # PlaceNode(a)
      BY <1>2, <1>4, <1>5, <1>10
    <3> QED BY <1>6, <1>10, <3>1, <3>3, <3>4
  <2>2. at[a] \in Core \/ a \notin Task
    BY <1>1 DEF PlaceInv
  <2>3. PICK q \in {"wait", "undo"} : pc' = [pc EXCEPT ![a] = q]
    BY <1>10
  <2>4. UNCHANGED <<variant, tooLarge>> /\ pc[a] # "none" /\ pc[a] # "over"
        /\ q # "none" /\ q # "create"
    BY <1>1
  <2>5. /\ \A b \in Caller : b # a => iter'[b] = iter[b] /\ (Calls(b)' <=> Calls(b))
        /\ \A t \in Task : t # a => at'[t] = at[t]
        /\ a \in Task => at'[a] \in Core /\ at'[a][1] = at[a][1]
    BY <1>8, <1>10, <2>2
  <2>6. PlaceInv' /\ CreatedInv'
    <3> HIDE RInvParts
    <3> QED BY <1>0, <2>1, <2>3, <2>4, <2>5, CallStep
  <2> QED BY <1>9, <2>6
<1>11. CASE /\ place[1] = NodeOf(a) \/ Len(a) \notin tooLarge
            /\ pc' = [pc EXCEPT
                    ![x] = IF place[1] = NodeOf(a) THEN "queued" ELSE "sent",
                    ![a] = IF iter[a] + 1 < Size(a) THEN "create" ELSE Created(a)]
            /\ at' = [at EXCEPT ![x] = place]
            /\ iter' = [iter EXCEPT ![a] = @ + 1]
  <2>1. /\ \A u \in {CP} \cup Task : u # a /\ u # x => pc'[u] = pc[u]
        /\ pc'[x] \in {"queued", "sent"}
        /\ pc'[a] = IF iter[a] + 1 < Size(a) THEN "create" ELSE Created(a)
        /\ pc'[a] # "none"
        /\ \A t \in Task : t # x => at'[t] = at[t]
        /\ at'[x] = place
        /\ iter'[a] = iter[a] + 1 /\ \A b \in Caller : b # a => iter'[b] = iter[b]
    BY <1>0, <1>1, <1>7, <1>11 DEF Created
  <2>2. ~Refused(x)
    <3> SUFFICES ASSUME Len(a) \in tooLarge, NEW k \in 0 .. Last(x)
                 PROVE  PlaceNode(Child(a, k)) = PlaceNode(a)
      BY <1>2, <1>6
    <3>1. CASE k = iter[a]
      BY <1>2, <1>4, <1>5, <1>11, <3>1
    <3>2. CASE k # iter[a]
      <4>1. k \in 0 .. Size(a) - 1 /\ k < iter[a] /\ k \in Int
        BY <1>1, <1>2, <3>2
      <4>2. PICK y \in Task : y = Child(a, k) /\ Front(y) = a /\ Last(y) = k
        BY <4>1, ChildPath
      <4>3. pc[y] # "none"
        BY <1>1, <4>1, <4>2 DEF CreatedInv
      <4>4. ~Refused(y)
        BY <4>3 DEF CreatedInv
      <4>5. k \in 0 .. Last(y)
        BY <4>1, <4>2
      <4> QED BY <1>6, <4>2, <4>4, <4>5
    <3> QED BY <3>1, <3>2
  <2>3. PlaceInv'
    <3> SUFFICES ASSUME NEW t \in Task, pc'[t] \notin {"none", "over"}
                 PROVE  at'[t] \in Core /\ at'[t][1] = PlaceNode(t)'
      BY DEF PlaceInv
    <3>1. PlaceNode(t)' = PlaceNode(t)
      BY <1>1, RefusedSame
    <3>2. CASE t = x
      BY <1>4, <2>1, <3>1, <3>2
    <3>3. CASE t # x
      <4>1. pc[t] \notin {"none", "over"}
        BY <1>1, <2>1, <3>3
      <4> QED BY <2>1, <3>1, <3>3, <4>1 DEF PlaceInv
    <3> QED BY <3>2, <3>3
  <2>4. CreatedInv'
    <3> SUFFICES ASSUME NEW t \in Task
                 PROVE  /\ pc'[t] # "none" => ~Refused(t)
                        /\ pc'[t] = "none" /\ pc'[Front(t)] = "create"
                             => Last(t) >= iter'[Front(t)]
                        /\ pc'[t] = "none" /\ pc'[Front(t)] \in After /\ Calls(Front(t))'
                             => Refused(t)
      BY <1>1, RefusedSame DEF CreatedInv, After
    <3>1. /\ Front(t) \in Caller /\ Front(t) \in {CP} \cup Task
          /\ Last(t) \in Int /\ Last(t) >= 0 /\ Last(t) < Size(Front(t))
          /\ t = Child(Front(t), Last(t))
      BY TaskPath, CallerKinds
    <3>2. /\ pc[t] # "none" => ~Refused(t)
          /\ pc[t] = "none" /\ pc[Front(t)] = "create" => Last(t) >= iter[Front(t)]
          /\ pc[t] = "none" /\ pc[Front(t)] \in After /\ Calls(Front(t)) => Refused(t)
      BY DEF CreatedInv
    <3>3. CASE t = x
      BY <2>1, <2>2, <3>3
    <3>4. CASE t # x
      <4>1. pc'[t] = "none" <=> pc[t] = "none"
        BY <1>1, <2>1, <3>4
      <4>2. CASE Front(t) = a
        <5>1. pc[t] = "none" => Last(t) > iter[a]
          BY <1>1, <1>2, <3>1, <3>2, <3>4, <4>2
        <5>2. pc[t] = "none" => pc'[a] = "create" /\ Last(t) >= iter'[a]
          BY <1>1, <2>1, <3>1, <4>2, <5>1
        <5> QED BY <3>2, <4>1, <4>2, <5>2 DEF After
      <4>3. CASE Front(t) = x
        BY <2>1, <3>2, <4>1, <4>3 DEF After
      <4>4. CASE Front(t) # a /\ Front(t) # x
        BY <1>8, <2>1, <3>1, <3>2, <4>1, <4>4
      <4> QED BY <4>2, <4>3, <4>4
    <3> QED BY <3>3, <3>4
  <2> QED BY <1>9, <2>3, <2>4
<1> QED BY <1>3, <1>10, <1>11

\* The extended invariant is inductive too.
LEMMA InitRInv == Init => RInv
<1> SUFFICES ASSUME Init PROVE RInv
  OBVIOUS
<1>1. /\ \A t \in Task : pc[t] = "none" /\ Front(t) \in Caller /\ Last(t) \in Int /\ Last(t) >= 0
      /\ pc[CP] = "invoke" /\ \A a \in Caller : pc[a] \in {"none", "invoke"}
  BY TaskPath, CallerKinds DEF Init
<1>2. PlaceInv
  BY <1>1 DEF PlaceInv
<1>3. CreatedInv
  BY <1>1 DEF CreatedInv, After
<1>4. StatusInv
  BY <1>1, CallerKinds DEF StatusInv, Init
<1> QED BY <1>2, <1>3, <1>4, InitIInv DEF RInv

LEMMA NextRInv == RInv /\ [Next]_vars => RInv'
<1> SUFFICES ASSUME RInv, [Next]_vars PROVE PlaceInv' /\ CreatedInv' /\ StatusInv'
  BY NextIInv, RInvParts DEF RInv
<1>1. ASSUME NEW a \in Caller, CallerStep(a) PROVE PlaceInv' /\ CreatedInv' /\ StatusInv'
  BY <1>1, CallerStepRefused, ExecuteOnRefused, Zenon DEF CallerStep
<1>2. ASSUME NEW t \in Task, TaskStep(t) PROVE PlaceInv' /\ CreatedInv' /\ StatusInv'
  BY <1>2, TaskStepRefused, Zenon
<1>3. ASSUME NEW t \in OuterTask, OuterStep(t) PROVE PlaceInv' /\ CreatedInv' /\ StatusInv'
  BY <1>3, OuterStepRefused, Zenon
<1>4. ASSUME NEW c \in Core, workStealing(c) \/ stealTask(c)
      PROVE  PlaceInv' /\ CreatedInv' /\ StatusInv'
  BY <1>4, StealRefused, Zenon
<1>5. ASSUME UNCHANGED vars PROVE PlaceInv' /\ CreatedInv' /\ StatusInv'
  <2>1. UNCHANGED <<variant, tooLarge>> /\ UNCHANGED <<pc, at, body, iter, status>>
    BY <1>5 DEF vars
  <2>2. PlaceInv'
    BY <2>1, RInvParts, RefusedSame DEF PlaceInv
  <2>3. CreatedInv'
    BY <2>1, RInvParts, RefusedSame DEF CreatedInv, After, Calls
  <2>4. StatusInv'
    BY <2>1, RInvParts DEF StatusInv
  <2> QED BY <2>2, <2>3, <2>4
<1> QED BY <1>1, <1>2, <1>3, <1>4, <1>5, Zenon DEF Next, idle

\* When a loop has returned, its tasks are over, but for those refused.
LEMMA RInvOver == RInv => LoopOver
<1> SUFFICES ASSUME RInv, NEW a \in Caller, status[a] \in {"Success", "Error"}
             PROVE  /\ status[a] = "Success"
                    /\ \A t \in Task :
                         GroupOf(t) = a /\ (Front(t) = CP \/ body[Front(t)] # "none") =>
                           IF Refused(t) THEN pc[t] = "none"
                                         ELSE pc[t] \in {"decremented", "over"}
  BY DEF LoopOver
<1>1. /\ status[a] = "Success" /\ pc[a] \in {"done", "decrement", "decremented", "over"}
      /\ a # CP => body[a] = "block"
  BY RInvParts DEF StatusInv
<1>2. count[a] = Freed
  BY <1>1, RInvParts, IInvParts DEF CallerInv
<1>3. \A t \in Task : GroupOf(t) = a => ~Owed(t)
  BY <1>2, RInvParts, IInvParts DEF GroupLives
<1>4. ASSUME NEW t \in Task, GroupOf(t) = a, Front(t) = CP \/ body[Front(t)] # "none",
             ~Refused(t)
      PROVE  pc[t] \in {"decremented", "over"}
  <2>0. pc[t] \in PcOfTask /\ ~Owed(t)
    BY <1>3, <1>4, RInvParts
  <2>1. pc[t] \in {"none", "decremented", "over"}
    BY <2>0 DEF Owed, PcOfTask
  <2>2. ASSUME pc[t] = "none" PROVE FALSE
    <3>1. Front(t) \in Caller
      BY TaskPath
    <3>2. CASE Front(t) = a
      <4>1. pc[a] \in After /\ Calls(a)
        BY <1>1, <1>4, <3>2 DEF After, Calls
      <4> QED BY <1>4, <2>2, <3>2, <4>1, RInvParts DEF CreatedInv
    <3>3. CASE Front(t) # a
      <4>1. a = CP /\ Front(t) \in OuterTask /\ Front(t) \in Task /\ body[Front(t)] # "none"
        BY <1>4, <3>1, <3>3, CallerKinds DEF GroupOf, Group
      <4>2. GroupOf(Front(t)) = CP
        BY <4>1, TaskPath DEF GroupOf, Group
      <4>3. ~Owed(Front(t)) /\ pc[Front(t)] \in PcOfTask
        BY <1>3, <4>1, <4>2, RInvParts
      <4>4. pc[Front(t)] \in {"none", "decremented", "over"}
        BY <4>3 DEF Owed, PcOfTask
      <4>5. pc[Front(t)] # "none"
        BY <4>1, RInvParts, IInvParts DEF CallerInv
      <4>6. pc[Front(t)] \in After /\ Calls(Front(t))
        BY <4>1, <4>4, <4>5, CallerKinds DEF After, Calls
      <4> QED BY <1>4, <2>2, <4>6, RInvParts DEF CreatedInv
    <3> QED BY <3>2, <3>3
  <2> QED BY <2>1, <2>2
<1>5. \A t \in Task : Refused(t) => pc[t] = "none"
  BY RInvParts DEF CreatedInv
<1> QED BY <1>1, <1>4, <1>5

\* When a blocking loop returns, it reports success, and every task of it and of
\* the loops called with its handle has run and said so, unless executeOn refused
\* it or one before it (do_all.hpp); this for any number of nodes, cores and items.
THEOREM LoopComplete == Spec => []LoopOver
  BY InitRInv, NextRInv, RInvOver, PTL DEF Spec
=============================================================================
