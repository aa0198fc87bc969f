----------------------------- MODULE SsspProofs -----------------------------
(***************************************************************************)
(* Proofs about the mirrored graph and the shortest paths on it, for any   *)
(* graph, any number of hosts and any placement of the vertices.           *)
(*                                                                         *)
(* IInv is the invariant of any number of searches: types, the count of    *)
(* the wait group, and how marks, values and messages of the copies fit    *)
(* together.  Types, Reduced, MirrorsAgree and the refinement of ForkJoin  *)
(* follow from it.  DInv adds what one search knows of the distances: they *)
(* are lengths of walks, and an edge that is not relaxed has someone who   *)
(* will relax it.  Reached and Distances follow from that one.             *)
(***************************************************************************)
EXTENDS Sssp, FiniteSetTheorems, WellFoundedInduction, TLAPS

-----------------------------------------------------------------------------
(***************************************************************************)
(* The smallest element of a set, and the first mirror of a table.         *)
(***************************************************************************)
\* A set of numbers that is not empty has a least element.
LEMMA LeastNumber ==
  ASSUME NEW S \in SUBSET Nat, S # {}
  PROVE  \E x \in S : \A y \in S : x <= y
<1>1. IsWellFoundedOn(OpToRel(<, Nat), Nat)
  BY NatLessThanWellFounded
<1>2. PICK x \in S : \A y \in S : ~(<<y, x>> \in OpToRel(<, Nat))
  BY <1>1, WFMin
<1>3. ASSUME NEW y \in S PROVE x <= y
  <2>1. ~(y < x)
    <3> SUFFICES ASSUME y < x PROVE FALSE
      OBVIOUS
    <3>1. <<y, x>> \in OpToRel(<, Nat)
      BY Zenon DEF OpToRel
    <3> QED BY <1>2, <3>1
  <2> QED BY <2>1
<1> QED BY <1>3

\* Least is that element.
LEMMA LeastIn ==
  ASSUME NEW S \in SUBSET Nat, S # {}
  PROVE  Least(S) \in S /\ \A y \in S : Least(S) <= y
  BY LeastNumber DEF Least

\* The task of a host finds a mirror in a table that is not empty.
LEMMA FirstIn ==
  ASSUME NEW S \in SUBSET (Vertex \X Host), S # {}
  PROVE  First(S) \in S
<1> DEFINE H == {c[2] : c \in S}
<1>1. H \in SUBSET Nat /\ H # {}
  BY GraphAssumption
<1>2. PICK h \in H : \A x \in H : h <= x
  BY <1>1, LeastNumber
<1> DEFINE V == {c[1] : c \in {d \in S : d[2] = h}}
<1>3. V \in SUBSET Nat /\ V # {}
  BY GraphAssumption
<1>4. PICK v \in V : \A x \in V : v <= x
  BY <1>3, LeastNumber
<1>5. PICK c \in S : c[2] = h /\ c[1] = v
  OBVIOUS
<1>6. ASSUME NEW d \in S PROVE c[2] < d[2] \/ (c[2] = d[2] /\ c[1] <= d[1])
  <2>1. d[2] \in H /\ d[2] \in Nat /\ c[2] \in Nat
    BY <1>1
  <2>2. c[2] <= d[2]
    BY <1>2, <1>5, <2>1
  <2>3. CASE d[2] = h
    <3>1. d[1] \in V
      BY <2>3
    <3> QED BY <1>4, <1>5, <2>3, <3>1
  <2>4. CASE d[2] # h
    BY <1>5, <2>1, <2>2, <2>4
  <2> QED BY <2>3, <2>4
<1> QED BY <1>6 DEF First

-----------------------------------------------------------------------------
(***************************************************************************)
(* Bags, of which only the elements matter here.                           *)
(***************************************************************************)
\* One more element.
LEMMA BagAdd ==
  ASSUME NEW B, NEW x, IsABag(B)
  PROVE  IsABag(Add(B, x)) /\ DOMAIN Add(B, x) = DOMAIN B \cup {x}
  BY DEF Add, IsABag, (+), SetToBag

\* The elements of a set.
AddAll(B, S) == B (+) SetToBag(S)

\* It holds the elements of both.
LEMMA BagAddAll ==
  ASSUME NEW B, NEW S, IsABag(B)
  PROVE  IsABag(AddAll(B, S)) /\ DOMAIN AddAll(B, S) = DOMAIN B \cup S
<1>1. \A e \in DOMAIN B : B[e] \in Nat /\ B[e] > 0
  BY DEF IsABag
<1>2. AddAll(B, S) = [e \in DOMAIN B \cup S |-> (IF e \in DOMAIN B THEN B[e] ELSE 0)
                                                + (IF e \in S THEN 1 ELSE 0)]
  BY DEF (+), SetToBag, AddAll
<1>3. \A e \in DOMAIN B \cup S : (IF e \in DOMAIN B THEN B[e] ELSE 0)
                                + (IF e \in S THEN 1 ELSE 0) \in {n \in Nat : n > 0}
  BY <1>1
<1> QED BY <1>2, <1>3 DEF IsABag

\* One element for another.
LEMMA BagReplace ==
  ASSUME NEW B, NEW x, NEW y
  PROVE  DOMAIN Replace(B, x, y) \subseteq DOMAIN B \cup {y}
  BY DEF Replace, (+), (-), SetToBag

\* One element less.
LEMMA BagRemove ==
  ASSUME NEW B, NEW x
  PROVE  DOMAIN (B (-) SetToBag({x})) \subseteq DOMAIN B
  BY DEF (-), SetToBag

\* No element.
LEMMA BagEmpty == IsABag(EmptyBag) /\ DOMAIN EmptyBag = {}
  BY DEF IsABag, EmptyBag, SetToBag

-----------------------------------------------------------------------------
(***************************************************************************)
(* Masters and mirrors.                                                    *)
(***************************************************************************)
\* A copy is a master or a mirror and never both.
LEMMA CopyKinds ==
  /\ Mirrors \subseteq Vertex \X Host /\ Mirrors \subseteq Copies
  /\ \A v \in Vertex : Master(v) \in Copies /\ Master(v) \notin Mirrors
  /\ \A m \in Mirrors : m[1] \in Vertex /\ m[2] \in Host /\ Owner[m[1]] \in Host
  /\ \A m \in Mirrors, v \in Vertex : Master(v) # m
  /\ \A c \in Copies : c = <<c[1], c[2]>> /\ c[1] \in Vertex /\ c[2] \in Host
<1>1. \A v \in Vertex : Owner[v] \in Host
  BY GraphAssumption
<1> QED BY <1>1 DEF Mirrors, Copies, Masters, Master

\* The destination of an edge has a copy on the host of the edge.
LEMMA DestinationCopy ==
  ASSUME edges \in Graphs, NEW h \in Host, NEW d \in Destinations(h)
  PROVE  d \in Vertex /\ <<d, h>> \in Copies
<1>1. d \in Vertex
  BY GraphAssumption DEF Destinations
<1>2. CASE Owner[d] = h
  BY <1>1, <1>2 DEF Copies, Masters, Master
<1>3. CASE Owner[d] # h
  BY <1>1, <1>3 DEF Copies, Mirrors
<1> QED BY <1>1, <1>2, <1>3

\* The graph does not change.
LEMMA GraphSame ==
  ASSUME UNCHANGED graph
  PROVE  /\ edges' = edges /\ broadcasts' = broadcasts
         /\ Mirrors' = Mirrors /\ Copies' = Copies
         /\ \A h : Destinations(h)' = Destinations(h)
         /\ \A c : Neighbours(c)' = Neighbours(c)
  BY DEF graph, Mirrors, Copies, Masters, Destinations, Neighbours

\* There are finitely many mirrors.
LEMMA MirrorsFinite == IsFiniteSet(Mirrors) /\ IsFiniteSet(Host)
  BY CopyKinds, GraphAssumption, FS_Product, FS_Subset

-----------------------------------------------------------------------------
(***************************************************************************)
(* The inductive invariant.                                                *)
(***************************************************************************)
Phases == {"user", "loop", "local", "sync", "reduce", "reduced", "broadcast", "synced"}
TaskRecord == [pc : {"none", "created", "func", "compare", "done"},
               val : 0 .. MaxData, old : 0 .. MaxData]
WorkRecord == [v : Vertex, pc : {"start", "edges", "relax"}, dist : 0 .. MaxData,
               todo : SUBSET Vertex, pushed : BOOLEAN]

\* The types of TypeOK, without the bound of the count, which is a consequence.
SyncType ==
  /\ edges \in Graphs /\ broadcasts \in BOOLEAN
  /\ data \in [Copies -> 0 .. MaxData] /\ dirty \in [Copies -> BOOLEAN]
  /\ running \subseteq Host /\ scan \in [Host -> SUBSET Mirrors]
  /\ task \in [Mirrors -> TaskRecord]
  /\ phase \in Phases

LocalType ==
  /\ list = [h \in Host |-> [i \in {0, 1} |-> list[h][i]]]
  /\ toRead \in [Host -> {0, 1}]
  /\ local \in [Host -> {"round", "tasks", "over"}] /\ ready \in [Host -> BOOLEAN]
  /\ work = [h \in Host |-> work[h]]
  /\ active \in BOOLEAN /\ searches \in 0 .. Searches /\ src \in Vertex

\* The lists and the tasks of a host name copies that the host has, and a task
\* that is about to relax an edge has one whose destination is farther away, or
\* was when another task marked it.  Only in phase "local" a host has tasks.
ListsInv ==
  \A h \in Host : \A i \in {0, 1} :
    IsABag(list[h][i]) /\ \A v \in DOMAIN list[h][i] : v \in Vertex /\ <<v, h>> \in Copies

WorkOK(h, t) ==
  /\ t \in WorkRecord /\ <<t.v, h>> \in Copies /\ t.todo \subseteq Destinations(h)
  /\ t.pc = "relax" =>
       /\ t.todo # {}
       /\ dirty[<<Least(t.todo), h>>] \/ t.dist < data[<<Least(t.todo), h>>]

WorkInv ==
  /\ phase # "local" => \A h \in Host : local[h] = "over"
  /\ \A h \in Host :
       /\ local[h] # "tasks" => work[h] = EmptyBag
       /\ \A t \in DOMAIN work[h] : WorkOK(h, t)

LocalInv == LocalType /\ ListsInv /\ WorkInv

\* The wait group counts the tasks of the hosts and of the mirrors.  A mirror is
\* in the table of one host, and has no task before that host has come to it.
Tasks == {m \in Mirrors : task[m].pc # "none"}
Scanner(m) == IF phase = "reduce" THEN m[2] ELSE Owner[m[1]]

SyncInv ==
  /\ \A h \in Host : h \notin running => scan[h] = {}
  /\ phase \notin {"reduce", "broadcast"} => running = {} /\ Tasks = {}
  /\ \A h \in Host : \A m \in scan[h] : task[m].pc = "none" /\ h = Scanner(m)
  /\ \A m \in Mirrors : task[m].pc = "none" => task[m] = NoTask
  /\ count = Cardinality(running) + Cardinality(Tasks)

\* The value of m is yet to be sent, or has been but was not used.
Ahead(m) == m \in scan[Scanner(m)] \/ task[m].pc \in {"created", "func"}

\* A mirror is below its master only if it is marked, and in reduce only until
\* its value has arrived.
ValueInv ==
  /\ phase \in {"user", "loop"} => \A c \in Copies : ~dirty[c]
  /\ \A m \in Mirrors :
       /\ phase = "reduce" /\ task[m].pc # "none" => dirty[m]
       /\ task[m].pc \in {"created", "func"} => task[m].val = data[From(m)]
       /\ \/ data[Master(m[1])] <= data[m]
          \/ dirty[m] /\ phase \in {"local", "sync"}
          \/ dirty[m] /\ phase = "reduce" /\ Ahead(m)

\* The master of v was changed in this iteration: it is marked, or will be by a
\* task that has read its value before the change.
Changed(v) ==
  \/ dirty[Master(v)]
  \/ \E m \in Mirrors : m[1] = v /\ task[m].pc = "compare" /\ data[Master(v)] < task[m].old

\* The master of m was not changed: m is equal to it, or below it and its value
\* has not arrived.
Untouched(m) ==
  \/ ~dirty[m] /\ data[m] = data[Master(m[1])]
  \/ /\ dirty[m] /\ data[m] < data[Master(m[1])] /\ Ahead(m)
     /\ task[m].pc = "func" => task[m].old = data[Master(m[1])]

\* With BROADCAST the copies of a vertex agree between the iterations; within one,
\* those that differ from their master are marked or their master is.
AgreeInv ==
  broadcasts => \A m \in Mirrors :
    /\ phase \in {"user", "loop", "synced"} => data[m] = data[Master(m[1])]
    /\ phase \in {"local", "sync"} =>
         \/ dirty[Master(m[1])]
         \/ dirty[m] /\ data[m] < data[Master(m[1])]
         \/ ~dirty[m] /\ data[m] = data[Master(m[1])]
    /\ phase = "reduce" => Changed(m[1]) \/ Untouched(m)
    /\ phase = "reduced" => dirty[Master(m[1])] \/ data[m] = data[Master(m[1])]
    /\ phase = "broadcast" =>
         data[m] = data[Master(m[1])] \/ (dirty[Master(m[1])] /\ Ahead(m))

IInv == SyncType /\ LocalInv /\ SyncInv /\ ValueInv /\ AgreeInv

\* The parts of the invariant.
LEMMA IInvParts ==
  ASSUME IInv
  PROVE  /\ SyncType /\ LocalType /\ ListsInv /\ WorkInv /\ SyncInv /\ ValueInv /\ AgreeInv
         /\ IsFiniteSet(running) /\ Cardinality(running) \in Nat
         /\ IsFiniteSet(Tasks) /\ Cardinality(Tasks) \in Nat
<1>1. running \subseteq Host /\ Tasks \subseteq Mirrors
  BY DEF IInv, SyncType, Tasks
<1> QED BY <1>1, MirrorsFinite, FS_Subset, FS_CardinalityType DEF IInv, LocalInv

\* At the start.
LEMMA InitIInv == Init => IInv
<1> SUFFICES ASSUME Init PROVE IInv
  OBVIOUS
<1>1. MaxData \in Nat /\ 0 \in 0 .. MaxData /\ MaxData \in 0 .. MaxData
  BY GraphAssumption
<1>2. NoTask \in TaskRecord /\ NoTask.pc = "none"
  BY <1>1 DEF NoTask, TaskRecord
<1>3. SyncType
  BY <1>1, <1>2 DEF Init, SyncType, Phases
<1>4. LocalType
  <2>1. list = [h \in Host |-> [i \in {0, 1} |-> list[h][i]]]
    <3>1. \A h \in Host : list[h] = [i \in {0, 1} |-> EmptyBag]
      BY DEF Init
    <3>2. \A h \in Host : \A i \in {0, 1} : list[h][i] = EmptyBag
      BY <3>1
    <3> QED BY <3>1, <3>2, Zenon DEF Init
  <2>2. work = [h \in Host |-> work[h]]
    BY Zenon DEF Init
  <2>3. /\ toRead \in [Host -> {0, 1}] /\ local \in [Host -> {"round", "tasks", "over"}]
        /\ ready \in [Host -> BOOLEAN]
    BY DEF Init
  <2>4. active \in BOOLEAN /\ searches = 0 /\ src \in Vertex
    BY Zenon DEF Init
  <2>5. searches \in 0 .. Searches
    BY <2>4, SearchesAssumption
  <2> QED BY <2>1, <2>2, <2>3, <2>4, <2>5, Zenon DEF LocalType
<1>5. ListsInv
  BY BagEmpty DEF Init, ListsInv
<1>6. WorkInv
  BY BagEmpty DEF Init, WorkInv
<1>7. Tasks = {}
  BY <1>2 DEF Init, Tasks
<1>8. SyncInv
  <2>1. Cardinality({}) = 0
    BY FS_EmptySet
  <2> QED BY <1>7, <2>1 DEF Init, SyncInv
<1>9. ValueInv /\ AgreeInv
  <2>1. \A m \in Mirrors : m \in Copies /\ Master(m[1]) \in Copies
    BY CopyKinds
  <2>2. \A m \in Mirrors : task[m].pc = "none" /\ data[m] = MaxData /\ data[Master(m[1])] = MaxData
    BY <1>2, <2>1 DEF Init
  <2> QED BY <1>1, <2>1, <2>2 DEF Init, ValueInv, AgreeInv
<1> QED BY <1>3, <1>4, <1>5, <1>6, <1>8, <1>9 DEF IInv, LocalInv

-----------------------------------------------------------------------------
(***************************************************************************)
(* The steps of sync.                                                      *)
(***************************************************************************)
CopiesInv == SyncType /\ SyncInv /\ ValueInv /\ AgreeInv

\* The task of every host begins.
LEMMA ReduceInv ==
  ASSUME IInv, reduce
  PROVE  CopiesInv'
<1> USE DEF SyncType
<1>0. SyncType /\ SyncInv /\ ValueInv /\ AgreeInv
  BY IInvParts
<1>1. /\ phase = "sync" /\ phase' = "reduce" /\ running' = Host /\ count' = Cardinality(Host)
      /\ scan' = [h \in Host |-> {m \in Mirrors : m[2] = h}]
      /\ UNCHANGED <<graph, data, dirty, task>>
  BY DEF reduce, Start, copies
<1>2. /\ Mirrors' = Mirrors /\ Copies' = Copies /\ edges' = edges /\ broadcasts' = broadcasts
  BY <1>1, GraphSame
<1>3. Tasks = {} /\ Tasks' = {} /\ \A m \in Mirrors : task[m].pc = "none"
  BY <1>0, <1>1, <1>2 DEF SyncInv, Tasks
<1>4. SyncType'
  BY <1>0, <1>1, <1>2 DEF Phases
<1>5. SyncInv'
  <2>1. Cardinality({}) = 0 /\ Cardinality(Host) \in Nat
    BY FS_EmptySet, MirrorsFinite, FS_CardinalityType
  <2> QED BY <1>0, <1>1, <1>2, <1>3, <2>1 DEF SyncInv, Scanner
<1>6. ASSUME NEW m \in Mirrors PROVE Ahead(m)'
  BY <1>1, <1>6, CopyKinds DEF Ahead, Scanner
<1>7. ValueInv'
  BY <1>0, <1>1, <1>2, <1>3, <1>6 DEF ValueInv
<1>8. AgreeInv'
  <2> SUFFICES ASSUME broadcasts, NEW m \in Mirrors
               PROVE  Changed(m[1])' \/ Untouched(m)'
    BY <1>1, <1>2 DEF AgreeInv
  <2>1. \/ dirty[Master(m[1])]
        \/ dirty[m] /\ data[m] < data[Master(m[1])]
        \/ ~dirty[m] /\ data[m] = data[Master(m[1])]
    BY <1>0, <1>1 DEF AgreeInv
  <2> QED BY <1>1, <1>3, <1>6, <2>1 DEF Changed, Untouched, Master
<1> QED BY <1>4, <1>5, <1>7, <1>8 DEF CopiesInv

\* Likewise; the masters that are not marked agree with their mirrors.
LEMMA BroadcastInv ==
  ASSUME IInv, broadcast
  PROVE  CopiesInv'
<1> USE DEF SyncType
<1>0. SyncType /\ SyncInv /\ ValueInv /\ AgreeInv
  BY IInvParts
<1>1. /\ phase = "reduced" /\ phase' = "broadcast" /\ running' = Host
      /\ count' = Cardinality(Host)
      /\ scan' = [h \in Host |-> {m \in Mirrors : Owner[m[1]] = h}]
      /\ UNCHANGED <<graph, data, dirty, task>>
  BY DEF broadcast, Start, copies
<1>2. /\ Mirrors' = Mirrors /\ Copies' = Copies /\ edges' = edges /\ broadcasts' = broadcasts
  BY <1>1, GraphSame
<1>3. Tasks = {} /\ Tasks' = {} /\ \A m \in Mirrors : task[m].pc = "none"
  BY <1>0, <1>1, <1>2 DEF SyncInv, Tasks
<1>4. SyncType'
  BY <1>0, <1>1, <1>2 DEF Phases
<1>5. SyncInv'
  <2>1. Cardinality({}) = 0 /\ Cardinality(Host) \in Nat
    BY FS_EmptySet, MirrorsFinite, FS_CardinalityType
  <2> QED BY <1>0, <1>1, <1>2, <1>3, <2>1 DEF SyncInv, Scanner
<1>6. ASSUME NEW m \in Mirrors PROVE Ahead(m)'
  BY <1>1, <1>6, CopyKinds DEF Ahead, Scanner
<1>7. ValueInv'
  BY <1>0, <1>1, <1>2, <1>3 DEF ValueInv
<1>8. AgreeInv'
  BY <1>0, <1>1, <1>2, <1>6 DEF AgreeInv, Master
<1> QED BY <1>4, <1>5, <1>7, <1>8 DEF CopiesInv

\* When the count is zero no task is left.
LEMMA CountZero ==
  ASSUME IInv, count = 0
  PROVE  running = {} /\ Tasks = {}
<1>1. Cardinality(running) = 0 /\ Cardinality(Tasks) = 0
  BY IInvParts DEF SyncInv
<1> QED BY <1>1, IInvParts, FS_EmptySet

\* The phase ends: no value is on its way.
LEMMA WaitInv ==
  ASSUME IInv, wait \/ skipBroadcast
  PROVE  CopiesInv'
<1> USE DEF SyncType
<1>0. SyncType /\ SyncInv /\ ValueInv /\ AgreeInv
  BY IInvParts
<1>1. /\ \/ phase = "reduce" /\ phase' = "reduced"
         \/ phase = "broadcast" /\ phase' = "synced"
         \/ phase = "reduced" /\ phase' = "synced" /\ ~broadcasts
      /\ phase # "reduced" => count = 0
      /\ UNCHANGED <<graph, data, dirty, running, scan, task, count>>
  BY DEF wait, skipBroadcast, copies, tasks
<1>2. /\ Mirrors' = Mirrors /\ Copies' = Copies /\ edges' = edges /\ broadcasts' = broadcasts
  BY <1>1, GraphSame
<1>3. running = {} /\ Tasks = {}
  BY <1>0, <1>1, CountZero DEF SyncInv
<1>4. /\ \A m \in Mirrors : task[m].pc = "none" /\ ~Ahead(m)
      /\ \A h \in Host : scan[h] = {}
  BY <1>0, <1>3, CopyKinds DEF SyncInv, Tasks, Ahead, Scanner
<1>5. SyncType'
  BY <1>0, <1>1, <1>2 DEF Phases
<1>6. SyncInv'
  BY <1>0, <1>1, <1>2, <1>3, <1>4 DEF SyncInv, Tasks
<1>7. ValueInv'
  BY <1>0, <1>1, <1>2, <1>4 DEF ValueInv
<1>8. AgreeInv'
  <2> SUFFICES ASSUME broadcasts, NEW m \in Mirrors
               PROVE  /\ phase' = "reduced" => dirty[Master(m[1])] \/ data[m] = data[Master(m[1])]
                      /\ phase' = "synced" => data[m] = data[Master(m[1])]
    BY <1>1, <1>2 DEF AgreeInv, Master
  <2>1. CASE phase = "reduce"
    <3>1. Changed(m[1]) \/ Untouched(m)
      BY <1>0, <2>1 DEF AgreeInv
    <3>2. dirty[Master(m[1])] \/ data[m] = data[Master(m[1])]
      BY <1>4, <3>1 DEF Changed, Untouched
    <3> QED BY <1>1, <2>1, <3>2
  <2>2. CASE phase = "broadcast"
    BY <1>0, <1>1, <1>4, <2>2 DEF AgreeInv
  <2> QED BY <1>1, <2>1, <2>2
<1> QED BY <1>5, <1>6, <1>7, <1>8 DEF CopiesInv

\* A step that changes the task of one mirror, and its place among the tasks.
LEMMA TaskCount ==
  ASSUME IInv, NEW m \in Mirrors, Mirrors' = Mirrors,
         \A n \in Mirrors : n # m => task'[n] = task[n]
  PROVE  /\ (task[m].pc = "none" <=> task'[m].pc = "none") => Tasks' = Tasks
         /\ task[m].pc = "none" /\ task'[m].pc # "none" =>
              Tasks' = Tasks \cup {m} /\ Cardinality(Tasks') = Cardinality(Tasks) + 1
         /\ task[m].pc # "none" /\ task'[m].pc = "none" =>
              Tasks' = Tasks \ {m} /\ Cardinality(Tasks') = Cardinality(Tasks) - 1
<1>0. IsFiniteSet(Tasks)
  BY IInvParts
<1>1. (task[m].pc = "none" <=> task'[m].pc = "none") => Tasks' = Tasks
  BY DEF Tasks
<1>2. ASSUME task[m].pc = "none", task'[m].pc # "none"
      PROVE  Tasks' = Tasks \cup {m} /\ Cardinality(Tasks') = Cardinality(Tasks) + 1
  <2>1. Tasks' = Tasks \cup {m} /\ m \notin Tasks
    BY <1>2 DEF Tasks
  <2> QED BY <1>0, <2>1, FS_AddElement
<1>3. ASSUME task[m].pc # "none", task'[m].pc = "none"
      PROVE  Tasks' = Tasks \ {m} /\ Cardinality(Tasks') = Cardinality(Tasks) - 1
  <2>1. Tasks' = Tasks \ {m} /\ m \in Tasks
    BY <1>3 DEF Tasks
  <2> QED BY <1>0, <2>1, FS_RemoveElement
<1> QED BY <1>1, <1>2, <1>3

\* The task of a host looks at a mirror.
LEMMA LookInv ==
  ASSUME IInv, NEW h \in Host, look(h)
  PROVE  CopiesInv'
<1> USE DEF SyncType
<1>0. SyncType /\ SyncInv /\ ValueInv /\ AgreeInv
  BY IInvParts
<1> DEFINE f == First(scan[h])
<1>1. f \in scan[h]
  BY <1>0, FirstIn, CopyKinds DEF look
<1>2. PICK m : m = f
  OBVIOUS
<1>3. /\ m \in Mirrors /\ m \in scan[h] /\ h \in running /\ task[m].pc = "none" /\ h = Scanner(m)
      /\ m[1] \in Vertex
  BY <1>0, <1>1, <1>2, CopyKinds DEF look, SyncInv
<1>4. phase \in {"reduce", "broadcast"}
  BY <1>0, <1>3 DEF SyncInv
<1>5. /\ scan' = [scan EXCEPT ![h] = @ \ {m}]
      /\ \/ /\ dirty[From(m)] /\ count' = count + 1
            /\ task' = [task EXCEPT ![m] = [pc |-> "created", val |-> data[From(m)], old |-> 0]]
         \/ ~dirty[From(m)] /\ UNCHANGED <<count, task>>
      /\ UNCHANGED <<graph, data, dirty, phase, running>>
  BY <1>2 DEF look, copies
<1>6. /\ Mirrors' = Mirrors /\ Copies' = Copies /\ edges' = edges /\ broadcasts' = broadcasts
  BY <1>5, GraphSame
<1>7. From(m) \in Copies /\ data[From(m)] \in 0 .. MaxData /\ MaxData \in Nat
  BY <1>0, <1>3, CopyKinds, GraphAssumption DEF From
<1>8. /\ \A n \in Mirrors : n # m => task'[n] = task[n]
      /\ task' \in [Mirrors -> TaskRecord]
      /\ dirty[From(m)] => task'[m].pc = "created" /\ task'[m].val = data[From(m)]
      /\ ~dirty[From(m)] => task'[m] = task[m]
  BY <1>0, <1>3, <1>5, <1>7 DEF TaskRecord
<1>9. /\ scan' \in [Host -> SUBSET Mirrors] /\ m \notin scan'[h]
      /\ \A g \in Host, n \in Mirrors : n # m => (n \in scan'[g] <=> n \in scan[g])
      /\ \A g \in Host : scan'[g] \subseteq scan[g]
  BY <1>0, <1>3, <1>5
<1>10. SyncType'
  BY <1>0, <1>5, <1>6, <1>8, <1>9
<1>11. SyncInv'
  <2>1. \A g \in Host : g \notin running' => scan'[g] = {}
    BY <1>0, <1>5, <1>9 DEF SyncInv
  <2>2. \A g \in Host : \A n \in scan'[g] : task'[n].pc = "none" /\ g = Scanner(n)'
    <3> SUFFICES ASSUME NEW g \in Host, NEW n \in scan'[g]
                 PROVE  task'[n].pc = "none" /\ g = Scanner(n)'
      OBVIOUS
    <3>1. n \in scan[g] /\ n \in Mirrors
      BY <1>0, <1>9
    <3>2. task[n].pc = "none" /\ g = Scanner(n)
      BY <1>0, <3>1 DEF SyncInv
    <3>3. n # m
      BY <1>3, <1>9, <3>2
    <3> QED BY <1>5, <1>8, <3>1, <3>2, <3>3 DEF Scanner
  <2>3. \A n \in Mirrors : task'[n].pc = "none" => task'[n] = NoTask
    BY <1>0, <1>3, <1>8 DEF SyncInv
  <2>4. count' = Cardinality(running') + Cardinality(Tasks')
    <3>1. CASE dirty[From(m)]
      BY <1>0, <1>3, <1>5, <1>6, <1>8, <3>1, TaskCount, IInvParts DEF SyncInv
    <3>2. CASE ~dirty[From(m)]
      BY <1>0, <1>3, <1>5, <1>6, <1>8, <3>2, TaskCount, IInvParts DEF SyncInv
    <3> QED BY <3>1, <3>2
  <2> QED BY <1>4, <1>5, <1>6, <2>1, <2>2, <2>3, <2>4 DEF SyncInv
<1>12. \A n \in Mirrors : n # m => (Ahead(n)' <=> Ahead(n))
  <2> SUFFICES ASSUME NEW n \in Mirrors, n # m PROVE Ahead(n)' <=> Ahead(n)
    OBVIOUS
  <2>1. Scanner(n) \in Host /\ Scanner(n)' = Scanner(n)
    BY <1>5, CopyKinds DEF Scanner
  <2>2. n \in scan'[Scanner(n)] <=> n \in scan[Scanner(n)]
    BY <1>9, <2>1
  <2> QED BY <1>8, <2>1, <2>2 DEF Ahead
<1>13. Ahead(m)' <=> dirty[From(m)]
  BY <1>3, <1>5, <1>8, <1>9 DEF Ahead, Scanner
<1>14. ValueInv'
  <2> SUFFICES ASSUME NEW n \in Mirrors
               PROVE  /\ phase = "reduce" /\ task'[n].pc # "none" => dirty[n]
                      /\ task'[n].pc \in {"created", "func"} => task'[n].val = data[From(n)]
                      /\ \/ data[Master(n[1])] <= data[n]
                         \/ dirty[n] /\ phase = "reduce" /\ Ahead(n)'
    BY <1>4, <1>5, <1>6 DEF ValueInv, From, Master
  <2>1. CASE n = m
    BY <1>0, <1>3, <1>4, <1>5, <1>8, <1>13, <2>1 DEF ValueInv, From
  <2>2. CASE n # m
    BY <1>0, <1>4, <1>8, <1>12, <2>2 DEF ValueInv
  <2> QED BY <2>1, <2>2
<1>15. AgreeInv'
  <2> SUFFICES ASSUME broadcasts, NEW n \in Mirrors
               PROVE  /\ phase = "reduce" => Changed(n[1])' \/ Untouched(n)'
                      /\ phase = "broadcast" =>
                           \/ data[n] = data[Master(n[1])]
                           \/ dirty[Master(n[1])] /\ Ahead(n)'
    BY <1>4, <1>5, <1>6 DEF AgreeInv, Master
  <2>1. ASSUME phase = "reduce" PROVE Changed(n[1])' \/ Untouched(n)'
    <3>1. CASE Changed(n[1])
      <4>1. CASE dirty[Master(n[1])]
        BY <1>5, <4>1 DEF Changed, Master
      <4>2. CASE \E k \in Mirrors : /\ k[1] = n[1] /\ task[k].pc = "compare"
                                    /\ data[Master(n[1])] < task[k].old
        <5>1. PICK k \in Mirrors : /\ k[1] = n[1] /\ task[k].pc = "compare"
                                   /\ data[Master(n[1])] < task[k].old
          BY <4>2
        <5>2. task'[k] = task[k]
          BY <1>3, <1>8, <5>1
        <5> QED BY <1>5, <1>6, <5>1, <5>2 DEF Changed, Master
      <4> QED BY <3>1, <4>1, <4>2 DEF Changed
    <3>2. CASE Untouched(n)
      <4>1. CASE n # m
        BY <1>5, <1>8, <1>12, <3>2, <4>1 DEF Untouched, Master
      <4>2. CASE n = m
        BY <1>5, <1>8, <1>13, <2>1, <3>2, <4>2 DEF Untouched, Master, From
      <4> QED BY <4>1, <4>2
    <3> QED BY <1>0, <2>1, <3>1, <3>2 DEF AgreeInv
  <2>2. ASSUME phase = "broadcast"
        PROVE  data[n] = data[Master(n[1])] \/ (dirty[Master(n[1])] /\ Ahead(n)')
    BY <1>0, <1>12, <1>13, <2>2 DEF AgreeInv, From
  <2> QED BY <2>1, <2>2
<1> QED BY <1>10, <1>11, <1>14, <1>15 DEF CopiesInv

\* The task of a host ends.
LEMMA HostDoneInv ==
  ASSUME IInv, NEW h \in Host, hostDone(h)
  PROVE  CopiesInv'
<1> USE DEF SyncType
<1>0. SyncType /\ SyncInv /\ ValueInv /\ AgreeInv
  BY IInvParts
<1>1. /\ h \in running /\ scan[h] = {} /\ running' = running \ {h} /\ count' = count - 1
      /\ UNCHANGED <<graph, data, dirty, phase, scan, task>>
  BY DEF hostDone, copies
<1>2. /\ Mirrors' = Mirrors /\ Copies' = Copies /\ edges' = edges /\ broadcasts' = broadcasts
  BY <1>1, GraphSame
<1>3. phase \in {"reduce", "broadcast"}
  BY <1>0, <1>1 DEF SyncInv
<1>4. SyncType'
  BY <1>0, <1>1, <1>2
<1>5. SyncInv'
  <2>1. Cardinality(running') = Cardinality(running) - 1
    BY <1>1, IInvParts, FS_RemoveElement
  <2>2. Tasks' = Tasks
    BY <1>1, <1>2 DEF Tasks
  <2> QED BY <1>0, <1>1, <1>2, <1>3, <2>1, <2>2, IInvParts DEF SyncInv, Scanner
<1>6. ValueInv'
  BY <1>0, <1>1, <1>2 DEF ValueInv, Ahead, Scanner, From, Master
<1>7. AgreeInv'
  BY <1>0, <1>1, <1>2, <1>3 DEF AgreeInv, Changed, Untouched, Ahead, Scanner, Master
<1> QED BY <1>4, <1>5, <1>6, <1>7 DEF CopiesInv

\* A step of the task of one mirror, for the wait group.
LEMMA TaskStepSync ==
  ASSUME IInv, NEW m \in Mirrors, task[m].pc # "none",
         UNCHANGED <<graph, phase, running, scan>>,
         \A n \in Mirrors : n # m => task'[n] = task[n],
         \/ task'[m].pc # "none" /\ count' = count
         \/ task'[m] = NoTask /\ count' = count - 1
  PROVE  /\ SyncInv' /\ phase \in {"reduce", "broadcast"}
         /\ \A n \in Mirrors : n # m => (Ahead(n)' <=> Ahead(n))
         /\ m \notin scan[Scanner(m)]
         /\ \A n : Scanner(n)' = Scanner(n) /\ From(n)' = From(n) /\ To(n)' = To(n)
<1>0. SyncType /\ SyncInv
  BY IInvParts
<1>1. Mirrors' = Mirrors
  BY GraphSame
<1>2. phase \in {"reduce", "broadcast"} /\ m \in Tasks
  BY <1>0 DEF SyncInv, Tasks
<1>3. NoTask.pc = "none"
  BY DEF NoTask
<1>4. \A h \in Host : m \notin scan[h]
  BY <1>0 DEF SyncInv
<1>5. \A n : Scanner(n)' = Scanner(n) /\ From(n)' = From(n) /\ To(n)' = To(n)
  BY DEF Scanner, From, To, Master
<1>6. Scanner(m) \in Host
  BY CopyKinds DEF Scanner
<1>7. \A n \in Mirrors : n # m => (Ahead(n)' <=> Ahead(n))
  BY <1>5 DEF Ahead
<1>8. count' = Cardinality(running') + Cardinality(Tasks')
  <2>1. CASE task'[m].pc # "none" /\ count' = count
    BY <1>0, <1>1, <2>1, TaskCount DEF SyncInv
  <2>2. CASE task'[m] = NoTask /\ count' = count - 1
    BY <1>0, <1>1, <1>3, <2>2, TaskCount, IInvParts DEF SyncInv
  <2> QED BY <2>1, <2>2
<1>9. \A n \in Mirrors : task'[n].pc = "none" => task'[n] = NoTask
  BY <1>0 DEF SyncInv
<1>10. \A h \in Host : \A n \in scan'[h] : task'[n].pc = "none" /\ h = Scanner(n)'
  BY <1>0, <1>4, <1>5 DEF SyncInv, SyncType
<1>11. SyncInv'
  BY <1>0, <1>1, <1>2, <1>8, <1>9, <1>10 DEF SyncInv
<1> QED BY <1>2, <1>4, <1>5, <1>6, <1>7, <1>11

\* The task of a mirror reads the copy it will write to.
LEMMA ReadOldInv ==
  ASSUME IInv, NEW m \in Mirrors, readOld(m)
  PROVE  CopiesInv'
<1> USE DEF SyncType
<1>0. SyncType /\ SyncInv /\ ValueInv /\ AgreeInv
  BY IInvParts
<1>1. /\ task[m].pc = "created"
      /\ task' = [task EXCEPT ![m].pc = "func", ![m].old = data[To(m)]]
      /\ UNCHANGED <<graph, data, dirty, phase, running, scan, count>>
  BY DEF readOld, copies
<1>2. /\ Mirrors' = Mirrors /\ Copies' = Copies /\ edges' = edges /\ broadcasts' = broadcasts
  BY <1>1, GraphSame
<1>3. To(m) \in Copies /\ data[To(m)] \in 0 .. MaxData
  BY <1>0, CopyKinds DEF To
<1>4. /\ task' \in [Mirrors -> TaskRecord] /\ \A n \in Mirrors : n # m => task'[n] = task[n]
      /\ task'[m].pc = "func" /\ task'[m].old = data[To(m)] /\ task'[m].val = task[m].val
  BY <1>0, <1>1, <1>3 DEF TaskRecord
<1>5. SyncType'
  BY <1>0, <1>1, <1>2, <1>4
<1>6. /\ SyncInv' /\ phase \in {"reduce", "broadcast"}
      /\ \A n \in Mirrors : n # m => (Ahead(n)' <=> Ahead(n))
      /\ \A n : Scanner(n)' = Scanner(n) /\ From(n)' = From(n) /\ To(n)' = To(n)
  BY <1>1, <1>4, TaskStepSync
<1>7. Ahead(m) /\ Ahead(m)'
  BY <1>1, <1>4 DEF Ahead
<1>8. \A n \in Mirrors : Ahead(n)' <=> Ahead(n)
  BY <1>6, <1>7
<1>9. ValueInv'
  BY <1>0, <1>1, <1>2, <1>4, <1>6, <1>8, SMTT(30) DEF ValueInv, Master
<1>10. AgreeInv'
  <2> SUFFICES ASSUME broadcasts, NEW n \in Mirrors
               PROVE  /\ phase = "reduce" => Changed(n[1])' \/ Untouched(n)'
                      /\ phase = "broadcast" =>
                           \/ data[n] = data[Master(n[1])]
                           \/ dirty[Master(n[1])] /\ Ahead(n)'
    BY <1>1, <1>2, <1>6 DEF AgreeInv, Master
  <2>1. ASSUME phase = "reduce", Changed(n[1]) PROVE Changed(n[1])'
    BY <1>1, <1>2, <1>4, <2>1 DEF Changed, Master
  <2>2. ASSUME phase = "reduce", Untouched(n) PROVE Untouched(n)'
    BY <1>1, <1>2, <1>4, <1>8, <2>2 DEF Untouched, Master, To
  <2> QED BY <1>0, <1>8, <2>1, <2>2 DEF AgreeInv
<1> QED BY <1>5, <1>6, <1>9, <1>10 DEF CopiesInv

\* It writes to the copy: a master becomes the smaller of its value and that of
\* the mirror, a mirror becomes its master.
LEMMA ApplyInv ==
  ASSUME IInv, NEW m \in Mirrors, apply(m)
  PROVE  CopiesInv'
<1> USE DEF SyncType
<1>0. SyncType /\ SyncInv /\ ValueInv /\ AgreeInv /\ MaxData \in Nat
  BY IInvParts, GraphAssumption
<1>1. /\ task[m].pc = "func"
      /\ data' = [data EXCEPT ![To(m)] = IF phase = "reduce" THEN updateData(task[m].val, @)
                                                              ELSE task[m].val]
      /\ task' = [task EXCEPT ![m].pc = "compare"]
      /\ UNCHANGED <<graph, dirty, phase, running, scan, count>>
  BY DEF apply
<1>2. /\ Mirrors' = Mirrors /\ Copies' = Copies /\ edges' = edges /\ broadcasts' = broadcasts
  BY <1>1, GraphSame
<1>3. /\ To(m) \in Copies /\ From(m) \in Copies
      /\ \A c \in Copies : data[c] \in Nat /\ data[c] <= MaxData
  BY <1>0, CopyKinds DEF To, From
<1>4. /\ task' \in [Mirrors -> TaskRecord] /\ \A n \in Mirrors : n # m => task'[n] = task[n]
      /\ task'[m].pc = "compare" /\ task'[m].old = task[m].old
  BY <1>0, <1>1 DEF TaskRecord
<1>5. /\ SyncInv' /\ phase \in {"reduce", "broadcast"}
      /\ \A n \in Mirrors : n # m => (Ahead(n)' <=> Ahead(n))
      /\ \A n : Scanner(n)' = Scanner(n) /\ From(n)' = From(n) /\ To(n)' = To(n)
  BY <1>1, <1>4, TaskStepSync
<1>6. task[m].val = data[From(m)] /\ data[From(m)] \in Nat
  BY <1>0, <1>1, <1>3 DEF ValueInv
<1>7. /\ data' \in [Copies -> 0 .. MaxData]
      /\ \A c \in Copies : c # To(m) => data'[c] = data[c]
      /\ phase = "reduce" => data'[To(m)] = updateData(data[From(m)], data[To(m)])
      /\ phase = "broadcast" => data'[To(m)] = data[From(m)]
  BY <1>0, <1>1, <1>3, <1>5, <1>6 DEF updateData
<1>8. SyncType'
  BY <1>0, <1>1, <1>2, <1>4, <1>7
<1>9. CASE phase = "reduce"
  <2>1. To(m) = Master(m[1]) /\ From(m) = m /\ m[1] \in Vertex /\ m \in Copies
    BY <1>9, CopyKinds DEF To, From
  <2>2. /\ data'[Master(m[1])] <= data[m]
        /\ data'[Master(m[1])] <= data[Master(m[1])]
        /\ data'[Master(m[1])] \in Nat
    BY <1>3, <1>7, <1>9, <2>1 DEF updateData
  <2>3. \A n \in Mirrors : n \in Copies /\ Master(n[1]) \in Copies /\ data'[n] = data[n]
    BY <1>7, <2>1, CopyKinds
  <2>4. \A n \in Mirrors : /\ data'[Master(n[1])] <= data[Master(n[1])]
                           /\ n[1] # m[1] => data'[Master(n[1])] = data[Master(n[1])]
    BY <1>3, <1>7, <2>1, <2>2, <2>3 DEF Master
  <2>5. ValueInv'
    <3> SUFFICES ASSUME NEW n \in Mirrors
                 PROVE  /\ task'[n].pc # "none" => dirty[n]
                        /\ task'[n].pc \in {"created", "func"} => task'[n].val = data'[From(n)]
                        /\ data'[Master(n[1])] <= data'[n] \/ (dirty[n] /\ Ahead(n)')
      BY <1>1, <1>2, <1>5, <1>9 DEF ValueInv, Master
    <3>1. From(n) = n
      BY <1>9 DEF From
    <3>2. CASE n = m
      BY <1>0, <1>1, <1>4, <1>9, <2>2, <2>3, <3>2 DEF ValueInv
    <3>3. CASE n # m
      <4>1. data[Master(n[1])] <= data[n] => data'[Master(n[1])] <= data'[n]
        BY <1>3, <1>7, <2>3, <2>4
      <4> QED BY <1>0, <1>4, <1>5, <1>9, <2>3, <3>1, <3>3, <4>1 DEF ValueInv
    <3> QED BY <3>2, <3>3
  <2>6. AgreeInv'
    <3> SUFFICES ASSUME broadcasts, NEW n \in Mirrors
                 PROVE  Changed(n[1])' \/ Untouched(n)'
      BY <1>1, <1>2, <1>9 DEF AgreeInv
    <3>1. CASE Changed(n[1])
      <4>1. CASE dirty[Master(n[1])]
        BY <1>1, <4>1 DEF Changed, Master
      <4>2. CASE \E k \in Mirrors : /\ k[1] = n[1] /\ task[k].pc = "compare"
                                    /\ data[Master(n[1])] < task[k].old
        <5>1. PICK k \in Mirrors : /\ k[1] = n[1] /\ task[k].pc = "compare"
                                   /\ data[Master(n[1])] < task[k].old
          BY <4>2
        <5>2. task'[k] = task[k] /\ task[k].old \in Nat
          BY <1>0, <1>1, <1>4, <5>1 DEF TaskRecord
        <5>3. data'[Master(n[1])] < task'[k].old
          BY <1>3, <1>7, <2>3, <2>4, <5>1, <5>2
        <5> QED BY <1>2, <5>1, <5>2, <5>3 DEF Changed, Master
      <4> QED BY <3>1, <4>1, <4>2 DEF Changed
    <3>2. CASE n[1] # m[1] /\ Untouched(n)
      <4>1. n # m
        BY <3>2
      <4> QED BY <1>1, <1>4, <1>5, <2>3, <2>4, <3>2, <4>1 DEF Untouched, Master
    <3>3. CASE n[1] = m[1] /\ ~Changed(m[1])
      <4>1. Untouched(m) /\ dirty[m]
        BY <1>0, <1>1, <1>9, <3>3 DEF AgreeInv, ValueInv
      <4>2. data[m] < data[Master(m[1])] /\ task[m].old = data[Master(m[1])]
        BY <1>1, <4>1 DEF Untouched
      <4>3. data'[Master(m[1])] < task'[m].old
        BY <1>3, <1>4, <2>1, <2>2, <2>3, <4>2
      <4> QED BY <1>2, <1>4, <3>3, <4>3 DEF Changed, Master
    <3> QED BY <1>0, <1>9, <3>1, <3>2, <3>3 DEF AgreeInv
  <2> QED BY <1>5, <1>8, <2>5, <2>6 DEF CopiesInv
<1>10. CASE phase = "broadcast"
  <2>1. To(m) = m /\ From(m) = Master(m[1]) /\ m[1] \in Vertex /\ m \in Copies
    BY <1>10, CopyKinds DEF To, From
  <2>2. \A n \in Mirrors : /\ n \in Copies /\ Master(n[1]) \in Copies
                           /\ data'[Master(n[1])] = data[Master(n[1])]
                           /\ n # m => data'[n] = data[n]
    BY <1>7, <2>1, CopyKinds
  <2>3. data'[m] = data'[Master(m[1])] /\ data'[m] \in Nat
    BY <1>6, <1>7, <1>10, <2>1, <2>2
  <2>4. ValueInv'
    <3> SUFFICES ASSUME NEW n \in Mirrors
                 PROVE  /\ task'[n].pc \in {"created", "func"} => task'[n].val = data'[From(n)]
                        /\ data'[Master(n[1])] <= data'[n]
      BY <1>1, <1>2, <1>5, <1>10 DEF ValueInv, Master
    <3>1. From(n) = Master(n[1])
      BY <1>10 DEF From
    <3>2. CASE n = m
      BY <1>4, <2>3, <3>2
    <3>3. CASE n # m
      BY <1>0, <1>4, <1>10, <2>2, <3>1, <3>3 DEF ValueInv
    <3> QED BY <3>2, <3>3
  <2>5. AgreeInv'
    <3> SUFFICES ASSUME broadcasts, NEW n \in Mirrors
                 PROVE  data'[n] = data'[Master(n[1])] \/ (dirty[Master(n[1])] /\ Ahead(n)')
      BY <1>1, <1>2, <1>10 DEF AgreeInv, Master
    <3> QED BY <1>0, <1>5, <1>10, <2>2, <2>3 DEF AgreeInv
  <2> QED BY <1>5, <1>8, <2>4, <2>5 DEF CopiesInv
<1> QED BY <1>5, <1>9, <1>10

\* It marks the copy if the value is not the one it has read.
LEMMA CompareInv ==
  ASSUME IInv, NEW m \in Mirrors, compare(m)
  PROVE  CopiesInv'
<1> USE DEF SyncType
<1>0. SyncType /\ SyncInv /\ ValueInv /\ AgreeInv /\ MaxData \in Nat
  BY IInvParts, GraphAssumption
<1>1. /\ task[m].pc = "compare"
      /\ dirty' = [dirty EXCEPT ![To(m)] = @ \/ data[To(m)] # task[m].old]
      /\ task' = [task EXCEPT ![m].pc = "done"]
      /\ UNCHANGED <<graph, data, phase, running, scan, count>>
  BY DEF compare
<1>2. /\ Mirrors' = Mirrors /\ Copies' = Copies /\ edges' = edges /\ broadcasts' = broadcasts
  BY <1>1, GraphSame
<1>3. To(m) \in Copies /\ \A c \in Copies : data[c] \in Nat
  BY <1>0, CopyKinds DEF To
<1>4. /\ task' \in [Mirrors -> TaskRecord] /\ \A n \in Mirrors : n # m => task'[n] = task[n]
      /\ task'[m].pc = "done"
  BY <1>0, <1>1 DEF TaskRecord
<1>5. /\ SyncInv' /\ phase \in {"reduce", "broadcast"}
      /\ \A n \in Mirrors : n # m => (Ahead(n)' <=> Ahead(n))
      /\ m \notin scan[Scanner(m)]
      /\ \A n : Scanner(n)' = Scanner(n) /\ From(n)' = From(n) /\ To(n)' = To(n)
  BY <1>1, <1>4, TaskStepSync
<1>6. ~Ahead(m) /\ ~Ahead(m)'
  BY <1>1, <1>4, <1>5 DEF Ahead
<1>7. /\ dirty' \in [Copies -> BOOLEAN]
      /\ \A c \in Copies : dirty[c] => dirty'[c]
      /\ \A c \in Copies : c # To(m) => dirty'[c] = dirty[c]
      /\ data[To(m)] # task[m].old => dirty'[To(m)]
  BY <1>0, <1>1, <1>3
<1>8. SyncType'
  BY <1>0, <1>1, <1>2, <1>4, <1>7
<1>9. \A n \in Mirrors : n \in Copies /\ Master(n[1]) \in Copies
  BY CopyKinds
<1>10. ValueInv'
  <2> SUFFICES ASSUME NEW n \in Mirrors
               PROVE  /\ phase = "reduce" /\ task'[n].pc # "none" => dirty'[n]
                      /\ task'[n].pc \in {"created", "func"} => task'[n].val = data[From(n)]
                      /\ \/ data[Master(n[1])] <= data[n]
                         \/ dirty'[n] /\ phase = "reduce" /\ Ahead(n)'
    BY <1>1, <1>2, <1>5 DEF ValueInv, Master
  <2>1. CASE n = m
    BY <1>0, <1>1, <1>4, <1>5, <1>6, <1>7, <1>9, <2>1 DEF ValueInv
  <2>2. CASE n # m
    BY <1>0, <1>4, <1>5, <1>7, <1>9, <2>2 DEF ValueInv
  <2> QED BY <2>1, <2>2
<1>11. AgreeInv'
  <2> SUFFICES ASSUME broadcasts, NEW n \in Mirrors
               PROVE  /\ phase = "reduce" => Changed(n[1])' \/ Untouched(n)'
                      /\ phase = "broadcast" =>
                           \/ data[n] = data[Master(n[1])]
                           \/ dirty'[Master(n[1])] /\ Ahead(n)'
    BY <1>1, <1>2, <1>5 DEF AgreeInv, Master
  <2>1. ASSUME phase = "reduce" PROVE Changed(n[1])' \/ Untouched(n)'
    <3>0. To(m) = Master(m[1]) /\ \A k \in Mirrors : dirty'[k] = dirty[k]
      BY <1>7, <1>9, <2>1, CopyKinds DEF To
    <3>1. CASE dirty[Master(n[1])]
      BY <1>7, <1>9, <3>1 DEF Changed, Master
    <3>2. CASE \E k \in Mirrors : /\ k[1] = n[1] /\ task[k].pc = "compare"
                                  /\ data[Master(n[1])] < task[k].old
      <4>1. PICK k \in Mirrors : /\ k[1] = n[1] /\ task[k].pc = "compare"
                                 /\ data[Master(n[1])] < task[k].old
        BY <3>2
      <4>2. CASE k = m
        <5>1. data[To(m)] # task[m].old /\ To(m) = Master(n[1])
          BY <1>3, <3>0, <4>1, <4>2
        <5> QED BY <1>7, <5>1 DEF Changed, Master
      <4>3. CASE k # m
        BY <1>1, <1>2, <1>4, <4>1, <4>3 DEF Changed, Master
      <4> QED BY <4>2, <4>3
    <3>3. CASE Untouched(n)
      <4>1. CASE n # m
        BY <1>1, <1>4, <1>5, <3>0, <3>3, <4>1 DEF Untouched, Master
      <4>2. CASE n = m
        BY <1>0, <1>1, <1>4, <1>6, <2>1, <3>0, <3>3, <4>2 DEF Untouched, Master, ValueInv
      <4> QED BY <4>1, <4>2
    <3> QED BY <1>0, <2>1, <3>1, <3>2, <3>3 DEF AgreeInv, Changed
  <2>2. ASSUME phase = "broadcast"
        PROVE  data[n] = data[Master(n[1])] \/ (dirty'[Master(n[1])] /\ Ahead(n)')
    BY <1>0, <1>5, <1>6, <1>7, <1>9, <2>2 DEF AgreeInv
  <2> QED BY <2>1, <2>2
<1> QED BY <1>5, <1>8, <1>10, <1>11 DEF CopiesInv

\* It ends.
LEMMA DoneInv ==
  ASSUME IInv, NEW m \in Mirrors, done(m)
  PROVE  CopiesInv'
<1> USE DEF SyncType
<1>0. SyncType /\ SyncInv /\ ValueInv /\ AgreeInv
  BY IInvParts
<1>1. /\ task[m].pc = "done" /\ task' = [task EXCEPT ![m] = NoTask] /\ count' = count - 1
      /\ UNCHANGED <<graph, data, dirty, phase, running, scan>>
  BY DEF done, copies
<1>2. /\ Mirrors' = Mirrors /\ Copies' = Copies /\ edges' = edges /\ broadcasts' = broadcasts
  BY <1>1, GraphSame
<1>3. NoTask \in TaskRecord /\ NoTask.pc = "none"
  BY GraphAssumption DEF NoTask, TaskRecord
<1>4. /\ task' \in [Mirrors -> TaskRecord] /\ \A n \in Mirrors : n # m => task'[n] = task[n]
      /\ task'[m] = NoTask /\ task'[m].pc = "none"
  BY <1>0, <1>1, <1>3
<1>5. /\ SyncInv' /\ phase \in {"reduce", "broadcast"}
      /\ \A n \in Mirrors : n # m => (Ahead(n)' <=> Ahead(n))
      /\ m \notin scan[Scanner(m)]
      /\ \A n : Scanner(n)' = Scanner(n) /\ From(n)' = From(n) /\ To(n)' = To(n)
  BY <1>1, <1>4, TaskStepSync
<1>6. \A n \in Mirrors : Ahead(n)' <=> Ahead(n)
  <2>1. ~Ahead(m) /\ ~Ahead(m)'
    BY <1>1, <1>4, <1>5 DEF Ahead
  <2> QED BY <1>5, <2>1
<1>7. SyncType'
  BY <1>0, <1>1, <1>2, <1>4
<1>8. ValueInv'
  BY <1>0, <1>1, <1>2, <1>4, <1>5, <1>6 DEF ValueInv, Master
<1>9. AgreeInv'
  <2> SUFFICES ASSUME broadcasts, NEW n \in Mirrors
               PROVE  /\ phase = "reduce" => Changed(n[1])' \/ Untouched(n)'
                      /\ phase = "broadcast" =>
                           \/ data[n] = data[Master(n[1])]
                           \/ dirty[Master(n[1])] /\ Ahead(n)'
    BY <1>1, <1>2, <1>5 DEF AgreeInv, Master
  <2>1. ASSUME Changed(n[1]) PROVE Changed(n[1])'
    BY <1>1, <1>2, <1>4, <2>1 DEF Changed, Master
  <2>2. ASSUME Untouched(n) PROVE Untouched(n)'
    BY <1>1, <1>2, <1>4, <1>6, <2>2 DEF Untouched, Master
  <2> QED BY <1>0, <1>6, <2>1, <2>2 DEF AgreeInv
<1> QED BY <1>5, <1>7, <1>8, <1>9 DEF CopiesInv

\* A step of sync, between whose phases the hosts have no tasks of their own.
LEMMA SyncPhases ==
  ASSUME IInv, SyncStep
  PROVE  /\ CopiesInv' /\ UNCHANGED graph
         /\ phase \in {"sync", "reduce", "reduced", "broadcast"}
         /\ phase' \in {"reduce", "reduced", "broadcast", "synced"}
<1>1. CASE reduce \/ broadcast
  BY <1>1, ReduceInv, BroadcastInv DEF reduce, broadcast, Start
<1>2. CASE wait \/ skipBroadcast
  BY <1>2, WaitInv DEF wait, skipBroadcast
<1>3. CASE \E h \in Host : HostStep(h)
  <2>1. PICK h \in Host : look(h) \/ hostDone(h)
    BY <1>3 DEF HostStep
  <2>2. UNCHANGED graph /\ UNCHANGED phase /\ h \in running
    BY <2>1 DEF look, hostDone
  <2>3. phase \in {"reduce", "broadcast"}
    BY <2>2, IInvParts DEF SyncInv
  <2> QED BY <2>1, <2>2, <2>3, LookInv, HostDoneInv
<1>4. CASE \E m \in Mirrors : TaskStep(m)
  <2>1. PICK m \in Mirrors : readOld(m) \/ apply(m) \/ compare(m) \/ done(m)
    BY <1>4 DEF TaskStep
  <2>2. UNCHANGED graph /\ UNCHANGED phase /\ task[m].pc # "none"
    BY <2>1 DEF readOld, apply, compare, done
  <2>3. phase \in {"reduce", "broadcast"}
    BY <2>2, IInvParts DEF SyncInv, Tasks
  <2> QED BY <2>1, <2>2, <2>3, ReadOldInv, ApplyInv, CompareInv, DoneInv
<1> QED BY <1>1, <1>2, <1>3, <1>4 DEF SyncStep

\* Every step of sync preserves the invariant.
LEMMA SyncStepInv ==
  ASSUME IInv, Sync
  PROVE  IInv'
<1>1. /\ CopiesInv' /\ UNCHANGED graph
      /\ phase # "local" /\ phase' # "local"
      /\ UNCHANGED <<list, toRead, local, ready, work, active, searches, src>>
  BY SyncPhases DEF Sync, lists, hosts, search
<1>2. LocalType' /\ ListsInv'
  BY <1>1, GraphSame, IInvParts DEF LocalType, ListsInv
<1>3. WorkInv'
  BY <1>1, IInvParts, BagEmpty DEF WorkInv
<1> QED BY <1>1, <1>2, <1>3 DEF IInv, LocalInv, CopiesInv

-----------------------------------------------------------------------------
(***************************************************************************)
(* The steps of the program and of the hosts.                              *)
(***************************************************************************)
\* A step that does not touch the copies and their tasks, and goes to a phase
\* in which as much is known of them.
LEMMA CopiesStep ==
  ASSUME IInv, UNCHANGED <<graph, data, dirty, running, scan, task, count>>, phase' \in Phases,
         \/ phase' = phase
         \/ phase \in {"user", "loop"} /\ phase' \in {"user", "loop", "local"}
         \/ phase = "local" /\ phase' = "sync"
  PROVE  CopiesInv'
<1>0. SyncType /\ SyncInv /\ ValueInv /\ AgreeInv
  BY IInvParts
<1>2. /\ Mirrors' = Mirrors /\ Copies' = Copies /\ edges' = edges /\ broadcasts' = broadcasts
  BY GraphSame
<1>3. SyncType'
  BY <1>0, <1>2 DEF SyncType
<1>4. CASE phase' = phase
  <2>1. SyncInv'
    BY <1>0, <1>2, <1>4 DEF SyncInv, Tasks, Scanner
  <2>2. ValueInv'
    BY <1>0, <1>2, <1>4 DEF ValueInv, Ahead, Scanner, From, Master
  <2>3. AgreeInv'
    BY <1>0, <1>2, <1>4 DEF AgreeInv, Changed, Untouched, Ahead, Scanner, Master
  <2> QED BY <1>3, <2>1, <2>2, <2>3 DEF CopiesInv
<1>5. CASE phase' # phase
  <2>1. /\ phase \notin {"reduce", "broadcast"} /\ phase' \notin {"reduce", "broadcast"}
        /\ running = {} /\ Tasks = {} /\ Tasks' = {}
        /\ \A m \in Mirrors : task[m].pc = "none"
        /\ \A h \in Host : scan[h] = {}
    BY <1>0, <1>2, <1>5 DEF SyncInv, Tasks
  <2>2. SyncInv'
    BY <1>0, <1>2, <2>1 DEF SyncInv
  <2>3. \A m \in Mirrors : m \in Copies
    BY CopyKinds
  <2>4. ValueInv'
    BY <1>0, <1>2, <1>5, <2>1 DEF ValueInv, Master
  <2>5. AgreeInv'
    BY <1>0, <1>2, <1>5, <2>1, <2>3 DEF AgreeInv, ValueInv, Master
  <2> QED BY <1>3, <2>2, <2>4, <2>5 DEF CopiesInv
<1> QED BY <1>4, <1>5

\* What is known of a task of a host depends on the copies only.
LEMMA WorkOKSame ==
  ASSUME UNCHANGED <<graph, data, dirty>>, NEW h, NEW t
  PROVE  WorkOK(h, t)' <=> WorkOK(h, t)
  BY GraphSame DEF WorkOK

\* The program begins a search: all copies of a vertex get the same value.
LEMMA SearchInv ==
  ASSUME IInv, NEW s \in Vertex, SSSPMDLCSR(s)
  PROVE  IInv'
<1>0. /\ SyncType /\ LocalType /\ ListsInv /\ WorkInv /\ SyncInv /\ ValueInv
      /\ MaxData \in Nat /\ Owner[s] \in Host
  BY IInvParts, GraphAssumption
<1>1. /\ phase = "user" /\ phase' = "loop" /\ searches < Searches
      /\ data' = [c \in Copies |-> IF c[1] = s THEN 0 ELSE MaxData]
      /\ list' = [list EXCEPT ![Owner[s]][0] = Add(@, s)]
      /\ active' = TRUE /\ searches' = searches + 1 /\ src' = s
      /\ UNCHANGED <<graph, dirty, running, scan, task, count, toRead, local, ready, work>>
  BY DEF SSSPMDLCSR, tasks, hosts
<1>2. /\ Mirrors' = Mirrors /\ Copies' = Copies /\ edges' = edges /\ broadcasts' = broadcasts
  BY <1>1, GraphSame
<1>3. SyncType'
  <2>1. data' \in [Copies -> 0 .. MaxData]
    BY <1>0, <1>1
  <2> QED BY <1>0, <1>1, <1>2, <2>1 DEF SyncType, Phases
<1>4. SyncInv'
  BY <1>0, <1>1, <1>2 DEF SyncInv, Tasks
<1>5. \A m \in Mirrors : data'[m] = data'[Master(m[1])] /\ data'[m] \in Nat
  <2>1. \A m \in Mirrors : m \in Copies /\ Master(m[1]) \in Copies /\ Master(m[1])[1] = m[1]
    BY CopyKinds DEF Master
  <2> QED BY <1>0, <1>1, <2>1
<1>6. ValueInv'
  <2>1. \A m \in Mirrors : task[m].pc = "none"
    BY <1>0, <1>1 DEF SyncInv, Tasks
  <2> QED BY <1>0, <1>1, <1>2, <1>5, <2>1 DEF ValueInv, Master
<1>7. AgreeInv'
  BY <1>1, <1>2, <1>5 DEF AgreeInv, Master
<1>8. /\ \A h \in Host, i \in {0, 1} :
           list'[h][i] = IF h = Owner[s] /\ i = 0 THEN Add(list[h][i], s) ELSE list[h][i]
      /\ list' = [h \in Host |-> [i \in {0, 1} |-> list'[h][i]]]
  <2>1. list = [h \in Host |-> [i \in {0, 1} |-> list[h][i]]]
    BY <1>0 DEF LocalType
  <2>2. PICK l : l = Add(list[Owner[s]][0], s)
    OBVIOUS
  <2>3. list' = [list EXCEPT ![Owner[s]] = [list[Owner[s]] EXCEPT ![0] = l]]
    BY <1>1, <2>2
  <2>4. list' = [h \in Host |-> IF h = Owner[s] THEN [list[h] EXCEPT ![0] = l] ELSE list[h]]
    BY <1>0, <2>1, <2>3
  <2>5. ASSUME NEW h \in Host
        PROVE  /\ \A i \in {0, 1} : list'[h][i] = IF h = Owner[s] /\ i = 0 THEN l
                                                   ELSE list[h][i]
               /\ list'[h] = [i \in {0, 1} |-> list'[h][i]]
    <3>1. list[h] = [i \in {0, 1} |-> list[h][i]]
      BY <2>1
    <3>2. CASE h = Owner[s]
      BY <2>4, <3>1, <3>2
    <3>3. CASE h # Owner[s]
      BY <2>4, <3>1, <3>3
    <3> QED BY <3>2, <3>3
  <2>6. \A h \in Host : list'[h] = [i \in {0, 1} |-> list'[h][i]]
    BY <2>5
  <2>7. list' = [h \in Host |-> list'[h]]
    BY <2>4
  <2>8. list' = [h \in Host |-> [i \in {0, 1} |-> list'[h][i]]]
    BY <2>6, <2>7
  <2>9. \A h \in Host, i \in {0, 1} :
          list'[h][i] = IF h = Owner[s] /\ i = 0 THEN Add(list[h][i], s) ELSE list[h][i]
    BY <2>2, <2>5
  <2> QED BY <2>8, <2>9
<1>9. LocalType'
  <2>1. searches' \in 0 .. Searches
    BY <1>0, <1>1, SearchesAssumption DEF LocalType
  <2>2. active' \in BOOLEAN
    BY <1>1
  <2> QED BY <1>0, <1>1, <1>8, <2>1, <2>2 DEF LocalType
<1>10. ListsInv'
  <2> SUFFICES ASSUME NEW h \in Host, NEW i \in {0, 1}
               PROVE  /\ IsABag(list'[h][i])
                      /\ \A v \in DOMAIN list'[h][i] : v \in Vertex /\ <<v, h>> \in Copies
    BY <1>2 DEF ListsInv
  <2>1. IsABag(list[h][i]) /\ \A v \in DOMAIN list[h][i] : v \in Vertex /\ <<v, h>> \in Copies
    BY <1>0 DEF ListsInv
  <2>2. CASE h = Owner[s] /\ i = 0
    <3>1. <<s, h>> \in Copies
      BY <2>2, CopyKinds DEF Master
    <3>2. list'[h][i] = Add(list[h][i], s)
      BY <1>8, <2>2
    <3>3. IsABag(Add(list[h][i], s)) /\ DOMAIN Add(list[h][i], s) = DOMAIN list[h][i] \cup {s}
      BY <2>1, BagAdd
    <3> QED BY <2>1, <3>1, <3>2, <3>3
  <2>3. CASE ~(h = Owner[s] /\ i = 0)
    BY <1>8, <2>1, <2>3
  <2> QED BY <2>2, <2>3
<1>11. WorkInv'
  BY <1>0, <1>1, BagEmpty DEF WorkInv
<1> QED BY <1>3, <1>4, <1>6, <1>7, <1>9, <1>10, <1>11 DEF IInv, LocalInv

\* The phases of an iteration follow each other.
LEMMA IterateInv ==
  ASSUME IInv, iterate \/ localOver \/ return
  PROVE  IInv'
<1>0. SyncType /\ LocalType /\ ListsInv /\ WorkInv
  BY IInvParts
<1>1. /\ UNCHANGED <<graph, data, dirty, running, scan, task, count, list, ready, work,
                     searches, src>>
      /\ \/ phase = "loop" /\ phase' = "local" /\ active' = FALSE
            /\ toRead' = [h \in Host |-> 0] /\ local' = [h \in Host |-> "round"]
         \/ /\ phase = "local" /\ phase' = "sync" /\ UNCHANGED <<active, toRead, local>>
            /\ \A h \in Host : local[h] = "over"
         \/ phase = "loop" /\ phase' = "user" /\ UNCHANGED <<active, toRead, local>>
  BY DEF iterate, localOver, return, copies, tasks, lists, hosts, search
<1>2. CopiesInv'
  BY <1>1, CopiesStep DEF Phases
<1>3. LocalType'
  <2>1. active' \in BOOLEAN
    BY <1>0, <1>1 DEF LocalType
  <2>2. toRead' \in [Host -> {0, 1}] /\ local' \in [Host -> {"round", "tasks", "over"}]
    BY <1>0, <1>1 DEF LocalType
  <2> QED BY <1>0, <1>1, <2>1, <2>2 DEF LocalType
<1>4. ListsInv'
  BY <1>0, <1>1, GraphSame DEF ListsInv
<1>5. WorkInv'
  <2>1. \A h \in Host : local[h] # "tasks"
    BY <1>0, <1>1 DEF WorkInv
  <2>2. \A h \in Host : work'[h] = EmptyBag
    BY <1>0, <1>1, <2>1 DEF WorkInv
  <2>3. phase' # "local" => \A h \in Host : local'[h] = "over"
    BY <1>0, <1>1 DEF WorkInv
  <2> QED BY <2>2, <2>3, BagEmpty DEF WorkInv
<1> QED BY <1>2, <1>3, <1>4, <1>5 DEF IInv, LocalInv, CopiesInv

\* The marks are taken back; masters are not above their mirrors by then.
LEMMA UpdateActiveInv ==
  ASSUME IInv, updateActive
  PROVE  IInv'
<1>0. /\ SyncType /\ LocalType /\ ListsInv /\ WorkInv /\ SyncInv /\ ValueInv /\ AgreeInv
  BY IInvParts
<1>1. /\ phase = "synced" /\ phase' = "loop"
      /\ list' = [h \in Host |-> [list[h] EXCEPT ![0] = @ (+) SetToBag(Marked(h))]]
      /\ active' = (\E h \in Host : Marked(h) # {})
      /\ dirty' = [c \in Copies |-> FALSE]
      /\ UNCHANGED <<graph, data, running, scan, task, count, toRead, local, ready, work,
                     searches, src>>
  BY DEF updateActive, tasks, hosts
<1>2. /\ Mirrors' = Mirrors /\ Copies' = Copies /\ edges' = edges /\ broadcasts' = broadcasts
  BY <1>1, GraphSame
<1>3. SyncType'
  <2>1. dirty' \in [Copies -> BOOLEAN]
    BY <1>1
  <2> QED BY <1>0, <1>1, <1>2, <2>1 DEF SyncType, Phases
<1>4. SyncInv'
  BY <1>0, <1>1, <1>2 DEF SyncInv, Tasks
<1>5. ValueInv'
  <2>1. \A m \in Mirrors : task[m].pc = "none"
    BY <1>0, <1>1 DEF SyncInv, Tasks
  <2>2. \A c \in Copies : ~dirty'[c]
    BY <1>1
  <2> QED BY <1>0, <1>1, <1>2, <2>1, <2>2 DEF ValueInv, Master
<1>6. AgreeInv'
  BY <1>0, <1>1, <1>2 DEF AgreeInv, Master
<1>7. /\ \A h \in Host : list'[h][0] = AddAll(list[h][0], Marked(h)) /\ list'[h][1] = list[h][1]
      /\ list' = [h \in Host |-> [i \in {0, 1} |-> list'[h][i]]]
  <2>1. \A h \in Host : list[h] = [i \in {0, 1} |-> list[h][i]]
    BY <1>0 DEF LocalType
  <2>2. \A h \in Host : list'[h] = [list[h] EXCEPT ![0] = AddAll(list[h][0], Marked(h))]
    BY <1>1 DEF AddAll
  <2>3. \A h \in Host : list'[h] = [i \in {0, 1} |-> list'[h][i]]
    BY <2>1, <2>2
  <2>4. list' = [h \in Host |-> list'[h]]
    BY <1>1
  <2> QED BY <2>1, <2>2, <2>3, <2>4
<1>8. LocalType'
  <2>1. active' \in BOOLEAN
    BY <1>1
  <2> QED BY <1>0, <1>1, <1>7, <2>1 DEF LocalType
<1>9. ListsInv'
  <2> SUFFICES ASSUME NEW h \in Host, NEW i \in {0, 1}
               PROVE  /\ IsABag(list'[h][i])
                      /\ \A v \in DOMAIN list'[h][i] : v \in Vertex /\ <<v, h>> \in Copies
    BY <1>2 DEF ListsInv
  <2>1. IsABag(list[h][i]) /\ \A v \in DOMAIN list[h][i] : v \in Vertex /\ <<v, h>> \in Copies
    BY <1>0 DEF ListsInv
  <2>2. \A v \in Marked(h) : v \in Vertex /\ <<v, h>> \in Copies
    BY CopyKinds DEF Marked, Master
  <2>3. CASE i = 0
    <3>1. list'[h][i] = AddAll(list[h][i], Marked(h))
      BY <1>7, <2>3
    <3>2. /\ IsABag(AddAll(list[h][i], Marked(h)))
          /\ DOMAIN AddAll(list[h][i], Marked(h)) = DOMAIN list[h][i] \cup Marked(h)
      BY <2>1, BagAddAll
    <3> QED BY <2>1, <2>2, <3>1, <3>2
  <2>4. CASE i = 1
    BY <1>7, <2>1, <2>4
  <2> QED BY <2>3, <2>4
<1>10. WorkInv'
  BY <1>0, <1>1, BagEmpty DEF WorkInv
<1> QED BY <1>3, <1>4, <1>5, <1>6, <1>8, <1>9, <1>10 DEF IInv, LocalInv

\* A host begins a round: a task for every entry of its list.
LEMMA StartRoundInv ==
  ASSUME IInv, NEW h \in Host, startRound(h)
  PROVE  IInv'
<1>0. /\ SyncType /\ LocalType /\ ListsInv /\ WorkInv /\ MaxData \in Nat
  BY IInvParts, GraphAssumption
<1> DEFINE Entry(v) == [v |-> v, pc |-> "start", dist |-> 0, todo |-> {}, pushed |-> FALSE]
           entries == list[h][toRead[h]]
<1>1. /\ local[h] = "round" /\ ready' = [ready EXCEPT ![h] = TRUE]
      /\ work' = [work EXCEPT ![h] = [t \in {Entry(v) : v \in DOMAIN entries} |-> entries[t.v]]]
      /\ list' = [list EXCEPT ![h][toRead[h]] = EmptyBag]
      /\ local' = [local EXCEPT ![h] = "tasks"]
      /\ UNCHANGED <<graph, data, dirty, phase, running, scan, task, count, toRead,
                     active, searches, src>>
  BY DEF startRound, copies, tasks, search
<1>2. phase = "local" /\ phase' = phase /\ toRead[h] \in {0, 1}
  BY <1>0, <1>1 DEF WorkInv, LocalType
<1>3. CopiesInv'
  BY <1>0, <1>1, <1>2, CopiesStep DEF SyncType
<1>4. /\ \A g \in Host, i \in {0, 1} :
           list'[g][i] = IF g = h /\ i = toRead[h] THEN EmptyBag ELSE list[g][i]
      /\ list' = [g \in Host |-> [i \in {0, 1} |-> list'[g][i]]]
  BY <1>0, <1>1, <1>2 DEF LocalType
<1>5. /\ work' = [g \in Host |-> work'[g]]
      /\ \A g \in Host : g # h => work'[g] = work[g]
      /\ DOMAIN work'[h] = {Entry(v) : v \in DOMAIN entries}
  BY <1>0, <1>1 DEF LocalType
<1>6. LocalType'
  <2>1. /\ ready' \in [Host -> BOOLEAN] /\ local' \in [Host -> {"round", "tasks", "over"}]
    BY <1>0, <1>1 DEF LocalType
  <2> QED BY <1>0, <1>1, <1>4, <1>5, <2>1 DEF LocalType
<1>7. ListsInv'
  <2> SUFFICES ASSUME NEW g \in Host, NEW i \in {0, 1}
               PROVE  /\ IsABag(list'[g][i])
                      /\ \A v \in DOMAIN list'[g][i] : v \in Vertex /\ <<v, g>> \in Copies
    BY <1>1, GraphSame DEF ListsInv
  <2>1. CASE g = h /\ i = toRead[h]
    BY <1>4, <2>1, BagEmpty
  <2>2. CASE ~(g = h /\ i = toRead[h])
    BY <1>0, <1>4, <2>2 DEF ListsInv
  <2> QED BY <2>1, <2>2
<1>8. WorkInv'
  <2>1. ASSUME NEW t \in DOMAIN work'[h] PROVE WorkOK(h, t)'
    <3>1. PICK v \in DOMAIN entries : t = Entry(v)
      BY <1>5, <2>1
    <3>2. v \in Vertex /\ <<v, h>> \in Copies
      BY <1>0, <1>2, <3>1 DEF ListsInv
    <3>3. t \in WorkRecord /\ t.v = v /\ t.todo = {} /\ t.pc = "start"
      BY <1>0, <3>1, <3>2 DEF WorkRecord
    <3>4. WorkOK(h, t)
      BY <3>2, <3>3 DEF WorkOK
    <3> QED BY <1>1, <3>4, WorkOKSame
  <2>2. ASSUME NEW g \in Host, g # h, NEW t \in DOMAIN work'[g] PROVE WorkOK(g, t)'
    BY <1>0, <1>1, <1>5, <2>2, WorkOKSame DEF WorkInv
  <2>3. \A g \in Host : local'[g] # "tasks" => work'[g] = EmptyBag
    BY <1>0, <1>1, <1>5 DEF WorkInv, LocalType
  <2> QED BY <1>2, <2>1, <2>2, <2>3 DEF WorkInv
<1> QED BY <1>3, <1>6, <1>7, <1>8 DEF IInv, LocalInv, CopiesInv

\* A round ends.
LEMMA EndRoundInv ==
  ASSUME IInv, NEW h \in Host, endRound(h)
  PROVE  IInv'
<1>0. /\ SyncType /\ LocalType /\ ListsInv /\ WorkInv
  BY IInvParts
<1>1. /\ local[h] = "tasks" /\ work[h] = EmptyBag
      /\ toRead' = [toRead EXCEPT ![h] = 1 - @]
      /\ local' = [local EXCEPT ![h] = IF ready[h] THEN "over" ELSE "round"]
      /\ UNCHANGED <<graph, data, dirty, phase, running, scan, task, count, list, ready, work,
                     active, searches, src>>
  BY DEF endRound, copies, tasks, search
<1>2. phase = "local" /\ phase' = phase
  BY <1>0, <1>1 DEF WorkInv
<1>3. CopiesInv'
  BY <1>0, <1>1, <1>2, CopiesStep DEF SyncType
<1>4. LocalType'
  <2>1. toRead' \in [Host -> {0, 1}] /\ local' \in [Host -> {"round", "tasks", "over"}]
    BY <1>0, <1>1 DEF LocalType
  <2> QED BY <1>0, <1>1, <2>1 DEF LocalType
<1>5. ListsInv'
  BY <1>0, <1>1, GraphSame DEF ListsInv
<1>6. WorkInv'
  <2>1. \A g \in Host : local'[g] # "tasks" => work'[g] = EmptyBag
    BY <1>0, <1>1 DEF WorkInv, LocalType
  <2>2. \A g \in Host : \A t \in DOMAIN work'[g] : WorkOK(g, t)'
    BY <1>0, <1>1, WorkOKSame DEF WorkInv
  <2> QED BY <1>2, <2>1, <2>2 DEF WorkInv
<1> QED BY <1>3, <1>4, <1>5, <1>6 DEF IInv, LocalInv, CopiesInv

\* A task of a host takes a step that changes no copy and no list.
LEMMA BecomeInv ==
  ASSUME IInv, NEW h \in Host, NEW t \in DOMAIN work[h], NEW u, WorkOK(h, u),
         Become(h, t, u),
         UNCHANGED <<graph, copies, phase, tasks, lists, local, ready, search>>
  PROVE  IInv'
<1>0. /\ SyncType /\ LocalType /\ ListsInv /\ WorkInv
  BY IInvParts
<1>1. /\ work' = [work EXCEPT ![h] = Replace(@, t, u)]
      /\ UNCHANGED <<graph, data, dirty, phase, running, scan, task, count, list, toRead,
                     local, ready, active, searches, src>>
  BY DEF Become, copies, tasks, lists, search
<1>2. CopiesInv'
  BY <1>0, <1>1, CopiesStep DEF SyncType
<1>3. /\ work' = [g \in Host |-> work'[g]]
      /\ \A g \in Host : g # h => work'[g] = work[g]
      /\ work'[h] = Replace(work[h], t, u)
  BY <1>0, <1>1 DEF LocalType
<1>4. DOMAIN work'[h] \subseteq DOMAIN work[h] \cup {u}
  BY <1>3, BagReplace
<1>5. LocalType' /\ ListsInv'
  BY <1>0, <1>1, <1>3, GraphSame DEF LocalType, ListsInv
<1>6. local[h] = "tasks"
  BY <1>0, BagEmpty DEF WorkInv, LocalType
<1>7. WorkInv'
  <2>1. \A g \in Host : \A r \in DOMAIN work'[g] : WorkOK(g, r)'
    <3> SUFFICES ASSUME NEW g \in Host, NEW r \in DOMAIN work'[g] PROVE WorkOK(g, r)
      BY <1>1, WorkOKSame
    <3> QED BY <1>0, <1>3, <1>4 DEF WorkInv
  <2>2. \A g \in Host : local'[g] # "tasks" => work'[g] = EmptyBag
    BY <1>0, <1>1, <1>3, <1>6 DEF WorkInv
  <2> QED BY <1>0, <1>1, <2>1, <2>2 DEF WorkInv
<1> QED BY <1>2, <1>5, <1>7 DEF IInv, LocalInv, CopiesInv

\* The task of a vertex reads its distance.
LEMMA ReadDistanceInv ==
  ASSUME IInv, NEW h \in Host, NEW t \in DOMAIN work[h], readDistance(h, t)
  PROVE  IInv'
<1> DEFINE c == <<t.v, h>>
           u == [t EXCEPT !.pc = "edges", !.dist = (data[c] + 1) % (MaxData + 1),
                          !.todo = Neighbours(c)]
<1>0. SyncType /\ WorkInv /\ MaxData \in Nat
  BY IInvParts, GraphAssumption
<1>1. t \in WorkRecord /\ c \in Copies
  BY <1>0 DEF WorkInv, WorkOK
<1>2. (data[c] + 1) % (MaxData + 1) \in 0 .. MaxData
  BY <1>0, <1>1 DEF SyncType
<1>3. Neighbours(c) \subseteq Destinations(h) /\ Neighbours(c) \subseteq Vertex
  <2>1. \A e \in edges : e \in Vertex \X Vertex
    BY <1>0, GraphAssumption DEF SyncType
  <2>2. \A e \in edges : Master(e[1]) = c => Owner[e[1]] = h
    BY DEF Master
  <2> QED BY <2>1, <2>2 DEF Neighbours, Destinations
<1>4. u \in WorkRecord /\ u.v = t.v /\ u.todo = Neighbours(c) /\ u.pc = "edges"
  BY <1>1, <1>2, <1>3 DEF WorkRecord
<1>5. WorkOK(h, u)
  BY <1>1, <1>3, <1>4 DEF WorkOK
<1>6. /\ Become(h, t, u)
      /\ UNCHANGED <<graph, copies, phase, tasks, lists, local, ready, search>>
  BY DEF readDistance
<1> QED BY <1>5, <1>6, BecomeInv

\* It looks at a neighbour.
LEMMA InspectInv ==
  ASSUME IInv, NEW h \in Host, NEW t \in DOMAIN work[h], inspect(h, t)
  PROVE  IInv'
<1> DEFINE d == Least(t.todo)
           u == IF data[<<d, h>>] > t.dist THEN [t EXCEPT !.pc = "relax"]
                                           ELSE [t EXCEPT !.todo = @ \ {d}]
<1>0. SyncType /\ WorkInv /\ MaxData \in Nat
  BY IInvParts, GraphAssumption
<1>1. /\ t \in WorkRecord /\ <<t.v, h>> \in Copies /\ t.todo \subseteq Destinations(h)
      /\ t.pc = "edges" /\ t.todo # {}
  BY <1>0 DEF WorkInv, WorkOK, inspect
<1>2. d \in t.todo /\ <<d, h>> \in Copies
  <2>1. t.todo \in SUBSET Nat
    BY <1>1, GraphAssumption DEF WorkRecord
  <2>2. d \in t.todo
    BY <1>1, <2>1, LeastIn
  <2> QED BY <1>0, <1>1, <2>2, DestinationCopy DEF SyncType
<1>3. data[<<d, h>>] \in Nat /\ t.dist \in Nat
  BY <1>0, <1>1, <1>2 DEF SyncType, WorkRecord
<1>4. WorkOK(h, u)
  <2>1. CASE data[<<d, h>>] > t.dist
    <3>1. /\ u \in WorkRecord /\ u.v = t.v /\ u.todo = t.todo /\ u.pc = "relax"
          /\ u.dist = t.dist
      BY <1>1, <2>1 DEF WorkRecord
    <3>2. u.dist < data[<<d, h>>]
      BY <1>3, <2>1, <3>1
    <3> QED BY <1>1, <3>1, <3>2 DEF WorkOK
  <2>2. CASE ~(data[<<d, h>>] > t.dist)
    <3>1. u \in WorkRecord /\ u.v = t.v /\ u.todo \subseteq t.todo /\ u.pc = "edges"
      BY <1>1, <2>2 DEF WorkRecord
    <3> QED BY <1>1, <3>1 DEF WorkOK
  <2> QED BY <2>1, <2>2
<1>5. /\ Become(h, t, u)
      /\ UNCHANGED <<graph, copies, phase, tasks, lists, local, ready, search>>
  BY DEF inspect
<1> HIDE DEF u
<1> QED BY <1>4, <1>5, BecomeInv

\* It ends.
LEMMA EndTaskInv ==
  ASSUME IInv, NEW h \in Host, NEW t \in DOMAIN work[h], endTask(h, t)
  PROVE  IInv'
<1>0. /\ SyncType /\ LocalType /\ ListsInv /\ WorkInv
  BY IInvParts
<1>1. /\ work' = [work EXCEPT ![h] = @ (-) SetToBag({t})]
      /\ ready' = [ready EXCEPT ![h] = @ /\ t.pushed]
      /\ UNCHANGED <<graph, data, dirty, phase, running, scan, task, count, list, toRead,
                     local, active, searches, src>>
  BY DEF endTask, copies, tasks, lists, search
<1>2. CopiesInv'
  BY <1>0, <1>1, CopiesStep DEF SyncType
<1>3. /\ work' = [g \in Host |-> work'[g]]
      /\ \A g \in Host : g # h => work'[g] = work[g]
      /\ work'[h] = work[h] (-) SetToBag({t})
  BY <1>0, <1>1 DEF LocalType
<1>4. DOMAIN work'[h] \subseteq DOMAIN work[h]
  BY <1>3, BagRemove
<1>5. ready' \in [Host -> BOOLEAN]
  BY <1>0, <1>1 DEF LocalType
<1>6. LocalType' /\ ListsInv'
  BY <1>0, <1>1, <1>3, <1>5, GraphSame DEF LocalType, ListsInv
<1>7. local[h] = "tasks"
  BY <1>0, BagEmpty DEF WorkInv, LocalType
<1>8. WorkInv'
  <2>1. \A g \in Host : \A r \in DOMAIN work'[g] : WorkOK(g, r)'
    <3> SUFFICES ASSUME NEW g \in Host, NEW r \in DOMAIN work'[g] PROVE WorkOK(g, r)
      BY <1>1, WorkOKSame
    <3> QED BY <1>0, <1>3, <1>4 DEF WorkInv
  <2>2. \A g \in Host : local'[g] # "tasks" => work'[g] = EmptyBag
    BY <1>0, <1>1, <1>3, <1>7 DEF WorkInv
  <2> QED BY <1>0, <1>1, <2>1, <2>2 DEF WorkInv
<1> QED BY <1>2, <1>6, <1>8 DEF IInv, LocalInv, CopiesInv

\* It improves a copy, pushes it and marks it.
LEMMA RelaxInv ==
  ASSUME IInv, NEW h \in Host, NEW t \in DOMAIN work[h], relax(h, t)
  PROVE  IInv'
<1> DEFINE e == Least(t.todo)
<1>0. /\ SyncType /\ LocalType /\ ListsInv /\ WorkInv /\ SyncInv /\ ValueInv /\ AgreeInv
      /\ MaxData \in Nat
  BY IInvParts, GraphAssumption
<1>1. PICK d : d = e
  OBVIOUS
<1>2. PICK u : u = [t EXCEPT !.pc = "edges", !.todo = @ \ {d}, !.pushed = TRUE]
  OBVIOUS
<1>3. PICK c : c = <<d, h>>
  OBVIOUS
<1>4. /\ t.pc = "relax"
      /\ data' = [data EXCEPT ![c] = updateData(t.dist, @)]
      /\ list' = [list EXCEPT ![h][1 - toRead[h]] = Add(@, d)]
      /\ dirty' = [dirty EXCEPT ![c] = TRUE]
      /\ work' = [work EXCEPT ![h] = Replace(@, t, u)]
      /\ UNCHANGED <<graph, phase, running, scan, task, count, toRead, local, ready,
                     active, searches, src>>
  BY <1>1, <1>2, <1>3 DEF relax, Become, tasks, search
<1>5. /\ t \in WorkRecord /\ <<t.v, h>> \in Copies /\ t.todo \subseteq Destinations(h)
      /\ t.todo # {} /\ (dirty[c] \/ t.dist < data[c])
  BY <1>0, <1>1, <1>3, <1>4 DEF WorkInv, WorkOK
<1>6. d \in Vertex /\ c \in Copies /\ c[1] = d /\ c[2] = h
  <2>1. t.todo \in SUBSET Nat
    BY <1>5, GraphAssumption DEF WorkRecord
  <2>2. e \in t.todo
    BY <1>5, <2>1, LeastIn
  <2> QED BY <1>0, <1>1, <1>3, <1>5, <2>2, DestinationCopy DEF SyncType
<1>7. /\ Mirrors' = Mirrors /\ Copies' = Copies /\ edges' = edges /\ broadcasts' = broadcasts
      /\ \A g : Destinations(g)' = Destinations(g)
  BY <1>4, GraphSame
<1>8. /\ data' \in [Copies -> 0 .. MaxData] /\ dirty' \in [Copies -> BOOLEAN]
      /\ \A x \in Copies : x # c => data'[x] = data[x] /\ dirty'[x] = dirty[x]
      /\ data'[c] <= data[c] /\ data'[c] <= t.dist /\ dirty'[c]
      /\ \A x \in Copies : data[x] \in Nat /\ data'[x] \in Nat
      /\ t.dist \in Nat
  BY <1>0, <1>4, <1>5, <1>6 DEF SyncType, WorkRecord, updateData
<1>9. phase = "local" /\ local[h] = "tasks"
  BY <1>0, BagEmpty DEF WorkInv, LocalType
<1>10. SyncType'
  BY <1>0, <1>4, <1>7, <1>8 DEF SyncType
<1>11. SyncInv'
  BY <1>0, <1>4, <1>7 DEF SyncInv, Tasks, Scanner
<1>12. \A m \in Mirrors : /\ m \in Copies /\ Master(m[1]) \in Copies /\ m # Master(m[1])
                          /\ task[m].pc = "none"
  BY <1>0, <1>9, CopyKinds DEF SyncInv, Tasks
<1>13. ValueInv'
  <2> SUFFICES ASSUME NEW m \in Mirrors
               PROVE  data'[Master(m[1])] <= data'[m] \/ dirty'[m]
    BY <1>4, <1>7, <1>9, <1>12 DEF ValueInv, Master
  <2>1. data[Master(m[1])] <= data[m] \/ dirty[m]
    BY <1>0, <1>9 DEF ValueInv
  <2>2. CASE c = m
    BY <1>8, <2>2
  <2>3. CASE c # m
    <3>1. data'[m] = data[m] /\ dirty'[m] = dirty[m]
      BY <1>8, <1>12, <2>3
    <3>2. data'[Master(m[1])] <= data[Master(m[1])]
      BY <1>8, <1>12
    <3> QED BY <1>8, <1>12, <2>1, <3>1, <3>2
  <2> QED BY <2>2, <2>3
<1>14. AgreeInv'
  <2> SUFFICES ASSUME broadcasts, NEW m \in Mirrors
               PROVE  \/ dirty'[Master(m[1])]
                      \/ dirty'[m] /\ data'[m] < data'[Master(m[1])]
                      \/ ~dirty'[m] /\ data'[m] = data'[Master(m[1])]
    BY <1>4, <1>7, <1>9 DEF AgreeInv, Master
  <2>1. \/ dirty[Master(m[1])]
        \/ dirty[m] /\ data[m] < data[Master(m[1])]
        \/ ~dirty[m] /\ data[m] = data[Master(m[1])]
    BY <1>0, <1>9 DEF AgreeInv
  <2>2. CASE c = m
    <3>1. data'[Master(m[1])] = data[Master(m[1])] /\ dirty'[Master(m[1])] = dirty[Master(m[1])]
      BY <1>8, <1>12, <2>2
    <3> QED BY <1>5, <1>8, <1>12, <2>1, <2>2, <3>1
  <2>3. CASE c = Master(m[1])
    BY <1>8, <2>3
  <2>4. CASE c # m /\ c # Master(m[1])
    BY <1>8, <1>12, <2>1, <2>4
  <2> QED BY <2>2, <2>3, <2>4
<1>15. /\ \A g \in Host, i \in {0, 1} :
            list'[g][i] = IF g = h /\ i = 1 - toRead[h] THEN Add(list[g][i], d) ELSE list[g][i]
       /\ list' = [g \in Host |-> [i \in {0, 1} |-> list'[g][i]]]
  <2>1. toRead[h] \in {0, 1}
    BY <1>0 DEF LocalType
  <2>2. 1 - toRead[h] \in {0, 1}
    BY <2>1
  <2> QED BY <1>0, <1>4, <2>2 DEF LocalType
<1>16. /\ work' = [g \in Host |-> work'[g]]
       /\ \A g \in Host : g # h => work'[g] = work[g]
       /\ work'[h] = Replace(work[h], t, u)
  BY <1>0, <1>4 DEF LocalType
<1>17. LocalType'
  BY <1>0, <1>4, <1>15, <1>16 DEF LocalType
<1>18. ListsInv'
  <2> SUFFICES ASSUME NEW g \in Host, NEW i \in {0, 1}
               PROVE  /\ IsABag(list'[g][i])
                      /\ \A v \in DOMAIN list'[g][i] : v \in Vertex /\ <<v, g>> \in Copies
    BY <1>7 DEF ListsInv
  <2>1. IsABag(list[g][i]) /\ \A v \in DOMAIN list[g][i] : v \in Vertex /\ <<v, g>> \in Copies
    BY <1>0 DEF ListsInv
  <2>2. CASE g = h /\ i = 1 - toRead[h]
    <3>1. list'[g][i] = Add(list[g][i], d)
      BY <1>15, <2>2
    <3>2. IsABag(Add(list[g][i], d)) /\ DOMAIN Add(list[g][i], d) = DOMAIN list[g][i] \cup {d}
      BY <2>1, BagAdd
    <3> QED BY <1>3, <1>6, <2>1, <2>2, <3>1, <3>2
  <2>3. CASE ~(g = h /\ i = 1 - toRead[h])
    BY <1>15, <2>1, <2>3
  <2> QED BY <2>2, <2>3
<1>19. WorkInv'
  <2>1. u \in WorkRecord /\ u.v = t.v /\ u.todo \subseteq t.todo /\ u.pc = "edges"
    BY <1>2, <1>5 DEF WorkRecord
  <2>2. WorkOK(h, u)'
    BY <1>5, <1>7, <2>1 DEF WorkOK
  <2>3. ASSUME NEW g \in Host, NEW r \in DOMAIN work[g] PROVE WorkOK(g, r)'
    <3>1. WorkOK(g, r)
      BY <1>0 DEF WorkInv
    <3>2. ASSUME r.pc = "relax"
          PROVE  dirty'[<<Least(r.todo), g>>] \/ r.dist < data'[<<Least(r.todo), g>>]
      <4>0. PICK x : x = <<Least(r.todo), g>>
        OBVIOUS
      <4>1. x \in Copies
        <5>1. r.todo \in SUBSET Nat /\ r.todo # {} /\ r.todo \subseteq Destinations(g)
          BY <3>1, <3>2, GraphAssumption DEF WorkOK, WorkRecord
        <5>2. Least(r.todo) \in r.todo
          BY <5>1, LeastIn
        <5> QED BY <1>0, <4>0, <5>1, <5>2, DestinationCopy DEF SyncType
      <4>2. dirty[x] \/ r.dist < data[x]
        BY <3>1, <3>2, <4>0 DEF WorkOK
      <4>3. dirty'[x] \/ r.dist < data'[x]
        BY <1>8, <4>1, <4>2
      <4> QED BY <4>0, <4>3
    <3> QED BY <1>7, <3>1, <3>2 DEF WorkOK
  <2>4. DOMAIN work'[h] \subseteq DOMAIN work[h] \cup {u}
    BY <1>16, BagReplace
  <2>5. \A g \in Host : \A r \in DOMAIN work'[g] : WorkOK(g, r)'
    BY <1>16, <2>2, <2>3, <2>4
  <2>6. \A g \in Host : local'[g] # "tasks" => work'[g] = EmptyBag
    BY <1>0, <1>4, <1>9, <1>16 DEF WorkInv
  <2> QED BY <1>4, <1>9, <2>5, <2>6 DEF WorkInv
<1> QED BY <1>10, <1>11, <1>13, <1>14, <1>17, <1>18, <1>19 DEF IInv, LocalInv

\* Nothing changes.
LEMMA StutterInv ==
  ASSUME IInv, UNCHANGED vars
  PROVE  IInv'
<1>0. /\ SyncType /\ LocalType /\ ListsInv /\ WorkInv
  BY IInvParts
<1>1. UNCHANGED <<graph, data, dirty, phase, running, scan, task, count, list, toRead, local,
                  ready, work, active, searches, src>>
  BY DEF vars, copies, tasks, lists, hosts, search
<1>2. CopiesInv'
  BY <1>0, <1>1, CopiesStep DEF SyncType
<1>3. LocalType' /\ ListsInv'
  BY <1>0, <1>1, GraphSame DEF LocalType, ListsInv
<1>4. WorkInv'
  BY <1>0, <1>1, WorkOKSame DEF WorkInv
<1> QED BY <1>2, <1>3, <1>4 DEF IInv, LocalInv, CopiesInv

\* Every step preserves the invariant.
LEMMA NextIInv == IInv /\ [Next]_vars => IInv'
<1> SUFFICES ASSUME IInv, [Next]_vars PROVE IInv'
  OBVIOUS
<1>1. CASE \E s \in Vertex : SSSPMDLCSR(s)
  BY <1>1, SearchInv
<1>2. CASE Program
  BY <1>2, IterateInv, UpdateActiveInv DEF Program
<1>3. CASE Sync
  BY <1>3, SyncStepInv
<1>4. CASE finished \/ UNCHANGED vars
  BY <1>4, StutterInv DEF finished
<1>5. ASSUME NEW h \in Host, LocalStep(h) PROVE IInv'
  <2>1. CASE startRound(h) \/ endRound(h)
    BY <2>1, StartRoundInv, EndRoundInv
  <2>2. CASE Functor(h)
    BY <2>2, ReadDistanceInv, InspectInv, RelaxInv, EndTaskInv DEF Functor
  <2> QED BY <1>5, <2>1, <2>2 DEF LocalStep
<1> QED BY <1>1, <1>2, <1>3, <1>4, <1>5 DEF Next

\* The inductive invariant holds in every state: the wait group counts the tasks
\* of a phase, and marks, values and messages of the copies fit together.
THEOREM Invariance == Spec => []IInv
  BY InitIInv, NextIInv, PTL DEF Spec

-----------------------------------------------------------------------------
(***************************************************************************)
(* What follows from the invariant.                                        *)
(***************************************************************************)
\* The count of a wait group is bounded by the tasks there can be.
LEMMA IInvType == IInv => TypeOK
<1> SUFFICES ASSUME IInv PROVE TypeOK
  OBVIOUS
<1>0. SyncType /\ LocalType /\ ListsInv /\ WorkInv /\ SyncInv
  BY IInvParts
<1>1. Cardinality(running) <= Cardinality(Host) /\ Cardinality(Tasks) <= Cardinality(Mirrors)
  <2>1. running \subseteq Host /\ Tasks \subseteq Mirrors
    BY <1>0 DEF SyncType, Tasks
  <2> QED BY <2>1, MirrorsFinite, FS_Subset
<1>2. Cardinality(Host) \in Nat /\ Cardinality(Mirrors) \in Nat
  BY MirrorsFinite, FS_CardinalityType
<1>3. count \in 0 .. Cardinality(Host) + Cardinality(Mirrors)
  BY <1>0, <1>1, <1>2, IInvParts DEF SyncInv
<1>4. SyncTypeOK
  BY <1>0, <1>3 DEF SyncType, SyncTypeOK, TaskRecord
<1>5. \A h \in Host : \A i \in {0, 1} : IsABag(list[h][i]) /\ DOMAIN list[h][i] \subseteq Vertex
  BY <1>0 DEF ListsInv
<1>6. \A h \in Host : \A t \in DOMAIN work[h] : t \in WorkRecord
  BY <1>0 DEF WorkInv, WorkOK
<1> QED BY <1>0, <1>4, <1>5, <1>6 DEF TypeOK, LocalType, SyncType, WorkRecord, Phases

\* Every variable keeps its type, and no access to a copy, a list or a wait group
\* is out of range, for any graph and any placement of its vertices.
THEOREM TypeCorrect == Spec => []TypeOK
  BY Invariance, IInvType, PTL

\* When the wait for reduce is over, all its tasks are, and every changed mirror
\* has reached its master (mirror_dist_local_csr.hpp:625), in any order of the
\* tasks of any number of hosts.
THEOREM ReduceArrives == Spec => []Reduced
<1>1. IInv => Reduced
  <2> SUFFICES ASSUME IInv, phase \in {"reduced", "synced"}
               PROVE  /\ running = {} /\ \A m \in Mirrors : task[m] = NoTask
                      /\ \A m \in Mirrors : data[Master(m[1])] <= data[m]
    BY DEF Reduced
  <2>1. running = {} /\ \A m \in Mirrors : task[m] = NoTask
    BY IInvParts DEF SyncInv, Tasks
  <2>2. \A m \in Mirrors : data[Master(m[1])] <= data[m]
    BY IInvParts DEF ValueInv
  <2> QED BY <2>1, <2>2
<1> QED BY <1>1, Invariance, PTL

\* After sync with BROADCAST all copies of a vertex agree: a master that changed is
\* always marked, although each task compares two reads of a word that others write.
THEOREM SyncAgrees == Spec => []MirrorsAgree
<1>1. IInv => MirrorsAgree
  BY IInvParts DEF AgreeInv, MirrorsAgree
<1> QED BY <1>1, Invariance, PTL

-----------------------------------------------------------------------------
(***************************************************************************)
(* Every step is, for the wait group of sync, a step of ForkJoin or none.  *)
(***************************************************************************)
Joining == IF phase \in {"reduce", "broadcast"} THEN "join" ELSE "away"
Alive == {<<h>> : h \in running} \cup Tasks
Member == {<<h>> : h \in Host} \cup (Vertex \X Host)
PhaseStep == [Phase!Next]_(Phase!vars)

\* How the group changes in a step of each kind.
LEMMA PhaseSteps ==
  /\ Joining' = Joining /\ Alive' = Alive => PhaseStep
  /\ Joining = "away" /\ Alive = {} /\ Joining' = "join" /\ Alive' \subseteq Member => PhaseStep
  /\ \A t \in Member :
       /\ Joining = "join" /\ Joining' = "join" /\ Alive # {}
       /\ t \notin Alive /\ Alive' = Alive \cup {t}
       => PhaseStep
  /\ \A t \in Alive : Joining' = Joining /\ Alive' = Alive \ {t} => PhaseStep
  /\ Joining = "join" /\ Alive = {} /\ Joining' = "away" /\ Alive' = {} => PhaseStep
<1> USE DEF PhaseStep, Joining, Alive, Tasks, Member, Phase!Next, Phase!vars
<1>1. Joining' = Joining /\ Alive' = Alive => PhaseStep
  OBVIOUS
<1>2. Joining = "away" /\ Alive = {} /\ Joining' = "join" /\ Alive' \subseteq Member => PhaseStep
  BY DEF Phase!Open
<1>3. ASSUME NEW t \in Member, Joining = "join", Joining' = "join", Alive # {},
             t \notin Alive, Alive' = Alive \cup {t}
      PROVE  PhaseStep
  <2>1. Phase!Spawn(t)
    BY <1>3 DEF Phase!Spawn
  <2> QED BY <2>1
<1>4. ASSUME NEW t \in Alive, Joining' = Joining, Alive' = Alive \ {t} PROVE PhaseStep
  <2>1. Phase!End(t)
    BY <1>4 DEF Phase!End
  <2> QED BY <2>1
<1>5. Joining = "join" /\ Alive = {} /\ Joining' = "away" /\ Alive' = {} => PhaseStep
  BY DEF Phase!Leave
<1> QED BY <1>1, <1>2, <1>3, <1>4, <1>5 DEF PhaseStep, Joining, Alive

\* A phase begins: the group is opened with the tasks of the hosts.
LEMMA StartPhase ==
  ASSUME IInv, reduce \/ broadcast
  PROVE  PhaseStep
<1>1. /\ phase \in {"sync", "reduced"} /\ phase' \in {"reduce", "broadcast"}
      /\ running' = Host /\ UNCHANGED <<graph, task>>
  BY DEF reduce, broadcast, Start
<1>2. running = {} /\ Tasks = {} /\ Tasks' = {}
  BY <1>1, IInvParts, GraphSame DEF SyncInv, Tasks
<1>3. Joining = "away" /\ Joining' = "join" /\ Alive = {} /\ Alive' \subseteq Member
  BY <1>1, <1>2 DEF Joining, Alive, Member
<1> QED BY <1>3, PhaseSteps

\* A phase ends when the group is empty.
LEMMA EndPhase ==
  ASSUME IInv, wait \/ skipBroadcast
  PROVE  PhaseStep
<1>1. /\ phase \in {"reduce", "broadcast"} => count = 0 /\ phase' \notin {"reduce", "broadcast"}
      /\ phase \notin {"reduce", "broadcast"} => phase' \notin {"reduce", "broadcast"}
      /\ UNCHANGED <<graph, running, task>>
  BY DEF wait, skipBroadcast, tasks
<1>2. Tasks' = Tasks /\ Alive' = Alive
  BY <1>1, GraphSame DEF Tasks, Alive
<1>3. CASE phase \in {"reduce", "broadcast"}
  <2>1. Alive = {}
    BY <1>1, <1>3, CountZero DEF Alive
  <2> QED BY <1>1, <1>2, <1>3, <2>1, PhaseSteps DEF Joining
<1>4. CASE phase \notin {"reduce", "broadcast"}
  BY <1>1, <1>2, <1>4, PhaseSteps DEF Joining
<1> QED BY <1>3, <1>4

\* A host adds a task while its own is alive, or ends its own.
LEMMA HostPhase ==
  ASSUME IInv, NEW h \in Host, HostStep(h)
  PROVE  PhaseStep
<1>0. SyncType /\ SyncInv
  BY IInvParts
<1>1. CASE look(h)
  <2> DEFINE f == First(scan[h])
  <2>1. f \in scan[h]
    BY <1>0, <1>1, FirstIn, CopyKinds DEF look, SyncType
  <2>2. PICK m : m = f
    OBVIOUS
  <2>3. /\ m \in Mirrors /\ m \in Member /\ h \in running /\ task[m].pc = "none"
    BY <1>0, <1>1, <2>1, <2>2, CopyKinds DEF look, SyncInv, SyncType, Member
  <2>4. /\ \/ task' = [task EXCEPT ![m] = [pc |-> "created", val |-> data[From(m)], old |-> 0]]
           \/ UNCHANGED task
        /\ UNCHANGED <<graph, phase, running>>
    BY <1>1, <2>2 DEF look
  <2>5. Mirrors' = Mirrors /\ phase \in {"reduce", "broadcast"} /\ <<h>> \in Alive
    BY <1>0, <2>3, <2>4, GraphSame DEF SyncInv, Alive
  <2>6. Joining = "join" /\ Joining' = "join"
    BY <2>4, <2>5 DEF Joining
  <2>7. CASE UNCHANGED task
    BY <2>4, <2>5, <2>6, <2>7, PhaseSteps DEF Alive, Tasks
  <2>8. CASE task' = [task EXCEPT ![m] = [pc |-> "created", val |-> data[From(m)], old |-> 0]]
    <3>1. task'[m].pc = "created" /\ \A n \in Mirrors : n # m => task'[n] = task[n]
      BY <1>0, <2>3, <2>8 DEF SyncType
    <3>2. Tasks' = Tasks \cup {m} /\ m \notin Tasks
      BY <2>3, <2>5, <3>1 DEF Tasks
    <3>3. \A g : m # <<g>>
      BY <2>3, CopyKinds
    <3>4. m \notin Alive /\ Alive' = Alive \cup {m}
      BY <2>4, <3>2, <3>3 DEF Alive
    <3> QED BY <2>3, <2>5, <2>6, <3>4, PhaseSteps
  <2> QED BY <2>4, <2>7, <2>8
<1>2. CASE hostDone(h)
  <2>1. h \in running /\ running' = running \ {h} /\ UNCHANGED <<graph, phase, task>>
    BY <1>2 DEF hostDone
  <2>2. Tasks' = Tasks /\ Joining' = Joining
    BY <2>1, GraphSame DEF Tasks, Joining
  <2>3. \A m \in Tasks : m # <<h>>
    BY CopyKinds DEF Tasks
  <2>4. <<h>> \in Alive /\ Alive' = Alive \ {<<h>>}
    <3>1. \A g \in running : <<g>> = <<h>> <=> g = h
      OBVIOUS
    <3> QED BY <2>1, <2>2, <2>3, <3>1 DEF Alive
  <2> QED BY <2>2, <2>4, PhaseSteps
<1> QED BY <1>1, <1>2 DEF HostStep

\* The task of a mirror goes on, or ends.
LEMMA TaskPhase ==
  ASSUME IInv, NEW m \in Mirrors, TaskStep(m)
  PROVE  PhaseStep
<1>0. SyncType /\ SyncInv
  BY IInvParts
<1>1. UNCHANGED <<graph, phase, running>> /\ task[m].pc # "none"
  BY DEF TaskStep, readOld, apply, compare, done, copies
<1>2. Mirrors' = Mirrors /\ Joining' = Joining
  BY <1>1, GraphSame DEF Joining
<1>3. CASE readOld(m) \/ apply(m) \/ compare(m)
  <2>1. task'[m].pc # "none" /\ \A n \in Mirrors : n # m => task'[n] = task[n]
    BY <1>0, <1>3 DEF SyncType, TaskRecord, readOld, apply, compare
  <2>2. Tasks' = Tasks
    BY <1>1, <1>2, <2>1 DEF Tasks
  <2> QED BY <1>1, <1>2, <2>2, PhaseSteps DEF Alive
<1>4. CASE done(m)
  <2>1. task'[m].pc = "none" /\ \A n \in Mirrors : n # m => task'[n] = task[n]
    BY <1>0, <1>4 DEF SyncType, done, NoTask
  <2>2. Tasks' = Tasks \ {m} /\ m \in Tasks
    BY <1>1, <1>2, <2>1 DEF Tasks
  <2>3. \A g : m # <<g>>
    BY CopyKinds
  <2>4. m \in Alive /\ Alive' = Alive \ {m}
    BY <1>1, <2>2, <2>3 DEF Alive
  <2> QED BY <1>2, <2>4, PhaseSteps
<1> QED BY <1>3, <1>4 DEF TaskStep

\* All other steps leave the group alone.
LEMMA NextPhase ==
  ASSUME IInv, [Next]_vars
  PROVE  PhaseStep
<1>1. CASE Sync
  BY <1>1, StartPhase, EndPhase, HostPhase, TaskPhase DEF Sync, SyncStep
<1>2. CASE ~Sync
  <2>1. /\ UNCHANGED <<graph, running, task>>
        /\ \/ phase \notin {"reduce", "broadcast"} /\ phase' \notin {"reduce", "broadcast"}
           \/ UNCHANGED phase
    <3>1. CASE \E s \in Vertex : SSSPMDLCSR(s)
      BY <3>1 DEF SSSPMDLCSR, tasks
    <3>2. CASE Program
      BY <3>2 DEF Program, iterate, localOver, updateActive, return, tasks
    <3>3. CASE \E h \in Host : LocalStep(h)
      BY <3>3, ZenonT(60) DEF LocalStep, Functor, startRound, endRound, readDistance, inspect,
                            relax, endTask, tasks
    <3>4. CASE finished \/ UNCHANGED vars
      BY <3>4 DEF finished, vars, tasks
    <3> QED BY <1>2, <3>1, <3>2, <3>3, <3>4 DEF Next
  <2>2. Tasks' = Tasks /\ Alive' = Alive /\ Joining' = Joining
    BY <2>1, GraphSame DEF Tasks, Alive, Joining
  <2> QED BY <2>2, PhaseSteps
<1> QED BY <1>1, <1>2

\* reduce and broadcast fork and join (mirror_dist_local_csr.hpp:600, 664): tasks
\* join the group only while one of its tasks is alive, and the program goes on
\* only when none is, for any graph and any number of hosts.
THEOREM PhasesForkAndJoin == Spec => PhasesJoin
<1>1. Init => Phase!Init
  <2> SUFFICES ASSUME Init PROVE Phase!Init
    OBVIOUS
  <2>1. NoTask.pc = "none"
    BY DEF NoTask
  <2>2. phase = "user" /\ running = {} /\ \A m \in Mirrors : task[m].pc = "none"
    BY <2>1 DEF Init
  <2> QED BY <2>2 DEF Phase!Init
<1>2. IInv /\ [Next]_vars => [Phase!Next]_(Phase!vars)
  BY NextPhase DEF PhaseStep
<1> QED BY <1>1, <1>2, Invariance, PTL DEF Spec, PhasesJoin, Phase!Spec

-----------------------------------------------------------------------------
(***************************************************************************)
(* The distances.  With one search, the lists are empty when it begins.    *)
(***************************************************************************)
\* v can be reached from the source in at most k steps.
Walk(k, v) ==
  \E p \in [0 .. k -> Vertex] :
    /\ p[0] = src /\ p[k] = v
    /\ \A i \in 0 .. k - 1 : p[i] = p[i + 1] \/ <<p[i], p[i + 1]>> \in edges

\* What is in a list or a task of a host, and what is marked, has a distance; a
\* task that has read a distance sends its neighbours one that can be reached;
\* and no copy has become larger since its old value was read.
StartInv ==
  /\ \A h \in Host : IsABag(work[h])
  /\ searches = 0 => /\ phase = "user" /\ \A c \in Copies : data[c] = MaxData
                     /\ \A h \in Host : \A i \in {0, 1} : list[h][i] = EmptyBag
  /\ searches > 0 => data[Master(src)] = 0

ReachedBy(h, t) ==
  /\ data[<<t.v, h>>] < MaxData
  /\ t.pc = "relax" => t.dist < MaxData
  /\ t.pc # "start" => \A d \in t.todo : Walk(t.dist, d)

WalkTo(c) == data[c] < MaxData => Walk(data[c], c[1])

LowInv ==
  /\ \A c \in Copies : (dirty[c] => data[c] < MaxData) /\ WalkTo(c)
  /\ \A m \in Mirrors : task[m].pc \in {"func", "compare"} => data[To(m)] <= task[m].old
  /\ \A h \in Host : /\ \A i \in {0, 1} : \A v \in DOMAIN list[h][i] : data[<<v, h>>] < MaxData
                     /\ \A t \in DOMAIN work[h] : ReachedBy(h, t)

\* The edge from u to v is yet to be relaxed: the master of u is marked, or will
\* be, or it is in the list of its host, or a task has the edge before it.
Pending(u, v) ==
  \/ dirty[Master(u)]
  \/ phase = "reduce" /\ Changed(u)
  \/ phase = "loop" /\ active /\ u \in DOMAIN list[Owner[u]][0]
  \/ local[Owner[u]] = "round" /\ u \in DOMAIN list[Owner[u]][toRead[Owner[u]]]
  \/ \E t \in DOMAIN work[Owner[u]] :
       /\ t.v = u
       /\ t.pc = "start" \/ (v \in t.todo /\ t.dist <= data[Master(u)] + 1)

Relaxed(u, v) == data[<<v, Owner[u]>>] <= data[Master(u)] + 1

EdgeInv ==
  \A u, v \in Vertex : <<u, v>> \in edges /\ data[Master(u)] < MaxData =>
    Relaxed(u, v) \/ Pending(u, v)

DInv == IInv /\ StartInv /\ LowInv /\ EdgeInv

\* The source is reached in no step, and a neighbour in one more.
LEMMA WalkZero ==
  ASSUME src \in Vertex
  PROVE  Walk(0, src)
<1> DEFINE p == [i \in 0 .. 0 |-> src]
<1>1. p \in [0 .. 0 -> Vertex] /\ p[0] = src
  OBVIOUS
<1>2. \A i \in 0 .. 0 - 1 : p[i] = p[i + 1] \/ <<p[i], p[i + 1]>> \in edges
  OBVIOUS
<1> HIDE DEF p
<1> QED BY <1>1, <1>2 DEF Walk

\* One step more.
LEMMA WalkMore ==
  ASSUME NEW k \in Nat, NEW u, NEW v \in Vertex, Walk(k, u), u = v \/ <<u, v>> \in edges
  PROVE  Walk(k + 1, v)
<1>1. PICK p \in [0 .. k -> Vertex] :
        /\ p[0] = src /\ p[k] = u
        /\ \A i \in 0 .. k - 1 : p[i] = p[i + 1] \/ <<p[i], p[i + 1]>> \in edges
  BY DEF Walk
<1> DEFINE q == [i \in 0 .. k + 1 |-> IF i = k + 1 THEN v ELSE p[i]]
<1>2. /\ q \in [0 .. k + 1 -> Vertex] /\ q[0] = src /\ q[k + 1] = v /\ q[k] = u
      /\ \A i \in 0 .. k : q[i] = p[i]
  BY <1>1
<1>3. ASSUME NEW i \in 0 .. (k + 1) - 1
      PROVE  q[i] = q[i + 1] \/ <<q[i], q[i + 1]>> \in edges
  <2>1. CASE i = k
    BY <1>2, <2>1
  <2>2. CASE i # k
    <3>1. i \in 0 .. k - 1 /\ i + 1 \in 0 .. k /\ i \in 0 .. k
      BY <2>2
    <3> QED BY <1>1, <1>2, <3>1
  <2> QED BY <2>1, <2>2
<1> HIDE DEF q
<1> QED BY <1>2, <1>3 DEF Walk

\* Walks depend on the graph and the source.
LEMMA WalkSame ==
  ASSUME UNCHANGED <<graph, src>>, NEW k, NEW v
  PROVE  Walk(k, v)' <=> Walk(k, v)
  BY GraphSame DEF Walk

\* A copy whose value is taken from one of the same vertex.
LEMMA WalkToSame ==
  ASSUME UNCHANGED <<graph, src>>, NEW b, NEW c, b[1] = c[1], data'[c] = data[b], WalkTo(b)
  PROVE  WalkTo(c)'
<1>1. PICK k : k = data[b]
  OBVIOUS
<1>2. k < MaxData => Walk(k, c[1])
  BY <1>1 DEF WalkTo
<1>3. Walk(k, c[1])' <=> Walk(k, c[1])
  BY WalkSame
<1> QED BY <1>1, <1>2, <1>3 DEF WalkTo, Walk

\* One element for another in a bag, of which no other gets lost.
LEMMA BagReplaceKeeps ==
  ASSUME NEW B, NEW x, NEW y, IsABag(B)
  PROVE  /\ IsABag(Replace(B, x, y))
         /\ \A z \in DOMAIN B : z # x => z \in DOMAIN Replace(B, x, y)
         /\ y \in DOMAIN Replace(B, x, y)
<1> DEFINE C == B (-) SetToBag({x})
<1>1. \A e \in DOMAIN B : B[e] \in Nat /\ B[e] > 0
  BY DEF IsABag
<1>2. /\ IsABag(C) /\ DOMAIN C \subseteq DOMAIN B
      /\ \A z \in DOMAIN B : z # x => z \in DOMAIN C
  BY <1>1 DEF (-), SetToBag, IsABag
<1>3. IsABag(C (+) SetToBag({y})) /\ DOMAIN (C (+) SetToBag({y})) = DOMAIN C \cup {y}
  BY <1>2, BagAdd DEF Add
<1> QED BY <1>2, <1>3 DEF Replace

\* One element less, and no other gets lost.
LEMMA BagRemoveKeeps ==
  ASSUME NEW B, NEW x, IsABag(B)
  PROVE  /\ IsABag(B (-) SetToBag({x}))
         /\ \A z \in DOMAIN B : z # x => z \in DOMAIN (B (-) SetToBag({x}))
<1>1. \A e \in DOMAIN B : B[e] \in Nat /\ B[e] > 0
  BY DEF IsABag
<1> QED BY <1>1 DEF (-), SetToBag, IsABag

\* At the start.
LEMMA InitDInv == Init => DInv
<1> SUFFICES ASSUME Init PROVE DInv
  OBVIOUS
<1>1. IInv
  BY InitIInv
<1>2. StartInv
  BY BagEmpty DEF Init, StartInv
<1>3. LowInv
  <2>1. \A c \in Copies : ~dirty[c] /\ data[c] = MaxData /\ MaxData \in Nat
    BY GraphAssumption DEF Init
  <2>2. \A m \in Mirrors : task[m].pc = "none"
    BY DEF Init, NoTask
  <2>3. \A h \in Host : work[h] = EmptyBag /\ list[h][0] = EmptyBag /\ list[h][1] = EmptyBag
    BY DEF Init
  <2> QED BY <2>1, <2>2, <2>3, BagEmpty DEF LowInv, WalkTo
<1>4. EdgeInv
  <2>1. \A u \in Vertex : data[Master(u)] = MaxData /\ MaxData \in Nat
    BY CopyKinds, GraphAssumption DEF Init
  <2> QED BY <2>1 DEF EdgeInv
<1> QED BY <1>1, <1>2, <1>3, <1>4 DEF DInv

-----------------------------------------------------------------------------
(***************************************************************************)
(* The distances in sync.                                                  *)
(***************************************************************************)
\* What a step of sync does to the copies: values become smaller only, and come
\* from copies of the same vertex; marks are kept, and a master that changes is
\* marked, by then or by a task that will find it changed.
SyncOK ==
  /\ \A c \in Copies :
       /\ data'[c] <= data[c]
       /\ data'[c] = data[c] \/ \E b \in Copies : b[1] = c[1] /\ data'[c] = data[b]
       /\ dirty[c] => dirty'[c]
       /\ dirty'[c] => dirty[c] \/ data[c] < MaxData
  /\ \A m \in Mirrors : task'[m].pc \in {"func", "compare"} => data'[To(m)'] <= task'[m].old
  /\ \A u \in Vertex :
       /\ phase = "reduce" /\ Changed(u) => dirty'[Master(u)] \/ (phase' = "reduce" /\ Changed(u)')
       /\ data'[Master(u)] # data[Master(u)] => phase' = "reduce" /\ Changed(u)'

\* A step that leaves the copies alone and the tasks that have read an old value.
LEMMA QuietSync ==
  ASSUME IInv, LowInv, UNCHANGED <<graph, data, dirty>>,
         \A m \in Mirrors :
           task[m].pc \in {"func", "compare"} \/ task'[m].pc \in {"func", "compare"} =>
             task'[m] = task[m] /\ phase' = phase
  PROVE  SyncOK
<1>1. /\ Mirrors' = Mirrors /\ \A c \in Copies : data[c] \in Nat
      /\ \A v \in Vertex : Master(v) \in Copies
  BY GraphSame, IInvParts, CopyKinds DEF SyncType
<1>2. \A m \in Mirrors : task'[m].pc \in {"func", "compare"} => data'[To(m)'] <= task'[m].old
  BY DEF LowInv, To, Master
<1>3. ASSUME NEW u \in Vertex, phase = "reduce", Changed(u)
      PROVE  dirty'[Master(u)] \/ (phase' = "reduce" /\ Changed(u)')
  BY <1>1, <1>3 DEF Changed, Master
<1>4. \A c \in Copies : data'[c] <= data[c]
  BY <1>1
<1> QED BY <1>1, <1>2, <1>3, <1>4 DEF SyncOK

\* The phases begin and end without any such task.
LEMMA PhaseSyncOK ==
  ASSUME IInv, LowInv, reduce \/ broadcast \/ skipBroadcast \/ wait
  PROVE  SyncOK
<1>1. /\ UNCHANGED <<graph, data, dirty, task>>
      /\ phase \in {"reduce", "broadcast"} => count = 0
  BY DEF reduce, broadcast, skipBroadcast, wait, Start, copies, tasks
<1>2. \A m \in Mirrors : task[m].pc = "none"
  BY <1>1, CountZero, IInvParts DEF SyncInv, Tasks
<1> QED BY <1>1, <1>2, QuietSync

\* A host creates a task or ends its own.
LEMMA HostSyncOK ==
  ASSUME IInv, LowInv, NEW h \in Host, HostStep(h)
  PROVE  SyncOK
<1>0. SyncType /\ SyncInv
  BY IInvParts
<1>1. CASE look(h)
  <2> DEFINE f == First(scan[h])
  <2>1. f \in scan[h]
    BY <1>0, <1>1, FirstIn, CopyKinds DEF look, SyncType
  <2>2. PICK m : m = f
    OBVIOUS
  <2>3. m \in Mirrors /\ task[m].pc = "none"
    BY <1>0, <2>1, <2>2 DEF SyncInv, SyncType
  <2>4. /\ \/ task' = [task EXCEPT ![m] = [pc |-> "created", val |-> data[From(m)], old |-> 0]]
           \/ UNCHANGED task
        /\ UNCHANGED <<graph, data, dirty, phase>>
    BY <1>1, <2>2 DEF look, copies
  <2>5. task'[m].pc \in {"none", "created"} /\ \A n \in Mirrors : n # m => task'[n] = task[n]
    BY <1>0, <2>3, <2>4 DEF SyncType
  <2> QED BY <2>3, <2>4, <2>5, QuietSync
<1>2. CASE hostDone(h)
  BY <1>2, QuietSync DEF hostDone, copies
<1> QED BY <1>1, <1>2 DEF HostStep

\* The tasks of the mirrors.
LEMMA ReadOldSyncOK ==
  ASSUME IInv, LowInv, NEW m \in Mirrors, readOld(m)
  PROVE  SyncOK
<1>0. SyncType /\ MaxData \in Nat
  BY IInvParts, GraphAssumption
<1>1. /\ task[m].pc = "created"
      /\ task' = [task EXCEPT ![m].pc = "func", ![m].old = data[To(m)]]
      /\ UNCHANGED <<graph, data, dirty, phase>>
  BY DEF readOld, copies
<1>2. /\ Mirrors' = Mirrors /\ \A c \in Copies : data[c] \in Nat
      /\ \A v \in Vertex : Master(v) \in Copies
      /\ To(m) \in Copies
  <2>1. \A c \in Copies : data[c] \in Nat
    BY <1>0 DEF SyncType
  <2> QED BY <1>1, <2>1, GraphSame, CopyKinds DEF To
<1>3. /\ \A n \in Mirrors : n # m => task'[n] = task[n]
      /\ task'[m].pc = "func" /\ task'[m].old = data[To(m)]
  BY <1>0, <1>1 DEF SyncType, TaskRecord
<1>4. \A n : To(n)' = To(n)
  BY <1>1 DEF To, Master
<1>5. ASSUME NEW n \in Mirrors, task'[n].pc \in {"func", "compare"}
      PROVE  data'[To(n)'] <= task'[n].old
  <2>1. CASE n = m
    BY <1>1, <1>2, <1>3, <1>4, <2>1
  <2>2. CASE n # m
    BY <1>1, <1>3, <1>4, <1>5, <2>2 DEF LowInv
  <2> QED BY <2>1, <2>2
<1>6. ASSUME NEW u \in Vertex, Changed(u) PROVE Changed(u)'
  BY <1>1, <1>2, <1>3, <1>6 DEF Changed, Master
<1>7. \A c \in Copies : data'[c] <= data[c] /\ data'[c] = data[c] /\ dirty'[c] = dirty[c]
  BY <1>1, <1>2
<1> QED BY <1>1, <1>2, <1>5, <1>6, <1>7 DEF SyncOK

\* A task applies func: it lowers the copy to a value of the same vertex.
LEMMA ApplySyncOK ==
  ASSUME IInv, LowInv, NEW m \in Mirrors, apply(m)
  PROVE  SyncOK
<1>0. SyncType /\ SyncInv /\ ValueInv /\ MaxData \in Nat
  BY IInvParts, GraphAssumption
<1>1. /\ task[m].pc = "func"
      /\ data' = [data EXCEPT ![To(m)] = IF phase = "reduce" THEN updateData(task[m].val, @)
                                                              ELSE task[m].val]
      /\ task' = [task EXCEPT ![m].pc = "compare"]
      /\ UNCHANGED <<graph, dirty, phase>>
  BY DEF apply
<1>2. Mirrors' = Mirrors /\ phase \in {"reduce", "broadcast"}
  BY <1>0, <1>1, GraphSame DEF SyncInv, Tasks
<1>3. /\ To(m) \in Copies /\ From(m) \in Copies /\ m \in Copies /\ Master(m[1]) \in Copies
      /\ From(m)[1] = To(m)[1]
      /\ \A c \in Copies : data[c] \in Nat
      /\ \A v \in Vertex : Master(v) \in Copies
  BY <1>0, CopyKinds DEF To, From, SyncType, Master
<1>4. /\ \A n \in Mirrors : n # m => task'[n] = task[n]
      /\ task'[m].pc = "compare" /\ task'[m].old = task[m].old
      /\ \A n \in Mirrors : task[n].old \in Nat
  BY <1>0, <1>1 DEF SyncType, TaskRecord
<1>5. \A n : To(n)' = To(n)
  BY <1>1 DEF To, Master
<1>6. task[m].val = data[From(m)] /\ data[To(m)] <= task[m].old
  BY <1>0, <1>1 DEF ValueInv, LowInv
<1>7. /\ \A c \in Copies : c # To(m) => data'[c] = data[c]
      /\ data'[To(m)] = IF phase = "reduce" THEN updateData(data[From(m)], data[To(m)])
                                            ELSE data[From(m)]
  BY <1>0, <1>1, <1>3, <1>6 DEF SyncType
<1>8. data'[To(m)] <= data[To(m)] /\ data'[To(m)] \in {data[From(m)], data[To(m)]}
  <2>1. CASE phase = "reduce"
    BY <1>3, <1>7, <2>1 DEF updateData
  <2>2. CASE phase = "broadcast"
    <3>1. data[Master(m[1])] <= data[m]
      BY <1>0, <2>2 DEF ValueInv
    <3> QED BY <1>7, <2>2, <3>1 DEF From, To
  <2> QED BY <1>2, <2>1, <2>2
<1>9. \A c \in Copies : /\ data'[c] <= data[c] /\ data'[c] \in Nat
                        /\ data'[c] = data[c] \/ \E b \in Copies : b[1] = c[1] /\ data'[c] = data[b]
                        /\ dirty'[c] = dirty[c]
  BY <1>1, <1>3, <1>7, <1>8
<1>10. ASSUME NEW n \in Mirrors, task'[n].pc \in {"func", "compare"}
       PROVE  data'[To(n)'] <= task'[n].old
  <2>1. task'[n].old = task[n].old /\ task[n].pc \in {"func", "compare"}
    BY <1>1, <1>4, <1>10
  <2>2. To(n) \in Copies /\ data[To(n)] <= task[n].old
    BY <2>1, CopyKinds DEF LowInv, To
  <2>3. data'[To(n)] <= data[To(n)] /\ data'[To(n)] \in Nat /\ data[To(n)] \in Nat
    BY <1>3, <1>9, <2>2
  <2> QED BY <1>4, <1>5, <2>1, <2>2, <2>3
<1>11. ASSUME NEW u \in Vertex, phase = "reduce", Changed(u) PROVE Changed(u)'
  <2>1. CASE dirty[Master(u)]
    BY <1>1, <2>1 DEF Changed, Master
  <2>2. CASE \E k \in Mirrors : /\ k[1] = u /\ task[k].pc = "compare"
                                /\ data[Master(u)] < task[k].old
    <3>1. PICK k \in Mirrors : /\ k[1] = u /\ task[k].pc = "compare"
                               /\ data[Master(u)] < task[k].old
      BY <2>2
    <3>2. task'[k] = task[k]
      BY <1>1, <1>4, <3>1
    <3>3. data'[Master(u)] < task'[k].old
      BY <1>3, <1>4, <1>9, <3>1, <3>2
    <3> QED BY <1>2, <3>1, <3>2, <3>3 DEF Changed, Master
  <2> QED BY <1>11, <2>1, <2>2 DEF Changed
<1>12. ASSUME NEW u \in Vertex, data'[Master(u)] # data[Master(u)]
       PROVE  phase' = "reduce" /\ Changed(u)'
  <2>1. Master(u) = To(m)
    BY <1>3, <1>7, <1>12
  <2>2. phase = "reduce" /\ m[1] = u
    BY <1>2, <2>1, CopyKinds DEF To, Master
  <2>3. data'[Master(u)] < task'[m].old
    BY <1>3, <1>4, <1>6, <1>9, <1>12, <2>1
  <2> QED BY <1>1, <1>2, <1>4, <2>2, <2>3 DEF Changed, Master
<1> QED BY <1>1, <1>9, <1>10, <1>11, <1>12 DEF SyncOK

\* A task compares: it marks a copy that was changed.
LEMMA CompareSyncOK ==
  ASSUME IInv, LowInv, NEW m \in Mirrors, compare(m)
  PROVE  SyncOK
<1>0. SyncType /\ MaxData \in Nat
  BY IInvParts, GraphAssumption
<1>1. /\ task[m].pc = "compare"
      /\ dirty' = [dirty EXCEPT ![To(m)] = @ \/ data[To(m)] # task[m].old]
      /\ task' = [task EXCEPT ![m].pc = "done"]
      /\ UNCHANGED <<graph, data, phase>>
  BY DEF compare
<1>2. /\ Mirrors' = Mirrors /\ To(m) \in Copies
      /\ \A c \in Copies : data[c] \in Nat
      /\ \A v \in Vertex : Master(v) \in Copies
  <2>1. \A c \in Copies : data[c] \in Nat
    BY <1>0 DEF SyncType
  <2> QED BY <1>1, <2>1, GraphSame, CopyKinds DEF To
<1>3. /\ \A n \in Mirrors : n # m => task'[n] = task[n]
      /\ task'[m].pc = "done"
      /\ \A n \in Mirrors : task[n].old \in Nat /\ task[n].old <= MaxData
  BY <1>0, <1>1 DEF SyncType, TaskRecord
<1>4. /\ \A c \in Copies : dirty[c] => dirty'[c]
      /\ \A c \in Copies : c # To(m) => dirty'[c] = dirty[c]
      /\ dirty'[To(m)] <=> dirty[To(m)] \/ data[To(m)] # task[m].old
  BY <1>0, <1>1, <1>2 DEF SyncType
<1>5. data[To(m)] <= task[m].old
  BY <1>1 DEF LowInv
<1>6. \A c \in Copies : dirty'[c] => dirty[c] \/ data[c] < MaxData
  BY <1>0, <1>2, <1>3, <1>4, <1>5
<1>7. \A n \in Mirrors : task'[n].pc \in {"func", "compare"} => data'[To(n)'] <= task'[n].old
  BY <1>1, <1>3 DEF LowInv, To, Master
<1>8. ASSUME NEW u \in Vertex, phase = "reduce", Changed(u)
      PROVE  dirty'[Master(u)] \/ Changed(u)'
  <2>1. CASE dirty[Master(u)]
    BY <1>2, <1>4, <2>1
  <2>2. CASE \E k \in Mirrors : /\ k[1] = u /\ task[k].pc = "compare"
                                /\ data[Master(u)] < task[k].old
    <3>1. PICK k \in Mirrors : /\ k[1] = u /\ task[k].pc = "compare"
                               /\ data[Master(u)] < task[k].old
      BY <2>2
    <3>2. CASE k = m
      <4>1. To(m) = Master(u) /\ data[To(m)] # task[m].old
        BY <1>2, <1>3, <1>8, <3>1, <3>2 DEF To
      <4> QED BY <1>2, <1>4, <4>1
    <3>3. CASE k # m
      BY <1>1, <1>2, <1>3, <3>1, <3>3 DEF Changed, Master
    <3> QED BY <3>2, <3>3
  <2> QED BY <1>8, <2>1, <2>2 DEF Changed
<1>9. \A c \in Copies : data'[c] <= data[c] /\ data'[c] = data[c]
  BY <1>1, <1>2
<1> QED BY <1>1, <1>2, <1>4, <1>6, <1>7, <1>8, <1>9 DEF SyncOK

\* A task ends.
LEMMA DoneSyncOK ==
  ASSUME IInv, LowInv, NEW m \in Mirrors, done(m)
  PROVE  SyncOK
<1>0. SyncType
  BY IInvParts
<1>1. /\ task[m].pc = "done" /\ task' = [task EXCEPT ![m] = NoTask]
      /\ UNCHANGED <<graph, data, dirty, phase>>
  BY DEF done, copies
<1>2. task'[m].pc = "none" /\ \A n \in Mirrors : n # m => task'[n] = task[n]
  BY <1>0, <1>1 DEF SyncType, NoTask
<1> QED BY <1>1, <1>2, QuietSync

\* Every step of sync.
LEMMA SyncStepOK ==
  ASSUME IInv, LowInv, SyncStep
  PROVE  SyncOK
  BY PhaseSyncOK, HostSyncOK, ReadOldSyncOK, ApplySyncOK, CompareSyncOK, DoneSyncOK
     DEF SyncStep, TaskStep

\* The parts of the invariant, and what they are about.
LEMMA DInvParts ==
  ASSUME DInv
  PROVE  /\ IInv /\ StartInv /\ LowInv /\ EdgeInv /\ SyncType /\ LocalType /\ ListsInv /\ WorkInv
         /\ MaxData \in Nat \ {0} /\ \A c \in Copies : data[c] \in Nat /\ data[c] <= MaxData
         /\ \A v \in Vertex : Master(v) \in Copies /\ Owner[v] \in Host
         /\ \A u, v \in Vertex : <<u, v>> \in edges => <<v, Owner[u]>> \in Copies
<1>1. IInv /\ StartInv /\ LowInv /\ EdgeInv /\ MaxData \in Nat \ {0}
  BY GraphAssumption DEF DInv
<1>2. SyncType /\ LocalType /\ ListsInv /\ WorkInv
  BY <1>1, IInvParts
<1>3. \A c \in Copies : data[c] \in Nat /\ data[c] <= MaxData
  BY <1>1, <1>2 DEF SyncType
<1>4. \A v \in Vertex : Master(v) \in Copies /\ Owner[v] \in Host
  BY CopyKinds, GraphAssumption
<1>5. ASSUME NEW u \in Vertex, NEW v \in Vertex, <<u, v>> \in edges
      PROVE  <<v, Owner[u]>> \in Copies
  <2>1. v \in Destinations(Owner[u])
    BY <1>5 DEF Destinations
  <2> QED BY <1>2, <1>4, <2>1, DestinationCopy DEF SyncType
<1> QED BY <1>1, <1>2, <1>3, <1>4, <1>5

\* An edge that was relaxed stays so while its source does not change; a source
\* that changes, and a pending edge, must be accounted for by the step.
LEMMA EdgeStep ==
  ASSUME DInv, UNCHANGED graph,
         \A c \in Copies : data'[c] <= data[c] /\ data'[c] \in Nat,
         \A u, v \in Vertex : <<u, v>> \in edges =>
           /\ data'[Master(u)] # data[Master(u)] => Pending(u, v)'
           /\ Pending(u, v) => Pending(u, v)' \/ Relaxed(u, v)'
  PROVE  EdgeInv'
<1> SUFFICES ASSUME NEW u \in Vertex, NEW v \in Vertex, <<u, v>> \in edges,
                    data'[Master(u)] < MaxData
             PROVE  Relaxed(u, v)' \/ Pending(u, v)'
  BY GraphSame DEF EdgeInv, Master
<1>1. Master(u) \in Copies /\ <<v, Owner[u]>> \in Copies
  BY DInvParts
<1>2. CASE data'[Master(u)] # data[Master(u)]
  BY <1>2
<1>3. CASE data'[Master(u)] = data[Master(u)]
  <2>1. Relaxed(u, v) \/ Pending(u, v)
    BY <1>3, DInvParts DEF EdgeInv
  <2>2. Relaxed(u, v) => Relaxed(u, v)'
    BY <1>1, <1>3, DInvParts DEF Relaxed, Master
  <2> QED BY <2>1, <2>2
<1> QED BY <1>2, <1>3

\* A step of sync.
LEMMA SyncDInv ==
  ASSUME DInv, Sync
  PROVE  StartInv' /\ LowInv' /\ EdgeInv'
<1>0. IInv /\ StartInv /\ LowInv /\ EdgeInv
  BY DInvParts
<1>1. /\ UNCHANGED graph
      /\ phase \in {"sync", "reduce", "reduced", "broadcast"}
      /\ phase' \in {"reduce", "reduced", "broadcast", "synced"}
      /\ SyncOK /\ CopiesInv'
      /\ UNCHANGED <<list, toRead, local, ready, work, active, searches, src>>
  BY <1>0, SyncPhases, SyncStepOK DEF Sync, lists, hosts, search
<1>2. Mirrors' = Mirrors /\ Copies' = Copies /\ edges' = edges
  BY <1>1, GraphSame
<1>3. \A c \in Copies : data'[c] <= data[c] /\ data'[c] \in Nat /\ data[c] \in Nat
  BY <1>1, <1>2, DInvParts DEF SyncOK, CopiesInv, SyncType
<1>4. \A h \in Host : work[h] = EmptyBag /\ local[h] = "over" /\ DOMAIN work[h] = {}
  BY <1>1, DInvParts, BagEmpty DEF WorkInv
<1>5. StartInv'
  <2>1. searches # 0 /\ src \in Vertex /\ searches \in Nat
    BY <1>0, <1>1, DInvParts DEF StartInv, LocalType
  <2>2. data'[Master(src)] = 0
    <3>1. data[Master(src)] = 0 /\ Master(src) \in Copies
      BY <1>0, <2>1, DInvParts DEF StartInv
    <3> QED BY <1>3, <3>1
  <2> QED BY <1>0, <1>1, <2>1, <2>2 DEF StartInv, Master
<1>6. LowInv'
  <2>1. ASSUME NEW c \in Copies
        PROVE  (dirty'[c] => data'[c] < MaxData) /\ WalkTo(c)'
    <3>1. dirty'[c] => data'[c] < MaxData
      BY <1>0, <1>1, <1>3, DInvParts DEF SyncOK, LowInv
    <3>2. PICK b \in Copies : b[1] = c[1] /\ data'[c] = data[b]
      BY <1>1 DEF SyncOK
    <3>3. WalkTo(b)
      BY <1>0 DEF LowInv
    <3> QED BY <1>1, <3>1, <3>2, <3>3, WalkToSame
  <2>2. \A m \in Mirrors : task'[m].pc \in {"func", "compare"} => data'[To(m)'] <= task'[m].old
    BY <1>1 DEF SyncOK
  <2>3. \A h \in Host : \A i \in {0, 1} : \A v \in DOMAIN list[h][i] : data'[<<v, h>>] < MaxData
    <3> SUFFICES ASSUME NEW h \in Host, NEW i \in {0, 1}, NEW v \in DOMAIN list[h][i]
                 PROVE  data'[<<v, h>>] < MaxData
      OBVIOUS
    <3>1. <<v, h>> \in Copies /\ data[<<v, h>>] < MaxData
      BY <1>0, DInvParts DEF ListsInv, LowInv
    <3> QED BY <1>3, <3>1, DInvParts
  <2> QED BY <1>1, <1>2, <1>4, <2>1, <2>2, <2>3 DEF LowInv
<1>7. EdgeInv'
  <2> SUFFICES ASSUME NEW u \in Vertex, NEW v \in Vertex, <<u, v>> \in edges
               PROVE  /\ data'[Master(u)] # data[Master(u)] => Pending(u, v)'
                      /\ Pending(u, v) => Pending(u, v)'
    BY <1>1, <1>3, EdgeStep
  <2>1. Owner[u] \in Host /\ Master(u) \in Copies
    BY DInvParts
  <2>2. ASSUME data'[Master(u)] # data[Master(u)] PROVE Pending(u, v)'
    BY <1>1, <2>2 DEF SyncOK, Pending
  <2>3. ASSUME Pending(u, v) PROVE Pending(u, v)'
    <3>1. dirty[Master(u)] \/ (phase = "reduce" /\ Changed(u))
      BY <1>1, <1>4, <2>1, <2>3 DEF Pending
    <3>2. dirty'[Master(u)] \/ (phase' = "reduce" /\ Changed(u)')
      BY <1>1, <2>1, <3>1 DEF SyncOK
    <3> QED BY <3>2 DEF Pending, Master
  <2> QED BY <2>2, <2>3
<1> QED BY <1>5, <1>6, <1>7

-----------------------------------------------------------------------------
(***************************************************************************)
(* The distances in the program.                                           *)
(***************************************************************************)
\* A search begins; it is the first.
LEMMA SearchDInv ==
  ASSUME DInv, NEW s \in Vertex, SSSPMDLCSR(s), Searches <= 1
  PROVE  StartInv' /\ LowInv' /\ EdgeInv'
<1>0. IInv /\ StartInv /\ LowInv /\ EdgeInv /\ IInv' /\ MaxData \in Nat \ {0} /\ Owner[s] \in Host
  BY DInvParts, SearchInv
<1>1. /\ phase = "user" /\ phase' = "loop" /\ searches < Searches
      /\ data' = [c \in Copies |-> IF c[1] = s THEN 0 ELSE MaxData]
      /\ list' = [list EXCEPT ![Owner[s]][0] = Add(@, s)]
      /\ active' = TRUE /\ searches' = searches + 1 /\ src' = s
      /\ UNCHANGED <<graph, dirty, running, scan, task, count, toRead, local, ready, work>>
  BY DEF SSSPMDLCSR, tasks, hosts
<1>2. Mirrors' = Mirrors /\ Copies' = Copies /\ edges' = edges
  BY <1>1, GraphSame
<1>3. searches = 0 /\ searches' = 1
  <2>1. searches \in Nat
    BY DInvParts DEF LocalType
  <2> QED BY <1>1, <2>1, SearchesAssumption
<1>4. \A h \in Host : work[h] = EmptyBag /\ DOMAIN work[h] = {}
  BY <1>1, DInvParts, BagEmpty DEF WorkInv
<1>5. /\ \A m \in Mirrors : task[m].pc = "none"
      /\ \A c \in Copies : ~dirty[c]
  BY <1>0, <1>1, IInvParts DEF SyncInv, Tasks, ValueInv
<1>6. Master(s) \in Copies /\ data'[Master(s)] = 0 /\ Master(s) = <<s, Owner[s]>>
  BY <1>1, DInvParts DEF Master
<1>7. \A h \in Host, i \in {0, 1} :
        list'[h][i] = IF h = Owner[s] /\ i = 0 THEN Add(list[h][i], s) ELSE list[h][i]
  BY <1>1, DInvParts DEF LocalType
<1>8. \A h \in Host, i \in {0, 1} : DOMAIN list[h][i] = {} /\ IsABag(list[h][i])
  BY <1>0, <1>3, BagEmpty DEF StartInv
<1>9. \A h \in Host, i \in {0, 1} :
        DOMAIN list'[h][i] = IF h = Owner[s] /\ i = 0 THEN {s} ELSE {}
  <2> SUFFICES ASSUME NEW h \in Host, NEW i \in {0, 1}
               PROVE  DOMAIN list'[h][i] = IF h = Owner[s] /\ i = 0 THEN {s} ELSE {}
    OBVIOUS
  <2>1. DOMAIN Add(list[h][i], s) = {s}
    BY <1>8, BagAdd
  <2> QED BY <1>7, <1>8, <2>1
<1>10. StartInv'
  BY <1>0, <1>1, <1>3, <1>6 DEF StartInv, Master
<1>11. LowInv'
  <2>1. Walk(0, s)'
    <3> DEFINE p == [i \in 0 .. 0 |-> s]
    <3>1. p \in [0 .. 0 -> Vertex] /\ p[0] = s
      OBVIOUS
    <3>2. \A i \in 0 .. 0 - 1 : FALSE
      OBVIOUS
    <3> HIDE DEF p
    <3> QED BY <1>1, <3>1, <3>2 DEF Walk
  <2>2. ASSUME NEW c \in Copies
        PROVE  (dirty'[c] => data'[c] < MaxData) /\ WalkTo(c)'
    <3>1. ~dirty'[c]
      BY <1>1, <1>5
    <3>2. CASE c[1] = s
      <4>1. data'[c] = 0
        BY <1>1, <3>2
      <4> QED BY <2>1, <3>1, <3>2, <4>1 DEF WalkTo, Walk
    <3>3. CASE c[1] # s
      BY <1>0, <1>1, <3>1, <3>3 DEF WalkTo
    <3> QED BY <3>2, <3>3
  <2>3. \A h \in Host : \A i \in {0, 1} : \A v \in DOMAIN list'[h][i] : data'[<<v, h>>] < MaxData
    BY <1>0, <1>6, <1>9
  <2> QED BY <1>1, <1>2, <1>4, <1>5, <2>2, <2>3 DEF LowInv
<1>12. EdgeInv'
  <2> SUFFICES ASSUME NEW u \in Vertex, NEW v \in Vertex, data'[Master(u)] < MaxData
               PROVE  Pending(u, v)'
    BY <1>2 DEF EdgeInv, Master
  <2>1. u = s
    BY <1>0, <1>1, CopyKinds DEF Master
  <2> QED BY <1>0, <1>1, <1>9, <2>1 DEF Pending
<1> QED BY <1>10, <1>11, <1>12

\* The phases that follow each other leave the copies and the lists alone.
LEMMA IterateDInv ==
  ASSUME DInv, iterate \/ localOver \/ return
  PROVE  StartInv' /\ LowInv' /\ EdgeInv'
<1>0. IInv /\ StartInv /\ LowInv /\ EdgeInv /\ SyncInv /\ ValueInv /\ WorkInv
  BY DInvParts, IInvParts
<1>1. /\ UNCHANGED <<graph, data, dirty, running, scan, task, count, list, ready, work,
                     searches, src>>
      /\ \/ phase = "loop" /\ phase' = "local" /\ active
            /\ toRead' = [h \in Host |-> 0] /\ local' = [h \in Host |-> "round"]
         \/ /\ phase = "local" /\ phase' = "sync" /\ UNCHANGED <<active, toRead, local>>
            /\ \A h \in Host : local[h] = "over"
         \/ phase = "loop" /\ phase' = "user" /\ ~active /\ UNCHANGED <<active, toRead, local>>
  BY DEF iterate, localOver, return, copies, tasks, lists, hosts, search
<1>2. Mirrors' = Mirrors /\ Copies' = Copies /\ edges' = edges
  BY <1>1, GraphSame
<1>3. \A h \in Host : work[h] = EmptyBag /\ DOMAIN work[h] = {} /\ local[h] = "over"
  BY <1>0, <1>1, BagEmpty DEF WorkInv
<1>4. \A m \in Mirrors : task[m].pc = "none"
  BY <1>0, <1>1 DEF SyncInv, Tasks
<1>5. StartInv'
  BY <1>0, <1>1, <1>2 DEF StartInv, Master
<1>6. LowInv'
  <2>1. \A c \in Copies : WalkTo(c)'
    BY <1>0, <1>1, WalkToSame DEF LowInv
  <2> QED BY <1>0, <1>1, <1>2, <1>3, <1>4, <2>1 DEF LowInv
<1>7. EdgeInv'
  <2> SUFFICES ASSUME NEW u \in Vertex, NEW v \in Vertex, Pending(u, v)
               PROVE  Pending(u, v)'
    BY <1>1, DInvParts, EdgeStep DEF Master
  <2>1. Owner[u] \in Host /\ Master(u) \in Copies
    BY DInvParts
  <2>2. \/ dirty[Master(u)]
        \/ phase = "loop" /\ active /\ u \in DOMAIN list[Owner[u]][0]
    BY <1>1, <1>3, <2>1 DEF Pending
  <2> QED BY <1>1, <2>1, <2>2 DEF Pending, Master
<1> QED BY <1>5, <1>6, <1>7

\* The marked masters go into the lists.
LEMMA UpdateActiveDInv ==
  ASSUME DInv, updateActive
  PROVE  StartInv' /\ LowInv' /\ EdgeInv'
<1>0. IInv /\ StartInv /\ LowInv /\ EdgeInv /\ SyncInv /\ WorkInv
  BY DInvParts, IInvParts
<1>1. /\ phase = "synced" /\ phase' = "loop"
      /\ list' = [h \in Host |-> [list[h] EXCEPT ![0] = @ (+) SetToBag(Marked(h))]]
      /\ active' = (\E h \in Host : Marked(h) # {})
      /\ dirty' = [c \in Copies |-> FALSE]
      /\ UNCHANGED <<graph, data, running, scan, task, count, toRead, local, ready, work,
                     searches, src>>
  BY DEF updateActive, tasks, hosts
<1>2. Mirrors' = Mirrors /\ Copies' = Copies /\ edges' = edges
  BY <1>1, GraphSame
<1>3. \A h \in Host : work[h] = EmptyBag /\ DOMAIN work[h] = {} /\ local[h] = "over"
  BY <1>0, <1>1, BagEmpty DEF WorkInv
<1>4. \A m \in Mirrors : task[m].pc = "none"
  BY <1>0, <1>1 DEF SyncInv, Tasks
<1>5. \A h \in Host : /\ DOMAIN list'[h][0] = DOMAIN list[h][0] \cup Marked(h)
                      /\ list'[h][1] = list[h][1]
  <2> SUFFICES ASSUME NEW h \in Host
               PROVE  /\ DOMAIN list'[h][0] = DOMAIN list[h][0] \cup Marked(h)
                      /\ list'[h][1] = list[h][1]
    OBVIOUS
  <2>1. list[h] = [i \in {0, 1} |-> list[h][i]] /\ IsABag(list[h][0])
    BY DInvParts DEF LocalType, ListsInv
  <2>2. list'[h] = [list[h] EXCEPT ![0] = AddAll(list[h][0], Marked(h))]
    BY <1>1 DEF AddAll
  <2>3. DOMAIN AddAll(list[h][0], Marked(h)) = DOMAIN list[h][0] \cup Marked(h)
    BY <2>1, BagAddAll
  <2> QED BY <2>1, <2>2, <2>3
<1>6. StartInv'
  <2>1. searches # 0
    BY <1>0, <1>1 DEF StartInv
  <2> QED BY <1>0, <1>1, <2>1 DEF StartInv, Master
<1>7. LowInv'
  <2>1. \A c \in Copies : WalkTo(c)'
    BY <1>0, <1>1, WalkToSame DEF LowInv
  <2>2. \A c \in Copies : ~dirty'[c]
    BY <1>1
  <2>3. ASSUME NEW h \in Host, NEW i \in {0, 1}, NEW v \in DOMAIN list'[h][i]
        PROVE  data[<<v, h>>] < MaxData
    <3>1. CASE v \in DOMAIN list[h][i]
      BY <1>0, <3>1 DEF LowInv
    <3>2. CASE v \in Marked(h)
      <4>1. v \in Vertex /\ <<v, h>> = Master(v) /\ dirty[Master(v)]
        BY <3>2 DEF Marked, Master
      <4> QED BY <1>0, <4>1, DInvParts DEF LowInv
    <3> QED BY <1>5, <2>3, <3>1, <3>2
  <2> QED BY <1>0, <1>1, <1>2, <1>3, <1>4, <2>1, <2>2, <2>3 DEF LowInv
<1>8. EdgeInv'
  <2> SUFFICES ASSUME NEW u \in Vertex, NEW v \in Vertex, Pending(u, v)
               PROVE  Pending(u, v)'
    BY <1>1, DInvParts, EdgeStep DEF Master
  <2>1. Owner[u] \in Host /\ Master(u) \in Copies
    BY DInvParts
  <2>2. dirty[Master(u)]
    BY <1>1, <1>3, <2>1 DEF Pending
  <2>3. u \in Marked(Owner[u])
    BY <2>2 DEF Marked
  <2>4. active' /\ u \in DOMAIN list'[Owner[u]][0]
    BY <1>1, <1>5, <2>1, <2>3
  <2> QED BY <1>1, <2>4 DEF Pending
<1> QED BY <1>6, <1>7, <1>8


\* A round of a host begins: what is in its list becomes tasks.
LEMMA StartRoundDInv ==
  ASSUME DInv, NEW h \in Host, startRound(h)
  PROVE  StartInv' /\ LowInv' /\ EdgeInv'
<1>0. IInv /\ StartInv /\ LowInv /\ EdgeInv /\ WorkInv /\ ListsInv /\ LocalType
  BY DInvParts
<1> DEFINE Entry(v) == [v |-> v, pc |-> "start", dist |-> 0, todo |-> {}, pushed |-> FALSE]
           entries == list[h][toRead[h]]
<1>1. /\ local[h] = "round"
      /\ work' = [work EXCEPT ![h] = [t \in {Entry(v) : v \in DOMAIN entries} |-> entries[t.v]]]
      /\ list' = [list EXCEPT ![h][toRead[h]] = EmptyBag]
      /\ local' = [local EXCEPT ![h] = "tasks"]
      /\ UNCHANGED <<graph, data, dirty, phase, running, scan, task, count, toRead,
                     active, searches, src>>
  BY DEF startRound, copies, tasks, search
<1>2. Mirrors' = Mirrors /\ Copies' = Copies /\ edges' = edges
  BY <1>1, GraphSame
<1>3. /\ phase = "local" /\ work[h] = EmptyBag /\ DOMAIN work[h] = {}
      /\ toRead[h] \in {0, 1} /\ \A g \in Host : toRead[g] \in {0, 1}
  BY <1>0, <1>1, BagEmpty DEF WorkInv, LocalType
<1>4. \A g \in Host, i \in {0, 1} :
        list'[g][i] = IF g = h /\ i = toRead[h] THEN EmptyBag ELSE list[g][i]
  BY <1>0, <1>1, <1>3 DEF LocalType
<1>5. /\ \A g \in Host : g # h => work'[g] = work[g] /\ local'[g] = local[g]
      /\ DOMAIN work'[h] = {Entry(v) : v \in DOMAIN entries}
      /\ \A t \in DOMAIN work'[h] : work'[h][t] = entries[t.v]
  BY <1>0, <1>1 DEF LocalType
<1>6. IsABag(entries) /\ \A v \in DOMAIN entries : Entry(v).v = v /\ Entry(v).pc = "start"
  BY <1>0, <1>3 DEF ListsInv
<1>7. StartInv'
  <2>1. IsABag(work'[h])
    <3>1. work'[h] = [t \in {Entry(v) : v \in DOMAIN entries} |-> entries[t.v]]
      BY <1>0, <1>1 DEF LocalType
    <3>2. \A t \in {Entry(v) : v \in DOMAIN entries} : t.v \in DOMAIN entries
      OBVIOUS
    <3>3. \A v \in DOMAIN entries : entries[v] \in {n \in Nat : n > 0}
      BY <1>6 DEF IsABag
    <3> HIDE DEF entries, Entry
    <3> QED BY <3>1, <3>2, <3>3 DEF IsABag
  <2>2. searches # 0
    BY <1>0, <1>3 DEF StartInv
  <2> QED BY <1>0, <1>1, <1>5, <2>1, <2>2 DEF StartInv, Master
<1>8. LowInv'
  <2>1. \A c \in Copies : WalkTo(c)'
    BY <1>0, <1>1, WalkToSame DEF LowInv
  <2>2. \A m \in Mirrors : task'[m].pc \in {"func", "compare"} => data'[To(m)'] <= task'[m].old
    BY <1>0, <1>1 DEF LowInv, To, Master
  <2>3. ASSUME NEW g \in Host, NEW i \in {0, 1}, NEW v \in DOMAIN list'[g][i]
        PROVE  data'[<<v, g>>] < MaxData
    BY <1>0, <1>1, <1>4, BagEmpty DEF LowInv
  <2>4. ASSUME NEW t \in DOMAIN work'[h] PROVE ReachedBy(h, t)'
    <3>1. PICK v \in DOMAIN entries : t = Entry(v)
      BY <1>5
    <3>2. t.v = v /\ t.pc = "start"
      BY <3>1
    <3>3. data'[<<v, h>>] < MaxData
      BY <1>0, <1>1, <1>3, <3>1 DEF LowInv
    <3> QED BY <3>2, <3>3 DEF ReachedBy
  <2>5. ASSUME NEW g \in Host, g # h, NEW t \in DOMAIN work'[g] PROVE ReachedBy(g, t)'
    <3>1. ReachedBy(g, t)
      BY <1>0, <1>5, <2>5 DEF LowInv
    <3>2. \A d : Walk(t.dist, d)' <=> Walk(t.dist, d)
      BY <1>1, WalkSame
    <3> QED BY <1>1, <3>1, <3>2 DEF ReachedBy
  <2> QED BY <1>0, <1>1, <1>2, <2>1, <2>2, <2>3, <2>4, <2>5 DEF LowInv
<1>9. EdgeInv'
  <2> SUFFICES ASSUME NEW u \in Vertex, NEW v \in Vertex, Pending(u, v)
               PROVE  Pending(u, v)'
    BY <1>1, DInvParts, EdgeStep DEF Master
  <2>1. Owner[u] \in Host /\ Master(u) \in Copies
    BY DInvParts
  <2>2. CASE dirty[Master(u)]
    BY <1>1, <2>2 DEF Pending, Master
  <2>3. CASE local[Owner[u]] = "round" /\ u \in DOMAIN list[Owner[u]][toRead[Owner[u]]]
    <3>1. CASE Owner[u] = h
      <4>1. Entry(u) \in DOMAIN work'[h]
        BY <1>5, <2>3, <3>1
      <4> QED BY <1>6, <2>3, <3>1, <4>1 DEF Pending
    <3>2. CASE Owner[u] # h
      BY <1>1, <1>3, <1>4, <1>5, <2>1, <2>3, <3>2 DEF Pending
    <3> QED BY <3>1, <3>2
  <2>4. CASE \E t \in DOMAIN work[Owner[u]] :
               /\ t.v = u
               /\ t.pc = "start" \/ (v \in t.todo /\ t.dist <= data[Master(u)] + 1)
    <3>1. Owner[u] # h
      BY <1>3, <2>4
    <3> QED BY <1>1, <1>5, <2>1, <2>4, <3>1 DEF Pending, Master
  <2> QED BY <1>3, <2>2, <2>3, <2>4 DEF Pending
<1> QED BY <1>7, <1>8, <1>9

\* A round of a host ends.
LEMMA EndRoundDInv ==
  ASSUME DInv, NEW h \in Host, endRound(h)
  PROVE  StartInv' /\ LowInv' /\ EdgeInv'
<1>0. IInv /\ StartInv /\ LowInv /\ EdgeInv /\ WorkInv /\ ListsInv /\ LocalType
  BY DInvParts
<1>1. /\ local[h] = "tasks" /\ work[h] = EmptyBag
      /\ toRead' = [toRead EXCEPT ![h] = 1 - @]
      /\ local' = [local EXCEPT ![h] = IF ready[h] THEN "over" ELSE "round"]
      /\ UNCHANGED <<graph, data, dirty, phase, running, scan, task, count, list, ready, work,
                     active, searches, src>>
  BY DEF endRound, copies, tasks, search
<1>2. Mirrors' = Mirrors /\ Copies' = Copies /\ edges' = edges
  BY <1>1, GraphSame
<1>3. /\ phase = "local" /\ DOMAIN work[h] = {}
      /\ \A g \in Host : g # h => toRead'[g] = toRead[g] /\ local'[g] = local[g]
  BY <1>0, <1>1, BagEmpty DEF WorkInv, LocalType
<1>4. StartInv'
  BY <1>0, <1>1, <1>2 DEF StartInv, Master
<1>5. LowInv'
  <2>1. \A c \in Copies : WalkTo(c)'
    BY <1>0, <1>1, WalkToSame DEF LowInv
  <2>2. \A m \in Mirrors : task'[m].pc \in {"func", "compare"} => data'[To(m)'] <= task'[m].old
    BY <1>0, <1>1 DEF LowInv, To, Master
  <2>3. ASSUME NEW g \in Host, NEW t \in DOMAIN work'[g] PROVE ReachedBy(g, t)'
    <3>1. ReachedBy(g, t)
      BY <1>0, <1>1 DEF LowInv
    <3>2. \A d : Walk(t.dist, d)' <=> Walk(t.dist, d)
      BY <1>1, WalkSame
    <3> QED BY <1>1, <3>1, <3>2 DEF ReachedBy
  <2> QED BY <1>0, <1>1, <1>2, <2>1, <2>2, <2>3 DEF LowInv
<1>6. EdgeInv'
  <2> SUFFICES ASSUME NEW u \in Vertex, NEW v \in Vertex, Pending(u, v)
               PROVE  Pending(u, v)'
    BY <1>1, DInvParts, EdgeStep DEF Master
  <2>1. Owner[u] \in Host
    BY DInvParts
  <2>2. CASE Owner[u] = h
    <3>1. dirty[Master(u)]
      BY <1>1, <1>3, <2>2 DEF Pending
    <3> QED BY <1>1, <3>1 DEF Pending, Master
  <2>3. CASE Owner[u] # h
    BY <1>1, <1>3, <2>1, <2>3 DEF Pending, Master
  <2> QED BY <2>2, <2>3
<1> QED BY <1>4, <1>5, <1>6

\* A task of a host reads or compares a distance, or ends: R are the tasks it
\* leaves.  It leaves no edge behind that is not relaxed.
LEMMA TaskDInv ==
  ASSUME DInv, NEW h \in Host, NEW t \in DOMAIN work[h], NEW R,
         UNCHANGED <<graph, data, dirty, phase, running, scan, task, count, list, toRead, local,
                     active, searches, src>>,
         \A g \in Host : g # h => work'[g] = work[g],
         IsABag(work'[h]), DOMAIN work'[h] \subseteq DOMAIN work[h] \cup R, R \subseteq DOMAIN work'[h],
         \A z \in DOMAIN work[h] : z # t => z \in DOMAIN work'[h],
         \A u \in R : u.v = t.v /\ ReachedBy(h, u),
         \A v \in Vertex :
           /\ <<t.v, v>> \in edges /\ Owner[t.v] = h
           /\ t.pc = "start" \/ (v \in t.todo /\ t.dist <= data[Master(t.v)] + 1)
           => \/ Relaxed(t.v, v)
              \/ \E u \in R : u.pc = "start" \/ (v \in u.todo /\ u.dist <= data[Master(t.v)] + 1)
  PROVE  StartInv' /\ LowInv' /\ EdgeInv'
<1>0. IInv /\ StartInv /\ LowInv /\ EdgeInv /\ WorkInv /\ ListsInv /\ LocalType
  BY DInvParts
<1>1. Mirrors' = Mirrors /\ Copies' = Copies /\ edges' = edges
  BY GraphSame
<1>2. StartInv'
  BY <1>0, <1>1 DEF StartInv, Master
<1>3. LowInv'
  <2>1. \A c \in Copies : WalkTo(c)'
    BY <1>0, WalkToSame DEF LowInv
  <2>2. \A m \in Mirrors : task'[m].pc \in {"func", "compare"} => data'[To(m)'] <= task'[m].old
    BY <1>0 DEF LowInv, To, Master
  <2>3. ASSUME NEW g \in Host, NEW r \in DOMAIN work'[g] PROVE ReachedBy(g, r)'
    <3>1. ReachedBy(g, r)
      BY <1>0 DEF LowInv
    <3>2. \A d : Walk(r.dist, d)' <=> Walk(r.dist, d)
      BY WalkSame
    <3> QED BY <3>1, <3>2 DEF ReachedBy
  <2> QED BY <1>0, <1>1, <2>1, <2>2, <2>3 DEF LowInv
<1>4. EdgeInv'
  <2> SUFFICES ASSUME NEW u \in Vertex, NEW v \in Vertex, <<u, v>> \in edges, Pending(u, v)
               PROVE  Pending(u, v)' \/ Relaxed(u, v)'
    BY DInvParts, EdgeStep DEF Master
  <2>1. Owner[u] \in Host
    BY DInvParts
  <2>2. CASE ~ \E z \in DOMAIN work[Owner[u]] :
                 /\ z.v = u
                 /\ z.pc = "start" \/ (v \in z.todo /\ z.dist <= data[Master(u)] + 1)
    <3>1. CASE phase = "reduce" /\ Changed(u)
      BY <1>1, <3>1 DEF Pending, Changed, Master
    <3> QED BY <2>2, <3>1 DEF Pending, Master
  <2>3. ASSUME NEW z \in DOMAIN work[Owner[u]], z.v = u,
               z.pc = "start" \/ (v \in z.todo /\ z.dist <= data[Master(u)] + 1)
        PROVE  Pending(u, v)' \/ Relaxed(u, v)'
    <3>1. CASE z \in DOMAIN work'[Owner[u]]
      BY <2>3, <3>1 DEF Pending, Master
    <3>2. CASE z \notin DOMAIN work'[Owner[u]]
      <4>1. Owner[u] = h /\ z = t
        BY <2>1, <2>3, <3>2
      <4>2. CASE Relaxed(u, v)
        BY <4>2 DEF Relaxed, Master
      <4>3. CASE ~Relaxed(u, v)
        <5>1. PICK r \in R : r.pc = "start" \/ (v \in r.todo /\ r.dist <= data[Master(u)] + 1)
          BY <2>3, <4>1, <4>3
        <5>2. r.v = u /\ r \in DOMAIN work'[Owner[u]]
          BY <2>3, <4>1
        <5> QED BY <5>1, <5>2 DEF Pending, Master
      <4> QED BY <4>2, <4>3
    <3> QED BY <3>1, <3>2
  <2> QED BY <2>2, <2>3
<1> QED BY <1>2, <1>3, <1>4

\* One task of a host for another.
LEMMA BecomeDInv ==
  ASSUME DInv, NEW h \in Host, NEW t \in DOMAIN work[h], NEW u, Become(h, t, u),
         UNCHANGED <<graph, copies, phase, tasks, lists, local, ready, search>>,
         u.v = t.v, ReachedBy(h, u),
         \A v \in Vertex :
           /\ <<t.v, v>> \in edges /\ Owner[t.v] = h
           /\ t.pc = "start" \/ (v \in t.todo /\ t.dist <= data[Master(t.v)] + 1)
           => \/ Relaxed(t.v, v)
              \/ v \in u.todo /\ u.dist <= data[Master(t.v)] + 1
  PROVE  StartInv' /\ LowInv' /\ EdgeInv'
<1>1. /\ work' = [work EXCEPT ![h] = Replace(@, t, u)]
      /\ UNCHANGED <<graph, data, dirty, phase, running, scan, task, count, list, toRead,
                     local, active, searches, src>>
  BY DEF Become, copies, tasks, lists, search
<1>2. /\ \A g \in Host : g # h => work'[g] = work[g]
      /\ work'[h] = Replace(work[h], t, u)
  BY <1>1, DInvParts DEF LocalType
<1>3. IsABag(work[h])
  BY DInvParts DEF StartInv
<1>4. /\ IsABag(work'[h]) /\ u \in DOMAIN work'[h]
      /\ \A z \in DOMAIN work[h] : z # t => z \in DOMAIN work'[h]
  BY <1>2, <1>3, BagReplaceKeeps
<1>5. DOMAIN work'[h] \subseteq DOMAIN work[h] \cup {u}
  BY <1>2, BagReplace
<1>6. PICK R : R = {u}
  OBVIOUS
<1>7. \A v \in Vertex :
           /\ <<t.v, v>> \in edges /\ Owner[t.v] = h
           /\ t.pc = "start" \/ (v \in t.todo /\ t.dist <= data[Master(t.v)] + 1)
           => \/ Relaxed(t.v, v)
              \/ \E r \in R : r.pc = "start" \/ (v \in r.todo /\ r.dist <= data[Master(t.v)] + 1)
  BY <1>6
<1>8. /\ DOMAIN work'[h] \subseteq DOMAIN work[h] \cup R /\ R \subseteq DOMAIN work'[h]
      /\ \A r \in R : r.v = t.v /\ ReachedBy(h, r)
  BY <1>4, <1>5, <1>6
<1> QED BY <1>1, <1>2, <1>4, <1>7, <1>8, TaskDInv

\* A task reads a distance, which is not the largest: one more is no overflow, and
\* its neighbours can be reached with it.
LEMMA ReadDistanceDInv ==
  ASSUME DInv, NEW h \in Host, NEW t \in DOMAIN work[h], readDistance(h, t)
  PROVE  StartInv' /\ LowInv' /\ EdgeInv'
<1>0. LowInv /\ WorkInv /\ MaxData \in Nat /\ SyncType
  BY DInvParts
<1>1. PICK c : c = <<t.v, h>>
  OBVIOUS
<1>2. PICK u : u = [t EXCEPT !.pc = "edges", !.dist = (data[c] + 1) % (MaxData + 1),
                             !.todo = Neighbours(c)]
  OBVIOUS
<1>3. t \in WorkRecord /\ c \in Copies /\ t.v \in Vertex
  BY <1>0, <1>1 DEF WorkInv, WorkOK, WorkRecord
<1>4. /\ t.pc = "start" /\ Become(h, t, u)
      /\ UNCHANGED <<graph, copies, phase, tasks, lists, local, ready, search>>
  BY <1>1, <1>2 DEF readDistance
<1>5. data[c] \in Nat /\ data[c] < MaxData /\ Walk(data[c], t.v)
  <2>1. data[c] \in Nat
    BY <1>3, DInvParts
  <2>2. data[c] < MaxData
    BY <1>0, <1>1 DEF LowInv, ReachedBy
  <2> QED BY <1>0, <1>1, <1>3, <2>1, <2>2 DEF LowInv, WalkTo
<1>6. (data[c] + 1) % (MaxData + 1) = data[c] + 1
  BY <1>0, <1>5
<1>7. /\ u.v = t.v /\ u.pc = "edges" /\ u.todo = Neighbours(c) /\ u.dist = data[c] + 1
  BY <1>2, <1>3, <1>6 DEF WorkRecord
<1>8. \A e \in edges : e \in Vertex \X Vertex
  BY <1>0, GraphAssumption DEF SyncType
<1>9. ReachedBy(h, u)
  <2>1. ASSUME NEW d \in Neighbours(c) PROVE Walk(data[c] + 1, d)
    <3>1. PICK e \in edges : e[2] = d /\ Master(e[1]) = c
      BY <2>1 DEF Neighbours
    <3>2. e = <<t.v, d>> /\ d \in Vertex
      BY <1>1, <1>8, <3>1 DEF Master
    <3> QED BY <1>5, <3>1, <3>2, WalkMore
  <2> QED BY <1>1, <1>5, <1>7, <2>1 DEF ReachedBy
<1>10. ASSUME NEW v \in Vertex, <<t.v, v>> \in edges, Owner[t.v] = h
       PROVE  v \in u.todo /\ u.dist <= data[Master(t.v)] + 1
  <2>1. Master(t.v) = c
    BY <1>1, <1>10 DEF Master
  <2>2. v \in Neighbours(c)
    BY <1>10, <2>1 DEF Neighbours
  <2> QED BY <1>5, <1>7, <2>1, <2>2
<1> QED BY <1>4, <1>7, <1>9, <1>10, BecomeDInv

\* A task compares: the edge it leaves out is relaxed.
LEMMA InspectDInv ==
  ASSUME DInv, NEW h \in Host, NEW t \in DOMAIN work[h], inspect(h, t)
  PROVE  StartInv' /\ LowInv' /\ EdgeInv'
<1>0. LowInv /\ WorkInv /\ MaxData \in Nat /\ SyncType
  BY DInvParts
<1>1. PICK d : d = Least(t.todo)
  OBVIOUS
<1>2. PICK u : u = IF data[<<d, h>>] > t.dist THEN [t EXCEPT !.pc = "relax"]
                                              ELSE [t EXCEPT !.todo = @ \ {d}]
  OBVIOUS
<1>3. /\ t \in WorkRecord /\ <<t.v, h>> \in Copies /\ t.todo \subseteq Destinations(h)
      /\ t.pc = "edges" /\ t.todo # {} /\ t.v \in Vertex
  BY <1>0 DEF WorkInv, WorkOK, WorkRecord, inspect
<1>4. /\ Become(h, t, u)
      /\ UNCHANGED <<graph, copies, phase, tasks, lists, local, ready, search>>
  BY <1>1, <1>2 DEF inspect
<1>5. d \in t.todo /\ <<d, h>> \in Copies
  <2>1. t.todo \in SUBSET Nat
    BY <1>3, GraphAssumption DEF WorkRecord
  <2>2. d \in t.todo
    BY <1>1, <1>3, <2>1, LeastIn
  <2> QED BY <1>0, <1>3, <2>2, DestinationCopy DEF SyncType
<1>6. data[<<d, h>>] \in Nat /\ data[<<d, h>>] <= MaxData /\ t.dist \in Nat
  BY <1>3, <1>5, DInvParts DEF WorkRecord
<1>7. u.v = t.v /\ u.dist = t.dist
  BY <1>2, <1>3 DEF WorkRecord
<1>8. ReachedBy(h, t)
  BY <1>0 DEF LowInv
<1>9. CASE data[<<d, h>>] > t.dist
  <2>1. u.pc = "relax" /\ u.todo = t.todo
    BY <1>2, <1>3, <1>9 DEF WorkRecord
  <2>2. t.dist < MaxData
    BY <1>0, <1>6, <1>9
  <2>3. ReachedBy(h, u)
    BY <1>3, <1>7, <1>8, <2>1, <2>2 DEF ReachedBy
  <2> QED BY <1>3, <1>4, <1>7, <2>1, <2>3, BecomeDInv
<1>10. CASE ~(data[<<d, h>>] > t.dist)
  <2>1. u.pc = "edges" /\ u.todo = t.todo \ {d}
    BY <1>2, <1>3, <1>10 DEF WorkRecord
  <2>2. ReachedBy(h, u)
    BY <1>3, <1>7, <1>8, <2>1 DEF ReachedBy
  <2>3. ASSUME NEW v \in Vertex, <<t.v, v>> \in edges, Owner[t.v] = h,
               v \in t.todo, t.dist <= data[Master(t.v)] + 1
        PROVE  Relaxed(t.v, v) \/ (v \in u.todo /\ u.dist <= data[Master(t.v)] + 1)
    <3>1. CASE v = d
      <4>1. data[Master(t.v)] \in Nat
        BY <1>3, DInvParts
      <4>2. data[<<d, h>>] <= data[Master(t.v)] + 1
        BY <1>6, <1>10, <2>3, <4>1
      <4> QED BY <2>3, <3>1, <4>2 DEF Relaxed
    <3>2. CASE v # d
      BY <1>7, <2>1, <2>3, <3>2
    <3> QED BY <3>1, <3>2
  <2> QED BY <1>3, <1>4, <1>7, <2>2, <2>3, BecomeDInv
<1> QED BY <1>9, <1>10

\* A task ends, with no edge left.
LEMMA EndTaskDInv ==
  ASSUME DInv, NEW h \in Host, NEW t \in DOMAIN work[h], endTask(h, t)
  PROVE  StartInv' /\ LowInv' /\ EdgeInv'
<1>1. /\ t.pc = "edges" /\ t.todo = {}
      /\ work' = [work EXCEPT ![h] = @ (-) SetToBag({t})]
      /\ UNCHANGED <<graph, data, dirty, phase, running, scan, task, count, list, toRead,
                     local, active, searches, src>>
  BY DEF endTask, copies, tasks, lists, search
<1>2. /\ \A g \in Host : g # h => work'[g] = work[g]
      /\ work'[h] = work[h] (-) SetToBag({t})
  BY <1>1, DInvParts DEF LocalType
<1>3. IsABag(work[h])
  BY DInvParts DEF StartInv
<1>4. /\ IsABag(work'[h])
      /\ \A z \in DOMAIN work[h] : z # t => z \in DOMAIN work'[h]
  BY <1>2, <1>3, BagRemoveKeeps
<1>5. DOMAIN work'[h] \subseteq DOMAIN work[h]
  BY <1>2, BagRemove
<1>6. PICK R : R = {}
  OBVIOUS
<1>7. /\ DOMAIN work'[h] \subseteq DOMAIN work[h] \cup R /\ R \subseteq DOMAIN work'[h]
      /\ \A r \in R : r.v = t.v /\ ReachedBy(h, r)
  BY <1>5, <1>6
<1>8. \A v \in Vertex :
           /\ <<t.v, v>> \in edges /\ Owner[t.v] = h
           /\ t.pc = "start" \/ (v \in t.todo /\ t.dist <= data[Master(t.v)] + 1)
           => \/ Relaxed(t.v, v)
              \/ \E r \in R : r.pc = "start" \/ (v \in r.todo /\ r.dist <= data[Master(t.v)] + 1)
  BY <1>1
<1> QED BY <1>1, <1>2, <1>4, <1>7, <1>8, TaskDInv

\* A task improves a copy and marks it: the edge is relaxed, and those of the
\* vertex of the copy, if it is a master, are pending.
LEMMA RelaxDInv ==
  ASSUME DInv, NEW h \in Host, NEW t \in DOMAIN work[h], relax(h, t)
  PROVE  StartInv' /\ LowInv' /\ EdgeInv'
<1>0. StartInv /\ LowInv /\ EdgeInv /\ WorkInv /\ ListsInv /\ LocalType /\ SyncType /\ MaxData \in Nat
  BY DInvParts
<1>1. PICK d : d = Least(t.todo)
  OBVIOUS
<1>2. PICK u : u = [t EXCEPT !.pc = "edges", !.todo = @ \ {d}, !.pushed = TRUE]
  OBVIOUS
<1>3. PICK c : c = <<d, h>>
  OBVIOUS
<1>4. /\ t.pc = "relax"
      /\ data' = [data EXCEPT ![c] = updateData(t.dist, @)]
      /\ list' = [list EXCEPT ![h][1 - toRead[h]] = Add(@, d)]
      /\ dirty' = [dirty EXCEPT ![c] = TRUE]
      /\ work' = [work EXCEPT ![h] = Replace(@, t, u)]
      /\ UNCHANGED <<graph, phase, running, scan, task, count, toRead, local, ready,
                     active, searches, src>>
  BY <1>1, <1>2, <1>3 DEF relax, Become, tasks, search
<1>5. /\ t \in WorkRecord /\ <<t.v, h>> \in Copies /\ t.todo \subseteq Destinations(h)
      /\ t.todo # {} /\ t.v \in Vertex
  BY <1>0, <1>4 DEF WorkInv, WorkOK, WorkRecord
<1>6. d \in t.todo /\ c \in Copies /\ c[1] = d /\ c[2] = h
  <2>1. t.todo \in SUBSET Nat
    BY <1>5, GraphAssumption DEF WorkRecord
  <2>2. d \in t.todo
    BY <1>1, <1>5, <2>1, LeastIn
  <2> QED BY <1>0, <1>3, <1>5, <2>2, DestinationCopy DEF SyncType
<1>7. Mirrors' = Mirrors /\ Copies' = Copies /\ edges' = edges
  BY <1>4, GraphSame
<1>8. /\ \A x \in Copies : x # c => data'[x] = data[x] /\ dirty'[x] = dirty[x]
      /\ data'[c] <= data[c] /\ data'[c] <= t.dist /\ dirty'[c]
      /\ data'[c] = data[c] \/ data'[c] = t.dist
      /\ \A x \in Copies : data[x] \in Nat /\ data'[x] \in Nat /\ data'[x] <= data[x]
      /\ t.dist \in Nat
  BY <1>0, <1>4, <1>5, <1>6 DEF SyncType, WorkRecord, updateData
<1>9. phase = "local" /\ local[h] = "tasks"
  BY <1>0, BagEmpty DEF WorkInv, LocalType
<1>10. /\ \A g \in Host, i \in {0, 1} :
            list'[g][i] = IF g = h /\ i = 1 - toRead[h] THEN Add(list[g][i], d) ELSE list[g][i]
  <2>1. toRead[h] \in {0, 1}
    BY <1>0 DEF LocalType
  <2>2. 1 - toRead[h] \in {0, 1}
    BY <2>1
  <2> QED BY <1>0, <1>4, <2>2 DEF LocalType
<1>11. \A g \in Host : g # h => work'[g] = work[g]
  BY <1>0, <1>4 DEF LocalType
<1>12. /\ IsABag(work'[h]) /\ u \in DOMAIN work'[h]
       /\ DOMAIN work'[h] \subseteq DOMAIN work[h] \cup {u}
       /\ \A z \in DOMAIN work[h] : z # t => z \in DOMAIN work'[h]
  <2>1. IsABag(work[h]) /\ work'[h] = Replace(work[h], t, u)
    BY <1>0, <1>4 DEF LocalType, StartInv
  <2>2. /\ IsABag(Replace(work[h], t, u)) /\ u \in DOMAIN Replace(work[h], t, u)
        /\ \A z \in DOMAIN work[h] : z # t => z \in DOMAIN Replace(work[h], t, u)
    BY <2>1, BagReplaceKeeps
  <2>3. DOMAIN Replace(work[h], t, u) \subseteq DOMAIN work[h] \cup {u}
    BY BagReplace
  <2> QED BY <2>1, <2>2, <2>3
<1>13. u.v = t.v /\ u.pc = "edges" /\ u.todo = t.todo \ {d} /\ u.dist = t.dist
  BY <1>2, <1>5 DEF WorkRecord
<1>14. ReachedBy(h, t) /\ t.dist < MaxData /\ \A x \in t.todo : Walk(t.dist, x)
  BY <1>0, <1>4 DEF LowInv, ReachedBy
<1>15. data'[c] < MaxData
  BY <1>0, <1>6, <1>8, <1>14
<1>16. StartInv'
  <2>1. searches # 0 /\ src \in Vertex /\ searches \in Nat
    BY <1>0, <1>9 DEF StartInv, LocalType
  <2>2. data[Master(src)] = 0 /\ Master(src) \in Copies
    BY <1>0, <2>1, DInvParts DEF StartInv
  <2>3. data'[Master(src)] = 0
    BY <1>8, <2>2
  <2> QED BY <1>0, <1>4, <1>11, <1>12, <2>1, <2>3 DEF StartInv, Master
<1>17. LowInv'
  <2>1. ASSUME NEW x \in Copies PROVE (dirty'[x] => data'[x] < MaxData) /\ WalkTo(x)'
    <3>1. WalkTo(x) /\ (dirty[x] => data[x] < MaxData)
      BY <1>0 DEF LowInv
    <3>2. CASE data'[x] = data[x]
      <4>1. WalkTo(x)'
        BY <1>4, <3>1, <3>2, WalkToSame
      <4> QED BY <1>8, <1>15, <3>1, <3>2, <4>1
    <3>3. CASE data'[x] # data[x]
      <4>1. x = c /\ data'[x] = t.dist
        BY <1>8, <3>3
      <4>2. Walk(t.dist, d)
        BY <1>6, <1>14
      <4>3. Walk(t.dist, d)'
        BY <1>4, <4>2, WalkSame
      <4> QED BY <1>6, <1>15, <4>1, <4>3 DEF WalkTo, Walk
    <3> QED BY <3>2, <3>3
  <2>2. \A m \in Mirrors : task'[m].pc \notin {"func", "compare"}
    BY <1>0, <1>4, <1>9, DInvParts, IInvParts DEF SyncInv, Tasks
  <2>3. ASSUME NEW g \in Host, NEW i \in {0, 1}, NEW v \in DOMAIN list'[g][i]
        PROVE  data'[<<v, g>>] < MaxData
    <3>0. IsABag(list[g][i])
      BY <1>0 DEF ListsInv
    <3>1. DOMAIN Add(list[g][i], d) = DOMAIN list[g][i] \cup {d}
      BY <3>0, BagAdd
    <3>2. CASE v \in DOMAIN list[g][i]
      <4>1. <<v, g>> \in Copies /\ data[<<v, g>>] < MaxData
        BY <1>0, <3>2 DEF ListsInv, LowInv
      <4> QED BY <1>0, <1>8, <4>1
    <3>3. CASE v \notin DOMAIN list[g][i]
      <4>1. v = d /\ g = h
        BY <1>10, <3>1, <3>3
      <4> QED BY <1>3, <1>15, <4>1
    <3> QED BY <3>2, <3>3
  <2>4. ASSUME NEW g \in Host, NEW r \in DOMAIN work'[g] PROVE ReachedBy(g, r)'
    <3>1. PICK q \in DOMAIN work[g] : /\ r.v = q.v /\ r.dist = q.dist /\ r.todo \subseteq q.todo
                                      /\ (r.pc = q.pc \/ (q.pc # "start" /\ r.pc = "edges"))
      BY <1>4, <1>11, <1>12, <1>13
    <3>2. ReachedBy(g, q) /\ <<q.v, g>> \in Copies
      BY <1>0 DEF LowInv, WorkInv, WorkOK
    <3>3. data'[<<q.v, g>>] < MaxData
      BY <1>0, <1>8, <3>2 DEF ReachedBy
    <3>4. \A x : Walk(r.dist, x)' <=> Walk(r.dist, x)
      BY <1>4, WalkSame
    <3> QED BY <3>1, <3>2, <3>3, <3>4 DEF ReachedBy
  <2> QED BY <1>4, <1>7, <2>1, <2>2, <2>3, <2>4 DEF LowInv
<1>18. EdgeInv'
  <2> SUFFICES ASSUME NEW a \in Vertex, NEW v \in Vertex, <<a, v>> \in edges
               PROVE  /\ data'[Master(a)] # data[Master(a)] => Pending(a, v)'
                      /\ Pending(a, v) => Pending(a, v)' \/ Relaxed(a, v)'
    BY <1>4, <1>8, EdgeStep
  <2>1. Owner[a] \in Host /\ Master(a) \in Copies /\ <<v, Owner[a]>> \in Copies
    BY DInvParts
  <2>2. CASE dirty'[Master(a)]
    BY <2>2 DEF Pending, Master
  <2>3. CASE ~dirty'[Master(a)]
    <3>1. Master(a) # c /\ data'[Master(a)] = data[Master(a)] /\ dirty'[Master(a)] = dirty[Master(a)]
      BY <1>8, <2>1, <2>3
    <3>2. ASSUME Pending(a, v) PROVE Pending(a, v)' \/ Relaxed(a, v)'
      <4>1. CASE local[Owner[a]] = "round" /\ a \in DOMAIN list[Owner[a]][toRead[Owner[a]]]
        <5>1. Owner[a] # h /\ toRead[Owner[a]] \in {0, 1}
          BY <1>0, <1>9, <2>1, <4>1 DEF LocalType
        <5> QED BY <1>4, <1>10, <2>1, <4>1, <5>1 DEF Pending
      <4>2. ASSUME NEW z \in DOMAIN work[Owner[a]], z.v = a,
                   z.pc = "start" \/ (v \in z.todo /\ z.dist <= data[Master(a)] + 1)
            PROVE  Pending(a, v)' \/ Relaxed(a, v)'
        <5>1. CASE z \in DOMAIN work'[Owner[a]]
          BY <3>1, <4>2, <5>1 DEF Pending, Master
        <5>2. CASE z \notin DOMAIN work'[Owner[a]]
          <6>1. Owner[a] = h /\ z = t /\ v \in t.todo /\ t.dist <= data[Master(a)] + 1
            BY <1>4, <1>11, <1>12, <2>1, <4>2, <5>2
          <6>2. CASE v = d
            <7>1. data'[<<v, Owner[a]>>] <= data'[Master(a)] + 1
              <8>1. data'[c] <= t.dist /\ t.dist <= data'[Master(a)] + 1
                BY <1>8, <3>1, <6>1
              <8>2. data'[c] \in Nat /\ t.dist \in Nat /\ data'[Master(a)] \in Nat
                BY <1>6, <1>8, <2>1
              <8>3. <<v, Owner[a]>> = c
                BY <1>3, <6>1, <6>2
              <8> QED BY <8>1, <8>2, <8>3
            <7> QED BY <7>1 DEF Relaxed, Master
          <6>3. CASE v # d
            <7>1. u \in DOMAIN work'[Owner[a]] /\ u.v = a /\ v \in u.todo
              BY <1>12, <1>13, <4>2, <6>1, <6>3
            <7>2. u.dist <= data'[Master(a)] + 1
              BY <1>13, <3>1, <6>1
            <7> QED BY <7>1, <7>2 DEF Pending, Master
          <6> QED BY <6>2, <6>3
        <5> QED BY <5>1, <5>2
      <4> QED BY <1>9, <2>3, <3>1, <3>2, <4>1, <4>2 DEF Pending
    <3> QED BY <3>1, <3>2
  <2> QED BY <2>2, <2>3
<1> QED BY <1>16, <1>17, <1>18

\* Nothing changes.
LEMMA StutterDInv ==
  ASSUME DInv, UNCHANGED vars
  PROVE  StartInv' /\ LowInv' /\ EdgeInv'
<1>0. StartInv /\ LowInv /\ EdgeInv
  BY DInvParts
<1>1. UNCHANGED <<graph, data, dirty, phase, running, scan, task, count, list, toRead, local,
                  ready, work, active, searches, src>>
  BY DEF vars, copies, tasks, lists, hosts, search
<1>2. Mirrors' = Mirrors /\ Copies' = Copies /\ edges' = edges
  BY <1>1, GraphSame
<1>3. StartInv'
  BY <1>0, <1>1, <1>2 DEF StartInv, Master
<1>4. LowInv'
  <2>1. \A c \in Copies : WalkTo(c)'
    BY <1>0, <1>1, WalkToSame DEF LowInv
  <2>2. \A m \in Mirrors : task'[m].pc \in {"func", "compare"} => data'[To(m)'] <= task'[m].old
    BY <1>0, <1>1 DEF LowInv, To, Master
  <2>3. ASSUME NEW g \in Host, NEW t \in DOMAIN work'[g] PROVE ReachedBy(g, t)'
    <3>1. ReachedBy(g, t)
      BY <1>0, <1>1 DEF LowInv
    <3>2. \A d : Walk(t.dist, d)' <=> Walk(t.dist, d)
      BY <1>1, WalkSame
    <3> QED BY <1>1, <3>1, <3>2 DEF ReachedBy
  <2> QED BY <1>0, <1>1, <1>2, <2>1, <2>2, <2>3 DEF LowInv
<1>5. EdgeInv'
  <2> SUFFICES ASSUME NEW u \in Vertex, NEW v \in Vertex, Pending(u, v)
               PROVE  Pending(u, v)'
    BY <1>1, DInvParts, EdgeStep DEF Master
  <2>1. CASE phase = "reduce" /\ Changed(u)
    BY <1>1, <1>2, <2>1 DEF Pending, Changed, Master
  <2> QED BY <1>1, <2>1 DEF Pending, Master
<1> QED BY <1>3, <1>4, <1>5

\* Every step preserves the invariant of the distances, if there is one search.
LEMMA NextDInv ==
  ASSUME Searches <= 1, DInv, [Next]_vars
  PROVE  DInv'
<1>1. IInv'
  BY DInvParts, NextIInv
<1>2. CASE \E s \in Vertex : SSSPMDLCSR(s)
  BY <1>1, <1>2, SearchDInv DEF DInv
<1>3. CASE Program
  BY <1>1, <1>3, IterateDInv, UpdateActiveDInv DEF Program, DInv
<1>4. CASE Sync
  BY <1>1, <1>4, SyncDInv DEF DInv
<1>5. CASE finished \/ UNCHANGED vars
  BY <1>1, <1>5, StutterDInv DEF finished, DInv
<1>6. ASSUME NEW h \in Host, LocalStep(h) PROVE DInv'
  <2>1. CASE startRound(h) \/ endRound(h)
    BY <1>1, <2>1, StartRoundDInv, EndRoundDInv DEF DInv
  <2>2. CASE Functor(h)
    BY <1>1, <2>2, ReadDistanceDInv, InspectDInv, RelaxDInv, EndTaskDInv DEF Functor, DInv
  <2> QED BY <1>6, <2>1, <2>2 DEF LocalStep
<1> QED BY <1>2, <1>3, <1>4, <1>5, <1>6 DEF Next

\* The invariant of the distances.
LEMMA DistanceInvariance ==
  ASSUME Searches <= 1
  PROVE  Spec => []DInv
<1>1. DInv /\ [Next]_vars => DInv'
  BY NextDInv
<1> QED BY <1>1, InitDInv, PTL DEF Spec

\* In a search, no task is for a copy that has not been reached: one more than a
\* distance that is read is not an overflow.
THEOREM AllReached ==
  ASSUME Searches <= 1
  PROVE  Spec => []Reached
<1>1. DInv => Reached
  BY DEF DInv, LowInv, ReachedBy, Reached
<1> QED BY <1>1, DistanceInvariance, PTL

-----------------------------------------------------------------------------
(***************************************************************************)
(* Walks, and the distance that Distance computes.                         *)
(***************************************************************************)
\* A vertex that is reached in no step is the source; one reached in k + 1 steps
\* was reached in k, or comes after one that was.
LEMMA WalkNone ==
  ASSUME NEW v, Walk(0, v)
  PROVE  v = src
  BY DEF Walk

\* One step less.
LEMMA WalkLess ==
  ASSUME NEW k \in Nat \ {0}, NEW v, Walk(k, v)
  PROVE  \E u \in Vertex : Walk(k - 1, u) /\ (u = v \/ <<u, v>> \in edges)
<1>1. PICK p \in [0 .. k -> Vertex] :
        /\ p[0] = src /\ p[k] = v
        /\ \A i \in 0 .. k - 1 : p[i] = p[i + 1] \/ <<p[i], p[i + 1]>> \in edges
  BY DEF Walk
<1> DEFINE q == [i \in 0 .. k - 1 |-> p[i]]
<1>2. q \in [0 .. k - 1 -> Vertex] /\ q[0] = src /\ q[k - 1] = p[k - 1] /\ p[k - 1] \in Vertex
  BY <1>1
<1>3. ASSUME NEW i \in 0 .. (k - 1) - 1
      PROVE  q[i] = q[i + 1] \/ <<q[i], q[i + 1]>> \in edges
  <2>1. i \in 0 .. k - 1 /\ i + 1 \in 0 .. k - 1
    OBVIOUS
  <2>2. q[i] = p[i] /\ q[i + 1] = p[i + 1]
    BY <2>1
  <2> QED BY <1>1, <2>1, <2>2
<1> HIDE DEF q
<1>4. Walk(k - 1, p[k - 1])
  BY <1>2, <1>3 DEF Walk
<1>5. p[k - 1] = v \/ <<p[k - 1], v>> \in edges
  <2>1. k - 1 \in 0 .. k - 1 /\ (k - 1) + 1 = k
    OBVIOUS
  <2> QED BY <1>1, <2>1
<1> QED BY <1>2, <1>4, <1>5

\* A walk that comes to a vertex twice can do without what is between.
LEMMA WalkShort ==
  ASSUME NEW k \in Nat, NEW v, NEW p \in [0 .. k -> Vertex], p[0] = src, p[k] = v,
         \A i \in 0 .. k - 1 : p[i] = p[i + 1] \/ <<p[i], p[i + 1]>> \in edges,
         NEW a \in 0 .. k, NEW b \in 0 .. k, a < b, p[a] = p[b]
  PROVE  k - (b - a) \in Nat /\ k - (b - a) < k /\ Walk(k - (b - a), v)
<1>1. PICK n : n = k - (b - a)
  OBVIOUS
<1>2. n \in Nat /\ n < k /\ a <= n /\ \A i \in 0 .. n : i \in 0 .. k /\ (i > a => i + (b - a) \in 0 .. k)
  BY <1>1
<1> DEFINE q == [i \in 0 .. n |-> IF i <= a THEN p[i] ELSE p[i + (b - a)]]
<1>3. q \in [0 .. n -> Vertex] /\ q[0] = src
  BY <1>2
<1>4. q[n] = v
  <2>1. CASE n = a
    <3>1. b = k
      BY <1>1, <2>1
    <3> QED BY <1>2, <2>1, <3>1
  <2>2. CASE n # a
    <3>1. n > a /\ n + (b - a) = k /\ n \in 0 .. n
      BY <1>1, <1>2, <2>2
    <3> QED BY <3>1
  <2> QED BY <2>1, <2>2
<1>5. ASSUME NEW i \in 0 .. n - 1
      PROVE  q[i] = q[i + 1] \/ <<q[i], q[i + 1]>> \in edges
  <2>0. i \in 0 .. n /\ i + 1 \in 0 .. n /\ i \in Nat
    BY <1>2
  <2>1. CASE i < a
    <3>1. q[i] = p[i] /\ q[i + 1] = p[i + 1] /\ i \in 0 .. k - 1
      BY <1>2, <2>0, <2>1
    <3> QED BY <3>1
  <2>2. CASE i = a
    <3>1. q[i] = p[b] /\ q[i + 1] = p[(i + 1) + (b - a)] /\ (i + 1) + (b - a) = b + 1
      BY <1>2, <2>0, <2>2
    <3>2. b \in 0 .. k - 1
      BY <1>1, <1>2, <2>2
    <3> QED BY <3>1, <3>2
  <2>3. CASE i > a
    <3>1. PICK j : j = i + (b - a)
      OBVIOUS
    <3>2. j \in 0 .. k - 1 /\ (i + 1) + (b - a) = j + 1
      BY <1>1, <1>2, <3>1, <2>3, <2>0
    <3>3. q[i] = p[j] /\ q[i + 1] = p[j + 1]
      BY <1>2, <2>0, <2>3, <3>1, <3>2
    <3> QED BY <3>2, <3>3
  <2> QED BY <2>0, <2>1, <2>2, <2>3
<1> HIDE DEF q
<1>6. Walk(n, v)
  BY <1>3, <1>4, <1>5 DEF Walk
<1> QED BY <1>1, <1>2, <1>6

\* What can be reached can be reached in fewer steps than there are vertices.
LEMMA WalkBound ==
  ASSUME NEW k \in Nat, NEW v, Walk(k, v)
  PROVE  \E n \in 0 .. Cardinality(Vertex) : Walk(n, v)
<1> DEFINE S == {n \in Nat : Walk(n, v)}
<1>1. PICK n \in S : \A x \in S : n <= x
  <2>1. S \in SUBSET Nat /\ S # {}
    OBVIOUS
  <2> QED BY <2>1, LeastNumber
<1>2. n \in Nat /\ Walk(n, v) /\ \A x \in Nat : Walk(x, v) => n <= x
  BY <1>1
<1>3. Cardinality(Vertex) \in Nat /\ IsFiniteSet(Vertex)
  BY GraphAssumption, FS_CardinalityType
<1>4. PICK p \in [0 .. n -> Vertex] :
        /\ p[0] = src /\ p[n] = v
        /\ \A i \in 0 .. n - 1 : p[i] = p[i + 1] \/ <<p[i], p[i + 1]>> \in edges
  BY <1>2 DEF Walk
<1>5. ASSUME n > Cardinality(Vertex) PROVE FALSE
  <2>1. IsFiniteSet(0 .. n) /\ Cardinality(0 .. n) = n + 1
    BY <1>2, FS_Interval
  <2>2. Cardinality(Vertex) < Cardinality(0 .. n)
    BY <1>2, <1>3, <1>5, <2>1
  <2>3. PICK x, y \in 0 .. n : x # y /\ p[x] = p[y]
    BY <1>3, <2>1, <2>2, FS_PigeonHole
  <2>4. PICK a \in 0 .. n, b \in 0 .. n : a < b /\ p[a] = p[b]
    <3>1. x < y \/ y < x
      BY <2>3
    <3> QED BY <2>3, <3>1
  <2>5. n - (b - a) \in Nat /\ n - (b - a) < n /\ Walk(n - (b - a), v)
    BY <1>2, <1>4, <2>4, WalkShort
  <2>6. n <= n - (b - a)
    BY <1>2, <2>5
  <2> QED BY <1>2, <2>5, <2>6
<1> QED BY <1>2, <1>3, <1>5

\* The sets that Distance computes are the vertices that can be reached.
Steps == 0 .. Cardinality(Vertex)
ReachSets == [k \in Steps |-> {v \in Vertex : Walk(k, v)}]
Extend(S) == S \cup {e[2] : e \in {x \in edges : x[1] \in S}}
IsReach(f) == f = [k \in Steps |-> IF k = 0 THEN {src} ELSE Extend(f[k - 1])]

\* They satisfy the recursion of Distance,
LEMMA ReachExists ==
  ASSUME src \in Vertex, edges \in Graphs
  PROVE  IsReach(ReachSets)
<1> DEFINE f == ReachSets
           After(k) == Extend(f[k - 1])
<1>0. Cardinality(Vertex) \in Nat /\ \A e \in edges : e \in Vertex \X Vertex
  BY GraphAssumption, FS_CardinalityType
<1>1. \A k \in Steps : f[k] = {v \in Vertex : Walk(k, v)}
  BY DEF ReachSets
<1>2. ASSUME NEW k \in Steps, k = 0 PROVE f[k] = {src}
  <2>1. Walk(0, src)
    BY WalkZero
  <2>2. \A v : Walk(0, v) => v = src
    BY WalkNone
  <2> QED BY <1>1, <1>2, <2>1, <2>2
<1>3. ASSUME NEW k \in Steps, k # 0 PROVE f[k] = After(k)
  <2>1. k \in Nat \ {0} /\ k - 1 \in Steps /\ k - 1 \in Nat /\ (k - 1) + 1 = k
    BY <1>0, <1>3 DEF Steps
  <2>2. f[k - 1] = {v \in Vertex : Walk(k - 1, v)}
    BY <1>1, <2>1
  <2>3. ASSUME NEW v \in f[k] PROVE v \in After(k)
    <3>1. v \in Vertex /\ Walk(k, v)
      BY <1>1, <1>3
    <3>2. PICK u \in Vertex : Walk(k - 1, u) /\ (u = v \/ <<u, v>> \in edges)
      BY <2>1, <3>1, WalkLess
    <3>3. u \in f[k - 1]
      BY <2>2, <3>2
    <3>4. CASE <<u, v>> \in edges
      <4>1. <<u, v>> \in {x \in edges : x[1] \in f[k - 1]} /\ <<u, v>>[2] = v
        BY <3>3, <3>4
      <4> QED BY <4>1 DEF Extend
    <3> QED BY <3>2, <3>3, <3>4 DEF Extend
  <2>4. ASSUME NEW v \in After(k) PROVE v \in f[k]
    <3>1. CASE v \in f[k - 1]
      <4>1. v \in Vertex /\ Walk(k - 1, v)
        BY <2>2, <3>1
      <4>2. Walk((k - 1) + 1, v)
        BY <2>1, <4>1, WalkMore
      <4> QED BY <1>1, <1>3, <2>1, <4>1, <4>2
    <3>2. CASE v \notin f[k - 1]
      <4>1. PICK e \in edges : e[1] \in f[k - 1] /\ e[2] = v
        BY <2>4, <3>2 DEF Extend
      <4>2. e = <<e[1], v>> /\ v \in Vertex
        BY <1>0, <4>1
      <4>3. Walk(k - 1, e[1])
        BY <2>2, <4>1
      <4>4. Walk((k - 1) + 1, v)
        BY <2>1, <4>2, <4>3, WalkMore
      <4> QED BY <1>1, <1>3, <2>1, <4>2, <4>4
    <3> QED BY <3>1, <3>2
  <2> QED BY <2>3, <2>4
<1>4. f = [k \in Steps |-> f[k]]
  BY DEF ReachSets
<1> HIDE DEF f
<1>5. f = [k \in Steps |-> IF k = 0 THEN {src} ELSE After(k)]
  BY <1>2, <1>3, <1>4
<1> QED BY <1>5 DEF IsReach, f

\* and nothing else does: two solutions would first differ at some k.
LEMMA ReachUnique ==
  ASSUME src \in Vertex, edges \in Graphs, NEW f, IsReach(f)
  PROVE  f = ReachSets
<1> DEFINE r == ReachSets
           D == {k \in Steps : f[k] # r[k]}
<1>0. Cardinality(Vertex) \in Nat /\ IsReach(r)
  BY GraphAssumption, FS_CardinalityType, ReachExists
<1>1. /\ f = [k \in Steps |-> f[k]] /\ r = [k \in Steps |-> r[k]]
      /\ \A k \in Steps : k = 0 => f[k] = {src} /\ r[k] = {src}
      /\ \A k \in Steps : k # 0 =>
           f[k] = Extend(f[k - 1]) /\ r[k] = Extend(r[k - 1])
  BY <1>0 DEF IsReach
<1> HIDE DEF r
<1>2. ASSUME D # {} PROVE FALSE
  <2>1. D \in SUBSET Nat
    BY <1>0 DEF Steps
  <2>2. PICK k \in D : \A x \in D : k <= x
    BY <1>2, <2>1, LeastNumber
  <2>3. k # 0
    BY <1>1, <2>2
  <2>4. k - 1 \in Steps /\ ~(k <= k - 1)
    BY <1>0, <2>2, <2>3 DEF Steps
  <2>5. f[k - 1] = r[k - 1]
    BY <2>2, <2>4
  <2> QED BY <1>1, <2>2, <2>3, <2>5
<1> QED BY <1>1, <1>2 DEF r

\* Distance is the least number of steps, if there is one.
LEMMA DistanceIs ==
  ASSUME src \in Vertex, edges \in Graphs, NEW v \in Vertex
  PROVE  Distance(v) = LET S == {k \in Steps : Walk(k, v)}
                       IN IF S = {} THEN MaxData ELSE Least(S)
<1>1. PICK f : f = CHOOSE Reach :
        Reach = [k \in 0 .. Cardinality(Vertex) |->
                   IF k = 0 THEN {src}
                   ELSE Reach[k - 1] \cup {e[2] : e \in {x \in edges : x[1] \in Reach[k - 1]}}]
  OBVIOUS
<1>2. f = ReachSets
  <2>1. IsReach(f)
    BY <1>1, ReachExists, ZenonT(60) DEF IsReach, Steps, Extend
  <2> QED BY <2>1, ReachUnique
<1>3. Distance(v) = LET Near == {k \in DOMAIN f : v \in f[k]}
                    IN IF Near = {} THEN MaxData ELSE Least(Near)
  BY <1>1 DEF Distance
<1>4. {k \in DOMAIN f : v \in f[k]} = {k \in Steps : Walk(k, v)}
  BY <1>2 DEF ReachSets
<1> QED BY <1>3, <1>4

-----------------------------------------------------------------------------
(***************************************************************************)
(* The result of a search.                                                 *)
(***************************************************************************)
\* When the search is over, no edge is pending: the master of a vertex is at most
\* one above that of the vertex before it.
LEMMA SearchOver ==
  ASSUME DInv, phase = "user",
         NEW u \in Vertex, NEW v \in Vertex, <<u, v>> \in edges, data[Master(u)] < MaxData
  PROVE  data[Master(v)] <= data[Master(u)] + 1
<1>0. /\ SyncType /\ WorkInv /\ EdgeInv /\ ValueInv /\ Owner[u] \in Host
      /\ Master(u) \in Copies /\ Master(v) \in Copies /\ <<v, Owner[u]>> \in Copies
  BY DInvParts, IInvParts
<1>1. data[Master(u)] \in Nat /\ data[Master(v)] \in Nat /\ data[<<v, Owner[u]>>] \in Nat
  BY <1>0, DInvParts
<1>2. /\ ~dirty[Master(u)] /\ local[Owner[u]] = "over" /\ DOMAIN work[Owner[u]] = {}
  BY <1>0, BagEmpty DEF ValueInv, WorkInv
<1>3. ~Pending(u, v)
  BY <1>2 DEF Pending
<1>4. data[<<v, Owner[u]>>] <= data[Master(u)] + 1
  BY <1>0, <1>3 DEF EdgeInv, Relaxed
<1>5. data[Master(v)] <= data[<<v, Owner[u]>>]
  <2>1. CASE Owner[v] = Owner[u]
    BY <1>1, <2>1 DEF Master
  <2>2. CASE Owner[v] # Owner[u]
    <3>1. <<v, Owner[u]>> \in Mirrors
      BY <1>0, <2>2 DEF Copies, Masters, Master
    <3> QED BY <1>0, <3>1 DEF ValueInv
  <2> QED BY <2>1, <2>2
<1> QED BY <1>1, <1>4, <1>5

\* So no walk is shorter than the distance of its last vertex.
LEMMA NoShorterWalk ==
  ASSUME DInv, phase = "user", searches > 0, NEW k \in Nat, k < MaxData, NEW v, Walk(k, v)
  PROVE  data[Master(v)] <= k
<1>0. /\ MaxData \in Nat /\ data[Master(src)] = 0
      /\ \A x \in Vertex : data[Master(x)] \in Nat
  BY DInvParts DEF StartInv
<1>1. PICK p \in [0 .. k -> Vertex] :
        /\ p[0] = src /\ p[k] = v
        /\ \A i \in 0 .. k - 1 : p[i] = p[i + 1] \/ <<p[i], p[i + 1]>> \in edges
  BY DEF Walk
<1> DEFINE S == {i \in 0 .. k : ~(data[Master(p[i])] <= i)}
<1>2. ASSUME S # {} PROVE FALSE
  <2>1. PICK i \in S : \A j \in S : i <= j
    <3>1. S \in SUBSET Nat
      OBVIOUS
    <3> QED BY <1>2, <3>1, LeastNumber
  <2>2. i # 0
    BY <1>0, <1>1, <2>1
  <2>3. PICK j : j = i - 1
    OBVIOUS
  <2>4. j \in 0 .. k - 1 /\ j + 1 = i /\ j \in 0 .. k /\ ~(i <= j) /\ j \in Nat
    BY <2>1, <2>2, <2>3
  <2>5. data[Master(p[j])] <= j
    BY <2>1, <2>4
  <2>6. p[j] \in Vertex /\ p[i] \in Vertex /\ (p[j] = p[i] \/ <<p[j], p[i]>> \in edges)
    BY <1>1, <2>1, <2>4
  <2>7. data[Master(p[j])] \in Nat /\ data[Master(p[i])] \in Nat
    BY <1>0, <2>6
  <2>8. data[Master(p[i])] <= data[Master(p[j])] + 1
    <3>1. CASE p[j] = p[i]
      BY <2>7, <3>1
    <3>2. CASE <<p[j], p[i]>> \in edges
      <4>1. data[Master(p[j])] < MaxData
        BY <1>0, <2>4, <2>5, <2>7
      <4> QED BY <2>6, <3>2, <4>1, SearchOver
    <3> QED BY <2>6, <3>1, <3>2
  <2>9. data[Master(p[i])] <= i
    BY <2>4, <2>5, <2>7, <2>8
  <2> QED BY <2>1, <2>9
<1>3. k \in 0 .. k
  OBVIOUS
<1> QED BY <1>1, <1>2, <1>3

\* The distances are right when the search is over.
LEMMA DInvDistances ==
  ASSUME Cardinality(Vertex) <= MaxData, DInv
  PROVE  Distances
<1> SUFFICES ASSUME phase = "user", searches > 0, NEW v \in Vertex
             PROVE  data[Master(v)] = Distance(v)
  BY DEF Distances
<1>0. /\ MaxData \in Nat /\ src \in Vertex /\ edges \in Graphs /\ LowInv
      /\ Master(v) \in Copies /\ Cardinality(Vertex) \in Nat
  BY DInvParts, GraphAssumption, FS_CardinalityType DEF LocalType, SyncType
<1>1. PICK n : n = data[Master(v)]
  OBVIOUS
<1>2. n \in Nat /\ n <= MaxData
  BY <1>0, <1>1, DInvParts
<1>3. n < MaxData => Walk(n, v)
  <2>1. WalkTo(Master(v)) /\ Master(v)[1] = v
    BY <1>0 DEF LowInv, Master
  <2> QED BY <1>1, <2>1 DEF WalkTo
<1>4. \A k \in Nat : k < MaxData /\ Walk(k, v) => n <= k
  BY <1>1, NoShorterWalk
<1> DEFINE S == {k \in Steps : Walk(k, v)}
<1>5. S \in SUBSET Nat /\ \A k \in Steps : k \in Nat /\ k <= Cardinality(Vertex)
  BY <1>0 DEF Steps
<1>6. Distance(v) = IF S = {} THEN MaxData ELSE Least(S)
  BY <1>0, DistanceIs
<1>7. CASE S = {}
  <2>1. ~(n < MaxData)
    <3> SUFFICES ASSUME n < MaxData PROVE FALSE
      OBVIOUS
    <3>1. \E k \in 0 .. Cardinality(Vertex) : Walk(k, v)
      BY <1>2, <1>3, WalkBound
    <3> QED BY <1>7, <3>1 DEF Steps
  <2> QED BY <1>0, <1>1, <1>2, <1>6, <1>7, <2>1
<1>8. CASE S # {}
  <2>1. PICK m : m = Least(S)
    OBVIOUS
  <2>2. m \in S /\ \A k \in S : m <= k
    BY <1>5, <1>8, <2>1, LeastIn
  <2>3. m \in Nat /\ m <= Cardinality(Vertex) /\ Walk(m, v)
    BY <1>5, <2>2
  <2>4. n <= m
    <3>1. CASE m < MaxData
      BY <1>4, <2>3, <3>1
    <3>2. CASE ~(m < MaxData)
      BY <1>0, <1>2, <2>3, <3>2
    <3> QED BY <3>1, <3>2
  <2>5. ~(n < m)
    <3> SUFFICES ASSUME n < m PROVE FALSE
      OBVIOUS
    <3>1. n < MaxData /\ n \in Steps
      BY <1>0, <1>2, <2>3 DEF Steps
    <3>2. n \in S
      BY <1>3, <3>1
    <3> QED BY <1>2, <2>2, <2>3, <3>2
  <2>6. n = m
    BY <1>2, <2>3, <2>4, <2>5
  <2> QED BY <1>1, <1>6, <1>8, <2>1, <2>6
<1> QED BY <1>7, <1>8

\* When the search has returned, the master of every vertex has the length of a
\* shortest path from the source, or the largest word if there is none, whatever
\* the graph, the placement of the vertices and the order of the tasks of the
\* hosts and of sync. There are at most MaxData vertices: a distance is a word.
THEOREM ShortestPaths ==
  ASSUME Searches <= 1, Cardinality(Vertex) <= MaxData
  PROVE  Spec => []Distances
<1>1. DInv => Distances
  BY DInvDistances
<1> QED BY <1>1, DistanceInvariance, PTL
=============================================================================
