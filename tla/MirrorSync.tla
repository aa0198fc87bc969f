----------------------------- MODULE MirrorSync -----------------------------
(***************************************************************************)
(* Data synchronization of the mirrored distributed graph,                 *)
(* MirrorDistLocalCSR.                                                     *)
(*                                                                         *)
(* Every vertex has a master copy on the host that owns it, and a mirror   *)
(* on every other host with an edge to it.  Programs work on the copies of *)
(* their host and mark the ones they change in the host's bit sets.  sync  *)
(* then runs a task on every host: reduce sends the value of every marked  *)
(* mirror to its master, where a task combines it with the master's and    *)
(* marks the master if its value changed; broadcast sends the value of     *)
(* every marked master to all its mirrors.  A wait group counts the tasks  *)
(* of either phase, those created by the tasks of the hosts too; only its  *)
(* count keeps the phases apart.                                           *)
(*                                                                         *)
(* The value of a copy is a number and func is updateData of the BFS       *)
(* benchmark, an atomic minimum.  A status other than success aborts the   *)
(* program (PANDO_CHECK) and is left out.  sync is a phase of the program; *)
(* what comes before and after it is up to the module that extends this.   *)
(***************************************************************************)
EXTENDS Integers, FiniteSets

CONSTANTS
  Host,    \* hosts (nodes), numbers
  Vertex,  \* vertices, numbers
  Owner,   \* Owner[v]: the host that owns v (the virtual to physical host map)
  Graphs,  \* sets of edges <<source, destination>>
  MaxData  \* the largest value, UINT64_MAX

ASSUME GraphAssumption ==
  /\ Host \subseteq Nat /\ Vertex \subseteq Nat
  /\ IsFiniteSet(Host) /\ IsFiniteSet(Vertex)
  /\ Owner \in [Vertex -> Host]
  /\ Graphs \subseteq SUBSET (Vertex \X Vertex)
  /\ MaxData \in Nat \ {0}

VARIABLES
  edges,       \* the graph
  broadcasts,  \* template parameter BROADCAST of sync
  data,        \* value of every copy
  dirty,       \* the bit of every copy in its bit set
  phase,       \* what the program does
  running,     \* hosts whose task has not ended
  scan,        \* mirrors that the task of each host has yet to look at
  task,        \* task for each mirror: its value sent to its master, or back
  count        \* the wait group of the phase

graph == <<edges, broadcasts>>
copies == <<data, dirty>>
tasks == <<running, scan, task, count>>

(***************************************************************************)
(* The copies.  A copy is a pair <<vertex, host>>.                         *)
(***************************************************************************)
Master(v) == <<v, Owner[v]>>
Masters == {Master(v) : v \in Vertex}
Destinations(h) == {e[2] : e \in {x \in edges : Owner[x[1]] = h}}
Mirrors == {c \in Vertex \X Host : c[2] # Owner[c[1]] /\ c[1] \in Destinations(c[2])}
Copies == Masters \cup Mirrors

\* The order of the tables that the tasks of the hosts go through.
First(S) == CHOOSE c \in S : \A d \in S : c[2] < d[2] \/ (c[2] = d[2] /\ c[1] <= d[1])

NoTask == [pc |-> "none", val |-> 0, old |-> 0]

\* Atomic minimum: load, then compare and exchange until it fits.
updateData(val, ref) == IF val < ref THEN val ELSE ref

(***************************************************************************)
(* A phase of sync: a wait group, which counts the task of each host, and  *)
(* the mirrors each of them goes through.                                  *)
(***************************************************************************)
\* Mutant: the wait group starts one short.
MutantStart(p, table) ==
  /\ phase' = p
  /\ running' = Host
  /\ scan' = table
  /\ count' = Cardinality(Host) - 1
  /\ UNCHANGED <<graph, copies, task>>

Start(p, table) ==
  /\ phase' = p
  /\ running' = Host
  /\ scan' = table
  /\ count' = Cardinality(Host)
  /\ UNCHANGED <<graph, copies, task>>

reduce ==
  /\ phase = "sync"
  /\ Start("reduce", [h \in Host |-> {m \in Mirrors : m[2] = h}])

broadcast ==
  /\ phase = "reduced" /\ broadcasts
  /\ Start("broadcast", [h \in Host |-> {m \in Mirrors : Owner[m[1]] = h}])

skipBroadcast ==
  /\ phase = "reduced" /\ ~broadcasts
  /\ phase' = "synced"
  /\ UNCHANGED <<graph, copies, tasks>>

\* wg.wait(); the program goes on.
wait ==
  /\ phase \in {"reduce", "broadcast"}
  /\ count = 0
  /\ phase' = IF phase = "reduce" THEN "reduced" ELSE "synced"
  /\ UNCHANGED <<graph, copies, tasks>>

(***************************************************************************)
(* The task of host h looks at one mirror after the other.  If the copy to *)
(* be sent is marked, it counts a task for it (addOne) and creates it.     *)
(***************************************************************************)
From(m) == IF phase = "reduce" THEN m ELSE Master(m[1])
To(m) == IF phase = "reduce" THEN Master(m[1]) ELSE m

\* Mutant: no addOne.
MutantLook(h) ==
  /\ h \in running /\ scan[h] # {}
  /\ LET m == First(scan[h]) IN
       /\ scan' = [scan EXCEPT ![h] = @ \ {m}]
       /\ task' = IF dirty[From(m)]
                   THEN [task EXCEPT ![m] = [pc |-> "created", val |-> data[From(m)], old |-> 0]]
                   ELSE task
  /\ UNCHANGED <<graph, copies, phase, running, count>>

look(h) ==
  /\ h \in running /\ scan[h] # {}
  /\ LET m == First(scan[h]) IN
       /\ scan' = [scan EXCEPT ![h] = @ \ {m}]
       /\ IF dirty[From(m)]
            THEN /\ count' = count + 1
                 /\ task' = [task EXCEPT ![m] = [pc |-> "created", val |-> data[From(m)], old |-> 0]]
            ELSE UNCHANGED <<count, task>>
  /\ UNCHANGED <<graph, copies, phase, running>>

hostDone(h) ==
  /\ h \in running /\ scan[h] = {}
  /\ running' = running \ {h}
  /\ count' = count - 1
  /\ UNCHANGED <<graph, copies, phase, scan, task>>

(***************************************************************************)
(* The task for mirror m, on the host of the copy it writes to.            *)
(***************************************************************************)
readOld(m) ==
  /\ task[m].pc = "created"
  /\ task' = [task EXCEPT ![m].pc = "func", ![m].old = data[To(m)]]
  /\ UNCHANGED <<graph, copies, phase, running, scan, count>>

apply(m) ==
  /\ task[m].pc = "func"
  /\ data' = [data EXCEPT ![To(m)] = IF phase = "reduce" THEN updateData(task[m].val, @)
                                                        ELSE task[m].val]
  /\ task' = [task EXCEPT ![m].pc = "compare"]
  /\ UNCHANGED <<graph, dirty, phase, running, scan, count>>

\* Mutant: the master is compared with the mirror's value instead of its old one.
MutantCompare(m) ==
  /\ task[m].pc = "compare"
  /\ dirty' = [dirty EXCEPT ![To(m)] = @ \/ data[To(m)] # task[m].val]
  /\ task' = [task EXCEPT ![m].pc = "done"]
  /\ UNCHANGED <<graph, data, phase, running, scan, count>>

compare(m) ==
  /\ task[m].pc = "compare"
  /\ dirty' = [dirty EXCEPT ![To(m)] = @ \/ data[To(m)] # task[m].old]
  /\ task' = [task EXCEPT ![m].pc = "done"]
  /\ UNCHANGED <<graph, data, phase, running, scan, count>>

\* Mutant: only the tasks that marked their copy call done.
MutantDone(m) ==
  /\ task[m].pc = "done"
  /\ task' = [task EXCEPT ![m] = NoTask]
  /\ count' = IF dirty[To(m)] THEN count - 1 ELSE count
  /\ UNCHANGED <<graph, copies, phase, running, scan>>

done(m) ==
  /\ task[m].pc = "done"
  /\ task' = [task EXCEPT ![m] = NoTask]
  /\ count' = count - 1
  /\ UNCHANGED <<graph, copies, phase, running, scan>>

HostStep(h) == look(h) \/ hostDone(h)
TaskStep(m) == readOld(m) \/ apply(m) \/ compare(m) \/ done(m)
SyncStep ==
  \/ reduce \/ broadcast \/ skipBroadcast \/ wait
  \/ \E h \in Host : HostStep(h)
  \/ \E m \in Mirrors : TaskStep(m)

(***************************************************************************)
(* Properties.                                                             *)
(***************************************************************************)
SyncTypeOK ==
  /\ edges \in Graphs /\ broadcasts \in BOOLEAN
  /\ data \in [Copies -> 0 .. MaxData] /\ dirty \in [Copies -> BOOLEAN]
  /\ running \subseteq Host /\ scan \in [Host -> SUBSET Mirrors]
  /\ task \in [Mirrors -> [pc : {"none", "created", "func", "compare", "done"},
                          val : 0 .. MaxData, old : 0 .. MaxData]]
  /\ count \in 0 .. Cardinality(Host) + Cardinality(Mirrors)

\* When sync goes on after the wait for reduce (mirror_dist_local_csr.hpp:625), no
\* task of the phase is left and no master is above one of its mirrors: the value
\* of every changed mirror arrived, whatever the order of the tasks, and the wait
\* group, whose count goes up while it is waited for, was zero only at the end.
Reduced ==
  phase \in {"reduced", "synced"} =>
    /\ running = {} /\ \A m \in Mirrors : task[m] = NoTask
    /\ \A m \in Mirrors : data[Master(m[1])] <= data[m]

\* When sync returns with BROADCAST (mirror_dist_local_csr.hpp:699), all copies of
\* a vertex are equal, although broadcast sends marked masters only and reduce
\* marks a master by comparing two reads of a word other tasks write to.
MirrorsAgree ==
  (phase = "synced" /\ broadcasts) => \A m \in Mirrors : data[m] = data[Master(m[1])]

(***************************************************************************)
(* The wait group of a phase as an abstract group of the tasks of the      *)
(* hosts, <<h>>, and of the mirrors.                                       *)
(***************************************************************************)
Phase == INSTANCE ForkJoin WITH
  Task <- {<<h>> : h \in Host} \cup (Vertex \X Host),
  caller <- IF phase \in {"reduce", "broadcast"} THEN "join" ELSE "away",
  alive <- {<<h>> : h \in running} \cup {m \in Mirrors : task[m].pc # "none"}

\* reduce and broadcast each are a fork and join: tasks are added to the group
\* while the program waits for it (mirror_dist_local_csr.hpp:600, 664), but only
\* by tasks it still counts, and the next phase begins when all are over.
PhasesJoin == Phase!Spec

=============================================================================
