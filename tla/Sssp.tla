-------------------------------- MODULE Sssp --------------------------------
(***************************************************************************)
(* Single-source shortest paths of the BFS benchmark on the mirrored graph *)
(* (SSSPMDLCSR), on top of MirrorSync.                                     *)
(*                                                                         *)
(* The program repeats: on every host a loop (MDLCSRLocal) relaxes the     *)
(* edges of the vertices in the host's work list, one task for each entry, *)
(* pushing the copies it improves to a second list and swapping the lists, *)
(* until a round in which no task reports a vertex it could not improve    *)
(* anything from; sync reduces the mirrors to their masters; and every     *)
(* marked master starts the next iteration.  It ends when no master is     *)
(* marked.  The lists outlive the search.                                  *)
(*                                                                         *)
(* The work lists of the harts of a host are one bag.  Distances are       *)
(* words: one above the largest is zero.                                   *)
(*                                                                         *)
(* SSSPMDLCSR calls sync without BROADCAST; the search is right with it,   *)
(* the default, too, so both are states the module begins in.              *)
(***************************************************************************)
EXTENDS MirrorSync, Bags

CONSTANT
  Searches  \* number of calls of SSSPMDLCSR

ASSUME SearchesAssumption == Searches \in Nat

VARIABLES
  list,      \* the two work lists of each host: 0 is toRead of the program
  toRead,    \* which of them MDLCSRLocal reads
  local,     \* what MDLCSRLocal does on each host
  ready,     \* its flag
  work,      \* its tasks, a bag
  active,    \* a master was marked
  searches,  \* searches begun
  src        \* source of the last search

lists == <<list, toRead>>
hosts == <<local, ready, work>>
search == <<active, searches, src>>
vars == <<graph, copies, phase, tasks, lists, hosts, search>>

Add(bag, x) == bag (+) SetToBag({x})
Replace(bag, x, y) == (bag (-) SetToBag({x})) (+) SetToBag({y})

\* Edges are on the host of their source; the mirrors have none.
Neighbours(c) == {e[2] : e \in {x \in edges : Master(x[1]) = c}}
Least(S) == CHOOSE x \in S : \A y \in S : x <= y

Init ==
  /\ edges \in Graphs /\ broadcasts \in BOOLEAN
  /\ data = [c \in Copies |-> MaxData] /\ dirty = [c \in Copies |-> FALSE]
  /\ phase = "user"
  /\ running = {} /\ scan = [h \in Host |-> {}]
  /\ task = [m \in Mirrors |-> NoTask] /\ count = 0
  /\ list = [h \in Host |-> [i \in {0, 1} |-> EmptyBag]]
  /\ toRead = [h \in Host |-> 0]
  /\ local = [h \in Host |-> "over"] /\ ready = [h \in Host |-> FALSE]
  /\ work = [h \in Host |-> EmptyBag]
  /\ active = FALSE /\ searches = 0 /\ src \in Vertex

(***************************************************************************)
(* The program.                                                            *)
(***************************************************************************)
\* Every copy is set to the largest value, those of the source to zero, and
\* the host of the source has it in its list.
SSSPMDLCSR(s) ==
  /\ phase = "user" /\ searches < Searches
  /\ data' = [c \in Copies |-> IF c[1] = s THEN 0 ELSE MaxData]
  /\ list' = [list EXCEPT ![Owner[s]][0] = Add(@, s)]
  /\ active' = TRUE
  /\ searches' = searches + 1 /\ src' = s
  /\ phase' = "loop"
  /\ UNCHANGED <<graph, dirty, tasks, toRead, hosts>>

\* A task for every host, which runs MDLCSRLocal.
iterate ==
  /\ phase = "loop" /\ active
  /\ active' = FALSE
  /\ toRead' = [h \in Host |-> 0]
  /\ local' = [h \in Host |-> "round"]
  /\ phase' = "local"
  /\ UNCHANGED <<graph, copies, tasks, list, ready, work, searches, src>>

\* The tasks of all hosts are over: sync.
localOver ==
  /\ phase = "local"
  /\ \A h \in Host : local[h] = "over"
  /\ phase' = "sync"
  /\ UNCHANGED <<graph, copies, tasks, lists, hosts, search>>

\* The marked masters of a host.
Marked(h) == {v \in Vertex : Owner[v] = h /\ dirty[Master(v)]}

\* Mutant: the vertex after the marked one.
MutantUpdateActive ==
  LET Later(h) == {v \in Vertex : Owner[v] = h /\ v - 1 \in Vertex /\ dirty[Master(v - 1)]} IN
  /\ phase = "synced"
  /\ list' = [h \in Host |-> [list[h] EXCEPT ![0] = @ (+) SetToBag(Later(h))]]
  /\ active' = \E h \in Host : Later(h) # {}
  /\ dirty' = [c \in Copies |-> FALSE]
  /\ phase' = "loop"
  /\ UNCHANGED <<graph, data, tasks, toRead, hosts, searches, src>>

\* They go into the list of the host; then resetBitSets.
updateActive ==
  /\ phase = "synced"
  /\ list' = [h \in Host |-> [list[h] EXCEPT ![0] = @ (+) SetToBag(Marked(h))]]
  /\ active' = \E h \in Host : Marked(h) # {}
  /\ dirty' = [c \in Copies |-> FALSE]
  /\ phase' = "loop"
  /\ UNCHANGED <<graph, data, tasks, toRead, hosts, searches, src>>

return ==
  /\ phase = "loop" /\ ~active
  /\ phase' = "user"
  /\ UNCHANGED <<graph, copies, tasks, lists, hosts, search>>

finished == phase = "user" /\ searches = Searches /\ UNCHANGED vars

(***************************************************************************)
(* MDLCSRLocal on host h.                                                  *)
(***************************************************************************)
\* A round: the list that is read becomes tasks, and is cleared.
startRound(h) ==
  LET entries == list[h][toRead[h]]
      Task(v) == [v |-> v, pc |-> "start", dist |-> 0, todo |-> {}, pushed |-> FALSE]
  IN
  /\ local[h] = "round"
  /\ ready' = [ready EXCEPT ![h] = TRUE]
  /\ work' = [work EXCEPT ![h] = [t \in {Task(v) : v \in DOMAIN entries} |-> entries[t.v]]]
  /\ list' = [list EXCEPT ![h][toRead[h]] = EmptyBag]
  /\ local' = [local EXCEPT ![h] = "tasks"]
  /\ UNCHANGED <<graph, copies, phase, tasks, toRead, search>>

\* All tasks are done: swap the lists; another round unless ready.
endRound(h) ==
  /\ local[h] = "tasks" /\ work[h] = EmptyBag
  /\ toRead' = [toRead EXCEPT ![h] = 1 - @]
  /\ local' = [local EXCEPT ![h] = IF ready[h] THEN "over" ELSE "round"]
  /\ UNCHANGED <<graph, copies, phase, tasks, list, ready, work, search>>

(***************************************************************************)
(* SSSPFunctor, task t of host h.                                          *)
(***************************************************************************)
Become(h, t, u) == work' = [work EXCEPT ![h] = Replace(@, t, u)]

readDistance(h, t) ==
  LET c == <<t.v, h>> IN
  /\ t.pc = "start"
  /\ Become(h, t, [t EXCEPT !.pc = "edges", !.dist = (data[c] + 1) % (MaxData + 1),
                            !.todo = Neighbours(c)])
  /\ UNCHANGED <<graph, copies, phase, tasks, lists, local, ready, search>>

\* The next edge: is the destination farther away?
inspect(h, t) ==
  /\ t.pc = "edges" /\ t.todo # {}
  /\ LET d == Least(t.todo) IN
       Become(h, t, IF data[<<d, h>>] > t.dist THEN [t EXCEPT !.pc = "relax"]
                                               ELSE [t EXCEPT !.todo = @ \ {d}])
  /\ UNCHANGED <<graph, copies, phase, tasks, lists, local, ready, search>>

\* Mutant: a mirror is not marked.
MutantRelax(h, t) ==
  LET d == Least(t.todo) IN
  /\ t.pc = "relax"
  /\ data' = [data EXCEPT ![<<d, h>>] = updateData(t.dist, @)]
  /\ list' = [list EXCEPT ![h][1 - toRead[h]] = Add(@, d)]
  /\ dirty' = [dirty EXCEPT ![<<d, h>>] = @ \/ Owner[d] = h]
  /\ Become(h, t, [t EXCEPT !.pc = "edges", !.todo = @ \ {d}, !.pushed = TRUE])
  /\ UNCHANGED <<graph, phase, tasks, toRead, local, ready, search>>

\* Then update it, push it and mark it.
relax(h, t) ==
  LET d == Least(t.todo) IN
  /\ t.pc = "relax"
  /\ data' = [data EXCEPT ![<<d, h>>] = updateData(t.dist, @)]
  /\ list' = [list EXCEPT ![h][1 - toRead[h]] = Add(@, d)]
  /\ dirty' = [dirty EXCEPT ![<<d, h>>] = TRUE]
  /\ Become(h, t, [t EXCEPT !.pc = "edges", !.todo = @ \ {d}, !.pushed = TRUE])
  /\ UNCHANGED <<graph, phase, tasks, toRead, local, ready, search>>

\* The caller clears ready if the vertex improved nothing.
endTask(h, t) ==
  /\ t.pc = "edges" /\ t.todo = {}
  /\ work' = [work EXCEPT ![h] = @ (-) SetToBag({t})]
  /\ ready' = [ready EXCEPT ![h] = @ /\ t.pushed]
  /\ UNCHANGED <<graph, copies, phase, tasks, lists, local, search>>

Functor(h) ==
  \E t \in DOMAIN work[h] :
    readDistance(h, t) \/ inspect(h, t) \/ relax(h, t) \/ endTask(h, t)

Sync == SyncStep /\ UNCHANGED <<lists, hosts, search>>
LocalStep(h) == startRound(h) \/ endRound(h) \/ Functor(h)
Program == iterate \/ localOver \/ updateActive \/ return

Next ==
  \/ \E s \in Vertex : SSSPMDLCSR(s)
  \/ Program \/ Sync \/ finished
  \/ \E h \in Host : LocalStep(h)

Spec == Init /\ [][Next]_vars

\* The tasks of a host and those sent to it are run by its harts.
FairSpec ==
  /\ Spec
  /\ WF_vars(Program) /\ WF_vars(Sync)
  /\ \A h \in Host : WF_vars(LocalStep(h))

(***************************************************************************)
(* Properties.                                                             *)
(***************************************************************************)
TypeOK ==
  /\ SyncTypeOK
  /\ phase \in {"user", "loop", "local", "sync", "reduce", "reduced", "broadcast", "synced"}
  /\ \A h \in Host : \A i \in {0, 1} : IsABag(list[h][i]) /\ DOMAIN list[h][i] \subseteq Vertex
  /\ toRead \in [Host -> {0, 1}]
  /\ local \in [Host -> {"round", "tasks", "over"}] /\ ready \in [Host -> BOOLEAN]
  /\ \A h \in Host : \A t \in DOMAIN work[h] :
       t \in [v : Vertex, pc : {"start", "edges", "relax"}, dist : 0 .. MaxData,
              todo : SUBSET Vertex, pushed : BOOLEAN]
  /\ active \in BOOLEAN /\ searches \in 0 .. Searches /\ src \in Vertex

\* Length of the shortest path from the source to v, by breadth-first search.
Distance(v) ==
  LET Reach[k \in 0 .. Cardinality(Vertex)] ==
        IF k = 0 THEN {src}
                 ELSE Reach[k - 1] \cup {e[2] : e \in {x \in edges : x[1] \in Reach[k - 1]}}
      Near == {k \in DOMAIN Reach : v \in Reach[k]}
  IN IF Near = {} THEN MaxData ELSE Least(Near)

\* When SSSPMDLCSR returns (sssp.hpp:381), every master holds the length of the
\* shortest path from the source: no improvement is lost between the racing tasks
\* of a host, its lists, the mirrors and the masters, even though MDLCSRLocal may
\* stop with vertices in its lists (its flag is cleared by the tasks that improve
\* nothing, sssp.hpp:258) and leaves them to the marked masters.
Distances == (phase = "user" /\ searches > 0) => \A v \in Vertex : data[Master(v)] = Distance(v)

\* No task relaxes the edges of a vertex that has no distance yet: one more than
\* the largest value is zero (sssp.hpp:223).
Reached == \A h \in Host : \A t \in DOMAIN work[h] : data[<<t.v, h>>] < MaxData

\* A search ends (sssp.hpp:326): the loop of each host, the wait groups of sync, and
\* the iterations.
SearchEnds == (phase = "loop") ~> (phase = "user")

=============================================================================
