------------------------------ MODULE ForkJoin ------------------------------
(***************************************************************************)
(* What a WaitGroup promises to the code that waits for it.  A caller      *)
(* opens a group, with some tasks or none, adds tasks to it, and joins it; *)
(* tasks of the group may add tasks too, as long as one of them is alive.  *)
(* The caller goes on only when no task of the group is alive, and from    *)
(* then on the group gets no task until it is opened again.  There are no  *)
(* counters, nodes or harts here.                                          *)
(***************************************************************************)
CONSTANT Task

VARIABLES
  caller,  \* "away", has the group "open", or waits in "join"
  alive    \* the tasks of the group that are not over

vars == <<caller, alive>>

Init == caller = "away" /\ alive = {}

Open ==
  /\ caller = "away" /\ alive = {}
  /\ caller' \in {"open", "join"}
  /\ alive' \subseteq Task

\* The caller may begin to wait in the step in which it adds its last task.
Fork(t) ==
  /\ caller = "open" /\ t \notin alive
  /\ caller' \in {"open", "join"}
  /\ alive' = alive \cup {t}

Spawn(t) ==
  /\ caller # "away" /\ alive # {} /\ t \notin alive
  /\ alive' = alive \cup {t}
  /\ UNCHANGED caller

End(t) ==
  /\ alive' = alive \ {t}
  /\ UNCHANGED caller

Join == caller = "open" /\ caller' = "join" /\ UNCHANGED alive

Leave == caller = "join" /\ alive = {} /\ caller' = "away" /\ UNCHANGED alive

Next ==
  \/ Open
  \/ \E t \in Task : Fork(t) \/ Spawn(t)
  \/ \E t \in alive : End(t)
  \/ Join \/ Leave

Spec == Init /\ [][Next]_vars
=============================================================================
