--------------------------- MODULE MCTermination ---------------------------
(***************************************************************************)
(* Programs for the model of task creation and waitAll: which nodes the    *)
(* CPs and the tasks create tasks for.                                     *)
(***************************************************************************)
EXTENDS Termination, TLC

Nowhere == {}
Locally == {<<n, n>> : n \in Node}
Anywhere == Node \X Node

TaskSymmetry == Permutations(Task)
=============================================================================
