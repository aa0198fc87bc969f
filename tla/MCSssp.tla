------------------------------- MODULE MCSssp -------------------------------
(***************************************************************************)
(* Five vertices on three hosts; every vertex is a source.                 *)
(***************************************************************************)
EXTENDS Sssp

\* Vertices 0, 1 and 2 on host 0, 3 on host 1, 4 on host 2.
MCOwner == [v \in Vertex |-> IF v < 3 THEN 0 ELSE v - 2]

\* A path with vertices beside it; paths of different lengths that lead to a vertex
\* with mirrors on two hosts; cycles within and across hosts, with a chord.
MCGraphs == {
  {<<0, 1>>, <<1, 3>>},
  {<<0, 1>>, <<1, 2>>, <<2, 4>>, <<0, 3>>, <<3, 4>>, <<4, 1>>},
  {<<0, 1>>, <<0, 2>>, <<1, 2>>, <<2, 0>>, <<2, 3>>, <<1, 4>>, <<4, 3>>, <<3, 0>>}
}

=============================================================================
