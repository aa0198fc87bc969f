---------------------------- MODULE MCPrefixSum ----------------------------
(***************************************************************************)
(* Instances of the parallel prefix sum: up to four workers, with and      *)
(* without left-over elements, chunks of one and of several elements, a    *)
(* lock that is longer than the number of workers, and elements that       *)
(* cannot be divided among the workers.                                    *)
(***************************************************************************)
EXTENDS PrefixSum

\* <<paste.size(), ns>>; with two harts per core half of the slots are used for
\* fewer than eleven elements per worker, and all of them for more.
Divisible == {<<2, 2>>, <<3, 4>>, <<4, 3>>, <<4, 4>>, <<4, 6>>, <<5, 5>>, <<6, 4>>, <<6, 6>>,
              <<6, 7>>, <<8, 6>>, <<8, 9>>, <<2, 33>>}

\* No worker; one with an element left over; as many elements as workers, and fewer.
NotDivisible == {<<1, 3>>, <<2, 3>>, <<2, 1>>, <<4, 2>>, <<6, 2>>, <<4, 0>>}

MCInstances == Divisible \cup NotDivisible

\* One node: a slot per node is one worker, for 23 elements.
OneNode == {<<1, 23>>}

\* A sum of powers of ten shows which elements are in it and how often.
PowersOfTen(i) == 10 ^ (i % 6)
=============================================================================
