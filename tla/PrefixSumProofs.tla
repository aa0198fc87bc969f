---------------------------- MODULE PrefixSumProofs ----------------------------
(***************************************************************************)
(* Proofs about the parallel prefix sum, for any number of workers, of     *)
(* elements, of calls, any source, and whichever workers are refused.      *)
(*                                                                         *)
(* The elements are cut into the chunks of the n workers and a last one,   *)
(* at c[0] = 0 < c[1] < ... < c[n + 1] = ns, and total[i] is the sum of    *)
(* the first i elements of the source.  The inductive invariant says of    *)
(* every element, from what its worker is doing, whether it is the         *)
(* source's, the sum of its chunk up to it or total, and of every word of  *)
(* the lock what paste holds there.  If the elements cannot be divided     *)
(* like this, it is only the type invariant.                               *)
(***************************************************************************)
EXTENDS PrefixSum, NaturalsInduction, WellFoundedInduction, TLAPS

-----------------------------------------------------------------------------
(***************************************************************************)
(* Sums.                                                                   *)
(***************************************************************************)
\* A set of numbers that is not empty has a least element.
LEMMA LeastNumber ==
  ASSUME NEW S \in SUBSET Nat, S # {}
  PROVE  \E x \in S : \A y \in S : x <= y
<1>1. PICK x \in S : \A y \in S : ~(<<y, x>> \in OpToRel(<, Nat))
  BY NatLessThanWellFounded, WFMin
<1>2. ASSUME NEW y \in S, y < x PROVE FALSE
  <2>1. <<y, x>> \in OpToRel(<, Nat)
    BY <1>2, Zenon DEF OpToRel
  <2> QED BY <1>1, <2>1
<1> QED BY <1>2

\* total[i] is the sum of the first i elements of g.
Totals(total, g, k) ==
  /\ total \in [0 .. k -> Int]
  /\ total[0] = 0
  /\ \A i \in 0 .. k - 1 : total[i + 1] = total[i] + g[i]

\* There are such sums.
LEMMA TotalsExist ==
  ASSUME NEW k \in Nat, NEW g \in [0 .. k - 1 -> Int]
  PROVE  \E total : Totals(total, g, k)
<1> DEFINE Bad == {m \in 0 .. k : \A total : ~Totals(total, g, m)}
<1> SUFFICES ASSUME \A total : ~Totals(total, g, k) PROVE FALSE
  OBVIOUS
<1>0. k \in Bad
  OBVIOUS
<1>1. PICK m \in Bad : \A j \in Bad : m <= j
  <2>1. Bad \in SUBSET Nat
    OBVIOUS
  <2> QED BY <1>0, <2>1, LeastNumber
<1>2. m # 0
  <2>1. Totals([i \in 0 .. 0 |-> 0], g, 0)
    BY DEF Totals
  <2> QED BY <1>1, <2>1
<1>3. m - 1 \in 0 .. k /\ m - 1 \notin Bad
  BY <1>1, <1>2
<1>4. PICK t : Totals(t, g, m - 1)
  BY <1>3
<1>5. g[m - 1] \in Int /\ t[m - 1] \in Int /\ m \in Nat \ {0}
  BY <1>1, <1>2, <1>4 DEF Totals
<1>6. PICK u : u = [i \in 0 .. m |-> IF i = m THEN t[m - 1] + g[m - 1] ELSE t[i]]
  OBVIOUS
<1>7. Totals(u, g, m)
  <2>1. u \in [0 .. m -> Int] /\ u[0] = 0
    BY <1>4, <1>5, <1>6 DEF Totals
  <2>2. ASSUME NEW i \in 0 .. m - 1 PROVE u[i + 1] = u[i] + g[i]
    <3>1. CASE i = m - 1
      BY <1>5, <1>6, <3>1
    <3>2. CASE i < m - 1
      BY <1>4, <1>5, <1>6, <3>2 DEF Totals
    <3> QED BY <1>5, <3>1, <3>2
  <2> QED BY <2>1, <2>2 DEF Totals
<1> QED BY <1>1, <1>7

\* What the recursive definition of the reference computes.
LEMMA ReferenceIsTotal ==
  ASSUME ns \in Nat \ {0}, given \in [Elem -> Int], NEW total, Totals(total, given, ns)
  PROVE  \A i \in Elem : Reference[i] = total[i + 1]
<1> DEFINE Sum(f) == [i \in Elem |-> IF i = 0 THEN transmute(given[0])
                                              ELSE scanOp(given[i], f[i - 1])]
<1>1. PICK r : r = [i \in Elem |-> total[i + 1]]
  OBVIOUS
<1>2. r = Sum(r)
  <2>1. ASSUME NEW i \in Elem PROVE r[i] = Sum(r)[i]
    <3>1. CASE i = 0
      BY <1>1, <3>1 DEF Totals, transmute, Elem
    <3>2. CASE i # 0
      <4>1. i - 1 \in Elem /\ (i - 1) + 1 = i /\ i \in 0 .. ns - 1
        BY <3>2 DEF Elem
      <4>2. r[i - 1] = total[i] /\ r[i] = total[i + 1]
        BY <1>1, <4>1
      <4>3. total[i + 1] = total[i] + given[i] /\ total[i] \in Int /\ given[i] \in Int
        BY <4>1 DEF Totals, Elem
      <4> QED BY <3>2, <4>2, <4>3 DEF scanOp
    <3> QED BY <3>1, <3>2
  <2> QED BY <1>1, <2>1
<1>3. Reference = CHOOSE f : f = Sum(f)
  BY DEF Reference
<1>4. Reference = Sum(Reference)
  BY <1>2, <1>3
<1> DEFINE Bad == {i \in Elem : Reference[i] # r[i]}
<1> SUFFICES ASSUME Bad # {} PROVE FALSE
  BY <1>1
<1>5. PICK m \in Bad : \A j \in Bad : m <= j
  <2>1. Bad \in SUBSET Nat
    BY DEF Elem
  <2> QED BY <2>1, LeastNumber
<1>6. m # 0
  BY <1>2, <1>4, <1>5
<1>7. m - 1 \in Elem /\ m - 1 \notin Bad
  BY <1>5, <1>6 DEF Elem
<1>8. Reference[m - 1] = r[m - 1]
  BY <1>7
<1>9. Reference[m] = r[m]
  BY <1>2, <1>4, <1>5, <1>6, <1>8
<1> QED BY <1>5, <1>9

-----------------------------------------------------------------------------
(***************************************************************************)
(* The chunks.                                                             *)
(***************************************************************************)
\* Where k elements are cut for n workers.
Cut(k, n, w) ==
  IF w <= n \div 2 THEN (k \div (n + 1)) * w ELSE (k % (n + 1)) + (k \div (n + 1)) * w

\* Chunk w is c[w] .. c[w + 1] - 1; workers 0 and n - 1 have their own, and the
\* last one is as long as that of worker 0.
Cuts(c, n, k) ==
  /\ c \in [0 .. n + 1 -> Nat]
  /\ c[0] = 0 /\ c[n + 1] = k
  /\ \A u, w \in 0 .. n + 1 : u < w => c[u] < c[w]
  /\ c[1] = k - c[n]

\* Division with remainder.
LEMMA DivMod ==
  ASSUME NEW k \in Nat, NEW q \in Nat \ {0}
  PROVE  /\ k \div q \in Nat /\ k % q \in Nat /\ k % q < q
         /\ k = (k \div q) * q + (k % q)
<1>1. k \div q \in Nat
  OBVIOUS
<1>2. k % q \in 0 .. q - 1
  OBVIOUS
<1>3. k = (k \div q) * q + (k % q)
  OBVIOUS
<1> QED BY <1>1, <1>2, <1>3

\* The cuts of computePrefixSum.
LEMMA CutFacts ==
  ASSUME NEW k \in Nat, NEW n \in Nat, n >= 1, k > n, n = 1 => k % (n + 1) = 0,
         NEW c, c = [w \in 0 .. n + 1 |-> Cut(k, n, w)]
  PROVE  Cuts(c, n, k)
<1> DEFINE d == k \div (n + 1)
           b == k % (n + 1)
           m == n \div 2
<1>1. d \in Nat /\ b \in Nat /\ k = d * (n + 1) + b /\ b <= n
  <2>1. n + 1 \in Nat \ {0}
    OBVIOUS
  <2>2. d \in Nat /\ b \in Nat /\ b < n + 1 /\ k = d * (n + 1) + b
    BY <2>1, DivMod
  <2> HIDE DEF d, b
  <2> QED BY <2>2
<1>2. d >= 1
  <2> SUFFICES ASSUME d = 0 PROVE FALSE
    BY <1>1
  <2> QED BY <1>1
<1>3. m \in Nat /\ m < n /\ (m = 0 => b = 0)
  <2>1. m \in Nat /\ m < n /\ (m = 0 => n = 1)
    OBVIOUS
  <2> QED BY <2>1
<1>4. \A w \in 0 .. n + 1 : c[w] = IF w <= m THEN d * w ELSE b + d * w
  BY DEF Cut
<1> HIDE DEF d, b, m
<1>5. \A w \in 0 .. n + 1 : d * w \in Nat
  BY <1>1
<1>6. \A u, w \in 0 .. n + 1 : u < w => d * u < d * w
  <2> SUFFICES ASSUME NEW u \in 0 .. n + 1, NEW w \in 0 .. n + 1, u < w
               PROVE  d * u < d * w
    OBVIOUS
  <2>1. PICK e \in Nat : w = u + e /\ e >= 1
    <3>1. w - u \in Nat /\ w = u + (w - u) /\ w - u >= 1
      OBVIOUS
    <3> QED BY <3>1
  <2>2. d * w = d * u + d * e
    BY <1>1, <2>1
  <2>3. d * e >= 1 /\ d * e \in Nat /\ d * u \in Nat
    BY <1>1, <1>2, <2>1
  <2> QED BY <2>2, <2>3
<1>7. c \in [0 .. n + 1 -> Nat]
  BY <1>1, <1>4, <1>5
<1>8. \A u, w \in 0 .. n + 1 : u < w => c[u] < c[w]
  <2> SUFFICES ASSUME NEW u \in 0 .. n + 1, NEW w \in 0 .. n + 1, u < w
               PROVE  c[u] < c[w]
    OBVIOUS
  <2>1. d * u < d * w /\ d * u \in Nat /\ d * w \in Nat
    BY <1>5, <1>6
  <2>2. PICK x \in Nat, y \in Nat : x = d * u /\ y = d * w
    BY <2>1
  <2>3. /\ c[u] = (IF u <= m THEN x ELSE b + x) /\ c[w] = (IF w <= m THEN y ELSE b + y)
        /\ x < y
    BY <1>4, <2>1, <2>2
  <2> QED BY <1>1, <1>3, <2>3
<1>9. c[0] = 0
  BY <1>1, <1>3, <1>4
<1>10. c[n + 1] = k
  BY <1>1, <1>3, <1>4
<1>11. c[1] = k - c[n]
  <2>1. c[n] = b + d * n /\ c[1] = d
    <3>1. 1 \in 0 .. n + 1 /\ n \in 0 .. n + 1 /\ d * 1 = d
      BY <1>1
    <3>2. ~(n <= m) /\ (1 <= m \/ m = 0)
      BY <1>3
    <3>3. c[n] = b + d * n
      BY <1>4, <3>1, <3>2
    <3>4. c[1] = IF 1 <= m THEN d ELSE b + d
      BY <1>4, <3>1
    <3>5. m = 0 => b + d = d
      BY <1>1, <1>3
    <3> QED BY <3>2, <3>3, <3>4, <3>5
  <2>2. d * (n + 1) = d * n + d /\ d * n \in Nat
    BY <1>1
  <2> QED BY <1>1, <2>1, <2>2
<1> QED BY <1>7, <1>8, <1>9, <1>10, <1>11 DEF Cuts

\* The chunks of the model lie between the cuts.
LEMMA ChunkFacts ==
  ASSUME ns \in Nat, nt \in Nat, nt >= 1, ns > nt,
         NEW c, c = [w \in 0 .. nt + 1 |-> Cut(ns, nt, w)]
  PROVE  /\ \A w \in Worker : /\ Phase0Ind(w) = c[w] /\ Phase0Sz(w) = c[w + 1] - c[w]
                              /\ Phase2Sz(w) = c[w + 1] - c[w]
                              /\ w # 0 => Phase2Ind(w) = c[w]
         /\ Phase2Ind(0) = c[nt]
<1> DEFINE n == nt
           d == ns \div (n + 1)
           b == ns % (n + 1)
           m == n \div 2
<1>1. d \in Nat /\ b \in Nat /\ ns = d * (n + 1) + b /\ b <= n
  <2>1. n + 1 \in Nat \ {0}
    OBVIOUS
  <2>2. d \in Nat /\ b \in Nat /\ b < n + 1 /\ ns = d * (n + 1) + b
    BY <2>1, DivMod
  <2> HIDE DEF d, b
  <2> QED BY <2>2
<1>2. m \in Nat /\ m < n
  OBVIOUS
<1>3. \A w \in 0 .. n + 1 : c[w] = IF w <= m THEN d * w ELSE b + d * w
  BY DEF Cut
<1>4. /\ \A w : Phase0Sz(w) = (IF w = m THEN d + b ELSE d) /\ Phase2Sz(w) = Phase0Sz(w)
      /\ \A w : Phase0Ind(w) = IF w <= m THEN d * w ELSE b + d * w
      /\ \A w : Phase2Ind(w) = IF w # 0 THEN Phase0Ind(w) ELSE ns - d
      /\ Worker = 0 .. n - 1
  BY DEF Phase0Sz, Phase0Ind, Phase2Sz, Phase2Ind, divSz, bigs, mid, Worker
<1>5. n \in Nat /\ n >= 1
  OBVIOUS
<1> HIDE DEF n, d, b, m
<1>6. ASSUME NEW w \in Worker
      PROVE  Phase0Ind(w) = c[w] /\ Phase0Sz(w) = c[w + 1] - c[w]
  <2>1. w \in 0 .. n + 1 /\ w + 1 \in 0 .. n + 1 /\ w \in Nat
    BY <1>4, <1>5
  <2>2. d * (w + 1) = d * w + d /\ d * w \in Nat
    BY <1>1, <2>1
  <2>3. Phase0Ind(w) = c[w]
    BY <1>3, <1>4, <2>1
  <2>4. Phase0Sz(w) = c[w + 1] - c[w]
    <3>1. PICK x \in Nat : x = d * w
      BY <2>2
    <3>2. /\ c[w] = (IF w <= m THEN x ELSE b + x)
          /\ c[w + 1] = (IF w + 1 <= m THEN x + d ELSE b + (x + d))
      BY <1>3, <2>1, <2>2, <3>1
    <3>3. Phase0Sz(w) = IF w = m THEN d + b ELSE d
      BY <1>4
    <3> QED BY <1>1, <1>2, <2>1, <3>2, <3>3
  <2> QED BY <2>3, <2>4
<1>7. Phase2Ind(0) = c[n]
  <2>1. c[n] = b + d * n
    BY <1>2, <1>3, <1>5
  <2>2. d * (n + 1) = d * n + d /\ d * n \in Nat
    BY <1>1, <1>5
  <2> QED BY <1>1, <1>4, <2>1, <2>2
<1> QED BY <1>4, <1>6, <1>7 DEF n

\* A chunk and its elements.
Chunk(c, w) == c[w] .. c[w + 1] - 1

\* Every element is in one chunk.
LEMMA Covered ==
  ASSUME NEW n \in Nat, NEW k \in Nat, NEW c, Cuts(c, n, k), NEW i \in 0 .. k - 1
  PROVE  \E w \in 0 .. n : i \in Chunk(c, w)
<1> DEFINE S == {w \in 0 .. n : i < c[w + 1]}
<1>1. n \in S
  BY DEF Cuts
<1>2. PICK w \in S : \A j \in S : w <= j
  <2>1. S \in SUBSET Nat
    OBVIOUS
  <2> QED BY <1>1, <2>1, LeastNumber
<1>3. c[w] <= i
  <2>1. CASE w = 0
    BY <2>1 DEF Cuts
  <2>2. CASE w # 0
    <3>1. w - 1 \in 0 .. n /\ w - 1 \notin S /\ (w - 1) + 1 = w
      BY <1>2, <2>2
    <3>2. ~(i < c[w])
      BY <3>1
    <3>3. c[w] \in Nat
      BY DEF Cuts
    <3> QED BY <3>2, <3>3
  <2> QED BY <2>1, <2>2
<1>4. c[w] \in Nat /\ c[w + 1] \in Nat
  BY DEF Cuts
<1> QED BY <1>2, <1>3, <1>4 DEF Chunk

\* Chunks have at least one element, lie in the array and do not meet.
LEMMA ChunksApart ==
  ASSUME NEW n \in Nat, NEW k \in Nat, NEW c, Cuts(c, n, k)
  PROVE  /\ \A w \in 0 .. n : /\ c[w] \in Nat /\ c[w + 1] \in Nat /\ c[w] < c[w + 1]
                              /\ c[w + 1] <= k
                              /\ Chunk(c, w) \subseteq 0 .. k - 1
         /\ \A u, w \in 0 .. n : \A i \in Chunk(c, u) : i \in Chunk(c, w) => u = w
<1>1. ASSUME NEW w \in 0 .. n
      PROVE  /\ c[w] \in Nat /\ c[w + 1] \in Nat /\ c[w] < c[w + 1] /\ c[w + 1] <= k
             /\ Chunk(c, w) \subseteq 0 .. k - 1
  <2>1. w \in 0 .. n + 1 /\ w + 1 \in 0 .. n + 1 /\ w < w + 1
    OBVIOUS
  <2>2. c[w] \in Nat /\ c[w + 1] \in Nat /\ c[w] < c[w + 1]
    BY <2>1 DEF Cuts
  <2>3. c[w + 1] <= k
    BY <2>1, <2>2 DEF Cuts
  <2> QED BY <2>2, <2>3 DEF Chunk
<1>2. ASSUME NEW u \in 0 .. n, NEW w \in 0 .. n, u < w,
             NEW i \in Chunk(c, u), i \in Chunk(c, w)
      PROVE  FALSE
  <2>1. c[u + 1] <= c[w]
    <3>1. u + 1 \in 0 .. n + 1 /\ w \in 0 .. n + 1 /\ (u + 1 = w \/ u + 1 < w)
      BY <1>2
    <3>2. c[u + 1] \in Nat /\ c[w] \in Nat /\ (u + 1 < w => c[u + 1] < c[w])
      BY <3>1 DEF Cuts
    <3> QED BY <3>1, <3>2
  <2>2. c[u] \in Nat /\ c[u + 1] \in Nat /\ c[w] \in Nat /\ c[w + 1] \in Nat
    BY <1>1
  <2> QED BY <1>2, <2>1, <2>2 DEF Chunk
<1> QED BY <1>1, <1>2

-----------------------------------------------------------------------------
(***************************************************************************)
(* The inductive invariant, for n workers, cuts c and totals of the        *)
(* source given.                                                           *)
(***************************************************************************)
\* Worker w has not come to the j-th element of its chunk in phase 0; it has
\* come to it in phase 2.
Raw(w, j) == pc[w] = "phase0" /\ j >= pos[w]
Full(w, j) == pc[w] = "over" \/ (pc[w] = "phase2" /\ j < pos[w])

\* The elements of the chunks of the workers: the source's, then the sum of the
\* chunk up to the element, then that of all elements up to it.
ChunkInv(n, c, total) ==
  \A w \in 0 .. n - 1 : \A i \in Chunk(c, w) :
    /\ Raw(w, i - c[w]) => Source[i] = given[i]
    /\ ~Raw(w, i - c[w]) /\ (w = 0 \/ ~Full(w, i - c[w]))
         => dst[i] = total[i + 1] - total[c[w]]
    /\ w # 0 /\ Full(w, i - c[w]) => dst[i] = total[i + 1]

\* The elements of the last chunk, which is that of worker 0 in phase 2.
LastInv(n, c, total) ==
  \A i \in Chunk(c, n) :
    IF Full(0, i - c[n]) THEN dst[i] = total[i + 1] ELSE Source[i] = given[i]

\* The slots of paste that worker 0 has made prefix sums.
Scanned(n) ==
  IF pc[0] \in {"phase0", "pasted"} THEN 0
  ELSE IF pc[0] \in {"phase1", "scanned"} THEN pos[0]
  ELSE n

\* The lock tells what is in paste.
SlotInv(n, c, total, w) ==
  /\ w < Scanned(n) => /\ lock[w] = 2 /\ paste[w] = total[c[w + 1]]
                       /\ pc[w] \notin {"phase0", "pasted"}
  /\ w >= Scanned(n) => lock[w] = IF pc[w] \in {"phase0", "pasted"} THEN 0 ELSE 1
  /\ w >= Scanned(n) /\ pc[w] # "phase0" =>
       paste[w] = IF pc[0] = "scanned" /\ w = pos[0] THEN total[c[w + 1]]
                  ELSE total[c[w + 1]] - total[c[w]]
LockInv(n, c, total) == \A w \in 0 .. n - 1 : SlotInv(n, c, total, w)

\* Where the workers are, and what they add in phase 2.
WorkerInv(n, c, total) ==
  \A w \in 0 .. n - 1 :
    /\ pc[w] # "none"
    /\ pc[w] \in {"phase0", "phase2"} => pos[w] \in 0 .. c[w + 1] - c[w]
    /\ w = 0 /\ pc[0] = "phase1" => pos[0] \in 0 .. n
    /\ pc[w] = "scanned" => /\ w = 0 /\ pos[0] \in 1 .. n - 1
                            /\ pc[pos[0]] \notin {"phase0", "pasted"}
    /\ pc[w] \in {"phase2", "over"} => val[w] = total[IF w = 0 THEN c[n] ELSE c[w]]

WaitInv(n, c, total) ==
  /\ ChunkInv(n, c, total)
  /\ LastInv(n, c, total)
  /\ LockInv(n, c, total)
  /\ WorkerInv(n, c, total)

\* Workers that were refused are at the beginning for ever.
RefusedInv(n) == \A w \in started .. n - 1 : pc[w] = "phase0" /\ pos[w] = 0

\* Between calls the lock is free, and after one the result is there.
UserInv(total) ==
  /\ \A i \in Slot : lock[i] = 0
  /\ \A w \in Started : pc[w] \in {"none", "over"}
  /\ started > 0 => \A i \in Elem : dst[i] = total[i + 1]

\* The workers, the cuts and the totals of the call.
Frame(n, c, total) ==
  /\ Divides /\ n = nt
  /\ c = [w \in 0 .. nt + 1 |-> Cut(ns, nt, w)]
  /\ Totals(total, given, ns)

Inv(n, c, total) ==
  /\ ~inPlace => src = given
  /\ caller = "wait" => WaitInv(n, c, total) /\ RefusedInv(n)
  /\ caller = "user" => UserInv(total)

IInv ==
  /\ TypeOK
  /\ Divides => stray = {} /\ \E n, c, total : Frame(n, c, total) /\ Inv(n, c, total)

-----------------------------------------------------------------------------
(***************************************************************************)
(* What the steps of the workers start from.                               *)
(***************************************************************************)
Working(n, c, total) ==
  /\ TypeOK
  /\ stray = {}
  /\ Frame(n, c, total)
  /\ WaitInv(n, c, total)

\* The number of workers.
LEMMA WorkerCount ==
  ASSUME TypeOK
  PROVE  size \in Nat /\ ns \in Nat /\ nt \in Nat /\ nt <= size
<1>1. <<size, ns>> \in Instances
  BY DEF TypeOK
<1>2. size \in Nat /\ ns \in Nat
  BY <1>1, InstanceAssumption
<1>3. ThreadDims \in Nat \ {0}
  BY InstanceAssumption
<1>4. size \div ThreadDims \in Nat /\ size \div ThreadDims <= size
  <2>1. /\ size \div ThreadDims \in Nat /\ size % ThreadDims \in Nat
        /\ size = (size \div ThreadDims) * ThreadDims + (size % ThreadDims)
    BY <1>2, <1>3, DivMod
  <2>2. PICK q \in Nat, r \in Nat : q = size \div ThreadDims /\ size = q * ThreadDims + r
    BY <2>1
  <2>3. q <= q * ThreadDims
    BY <1>3, <2>2
  <2> QED BY <1>2, <1>3, <2>2, <2>3
<1>5. nt = size \/ nt = size \div ThreadDims
  BY DEF nt, Workers
<1> QED BY <1>2, <1>4, <1>5

\* Everything that a step needs to know of the frame.
LEMMA FrameFacts ==
  ASSUME NEW n, NEW c, NEW total, TypeOK, Frame(n, c, total)
  PROVE  /\ n \in Nat /\ n >= 1 /\ ns \in Nat /\ ns > n /\ size \in Nat /\ n <= size
         /\ Cuts(c, n, ns)
         /\ Worker = 0 .. n - 1 /\ Elem = 0 .. ns - 1 /\ Slot = 0 .. size - 1
         /\ \A w \in 0 .. n : /\ c[w] \in Nat /\ c[w + 1] \in Nat /\ c[w] < c[w + 1]
                              /\ c[w + 1] <= ns /\ Chunk(c, w) \subseteq Elem
         /\ \A u, w \in 0 .. n : \A i \in Chunk(c, u) : i \in Chunk(c, w) => u = w
         /\ c[0] = 0 /\ c[n + 1] = ns /\ c[1] = ns - c[n]
         /\ \A w \in 0 .. n - 1 : /\ Phase0Ind(w) = c[w] /\ Phase0Sz(w) = c[w + 1] - c[w]
                                  /\ Phase2Sz(w) = c[w + 1] - c[w]
                                  /\ w # 0 => Phase2Ind(w) = c[w]
         /\ Phase2Ind(0) = c[n]
         /\ \A i \in 0 .. ns : total[i] \in Int
         /\ total[0] = 0
         /\ \A i \in Elem : total[i + 1] = total[i] + given[i]
<1>1. n = nt /\ n \in Nat /\ n >= 1 /\ ns \in Nat /\ ns > n /\ size \in Nat /\ n <= size
  BY WorkerCount DEF Frame, Divides
<1>2. c = [w \in 0 .. n + 1 |-> Cut(ns, n, w)]
  BY <1>1 DEF Frame
<1>3. Cuts(c, n, ns)
  <2>1. n = 1 => ns % (n + 1) = 0
    BY <1>1 DEF Frame, Divides, bigs
  <2> QED BY <1>1, <1>2, <2>1, CutFacts
<1>4. Worker = 0 .. n - 1 /\ Elem = 0 .. ns - 1 /\ Slot = 0 .. size - 1
  BY <1>1 DEF Worker, Elem, Slot
<1>5. /\ \A w \in Worker : /\ Phase0Ind(w) = c[w] /\ Phase0Sz(w) = c[w + 1] - c[w]
                           /\ Phase2Sz(w) = c[w + 1] - c[w]
                           /\ w # 0 => Phase2Ind(w) = c[w]
      /\ Phase2Ind(0) = c[n]
  BY <1>1, <1>2, ChunkFacts
<1>6. /\ \A w \in 0 .. n : /\ c[w] \in Nat /\ c[w + 1] \in Nat /\ c[w] < c[w + 1]
                           /\ c[w + 1] <= ns /\ Chunk(c, w) \subseteq Elem
      /\ \A u, w \in 0 .. n : \A i \in Chunk(c, u) : i \in Chunk(c, w) => u = w
  <2>1. ns \in Nat /\ n \in Nat
    BY <1>1
  <2>2. /\ \A w \in 0 .. n : /\ c[w] \in Nat /\ c[w + 1] \in Nat /\ c[w] < c[w + 1]
                             /\ c[w + 1] <= ns /\ Chunk(c, w) \subseteq 0 .. ns - 1
        /\ \A u, w \in 0 .. n : \A i \in Chunk(c, u) : i \in Chunk(c, w) => u = w
    BY <1>3, <2>1, ChunksApart, Zenon
  <2> QED BY <1>4, <2>2, Zenon
<1>7. c[0] = 0 /\ c[n + 1] = ns /\ c[1] = ns - c[n]
  BY <1>3 DEF Cuts
<1>8. /\ \A i \in 0 .. ns : total[i] \in Int
      /\ total[0] = 0
      /\ \A i \in Elem : total[i + 1] = total[i] + given[i]
  BY <1>4 DEF Frame, Totals
<1> QED BY <1>1, <1>3, <1>4, <1>5, <1>6, <1>7, <1>8

\* The sets are the same after a step.
LEMMA SameSets ==
  ASSUME UNCHANGED params
  PROVE  /\ nt' = nt /\ Worker' = Worker /\ Elem' = Elem /\ Slot' = Slot
         /\ Divides' = Divides /\ Started' = Started
<1>1. size' = size /\ ns' = ns /\ started' = started
  BY DEF params
<1>2. nt' = nt
  BY <1>1 DEF nt, Workers
<1> QED BY <1>1, <1>2 DEF Worker, Elem, Slot, Divides, Started, bigs

States == {"none", "phase0", "pasted", "phase1", "scanned", "phase2", "over"}

\* The types, with the sets written out,
LEMMA Typed ==
  ASSUME NEW n, NEW c, NEW total, Working(n, c, total)
  PROVE  /\ pc \in [0 .. n - 1 -> States] /\ pos \in [0 .. n - 1 -> 0 .. ns]
         /\ val \in [0 .. n - 1 -> Int]
         /\ paste \in [0 .. size - 1 -> Int] /\ lock \in [0 .. size - 1 -> 0 .. 2]
         /\ src \in [0 .. ns - 1 -> Int] /\ dst \in [0 .. ns - 1 -> Int]
         /\ given \in [0 .. ns - 1 -> Int]
<1>1. TypeOK /\ Worker = 0 .. n - 1 /\ Elem = 0 .. ns - 1 /\ Slot = 0 .. size - 1
  BY FrameFacts, SMTT(30) DEF Working
<1>2. Divides
  BY DEF Working, Frame
<1> QED BY <1>1, <1>2 DEF TypeOK, States

\* and for the variables a worker changes.
LEMMA TypeNext ==
  ASSUME NEW n, NEW c, NEW total, Working(n, c, total),
         UNCHANGED <<params, src, caller, calls, given>>, stray' = {},
         dst' \in [0 .. ns - 1 -> Int], paste' \in [0 .. size - 1 -> Int],
         lock' \in [0 .. size - 1 -> 0 .. 2], pc' \in [0 .. n - 1 -> States],
         pos' \in [0 .. n - 1 -> 0 .. ns], val' \in [0 .. n - 1 -> Int]
  PROVE  TypeOK'
<1>1. TypeOK /\ Worker = 0 .. n - 1 /\ Elem = 0 .. ns - 1 /\ Slot = 0 .. size - 1
  BY FrameFacts, SMTT(30) DEF Working
<1>2. /\ Worker' = Worker /\ Elem' = Elem /\ Slot' = Slot /\ nt' = nt /\ Divides'
  BY SameSets DEF Working, Frame
<1>3. /\ size' = size /\ ns' = ns /\ inPlace' = inPlace /\ src' = src /\ given' = given
      /\ caller' = caller /\ calls' = calls /\ started' = started
  BY DEF params
<1> QED BY <1>1, <1>2, <1>3 DEF TypeOK, States

-----------------------------------------------------------------------------
(***************************************************************************)
(* Steps that do not write to dst.                                         *)
(***************************************************************************)
LEMMA SameElements ==
  ASSUME NEW n, NEW c, NEW total, Working(n, c, total),
         dst' = dst, src' = src, inPlace' = inPlace, given' = given,
         \A u \in 0 .. n - 1 : \A j \in 0 .. c[u + 1] - c[u] - 1 :
           (Raw(u, j)' <=> Raw(u, j)) /\ (Full(u, j)' <=> Full(u, j))
  PROVE  ChunkInv(n, c, total)' /\ LastInv(n, c, total)'
<1>1. /\ n \in Nat /\ n >= 1 /\ c[0] = 0 /\ c[n + 1] = ns /\ c[1] = ns - c[n]
      /\ \A w \in 0 .. n : c[w] \in Nat /\ c[w + 1] \in Nat
  BY FrameFacts, SMTT(30) DEF Working
<1>2. Source' = Source
  BY DEF Source
<1>3. ASSUME NEW w \in 0 .. n - 1, NEW i \in Chunk(c, w)
      PROVE  /\ Raw(w, i - c[w])' => Source'[i] = given'[i]
             /\ ~Raw(w, i - c[w])' /\ (w = 0 \/ ~Full(w, i - c[w])')
                  => dst'[i] = total[i + 1] - total[c[w]]
             /\ w # 0 /\ Full(w, i - c[w])' => dst'[i] = total[i + 1]
  <2>1. i - c[w] \in 0 .. c[w + 1] - c[w] - 1
    BY <1>1 DEF Chunk
  <2>2. /\ Raw(w, i - c[w])' <=> Raw(w, i - c[w])
        /\ Full(w, i - c[w])' <=> Full(w, i - c[w])
    BY <2>1
  <2>3. ChunkInv(n, c, total)
    BY DEF Working, WaitInv
  <2> QED BY <1>2, <2>2, <2>3 DEF ChunkInv
<1>4. ASSUME NEW i \in Chunk(c, n)
      PROVE  IF Full(0, i - c[n])' THEN dst'[i] = total[i + 1] ELSE Source'[i] = given'[i]
  <2>1. i - c[n] \in 0 .. c[0 + 1] - c[0] - 1 /\ 0 \in 0 .. n - 1
    BY <1>1 DEF Chunk
  <2>2. Full(0, i - c[n])' <=> Full(0, i - c[n])
    BY <2>1
  <2>3. LastInv(n, c, total)
    BY DEF Working, WaitInv
  <2> QED BY <1>2, <2>2, <2>3 DEF LastInv
<1> QED BY <1>3, <1>4 DEF ChunkInv, LastInv

\* Phase 0: the total of the chunk goes into paste.
LEMMA PasteStep ==
  ASSUME NEW n, NEW c, NEW total, Working(n, c, total), NEW w \in 0 .. n - 1, Phase0Paste(w)
  PROVE  TypeOK' /\ stray' = {} /\ WaitInv(n, c, total)'
<1>0. PICK i : i = c[w + 1] - 1
  OBVIOUS
<1>1. /\ n \in Nat /\ Worker = 0 .. n - 1 /\ Elem = 0 .. ns - 1 /\ Slot = 0 .. size - 1
      /\ n <= size /\ ns \in Nat /\ size \in Nat /\ ns > n
      /\ c[w] \in Nat /\ c[w + 1] \in Nat /\ c[w] < c[w + 1] /\ c[w + 1] <= ns
      /\ Phase0Ind(w) = c[w] /\ Phase0Sz(w) = c[w + 1] - c[w]
      /\ total[c[w + 1]] \in Int /\ total[c[w]] \in Int
  <2>1. /\ n \in Nat /\ Worker = 0 .. n - 1 /\ Elem = 0 .. ns - 1 /\ Slot = 0 .. size - 1
        /\ n <= size /\ ns \in Nat /\ size \in Nat /\ ns > n
        /\ Phase0Ind(w) = c[w] /\ Phase0Sz(w) = c[w + 1] - c[w]
        /\ \A u \in 0 .. n : /\ c[u] \in Nat /\ c[u + 1] \in Nat /\ c[u] < c[u + 1]
                             /\ c[u + 1] <= ns
        /\ \A j \in 0 .. ns : total[j] \in Int
    BY FrameFacts, SMTT(30) DEF Working
  <2>2. w \in 0 .. n
    BY <2>1
  <2>3. c[w] \in Nat /\ c[w + 1] \in Nat /\ c[w] < c[w + 1] /\ c[w + 1] <= ns
    BY <2>1, <2>2
  <2>4. c[w] \in 0 .. ns /\ c[w + 1] \in 0 .. ns
    BY <2>1, <2>3
  <2> QED BY <2>1, <2>3, <2>4
<1>2. /\ TypeOK /\ ChunkInv(n, c, total) /\ LockInv(n, c, total) /\ WorkerInv(n, c, total)
      /\ stray = {}
  BY DEF Working, WaitInv
<1>3. /\ pc[w] = "phase0" /\ pos[w] >= c[w + 1] - c[w]
      /\ paste' = [paste EXCEPT ![w] = Read(dst, i)]
      /\ Uses({i})
      /\ pc' = [pc EXCEPT ![w] = "pasted"]
      /\ UNCHANGED <<params, src, dst, lock, pos, val, caller, calls, given>>
  <2>1. Phase0Ind(w) + Phase0Sz(w) - 1 = i
    BY <1>0, <1>1
  <2> QED BY <1>1, <2>1 DEF Phase0Paste
<1>4. /\ i \in 0 .. ns - 1 /\ i \in Chunk(c, w) /\ pos[w] \in Nat /\ i - c[w] < pos[w]
      /\ i + 1 = c[w + 1] /\ i - c[w] \in Nat
  <2>0. pos \in [0 .. n - 1 -> 0 .. ns] /\ pos[w] >= c[w + 1] - c[w]
    BY <1>3, Typed
  <2>1. pos[w] \in 0 .. ns
    BY <2>0
  <2>2. PICK x \in Nat, y \in Nat, z \in Nat : x = c[w] /\ y = c[w + 1] /\ z = pos[w]
    BY <1>1, <2>1
  <2>3. i = y - 1 /\ z >= y - x /\ x < y /\ y <= ns /\ Chunk(c, w) = x .. y - 1
    BY <1>0, <1>1, <2>0, <2>2 DEF Chunk
  <2>4. /\ i \in 0 .. ns - 1 /\ i \in x .. y - 1 /\ i - x < z /\ i + 1 = y
        /\ i - x \in Nat
    BY <1>1, <2>3
  <2> QED BY <2>2, <2>3, <2>4
<1>5. Read(dst, i) = total[c[w + 1]] - total[c[w]]
  <2>1. ~Raw(w, i - c[w]) /\ ~Full(w, i - c[w])
    BY <1>3, <1>4 DEF Raw, Full
  <2>2. dst[i] = total[c[w + 1]] - total[c[w]]
    BY <1>2, <1>4, <2>1 DEF ChunkInv
  <2> QED BY <1>4, <2>2, Typed DEF Read
<1>6. /\ \A u \in 0 .. n - 1 : pc'[u] = IF u = w THEN "pasted" ELSE pc[u]
      /\ \A u \in 0 .. n - 1 :
           paste'[u] = IF u = w THEN total[c[w + 1]] - total[c[w]] ELSE paste[u]
      /\ pos' = pos /\ lock' = lock /\ val' = val
  <2>1. w \in 0 .. size - 1 /\ \A u \in 0 .. n - 1 : u \in 0 .. size - 1
    BY <1>1
  <2> QED BY <1>3, <1>5, <2>1, Typed
<1>7. ChunkInv(n, c, total)' /\ LastInv(n, c, total)'
  <2>1. ASSUME NEW u \in 0 .. n - 1, NEW j \in 0 .. c[u + 1] - c[u] - 1
        PROVE  (Raw(u, j)' <=> Raw(u, j)) /\ (Full(u, j)' <=> Full(u, j))
    <3>1. CASE u = w
      <4>1. PICK e \in Int, z \in Nat : e = c[w + 1] - c[w] /\ z = pos[w] /\ z >= e
        BY <1>1, <1>3, <1>4, SMTT(30)
      <4>2. j \in 0 .. e - 1
        BY <3>1, <4>1
      <4>3. ~(j >= pos[w])
        BY <4>1, <4>2
      <4> QED BY <1>3, <1>6, <3>1, <4>3 DEF Raw, Full
    <3>2. CASE u # w
      BY <1>6, <3>2 DEF Raw, Full
    <3> QED BY <3>1, <3>2
  <2> QED BY <1>3, <2>1, SameElements DEF params
<1>8. w >= Scanned(n) /\ Scanned(n)' = Scanned(n) /\ ~(pc[0] = "scanned" /\ w = pos[0])
  <2>1. 0 \in 0 .. n - 1
    BY <1>1
  <2>2. Scanned(n)' = Scanned(n)
    BY <1>3, <1>6, <2>1 DEF Scanned
  <2>3. Scanned(n) \in Int
    BY <1>1, <1>2, <2>1 DEF Scanned, TypeOK
  <2>4. ~(pc[0] = "scanned" /\ w = pos[0])
    BY <1>2, <1>3, <2>1 DEF WorkerInv
  <2> QED BY <1>1, <1>2, <1>3, <2>2, <2>3, <2>4 DEF LockInv, SlotInv
<1>9. LockInv(n, c, total)'
  <2> SUFFICES ASSUME NEW u \in 0 .. n - 1 PROVE SlotInv(n, c, total, u)'
    BY DEF LockInv
  <2>1. CASE u = w
    <3>1. pc'[0] = "scanned" => pc[0] = "scanned"
      BY <1>1, <1>6
    <3>2. Scanned(n) \in Int
      BY <1>1, <1>2 DEF Scanned, TypeOK
    <3> QED BY <1>1, <1>2, <1>3, <1>6, <1>8, <2>1, <3>1, <3>2 DEF LockInv, SlotInv
  <2>2. CASE u # w
    <3>1. pc'[u] = pc[u] /\ paste'[u] = paste[u]
      BY <1>6, <2>2
    <3>2. CASE w = 0
      <4>1. pc[0] = "phase0" /\ pc'[0] = "pasted"
        BY <1>3, <1>6, <3>2
      <4> QED BY <1>2, <1>6, <1>8, <3>1, <4>1 DEF LockInv, SlotInv
    <3>3. CASE w # 0
      <4>1. pc'[0] = pc[0]
        BY <1>1, <1>6, <3>3
      <4> QED BY <1>2, <1>6, <1>8, <3>1, <4>1 DEF LockInv, SlotInv
    <3> QED BY <3>2, <3>3
  <2> QED BY <2>1, <2>2
<1>10. WorkerInv(n, c, total)'
  <2>1. ASSUME NEW u \in 0 .. n - 1
        PROVE  /\ pc'[u] # "none"
               /\ pc'[u] \in {"phase0", "phase2"} => pos[u] \in 0 .. c[u + 1] - c[u]
               /\ u = 0 /\ pc'[0] = "phase1" => pos[0] \in 0 .. n
               /\ pc'[u] = "scanned" => /\ u = 0 /\ pos[0] \in 1 .. n - 1
                                        /\ pc'[pos[0]] \notin {"phase0", "pasted"}
               /\ pc'[u] \in {"phase2", "over"} =>
                    val[u] = total[IF u = 0 THEN c[n] ELSE c[u]]
    <3>1. CASE u = w
      BY <1>6, <3>1
    <3>2. CASE u # w
      <4>1. pc'[u] = pc[u] /\ (u = 0 => pc'[0] = pc[0])
        BY <1>6, <3>2
      <4>2. pc[u] = "scanned" => pc'[pos[0]] \notin {"phase0", "pasted"}
        <5> SUFFICES ASSUME pc[u] = "scanned" PROVE pc'[pos[0]] \notin {"phase0", "pasted"}
          OBVIOUS
        <5>1. pos[0] \in 1 .. n - 1 /\ pc[pos[0]] \notin {"phase0", "pasted"}
          BY <1>2 DEF WorkerInv
        <5>2. pos[0] \in 0 .. n - 1 /\ pos[0] # w
          <6>1. PICK z : z = pos[0] /\ z \in 1 .. n - 1
            BY <5>1
          <6>2. z \in 0 .. n - 1
            BY <6>1
          <6> QED BY <1>3, <5>1, <6>1, <6>2
        <5> QED BY <1>6, <5>1, <5>2
      <4> QED BY <1>2, <4>1, <4>2 DEF WorkerInv
    <3> QED BY <3>1, <3>2
  <2> QED BY <1>6, <2>1 DEF WorkerInv
<1>11. stray' = {}
  BY <1>1, <1>2, <1>3, <1>4 DEF Uses
<1>12. TypeOK'
  <2>1. total[c[w + 1]] - total[c[w]] \in Int
    BY <1>1
  <2>2. pc' \in [0 .. n - 1 -> States] /\ paste' \in [0 .. size - 1 -> Int]
    BY <1>3, <1>5, <2>1, Typed DEF States
  <2> QED BY <1>3, <1>11, <2>2, Typed, TypeNext
<1> QED BY <1>7, <1>9, <1>10, <1>11, <1>12 DEF WaitInv

\* How far worker 0 has come.
LEMMA ScannedType ==
  ASSUME NEW n, NEW c, NEW total, Working(n, c, total)
  PROVE  Scanned(n) \in 0 .. n
<1>1. n \in Nat /\ n >= 1 /\ WorkerInv(n, c, total)
  BY FrameFacts DEF Working, WaitInv
<1>2. 0 \in 0 .. n - 1
  BY <1>1
<1>3. /\ pc[0] = "phase1" => pos[0] \in 0 .. n
      /\ pc[0] = "scanned" => pos[0] \in 1 .. n - 1
  BY <1>1, <1>2 DEF WorkerInv
<1> QED BY <1>1, <1>3 DEF Scanned

\* done<1>: the total is in paste.
LEMMA DoneStep ==
  ASSUME NEW n, NEW c, NEW total, Working(n, c, total), NEW w \in 0 .. n - 1, Phase0Done(w)
  PROVE  TypeOK' /\ stray' = {} /\ WaitInv(n, c, total)'
<1>1. /\ n \in Nat /\ n >= 1 /\ n <= size /\ ns \in Nat /\ size \in Nat /\ ns > n
      /\ \A u \in 0 .. n : c[u] \in Nat /\ c[u + 1] \in Nat
  BY FrameFacts, SMTT(30) DEF Working
<1>2. LockInv(n, c, total) /\ WorkerInv(n, c, total) /\ stray = {}
  BY DEF Working, WaitInv
<1>3. /\ pc[w] = "pasted"
      /\ lock' = [lock EXCEPT ![w] = 1]
      /\ pc' = [pc EXCEPT ![w] = "phase1"]
      /\ pos' = [pos EXCEPT ![w] = 0]
      /\ UNCHANGED <<params, src, dst, paste, val, caller, calls, given, stray>>
  BY DEF Phase0Done
<1>4. /\ \A u \in 0 .. n - 1 : /\ pc'[u] = IF u = w THEN "phase1" ELSE pc[u]
                               /\ pos'[u] = IF u = w THEN 0 ELSE pos[u]
                               /\ lock'[u] = IF u = w THEN 1 ELSE lock[u]
      /\ paste' = paste /\ val' = val
  <2>1. w \in 0 .. size - 1 /\ \A u \in 0 .. n - 1 : u \in 0 .. size - 1
    BY <1>1
  <2> QED BY <1>3, <2>1, Typed
<1>5. ChunkInv(n, c, total)' /\ LastInv(n, c, total)'
  <2>1. ASSUME NEW u \in 0 .. n - 1, NEW j \in 0 .. c[u + 1] - c[u] - 1
        PROVE  (Raw(u, j)' <=> Raw(u, j)) /\ (Full(u, j)' <=> Full(u, j))
    BY <1>3, <1>4 DEF Raw, Full
  <2> QED BY <1>3, <2>1, SameElements DEF params
<1>6. 0 \in 0 .. n - 1
  BY <1>1
<1>7. /\ Scanned(n) \in 0 .. n /\ w >= Scanned(n) /\ Scanned(n)' = Scanned(n)
      /\ ~(pc[0] = "scanned" /\ w = pos[0])
  <2>1. Scanned(n)' = Scanned(n)
    BY <1>3, <1>4, <1>6 DEF Scanned
  <2>2. Scanned(n) \in 0 .. n
    BY ScannedType
  <2>3. ~(pc[0] = "scanned" /\ w = pos[0])
    BY <1>2, <1>3, <1>6 DEF WorkerInv
  <2> QED BY <1>1, <1>2, <1>3, <2>1, <2>2, <2>3 DEF LockInv, SlotInv
<1>8. LockInv(n, c, total)'
  <2> SUFFICES ASSUME NEW u \in 0 .. n - 1 PROVE SlotInv(n, c, total, u)'
    BY DEF LockInv
  <2>1. SlotInv(n, c, total, u)
    BY <1>2 DEF LockInv
  <2>2. /\ pc'[0] = "scanned" <=> pc[0] = "scanned"
        /\ pc'[0] = "scanned" => pos'[0] = pos[0]
    BY <1>3, <1>4, <1>6
  <2>3. CASE u = w
    BY <1>1, <1>3, <1>4, <1>7, <2>1, <2>2, <2>3 DEF SlotInv
  <2>4. CASE u # w
    BY <1>4, <1>7, <2>1, <2>2, <2>4 DEF SlotInv
  <2> QED BY <2>3, <2>4
<1>9. WorkerInv(n, c, total)'
  BY <1>1, <1>2, <1>3, <1>4, <1>6 DEF WorkerInv
<1>10. TypeOK'
  <2>0. 0 \in 0 .. ns /\ 1 \in 0 .. 2 /\ "phase1" \in States
    BY <1>1 DEF States
  <2>1. /\ pc' \in [0 .. n - 1 -> States] /\ lock' \in [0 .. size - 1 -> 0 .. 2]
        /\ pos' \in [0 .. n - 1 -> 0 .. ns]
    BY <1>3, <2>0, Typed
  <2> QED BY <1>2, <1>3, <2>1, Typed, TypeNext
<1> QED BY <1>2, <1>3, <1>5, <1>8, <1>9, <1>10 DEF WaitInv

\* Worker 0 releases its own total.
LEMMA FirstStep ==
  ASSUME NEW n, NEW c, NEW total, Working(n, c, total), Phase1First
  PROVE  TypeOK' /\ stray' = {} /\ WaitInv(n, c, total)'
<1>1. /\ n \in Nat /\ n >= 1 /\ n <= size /\ ns \in Nat /\ size \in Nat /\ ns > n
      /\ c[0] = 0 /\ total[0] = 0 /\ c[1] \in Nat /\ c[1] <= ns
      /\ \A i \in 0 .. ns : total[i] \in Int
  <2>1. 0 \in 0 .. n /\ 0 + 1 = 1
    BY FrameFacts, SMTT(30) DEF Working
  <2> QED BY <2>1, FrameFacts DEF Working
<1>2. LockInv(n, c, total) /\ WorkerInv(n, c, total) /\ stray = {}
  BY DEF Working, WaitInv
<1>3. /\ pc[0] = "phase1" /\ pos[0] = 0
      /\ lock' = [lock EXCEPT ![0] = 2]
      /\ pos' = [pos EXCEPT ![0] = 1]
      /\ UNCHANGED <<params, src, dst, paste, pc, val, caller, calls, given, stray>>
  BY DEF Phase1First
<1>4. 0 \in 0 .. n - 1 /\ 0 \in 0 .. size - 1 /\ \A u \in 0 .. n - 1 : u \in 0 .. size - 1
  BY <1>1
<1>5. /\ \A u \in 0 .. n - 1 : /\ pos'[u] = IF u = 0 THEN 1 ELSE pos[u]
                               /\ lock'[u] = IF u = 0 THEN 2 ELSE lock[u]
      /\ paste' = paste /\ val' = val /\ pc' = pc
  BY <1>3, <1>4, Typed
<1>6. ChunkInv(n, c, total)' /\ LastInv(n, c, total)'
  <2>1. ASSUME NEW u \in 0 .. n - 1, NEW j \in 0 .. c[u + 1] - c[u] - 1
        PROVE  (Raw(u, j)' <=> Raw(u, j)) /\ (Full(u, j)' <=> Full(u, j))
    BY <1>3, <1>5 DEF Raw, Full
  <2> QED BY <1>3, <2>1, SameElements DEF params
<1>7. Scanned(n) = 0 /\ Scanned(n)' = 1
  BY <1>3, <1>4, <1>5 DEF Scanned
<1>8. LockInv(n, c, total)'
  <2> SUFFICES ASSUME NEW u \in 0 .. n - 1 PROVE SlotInv(n, c, total, u)'
    BY DEF LockInv
  <2>1. SlotInv(n, c, total, u)
    BY <1>2 DEF LockInv
  <2>2. CASE u = 0
    <3>1. paste[0] = total[c[1]] - total[c[0]]
      BY <1>3, <1>7, <2>1, <2>2 DEF SlotInv
    <3>2. paste[0] = total[c[1]]
      BY <1>1, <3>1
    <3> QED BY <1>3, <1>5, <1>7, <2>2, <3>2 DEF SlotInv
  <2>3. CASE u # 0
    BY <1>3, <1>5, <1>7, <2>1, <2>3 DEF SlotInv
  <2> QED BY <2>2, <2>3
<1>9. WorkerInv(n, c, total)'
  BY <1>1, <1>2, <1>3, <1>4, <1>5 DEF WorkerInv
<1>10. TypeOK'
  <2>0. 1 \in 0 .. ns /\ 2 \in 0 .. 2
    BY <1>1
  <2>1. lock' \in [0 .. size - 1 -> 0 .. 2] /\ pos' \in [0 .. n - 1 -> 0 .. ns]
    BY <1>3, <2>0, Typed
  <2> QED BY <1>2, <1>3, <2>1, Typed, TypeNext
<1> QED BY <1>2, <1>3, <1>6, <1>8, <1>9, <1>10 DEF WaitInv

\* Worker 0 makes the next total a prefix sum.
LEMMA ScanStep ==
  ASSUME NEW n, NEW c, NEW total, Working(n, c, total), Phase1Scan
  PROVE  TypeOK' /\ stray' = {} /\ WaitInv(n, c, total)'
<1>1. PICK i : i = pos[0]
  OBVIOUS
<1>2. LockInv(n, c, total) /\ WorkerInv(n, c, total) /\ stray = {} /\ nt = n
  BY DEF Working, WaitInv, Frame
<1>3. /\ pc[0] = "phase1" /\ i \in 1 .. n - 1 /\ lock[i] = 1
      /\ paste' = [paste EXCEPT ![i] = paste[i] + paste[i - 1]]
      /\ pc' = [pc EXCEPT ![0] = "scanned"]
      /\ UNCHANGED <<params, src, dst, lock, pos, val, caller, calls, given, stray>>
  BY <1>1, <1>2 DEF Phase1Scan, combiner
<1>4. /\ n \in Nat /\ n >= 1 /\ n <= size /\ ns \in Nat /\ size \in Nat /\ ns > n
      /\ \A u \in 0 .. n : c[u] \in Nat /\ c[u + 1] \in Nat /\ c[u + 1] <= ns
      /\ \A u \in 0 .. ns : total[u] \in Int
  BY FrameFacts, SMTT(30) DEF Working
<1>5. /\ 0 \in 0 .. n - 1 /\ i \in 0 .. n - 1 /\ i - 1 \in 0 .. n - 1 /\ (i - 1) + 1 = i
      /\ i \in 0 .. size - 1 /\ i \in 0 .. n /\ i - 1 \in 0 .. n /\ i # 0
      /\ \A u \in 0 .. n - 1 : u \in 0 .. size - 1
  BY <1>3, <1>4
<1>6. Scanned(n) = i
  BY <1>1, <1>3 DEF Scanned
<1>7. paste[i] = total[c[i + 1]] - total[c[i]] /\ pc[i] \notin {"phase0", "pasted"}
  <2>1. SlotInv(n, c, total, i)
    BY <1>2, <1>5 DEF LockInv
  <2> QED BY <1>3, <1>5, <1>6, <2>1 DEF SlotInv
<1>8. paste[i - 1] = total[c[i]]
  <2>1. SlotInv(n, c, total, i - 1) /\ i - 1 < i
    BY <1>2, <1>5 DEF LockInv
  <2> QED BY <1>5, <1>6, <2>1 DEF SlotInv
<1>9. paste[i] + paste[i - 1] = total[c[i + 1]] /\ total[c[i + 1]] \in Int
  <2>1. c[i] \in 0 .. ns /\ c[i + 1] \in 0 .. ns
    <3>1. c[i] \in Nat /\ c[i + 1] \in Nat /\ c[i + 1] <= ns
      BY <1>4, <1>5
    <3>2. c[(i - 1) + 1] <= ns
      BY <1>4, <1>5
    <3> QED BY <1>4, <1>5, <3>1, <3>2
  <2>2. total[c[i]] \in Int /\ total[c[i + 1]] \in Int
    BY <1>4, <2>1
  <2> QED BY <1>7, <1>8, <2>2
<1>10. /\ \A u \in 0 .. n - 1 : /\ pc'[u] = IF u = 0 THEN "scanned" ELSE pc[u]
                                /\ paste'[u] = IF u = i THEN total[c[i + 1]] ELSE paste[u]
       /\ lock' = lock /\ val' = val /\ pos' = pos
  BY <1>3, <1>5, <1>9, Typed
<1>11. ChunkInv(n, c, total)' /\ LastInv(n, c, total)'
  <2>1. ASSUME NEW u \in 0 .. n - 1, NEW j \in 0 .. c[u + 1] - c[u] - 1
        PROVE  (Raw(u, j)' <=> Raw(u, j)) /\ (Full(u, j)' <=> Full(u, j))
    BY <1>3, <1>10 DEF Raw, Full
  <2> QED BY <1>3, <2>1, SameElements DEF params
<1>12. Scanned(n)' = i
  BY <1>1, <1>3, <1>5, <1>10 DEF Scanned
<1>13. LockInv(n, c, total)'
  <2> SUFFICES ASSUME NEW u \in 0 .. n - 1 PROVE SlotInv(n, c, total, u)'
    BY DEF LockInv
  <2>1. SlotInv(n, c, total, u)
    BY <1>2 DEF LockInv
  <2>2. pc'[0] = "scanned" /\ pos'[0] = i
    BY <1>1, <1>5, <1>10
  <2>3. CASE u = i
    BY <1>3, <1>5, <1>6, <1>7, <1>10, <1>12, <2>2, <2>3 DEF SlotInv
  <2>4. CASE u # i
    BY <1>3, <1>5, <1>6, <1>10, <1>12, <2>1, <2>2, <2>4 DEF SlotInv
  <2> QED BY <2>3, <2>4
<1>14. WorkerInv(n, c, total)'
  BY <1>1, <1>2, <1>3, <1>5, <1>7, <1>10 DEF WorkerInv
<1>15. TypeOK'
  <2>1. pc' \in [0 .. n - 1 -> States] /\ paste' \in [0 .. size - 1 -> Int]
    BY <1>3, <1>9, Typed DEF States
  <2> QED BY <1>2, <1>3, <2>1, Typed, TypeNext
<1> QED BY <1>2, <1>3, <1>11, <1>13, <1>14, <1>15 DEF WaitInv

\* done<2>: it is released.
LEMMA ReleaseStep ==
  ASSUME NEW n, NEW c, NEW total, Working(n, c, total), Phase1Release
  PROVE  TypeOK' /\ stray' = {} /\ WaitInv(n, c, total)'
<1>1. PICK i : i = pos[0]
  OBVIOUS
<1>2. LockInv(n, c, total) /\ WorkerInv(n, c, total) /\ stray = {}
  BY DEF Working, WaitInv
<1>3. /\ pc[0] = "scanned"
      /\ lock' = [lock EXCEPT ![i] = 2]
      /\ pos' = [pos EXCEPT ![0] = i + 1]
      /\ pc' = [pc EXCEPT ![0] = "phase1"]
      /\ UNCHANGED <<params, src, dst, paste, val, caller, calls, given, stray>>
  BY <1>1 DEF Phase1Release
<1>4. /\ n \in Nat /\ n >= 1 /\ n <= size /\ ns \in Nat /\ size \in Nat /\ ns > n
  BY FrameFacts, SMTT(30) DEF Working
<1>5. i \in 1 .. n - 1 /\ pc[i] \notin {"phase0", "pasted"}
  BY <1>1, <1>2, <1>3, <1>4 DEF WorkerInv
<1>6. /\ 0 \in 0 .. n - 1 /\ i \in 0 .. n - 1 /\ i # 0 /\ i \in 0 .. size - 1
      /\ i + 1 \in 0 .. ns /\ i + 1 \in 0 .. n
      /\ \A u \in 0 .. n - 1 : u \in 0 .. size - 1
  BY <1>4, <1>5
<1>7. /\ \A u \in 0 .. n - 1 : /\ pc'[u] = IF u = 0 THEN "phase1" ELSE pc[u]
                               /\ pos'[u] = IF u = 0 THEN i + 1 ELSE pos[u]
                               /\ lock'[u] = IF u = i THEN 2 ELSE lock[u]
      /\ paste' = paste /\ val' = val
  BY <1>3, <1>6, Typed
<1>8. ChunkInv(n, c, total)' /\ LastInv(n, c, total)'
  <2>1. ASSUME NEW u \in 0 .. n - 1, NEW j \in 0 .. c[u + 1] - c[u] - 1
        PROVE  (Raw(u, j)' <=> Raw(u, j)) /\ (Full(u, j)' <=> Full(u, j))
    BY <1>3, <1>7 DEF Raw, Full
  <2> QED BY <1>3, <2>1, SameElements DEF params
<1>9. Scanned(n) = i /\ Scanned(n)' = i + 1
  BY <1>1, <1>3, <1>6, <1>7 DEF Scanned
<1>10. LockInv(n, c, total)'
  <2> SUFFICES ASSUME NEW u \in 0 .. n - 1 PROVE SlotInv(n, c, total, u)'
    BY DEF LockInv
  <2>1. SlotInv(n, c, total, u)
    BY <1>2 DEF LockInv
  <2>2. pc'[0] = "phase1" /\ pos'[0] = i + 1 /\ pos[0] = i
    BY <1>1, <1>6, <1>7
  <2>3. CASE u = i
    BY <1>3, <1>5, <1>6, <1>7, <1>9, <2>1, <2>2, <2>3 DEF SlotInv
  <2>4. CASE u # i /\ u < i
    BY <1>3, <1>6, <1>7, <1>9, <2>1, <2>2, <2>4 DEF SlotInv
  <2>5. CASE u > i
    BY <1>3, <1>6, <1>7, <1>9, <2>1, <2>2, <2>5 DEF SlotInv
  <2> QED BY <1>6, <2>3, <2>4, <2>5
<1>11. WorkerInv(n, c, total)'
  BY <1>2, <1>3, <1>6, <1>7 DEF WorkerInv
<1>12. TypeOK'
  <2>1. /\ pc' \in [0 .. n - 1 -> States] /\ lock' \in [0 .. size - 1 -> 0 .. 2]
        /\ pos' \in [0 .. n - 1 -> 0 .. ns]
    BY <1>3, <1>6, Typed DEF States
  <2> QED BY <1>2, <1>3, <2>1, Typed, TypeNext
<1> QED BY <1>2, <1>3, <1>8, <1>10, <1>11, <1>12 DEF WaitInv

\* The wait for the sum of everything before the chunk is over.
LEMMA WaitedStep ==
  ASSUME NEW n, NEW c, NEW total, Working(n, c, total), NEW w \in 0 .. n - 1, Phase1End(w)
  PROVE  TypeOK' /\ stray' = {} /\ WaitInv(n, c, total)'
<1>1. /\ n \in Nat /\ n >= 1 /\ n <= size /\ ns \in Nat /\ size \in Nat /\ ns > n
      /\ \A u \in 0 .. n : /\ c[u] \in Nat /\ c[u + 1] \in Nat /\ c[u] < c[u + 1]
                           /\ c[u + 1] <= ns
      /\ \A i \in 0 .. ns : total[i] \in Int
  BY FrameFacts, SMTT(30) DEF Working
<1>2. LockInv(n, c, total) /\ WorkerInv(n, c, total) /\ stray = {} /\ nt = n
  BY DEF Working, WaitInv, Frame
<1>3. /\ pc[w] = "phase1" /\ (w = 0 => pos[0] = n) /\ (w # 0 => lock[w - 1] = 2)
      /\ val' = [val EXCEPT ![w] = paste[IF w # 0 THEN w - 1 ELSE n - 1]]
      /\ pos' = [pos EXCEPT ![w] = 0]
      /\ pc' = [pc EXCEPT ![w] = "phase2"]
      /\ UNCHANGED <<params, src, dst, paste, lock, caller, calls, given, stray>>
  BY <1>2 DEF Phase1End, data
<1>4. PICK s : s = IF w # 0 THEN w - 1 ELSE n - 1
  OBVIOUS
<1>5. /\ s \in 0 .. n - 1 /\ s \in 0 .. n /\ 0 \in 0 .. n - 1
      /\ s + 1 = IF w = 0 THEN n ELSE w
      /\ \A u \in 0 .. n - 1 : u \in 0 .. size - 1
  BY <1>1, <1>4
<1>6. paste[s] = total[c[s + 1]] /\ total[c[s + 1]] \in Int
  <2>1. SlotInv(n, c, total, s)
    BY <1>2, <1>5 DEF LockInv
  <2>2. Scanned(n) \in 0 .. n
    BY ScannedType
  <2>3. s < Scanned(n)
    <3>1. CASE w = 0
      BY <1>1, <1>3, <1>4, <3>1 DEF Scanned
    <3>2. CASE w # 0
      <4>1. lock[s] = 2
        BY <1>3, <1>4, <3>2
      <4> QED BY <1>1, <1>5, <2>1, <2>2, <4>1 DEF SlotInv
    <3> QED BY <3>1, <3>2
  <2>4. c[s + 1] \in 0 .. ns
    BY <1>1, <1>5
  <2> QED BY <1>1, <2>1, <2>3, <2>4 DEF SlotInv
<1>7. /\ \A u \in 0 .. n - 1 : /\ pc'[u] = IF u = w THEN "phase2" ELSE pc[u]
                               /\ pos'[u] = IF u = w THEN 0 ELSE pos[u]
                               /\ val'[u] = IF u = w THEN total[c[s + 1]] ELSE val[u]
      /\ paste' = paste /\ lock' = lock
  BY <1>3, <1>4, <1>5, <1>6, Typed
<1>8. ChunkInv(n, c, total)' /\ LastInv(n, c, total)'
  <2>1. ASSUME NEW u \in 0 .. n - 1, NEW j \in 0 .. c[u + 1] - c[u] - 1
        PROVE  (Raw(u, j)' <=> Raw(u, j)) /\ (Full(u, j)' <=> Full(u, j))
    BY <1>3, <1>7 DEF Raw, Full
  <2> QED BY <1>3, <2>1, SameElements DEF params
<1>9. /\ Scanned(n)' = Scanned(n)
      /\ pc'[0] = "scanned" <=> pc[0] = "scanned"
      /\ pc'[0] = "scanned" => pos'[0] = pos[0]
  BY <1>3, <1>5, <1>7 DEF Scanned
<1>10. LockInv(n, c, total)'
  <2> SUFFICES ASSUME NEW u \in 0 .. n - 1 PROVE SlotInv(n, c, total, u)'
    BY DEF LockInv
  <2>1. SlotInv(n, c, total, u)
    BY <1>2 DEF LockInv
  <2>2. CASE u = w
    BY <1>3, <1>7, <1>9, <2>1, <2>2 DEF SlotInv
  <2>3. CASE u # w
    BY <1>7, <1>9, <2>1, <2>3 DEF SlotInv
  <2> QED BY <2>2, <2>3
<1>11. WorkerInv(n, c, total)'
  <2>1. ASSUME NEW u \in 0 .. n - 1
        PROVE  /\ pc'[u] # "none"
               /\ pc'[u] \in {"phase0", "phase2"} => pos'[u] \in 0 .. c[u + 1] - c[u]
               /\ u = 0 /\ pc'[0] = "phase1" => pos'[0] \in 0 .. n
               /\ pc'[u] = "scanned" => /\ u = 0 /\ pos'[0] \in 1 .. n - 1
                                        /\ pc'[pos'[0]] \notin {"phase0", "pasted"}
               /\ pc'[u] \in {"phase2", "over"} =>
                    val'[u] = total[IF u = 0 THEN c[n] ELSE c[u]]
    <3>1. CASE u = w
      <4>1. 0 \in 0 .. c[w + 1] - c[w]
        BY <1>1
      <4>2. val'[w] = total[IF w = 0 THEN c[n] ELSE c[w]]
        BY <1>5, <1>7
      <4> QED BY <1>7, <3>1, <4>1, <4>2
    <3>2. CASE u # w
      <4>1. pc'[u] = pc[u] /\ pos'[u] = pos[u] /\ val'[u] = val[u]
        BY <1>7, <3>2
      <4>2. pc[u] = "scanned" => pos'[0] = pos[0]
        BY <1>2, <1>3, <1>7, <3>2 DEF WorkerInv
      <4>3. pc[u] = "scanned" => pos[0] \in 0 .. n - 1
        BY <1>1, <1>2 DEF WorkerInv
      <4> QED BY <1>2, <1>7, <3>2, <4>1, <4>2, <4>3 DEF WorkerInv
    <3> QED BY <3>1, <3>2
  <2> QED BY <2>1 DEF WorkerInv
<1>12. TypeOK'
  <2>0. 0 \in 0 .. ns /\ "phase2" \in States
    BY <1>1 DEF States
  <2>1. /\ pc' \in [0 .. n - 1 -> States] /\ pos' \in [0 .. n - 1 -> 0 .. ns]
        /\ val' \in [0 .. n - 1 -> Int]
    BY <1>3, <1>4, <1>6, <2>0, Typed
  <2> QED BY <1>2, <1>3, <2>1, Typed, TypeNext
<1> QED BY <1>2, <1>3, <1>8, <1>10, <1>11, <1>12 DEF WaitInv

\* A worker has added to all of its chunk.
LEMMA OverStep ==
  ASSUME NEW n, NEW c, NEW total, Working(n, c, total), NEW w \in 0 .. n - 1, Phase2End(w)
  PROVE  TypeOK' /\ stray' = {} /\ WaitInv(n, c, total)'
<1>1. /\ n \in Nat /\ n >= 1 /\ ns \in Nat
      /\ Phase2Sz(w) = c[w + 1] - c[w]
      /\ \A u \in 0 .. n : c[u] \in Nat /\ c[u + 1] \in Nat
  BY FrameFacts, SMTT(30) DEF Working
<1>2. LockInv(n, c, total) /\ WorkerInv(n, c, total) /\ stray = {}
  BY DEF Working, WaitInv
<1>3. /\ pc[w] = "phase2" /\ pos[w] >= c[w + 1] - c[w]
      /\ pc' = [pc EXCEPT ![w] = "over"]
      /\ UNCHANGED <<params, src, dst, paste, lock, pos, val, caller, calls, given, stray>>
  BY <1>1 DEF Phase2End, data
<1>4. /\ \A u \in 0 .. n - 1 : pc'[u] = IF u = w THEN "over" ELSE pc[u]
      /\ pos' = pos /\ val' = val /\ paste' = paste /\ lock' = lock
  BY <1>3, Typed
<1>5. 0 \in 0 .. n - 1
  BY <1>1
<1>6. ChunkInv(n, c, total)' /\ LastInv(n, c, total)'
  <2>1. ASSUME NEW u \in 0 .. n - 1, NEW j \in 0 .. c[u + 1] - c[u] - 1
        PROVE  (Raw(u, j)' <=> Raw(u, j)) /\ (Full(u, j)' <=> Full(u, j))
    <3>1. CASE u = w
      <4>0. pos[w] \in 0 .. ns
        BY Typed
      <4>1. w \in 0 .. n /\ pos[w] \in Int
        BY <1>1, <4>0
      <4>2. j < pos[w]
        BY <1>1, <1>3, <3>1, <4>1
      <4> QED BY <1>3, <1>4, <3>1, <4>2 DEF Raw, Full
    <3>2. CASE u # w
      BY <1>4, <3>2 DEF Raw, Full
    <3> QED BY <3>1, <3>2
  <2> QED BY <1>3, <2>1, SameElements DEF params
<1>7. /\ Scanned(n)' = Scanned(n)
      /\ pc'[0] = "scanned" <=> pc[0] = "scanned"
  BY <1>3, <1>4, <1>5 DEF Scanned
<1>8. LockInv(n, c, total)'
  <2> SUFFICES ASSUME NEW u \in 0 .. n - 1 PROVE SlotInv(n, c, total, u)'
    BY DEF LockInv
  <2>1. SlotInv(n, c, total, u)
    BY <1>2 DEF LockInv
  <2>2. CASE u = w
    BY <1>3, <1>4, <1>7, <2>1, <2>2 DEF SlotInv
  <2>3. CASE u # w
    BY <1>4, <1>7, <2>1, <2>3 DEF SlotInv
  <2> QED BY <2>2, <2>3
<1>9. WorkerInv(n, c, total)'
  BY <1>1, <1>2, <1>3, <1>4, <1>5 DEF WorkerInv
<1>10. TypeOK'
  <2>1. pc' \in [0 .. n - 1 -> States]
    BY <1>3, Typed DEF States
  <2> QED BY <1>2, <1>3, <2>1, Typed, TypeNext
<1> QED BY <1>2, <1>3, <1>6, <1>8, <1>9, <1>10 DEF WaitInv

-----------------------------------------------------------------------------
(***************************************************************************)
(* Steps that write an element: worker w goes on to the next one.          *)
(***************************************************************************)
\* What all of these steps do: the element at p becomes v.
Advances(c, w, p, v) ==
  /\ pc[w] \in {"phase0", "phase2"} /\ pos[w] < c[w + 1] - c[w]
  /\ p \in 0 .. ns - 1 /\ v \in Int /\ dst' = [dst EXCEPT ![p] = v]
  /\ pos' = [pos EXCEPT ![w] = @ + 1] /\ stray' = {}
  /\ UNCHANGED <<params, src, paste, lock, pc, val, caller, calls, given>>

\* What they leave alone.
LEMMA Advance ==
  ASSUME NEW n, NEW c, NEW total, Working(n, c, total), NEW w \in 0 .. n - 1,
         NEW p, NEW v, Advances(c, w, p, v)
  PROVE  /\ TypeOK' /\ LockInv(n, c, total)' /\ WorkerInv(n, c, total)'
         /\ \A u \in 0 .. n - 1 : pos'[u] = IF u = w THEN pos[w] + 1 ELSE pos[u]
         /\ \A i \in 0 .. ns - 1 : /\ dst'[i] = IF i = p THEN v ELSE dst[i]
                                   /\ i # p => Source'[i] = Source[i]
<1>0. /\ pc[w] \in {"phase0", "phase2"} /\ pos[w] < c[w + 1] - c[w]
      /\ p \in 0 .. ns - 1 /\ v \in Int /\ dst' = [dst EXCEPT ![p] = v]
      /\ pos' = [pos EXCEPT ![w] = @ + 1] /\ stray' = {}
      /\ UNCHANGED <<params, src, paste, lock, pc, val, caller, calls, given>>
  BY DEF Advances
<1>1. /\ n \in Nat /\ n >= 1 /\ ns \in Nat
      /\ \A u \in 0 .. n : c[u] \in Nat /\ c[u + 1] \in Nat /\ c[u + 1] <= ns
  BY FrameFacts, SMTT(30) DEF Working
<1>2. LockInv(n, c, total) /\ WorkerInv(n, c, total)
  BY DEF Working, WaitInv
<1>3. /\ pc' = pc /\ paste' = paste /\ lock' = lock /\ val' = val /\ src' = src
      /\ inPlace' = inPlace
  BY <1>0 DEF params
<1>4. pos[w] \in 0 .. ns /\ 0 \in 0 .. n - 1 /\ w \in 0 .. n
  <2>1. pos[w] \in 0 .. ns
    BY Typed
  <2> QED BY <1>1, <2>1
<1>5. pos[w] + 1 \in 0 .. c[w + 1] - c[w] /\ pos[w] + 1 \in 0 .. ns
  BY <1>0, <1>1, <1>4
<1>6. \A u \in 0 .. n - 1 : pos'[u] = IF u = w THEN pos[w] + 1 ELSE pos[u]
  BY <1>0, Typed
<1>7. \A i \in 0 .. ns - 1 : /\ dst'[i] = IF i = p THEN v ELSE dst[i]
                             /\ i # p => Source'[i] = Source[i]
  <2>1. \A i \in 0 .. ns - 1 : dst'[i] = IF i = p THEN v ELSE dst[i]
    BY <1>0, Typed
  <2> QED BY <1>3, <2>1 DEF Source
<1>8. Scanned(n)' = Scanned(n) /\ (pc[0] = "scanned" => pos'[0] = pos[0])
  BY <1>0, <1>3, <1>4, <1>6 DEF Scanned
<1>9. LockInv(n, c, total)'
  <2> SUFFICES ASSUME NEW u \in 0 .. n - 1 PROVE SlotInv(n, c, total, u)'
    BY DEF LockInv
  <2>1. SlotInv(n, c, total, u)
    BY <1>2 DEF LockInv
  <2> QED BY <1>3, <1>8, <2>1 DEF SlotInv
<1>10. WorkerInv(n, c, total)'
  <2>1. ASSUME NEW u \in 0 .. n - 1
        PROVE  /\ pc[u] \in {"phase0", "phase2"} => pos'[u] \in 0 .. c[u + 1] - c[u]
               /\ u = 0 /\ pc[0] = "phase1" => pos'[0] \in 0 .. n
               /\ pc[u] = "scanned" => /\ u = 0 /\ pos'[0] \in 1 .. n - 1
                                       /\ pc[pos'[0]] \notin {"phase0", "pasted"}
    <3>1. CASE u = w
      BY <1>0, <1>5, <1>6, <3>1
    <3>2. CASE u # w
      BY <1>2, <1>6, <1>8, <3>2 DEF WorkerInv
    <3> QED BY <3>1, <3>2
  <2> QED BY <1>2, <1>3, <2>1 DEF WorkerInv
<1>11. TypeOK'
  <2>1. dst' \in [0 .. ns - 1 -> Int]
    BY <1>0, Typed
  <2>2. pos' \in [0 .. n - 1 -> 0 .. ns]
    BY <1>0, <1>5, Typed
  <2> QED BY <1>0, <1>3, <2>1, <2>2, Typed, TypeNext
<1> QED BY <1>6, <1>7, <1>9, <1>10, <1>11

\* Phase 0: the next element of the chunk is summed up.
LEMMA SumStep ==
  ASSUME NEW n, NEW c, NEW total, Working(n, c, total), NEW w \in 0 .. n - 1, Phase0Sum(w)
  PROVE  TypeOK' /\ stray' = {} /\ WaitInv(n, c, total)'
<1>1. /\ n \in Nat /\ n >= 1 /\ ns \in Nat /\ Elem = 0 .. ns - 1
      /\ \A u \in 0 .. n : /\ c[u] \in Nat /\ c[u + 1] \in Nat /\ c[u] < c[u + 1]
                           /\ c[u + 1] <= ns /\ Chunk(c, u) \subseteq Elem
      /\ \A u, x \in 0 .. n : \A i \in Chunk(c, u) : i \in Chunk(c, x) => u = x
      /\ Phase0Ind(w) = c[w] /\ Phase0Sz(w) = c[w + 1] - c[w]
      /\ \A i \in 0 .. ns : total[i] \in Int
      /\ \A i \in Elem : total[i + 1] = total[i] + given[i]
  BY FrameFacts, SMTT(30) DEF Working
<1>2. ChunkInv(n, c, total) /\ LastInv(n, c, total) /\ stray = {}
  BY DEF Working, WaitInv
<1>3. pos[w] \in 0 .. ns
  BY Typed
<1>4. w \in 0 .. n /\ pos[w] \in Nat
  BY <1>1, <1>3
<1>5. PICK p : p = c[w] + pos[w]
  OBVIOUS
<1>6. /\ pc[w] = "phase0" /\ pos[w] < c[w + 1] - c[w]
      /\ dst' = Write(dst, p, IF pos[w] = 0 THEN Read(Source, p)
                                            ELSE Read(Source, p) + Read(dst, p - 1))
      /\ Uses(IF pos[w] = 0 THEN {p} ELSE {p - 1, p})
      /\ pos' = [pos EXCEPT ![w] = @ + 1]
      /\ UNCHANGED <<params, src, paste, lock, pc, val, caller, calls, given>>
  <2>1. pos[w] = 0 \/ pos[w] < c[w + 1] - c[w]
    BY <1>1 DEF Phase0Sum
  <2>2. pos[w] < c[w + 1] - c[w]
    BY <1>1, <1>4, <2>1
  <2> QED BY <1>1, <1>5, <2>2 DEF Phase0Sum, transmute, scanOp
<1>7. /\ p \in Chunk(c, w) /\ p \in 0 .. ns - 1 /\ p - c[w] = pos[w] /\ p \in 0 .. ns
      /\ p + 1 \in 0 .. ns /\ c[w] \in 0 .. ns
      /\ pos[w] # 0 => /\ p - 1 \in Chunk(c, w) /\ p - 1 \in 0 .. ns - 1
                       /\ (p - 1) - c[w] = pos[w] - 1 /\ (p - 1) + 1 = p
  <2>1. c[w] \in Nat /\ c[w + 1] \in Nat /\ c[w + 1] <= ns
    BY <1>1, <1>4
  <2>2. PICK a \in Nat, b \in Nat, s \in Nat : a = c[w] /\ b = c[w + 1] /\ s = pos[w]
    BY <1>4, <2>1
  <2>3. p = a + s /\ s < b - a /\ b <= ns /\ Chunk(c, w) = a .. b - 1
    BY <1>5, <1>6, <2>1, <2>2 DEF Chunk
  <2>4. /\ p \in a .. b - 1 /\ p \in 0 .. ns - 1 /\ p - a = s /\ p \in 0 .. ns
        /\ p + 1 \in 0 .. ns /\ a \in 0 .. ns
    BY <1>1, <2>3
  <2>5. s # 0 => /\ p - 1 \in a .. b - 1 /\ p - 1 \in 0 .. ns - 1
                 /\ (p - 1) - a = s - 1 /\ (p - 1) + 1 = p
    BY <1>1, <2>3
  <2> QED BY <2>2, <2>3, <2>4, <2>5
<1>8. Read(Source, p) = given[p] /\ given[p] \in Int
  <2>1. Raw(w, p - c[w])
    BY <1>4, <1>6, <1>7 DEF Raw
  <2>2. Source[p] = given[p]
    BY <1>2, <1>7, <2>1 DEF ChunkInv
  <2>3. p \in DOMAIN Source
    BY <1>7, Typed DEF Source
  <2> QED BY <1>7, <2>2, <2>3, Typed DEF Read
<1>9. pos[w] # 0 => Read(dst, p - 1) = total[p] - total[c[w]]
  <2> SUFFICES ASSUME pos[w] # 0 PROVE Read(dst, p - 1) = total[p] - total[c[w]]
    OBVIOUS
  <2>1. ~Raw(w, (p - 1) - c[w]) /\ ~Full(w, (p - 1) - c[w])
    BY <1>4, <1>6, <1>7 DEF Raw, Full
  <2>2. dst[p - 1] = total[p] - total[c[w]]
    BY <1>2, <1>7, <2>1 DEF ChunkInv
  <2> QED BY <1>7, <2>2, Typed DEF Read
<1>10. PICK v \in Int : /\ v = total[p + 1] - total[c[w]]
                        /\ dst' = [dst EXCEPT ![p] = v]
  <2>1. total[p] \in Int /\ total[p + 1] = total[p] + given[p] /\ total[c[w]] \in Int
    BY <1>1, <1>7
  <2>2. (IF pos[w] = 0 THEN Read(Source, p) ELSE Read(Source, p) + Read(dst, p - 1))
          = total[p + 1] - total[c[w]]
    <3>1. CASE pos[w] = 0
      <4>1. p = c[w]
        BY <1>1, <1>4, <1>5, <3>1
      <4> QED BY <1>8, <2>1, <3>1, <4>1
    <3>2. CASE pos[w] # 0
      BY <1>8, <1>9, <2>1, <3>2
    <3> QED BY <3>1, <3>2
  <2>3. p \in DOMAIN dst
    BY <1>7, Typed
  <2>4. dst' = [dst EXCEPT ![p] = total[p + 1] - total[c[w]]]
    BY <1>6, <2>2, <2>3 DEF Write
  <2>5. total[p + 1] - total[c[w]] \in Int
    BY <1>8, <2>1
  <2> QED BY <2>4, <2>5
<1>11. stray' = {}
  BY <1>1, <1>2, <1>6, <1>7 DEF Uses
<1>12. /\ TypeOK' /\ LockInv(n, c, total)' /\ WorkerInv(n, c, total)'
       /\ \A u \in 0 .. n - 1 : pos'[u] = IF u = w THEN pos[w] + 1 ELSE pos[u]
       /\ \A i \in 0 .. ns - 1 : /\ dst'[i] = IF i = p THEN v ELSE dst[i]
                                 /\ i # p => Source'[i] = Source[i]
  <2>1. Advances(c, w, p, v)
    BY <1>6, <1>7, <1>10, <1>11 DEF Advances
  <2> QED BY <2>1, Advance
<1>13. pc' = pc /\ given' = given
  BY <1>6
<1>14. ChunkInv(n, c, total)'
  <2> SUFFICES ASSUME NEW u \in 0 .. n - 1, NEW i \in Chunk(c, u)
               PROVE  /\ Raw(u, i - c[u])' => Source'[i] = given'[i]
                      /\ ~Raw(u, i - c[u])' /\ (u = 0 \/ ~Full(u, i - c[u])')
                           => dst'[i] = total[i + 1] - total[c[u]]
                      /\ u # 0 /\ Full(u, i - c[u])' => dst'[i] = total[i + 1]
    BY DEF ChunkInv
  <2>1. u \in 0 .. n /\ i \in 0 .. ns - 1 /\ i \in Int /\ c[u] \in Nat
    <3>1. u \in 0 .. n
      BY <1>1
    <3> QED BY <1>1, <3>1
  <2>2. /\ Raw(u, i - c[u]) => Source[i] = given[i]
        /\ ~Raw(u, i - c[u]) /\ (u = 0 \/ ~Full(u, i - c[u]))
             => dst[i] = total[i + 1] - total[c[u]]
        /\ u # 0 /\ Full(u, i - c[u]) => dst[i] = total[i + 1]
    BY <1>2 DEF ChunkInv
  <2>3. CASE i = p
    <3>1. u = w
      BY <1>1, <1>4, <1>7, <2>1, <2>3
    <3>2. ~Raw(u, i - c[u])' /\ ~Full(u, i - c[u])'
      BY <1>4, <1>6, <1>7, <1>12, <1>13, <2>3, <3>1 DEF Raw, Full
    <3> QED BY <1>10, <1>12, <2>1, <2>3, <3>1, <3>2
  <2>4. CASE i # p
    <3>1. /\ Raw(u, i - c[u])' <=> Raw(u, i - c[u])
          /\ Full(u, i - c[u])' <=> Full(u, i - c[u])
      <4>1. CASE u = w
        <5>1. i - c[w] # pos[w] /\ i - c[w] \in Int
          BY <1>4, <1>5, <2>1, <2>4, <4>1
        <5> QED BY <1>4, <1>6, <1>12, <1>13, <4>1, <5>1 DEF Raw, Full
      <4>2. CASE u # w
        BY <1>12, <1>13, <4>2 DEF Raw, Full
      <4> QED BY <4>1, <4>2
    <3> QED BY <1>12, <1>13, <2>1, <2>2, <2>4, <3>1
  <2> QED BY <2>3, <2>4
<1>15. LastInv(n, c, total)'
  <2> SUFFICES ASSUME NEW i \in Chunk(c, n)
               PROVE  IF Full(0, i - c[n])' THEN dst'[i] = total[i + 1]
                      ELSE Source'[i] = given'[i]
    BY DEF LastInv
  <2>1. n \in 0 .. n /\ n # w /\ 0 \in 0 .. n - 1
    BY <1>1
  <2>2. i \in 0 .. ns - 1 /\ i # p
    BY <1>1, <1>4, <1>7, <2>1
  <2>3. Full(0, i - c[n])' <=> Full(0, i - c[n])
    BY <1>6, <1>12, <1>13, <2>1 DEF Full
  <2> QED BY <1>2, <1>12, <1>13, <2>2, <2>3 DEF LastInv
<1> QED BY <1>11, <1>12, <1>14, <1>15 DEF WaitInv

\* Phase 2: worker 0 sums up the last chunk, from the sum of everything before.
LEMMA LastStep ==
  ASSUME NEW n, NEW c, NEW total, Working(n, c, total), Phase2Sum
  PROVE  TypeOK' /\ stray' = {} /\ WaitInv(n, c, total)'
<1>1. /\ n \in Nat /\ n >= 1 /\ ns \in Nat /\ Elem = 0 .. ns - 1
      /\ \A u \in 0 .. n : /\ c[u] \in Nat /\ c[u + 1] \in Nat /\ c[u] < c[u + 1]
                           /\ c[u + 1] <= ns /\ Chunk(c, u) \subseteq Elem
      /\ \A u, x \in 0 .. n : \A i \in Chunk(c, u) : i \in Chunk(c, x) => u = x
      /\ c[0] = 0 /\ c[n + 1] = ns /\ c[1] = ns - c[n]
      /\ Phase2Ind(0) = c[n]
      /\ \A u \in 0 .. n - 1 : Phase2Sz(u) = c[u + 1] - c[u]
      /\ \A i \in 0 .. ns : total[i] \in Int
      /\ \A i \in Elem : total[i + 1] = total[i] + given[i]
  BY FrameFacts, SMTT(30) DEF Working
<1>2. /\ ChunkInv(n, c, total) /\ LastInv(n, c, total) /\ WorkerInv(n, c, total)
      /\ stray = {}
  BY DEF Working, WaitInv
<1>3. 0 \in 0 .. n - 1 /\ n \in 0 .. n /\ 0 \in 0 .. n /\ 0 + 1 = 1
  BY <1>1
<1>4. pos[0] \in Nat
  <2>1. pos[0] \in 0 .. ns
    BY <1>3, Typed
  <2> QED BY <1>1, <2>1
<1>5. PICK p : p = c[n] + pos[0]
  OBVIOUS
<1>6. /\ pc[0] = "phase2" /\ pos[0] < ns - c[n]
      /\ dst' = Write(dst, p, Read(Source, p)
                                + (IF pos[0] = 0 THEN val[0] ELSE Read(dst, p - 1)))
      /\ Uses(IF pos[0] = 0 THEN {p} ELSE {p - 1, p})
      /\ pos' = [pos EXCEPT ![0] = @ + 1]
      /\ UNCHANGED <<params, src, paste, lock, pc, val, caller, calls, given>>
  <2>1. Phase2Sz(0) = ns - c[n] /\ ns - c[n] > 0
    <3>1. Phase2Sz(0) = c[0 + 1] - c[0]
      BY <1>1, <1>3
    <3>2. c[n] < ns /\ c[n] \in Nat
      BY <1>1, <1>3
    <3> QED BY <1>1, <1>3, <3>1, <3>2
  <2>2. pos[0] = 0 \/ pos[0] < ns - c[n]
    BY <2>1 DEF Phase2Sum
  <2>3. pos[0] < ns - c[n]
    BY <1>1, <1>4, <2>1, <2>2
  <2> QED BY <1>1, <1>5, <2>3 DEF Phase2Sum, scanOp
<1>7. /\ p \in Chunk(c, n) /\ p \in 0 .. ns - 1 /\ p - c[n] = pos[0] /\ p \in 0 .. ns
      /\ p + 1 \in 0 .. ns /\ c[n] \in 0 .. ns
      /\ pos[0] # 0 => /\ p - 1 \in Chunk(c, n) /\ p - 1 \in 0 .. ns - 1
                       /\ (p - 1) - c[n] = pos[0] - 1 /\ (p - 1) + 1 = p
  <2>2. PICK a \in Nat, s \in Nat : a = c[n] /\ s = pos[0]
    BY <1>1, <1>3, <1>4
  <2>3. p = a + s /\ s < ns - a /\ Chunk(c, n) = a .. ns - 1
    BY <1>1, <1>5, <1>6, <2>2 DEF Chunk
  <2>4. /\ p \in a .. ns - 1 /\ p \in 0 .. ns - 1 /\ p - a = s /\ p \in 0 .. ns
        /\ p + 1 \in 0 .. ns /\ a \in 0 .. ns
    BY <1>1, <2>3
  <2>5. s # 0 => /\ p - 1 \in a .. ns - 1 /\ p - 1 \in 0 .. ns - 1
                 /\ (p - 1) - a = s - 1 /\ (p - 1) + 1 = p
    BY <1>1, <2>3
  <2> QED BY <2>2, <2>3, <2>4, <2>5
<1>8. Read(Source, p) = given[p] /\ given[p] \in Int
  <2>1. ~Full(0, p - c[n])
    BY <1>4, <1>6, <1>7 DEF Full
  <2>2. Source[p] = given[p]
    BY <1>2, <1>7, <2>1 DEF LastInv
  <2>3. p \in DOMAIN Source
    BY <1>7, Typed DEF Source
  <2> QED BY <1>7, <2>2, <2>3, Typed DEF Read
<1>9. (IF pos[0] = 0 THEN val[0] ELSE Read(dst, p - 1)) = total[p]
  <2>1. CASE pos[0] = 0
    <3>1. val[0] = total[c[n]]
      BY <1>2, <1>3, <1>6 DEF WorkerInv
    <3>2. p = c[n]
      BY <1>1, <1>3, <1>5, <2>1
    <3> QED BY <2>1, <3>1, <3>2
  <2>2. CASE pos[0] # 0
    <3>1. Full(0, (p - 1) - c[n])
      BY <1>4, <1>6, <1>7, <2>2 DEF Full
    <3>2. dst[p - 1] = total[p]
      BY <1>2, <1>7, <2>2, <3>1 DEF LastInv
    <3> QED BY <1>7, <2>2, <3>2, Typed DEF Read
  <2> QED BY <2>1, <2>2
<1>10. PICK v \in Int : v = total[p + 1] /\ dst' = [dst EXCEPT ![p] = v]
  <2>1. total[p] \in Int /\ total[p + 1] \in Int /\ total[p + 1] = total[p] + given[p]
    BY <1>1, <1>7
  <2>2. p \in DOMAIN dst
    BY <1>7, Typed
  <2>3. dst' = [dst EXCEPT ![p] = given[p] + total[p]]
    BY <1>6, <1>8, <1>9, <2>2 DEF Write
  <2>4. given[p] + total[p] = total[p + 1]
    BY <1>8, <2>1
  <2> QED BY <2>1, <2>3, <2>4
<1>11. stray' = {}
  BY <1>1, <1>2, <1>6, <1>7 DEF Uses
<1>12. /\ TypeOK' /\ LockInv(n, c, total)' /\ WorkerInv(n, c, total)'
       /\ \A u \in 0 .. n - 1 : pos'[u] = IF u = 0 THEN pos[0] + 1 ELSE pos[u]
       /\ \A i \in 0 .. ns - 1 : /\ dst'[i] = IF i = p THEN v ELSE dst[i]
                                 /\ i # p => Source'[i] = Source[i]
  <2>0. pos[0] < c[0 + 1] - c[0]
    BY <1>1, <1>3, <1>6
  <2>1. Advances(c, 0, p, v)
    BY <1>6, <1>7, <1>10, <1>11, <2>0 DEF Advances
  <2> QED BY <1>3, <2>1, Advance
<1>13. pc' = pc /\ given' = given
  BY <1>6
<1>14. ChunkInv(n, c, total)'
  <2> SUFFICES ASSUME NEW u \in 0 .. n - 1, NEW i \in Chunk(c, u)
               PROVE  /\ Raw(u, i - c[u])' => Source'[i] = given'[i]
                      /\ ~Raw(u, i - c[u])' /\ (u = 0 \/ ~Full(u, i - c[u])')
                           => dst'[i] = total[i + 1] - total[c[u]]
                      /\ u # 0 /\ Full(u, i - c[u])' => dst'[i] = total[i + 1]
    BY DEF ChunkInv
  <2>1. u \in 0 .. n /\ u # n
    BY <1>1
  <2>2. i \in 0 .. ns - 1 /\ i # p
    BY <1>1, <1>3, <1>7, <2>1
  <2>3. /\ Raw(u, i - c[u]) => Source[i] = given[i]
        /\ ~Raw(u, i - c[u]) /\ (u = 0 \/ ~Full(u, i - c[u]))
             => dst[i] = total[i + 1] - total[c[u]]
        /\ u # 0 /\ Full(u, i - c[u]) => dst[i] = total[i + 1]
    BY <1>2 DEF ChunkInv
  <2>4. /\ Raw(u, i - c[u])' <=> Raw(u, i - c[u])
        /\ u # 0 => (Full(u, i - c[u])' <=> Full(u, i - c[u]))
    BY <1>6, <1>12, <1>13 DEF Raw, Full
  <2> QED BY <1>12, <1>13, <2>2, <2>3, <2>4
<1>15. LastInv(n, c, total)'
  <2> SUFFICES ASSUME NEW i \in Chunk(c, n)
               PROVE  IF Full(0, i - c[n])' THEN dst'[i] = total[i + 1]
                      ELSE Source'[i] = given'[i]
    BY DEF LastInv
  <2>1. i \in 0 .. ns - 1 /\ i \in Int /\ c[n] \in Nat
    BY <1>1, <1>3
  <2>2. CASE i = p
    <3>1. Full(0, i - c[n])'
      BY <1>3, <1>4, <1>6, <1>7, <1>12, <1>13, <2>2 DEF Full
    <3> QED BY <1>10, <1>12, <2>1, <2>2, <3>1
  <2>3. CASE i # p
    <3>1. i - c[n] # pos[0] /\ i - c[n] \in Int
      BY <1>4, <1>5, <2>1, <2>3
    <3>2. Full(0, i - c[n])' <=> Full(0, i - c[n])
      BY <1>3, <1>4, <1>6, <1>12, <1>13, <3>1 DEF Full
    <3> QED BY <1>2, <1>12, <1>13, <2>1, <2>3, <3>2 DEF LastInv
  <2> QED BY <2>2, <2>3
<1> QED BY <1>11, <1>12, <1>14, <1>15 DEF WaitInv

\* Phase 2: the sum of everything before the chunk is added to the next element.
LEMMA CombineStep ==
  ASSUME NEW n, NEW c, NEW total, Working(n, c, total), NEW w \in 0 .. n - 1,
         Phase2Combine(w)
  PROVE  TypeOK' /\ stray' = {} /\ WaitInv(n, c, total)'
<1>1. /\ n \in Nat /\ n >= 1 /\ ns \in Nat /\ Elem = 0 .. ns - 1
      /\ \A u \in 0 .. n : /\ c[u] \in Nat /\ c[u + 1] \in Nat /\ c[u] < c[u + 1]
                           /\ c[u + 1] <= ns /\ Chunk(c, u) \subseteq Elem
      /\ \A u, x \in 0 .. n : \A i \in Chunk(c, u) : i \in Chunk(c, x) => u = x
      /\ w # 0 => Phase2Ind(w) = c[w]
      /\ Phase2Sz(w) = c[w + 1] - c[w]
      /\ \A i \in 0 .. ns : total[i] \in Int
  BY FrameFacts, SMTT(30) DEF Working
<1>2. /\ ChunkInv(n, c, total) /\ LastInv(n, c, total) /\ WorkerInv(n, c, total)
      /\ stray = {}
  BY DEF Working, WaitInv
<1>3. pos[w] \in 0 .. ns
  BY Typed
<1>4. w \in 0 .. n /\ pos[w] \in Nat
  BY <1>1, <1>3
<1>5. PICK p : p = c[w] + pos[w]
  OBVIOUS
<1>6. /\ w # 0 /\ pc[w] = "phase2" /\ pos[w] < c[w + 1] - c[w]
      /\ dst' = Write(dst, p, val[w] + Read(dst, p))
      /\ Uses({p})
      /\ pos' = [pos EXCEPT ![w] = @ + 1]
      /\ UNCHANGED <<params, src, paste, lock, pc, val, caller, calls, given>>
  BY <1>1, <1>5 DEF Phase2Combine, combiner
<1>7. /\ p \in Chunk(c, w) /\ p \in 0 .. ns - 1 /\ p - c[w] = pos[w]
      /\ p + 1 \in 0 .. ns /\ c[w] \in 0 .. ns
  <2>1. c[w] \in Nat /\ c[w + 1] \in Nat /\ c[w + 1] <= ns
    BY <1>1, <1>4
  <2>2. PICK a \in Nat, b \in Nat, s \in Nat : a = c[w] /\ b = c[w + 1] /\ s = pos[w]
    BY <1>4, <2>1
  <2>3. p = a + s /\ s < b - a /\ b <= ns /\ Chunk(c, w) = a .. b - 1
    BY <1>5, <1>6, <2>1, <2>2 DEF Chunk
  <2>4. /\ p \in a .. b - 1 /\ p \in 0 .. ns - 1 /\ p - a = s
        /\ p + 1 \in 0 .. ns /\ a \in 0 .. ns
    BY <1>1, <2>3
  <2> QED BY <2>2, <2>3, <2>4
<1>8. Read(dst, p) = total[p + 1] - total[c[w]]
  <2>1. ~Raw(w, p - c[w]) /\ ~Full(w, p - c[w])
    BY <1>4, <1>6, <1>7 DEF Raw, Full
  <2>2. dst[p] = total[p + 1] - total[c[w]]
    BY <1>2, <1>7, <2>1 DEF ChunkInv
  <2> QED BY <1>7, <2>2, Typed DEF Read
<1>9. val[w] = total[c[w]]
  BY <1>2, <1>6 DEF WorkerInv
<1>10. PICK v \in Int : v = total[p + 1] /\ dst' = [dst EXCEPT ![p] = v]
  <2>1. total[p + 1] \in Int /\ total[c[w]] \in Int
    BY <1>1, <1>7
  <2>2. p \in DOMAIN dst
    BY <1>7, Typed
  <2>3. dst' = [dst EXCEPT ![p] = total[c[w]] + (total[p + 1] - total[c[w]])]
    BY <1>6, <1>8, <1>9, <2>2 DEF Write
  <2>4. total[c[w]] + (total[p + 1] - total[c[w]]) = total[p + 1]
    BY <2>1
  <2> QED BY <2>1, <2>3, <2>4
<1>11. stray' = {}
  BY <1>1, <1>2, <1>6, <1>7 DEF Uses
<1>12. /\ TypeOK' /\ LockInv(n, c, total)' /\ WorkerInv(n, c, total)'
       /\ \A u \in 0 .. n - 1 : pos'[u] = IF u = w THEN pos[w] + 1 ELSE pos[u]
       /\ \A i \in 0 .. ns - 1 : /\ dst'[i] = IF i = p THEN v ELSE dst[i]
                                 /\ i # p => Source'[i] = Source[i]
  <2>1. Advances(c, w, p, v)
    BY <1>6, <1>7, <1>10, <1>11 DEF Advances
  <2> QED BY <2>1, Advance
<1>13. pc' = pc /\ given' = given
  BY <1>6
<1>14. ChunkInv(n, c, total)'
  <2> SUFFICES ASSUME NEW u \in 0 .. n - 1, NEW i \in Chunk(c, u)
               PROVE  /\ Raw(u, i - c[u])' => Source'[i] = given'[i]
                      /\ ~Raw(u, i - c[u])' /\ (u = 0 \/ ~Full(u, i - c[u])')
                           => dst'[i] = total[i + 1] - total[c[u]]
                      /\ u # 0 /\ Full(u, i - c[u])' => dst'[i] = total[i + 1]
    BY DEF ChunkInv
  <2>1. u \in 0 .. n /\ i \in 0 .. ns - 1 /\ i \in Int /\ c[u] \in Nat
    <3>1. u \in 0 .. n
      BY <1>1
    <3> QED BY <1>1, <3>1
  <2>2. /\ Raw(u, i - c[u]) => Source[i] = given[i]
        /\ ~Raw(u, i - c[u]) /\ (u = 0 \/ ~Full(u, i - c[u]))
             => dst[i] = total[i + 1] - total[c[u]]
        /\ u # 0 /\ Full(u, i - c[u]) => dst[i] = total[i + 1]
    BY <1>2 DEF ChunkInv
  <2>3. CASE i = p
    <3>1. u = w
      BY <1>1, <1>4, <1>7, <2>1, <2>3
    <3>2. ~Raw(u, i - c[u])' /\ Full(u, i - c[u])'
      BY <1>4, <1>6, <1>7, <1>12, <1>13, <2>3, <3>1 DEF Raw, Full
    <3> QED BY <1>6, <1>10, <1>12, <2>1, <2>3, <3>1, <3>2
  <2>4. CASE i # p
    <3>1. /\ Raw(u, i - c[u])' <=> Raw(u, i - c[u])
          /\ Full(u, i - c[u])' <=> Full(u, i - c[u])
      <4>1. CASE u = w
        <5>1. i - c[w] # pos[w] /\ i - c[w] \in Int
          BY <1>4, <1>5, <2>1, <2>4, <4>1
        <5> QED BY <1>4, <1>6, <1>12, <1>13, <4>1, <5>1 DEF Raw, Full
      <4>2. CASE u # w
        BY <1>12, <1>13, <4>2 DEF Raw, Full
      <4> QED BY <4>1, <4>2
    <3> QED BY <1>12, <1>13, <2>1, <2>2, <2>4, <3>1
  <2> QED BY <2>3, <2>4
<1>15. LastInv(n, c, total)'
  <2> SUFFICES ASSUME NEW i \in Chunk(c, n)
               PROVE  IF Full(0, i - c[n])' THEN dst'[i] = total[i + 1]
                      ELSE Source'[i] = given'[i]
    BY DEF LastInv
  <2>1. n \in 0 .. n /\ n # w /\ 0 \in 0 .. n - 1
    BY <1>1
  <2>2. i \in 0 .. ns - 1 /\ i # p
    BY <1>1, <1>4, <1>7, <2>1
  <2>3. Full(0, i - c[n])' <=> Full(0, i - c[n])
    BY <1>6, <1>12, <1>13, <2>1 DEF Full
  <2> QED BY <1>2, <1>12, <1>13, <2>2, <2>3 DEF LastInv
<1> QED BY <1>11, <1>12, <1>14, <1>15 DEF WaitInv

-----------------------------------------------------------------------------
(***************************************************************************)
(* The invariant holds.                                                    *)
(***************************************************************************)
\* The workers that were created.
LEMMA StartedWorkers ==
  ASSUME TypeOK
  PROVE  Started \subseteq Worker /\ (0 \in Started <=> started > 0)
<1>1. nt \in Nat /\ started \in 0 .. nt
  BY WorkerCount DEF TypeOK
<1> QED BY <1>1 DEF Started, Worker

\* The steps of a worker are its own.
LEMMA OtherWorkers ==
  ASSUME TypeOK, NEW w \in Worker, Work(w), NEW u \in Worker, u # w
  PROVE  pc'[u] = pc[u] /\ pos'[u] = pos[u]
<1>1. \/ Phase0Sum(w) \/ Phase0Paste(w) \/ Phase0Done(w)
      \/ w = 0 /\ (Phase1First \/ Phase1Scan \/ Phase1Release \/ Phase2Sum)
      \/ Phase1End(w) \/ Phase2Combine(w) \/ Phase2End(w)
  BY DEF Work
<1>2. DOMAIN pc = Worker /\ DOMAIN pos = Worker
  BY DEF TypeOK
<1> QED BY <1>1, <1>2 DEF Phase0Sum, Phase0Paste, Phase0Done, Phase1First, Phase1Scan,
                          Phase1Release, Phase2Sum, Phase1End, Phase2Combine, Phase2End

\* The steps of a worker, which are during a call.
LEMMA WorkStep ==
  ASSUME NEW n, NEW c, NEW total, TypeOK, stray = {}, Frame(n, c, total), Inv(n, c, total),
         NEW w \in Started, Work(w)
  PROVE  TypeOK' /\ stray' = {} /\ Frame(n, c, total)' /\ Inv(n, c, total)'
<1>1. pc[w] \notin {"none", "over"}
  <2>1. \/ Phase0Sum(w) \/ Phase0Paste(w) \/ Phase0Done(w)
        \/ w = 0 /\ (Phase1First \/ Phase1Scan \/ Phase1Release \/ Phase2Sum)
        \/ Phase1End(w) \/ Phase2Combine(w) \/ Phase2End(w)
    BY DEF Work
  <2> QED BY <2>1 DEF Phase0Sum, Phase0Paste, Phase0Done, Phase1First, Phase1Scan,
                      Phase1Release, Phase2Sum, Phase1End, Phase2Combine, Phase2End
<1>2. caller = "wait"
  BY <1>1 DEF Inv, UserInv, TypeOK
<1>3. Working(n, c, total) /\ w \in 0 .. n - 1 /\ w \in Worker
  BY <1>2, StartedWorkers DEF Working, Inv, Frame, Worker
<1>4. TypeOK' /\ stray' = {} /\ WaitInv(n, c, total)'
  <2>1. CASE Phase0Sum(w)
    BY <1>3, <2>1, SumStep
  <2>2. CASE Phase0Paste(w)
    BY <1>3, <2>2, PasteStep
  <2>3. CASE Phase0Done(w)
    BY <1>3, <2>3, DoneStep
  <2>4. CASE Phase1First
    BY <1>3, <2>4, FirstStep
  <2>5. CASE Phase1Scan
    BY <1>3, <2>5, ScanStep
  <2>6. CASE Phase1Release
    BY <1>3, <2>6, ReleaseStep
  <2>7. CASE Phase2Sum
    BY <1>3, <2>7, LastStep
  <2>8. CASE Phase1End(w)
    BY <1>3, <2>8, WaitedStep
  <2>9. CASE Phase2Combine(w)
    BY <1>3, <2>9, CombineStep
  <2>10. CASE Phase2End(w)
    BY <1>3, <2>10, OverStep
  <2> QED BY <2>1, <2>2, <2>3, <2>4, <2>5, <2>6, <2>7, <2>8, <2>9, <2>10 DEF Work
<1>5. UNCHANGED <<params, src, caller, given>>
  <2>1. \/ Phase0Sum(w) \/ Phase0Paste(w) \/ Phase0Done(w)
        \/ w = 0 /\ (Phase1First \/ Phase1Scan \/ Phase1Release \/ Phase2Sum)
        \/ Phase1End(w) \/ Phase2Combine(w) \/ Phase2End(w)
    BY DEF Work
  <2> QED BY <2>1 DEF Phase0Sum, Phase0Paste, Phase0Done, Phase1First, Phase1Scan, data,
                      Phase1Release, Phase2Sum, Phase1End, Phase2Combine, Phase2End
<1>6. /\ nt' = nt /\ ns' = ns /\ inPlace' = inPlace /\ started' = started
      /\ Divides' = Divides
  BY <1>5, SameSets DEF params
<1>7. Frame(n, c, total)'
  BY <1>5, <1>6 DEF Frame
<1>8. RefusedInv(n)'
  <2>1. ASSUME NEW u \in started .. n - 1 PROVE pc'[u] = "phase0" /\ pos'[u] = 0
    <3>1. u \in Worker /\ u # w
      <4>1. started \in 0 .. nt /\ nt \in Nat /\ n = nt
        BY WorkerCount DEF TypeOK, Frame
      <4> QED BY <4>1 DEF Started, Worker
    <3>2. pc[u] = "phase0" /\ pos[u] = 0
      BY <1>2, <2>1 DEF Inv, RefusedInv
    <3> QED BY <1>3, <3>1, <3>2, OtherWorkers
  <2> QED BY <1>6, <2>1 DEF RefusedInv
<1>9. Inv(n, c, total)'
  BY <1>2, <1>4, <1>5, <1>6, <1>8 DEF Inv
<1> QED BY <1>4, <1>7, <1>9

\* The types, when the elements cannot be divided among the workers.
LEMMA WorkTypes ==
  ASSUME TypeOK, ~Divides, NEW w \in Worker, Work(w)
  PROVE  TypeOK' /\ ~Divides'
<1>1. size \in Nat /\ ns \in Nat /\ nt \in Nat /\ nt <= size /\ nt >= 1 /\ w \in Nat
  <2>1. size \in Nat /\ ns \in Nat /\ nt \in Nat /\ nt <= size
    BY WorkerCount
  <2> QED BY <2>1 DEF Worker
<1>2. \/ Phase0Sum(w) \/ Phase0Paste(w) \/ Phase0Done(w)
      \/ w = 0 /\ (Phase1First \/ Phase1Scan \/ Phase1Release \/ Phase2Sum)
      \/ Phase1End(w) \/ Phase2Combine(w) \/ Phase2End(w)
  BY DEF Work
<1>3. UNCHANGED <<params, src, caller, calls, given>>
  BY <1>2 DEF Phase0Sum, Phase0Paste, Phase0Done, Phase1First, Phase1Scan, data,
              Phase1Release, Phase2Sum, Phase1End, Phase2Combine, Phase2End
<1>4. /\ Worker' = Worker /\ Elem' = Elem /\ Slot' = Slot /\ nt' = nt /\ ~Divides'
      /\ size' = size /\ ns' = ns /\ inPlace' = inPlace /\ started' = started
  BY <1>3, SameSets DEF params
<1>5. /\ src \in [Elem -> Int] /\ dst \in [Elem -> Int] /\ Source \in [Elem -> Int]
      /\ paste \in [Slot -> Int] /\ lock \in [Slot -> 0 .. 2]
      /\ pc \in [Worker -> States]
      /\ pos \in [Worker -> Nat] /\ val \in [Worker -> Int] /\ stray \subseteq Int
  BY DEF TypeOK, States, Source
<1>6. /\ \A a \in [Elem -> Int] : \A i : Read(a, i) \in Int
      /\ \A i : \A v \in Int : Write(dst, i, v) \in [Elem -> Int]
  BY <1>5 DEF Read, Write, Junk
<1>7. /\ Phase0Ind(w) \in Int /\ Phase0Sz(w) \in Int /\ Phase2Ind(w) \in Int
  <2>1. nt + 1 \in Nat \ {0}
    BY <1>1
  <2>2. divSz \in Nat /\ bigs \in Nat
    BY <1>1, <2>1, DivMod DEF divSz, bigs
  <2>3. divSz * w \in Int
    BY <1>1, <2>2
  <2> QED BY <1>1, <2>2, <2>3 DEF Phase0Ind, Phase0Sz, Phase2Ind
<1>8. /\ Worker \subseteq Slot /\ pos[w] \in Nat /\ val[w] \in Int
      /\ 0 \in Worker /\ nt - 1 \in Worker
  BY <1>1, <1>5 DEF Worker, Slot
<1>9. /\ dst' \in [Elem -> Int] /\ paste' \in [Slot -> Int] /\ lock' \in [Slot -> 0 .. 2]
      /\ pc' \in [Worker -> States] /\ pos' \in [Worker -> Nat]
      /\ val' \in [Worker -> Int] /\ stray' \subseteq Int
  <2>1. CASE Phase0Sum(w)
    <3>1. PICK i \in Int : i = Phase0Ind(w) + pos[w]
      BY <1>7, <1>8
    <3>2. /\ dst' = Write(dst, i, IF pos[w] = 0 THEN transmute(Read(Source, i))
                                   ELSE scanOp(Read(Source, i), Read(dst, i - 1)))
          /\ stray' \subseteq stray \cup {i - 1, i}
          /\ pos' = [pos EXCEPT ![w] = @ + 1]
          /\ UNCHANGED <<paste, lock, pc, val>>
      BY <2>1, <3>1 DEF Phase0Sum, Uses
    <3>3. /\ transmute(Read(Source, i)) \in Int
          /\ scanOp(Read(Source, i), Read(dst, i - 1)) \in Int
      BY <1>5, <1>6 DEF transmute, scanOp
    <3>4. dst' \in [Elem -> Int]
      BY <1>6, <3>2, <3>3
    <3>5. pos' \in [Worker -> Nat] /\ stray' \subseteq Int
      BY <1>5, <1>8, <3>2
    <3> QED BY <1>5, <3>2, <3>4, <3>5
  <2>2. CASE Phase0Paste(w)
    <3>1. PICK i \in Int : i = Phase0Ind(w) + Phase0Sz(w) - 1
      BY <1>7
    <3>2. /\ paste' = [paste EXCEPT ![w] = Read(dst, i)] /\ stray' \subseteq stray \cup {i}
          /\ pc' = [pc EXCEPT ![w] = "pasted"]
          /\ UNCHANGED <<dst, lock, pos, val>>
      BY <2>2, <3>1 DEF Phase0Paste, Uses
    <3> QED BY <1>5, <1>6, <1>8, <3>2 DEF States
  <2>3. CASE Phase0Done(w)
    BY <1>5, <1>8, <2>3 DEF Phase0Done, States
  <2>4. CASE Phase1First
    BY <1>5, <1>8, <2>4 DEF Phase1First
  <2>5. CASE Phase1Scan
    <3>1. PICK i \in 1 .. nt - 1 : i = pos[0]
      BY <2>5 DEF Phase1Scan
    <3>2. i \in Slot /\ i - 1 \in Slot
      BY <1>1 DEF Slot
    <3>3. combiner(paste[i], paste[i - 1]) \in Int
      BY <1>5, <3>2 DEF combiner
    <3>4. /\ paste' = [paste EXCEPT ![i] = combiner(paste[i], paste[i - 1])]
          /\ pc' = [pc EXCEPT ![0] = "scanned"]
          /\ UNCHANGED <<dst, lock, pos, val, stray>>
      BY <2>5, <3>1 DEF Phase1Scan
    <3> QED BY <1>5, <3>3, <3>4 DEF States
  <2>6. CASE Phase1Release
    <3>1. /\ lock' = [lock EXCEPT ![pos[0]] = 2] /\ pos' = [pos EXCEPT ![0] = @ + 1]
          /\ pc' = [pc EXCEPT ![0] = "phase1"]
          /\ UNCHANGED <<dst, paste, val, stray>>
      BY <2>6 DEF Phase1Release
    <3>2. pos' \in [Worker -> Nat]
      <4>1. pos[0] + 1 \in Nat
        BY <1>5, <1>8
      <4>2. pos' = [pos EXCEPT ![0] = pos[0] + 1]
        BY <3>1
      <4> QED BY <1>5, <4>1, <4>2
    <3>3. lock' \in [Slot -> 0 .. 2]
      <4>1. PICK z : lock' = [lock EXCEPT ![z] = 2]
        BY <3>1
      <4>2. lock \in [Slot -> 0 .. 2] /\ 2 \in 0 .. 2
        BY <1>5
      <4>3. \A f \in [Slot -> 0 .. 2] : \A v \in 0 .. 2 : [f EXCEPT ![z] = v] \in [Slot -> 0 .. 2]
        OBVIOUS
      <4> QED BY <4>1, <4>2, <4>3
    <3>4. pc' \in [Worker -> States]
      BY <1>5, <3>1 DEF States
    <3> QED BY <1>5, <3>1, <3>2, <3>3, <3>4
  <2>7. CASE w = 0 /\ Phase2Sum
    <3>1. PICK i \in Int : i = Phase2Ind(0) + pos[0]
      BY <1>7, <1>8, <2>7
    <3>2. /\ dst' = Write(dst, i, scanOp(Read(Source, i),
                                         IF pos[0] = 0 THEN val[0] ELSE Read(dst, i - 1)))
          /\ stray' \subseteq stray \cup {i - 1, i}
          /\ pos' = [pos EXCEPT ![0] = @ + 1]
          /\ UNCHANGED <<paste, lock, pc, val>>
      BY <2>7, <3>1 DEF Phase2Sum, Uses
    <3>3. scanOp(Read(Source, i), IF pos[0] = 0 THEN val[0] ELSE Read(dst, i - 1)) \in Int
      BY <1>5, <1>6, <1>8, <2>7 DEF scanOp
    <3>4. dst' \in [Elem -> Int]
      BY <1>6, <3>2, <3>3
    <3>5. pos' \in [Worker -> Nat] /\ stray' \subseteq Int
      BY <1>5, <1>8, <3>2
    <3> QED BY <1>5, <3>2, <3>4, <3>5
  <2>8. CASE Phase1End(w)
    <3>1. (IF w # 0 THEN w - 1 ELSE nt - 1) \in Slot
      BY <1>1, <1>8 DEF Worker, Slot
    <3> QED BY <1>5, <2>8, <3>1 DEF Phase1End, data, States
  <2>9. CASE Phase2Combine(w)
    <3>1. PICK i \in Int : i = Phase2Ind(w) + pos[w]
      BY <1>7, <1>8
    <3>2. /\ dst' = Write(dst, i, combiner(val[w], Read(dst, i)))
          /\ stray' \subseteq stray \cup {i}
          /\ pos' = [pos EXCEPT ![w] = @ + 1]
          /\ UNCHANGED <<paste, lock, pc, val>>
      BY <2>9, <3>1 DEF Phase2Combine, Uses
    <3>3. combiner(val[w], Read(dst, i)) \in Int
      BY <1>5, <1>6, <1>8 DEF combiner
    <3>4. dst' \in [Elem -> Int]
      BY <1>6, <3>2, <3>3
    <3>5. pos' \in [Worker -> Nat] /\ stray' \subseteq Int
      BY <1>5, <1>8, <3>2
    <3> QED BY <1>5, <3>2, <3>4, <3>5
  <2>10. CASE Phase2End(w)
    BY <1>5, <2>10 DEF Phase2End, data, States
  <2> QED BY <1>2, <2>1, <2>2, <2>3, <2>4, <2>5, <2>6, <2>7, <2>8, <2>9, <2>10
<1> QED BY <1>3, <1>4, <1>9 DEF TypeOK, States

\* A call begins: the lock is free, and the source is what the user left there.
LEMMA CallStep ==
  ASSUME IInv, computePrefixSum
  PROVE  IInv'
<1>0. TypeOK
  BY DEF IInv
<1>1. /\ caller = "user" /\ calls < Calls /\ started' \in 0 .. nt
      /\ pc' = [w \in Worker |-> "phase0"]
      /\ pos' = [w \in Worker |-> 0]
      /\ val' = [w \in Worker |-> Junk]
      /\ caller' = "wait" /\ calls' = calls + 1 /\ given' = Source
      /\ UNCHANGED <<size, ns, inPlace, src, dst, paste, lock, stray>>
  BY DEF computePrefixSum, data
<1>2. /\ nt' = nt /\ ns' = ns /\ size' = size /\ inPlace' = inPlace
      /\ Worker' = Worker /\ Elem' = Elem /\ Slot' = Slot /\ Divides' = Divides
  <2>1. nt' = nt
    BY <1>1 DEF nt, Workers
  <2> QED BY <1>1, <2>1 DEF Worker, Elem, Slot, Divides, bigs
<1>3. size \in Nat /\ ns \in Nat /\ nt \in Nat
  BY <1>0, WorkerCount
<1>4. /\ Source \in [Elem -> Int] /\ Source' = Source
      /\ given' \in [0 .. ns - 1 -> Int]
  <2>1. src \in [Elem -> Int] /\ dst \in [Elem -> Int]
    BY <1>0 DEF TypeOK
  <2> QED BY <1>1, <2>1 DEF Source, Elem
<1>5. TypeOK'
  <2>1. calls + 1 \in 0 .. Calls
    <3>1. calls \in 0 .. Calls /\ Calls \in Nat
      BY <1>0, InstanceAssumption DEF TypeOK
    <3> QED BY <1>1, <3>1
  <2>2. 0 \in (IF Divides THEN 0 .. ns ELSE Nat) /\ Junk \in Int
    BY <1>3 DEF Junk
  <2>3. /\ pc' \in [Worker -> {"none", "phase0", "pasted", "phase1", "scanned", "phase2",
                               "over"}]
        /\ pos' \in [Worker -> IF Divides THEN 0 .. ns ELSE Nat] /\ val' \in [Worker -> Int]
    BY <1>1, <2>2
  <2> QED BY <1>0, <1>1, <1>2, <1>4, <2>1, <2>3 DEF TypeOK
<1> SUFFICES ASSUME Divides
             PROVE  stray' = {} /\ \E n, c, total : (Frame(n, c, total) /\ Inv(n, c, total))'
  BY <1>2, <1>5 DEF IInv
<1>6. PICK n, c, total : Frame(n, c, total) /\ Inv(n, c, total)
  BY DEF IInv
<1>7. /\ n \in Nat /\ n >= 1 /\ ns \in Nat /\ ns > n /\ size \in Nat /\ n <= size
      /\ Worker = 0 .. n - 1 /\ Elem = 0 .. ns - 1 /\ Slot = 0 .. size - 1
      /\ \A u \in 0 .. n : /\ c[u] \in Nat /\ c[u + 1] \in Nat /\ c[u] < c[u + 1]
                           /\ Chunk(c, u) \subseteq Elem
  BY <1>0, <1>6, FrameFacts
<1>8. \A u \in 0 .. n - 1 : pc'[u] = "phase0" /\ pos'[u] = 0
  BY <1>1, <1>7
<1>9. 0 \in 0 .. n - 1
  BY <1>7
<1>10. PICK sums : Totals(sums, given', ns)
  BY <1>3, <1>4, TotalsExist
<1>raw. \A u \in 0 .. n - 1 : \A j \in Nat : Raw(u, j)' /\ ~Full(u, j)'
  BY <1>8 DEF Raw, Full
<1>11. ChunkInv(n, c, sums)'
  <2> SUFFICES ASSUME NEW u \in 0 .. n - 1, NEW i \in Chunk(c, u)
               PROVE  /\ Raw(u, i - c[u])' => Source'[i] = given'[i]
                      /\ ~Raw(u, i - c[u])' /\ (u = 0 \/ ~Full(u, i - c[u])')
                           => dst'[i] = sums[i + 1] - sums[c[u]]
                      /\ u # 0 /\ Full(u, i - c[u])' => dst'[i] = sums[i + 1]
    BY DEF ChunkInv
  <2>1. i - c[u] \in Nat
    <3>1. u \in 0 .. n
      BY <1>7
    <3>2. c[u] \in Nat /\ c[u + 1] \in Nat
      BY <1>7, <3>1
    <3> QED BY <3>2 DEF Chunk
  <2> QED BY <1>1, <1>4, <1>raw, <2>1
<1>12. LastInv(n, c, sums)'
  <2> SUFFICES ASSUME NEW i \in Chunk(c, n)
               PROVE  IF Full(0, i - c[n])' THEN dst'[i] = sums[i + 1]
                      ELSE Source'[i] = given'[i]
    BY DEF LastInv
  <2> QED BY <1>1, <1>4, <1>8, <1>9 DEF Full
<1>13. LockInv(n, c, sums)'
  <2>1. Scanned(n)' = 0
    BY <1>8, <1>9 DEF Scanned
  <2>2. \A u \in 0 .. n - 1 : lock'[u] = 0
    BY <1>1, <1>6, <1>7 DEF Inv, UserInv
  <2> QED BY <1>7, <1>8, <2>1, <2>2 DEF LockInv, SlotInv
<1>14. WorkerInv(n, c, sums)'
  <2>1. \A u \in 0 .. n - 1 : 0 \in 0 .. c[u + 1] - c[u]
    BY <1>7
  <2> QED BY <1>8, <1>9, <2>1 DEF WorkerInv
<1>15. ~inPlace' => src' = given'
  BY <1>1, <1>2 DEF Source
<1>16. RefusedInv(n)'
  <2>1. started' .. n - 1 \subseteq 0 .. n - 1
    BY <1>1, <1>3
  <2> QED BY <1>8, <2>1 DEF RefusedInv
<1>17. Inv(n, c, sums)'
  BY <1>1, <1>11, <1>12, <1>13, <1>14, <1>15, <1>16 DEF Inv, WaitInv
<1>18. Frame(n, c, sums)'
  BY <1>2, <1>6, <1>10 DEF Frame
<1>19. stray' = {}
  BY <1>1 DEF IInv
<1> QED BY <1>17, <1>18, <1>19

\* All workers are over: every element is the sum of those up to it.
LEMMA ReturnStep ==
  ASSUME IInv, reset
  PROVE  IInv'
<1>0. TypeOK
  BY DEF IInv
<1>1. /\ caller = "wait" /\ \A w \in Started : pc[w] = "over"
      /\ lock' = [i \in Slot |-> 0] /\ caller' = "user"
      /\ UNCHANGED <<params, src, dst, paste, pc, pos, val, calls, given, stray>>
  BY DEF reset
<1>2. /\ nt' = nt /\ ns' = ns /\ size' = size /\ inPlace' = inPlace /\ started' = started
      /\ Worker' = Worker /\ Elem' = Elem /\ Slot' = Slot /\ Divides' = Divides
      /\ Started' = Started
  BY <1>1, SameSets DEF params
<1>3. TypeOK'
  <2>1. lock' \in [Slot -> 0 .. 2]
    BY <1>1
  <2> QED BY <1>0, <1>1, <1>2, <2>1 DEF TypeOK
<1> SUFFICES ASSUME Divides
             PROVE  stray' = {} /\ \E n, c, total : (Frame(n, c, total) /\ Inv(n, c, total))'
  BY <1>2, <1>3 DEF IInv
<1>4. PICK n, c, total : Frame(n, c, total) /\ Inv(n, c, total)
  BY DEF IInv
<1>5. /\ n \in Nat /\ n >= 1 /\ ns \in Nat /\ Cuts(c, n, ns)
      /\ Worker = 0 .. n - 1 /\ Elem = 0 .. ns - 1
      /\ c[0] = 0 /\ total[0] = 0 /\ \A i \in 0 .. ns : total[i] \in Int
  BY <1>0, <1>4, FrameFacts
<1>6. ChunkInv(n, c, total) /\ LastInv(n, c, total) /\ LockInv(n, c, total) /\ RefusedInv(n)
  BY <1>1, <1>4 DEF Inv, WaitInv
\* Worker 0 has seen all the others come, so none was refused.
<1>7. started > 0 => Started = Worker
  <2> SUFFICES ASSUME started > 0 PROVE Started = Worker
    OBVIOUS
  <2>1. started \in 0 .. n
    BY <1>0, <1>4 DEF TypeOK, Frame
  <2>2. pc[0] = "over"
    BY <1>1, <2>1 DEF Started
  <2>3. Scanned(n) = n
    BY <2>2 DEF Scanned
  <2>4. ASSUME started < n PROVE FALSE
    <3>1. started \in 0 .. n - 1 /\ started \in started .. n - 1 /\ started < Scanned(n)
      BY <1>5, <2>1, <2>3, <2>4
    <3>2. pc[started] \notin {"phase0", "pasted"}
      BY <1>6, <3>1 DEF LockInv, SlotInv
    <3> QED BY <1>6, <3>1, <3>2 DEF RefusedInv
  <2>5. started = n
    BY <1>5, <2>1, <2>4
  <2> QED BY <1>5, <2>5 DEF Started
<1>8. ASSUME started > 0, NEW i \in Elem PROVE dst[i] = total[i + 1]
  <2>0. \A w \in 0 .. n - 1 : pc[w] = "over"
    BY <1>1, <1>5, <1>7, <1>8
  <2>1. PICK w \in 0 .. n : i \in Chunk(c, w)
    BY <1>5, Covered
  <2>2. CASE w = n
    <3>1. Full(0, i - c[n])
      BY <1>5, <2>0 DEF Full
    <3> QED BY <1>6, <2>1, <2>2, <3>1 DEF LastInv
  <2>3. CASE w # n
    <3>1. w \in 0 .. n - 1
      BY <1>5, <2>3
    <3>2. Full(w, i - c[w]) /\ ~Raw(w, i - c[w])
      BY <2>0, <3>1 DEF Full, Raw
    <3>3. CASE w = 0
      <4>1. dst[i] = total[i + 1] - total[c[0]]
        BY <1>6, <2>1, <3>1, <3>2, <3>3 DEF ChunkInv
      <4>2. total[i + 1] \in Int
        BY <1>5
      <4> QED BY <1>5, <4>1, <4>2
    <3>4. CASE w # 0
      BY <1>6, <2>1, <3>1, <3>2, <3>4 DEF ChunkInv
    <3> QED BY <3>3, <3>4
  <2> QED BY <2>2, <2>3
<1>9. Frame(n, c, total)'
  BY <1>1, <1>2, <1>4 DEF Frame
<1>10. UserInv(total)'
  BY <1>1, <1>2, <1>8 DEF UserInv
<1>11. Inv(n, c, total)'
  BY <1>1, <1>2, <1>4, <1>10 DEF Inv
<1>12. stray' = {}
  BY <1>1 DEF IInv
<1> QED BY <1>9, <1>11, <1>12

\* The first call finds the source as the caller filled it.
LEMMA InitInv ==
  ASSUME Init
  PROVE  IInv
<1>1. PICK s \in Instances :
        /\ size = s[1] /\ ns = s[2]
        /\ inPlace \in BOOLEAN
        /\ src = [i \in Elem |-> Given(i)]
        /\ dst = [i \in Elem |-> IF inPlace THEN Given(i) ELSE Junk]
        /\ paste = [i \in Slot |-> Junk]
        /\ lock = [i \in Slot |-> 0]
        /\ pc = [w \in Worker |-> "none"]
        /\ pos = [w \in Worker |-> 0]
        /\ val = [w \in Worker |-> Junk]
        /\ caller = "user" /\ calls = 0 /\ started = 0
        /\ given = src
        /\ stray = {}
  BY DEF Init
<1>2. <<size, ns>> \in Instances /\ size \in Nat /\ ns \in Nat
  <2>1. s \in Nat \X Nat
    BY InstanceAssumption
  <2>2. s = <<s[1], s[2]>> /\ s[1] \in Nat /\ s[2] \in Nat
    BY <2>1
  <2> QED BY <1>1, <2>2
<1>3. \A i \in Elem : Given(i) \in Int
  BY <1>1, GivenAssumption DEF Elem
<1>4. TypeOK
  <2>0. nt \in Nat
    <3>1. ThreadDims \in Nat \ {0}
      BY InstanceAssumption
    <3>2. size \div ThreadDims \in Nat
      BY <1>2, <3>1, DivMod
    <3> QED BY <1>2, <3>2 DEF nt, Workers
  <2>1. /\ 0 \in (IF Divides THEN 0 .. ns ELSE Nat) /\ Junk \in Int /\ 0 \in 0 .. 2
        /\ 0 \in 0 .. Calls /\ 0 \in 0 .. nt
    BY <1>2, <2>0, InstanceAssumption DEF Junk
  <2>2. src \in [Elem -> Int] /\ dst \in [Elem -> Int] /\ given \in [Elem -> Int]
    BY <1>1, <1>3, <2>1
  <2>3. /\ paste \in [Slot -> Int] /\ lock \in [Slot -> 0 .. 2]
        /\ pos \in [Worker -> IF Divides THEN 0 .. ns ELSE Nat] /\ val \in [Worker -> Int]
    BY <1>1, <2>1
  <2>4. pc \in [Worker -> {"none", "phase0", "pasted", "phase1", "scanned", "phase2",
                           "over"}]
    BY <1>1
  <2> QED BY <1>1, <1>2, <2>1, <2>2, <2>3, <2>4 DEF TypeOK
<1>5. PICK total : Totals(total, given, ns)
  <2>1. given \in [0 .. ns - 1 -> Int]
    BY <1>4 DEF TypeOK, Elem
  <2> QED BY <1>2, <2>1, TotalsExist
<1>6. PICK c : c = [w \in 0 .. nt + 1 |-> Cut(ns, nt, w)]
  OBVIOUS
<1>7. Divides => Frame(nt, c, total)
  BY <1>5, <1>6 DEF Frame
<1>8. Inv(nt, c, total)
  BY <1>1 DEF Inv, UserInv, Started
<1> QED BY <1>1, <1>4, <1>7, <1>8 DEF IInv

\* Nothing happens.
LEMMA StutterInv ==
  ASSUME IInv, UNCHANGED vars
  PROVE  IInv'
<1>1. UNCHANGED <<size, ns, inPlace, src, dst, paste, lock, pc, pos, val, caller, calls,
                  started, given, stray>>
  BY DEF vars, data
<1>2. /\ nt' = nt /\ Worker' = Worker /\ Elem' = Elem /\ Slot' = Slot /\ Source' = Source
      /\ Divides' = Divides /\ Started' = Started
  BY <1>1, SameSets DEF params, Source
<1>3. TypeOK'
  BY <1>1, <1>2 DEF IInv, TypeOK
<1> SUFFICES ASSUME Divides
             PROVE  stray' = {} /\ \E n, c, total : (Frame(n, c, total) /\ Inv(n, c, total))'
  BY <1>2, <1>3 DEF IInv
<1>4. PICK n, c, total : Frame(n, c, total) /\ Inv(n, c, total)
  BY DEF IInv
<1>5. ChunkInv(n, c, total)' <=> ChunkInv(n, c, total)
  BY <1>1, <1>2 DEF ChunkInv, Raw, Full
<1>6. LastInv(n, c, total)' <=> LastInv(n, c, total)
  BY <1>1, <1>2 DEF LastInv, Full
<1>7. LockInv(n, c, total)' <=> LockInv(n, c, total)
  BY <1>1 DEF LockInv, SlotInv, Scanned
<1>8. (WorkerInv(n, c, total) /\ RefusedInv(n))' <=> (WorkerInv(n, c, total) /\ RefusedInv(n))
  BY <1>1 DEF WorkerInv, RefusedInv
<1>9. UserInv(total)' <=> UserInv(total)
  BY <1>1, <1>2 DEF UserInv
<1>10. Inv(n, c, total)'
  BY <1>1, <1>4, <1>5, <1>6, <1>7, <1>8, <1>9 DEF Inv, WaitInv
<1>11. Frame(n, c, total)'
  BY <1>1, <1>2, <1>4 DEF Frame
<1>12. stray' = {}
  BY <1>1 DEF IInv
<1> QED BY <1>10, <1>11, <1>12

\* The inductive invariant holds in every state, for any number of workers,
\* elements and calls, whatever the source holds and whichever workers are
\* refused.
THEOREM Invariance == Spec => []IInv
<1>1. Init => IInv
  BY InitInv
<1>2. IInv /\ [Next]_vars => IInv'
  <2> SUFFICES ASSUME IInv, [Next]_vars PROVE IInv'
    OBVIOUS
  <2>1. TypeOK
    BY DEF IInv
  <2>2. CASE computePrefixSum
    BY <2>2, CallStep
  <2>3. CASE reset
    BY <2>3, ReturnStep
  <2>4. CASE finished \/ hang
    BY <2>4, StutterInv DEF finished, hang
  <2>5. CASE \E w \in Started : Work(w)
    <3>1. PICK w \in Started : Work(w)
      BY <2>5
    <3>2. CASE ~Divides
      BY <2>1, <3>1, <3>2, StartedWorkers, WorkTypes DEF IInv
    <3>3. CASE Divides
      <4>1. PICK n, c, total : Frame(n, c, total) /\ Inv(n, c, total)
        BY <3>3 DEF IInv
      <4>2. stray = {}
        BY <3>3 DEF IInv
      <4>3. TypeOK' /\ stray' = {} /\ Frame(n, c, total)' /\ Inv(n, c, total)'
        BY <2>1, <3>1, <4>1, <4>2, WorkStep
      <4> QED BY <4>3 DEF IInv
    <3> QED BY <3>2, <3>3
  <2>6. CASE UNCHANGED vars
    BY <2>6, StutterInv
  <2> QED BY <2>2, <2>3, <2>4, <2>5, <2>6 DEF Next
<1> QED BY <1>1, <1>2, PTL DEF Spec

\* Type correctness: the arrays keep their bounds, and a position in a loop never
\* passes the number of elements if they can be divided.
THEOREM TypeCorrect == Spec => []TypeOK
<1>1. IInv => TypeOK
  BY DEF IInv
<1> QED BY <1>1, Invariance, PTL

\* No worker uses an element outside of the array (prefix_sum.hpp:228 to 241),
\* for any number of workers and more elements than workers, divisible or not
\* unless there is only one worker, and whichever workers are refused.
THEOREM StaysInBounds == Spec => []InBounds
<1>1. IInv => InBounds
  BY DEF IInv, InBounds
<1> QED BY <1>1, Invariance, PTL

\* When computePrefixSum returns and has created a worker, every element is the
\* sum of the source's up to it (prefix_sum.hpp:245), on every call, in place or
\* not: if a worker was refused, the call does not return.
THEOREM SumsCorrect == Spec => []PrefixSums
<1>1. IInv => PrefixSums
  <2> SUFFICES ASSUME IInv, caller = "user", started > 0, Divides, NEW i \in Elem
               PROVE  dst[i] = Reference[i]
    BY DEF PrefixSums
  <2>1. PICK n, c, total : Frame(n, c, total) /\ Inv(n, c, total)
    BY DEF IInv
  <2>2. TypeOK
    BY DEF IInv
  <2>3. ns \in Nat \ {0} /\ given \in [Elem -> Int] /\ Totals(total, given, ns)
    <3>1. ns \in Nat /\ nt \in Nat /\ ns > nt
      BY <2>2, WorkerCount DEF Divides
    <3> QED BY <2>1, <2>2, <3>1 DEF Frame, TypeOK
  <2>4. Reference[i] = total[i + 1]
    BY <2>3, ReferenceIsTotal
  <2>5. dst[i] = total[i + 1]
    BY <2>1 DEF Inv, UserInv
  <2> QED BY <2>4, <2>5
<1> QED BY <1>1, Invariance, PTL
=============================================================================
