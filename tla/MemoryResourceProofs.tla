------------------------- MODULE MemoryResourceProofs -------------------------
(***************************************************************************)
(* Proofs about the memory resource of a node, for any number of slab      *)
(* resources of any size, any bump memory and any number of harts.         *)
(***************************************************************************)
EXTENDS MemoryResource, SlabLayoutProofs, SequenceTheorems, WellFoundedInduction

-----------------------------------------------------------------------------
(***************************************************************************)
(* The layout of the buffer.                                               *)
(***************************************************************************)
\* A set of natural numbers has a least element.
LEMMA LeastNumber ==
  ASSUME NEW S \in SUBSET Nat, S # {}
  PROVE  \E x \in S : \A y \in S : x <= y
<1>1. PICK x \in S : \A y \in S : ~(<<y, x>> \in OpToRel(<, Nat))
  BY NatLessThanWellFounded, WFMin
<1>2. ASSUME NEW y \in S, y < x PROVE FALSE
  <2>1. <<y, x>> \in OpToRel(<, Nat)
    BY <1>2, Zenon DEF OpToRel
  <2> QED BY <1>1, <2>1
<1> QED BY <1>2

\* First finds it.
LEMMA FirstIsLeast ==
  ASSUME NEW S \in SUBSET Nat, S # {}
  PROVE  First(S) \in S /\ \A y \in S : First(S) <= y
<1>1. \E x \in S : \A y \in S : x <= y
  BY LeastNumber
<1> QED BY <1>1 DEF First

\* align only moves forward.
LEMMA AlignForward ==
  ASSUME NEW alignment \in Nat \ {0}, NEW a \in Nat
  PROVE  AlignUp(alignment, a) \in Nat /\ AlignUp(alignment, a) >= a
<1> DEFINE v == a + alignment - 1
           q == v \div alignment
           r == v % alignment
<1>1. v \in Nat
  OBVIOUS
<1> HIDE DEF v
<1>2. q \in Nat /\ r \in 0 .. alignment - 1 /\ v = q * alignment + r
  BY <1>1, DivMod
<1> HIDE DEF q, r
<1>3. q * alignment \in Nat
  BY <1>2
<1>4. q * alignment >= a
  BY <1>2, <1>3 DEF v
<1>5. AlignUp(alignment, a) = q * alignment
  BY DEF AlignUp, q, v
<1> QED BY <1>3, <1>4, <1>5

\* The constants of a slab resource.
LEMMA PoolConstants ==
  ASSUME NEW k \in Pool
  PROVE  /\ k \in Nat \ {0} /\ SlabWords[k] \in Nat \ {0}
         /\ TotalSlabs[k] \in Nat \ {0, 1}
         /\ BitmapBits \in Nat \ {0, 1} /\ WordBytes \in Nat \ {0, 1}
         /\ BitmapBits \in Nat \ {0}
<1>1. k \in 1 .. Len(SlabWords) /\ Len(SlabWords) \in Nat
  BY ResourceAssumption DEF Pool
<1>2. SlabWords[k] \in Nat \ {0}
  BY <1>1, ResourceAssumption
<1> QED BY <1>1, <1>2, ResourceAssumption

\* The parts of a slab resource: the bitmaps fit in the header, which is no larger
\* than the user region.
LEMMA PoolSizes ==
  ASSUME NEW k \in Pool
  PROVE  /\ User(k) \in Nat \ {0}
         /\ NumBitmaps(k) \in Nat \ {0}
         /\ User(k) <= NumBitmaps(k) * BitmapBits
         /\ Header(k) \in Nat /\ NumBitmaps(k) <= Header(k)
         /\ Capacity(k) \in Nat /\ Header(k) <= Capacity(k)
         /\ Header(k) + Capacity(k) = TotalSlabs[k] * SlabWords[k]
<1> DEFINE W == SlabWords[k]
           T == TotalSlabs[k]
           U == UserSlabs(T, BitmapBits, W)
           D == BitmapSlabs(T, BitmapBits, W)
           N == Bitmaps(T, BitmapBits, W)
<1>1. /\ W \in Nat \ {0} /\ T \in Nat \ {0, 1}
      /\ BitmapBits \in Nat \ {0} /\ BitmapBits >= 2
  BY PoolConstants
<1>2. User(k) = U /\ Header(k) = D * W /\ Capacity(k) = U * W /\ NumBitmaps(k) = N
  BY DEF User, Header, Capacity, NumBitmaps
<1>3. D = T - U
  BY DEF BitmapSlabs
<1> HIDE DEF W, T, U, D, N
<1>4. U \in Nat \ {0} /\ D \in Nat \ {0} /\ D <= U
  BY <1>1, DivisionOfSlabs DEF U, D
<1>5. N \in Nat \ {0} /\ U <= N * BitmapBits /\ N <= D * W
  BY <1>1, BitmapsFit DEF U, D, N
<1>6. D * W \in Nat /\ U * W \in Nat
  BY <1>1, <1>4
<1>7. D * W <= U * W
  <2>1. CASE D = U
    BY <2>1, <1>6
  <2>2. CASE D < U
    <3>1. D * W + W <= U * W
      BY <2>2, <1>1, <1>4, Monotone
    <3> QED BY <3>1, <1>1, <1>6
  <2> QED BY <2>1, <2>2, <1>4
<1>8. D * W + U * W = T * W
  <2>1. T = D + U
    BY <1>1, <1>3, <1>4
  <2> QED BY <2>1, <1>1, <1>4
<1> QED BY <1>2, <1>4, <1>5, <1>6, <1>7, <1>8 DEF W, T

\* The end of a slab resource that starts at a.
EndFrom(k, a) == a + (TotalSlabs[k] + 1) * SlabWords[k]

\* The first m slab resources are laid out as f says.
Laid(f, m) ==
  /\ f \in [1 .. m -> Nat]
  /\ \A k \in 1 .. m :
       f[k] = IF k = 1 THEN 0 ELSE AlignUp(SlabWords[k], EndFrom(k - 1, f[k - 1]))

\* A slab resource has an end.
LEMMA EndIsNat ==
  ASSUME NEW k \in Pool, NEW a \in Nat
  PROVE  EndFrom(k, a) \in Nat /\ EndFrom(k, a) >= a
<1> DEFINE t == (TotalSlabs[k] + 1) * SlabWords[k]
<1>1. t \in Nat
  BY PoolConstants
<1> HIDE DEF t
<1>2. EndFrom(k, a) = a + t
  BY DEF EndFrom, t
<1> QED BY <1>1, <1>2

\* There is a layout.
LEMMA LayoutExists == \E f : Laid(f, Len(SlabWords))
<1> DEFINE len == Len(SlabWords)
           Bad == {m \in 0 .. len : \A f : ~Laid(f, m)}
<1>0. len \in Nat
  BY ResourceAssumption
<1> SUFFICES ASSUME \A f : ~Laid(f, len) PROVE FALSE
  OBVIOUS
<1>1. len \in Bad
  BY <1>0
<1> HIDE DEF len
<1>2. PICK m \in Bad : \A j \in Bad : m <= j
  <2>1. Bad \in SUBSET Nat
    BY <1>0
  <2> QED BY <1>1, <2>1, LeastNumber
<1>3. m # 0
  <2>1. Laid([i \in 1 .. 0 |-> 0], 0)
    BY DEF Laid
  <2> QED BY <1>2, <2>1
<1>4. m - 1 \in 0 .. len /\ m - 1 \notin Bad /\ m \in Nat \ {0} /\ m <= len
  BY <1>0, <1>2, <1>3
<1>5. PICK f : Laid(f, m - 1)
  BY <1>4
<1> DEFINE new == IF m = 1 THEN 0 ELSE AlignUp(SlabWords[m], EndFrom(m - 1, f[m - 1]))
<1>6. new \in Nat
  <2>1. CASE m = 1
    BY <2>1
  <2>2. CASE m # 1
    <3>1. m \in Pool /\ m - 1 \in Pool /\ m - 1 \in 1 .. m - 1
      BY <2>2, <1>0, <1>4 DEF Pool, len
    <3>2. f[m - 1] \in Nat
      BY <3>1, <1>5 DEF Laid
    <3>3. EndFrom(m - 1, f[m - 1]) \in Nat
      BY <3>1, <3>2, EndIsNat
    <3>4. SlabWords[m] \in Nat \ {0}
      BY <3>1, PoolConstants
    <3> QED BY <2>2, <3>3, <3>4, AlignForward
  <2> QED BY <2>1, <2>2
<1>7. PICK g : g = [i \in 1 .. m |-> IF i = m THEN new ELSE f[i]]
  OBVIOUS
<1> HIDE DEF new
<1>8. Laid(g, m)
  <2>1. g \in [1 .. m -> Nat]
    BY <1>4, <1>5, <1>6, <1>7 DEF Laid
  <2>2. ASSUME NEW k \in 1 .. m
        PROVE  g[k] = IF k = 1 THEN 0 ELSE AlignUp(SlabWords[k], EndFrom(k - 1, g[k - 1]))
    <3>1. CASE k = m /\ k = 1
      BY <3>1, <1>7 DEF new
    <3>2. CASE k = m /\ k # 1
      <4>1. g[k - 1] = f[m - 1] /\ g[k] = new
        BY <3>2, <1>4, <1>7
      <4> QED BY <3>2, <4>1 DEF new
    <3>3. CASE k # m
      <4>1. k \in 1 .. m - 1 /\ g[k] = f[k]
        BY <3>3, <1>4, <1>7
      <4>2. CASE k = 1
        BY <4>1, <4>2, <1>5 DEF Laid
      <4>3. CASE k # 1
        <5>1. g[k - 1] = f[k - 1]
          BY <4>1, <4>3, <1>4, <1>7
        <5> QED BY <4>1, <4>3, <5>1, <1>5 DEF Laid
      <4> QED BY <4>2, <4>3
    <3> QED BY <3>1, <3>2, <3>3
  <2> QED BY <2>1, <2>2 DEF Laid
<1> QED BY <1>2, <1>8

\* The recursive definition computes it.
LEMMA StartIsLaid == Laid(Start, Len(SlabWords))
<1> DEFINE len == Len(SlabWords)
           Lay(f) == [k \in 1 .. len |->
                        IF k = 1 THEN 0
                        ELSE AlignUp(SlabWords[k],
                               f[k - 1] + (TotalSlabs[k - 1] + 1) * SlabWords[k - 1])]
<1>0. len \in Nat
  BY ResourceAssumption
<1>1. PICK f : Laid(f, len)
  BY LayoutExists
<1>2. f = Lay(f)
  BY <1>1 DEF Laid, EndFrom
<1>3. Start = CHOOSE g : g = Lay(g)
  BY DEF Start
<1>4. Start = Lay(Start)
  BY <1>2, <1>3
<1> HIDE DEF len
<1> DEFINE Bad == {k \in 1 .. len : Start[k] # f[k]}
<1>5. Bad = {}
  <2> SUFFICES ASSUME Bad # {} PROVE FALSE
    OBVIOUS
  <2>1. PICK m \in Bad : \A j \in Bad : m <= j
    <3>1. Bad \in SUBSET Nat
      BY <1>0
    <3> QED BY <3>1, LeastNumber
  <2>2. m # 1
    BY <1>2, <1>4, <2>1
  <2>3. m - 1 \in 1 .. len /\ m - 1 \notin Bad
    BY <1>0, <2>1, <2>2
  <2>4. Start[m - 1] = f[m - 1]
    BY <2>3
  <2>5. Start[m] = Lay(Start)[m] /\ f[m] = Lay(f)[m]
    BY <1>2, <1>4
  <2>6. Lay(Start)[m] = Lay(f)[m]
    BY <2>1, <2>4
  <2> QED BY <2>1, <2>5, <2>6
<1>6. Start = f
  <2>1. Start = [k \in 1 .. len |-> Start[k]]
    BY <1>4
  <2>2. f = [k \in 1 .. len |-> f[k]]
    BY <1>2
  <2>3. \A k \in 1 .. len : Start[k] = f[k]
    BY <1>5
  <2> QED BY <2>1, <2>2, <2>3
<1> QED BY <1>1, <1>6 DEF len

\* Where the parts of a slab resource are.
LEMMA PoolBounds ==
  ASSUME NEW k \in Pool
  PROVE  /\ Start[k] \in Nat /\ End(k) \in Nat /\ Start[k] <= End(k)
         /\ Buffer(k) \in Nat /\ Start[k] <= Buffer(k)
         /\ RegionStart(k) \in Nat /\ RegionStart(k) = Buffer(k) + Header(k)
         /\ RegionStart(k) + Capacity(k) = End(k)
<1> DEFINE W == SlabWords[k]
           T == TotalSlabs[k]
<1>1. Start[k] \in Nat
  BY StartIsLaid DEF Laid, Pool
<1>2. W \in Nat /\ T \in Nat
  BY PoolConstants
<1>3. Header(k) \in Nat /\ Capacity(k) \in Nat /\ Header(k) + Capacity(k) = T * W
  BY PoolSizes
<1>4. End(k) = Start[k] + (T + 1) * W /\ Buffer(k) = Start[k] + W
  BY DEF End, Buffer
<1> HIDE DEF W, T
<1>5. (T + 1) * W = T * W + W /\ T * W \in Nat
  BY <1>2
<1> QED BY <1>1, <1>2, <1>3, <1>4, <1>5 DEF RegionStart

\* Slab resources do not overlap.
LEMMA PoolsApart ==
  ASSUME NEW j \in Pool, NEW k \in Pool, j < k
  PROVE  End(j) <= Start[k]
<1> DEFINE Bad == {i \in Pool : j < i /\ ~(End(j) <= Start[i])}
<1> SUFFICES ASSUME Bad # {} PROVE FALSE
  OBVIOUS
<1>1. \A i \in Pool : /\ i \in Nat \ {0} /\ Start[i] \in Nat /\ End(i) \in Nat
                      /\ Start[i] <= End(i)
  BY PoolConstants, PoolBounds
<1>2. PICK m \in Bad : \A i \in Bad : m <= i
  <2>1. Bad \in SUBSET Nat
    BY <1>1
  <2> QED BY <2>1, LeastNumber
<1>3. m \in Pool /\ j < m /\ m \in Nat \ {0, 1} /\ j \in Nat
  BY <1>1, <1>2
<1>4. m - 1 \in Pool /\ j <= m - 1
  BY <1>3, ResourceAssumption DEF Pool
<1>5. End(m - 1) <= Start[m]
  <2>1. Start[m] = AlignUp(SlabWords[m], EndFrom(m - 1, Start[m - 1]))
    BY <1>3, StartIsLaid DEF Laid, Pool
  <2>2. EndFrom(m - 1, Start[m - 1]) = End(m - 1)
    BY DEF EndFrom, End
  <2>3. SlabWords[m] \in Nat \ {0} /\ End(m - 1) \in Nat
    BY <1>1, <1>3, <1>4, PoolConstants
  <2> QED BY <2>1, <2>2, <2>3, AlignForward
<1>6. End(j) <= End(m - 1)
  <2>1. CASE j = m - 1
    BY <2>1, <1>1
  <2>2. CASE j # m - 1
    <3>1. j < m - 1 /\ m - 1 \notin Bad
      BY <2>2, <1>1, <1>2, <1>3, <1>4
    <3>2. End(j) <= Start[m - 1]
      BY <3>1, <1>4
    <3> QED BY <3>2, <1>1, <1>4
  <2> QED BY <2>1, <2>2
<1> QED BY <1>1, <1>2, <1>3, <1>4, <1>5, <1>6

\* The bump resource is behind all of them.
LEMMA BumpBehind == BumpBase \in Nat /\ \A k \in Pool : End(k) <= BumpBase
<1> DEFINE last == Len(SlabWords)
           a == FreeListStart + MinBump + 1
<1>1. last \in Pool /\ last \in Nat
  BY ResourceAssumption DEF Pool
<1>2. /\ Alignment \in Nat \ {0} /\ MinBump \in Nat
      /\ End(last) \in Nat /\ FreeListStart = AlignUp(Alignment, End(last))
  BY <1>1, PoolBounds, ResourceAssumption DEF FreeListStart
<1>3. FreeListStart \in Nat /\ FreeListStart >= End(last)
  BY <1>2, AlignForward
<1>4. a \in Nat /\ a >= End(last)
  BY <1>2, <1>3
<1> HIDE DEF a
<1>5. AlignUp(Alignment, a) \in Nat /\ AlignUp(Alignment, a) >= a
  BY <1>2, <1>4, AlignForward
<1>6. BumpBase \in Nat /\ End(last) <= BumpBase
  BY <1>2, <1>4, <1>5 DEF BumpBase, a
<1>7. ASSUME NEW k \in Pool PROVE End(k) <= BumpBase
  <2>1. CASE k = last
    BY <2>1, <1>6
  <2>2. CASE k # last
    <3>1. k < last
      BY <2>2, <1>1 DEF Pool
    <3>2. End(k) <= Start[last] /\ Start[last] <= End(last)
      BY <3>1, <1>1, PoolsApart, PoolBounds
    <3>3. End(k) \in Nat /\ Start[last] \in Nat
      BY <1>1, PoolBounds
    <3> QED BY <3>2, <3>3, <1>2, <1>6
  <2> QED BY <2>1, <2>2
<1> QED BY <1>6, <1>7

-----------------------------------------------------------------------------
(***************************************************************************)
(* The places a block can have: a slab, or a block that the bump resource  *)
(* has cut off.                                                            *)
(***************************************************************************)
Slab(k) == 0 .. User(k) - 1
SlabAt(k, s) == RegionStart(k) + s * SlabWords[k]

InSlab(k, s, b) == b.at = SlabAt(k, s) /\ b.size <= SlabWords[k]
InCarved(c, b) == b.at = c.at /\ Rounded(b.size) <= c.size

\* A slab is within the user region, and deallocate finds its bit.
LEMMA SlabBounds ==
  ASSUME NEW k \in Pool, NEW s \in Slab(k)
  PROVE  /\ SlabAt(k, s) \in Nat
         /\ RegionStart(k) <= SlabAt(k, s)
         /\ SlabAt(k, s) + SlabWords[k] <= End(k)
         /\ SlabIndex(k, SlabAt(k, s)) = s
         /\ s \in Bits(k) /\ s \notin Padding(k)
         /\ s \div BitmapBits \in Nat /\ s \div BitmapBits < NumBitmaps(k)
<1> DEFINE W == SlabWords[k]
           R == RegionStart(k)
           U == User(k)
           N == NumBitmaps(k)
           B == BitmapBits
<1>1. /\ W \in Nat \ {0} /\ B \in Nat \ {0} /\ R \in Nat /\ U \in Nat \ {0}
      /\ N \in Nat \ {0} /\ U <= N * B /\ Capacity(k) = U * W /\ R + Capacity(k) = End(k)
  BY PoolConstants, PoolSizes, PoolBounds DEF Capacity
<1>2. s \in Nat /\ s < U
  BY <1>1 DEF Slab
<1>3. SlabAt(k, s) = R + s * W /\ SlabIndex(k, SlabAt(k, s)) = (SlabAt(k, s) - R) \div W
  <2>1. SlabAt(k, s) = R + s * W
    BY DEF SlabAt
  <2>2. SlabIndex(k, SlabAt(k, s)) = (SlabAt(k, s) - R) \div W
    BY Zenon DEF SlabIndex
  <2> QED BY <2>1, <2>2
<1>4. Bits(k) = 0 .. N * B - 1 /\ Padding(k) = Bits(k) \ (0 .. U - 1)
  BY DEF Bits, Padding
<1> HIDE DEF W, R, U, N, B
<1>5. s * W \in Nat /\ s * W + W <= U * W /\ U * W \in Nat
  BY <1>1, <1>2, Monotone
<1> DEFINE x == s * W
           q == x \div W
           r == x % W
<1>6. q = s
  <2>1. x \in Nat /\ x = s * W
    BY <1>5
  <2> HIDE DEF x
  <2>2. q \in Nat /\ r \in 0 .. W - 1 /\ x = q * W + r
    BY <2>1, <1>1, DivMod
  <2> HIDE DEF q, r
  <2>3. q * W + r = s * W + 0 /\ 0 \in 0 .. W - 1
    <3>1. s * W \in Nat
      BY <1>5
    <3> QED BY <2>1, <2>2, <3>1, <1>1
  <2> QED BY <2>2, <2>3, <1>1, <1>2, DivUnique
<1>7. SlabIndex(k, SlabAt(k, s)) = s
  <2>1. SlabAt(k, s) - R = x
    BY <1>1, <1>3, <1>5
  <2> QED BY <2>1, <1>3, <1>6
<1>8. s \in Bits(k) /\ s \notin Padding(k)
  <2>1. N * B \in Nat
    BY <1>1
  <2> QED BY <2>1, <1>1, <1>2, <1>4
<1>9. s \div B \in Nat /\ s \div B < N
  <2> DEFINE i == s \div B
             m == s % B
  <2>1. i \in Nat /\ m \in 0 .. B - 1 /\ s = i * B + m
    BY <1>1, <1>2, DivMod
  <2> HIDE DEF i, m
  <2>2. ~(N <= i)
    <3> SUFFICES ASSUME N <= i PROVE FALSE
      OBVIOUS
    <3>1. N * B <= i * B
      <4>1. CASE N = i
        BY <4>1, <1>1
      <4>2. CASE N < i
        <5>1. N * B + B <= i * B
          BY <4>2, <2>1, <1>1, Monotone
        <5>2. N * B \in Nat /\ i * B \in Nat
          BY <2>1, <1>1
        <5> QED BY <5>1, <5>2, <1>1
      <4> QED BY <4>1, <4>2, <2>1, <1>1
    <3>2. N * B \in Nat /\ i * B \in Nat
      BY <2>1, <1>1
    <3> QED BY <3>1, <3>2, <2>1, <1>1, <1>2
  <2>3. i < N
    BY <2>1, <2>2, <1>1
  <2> QED BY <2>1, <2>3 DEF i
<1> QED BY <1>1, <1>3, <1>5, <1>7, <1>8, <1>9 DEF W, R, U, N, B

\* Placed(b, C): b is in a slab, or in one of the blocks C cut off so far.
Placed(b, C) ==
  \/ \E k \in Pool : \E s \in Slab(k) : InSlab(k, s, b)
  \/ \E c \in C : InCarved(c, b)

\* The blocks cut off lie one behind the other, up to the offset.
Carved(C, off) ==
  /\ C \subseteq [at : Nat, size : Nat]
  /\ \A c \in C : /\ BumpBase <= c.at /\ c.at + c.size <= BumpBase + off
                  /\ MinBump <= c.size
  /\ \A c, d \in C : c = d \/ c.at + c.size <= d.at \/ d.at + d.size <= c.at

Block == [at : Nat, size : Nat \ {0}]

\* Rounding up keeps a request.
LEMMA RoundedUp ==
  ASSUME NEW n \in Nat
  PROVE  Rounded(n) \in Nat /\ n <= Rounded(n) /\ MinBump <= Rounded(n)
         /\ Rounded(Rounded(n)) = Rounded(n)
BY ResourceAssumption DEF Rounded

\* A block in a slab is in this slab resource and in no other part of the buffer.
LEMMA SlabPlace ==
  ASSUME NEW k \in Pool, NEW s \in Slab(k), NEW b \in Block, InSlab(k, s, b)
  PROVE  /\ InPool(k, b) /\ SlabIndex(k, b.at) = s
         /\ \A j \in Pool : InPool(j, b) => j = k
         /\ ~BumpOwns(b.at) /\ b.at + b.size <= BumpBase
<1>1. b.at \in Nat /\ b.size \in Nat \ {0} /\ b.at = SlabAt(k, s) /\ b.size <= SlabWords[k]
  BY DEF Block, InSlab
<1>2. /\ RegionStart(k) <= b.at /\ b.at + SlabWords[k] <= End(k)
      /\ SlabIndex(k, b.at) = s
  BY <1>1, SlabBounds
<1>3. SlabWords[k] \in Nat /\ k \in Nat
  BY PoolConstants
<1>4. /\ Start[k] \in Nat /\ End(k) \in Nat /\ RegionStart(k) \in Nat
      /\ RegionStart(k) + Capacity(k) = End(k) /\ Start[k] <= RegionStart(k)
  BY PoolBounds, PoolSizes
<1>5. InPool(k, b)
  BY <1>1, <1>2, <1>3, <1>4 DEF InPool
<1>6. ASSUME NEW j \in Pool, InPool(j, b) PROVE j = k
  <2>1. /\ Start[j] \in Nat /\ End(j) \in Nat /\ RegionStart(j) \in Nat
        /\ RegionStart(j) + Capacity(j) = End(j) /\ Start[j] <= RegionStart(j)
    BY PoolBounds, PoolSizes
  <2>2. RegionStart(j) <= b.at /\ b.at + b.size <= End(j)
    BY <1>6, <2>1 DEF InPool
  <2>3. j \in Nat
    BY PoolConstants
  <2>4. ~(j < k)
    <3> SUFFICES ASSUME j < k PROVE FALSE
      OBVIOUS
    <3>1. End(j) <= Start[k]
      BY PoolsApart
    <3> QED BY <3>1, <2>1, <2>2, <1>1, <1>2, <1>4
  <2>5. ~(k < j)
    <3> SUFFICES ASSUME k < j PROVE FALSE
      OBVIOUS
    <3>1. End(k) <= Start[j]
      BY PoolsApart
    <3> QED BY <3>1, <2>1, <2>2, <1>1, <1>2, <1>3, <1>4
  <2> QED BY <2>3, <2>4, <2>5, <1>3
<1>7. End(k) <= BumpBase /\ BumpBase \in Nat
  BY BumpBehind
<1>8. b.at + b.size <= BumpBase
  BY <1>1, <1>2, <1>3, <1>4, <1>7
<1>9. ~BumpOwns(b.at)
  BY <1>1, <1>7, <1>8 DEF BumpOwns
<1> QED BY <1>2, <1>5, <1>6, <1>8, <1>9

\* A block that was cut off is in the bump memory and in no slab resource.
LEMMA CarvedPlace ==
  ASSUME NEW C, NEW off \in 0 .. BumpWords, Carved(C, off), NEW c \in C,
         NEW b \in Block, InCarved(c, b)
  PROVE  /\ BumpOwns(b.at) /\ BumpOwns(b.at + b.size - 1) /\ BumpBase <= b.at
         /\ b.at + b.size <= c.at + c.size
         /\ \A k \in Pool : ~InPool(k, b)
<1>1. b.at \in Nat /\ b.size \in Nat \ {0} /\ b.at = c.at /\ Rounded(b.size) <= c.size
  BY DEF Block, InCarved
<1>2. /\ c.at \in Nat /\ c.size \in Nat /\ BumpBase <= c.at
      /\ c.at + c.size <= BumpBase + off
  BY DEF Carved
<1>3. b.size <= c.size
  BY <1>1, <1>2, RoundedUp
<1>4. BumpBase \in Nat /\ BumpWords \in Nat /\ off \in Nat /\ off <= BumpWords
  BY BumpBehind, ResourceAssumption
<1>5. BumpOwns(b.at) /\ BumpOwns(b.at + b.size - 1)
  BY <1>1, <1>2, <1>3, <1>4 DEF BumpOwns
<1>6. ASSUME NEW k \in Pool, InPool(k, b) PROVE FALSE
  <2>1. RegionStart(k) + Capacity(k) = End(k) /\ End(k) <= BumpBase /\ End(k) \in Nat
    BY PoolBounds, BumpBehind
  <2>2. b.at + b.size <= End(k)
    BY <1>6, <2>1 DEF InPool
  <2> QED BY <2>1, <2>2, <1>1, <1>2, <1>4
<1> QED BY <1>1, <1>2, <1>3, <1>5, <1>6

\* Two slabs do not overlap.
LEMMA SlabsApart ==
  ASSUME NEW k \in Pool, NEW s \in Slab(k), NEW j \in Pool, NEW r \in Slab(j),
         k # j \/ s # r
  PROVE  \/ SlabAt(k, s) + SlabWords[k] <= SlabAt(j, r)
         \/ SlabAt(j, r) + SlabWords[j] <= SlabAt(k, s)
<1>1. /\ SlabAt(k, s) \in Nat /\ RegionStart(k) <= SlabAt(k, s)
      /\ SlabAt(k, s) + SlabWords[k] <= End(k)
      /\ SlabAt(j, r) \in Nat /\ RegionStart(j) <= SlabAt(j, r)
      /\ SlabAt(j, r) + SlabWords[j] <= End(j)
  BY SlabBounds
<1>2. /\ Start[k] \in Nat /\ End(k) \in Nat /\ RegionStart(k) \in Nat /\ Start[k] <= RegionStart(k)
      /\ Start[j] \in Nat /\ End(j) \in Nat /\ RegionStart(j) \in Nat /\ Start[j] <= RegionStart(j)
  BY PoolBounds, PoolSizes
<1>3. k \in Nat /\ j \in Nat /\ SlabWords[k] \in Nat /\ SlabWords[j] \in Nat
  BY PoolConstants
<1>4. CASE k < j
  <2>1. End(k) <= Start[j]
    BY <1>4, PoolsApart
  <2> QED BY <2>1, <1>1, <1>2, <1>3
<1>5. CASE j < k
  <2>1. End(j) <= Start[k]
    BY <1>5, PoolsApart
  <2> QED BY <2>1, <1>1, <1>2, <1>3
<1>6. CASE k = j
  <2> DEFINE W == SlabWords[k]
             R == RegionStart(k)
  <2>1. s \in Nat /\ r \in Nat /\ s # r
    <3>1. User(k) \in Nat
      BY PoolSizes
    <3> QED BY <3>1, <1>6 DEF Slab
  <2>2. SlabAt(k, s) = R + s * W /\ SlabAt(j, r) = R + r * W
    BY <1>6 DEF SlabAt
  <2>3. W \in Nat /\ R \in Nat
    BY <1>2, <1>3
  <2>4. SlabWords[j] = W
    BY <1>6
  <2> HIDE DEF W, R
  <2>5. s * W \in Nat /\ r * W \in Nat
    BY <2>1, <2>3
  <2>6. s * W + W <= r * W \/ r * W + W <= s * W
    <3>1. CASE s < r
      BY <3>1, <2>1, <2>3, Monotone
    <3>2. CASE r < s
      BY <3>2, <2>1, <2>3, Monotone
    <3> QED BY <3>1, <3>2, <2>1
  <2>7. R + s * W + W <= R + r * W \/ R + r * W + W <= R + s * W
    BY <2>3, <2>5, <2>6
  <2> QED BY <2>2, <2>4, <2>7 DEF W
<1> QED BY <1>3, <1>4, <1>5, <1>6

\* Two blocks at different addresses do not overlap.
LEMMA PlacedApart ==
  ASSUME NEW C, NEW off \in 0 .. BumpWords, Carved(C, off),
         NEW b \in Block, NEW d \in Block, Placed(b, C), Placed(d, C), b.at # d.at
  PROVE  Words(b) \cap Words(d) = {}
<1>1. b.at \in Nat /\ b.size \in Nat \ {0} /\ d.at \in Nat /\ d.size \in Nat \ {0}
  BY DEF Block
<1>2. BumpBase \in Nat
  BY BumpBehind
<1> SUFFICES b.at + b.size <= d.at \/ d.at + d.size <= b.at
  BY <1>1 DEF Words
<1>3. CASE \E c \in C : InCarved(c, b)
  <2>1. PICK c \in C : InCarved(c, b)
    BY <1>3
  <2>2. BumpBase <= b.at /\ b.at + b.size <= c.at + c.size /\ b.at = c.at
    BY <2>1, CarvedPlace DEF InCarved
  <2>3. CASE \E e \in C : InCarved(e, d)
    <3>1. PICK e \in C : InCarved(e, d)
      BY <2>3
    <3>2. d.at + d.size <= e.at + e.size /\ d.at = e.at
      BY <3>1, CarvedPlace DEF InCarved
    <3>3. c # e
      BY <2>2, <3>2
    <3>4. c.at + c.size <= e.at \/ e.at + e.size <= c.at
      BY <3>3 DEF Carved
    <3>5. c.at \in Nat /\ c.size \in Nat /\ e.at \in Nat /\ e.size \in Nat
      BY DEF Carved
    <3> QED BY <2>2, <3>2, <3>4, <3>5, <1>1
  <2>4. CASE \E k \in Pool : \E s \in Slab(k) : InSlab(k, s, d)
    <3>1. d.at + d.size <= BumpBase
      BY <2>4, SlabPlace
    <3> QED BY <3>1, <2>2, <1>1, <1>2
  <2> QED BY <2>3, <2>4 DEF Placed
<1>4. CASE \E k \in Pool : \E s \in Slab(k) : InSlab(k, s, b)
  <2>1. PICK k \in Pool : \E s \in Slab(k) : InSlab(k, s, b)
    BY <1>4
  <2>2. PICK s \in Slab(k) : InSlab(k, s, b)
    BY <2>1
  <2>3. CASE \E e \in C : InCarved(e, d)
    <3>1. b.at + b.size <= BumpBase
      BY <2>2, SlabPlace
    <3>2. BumpBase <= d.at
      BY <2>3, CarvedPlace
    <3> QED BY <3>1, <3>2, <1>1, <1>2
  <2>4. CASE \E j \in Pool : \E r \in Slab(j) : InSlab(j, r, d)
    <3>1. PICK j \in Pool : \E r \in Slab(j) : InSlab(j, r, d)
      BY <2>4
    <3>2. PICK r \in Slab(j) : InSlab(j, r, d)
      BY <3>1
    <3>3. /\ b.at = SlabAt(k, s) /\ b.size <= SlabWords[k]
          /\ d.at = SlabAt(j, r) /\ d.size <= SlabWords[j]
      BY <2>2, <3>2 DEF InSlab
    <3>4. k # j \/ s # r
      BY <3>3
    <3>5. \/ b.at + SlabWords[k] <= d.at
          \/ d.at + SlabWords[j] <= b.at
      BY <3>3, <3>4, SlabsApart
    <3>6. SlabWords[k] \in Nat /\ SlabWords[j] \in Nat
      BY PoolConstants
    <3> QED BY <3>3, <3>5, <3>6, <1>1
  <2> QED BY <2>3, <2>4 DEF Placed
<1> QED BY <1>3, <1>4 DEF Placed

\* A block that is in the user region of a slab resource is in one of its slabs.
LEMMA InPoolInSlab ==
  ASSUME NEW C, NEW off \in 0 .. BumpWords, Carved(C, off),
         NEW b \in Block, Placed(b, C), NEW k \in Pool, InPool(k, b)
  PROVE  \E s \in Slab(k) : InSlab(k, s, b) /\ SlabIndex(k, b.at) = s
<1>1. ~\E c \in C : InCarved(c, b)
  BY CarvedPlace
<1>2. PICK j \in Pool : \E s \in Slab(j) : InSlab(j, s, b)
  BY <1>1 DEF Placed
<1>3. PICK s \in Slab(j) : InSlab(j, s, b)
  BY <1>2
<1>4. k = j /\ SlabIndex(j, b.at) = s
  BY <1>3, SlabPlace
<1> QED BY <1>3, <1>4

\* A block that starts where a slab does is in it.
LEMMA AtSlab ==
  ASSUME NEW C, NEW off \in 0 .. BumpWords, Carved(C, off),
         NEW b \in Block, Placed(b, C), NEW k \in Pool, NEW s \in Slab(k), b.at = SlabAt(k, s)
  PROVE  InSlab(k, s, b)
<1>1. /\ SlabAt(k, s) \in Nat /\ SlabAt(k, s) + SlabWords[k] <= End(k) /\ End(k) <= BumpBase
      /\ SlabWords[k] \in Nat \ {0} /\ BumpBase \in Nat /\ End(k) \in Nat
  BY SlabBounds, BumpBehind, PoolConstants, PoolBounds
<1>2. ~\E c \in C : InCarved(c, b)
  <2> SUFFICES ASSUME NEW c \in C, InCarved(c, b) PROVE FALSE
    OBVIOUS
  <2>1. BumpBase <= b.at
    BY CarvedPlace
  <2> QED BY <2>1, <1>1
<1>3. PICK j \in Pool : \E r \in Slab(j) : InSlab(j, r, b)
  BY <1>2 DEF Placed
<1>4. PICK r \in Slab(j) : InSlab(j, r, b)
  BY <1>3
<1>5. SlabAt(j, r) = SlabAt(k, s) /\ SlabWords[j] \in Nat \ {0}
  BY <1>4, PoolConstants DEF InSlab
<1>6. ~(k # j \/ s # r)
  <2> SUFFICES ASSUME k # j \/ s # r PROVE FALSE
    OBVIOUS
  <2>1. \/ SlabAt(k, s) + SlabWords[k] <= SlabAt(j, r)
        \/ SlabAt(j, r) + SlabWords[j] <= SlabAt(k, s)
    BY SlabsApart
  <2> QED BY <2>1, <1>1, <1>5
<1> QED BY <1>4, <1>6

-----------------------------------------------------------------------------
(***************************************************************************)
(* H: the blocks that are held or on their way back; L: the free list; C:  *)
(* the blocks cut off.  Every block has a place of its own.                *)
(***************************************************************************)
HeldOK(H, C) ==
  /\ H \subseteq Block
  /\ \A b \in H : Placed(b, C)
  /\ \A b, d \in H : b.at = d.at => b = d

ListOK(L, C) ==
  /\ L \in Seq(Block)
  /\ \A i \in DOMAIN L : \E c \in C : InCarved(c, L[i])
  /\ \A i, j \in DOMAIN L : L[i].at = L[j].at => i = j

NotListed(H, L) == \A b \in H : \A i \in DOMAIN L : b.at # L[i].at

\* The bits that are set for the blocks H.
Marks(k, H) == Padding(k) \cup {SlabIndex(k, b.at) : b \in {d \in H : InPool(k, d)}}

\* A slab whose bit is clear has no block.
LEMMA ClearBit ==
  ASSUME NEW C, NEW off \in 0 .. BumpWords, Carved(C, off), NEW H, HeldOK(H, C),
         NEW k \in Pool, NEW s \in Bits(k) \ Marks(k, H)
  PROVE  s \in Slab(k) /\ \A b \in H : b.at # SlabAt(k, s)
<1>1. s \in Slab(k)
  BY DEF Marks, Padding, Slab
<1>2. ASSUME NEW b \in H, b.at = SlabAt(k, s) PROVE FALSE
  <2>1. b \in Block /\ Placed(b, C)
    BY DEF HeldOK
  <2>2. InSlab(k, s, b)
    BY <1>1, <1>2, <2>1, AtSlab
  <2>3. InPool(k, b) /\ SlabIndex(k, b.at) = s
    BY <1>1, <2>1, <2>2, SlabPlace
  <2> QED BY <2>3 DEF Marks
<1> QED BY <1>1, <1>2

\* A block in a slab sets its bit and no other.
LEMMA MarkSlab ==
  ASSUME NEW H, NEW k \in Pool, NEW s \in Slab(k), NEW b \in Block, InSlab(k, s, b)
  PROVE  /\ Marks(k, H \cup {b}) = Marks(k, H) \cup {s}
         /\ \A j \in Pool \ {k} : Marks(j, H \cup {b}) = Marks(j, H)
<1>1. /\ InPool(k, b) /\ SlabIndex(k, b.at) = s
      /\ \A j \in Pool : InPool(j, b) => j = k
  BY SlabPlace
<1>2. Marks(k, H \cup {b}) = Marks(k, H) \cup {s}
  BY <1>1 DEF Marks
<1>3. ASSUME NEW j \in Pool \ {k} PROVE Marks(j, H \cup {b}) = Marks(j, H)
  BY <1>1 DEF Marks
<1> QED BY <1>2, <1>3

\* A block outside of the slabs sets none.
LEMMA MarkNone ==
  ASSUME NEW H, NEW b, NEW k \in Pool, ~InPool(k, b)
  PROVE  Marks(k, H \cup {b}) = Marks(k, H) /\ Marks(k, H \ {b}) = Marks(k, H)
BY DEF Marks

\* When a block of a slab goes, its bit is the only one to clear.
LEMMA UnmarkSlab ==
  ASSUME NEW C, NEW off \in 0 .. BumpWords, Carved(C, off), NEW H, HeldOK(H, C),
         NEW k \in Pool, NEW b \in H, InPool(k, b)
  PROVE  /\ Marks(k, H \ {b}) = Marks(k, H) \ {SlabIndex(k, b.at)}
         /\ \A j \in Pool \ {k} : Marks(j, H \ {b}) = Marks(j, H)
<1>0. \A d \in H : d \in Block /\ Placed(d, C)
  BY DEF HeldOK
<1>1. PICK s \in Slab(k) : InSlab(k, s, b) /\ SlabIndex(k, b.at) = s
  BY <1>0, InPoolInSlab
<1>2. s \notin Padding(k)
  BY SlabBounds
<1>3. \A j \in Pool : InPool(j, b) => j = k
  BY <1>0, <1>1, SlabPlace
<1>4. ASSUME NEW d \in H, InPool(k, d), SlabIndex(k, d.at) = s PROVE d = b
  <2>1. PICK r \in Slab(k) : InSlab(k, r, d) /\ SlabIndex(k, d.at) = r
    BY <1>0, <1>4, InPoolInSlab
  <2>2. r = s
    BY <1>4, <2>1
  <2>3. d.at = b.at
    BY <1>1, <2>1, <2>2 DEF InSlab
  <2> QED BY <2>3 DEF HeldOK
<1>5. Marks(k, H \ {b}) = Marks(k, H) \ {s}
  BY <1>1, <1>2, <1>4 DEF Marks
<1>6. ASSUME NEW j \in Pool \ {k} PROVE Marks(j, H \ {b}) = Marks(j, H)
  BY <1>3, MarkNone
<1> QED BY <1>1, <1>5, <1>6

\* Blocks that come and go.
LEMMA HeldMore ==
  ASSUME NEW H, NEW C, NEW D, HeldOK(H, C), C \subseteq D,
         NEW b \in Block, Placed(b, D), \A d \in H : d.at # b.at
  PROVE  HeldOK(H \cup {b}, D)
<1>1. \A d \in H : Placed(d, D)
  BY DEF HeldOK, Placed
<1> QED BY <1>1 DEF HeldOK

\* Giving a block up keeps the blocks held in order.
LEMMA HeldLess ==
  ASSUME NEW H, NEW C, NEW b, HeldOK(H, C)
  PROVE  HeldOK(H \ {b}, C)
BY DEF HeldOK

\* Removing an element moves the later ones up.
LEMMA RemoveAtFacts ==
  ASSUME NEW S, NEW L \in Seq(S), NEW i \in DOMAIN L
  PROVE  /\ RemoveAt(L, i) \in Seq(S)
         /\ DOMAIN RemoveAt(L, i) = 1 .. Len(L) - 1
         /\ \A j \in 1 .. Len(L) - 1 : RemoveAt(L, i)[j] = IF j < i THEN L[j] ELSE L[j + 1]
<1> DEFINE A == SubSeq(L, 1, i - 1)
           B == SubSeq(L, i + 1, Len(L))
<1>1. Len(L) \in Nat /\ i \in 1 .. Len(L)
  OBVIOUS
<1>2. /\ A \in Seq(S) /\ Len(A) = i - 1
      /\ \A j \in 1 .. i - 1 : A[j] = L[j]
  BY <1>1
<1>3. /\ B \in Seq(S) /\ Len(B) = Len(L) - i
      /\ \A j \in 1 .. Len(L) - i : B[j] = L[i + j]
  BY <1>1
<1>4. RemoveAt(L, i) = A \o B
  BY DEF RemoveAt
<1> HIDE DEF A, B
<1>5. /\ A \o B \in Seq(S) /\ Len(A \o B) = Len(A) + Len(B)
      /\ \A m \in 1 .. Len(A) + Len(B) :
           (A \o B)[m] = IF m <= Len(A) THEN A[m] ELSE B[m - Len(A)]
  BY <1>2, <1>3, ConcatProperties, Zenon
<1> DEFINE R == A \o B
<1>6. R \in Seq(S) /\ Len(R) = Len(L) - 1
  BY <1>1, <1>2, <1>3, <1>5
<1> HIDE DEF R
<1>7. ASSUME NEW j \in 1 .. Len(L) - 1
      PROVE  R[j] = IF j < i THEN L[j] ELSE L[j + 1]
  <2>1. j \in 1 .. Len(A) + Len(B)
    BY <1>1, <1>2, <1>3
  <2>2. R[j] = IF j <= Len(A) THEN A[j] ELSE B[j - Len(A)]
    BY <1>5, <2>1 DEF R
  <2>3. CASE j < i
    <3>1. j \in 1 .. i - 1 /\ j <= Len(A)
      BY <1>1, <1>2, <2>3
    <3> QED BY <2>2, <2>3, <3>1, <1>2
  <2>4. CASE ~(j < i)
    <3>1. j - Len(A) \in 1 .. Len(L) - i /\ ~(j <= Len(A)) /\ i + (j - Len(A)) = j + 1
      BY <1>1, <1>2, <2>4
    <3> QED BY <2>2, <2>4, <3>1, <1>3
  <2> QED BY <2>3, <2>4
<1>8. DOMAIN R = 1 .. Len(L) - 1
  BY <1>6
<1> QED BY <1>4, <1>6, <1>7, <1>8 DEF R

\* What stays in a free list from which the block at i is taken.
LEMMA ListLess ==
  ASSUME NEW L \in Seq(Block), NEW i \in DOMAIN L
  PROVE  /\ RemoveAt(L, i) \in Seq(Block)
         /\ \A j \in DOMAIN RemoveAt(L, i) :
              \E m \in DOMAIN L : m # i /\ RemoveAt(L, i)[j] = L[m]
         /\ \A m \in DOMAIN L : m # i =>
              \E j \in DOMAIN RemoveAt(L, i) : RemoveAt(L, i)[j] = L[m]
         /\ \A C : ListOK(L, C) => /\ ListOK(RemoveAt(L, i), C)
                                   /\ \A j \in DOMAIN RemoveAt(L, i) :
                                        RemoveAt(L, i)[j].at # L[i].at
<1> DEFINE R == RemoveAt(L, i)
           up(j) == IF j < i THEN j ELSE j + 1
<1>1. Len(L) \in Nat /\ i \in 1 .. Len(L) /\ DOMAIN L = 1 .. Len(L)
  OBVIOUS
<1>2. /\ R \in Seq(Block) /\ DOMAIN R = 1 .. Len(L) - 1
      /\ \A j \in 1 .. Len(L) - 1 : R[j] = IF j < i THEN L[j] ELSE L[j + 1]
  BY RemoveAtFacts
<1> HIDE DEF R
<1>3. \A j \in DOMAIN R : up(j) \in DOMAIN L /\ up(j) # i /\ R[j] = L[up(j)]
  BY <1>1, <1>2
<1>4. \A j, m \in DOMAIN R : up(j) = up(m) => j = m
  BY <1>1, <1>2
<1>5. ASSUME NEW m \in DOMAIN L, m # i PROVE \E j \in DOMAIN R : R[j] = L[m]
  <2>1. CASE m < i
    <3>1. m \in DOMAIN R /\ R[m] = L[m]
      BY <2>1, <1>1, <1>2
    <3> QED BY <3>1
  <2>2. CASE ~(m < i)
    <3>1. m - 1 \in 1 .. Len(L) - 1 /\ ~(m - 1 < i) /\ (m - 1) + 1 = m
      BY <2>2, <1>1, <1>5
    <3>2. R[m - 1] = L[m]
      BY <3>1, <1>2
    <3> QED BY <3>1, <3>2, <1>2
  <2> QED BY <2>1, <2>2
<1>6. ASSUME NEW C, ListOK(L, C)
      PROVE  ListOK(R, C) /\ \A j \in DOMAIN R : R[j].at # L[i].at
  <2> HIDE DEF up
  <2>1. \A j \in DOMAIN R : \E c \in C : InCarved(c, R[j])
    BY <1>3, <1>6 DEF ListOK
  <2>2. \A j, m \in DOMAIN R : R[j].at = R[m].at => j = m
    <3> SUFFICES ASSUME NEW j \in DOMAIN R, NEW m \in DOMAIN R, R[j].at = R[m].at
                 PROVE  j = m
      OBVIOUS
    <3>1. up(j) = up(m)
      BY <1>3, <1>6 DEF ListOK
    <3> QED BY <3>1, <1>4
  <2>3. \A j \in DOMAIN R : R[j].at # L[i].at
    BY <1>3, <1>6 DEF ListOK
  <2> QED BY <2>1, <2>2, <2>3, <1>2 DEF ListOK
<1>7. \A j \in DOMAIN R : \E m \in DOMAIN L : m # i /\ R[j] = L[m]
  BY <1>3
<1> QED BY <1>2, <1>5, <1>6, <1>7 DEF R

\* A block that joins the free list is its head.
LEMMA ListMore ==
  ASSUME NEW L \in Seq(Block), NEW b \in Block
  PROVE  /\ <<b>> \o L \in Seq(Block)
         /\ \A j \in DOMAIN (<<b>> \o L) :
              (<<b>> \o L)[j] = b \/ \E m \in DOMAIN L : (<<b>> \o L)[j] = L[m]
         /\ \E j \in DOMAIN (<<b>> \o L) : (<<b>> \o L)[j] = b
         /\ \A m \in DOMAIN L : \E j \in DOMAIN (<<b>> \o L) : (<<b>> \o L)[j] = L[m]
         /\ \A C : /\ ListOK(L, C)
                   /\ \E c \in C : InCarved(c, b)
                   /\ \A m \in DOMAIN L : L[m].at # b.at
                   => ListOK(<<b>> \o L, C)
<1> DEFINE R == <<b>> \o L
<1>1. Len(L) \in Nat /\ DOMAIN L = 1 .. Len(L)
  OBVIOUS
<1>2. <<b>> \in Seq(Block) /\ Len(<<b>>) = 1 /\ <<b>>[1] = b
  OBVIOUS
<1>3. R \in Seq(Block) /\ Len(R) = Len(L) + 1
  BY <1>2
<1>4. DOMAIN R = 1 .. Len(L) + 1
  BY <1>1, <1>3
<1>5. R[1] = b
  BY <1>1, <1>2
<1>6. ASSUME NEW j \in DOMAIN R, j # 1 PROVE j - 1 \in DOMAIN L /\ R[j] = L[j - 1]
  BY <1>1, <1>2, <1>4, <1>6
<1>7. ASSUME NEW m \in DOMAIN L PROVE m + 1 \in DOMAIN R /\ R[m + 1] = L[m]
  <2>1. m + 1 \in DOMAIN R /\ m + 1 # 1 /\ (m + 1) - 1 = m
    BY <1>1, <1>4
  <2> QED BY <2>1, <1>6
<1> HIDE DEF R
<1>8. \A j \in DOMAIN R : R[j] = b \/ \E m \in DOMAIN L : R[j] = L[m]
  BY <1>5, <1>6
<1>9. 1 \in DOMAIN R
  BY <1>1, <1>4
<1>10. ASSUME NEW C, ListOK(L, C), \E c \in C : InCarved(c, b),
              \A m \in DOMAIN L : L[m].at # b.at
       PROVE  ListOK(R, C)
  <2>1. ASSUME NEW j \in DOMAIN R PROVE \E c \in C : InCarved(c, R[j])
    <3>1. CASE R[j] = b
      BY <3>1, <1>10
    <3>2. CASE R[j] # b
      <4>1. PICK m \in DOMAIN L : R[j] = L[m]
        BY <3>2, <1>8
      <4>2. \E c \in C : InCarved(c, L[m])
        BY <1>10 DEF ListOK
      <4> QED BY <4>1, <4>2
    <3> QED BY <3>1, <3>2
  <2>2. ASSUME NEW j \in DOMAIN R, NEW m \in DOMAIN R, R[j].at = R[m].at PROVE j = m
    <3>1. CASE j = 1 /\ m = 1
      BY <3>1
    <3>2. CASE j = 1 /\ m # 1
      BY <2>2, <3>2, <1>5, <1>6, <1>10
    <3>3. CASE j # 1 /\ m = 1
      BY <2>2, <3>3, <1>5, <1>6, <1>10
    <3>4. CASE j # 1 /\ m # 1
      <4>1. j - 1 = m - 1
        BY <2>2, <3>4, <1>6, <1>10 DEF ListOK
      <4> QED BY <4>1, <1>1, <1>4
    <3> QED BY <3>1, <3>2, <3>3, <3>4
  <2> QED BY <2>1, <2>2, <1>3 DEF ListOK
<1>11. \E j \in DOMAIN R : R[j] = b
  BY <1>5, <1>9
<1>12. \A m \in DOMAIN L : \E j \in DOMAIN R : R[j] = L[m]
  BY <1>7
<1> QED BY <1>3, <1>8, <1>10, <1>11, <1>12 DEF R

-----------------------------------------------------------------------------
(***************************************************************************)
(* The inductive invariant.                                                *)
(***************************************************************************)
Held == live \cup Returning

\* A hart that is here with this argument is giving it back.
Gives(p, a) == p = "free" \/ (p = "register" /\ BumpOwns(a.at))

\* What holds for a hart, wherever it is.
HartOK(p, a, k, w) ==
  /\ p \in {"idle", "slab", "bump", "freeList", "free", "register", "return"}
  /\ a \in [at : Int, size : Nat] /\ k \in Pool /\ w \in 0 .. NumBitmaps(k) - 1
  /\ p # "idle" => a.size \in Request
  /\ p \in {"idle", "free", "register"} => k = 1 /\ w = 0
  /\ p = "slab" => a.size <= SlabWords[k]
  /\ p \in {"free", "register"} => a.at \in Nat

HartsOK ==
  /\ pc = [h \in Hart |-> pc[h]] /\ arg = [h \in Hart |-> arg[h]]
  /\ pool = [h \in Hart |-> pool[h]] /\ word = [h \in Hart |-> word[h]]
  /\ \A h \in Hart : HartOK(pc[h], arg[h], pool[h], word[h])

MemoryOK ==
  /\ used = [k \in Pool |-> used[k]] /\ \A k \in Pool : used[k] \subseteq Bits(k)
  /\ freeList \in Seq(Block) /\ \A i \in DOMAIN freeList : freeList[i].size >= MinBump
  /\ live \subseteq Block /\ \A b \in live : b.size \in Request
  /\ offset \in 0 .. BumpWords /\ Carved(carved, offset)
  /\ wild \subseteq Nat /\ displaced \in BOOLEAN

\* No block that was cut off is lost.
Kept(C, H, L) ==
  \A c \in C : (\E b \in H : b.at = c.at) \/ (\E i \in DOMAIN L : L[i].at = c.at)

\* A block that is given back is held no more, and nobody else gives it back.
OwnersApart ==
  \A h \in Hart : Gives(pc[h], arg[h]) =>
    /\ arg[h] \notin live
    /\ \A g \in Hart : Gives(pc[g], arg[g]) /\ arg[g] = arg[h] => g = h

\* A block that goes to the slab resources is in the first one for its size.
FreesFirst ==
  \A h \in Hart : pc[h] = "free" =>
    Chain(arg[h].size) # {} /\ InPool(First(Chain(arg[h].size)), arg[h])

\* What is true until a displaced block is freed.
Placement ==
  /\ HeldOK(Held, carved) /\ ListOK(freeList, carved) /\ NotListed(Held, freeList)
  /\ OwnersApart
  /\ FreesFirst
  /\ \A k \in Pool : used[k] = Marks(k, Held)
  /\ wild = {}

IInv ==
  /\ HartsOK /\ MemoryOK /\ Kept(carved, Held, freeList)
  /\ ~displaced => Placement

-----------------------------------------------------------------------------
(***************************************************************************)
(* How one hart moves.                                                     *)
(***************************************************************************)
Moves(h, p, a, k, w) ==
  /\ pc' = [pc EXCEPT ![h] = p] /\ arg' = [arg EXCEPT ![h] = a]
  /\ pool' = [pool EXCEPT ![h] = k] /\ word' = [word EXCEPT ![h] = w]

\* What a variable keeps that does not change.
LEMMA StaysPut ==
  ASSUME NEW f, f = [g \in Hart |-> f[g]], NEW h \in Hart
  PROVE  f = [f EXCEPT ![h] = f[h]]
OBVIOUS

\* A step of one hart leaves the others where they are, and the registers of all
\* in order when its own new ones are.
LEMMA HartMoves ==
  ASSUME HartsOK, NEW h \in Hart, NEW p, NEW a, NEW k, NEW w, Moves(h, p, a, k, w)
  PROVE  /\ HartOK(p, a, k, w) => HartsOK'
         /\ pc'[h] = p /\ arg'[h] = a
         /\ \A g \in Hart \ {h} : pc'[g] = pc[g] /\ arg'[g] = arg[g]
<1>1. /\ pc'[h] = p /\ arg'[h] = a /\ pool'[h] = k /\ word'[h] = w
      /\ \A g \in Hart \ {h} : /\ pc'[g] = pc[g] /\ arg'[g] = arg[g]
                               /\ pool'[g] = pool[g] /\ word'[g] = word[g]
  BY DEF HartsOK, Moves
<1>2. /\ pc' = [g \in Hart |-> pc'[g]] /\ arg' = [g \in Hart |-> arg'[g]]
      /\ pool' = [g \in Hart |-> pool'[g]] /\ word' = [g \in Hart |-> word'[g]]
  BY DEF HartsOK, Moves
<1>3. ASSUME HartOK(p, a, k, w), NEW g \in Hart
      PROVE  HartOK(pc'[g], arg'[g], pool'[g], word'[g])
  <2>1. CASE g = h
    BY <2>1, <1>1, <1>3
  <2>2. CASE g # h
    <3>1. HartOK(pc[g], arg[g], pool[g], word[g])
      BY DEF HartsOK
    <3> QED BY <2>2, <3>1, <1>1
  <2> QED BY <2>1, <2>2
<1>4. ASSUME HartOK(p, a, k, w) PROVE HartsOK'
  <2>1. \A g \in Hart : HartOK(pc'[g], arg'[g], pool'[g], word'[g])
    BY <1>3, <1>4
  <2>2. HartsOK' = (/\ pc' = [g \in Hart |-> pc'[g]] /\ arg' = [g \in Hart |-> arg'[g]]
                    /\ pool' = [g \in Hart |-> pool'[g]] /\ word' = [g \in Hart |-> word'[g]]
                    /\ \A g \in Hart : HartOK(pc'[g], arg'[g], pool'[g], word'[g]))
    BY DEF HartsOK, HartOK
  <2> QED BY <1>2, <2>1, <2>2
<1> QED BY <1>1, <1>4

\* What the other harts give back.
OthersGive(h) == {arg[g] : g \in {f \in Hart \ {h} : Gives(pc[f], arg[f])}}

\* The blocks on their way back, split into those of the other harts and that of h.
LEMMA ReturningNow ==
  ASSUME NEW h \in Hart
  PROVE  Returning = OthersGive(h) \cup (IF Gives(pc[h], arg[h]) THEN {arg[h]} ELSE {})
BY DEF Returning, OthersGive, Gives

\* The same blocks after a step of hart h.
LEMMA ReturningNext ==
  ASSUME HartsOK, NEW h \in Hart, NEW p, NEW a, NEW k, NEW w, Moves(h, p, a, k, w)
  PROVE  Returning' = OthersGive(h) \cup (IF Gives(p, a) THEN {a} ELSE {})
<1>1. /\ pc'[h] = p /\ arg'[h] = a
      /\ \A g \in Hart \ {h} : pc'[g] = pc[g] /\ arg'[g] = arg[g]
  BY HartMoves
<1>2. Returning' = {arg'[g] : g \in {f \in Hart : Gives(pc'[f], arg'[f])}}
  BY DEF Returning, Gives, BumpOwns
<1> QED BY <1>1, <1>2 DEF OthersGive

\* A step that hands out or takes back nothing.
LEMMA NothingMoves ==
  ASSUME IInv, NEW h \in Hart, NEW p, NEW a, NEW k, NEW w, Moves(h, p, a, k, w),
         HartOK(p, a, k, w), {p, pc[h]} \cap {"free", "register"} = {},
         UNCHANGED <<used, offset, freeList, live, carved, displaced, wild>>
  PROVE  IInv'
<1>1. /\ pc'[h] = p /\ arg'[h] = a /\ HartsOK'
      /\ \A g \in Hart \ {h} : pc'[g] = pc[g] /\ arg'[g] = arg[g]
  BY HartMoves DEF IInv
<1>2. ~Gives(p, a) /\ ~Gives(pc[h], arg[h])
  BY DEF Gives
<1>3. Returning' = Returning
  BY <1>2, ReturningNow, ReturningNext DEF IInv
<1>4. Held' = Held
  BY <1>3 DEF Held
<1>5. MemoryOK'
  BY DEF IInv, MemoryOK
<1>6. Kept(carved, Held, freeList)'
  BY <1>4 DEF IInv, Kept
<1>7. ASSUME ~displaced PROVE Placement'
  <2>1. Placement
    BY <1>7 DEF IInv
  <2>2. OwnersApart'
    <3> SUFFICES ASSUME NEW f \in Hart, Gives(pc[f], arg[f])'
                 PROVE  /\ (arg[f] \notin live)'
                        /\ \A g \in Hart : (Gives(pc[g], arg[g]) /\ arg[g] = arg[f])' => g = f
      BY DEF OwnersApart
    <3>1. \A g \in Hart : Gives(pc[g], arg[g])' => g # h /\ Gives(pc[g], arg[g]) /\ arg'[g] = arg[g]
      BY <1>1, <1>2 DEF Gives, BumpOwns
    <3> QED BY <2>1, <3>1 DEF Placement, OwnersApart
  <2>3. FreesFirst'
    <3>1. \A g \in Hart : pc'[g] = "free" => g # h /\ pc[g] = "free" /\ arg'[g] = arg[g]
      BY <1>1
    <3> QED BY <2>1, <3>1 DEF Placement, FreesFirst
  <2>4. HeldOK(Held, carved)' /\ ListOK(freeList, carved)' /\ NotListed(Held, freeList)'
    BY <2>1, <1>4 DEF Placement, HeldOK, ListOK, NotListed
  <2>5. (\A i \in Pool : used[i] = Marks(i, Held))'
    BY <2>1, <1>4 DEF Placement, Marks
  <2> QED BY <2>1, <2>2, <2>3, <2>4, <2>5 DEF Placement
<1> QED BY <1>1, <1>5, <1>6, <1>7 DEF IInv

\* In the beginning all slabs are free and nothing is held.
LEMMA InitIInv == Init => IInv
<1> SUFFICES ASSUME Init PROVE IInv
  OBVIOUS
<1> USE DEF Init
<1>1. 1 \in Pool /\ NumBitmaps(1) \in Nat \ {0}
  <2>1. 1 \in Pool
    BY ResourceAssumption DEF Pool
  <2> QED BY <2>1, PoolSizes
<1>2. HartsOK
  <2>1. HartOK("idle", NoBlock, 1, 0)
    BY <1>1 DEF HartOK, NoBlock, NoAddress
  <2> QED BY <2>1 DEF HartsOK
<1>3. Held = {}
  BY DEF Held, Returning
<1>4. MemoryOK
  <2>1. used = [k \in Pool |-> used[k]] /\ \A k \in Pool : used[k] \subseteq Bits(k)
    BY DEF Padding
  <2>2. freeList \in Seq(Block) /\ \A i \in DOMAIN freeList : freeList[i].size >= MinBump
    OBVIOUS
  <2>3. offset \in 0 .. BumpWords
    BY ResourceAssumption
  <2>4. Carved(carved, offset)
    BY DEF Carved
  <2> QED BY <2>1, <2>2, <2>3, <2>4 DEF MemoryOK
<1>5. \A k \in Pool : used[k] = Marks(k, Held)
  BY <1>3 DEF Marks
<1>6. OwnersApart /\ FreesFirst
  BY DEF OwnersApart, FreesFirst, Gives
<1>7. HeldOK(Held, carved) /\ ListOK(freeList, carved) /\ NotListed(Held, freeList)
  BY <1>3 DEF HeldOK, ListOK, NotListed
<1> QED BY <1>2, <1>4, <1>5, <1>6, <1>7 DEF IInv, Placement, Kept

\* The call of allocate touches nothing but the registers of its hart.
LEMMA AllocateStep ==
  ASSUME IInv, NEW h \in Hart, NEW n \in Request, allocate(h, n)
  PROVE  IInv'
<1> USE DEF allocate
<1>1. HartsOK /\ HartOK(pc[h], arg[h], pool[h], word[h]) /\ pc[h] = "idle"
  BY DEF IInv, HartsOK
<1>2. pool[h] = 1 /\ word[h] = 0 /\ 1 \in Pool
  BY <1>1 DEF HartOK
<1> DEFINE a == [at |-> NoAddress, size |-> n]
<1>3. a \in [at : Int, size : Nat] /\ a.size = n /\ n \in Nat
  BY ResourceAssumption DEF NoAddress
<1>4. pool = [pool EXCEPT ![h] = pool[h]] /\ word' = [word EXCEPT ![h] = word[h]]
  BY <1>1, StaysPut DEF HartsOK
<1>5. CASE Chain(n) = {}
  <2>1. Moves(h, "bump", a, pool[h], word[h])
    BY <1>4, <1>5 DEF Moves
  <2>2. HartOK("bump", a, pool[h], word[h])
    BY <1>1, <1>3 DEF HartOK
  <2> QED BY <2>1, <2>2, <1>1, NothingMoves
<1>6. CASE Chain(n) # {}
  <2> DEFINE k == First(Chain(n))
  <2>1. k \in Pool /\ n <= SlabWords[k]
    <3>1. Chain(n) \in SUBSET Nat
      BY DEF Chain, Pool
    <3>2. k \in Chain(n)
      BY <3>1, <1>6, FirstIsLeast
    <3> QED BY <3>2 DEF Chain
  <2>2. NumBitmaps(k) \in Nat \ {0}
    BY <2>1, PoolSizes
  <2>3. Moves(h, "slab", a, k, word[h])
    BY <1>4, <1>6 DEF Moves
  <2> HIDE DEF k
  <2>4. HartOK("slab", a, k, word[h])
    BY <1>2, <1>3, <2>1, <2>2 DEF HartOK
  <2> QED BY <2>3, <2>4, <1>1, NothingMoves
<1> QED BY <1>5, <1>6

\* A hart that returns has nothing in its hands.
LEMMA ReturnStep ==
  ASSUME IInv, NEW h \in Hart, return(h)
  PROVE  IInv'
<1> USE DEF return
<1>1. Moves(h, "idle", NoBlock, 1, 0) /\ pc[h] = "return"
  BY DEF Moves
<1>2. 1 \in Pool
  BY ResourceAssumption DEF Pool
<1>3. HartOK("idle", NoBlock, 1, 0)
  BY <1>2, PoolSizes DEF HartOK, NoBlock, NoAddress
<1> QED BY <1>1, <1>3, NothingMoves

\* Handing out a block that has not been held before.
LEMMA GiveStep ==
  ASSUME IInv, NEW h \in Hart, NEW p \in Nat, pc[h] \in {"slab", "bump", "freeList"},
         Give(h, p), UNCHANGED <<pool, word>>,
         NEW b, b = [at |-> p, size |-> arg[h].size]
  PROVE  /\ b \in Block /\ b.size = arg[h].size /\ b.size \in Request /\ b.at = p
         /\ HartsOK' /\ Held' = Held \cup {b} /\ arg'[h] = b
         /\ live' = live \cup {b} /\ live' \subseteq Block /\ \A d \in live' : d.size \in Request
         /\ Placement /\ (\A d \in Held : d.at # p) => OwnersApart' /\ FreesFirst'
<1> USE DEF Give
<1>1. HartsOK /\ HartOK(pc[h], arg[h], pool[h], word[h])
  BY DEF IInv, HartsOK
<1>2. arg[h] \in [at : Int, size : Nat] /\ arg[h].size \in Request
  BY <1>1 DEF HartOK
<1>3. arg[h].size \in Nat \ {0}
  BY <1>2, ResourceAssumption
<1>4. b \in Block /\ b.at = p /\ b.size = arg[h].size /\ b \in [at : Int, size : Nat]
  BY <1>3 DEF Block
<1>5. Moves(h, "return", b, pool[h], word[h])
  <2>1. pool' = [pool EXCEPT ![h] = pool[h]] /\ word' = [word EXCEPT ![h] = word[h]]
    BY <1>1, StaysPut DEF HartsOK
  <2>2. arg' = [arg EXCEPT ![h] = b]
    <3>1. [arg[h] EXCEPT !.at = p] = b
      BY <1>2
    <3> QED BY <3>1
  <2> QED BY <2>1, <2>2 DEF Moves
<1>6. HartOK("return", b, pool[h], word[h])
  BY <1>1, <1>2, <1>4 DEF HartOK
<1>7. /\ HartsOK' /\ pc'[h] = "return" /\ arg'[h] = b
      /\ \A g \in Hart \ {h} : pc'[g] = pc[g] /\ arg'[g] = arg[g]
  BY <1>1, <1>5, <1>6, HartMoves
<1>8. Returning' = Returning
  <2>1. ~Gives("return", b) /\ ~Gives(pc[h], arg[h])
    BY DEF Gives
  <2>2. Returning = OthersGive(h)
    BY <2>1, ReturningNow
  <2>3. Returning' = OthersGive(h) \cup (IF Gives("return", b) THEN {b} ELSE {})
    BY <1>1, <1>5, ReturningNext
  <2> QED BY <2>1, <2>2, <2>3
<1>9. live' = live \cup {b}
  OBVIOUS
<1>10. Held' = Held \cup {b}
  BY <1>8, <1>9 DEF Held
<1>11. live' \subseteq Block /\ \A d \in live' : d.size \in Request
  BY <1>2, <1>4, <1>9 DEF IInv, MemoryOK
<1>12. ASSUME Placement, \A d \in Held : d.at # p PROVE OwnersApart' /\ FreesFirst'
  <2>1. \A g \in Hart : Gives(pc[g], arg[g])' => g # h /\ Gives(pc[g], arg[g]) /\ arg'[g] = arg[g]
    BY <1>7 DEF Gives, BumpOwns
  <2>2. \A g \in Hart : Gives(pc[g], arg[g]) => arg[g] \in Held
    BY DEF Held, Returning, Gives
  <2>3. \A g \in Hart : Gives(pc[g], arg[g]) => arg[g] # b
    BY <2>2, <1>4, <1>12
  <2>4. OwnersApart'
    <3> SUFFICES ASSUME NEW f \in Hart, Gives(pc[f], arg[f])'
                 PROVE  /\ (arg[f] \notin live)'
                        /\ \A g \in Hart : (Gives(pc[g], arg[g]) /\ arg[g] = arg[f])' => g = f
      BY DEF OwnersApart
    <3>1. arg'[f] \notin live'
      BY <2>1, <2>3, <1>9, <1>12 DEF Placement, OwnersApart
    <3> QED BY <2>1, <3>1, <1>12 DEF Placement, OwnersApart
  <2>5. FreesFirst'
    <3>1. \A g \in Hart : pc'[g] = "free" => g # h /\ pc[g] = "free" /\ arg'[g] = arg[g]
      BY <1>7
    <3> QED BY <3>1, <1>12 DEF Placement, FreesFirst
  <2> QED BY <2>4, <2>5
<1> QED BY <1>2, <1>4, <1>7, <1>9, <1>10, <1>11, <1>12

-----------------------------------------------------------------------------
(***************************************************************************)
(* Where the block comes from that a call hands out.                       *)
(***************************************************************************)
\* Block b is handed out: it has a place where nothing else is.
HandsOut(h, b) ==
  /\ b \in Block /\ arg'[h] = b
  /\ Placed(b, carved') /\ carved \subseteq carved'
  /\ Carved(carved', offset') /\ offset' \in 0 .. BumpWords
  /\ ListOK(freeList', carved')
  /\ \A d \in Held : d.at # b.at
  /\ \A i \in DOMAIN freeList' : freeList'[i].at # b.at

\* Such a step keeps every block in its place.
LEMMA HandedOut ==
  ASSUME Placement, NEW h \in Hart, NEW b, HandsOut(h, b), Held' = Held \cup {b},
         OwnersApart', FreesFirst', UNCHANGED wild, NotListed(Held, freeList'),
         \A k \in Pool : used'[k] = Marks(k, Held \cup {b})
  PROVE  Placement'
<1>1. HeldOK(Held \cup {b}, carved')
  BY HeldMore DEF Placement, HandsOut
<1>2. HeldOK(Held, carved)' /\ ListOK(freeList, carved)'
  BY <1>1 DEF HandsOut, HeldOK, ListOK, Placed
<1>3. NotListed(Held, freeList)'
  BY DEF HandsOut, NotListed
<1>4. (\A k \in Pool : used[k] = Marks(k, Held))'
  BY DEF Marks
<1> QED BY <1>2, <1>3, <1>4 DEF Placement

\* A slab has another address than everything in the bump memory.
LEMMA SlabNotListed ==
  ASSUME NEW C, NEW off \in 0 .. BumpWords, Carved(C, off), NEW L, ListOK(L, C),
         NEW k \in Pool, NEW s \in Slab(k), NEW b \in Block, InSlab(k, s, b)
  PROVE  \A i \in DOMAIN L : L[i].at # b.at
<1> SUFFICES ASSUME NEW i \in DOMAIN L PROVE L[i].at # b.at
  OBVIOUS
<1>1. L[i] \in Block
  BY DEF ListOK
<1>2. PICK c \in C : InCarved(c, L[i])
  BY DEF ListOK
<1>3. BumpBase <= L[i].at
  BY <1>1, <1>2, CarvedPlace
<1>4. b.at + b.size <= BumpBase
  BY SlabPlace
<1>5. BumpBase \in Nat /\ b.at \in Nat /\ b.size \in Nat \ {0} /\ L[i].at \in Nat
  BY <1>1, BumpBehind DEF Block
<1> QED BY <1>3, <1>4, <1>5

\* slabAllocate takes a slab whose bit is clear, or goes on.
LEMMA SlabAllocateStep ==
  ASSUME IInv, NEW h \in Hart, slabAllocate(h)
  PROVE  IInv' /\ (~displaced /\ arg'[h] # arg[h] => \E b : HandsOut(h, b))
<1> DEFINE k == pool[h]
           free == {s \in Bits(k) \ used[k] : s \div BitmapBits = word[h]}
<1>1. HartsOK /\ MemoryOK /\ HartOK(pc[h], arg[h], pool[h], word[h]) /\ pc[h] = "slab"
  BY DEF IInv, HartsOK, slabAllocate
<1>2. /\ k \in Pool /\ word[h] \in 0 .. NumBitmaps(k) - 1
      /\ arg[h] \in [at : Int, size : Nat] /\ arg[h].size \in Request
      /\ arg[h].size <= SlabWords[k]
  BY <1>1 DEF HartOK
<1>3. NumBitmaps(k) \in Nat \ {0} /\ RegionStart(k) \in Nat /\ SlabWords[k] \in Nat
  BY <1>2, PoolSizes, PoolBounds, PoolConstants
<1>4. UNCHANGED <<offset, freeList, carved, displaced, wild>>
  BY DEF slabAllocate
<1>5. CASE free # {}
  <2> DEFINE s == First(free)
             p == RegionStart(k) + s * SlabWords[k]
             b == [at |-> p, size |-> arg[h].size]
  <2>1. s \in free /\ s \in Nat
    <3>1. free \in SUBSET Nat
      BY DEF Bits
    <3> HIDE DEF free
    <3>2. s \in free
      BY <1>5, <3>1, FirstIsLeast
    <3> QED BY <3>1, <3>2
  <2>2. /\ used' = [used EXCEPT ![k] = @ \cup {s}] /\ Give(h, p)
        /\ UNCHANGED <<pool, word>>
    BY <1>5 DEF slabAllocate
  <2>3. s \in Bits(k) \ used[k] /\ p = SlabAt(k, s)
    BY <2>1 DEF SlabAt
  <2> HIDE DEF s, free
  <2>4. p \in Nat
    BY <1>3, <2>1
  <2> HIDE DEF p
  <2>5. /\ b \in Block /\ b.size = arg[h].size /\ b.at = p
        /\ HartsOK' /\ Held' = Held \cup {b} /\ arg'[h] = b
        /\ live' \subseteq Block /\ \A d \in live' : d.size \in Request
        /\ Placement /\ (\A d \in Held : d.at # p) => OwnersApart' /\ FreesFirst'
    <3>1. pc[h] \in {"slab", "bump", "freeList"}
      BY <1>1
    <3> QED BY <2>2, <2>4, <3>1, GiveStep
  <2> HIDE DEF b
  <2>6. used' = [j \in Pool |-> used'[j]] /\ \A j \in Pool : used'[j] \subseteq Bits(j)
    BY <1>1, <1>2, <2>2, <2>3 DEF MemoryOK
  <2>7. MemoryOK'
    BY <1>1, <1>4, <2>5, <2>6 DEF MemoryOK
  <2>8. Kept(carved, Held, freeList)'
    BY <1>4, <2>5 DEF IInv, Kept
  <2>9. ASSUME ~displaced PROVE Placement' /\ HandsOut(h, b)
    <3>1. Placement /\ HeldOK(Held, carved) /\ ListOK(freeList, carved) /\ NotListed(Held, freeList)
      BY <2>9 DEF IInv, Placement
    <3>2. offset \in 0 .. BumpWords /\ Carved(carved, offset)
      BY <1>1 DEF MemoryOK
    <3>3. used[k] = Marks(k, Held)
      BY <1>2, <3>1 DEF Placement
    <3>4. s \in Slab(k) /\ \A d \in Held : d.at # p
      BY <1>2, <2>3, <3>1, <3>2, <3>3, ClearBit
    <3>5. InSlab(k, s, b)
      BY <1>2, <2>3, <2>5 DEF InSlab
    <3>6. Placed(b, carved)
      BY <1>2, <3>4, <3>5 DEF Placed
    <3>7. \A i \in DOMAIN freeList : freeList[i].at # b.at
      BY <1>2, <2>5, <3>1, <3>2, <3>4, <3>5, SlabNotListed
    <3>8. HandsOut(h, b)
      BY <1>4, <2>5, <3>1, <3>2, <3>4, <3>6, <3>7 DEF HandsOut
    <3>9. \A j \in Pool : used'[j] = Marks(j, Held \cup {b})
      <4>1. /\ Marks(k, Held \cup {b}) = Marks(k, Held) \cup {s}
            /\ \A j \in Pool \ {k} : Marks(j, Held \cup {b}) = Marks(j, Held)
        <5>1. k \in Pool /\ b \in Block
          BY <1>2, <2>5
        <5> HIDE DEF k
        <5> QED BY <5>1, <3>4, <3>5, MarkSlab
      <4>2. used'[k] = used[k] \cup {s} /\ \A j \in Pool \ {k} : used'[j] = used[j]
        BY <1>1, <1>2, <2>2 DEF MemoryOK
      <4>3. \A j \in Pool : used[j] = Marks(j, Held)
        BY <3>1 DEF Placement
      <4> HIDE DEF k
      <4> QED BY <4>1, <4>2, <4>3
    <3>10. OwnersApart' /\ FreesFirst'
      BY <2>5, <3>1, <3>4
    <3>11. NotListed(Held, freeList')
      BY <1>4, <3>1
    <3>12. Placement'
      BY <1>4, <2>5, <3>1, <3>8, <3>9, <3>10, <3>11, HandedOut
    <3> QED BY <3>8, <3>12
  <2>10. IInv'
    BY <1>4, <2>5, <2>7, <2>8, <2>9 DEF IInv
  <2> QED BY <2>9, <2>10
<1>6. CASE free = {} /\ word[h] + 1 < NumBitmaps(k)
  <2>1. /\ word' = [word EXCEPT ![h] = word[h] + 1]
        /\ UNCHANGED <<used, arg, live, pc, pool>>
    <3>1. ~(word[h] + 1 = NumBitmaps(k))
      BY <1>2, <1>3, <1>6
    <3> QED BY <1>1, <1>6, <3>1 DEF slabAllocate, HartsOK
  <2>2. Moves(h, "slab", arg[h], pool[h], word[h] + 1)
    <3>1. /\ pc' = [pc EXCEPT ![h] = pc[h]] /\ arg' = [arg EXCEPT ![h] = arg[h]]
          /\ pool' = [pool EXCEPT ![h] = pool[h]]
      BY <1>1, <2>1, StaysPut DEF HartsOK
    <3> QED BY <1>1, <2>1, <3>1 DEF Moves
  <2>3. HartOK("slab", arg[h], pool[h], word[h] + 1)
    BY <1>1, <1>2, <1>3, <1>6 DEF HartOK
  <2>4. IInv'
    BY <1>1, <1>4, <2>1, <2>2, <2>3, NothingMoves
  <2> QED BY <2>1, <2>4
<1>7. CASE free = {} /\ word[h] + 1 = NumBitmaps(k)
  <2>1. /\ IF k + 1 \in Pool
           THEN pool' = [pool EXCEPT ![h] = k + 1] /\ UNCHANGED pc
           ELSE pc' = [pc EXCEPT ![h] = "bump"] /\ UNCHANGED pool
        /\ word' = [word EXCEPT ![h] = 0]
        /\ UNCHANGED <<used, arg, live>>
    <3>1. ~(word[h] + 1 < NumBitmaps(k))
      BY <1>2, <1>3, <1>7
    <3> QED BY <1>7, <3>1 DEF slabAllocate
  <2>2. /\ pc = [pc EXCEPT ![h] = pc[h]] /\ arg = [arg EXCEPT ![h] = arg[h]]
        /\ pool = [pool EXCEPT ![h] = pool[h]]
    BY <1>1, StaysPut DEF HartsOK
  <2>3. CASE k + 1 \in Pool
    <3>1. Moves(h, "slab", arg[h], k + 1, 0)
      BY <1>1, <2>1, <2>2, <2>3 DEF Moves
    <3>2. NumBitmaps(k + 1) \in Nat \ {0} /\ SlabWords[k + 1] \in Nat
      BY <2>3, PoolSizes, PoolConstants
    <3>3. SlabWords[k] <= SlabWords[k + 1]
      <4>1. k \in Nat /\ k <= k + 1
        BY <1>2, PoolConstants
      <4> QED BY <1>2, <2>3, <4>1, ResourceAssumption
    <3>4. arg[h].size \in Nat /\ arg[h].size <= SlabWords[k + 1]
      BY <1>2, <1>3, <3>2, <3>3
    <3>5. HartOK("slab", arg[h], k + 1, 0)
      BY <1>2, <2>3, <3>2, <3>4 DEF HartOK
    <3>6. IInv'
      BY <1>1, <1>4, <2>1, <3>1, <3>5, NothingMoves
    <3> QED BY <2>1, <3>6
  <2>4. CASE k + 1 \notin Pool
    <3>1. Moves(h, "bump", arg[h], pool[h], 0)
      BY <2>1, <2>2, <2>4 DEF Moves
    <3>2. HartOK("bump", arg[h], pool[h], 0)
      BY <1>2, <1>3 DEF HartOK
    <3>3. IInv'
      BY <1>1, <1>4, <2>1, <3>1, <3>2, NothingMoves
    <3> QED BY <2>1, <3>3
  <2> QED BY <2>3, <2>4
<1> QED BY <1>2, <1>3, <1>5, <1>6, <1>7 DEF slabAllocate

\* A block cut off behind the offset.
LEMMA CarveMore ==
  ASSUME NEW C, NEW off \in 0 .. BumpWords, Carved(C, off), NEW at \in Nat, NEW n \in Nat,
         BumpBase + off <= at, MinBump <= n, at + n <= BumpBase + BumpWords
  PROVE  /\ at + n - BumpBase \in 0 .. BumpWords
         /\ Carved(C \cup {[at |-> at, size |-> n]}, at + n - BumpBase)
<1> DEFINE c == [at |-> at, size |-> n]
<1>1. BumpBase \in Nat /\ BumpWords \in Nat /\ off \in Nat
  BY BumpBehind, ResourceAssumption
<1>2. c \in [at : Nat, size : Nat] /\ c.at = at /\ c.size = n
  OBVIOUS
<1> HIDE DEF c
<1>3. \A d \in C : /\ d.at \in Nat /\ d.size \in Nat /\ BumpBase <= d.at
                   /\ d.at + d.size <= BumpBase + off /\ MinBump <= d.size
  BY DEF Carved
<1>4. \A d \in C : d.at + d.size <= c.at
  BY <1>1, <1>2, <1>3
<1>5. \A d \in C \cup {c} : /\ BumpBase <= d.at
                            /\ d.at + d.size <= BumpBase + (at + n - BumpBase)
                            /\ MinBump <= d.size
  <2>1. at + n = BumpBase + (at + n - BumpBase)
    BY <1>1
  <2>2. \A d \in C : d.at + d.size <= at + n
    BY <1>1, <1>3
  <2>3. BumpBase <= at
    BY <1>1
  <2> QED BY <1>2, <1>3, <2>1, <2>2, <2>3
<1>6. \A d, e \in C \cup {c} : d = e \/ d.at + d.size <= e.at \/ e.at + e.size <= d.at
  BY <1>4 DEF Carved
<1>7. C \cup {c} \subseteq [at : Nat, size : Nat]
  BY <1>2 DEF Carved
<1>8. at + n - BumpBase \in 0 .. BumpWords
  BY <1>1
<1>9. Carved(C \cup {c}, at + n - BumpBase)
  BY <1>5, <1>6, <1>7 DEF Carved
<1> QED BY <1>8, <1>9 DEF c

\* Everything that has a place starts before the end of what was cut off.
LEMMA PlacedBefore ==
  ASSUME NEW C, NEW off \in 0 .. BumpWords, Carved(C, off), NEW b \in Block, Placed(b, C)
  PROVE  b.at < BumpBase + off
<1>1. b.at \in Nat /\ b.size \in Nat \ {0} /\ off \in Nat /\ BumpBase \in Nat
  BY BumpBehind DEF Block
<1>2. CASE \E k \in Pool : \E s \in Slab(k) : InSlab(k, s, b)
  <2>1. b.at + b.size <= BumpBase
    BY <1>2, SlabPlace
  <2> QED BY <2>1, <1>1
<1>3. CASE \E c \in C : InCarved(c, b)
  <2>1. PICK c \in C : InCarved(c, b)
    BY <1>3
  <2>2. b.at + b.size <= c.at + c.size
    BY <2>1, CarvedPlace
  <2>3. c.at + c.size <= BumpBase + off /\ c.at \in Nat /\ c.size \in Nat
    BY DEF Carved
  <2> QED BY <2>2, <2>3, <1>1
<1> QED BY <1>2, <1>3 DEF Placed

\* bumpAllocate cuts a block off behind all others, or goes on.
LEMMA BumpAllocateStep ==
  ASSUME IInv, NEW h \in Hart, bumpAllocate(h)
  PROVE  IInv' /\ (~displaced /\ arg'[h] # arg[h] => \E b : HandsOut(h, b))
<1> DEFINE n == Rounded(arg[h].size)
           at == AlignUp(Alignment, BumpBase + offset)
<1>1. HartsOK /\ MemoryOK /\ HartOK(pc[h], arg[h], pool[h], word[h]) /\ pc[h] = "bump"
  BY DEF IInv, HartsOK, bumpAllocate
<1>2. arg[h] \in [at : Int, size : Nat] /\ arg[h].size \in Request /\ arg[h].size \in Nat
  BY <1>1 DEF HartOK
<1>3. UNCHANGED <<used, freeList, pool, word, displaced, wild>>
  BY DEF bumpAllocate
<1>4. n \in Nat /\ MinBump <= n
  BY <1>2, RoundedUp
<1>5. offset \in 0 .. BumpWords /\ Carved(carved, offset) /\ offset \in Nat /\ BumpBase \in Nat
  BY <1>1, BumpBehind DEF MemoryOK
<1>6. at \in Nat /\ BumpBase + offset <= at
  <2>1. BumpBase + offset \in Nat /\ Alignment \in Nat \ {0}
    BY <1>5, ResourceAssumption
  <2> QED BY <2>1, AlignForward
<1>7. CASE at + n <= BumpBase + BumpWords
  <2> DEFINE c == [at |-> at, size |-> n]
             b == [at |-> at, size |-> arg[h].size]
  <2>1. /\ offset' = at + n - BumpBase /\ carved' = carved \cup {c} /\ Give(h, at)
    BY <1>7 DEF bumpAllocate
  <2> HIDE DEF n, at
  <2>2. offset' \in 0 .. BumpWords /\ Carved(carved', offset')
    BY <1>4, <1>5, <1>6, <1>7, <2>1, CarveMore
  <2>3. /\ b \in Block /\ b.size = arg[h].size /\ b.at = at
        /\ HartsOK' /\ Held' = Held \cup {b} /\ arg'[h] = b
        /\ live' \subseteq Block /\ \A d \in live' : d.size \in Request
        /\ Placement /\ (\A d \in Held : d.at # at) => OwnersApart' /\ FreesFirst'
    <3>1. pc[h] \in {"slab", "bump", "freeList"} /\ UNCHANGED <<pool, word>>
      BY <1>1, <1>3
    <3> QED BY <2>1, <1>6, <3>1, GiveStep
  <2>4. c.at = at /\ c.size = n /\ c \in carved' /\ carved \subseteq carved'
    BY <2>1
  <2> HIDE DEF b, c
  <2>5. MemoryOK'
    BY <1>1, <1>3, <2>2, <2>3 DEF MemoryOK
  <2>6. Kept(carved, Held, freeList)'
    <3>1. \A d \in carved : (\E e \in Held : e.at = d.at)
                            \/ (\E i \in DOMAIN freeList : freeList[i].at = d.at)
      BY DEF IInv, Kept
    <3>2. b \in Held' /\ b.at = c.at
      BY <2>3, <2>4
    <3> QED BY <1>3, <2>1, <2>3, <3>1, <3>2 DEF Kept
  <2>7. ASSUME ~displaced PROVE Placement' /\ HandsOut(h, b)
    <3>1. Placement /\ HeldOK(Held, carved) /\ ListOK(freeList, carved) /\ NotListed(Held, freeList)
      BY <2>7 DEF IInv, Placement
    <3>2. InCarved(c, b)
      BY <1>4, <2>3, <2>4 DEF InCarved, n
    <3>3. Placed(b, carved')
      BY <2>4, <3>2 DEF Placed
    <3>4. ASSUME NEW d \in Block, Placed(d, carved) PROVE d.at # at
      <4>1. d.at < BumpBase + offset /\ d.at \in Nat
        BY <1>5, <3>4, PlacedBefore DEF Block
      <4> QED BY <4>1, <1>5, <1>6
    <3>5. \A d \in Held : d.at # at
      BY <3>1, <3>4 DEF HeldOK
    <3>6. \A i \in DOMAIN freeList : freeList[i].at # at
      BY <3>1, <3>4 DEF ListOK, Placed
    <3>7. ListOK(freeList', carved')
      BY <1>3, <2>4, <3>1 DEF ListOK
    <3>8. HandsOut(h, b)
      BY <1>3, <2>2, <2>3, <2>4, <3>3, <3>5, <3>6, <3>7 DEF HandsOut
    <3>9. \A k \in Pool : used'[k] = Marks(k, Held \cup {b})
      <4> SUFFICES ASSUME NEW k \in Pool PROVE used'[k] = Marks(k, Held \cup {b})
        OBVIOUS
      <4>1. ~InPool(k, b)
        BY <2>2, <2>3, <2>4, <3>2, CarvedPlace
      <4>2. Marks(k, Held \cup {b}) = Marks(k, Held)
        BY <4>1, MarkNone
      <4> QED BY <4>2, <1>3, <3>1 DEF Placement
    <3>10. OwnersApart' /\ FreesFirst'
      BY <2>3, <3>1, <3>5
    <3>11. NotListed(Held, freeList')
      BY <1>3, <3>1
    <3>12. Placement'
      BY <1>3, <2>3, <3>1, <3>8, <3>9, <3>10, <3>11, HandedOut
    <3> QED BY <3>8, <3>12
  <2>8. IInv'
    BY <1>3, <2>3, <2>5, <2>6, <2>7 DEF IInv
  <2> QED BY <2>7, <2>8
<1>8. CASE ~(at + n <= BumpBase + BumpWords)
  <2>1. pc' = [pc EXCEPT ![h] = "freeList"] /\ UNCHANGED <<offset, carved, arg, live>>
    BY <1>8 DEF bumpAllocate
  <2>2. Moves(h, "freeList", arg[h], pool[h], word[h])
    <3>1. /\ arg' = [arg EXCEPT ![h] = arg[h]] /\ pool' = [pool EXCEPT ![h] = pool[h]]
          /\ word' = [word EXCEPT ![h] = word[h]]
      BY <1>1, <1>3, <2>1, StaysPut DEF HartsOK
    <3> QED BY <2>1, <3>1 DEF Moves
  <2>3. HartOK("freeList", arg[h], pool[h], word[h])
    BY <1>1 DEF HartOK
  <2>4. IInv'
    BY <1>1, <1>3, <2>1, <2>2, <2>3, NothingMoves
  <2> QED BY <2>1, <2>4
<1> QED BY <1>7, <1>8

\* findBestMatchingBlock finds one that is large enough, if there is any.
LEMMA BestMatch ==
  ASSUME freeList \in Seq(Block), NEW n \in Nat, Fitting(n) # {}
  PROVE  findBestMatchingBlock(n) \in Fitting(n)
<1>1. ASSUME NEW i \in DOMAIN freeList PROVE i \in Nat /\ freeList[i].size \in Nat
  <2>1. i \in 1 .. Len(freeList) /\ Len(freeList) \in Nat
    OBVIOUS
  <2>2. freeList[i] \in Block
    BY <2>1
  <2> QED BY <2>1, <2>2 DEF Block
<1>2. \A i \in Fitting(n) : i \in Nat /\ freeList[i].size \in Nat
  BY <1>1 DEF Fitting
<1> DEFINE sizes == {freeList[i].size : i \in Fitting(n)}
<1>3. PICK m \in sizes : \A x \in sizes : m <= x
  <2>1. sizes \in SUBSET Nat /\ sizes # {}
    BY <1>2
  <2> HIDE DEF sizes
  <2> QED BY <2>1, LeastNumber
<1> DEFINE best == {i \in Fitting(n) : freeList[i].size = m}
<1>4. PICK i \in best : \A j \in best : i <= j
  <2>1. best \in SUBSET Nat /\ best # {}
    BY <1>2, <1>3
  <2> HIDE DEF best
  <2> QED BY <2>1, LeastNumber
<1>5. m \in Nat
  BY <1>2, <1>3
<1>6. ASSUME NEW j \in Fitting(n)
      PROVE  \/ freeList[i].size < freeList[j].size
             \/ freeList[i].size = freeList[j].size /\ i <= j
  <2>1. m <= freeList[j].size /\ freeList[j].size \in Nat /\ freeList[i].size = m
    BY <1>2, <1>3, <1>4
  <2>2. freeList[j].size = m => i <= j
    BY <1>4
  <2> QED BY <2>1, <2>2, <1>5
<1>7. i \in Fitting(n)
  BY <1>4
<1> HIDE DEF best, sizes
<1>8. \E x \in Fitting(n) : \A j \in Fitting(n) :
        \/ freeList[x].size < freeList[j].size
        \/ freeList[x].size = freeList[j].size /\ x <= j
  BY <1>6, <1>7
<1> QED BY <1>8, Zenon DEF findBestMatchingBlock

\* freeListAllocate takes a block that is large enough, whole, or fails.
LEMMA FreeListAllocateStep ==
  ASSUME IInv, NEW h \in Hart, freeListAllocate(h)
  PROVE  IInv' /\ (~displaced /\ arg'[h] # arg[h] => \E b : HandsOut(h, b))
<1> DEFINE n == Rounded(arg[h].size)
           i == findBestMatchingBlock(n)
           at == freeList[i].at
<1>1. HartsOK /\ MemoryOK /\ HartOK(pc[h], arg[h], pool[h], word[h]) /\ pc[h] = "freeList"
  BY DEF IInv, HartsOK, freeListAllocate
<1>2. arg[h] \in [at : Int, size : Nat] /\ arg[h].size \in Request /\ arg[h].size \in Nat
  BY <1>1 DEF HartOK
<1>3. UNCHANGED <<used, offset, carved, pool, word, displaced, wild>>
  BY DEF freeListAllocate
<1>4. n \in Nat
  BY <1>2, RoundedUp
<1>5. /\ offset \in 0 .. BumpWords /\ Carved(carved, offset) /\ freeList \in Seq(Block)
      /\ \A j \in DOMAIN freeList : freeList[j].size >= MinBump
  BY <1>1 DEF MemoryOK
<1>6. CASE Fitting(n) # {}
  <2> DEFINE b == [at |-> at, size |-> arg[h].size]
             L == RemoveAt(freeList, i)
  <2>1. freeList' = L /\ Give(h, at)
    BY <1>6 DEF freeListAllocate
  <2> HIDE DEF n
  <2>2. i \in DOMAIN freeList /\ freeList[i].size >= n
    <3>1. i \in Fitting(n)
      BY <1>4, <1>5, <1>6, BestMatch
    <3> QED BY <3>1 DEF Fitting
  <2> HIDE DEF i
  <2>3. freeList[i] \in Block /\ at \in Nat /\ freeList[i].size \in Nat
    <3>1. freeList[i] \in Block
      BY <1>5, <2>2
    <3> QED BY <3>1 DEF Block
  <2>4. /\ L \in Seq(Block)
        /\ \A j \in DOMAIN L : \E m \in DOMAIN freeList : m # i /\ L[j] = freeList[m]
        /\ \A m \in DOMAIN freeList : m # i => \E j \in DOMAIN L : L[j] = freeList[m]
    BY <1>5, <2>2, ListLess
  <2>5. \A C : ListOK(freeList, C) =>
          ListOK(L, C) /\ \A j \in DOMAIN L : L[j].at # freeList[i].at
    BY <1>5, <2>2, ListLess
  <2> HIDE DEF L, at
  <2>6. /\ b \in Block /\ b.size = arg[h].size /\ b.at = at
        /\ HartsOK' /\ Held' = Held \cup {b} /\ arg'[h] = b
        /\ live' \subseteq Block /\ \A d \in live' : d.size \in Request
        /\ Placement /\ (\A d \in Held : d.at # at) => OwnersApart' /\ FreesFirst'
    <3>1. pc[h] \in {"slab", "bump", "freeList"} /\ UNCHANGED <<pool, word>>
      BY <1>1, <1>3
    <3> QED BY <2>1, <2>3, <3>1, GiveStep
  <2> HIDE DEF b
  <2>7. MemoryOK'
    <3>1. \A j \in DOMAIN L : L[j].size >= MinBump
      BY <1>5, <2>4
    <3>2. freeList' \in Seq(Block) /\ \A j \in DOMAIN freeList' : freeList'[j].size >= MinBump
      BY <2>1, <2>4, <3>1
    <3> QED BY <1>1, <1>3, <2>6, <3>2 DEF MemoryOK
  <2>8. Kept(carved, Held, freeList)'
    <3> SUFFICES ASSUME NEW c \in carved
                 PROVE  (\E d \in Held \cup {b} : d.at = c.at) \/ (\E j \in DOMAIN L : L[j].at = c.at)
      BY <1>3, <2>1, <2>6 DEF Kept
    <3>1. CASE \E d \in Held : d.at = c.at
      BY <3>1
    <3>2. CASE \E m \in DOMAIN freeList : freeList[m].at = c.at
      <4>1. PICK m \in DOMAIN freeList : freeList[m].at = c.at
        BY <3>2
      <4>2. CASE m = i
        BY <4>1, <4>2, <2>6 DEF at
      <4>3. CASE m # i
        BY <4>1, <4>3, <2>4
      <4> QED BY <4>2, <4>3
    <3> QED BY <3>1, <3>2 DEF IInv, Kept
  <2>9. ASSUME ~displaced PROVE Placement' /\ HandsOut(h, b)
    <3>1. Placement /\ HeldOK(Held, carved) /\ ListOK(freeList, carved) /\ NotListed(Held, freeList)
      BY <2>9 DEF IInv, Placement
    <3>2. PICK c \in carved : InCarved(c, freeList[i])
      BY <2>2, <3>1 DEF ListOK
    <3>3. InCarved(c, b)
      <4>1. freeList[i].size <= Rounded(freeList[i].size) /\ Rounded(freeList[i].size) \in Nat
        BY <2>3, RoundedUp
      <4>2. Rounded(freeList[i].size) <= c.size /\ c.size \in Nat
        BY <1>5, <3>2 DEF InCarved, Carved
      <4>3. n <= c.size
        BY <1>4, <2>2, <2>3, <4>1, <4>2
      <4>4. b.at = c.at
        BY <2>6, <3>2 DEF InCarved, at
      <4> QED BY <2>6, <4>3, <4>4 DEF InCarved, n
    <3>4. Placed(b, carved)
      BY <3>3 DEF Placed
    <3>5. \A d \in Held : d.at # at
      BY <2>2, <3>1 DEF NotListed, at
    <3>6. ListOK(L, carved) /\ \A j \in DOMAIN L : L[j].at # at
      BY <2>5, <3>1 DEF at
    <3>7. HandsOut(h, b)
      BY <1>3, <1>5, <2>1, <2>6, <3>4, <3>5, <3>6 DEF HandsOut
    <3>8. \A k \in Pool : used'[k] = Marks(k, Held \cup {b})
      <4> SUFFICES ASSUME NEW k \in Pool PROVE used'[k] = Marks(k, Held \cup {b})
        OBVIOUS
      <4>1. ~InPool(k, b)
        BY <1>5, <2>6, <3>3, CarvedPlace
      <4>2. Marks(k, Held \cup {b}) = Marks(k, Held)
        BY <4>1, MarkNone
      <4> QED BY <4>2, <1>3, <3>1 DEF Placement
    <3>9. OwnersApart' /\ FreesFirst'
      BY <2>6, <3>1, <3>5
    <3>10. NotListed(Held, freeList')
      BY <2>1, <2>4, <3>1 DEF NotListed
    <3>11. Placement'
      BY <1>3, <2>6, <3>1, <3>7, <3>8, <3>9, <3>10, HandedOut
    <3> QED BY <3>7, <3>11
  <2>10. IInv'
    BY <1>3, <2>6, <2>7, <2>8, <2>9 DEF IInv
  <2> QED BY <2>9, <2>10
<1>7. CASE Fitting(n) = {}
  <2>1. pc' = [pc EXCEPT ![h] = "return"] /\ UNCHANGED <<freeList, arg, live>>
    BY <1>7 DEF freeListAllocate
  <2>2. Moves(h, "return", arg[h], pool[h], word[h])
    <3>1. /\ arg' = [arg EXCEPT ![h] = arg[h]] /\ pool' = [pool EXCEPT ![h] = pool[h]]
          /\ word' = [word EXCEPT ![h] = word[h]]
      BY <1>1, <1>3, <2>1, StaysPut DEF HartsOK
    <3> QED BY <2>1, <3>1 DEF Moves
  <2>3. HartOK("return", arg[h], pool[h], word[h])
    BY <1>1 DEF HartOK
  <2>4. IInv'
    BY <1>1, <1>3, <2>1, <2>2, <2>3, NothingMoves
  <2> QED BY <2>1, <2>4
<1> QED BY <1>6, <1>7

-----------------------------------------------------------------------------
(***************************************************************************)
(* What happens to a block that is given back.                             *)
(***************************************************************************)
\* A block in the bump memory was cut off, and starts within it.
LEMMA CarvedOwned ==
  ASSUME NEW C, NEW off \in 0 .. BumpWords, Carved(C, off), NEW c \in C
  PROVE  BumpOwns(c.at)
<1>1. /\ c.at \in Nat /\ c.size \in Nat /\ BumpBase <= c.at
      /\ c.at + c.size <= BumpBase + off /\ MinBump <= c.size
  BY DEF Carved
<1>2. BumpBase \in Nat /\ BumpWords \in Nat /\ MinBump \in Nat \ {0} /\ off \in Nat
      /\ off <= BumpWords
  BY BumpBehind, ResourceAssumption
<1> QED BY <1>1, <1>2 DEF BumpOwns

\* A block is in the bump memory or in the user region of a slab resource.
LEMMA OneKind ==
  ASSUME NEW C, NEW off \in 0 .. BumpWords, Carved(C, off), NEW b \in Block, Placed(b, C)
  PROVE  /\ BumpOwns(b.at) => /\ \E c \in C : InCarved(c, b)
                              /\ \A k \in Pool : ~InPool(k, b)
         /\ ~BumpOwns(b.at) => \E k \in Pool : InPool(k, b) /\ b.size <= SlabWords[k]
<1>1. ASSUME BumpOwns(b.at) PROVE \E c \in C : InCarved(c, b)
  BY <1>1, SlabPlace DEF Placed
<1>2. ASSUME BumpOwns(b.at) PROVE \A k \in Pool : ~InPool(k, b)
  BY <1>1, <1>2, CarvedPlace
<1>3. ASSUME ~BumpOwns(b.at) PROVE \E k \in Pool : InPool(k, b) /\ b.size <= SlabWords[k]
  <2>1. ~\E c \in C : InCarved(c, b)
    BY <1>3, CarvedPlace
  <2>2. PICK k \in Pool : \E s \in Slab(k) : InSlab(k, s, b)
    BY <2>1 DEF Placed
  <2>3. InPool(k, b) /\ b.size <= SlabWords[k]
    BY <2>2, SlabPlace DEF InSlab
  <2> QED BY <2>3
<1> QED BY <1>1, <1>2, <1>3

\* The other harts go on giving back what they did.
LEMMA OthersApart ==
  ASSUME HartsOK, OwnersApart, NEW h \in Hart, NEW p, NEW a, NEW k, NEW w, Moves(h, p, a, k, w),
         live' \subseteq live,
         Gives(p, a) => /\ a \notin live'
                        /\ \A g \in Hart \ {h} : Gives(pc[g], arg[g]) => arg[g] # a
  PROVE  OwnersApart'
<1>1. /\ pc'[h] = p /\ arg'[h] = a
      /\ \A g \in Hart \ {h} : pc'[g] = pc[g] /\ arg'[g] = arg[g]
  BY HartMoves
<1>2. Gives(pc[h], arg[h])' => Gives(p, a)
  BY <1>1 DEF Gives, BumpOwns
<1>3. \A g \in Hart \ {h} : Gives(pc[g], arg[g])' => Gives(pc[g], arg[g])
  BY <1>1 DEF Gives, BumpOwns
<1> SUFFICES ASSUME NEW f \in Hart, Gives(pc[f], arg[f])'
             PROVE  /\ (arg[f] \notin live)'
                    /\ \A g \in Hart : (Gives(pc[g], arg[g]) /\ arg[g] = arg[f])' => g = f
  BY DEF OwnersApart
<1>4. CASE f = h
  BY <1>1, <1>2, <1>3, <1>4
<1>5. CASE f # h
  <2>1. Gives(pc[f], arg[f]) /\ arg'[f] = arg[f]
    BY <1>1, <1>3, <1>5
  <2>2. arg[f] \notin live
    BY <2>1 DEF OwnersApart
  <2>3. ASSUME NEW g \in Hart, Gives(pc[g], arg[g])', arg'[g] = arg'[f] PROVE g = f
    <3>1. CASE g = h
      BY <3>1, <2>1, <2>3, <1>1, <1>2, <1>5
    <3>2. CASE g # h
      BY <3>2, <2>1, <2>3, <1>1, <1>3 DEF OwnersApart
    <3> QED BY <3>1, <3>2
  <2> QED BY <2>1, <2>2, <2>3
<1> QED BY <1>4, <1>5

\* A block that the program gives back stays where it is.
LEMMA DeallocateStep ==
  ASSUME IInv, NEW h \in Hart, NEW b \in live, deallocate(h, b)
  PROVE  IInv'
<1> DEFINE p == IF Chain(b.size) = {} THEN "register" ELSE "free"
<1>1. HartsOK /\ MemoryOK /\ HartOK(pc[h], arg[h], pool[h], word[h]) /\ pc[h] = "idle"
  BY DEF IInv, HartsOK, deallocate
<1>2. /\ live' = live \ {b} /\ displaced' = (displaced \/ Displaced(b))
      /\ UNCHANGED <<used, offset, freeList, carved, wild>>
  BY DEF deallocate
<1>3. b \in Block /\ b.size \in Request /\ b \in [at : Int, size : Nat] /\ b.at \in Nat
  BY <1>1 DEF MemoryOK, Block
<1>4. pool[h] = 1 /\ word[h] = 0
  BY <1>1 DEF HartOK
<1>5. Moves(h, p, b, pool[h], word[h])
  <2>1. pool' = [pool EXCEPT ![h] = pool[h]] /\ word' = [word EXCEPT ![h] = word[h]]
    BY <1>1, StaysPut DEF HartsOK, deallocate
  <2> QED BY <2>1 DEF Moves, deallocate
<1>6. p \in {"register", "free"}
  OBVIOUS
<1>7. HartOK(p, b, pool[h], word[h])
  <2> HIDE DEF p
  <2> QED BY <1>1, <1>3, <1>4, <1>6 DEF HartOK
<1>8. HartsOK' /\ Returning = OthersGive(h)
      /\ Returning' = OthersGive(h) \cup (IF Gives(p, b) THEN {b} ELSE {})
  <2> HIDE DEF p
  <2>1. HartsOK'
    BY <1>1, <1>5, <1>7, HartMoves
  <2>2. Returning = OthersGive(h)
    BY <1>1, ReturningNow DEF Gives
  <2>3. Returning' = OthersGive(h) \cup (IF Gives(p, b) THEN {b} ELSE {})
    BY <1>1, <1>5, ReturningNext
  <2> QED BY <2>1, <2>2, <2>3
<1>9. MemoryOK'
  <2>1. displaced' \in BOOLEAN
    BY <1>2
  <2> QED BY <1>1, <1>2, <2>1 DEF MemoryOK
<1>10. Gives(p, b) => Held' = Held
  BY <1>2, <1>8 DEF Held
<1>11. BumpOwns(b.at) => Gives(p, b)
  BY DEF Gives
<1> HIDE DEF p
<1>12. Kept(carved, Held, freeList)'
  <2>1. Kept(carved, Held, freeList)
    BY DEF IInv
  <2>2. CASE Gives(p, b)
    BY <2>1, <2>2, <1>2, <1>10 DEF Kept
  <2>3. CASE ~Gives(p, b)
    <3>1. Held \ {b} \subseteq Held'
      BY <1>2, <1>8 DEF Held
    <3>2. \A c \in carved : c.at # b.at
      BY <2>3, <1>1, <1>11, CarvedOwned DEF MemoryOK
    <3> QED BY <2>1, <3>1, <3>2, <1>2 DEF Kept
  <2> QED BY <2>2, <2>3
<1>13. ASSUME ~displaced' PROVE Placement'
  <2>1. ~displaced /\ ~Displaced(b)
    BY <1>2, <1>13
  <2>2. Placement /\ HeldOK(Held, carved) /\ ListOK(freeList, carved) /\ NotListed(Held, freeList)
    BY <2>1 DEF IInv, Placement
  <2>3. b \in Held /\ Placed(b, carved)
    BY <2>2 DEF Held, HeldOK
  <2>4. Gives(p, b)
    <3>1. CASE Chain(b.size) = {}
      <4>1. \A k \in Pool : ~(b.size <= SlabWords[k])
        BY <3>1 DEF Chain
      <4>2. BumpOwns(b.at)
        BY <4>1, <2>3, <1>1, <1>3, OneKind DEF MemoryOK
      <4> QED BY <4>2, <1>11
    <3>2. CASE Chain(b.size) # {}
      BY <3>2 DEF Gives, p
    <3> QED BY <3>1, <3>2
  <2>5. Held' = Held
    BY <2>4, <1>10
  <2>6. OwnersApart'
    <3>1. OwnersApart /\ live' \subseteq live /\ b \notin live'
      BY <2>2, <1>2 DEF Placement
    <3>2. \A g \in Hart \ {h} : Gives(pc[g], arg[g]) => arg[g] # b
      BY <3>1 DEF OwnersApart
    <3> QED BY <3>1, <3>2, <1>1, <1>5, OthersApart
  <2>7. FreesFirst'
    <3>1. /\ pc'[h] = p /\ arg'[h] = b
          /\ \A g \in Hart \ {h} : pc'[g] = pc[g] /\ arg'[g] = arg[g]
      BY <1>1, <1>5, HartMoves
    <3>2. p = "free" => Chain(b.size) # {} /\ InPool(First(Chain(b.size)), b)
      BY <2>1 DEF p, Displaced
    <3>3. ASSUME NEW g \in Hart, pc'[g] = "free"
          PROVE  Chain(arg'[g].size) # {} /\ InPool(First(Chain(arg'[g].size)), arg'[g])
      <4>1. CASE g = h
        BY <4>1, <3>1, <3>2, <3>3
      <4>2. CASE g # h
        BY <4>2, <3>1, <3>3, <2>2 DEF Placement, FreesFirst
      <4> QED BY <4>1, <4>2
    <3> QED BY <3>3 DEF FreesFirst
  <2>8. HeldOK(Held, carved)' /\ ListOK(freeList, carved)' /\ NotListed(Held, freeList)'
    BY <2>2, <2>5, <1>2 DEF HeldOK, ListOK, NotListed
  <2>9. (\A k \in Pool : used[k] = Marks(k, Held))'
    BY <2>2, <2>5, <1>2 DEF Placement, Marks
  <2>10. wild' = {}
    BY <2>2, <1>2 DEF Placement
  <2> QED BY <2>6, <2>7, <2>8, <2>9, <2>10 DEF Placement
<1> QED BY <1>8, <1>9, <1>12, <1>13 DEF IInv

\* A slab resource claims the blocks in its user region: the range that
\* pointerIsOwned takes is long enough although it starts at the header.
LEMMA ClaimsItsOwn ==
  ASSUME NEW k \in Pool, NEW b \in Block, InPool(k, b)
  PROVE  pointerIsOwned(k, b.at)
<1> DEFINE C == Capacity(k)
           H == Header(k)
<1>1. /\ b.at \in Nat /\ b.size \in Nat \ {0} /\ Buffer(k) \in Nat
      /\ H \in Nat /\ C \in Nat /\ H <= C /\ WordBytes \in Nat \ {0, 1}
      /\ RegionStart(k) = Buffer(k) + H
  BY PoolConstants, PoolSizes, PoolBounds DEF Block
<1>2. RegionStart(k) <= b.at /\ b.at + b.size <= RegionStart(k) + C
  <2>1. RegionStart(k) \in Nat
    BY PoolBounds
  <2> QED BY <1>1, <2>1 DEF InPool
<1> HIDE DEF C, H
<1>3. 2 * C <= C * WordBytes /\ C * WordBytes \in Nat
  <2>1. PICK f \in Nat : WordBytes = f + 2
    <3>1. WordBytes - 2 \in Nat /\ WordBytes = (WordBytes - 2) + 2
      BY <1>1
    <3> QED BY <3>1
  <2>2. C * WordBytes = C * f + 2 * C /\ C * f \in Nat
    BY <1>1, <2>1
  <2> QED BY <2>2, <1>1
<1>4. b.at >= Buffer(k) /\ b.at < Buffer(k) + C * WordBytes
  BY <1>1, <1>2, <1>3
<1> QED BY <1>4 DEF pointerIsOwned, C

\* The slab resource that chainedTryDeallocate finds is the first for the size,
\* if the block is there.
LEMMA ClaimedByFirst ==
  ASSUME NEW b \in Block, Chain(b.size) # {}, InPool(First(Chain(b.size)), b)
  PROVE  /\ First(Chain(b.size)) \in Pool /\ Claims(b) # {}
         /\ First(Claims(b)) = First(Chain(b.size))
<1> DEFINE k == First(Chain(b.size))
           j == First(Claims(b))
<1>1. Chain(b.size) \in SUBSET Nat /\ Claims(b) \subseteq Chain(b.size) /\ Chain(b.size) \subseteq Pool
  BY DEF Chain, Claims, Pool
<1>2. k \in Chain(b.size) /\ \A i \in Chain(b.size) : k <= i
  BY <1>1, FirstIsLeast
<1>3. k \in Claims(b)
  <2>1. k \in Pool
    BY <1>1, <1>2
  <2>2. pointerIsOwned(k, b.at)
    BY <2>1, ClaimsItsOwn
  <2> QED BY <1>2, <2>2 DEF Claims
<1>4. Claims(b) \in SUBSET Nat /\ Claims(b) # {}
  BY <1>1, <1>3
<1>5. j \in Claims(b) /\ \A i \in Claims(b) : j <= i
  BY <1>4, FirstIsLeast
<1> HIDE DEF k, j
<1>6. k = j
  <2>1. k <= j /\ j <= k /\ k \in Nat /\ j \in Nat
    BY <1>1, <1>2, <1>3, <1>5
  <2> QED BY <2>1
<1>7. k \in Pool
  BY <1>1, <1>2
<1> QED BY <1>4, <1>6, <1>7 DEF k, j

\* freeSlab clears the bit of the block, if the block is where its size tells.
LEMMA FreeSlabStep ==
  ASSUME IInv, NEW h \in Hart, freeSlab(h)
  PROVE  IInv'
<1> DEFINE a == arg[h]
<1>1. HartsOK /\ MemoryOK /\ HartOK(pc[h], arg[h], pool[h], word[h]) /\ pc[h] = "free"
  BY DEF IInv, HartsOK, freeSlab
<1>2. UNCHANGED <<offset, freeList, live, carved, arg, pool, word, displaced>>
      /\ pc' = [pc EXCEPT ![h] = "register"]
  BY DEF freeSlab
<1>3. a \in [at : Int, size : Nat] /\ a.size \in Request /\ a.at \in Nat
      /\ pool[h] = 1 /\ word[h] = 0
  BY <1>1 DEF HartOK
<1>4. a \in Block
  <2>1. a.size \in Nat \ {0}
    BY <1>3, ResourceAssumption
  <2> QED BY <1>3, <2>1 DEF Block
<1>5. Moves(h, "register", a, pool[h], word[h])
  <2>1. /\ arg' = [arg EXCEPT ![h] = arg[h]] /\ pool' = [pool EXCEPT ![h] = pool[h]]
        /\ word' = [word EXCEPT ![h] = word[h]]
    BY <1>1, <1>2, StaysPut DEF HartsOK
  <2> QED BY <1>2, <2>1 DEF Moves
<1>6. HartOK("register", a, pool[h], word[h])
  BY <1>1, <1>3 DEF HartOK
<1>7. HartsOK'
  BY <1>1, <1>5, <1>6, HartMoves
<1>8. Returning = OthersGive(h) \cup {a}
  BY <1>1, ReturningNow DEF Gives
<1>9. Returning' = OthersGive(h) \cup (IF BumpOwns(a.at) THEN {a} ELSE {})
  <2>1. Returning' = OthersGive(h) \cup (IF Gives("register", a) THEN {a} ELSE {})
    BY <1>1, <1>5, ReturningNext
  <2> QED BY <2>1 DEF Gives
<1>10. offset \in 0 .. BumpWords /\ Carved(carved, offset)
  BY <1>1 DEF MemoryOK
<1>11. MemoryOK'
  <2>1. /\ used' = [k \in Pool |-> used'[k]] /\ \A k \in Pool : used'[k] \subseteq Bits(k)
        /\ wild' \subseteq Nat
    <3>1. CASE Claims(a) = {}
      BY <3>1, <1>1 DEF freeSlab, MemoryOK
    <3>2. CASE Claims(a) # {}
      <4> DEFINE k == First(Claims(a))
                 s == SlabIndex(k, a.at)
                 i == s \div BitmapBits
      <4>1. k \in Pool
        <5>1. Claims(a) \in SUBSET Nat /\ Claims(a) \subseteq Pool
          BY DEF Claims, Chain, Pool
        <5> QED BY <5>1, <3>2, FirstIsLeast
      <4>2. used' = [used EXCEPT ![k] = @ \ {s}]
            /\ wild' = IF i < Header(k) THEN wild ELSE wild \cup {Buffer(k) + i}
        BY <3>2 DEF freeSlab, slabDeallocate
      <4> HIDE DEF k
      <4>3. RegionStart(k) \in Nat /\ SlabWords[k] \in Nat \ {0} /\ BitmapBits \in Nat \ {0}
            /\ Buffer(k) \in Nat /\ Header(k) \in Nat
        BY <4>1, PoolBounds, PoolSizes, PoolConstants
      <4>4. s \in Int
        <5> DEFINE x == a.at - RegionStart(k)
        <5>1. x \in Int
          BY <1>3, <4>3
        <5>2. s = x \div SlabWords[k]
          BY Zenon DEF SlabIndex
        <5> HIDE DEF x
        <5> QED BY <5>1, <5>2, <4>3
      <4> HIDE DEF s
      <4>5. i \in Int
        BY <4>3, <4>4
      <4> HIDE DEF i
      <4>6. wild' \subseteq Nat
        BY <1>1, <4>2, <4>3, <4>5 DEF MemoryOK
      <4>7. used' = [j \in Pool |-> used'[j]] /\ \A j \in Pool : used'[j] \subseteq Bits(j)
        BY <1>1, <4>1, <4>2 DEF MemoryOK
      <4> QED BY <4>6, <4>7
    <3> QED BY <3>1, <3>2
  <2> QED BY <1>1, <1>2, <2>1 DEF MemoryOK
<1>12. Kept(carved, Held, freeList)'
  <2>1. Kept(carved, Held, freeList)
    BY DEF IInv
  <2>2. \A c \in carved : BumpOwns(c.at)
    BY <1>10, CarvedOwned
  <2>3. \A d \in Held : BumpOwns(d.at) => d \in Held'
    BY <1>2, <1>8, <1>9 DEF Held
  <2> QED BY <2>1, <2>2, <2>3, <1>2 DEF Kept
<1>13. ASSUME ~displaced PROVE Placement'
  <2> DEFINE k == First(Chain(a.size))
  <2>1. Placement /\ HeldOK(Held, carved) /\ ListOK(freeList, carved) /\ NotListed(Held, freeList)
    BY <1>13 DEF IInv, Placement
  <2>2. Chain(a.size) # {} /\ InPool(k, a)
    BY <1>1, <2>1 DEF Placement, FreesFirst
  <2>3. k \in Pool /\ Claims(a) # {} /\ First(Claims(a)) = k
    BY <1>4, <2>2, ClaimedByFirst
  <2> HIDE DEF k
  <2>4. a \in Held /\ Placed(a, carved)
    BY <1>8, <2>1 DEF Held, HeldOK
  <2>5. PICK s \in Slab(k) : InSlab(k, s, a) /\ SlabIndex(k, a.at) = s
    BY <1>4, <1>10, <2>2, <2>3, <2>4, InPoolInSlab
  <2>6. s \div BitmapBits < Header(k)
    <3>1. s \div BitmapBits \in Nat /\ s \div BitmapBits < NumBitmaps(k)
      BY <2>3, SlabBounds
    <3>2. NumBitmaps(k) \in Nat /\ Header(k) \in Nat /\ NumBitmaps(k) <= Header(k)
      BY <2>3, PoolSizes
    <3> QED BY <3>1, <3>2
  <2>7. used' = [used EXCEPT ![k] = @ \ {s}] /\ wild' = wild
    <3>1. slabDeallocate(First(Claims(a)), a.at)
      BY <2>3 DEF freeSlab
    <3>2. slabDeallocate(k, a.at)
      BY <2>3, <3>1
    <3> QED BY <2>5, <2>6, <3>2 DEF slabDeallocate
  <2>8. ~BumpOwns(a.at)
    BY <1>4, <1>10, <2>2, <2>3, <2>4, OneKind
  <2>9. Held' = Held \ {a}
    <3>1. a \notin live /\ a \notin OthersGive(h)
      BY <1>1, <2>1 DEF Placement, OwnersApart, OthersGive, Gives
    <3> QED BY <1>2, <1>8, <1>9, <2>8, <3>1 DEF Held
  <2>10. OwnersApart'
    <3>1. OwnersApart /\ live' \subseteq live /\ ~Gives("register", a)
      BY <1>2, <2>1, <2>8 DEF Placement, Gives
    <3> QED BY <1>1, <1>5, <3>1, OthersApart
  <2>11. FreesFirst'
    <3>1. \A g \in Hart : pc'[g] = "free" => pc[g] = "free" /\ arg'[g] = arg[g]
      BY <1>1, <1>2 DEF HartsOK
    <3> QED BY <2>1, <3>1 DEF Placement, FreesFirst
  <2>12. HeldOK(Held \ {a}, carved) /\ NotListed(Held \ {a}, freeList)
    <3>1. HeldOK(Held \ {a}, carved)
      BY <2>1, HeldLess
    <3> QED BY <2>1, <3>1 DEF NotListed
  <2>13. HeldOK(Held, carved)' /\ NotListed(Held, freeList)'
    BY <1>2, <2>9, <2>12 DEF HeldOK, NotListed
  <2>14. ListOK(freeList, carved)'
    BY <1>2, <2>1 DEF ListOK
  <2>15. \A j \in Pool : used'[j] = Marks(j, Held \ {a})
    <3>1. /\ Marks(k, Held \ {a}) = Marks(k, Held) \ {SlabIndex(k, a.at)}
          /\ \A j \in Pool \ {k} : Marks(j, Held \ {a}) = Marks(j, Held)
      BY <1>10, <2>1, <2>2, <2>3, <2>4, UnmarkSlab
    <3>2. used'[k] = used[k] \ {s} /\ \A j \in Pool \ {k} : used'[j] = used[j]
      BY <1>1, <2>3, <2>7 DEF MemoryOK
    <3>3. \A j \in Pool : used[j] = Marks(j, Held)
      BY <2>1 DEF Placement
    <3> QED BY <2>5, <3>1, <3>2, <3>3
  <2>16. (\A j \in Pool : used[j] = Marks(j, Held))'
    BY <2>9, <2>15 DEF Marks
  <2>17. wild' = {}
    BY <2>1, <2>7 DEF Placement
  <2> QED BY <2>10, <2>11, <2>13, <2>14, <2>16, <2>17 DEF Placement
<1> QED BY <1>2, <1>7, <1>11, <1>12, <1>13 DEF IInv

\* registerFreedBlock puts a block of the bump memory into the free list.
LEMMA RegisterStep ==
  ASSUME IInv, NEW h \in Hart, registerFreedBlock(h)
  PROVE  IInv'
<1> DEFINE a == arg[h]
           e == [at |-> a.at, size |-> Rounded(a.size)]
<1>1. HartsOK /\ MemoryOK /\ HartOK(pc[h], arg[h], pool[h], word[h]) /\ pc[h] = "register"
  BY DEF IInv, HartsOK, registerFreedBlock
<1>2. /\ UNCHANGED <<used, offset, live, carved, pool, word, displaced, wild>>
      /\ freeList' = IF BumpOwns(a.at) THEN <<e>> \o freeList ELSE freeList
  BY DEF registerFreedBlock
<1>3. a \in [at : Int, size : Nat] /\ a.size \in Request /\ a.at \in Nat
      /\ pool[h] = 1 /\ word[h] = 0
  BY <1>1 DEF HartOK
<1>4. a \in Block /\ e \in Block /\ e.at = a.at /\ e.size = Rounded(a.size) /\ e.size >= MinBump
  <2>1. a.size \in Nat \ {0}
    BY <1>3, ResourceAssumption
  <2>2. Rounded(a.size) \in Nat \ {0} /\ Rounded(a.size) >= MinBump
    <3>1. Rounded(a.size) \in Nat /\ a.size <= Rounded(a.size) /\ MinBump <= Rounded(a.size)
      BY <2>1, RoundedUp
    <3> QED BY <2>1, <3>1, ResourceAssumption
  <2> QED BY <1>3, <2>1, <2>2 DEF Block
<1>5. Moves(h, "idle", NoBlock, pool[h], word[h])
  <2>1. pool' = [pool EXCEPT ![h] = pool[h]] /\ word' = [word EXCEPT ![h] = word[h]]
    BY <1>1, <1>2, StaysPut DEF HartsOK
  <2> QED BY <2>1 DEF Moves, registerFreedBlock
<1>6. HartOK("idle", NoBlock, pool[h], word[h])
  BY <1>1, <1>3 DEF HartOK, NoBlock, NoAddress
<1>7. HartsOK'
  BY <1>1, <1>5, <1>6, HartMoves
<1> HIDE DEF e
<1>8. Returning = OthersGive(h) \cup (IF BumpOwns(a.at) THEN {a} ELSE {})
  BY <1>1, ReturningNow DEF Gives
<1>9. Returning' = OthersGive(h)
  <2>1. Returning' = OthersGive(h) \cup (IF Gives("idle", NoBlock) THEN {NoBlock} ELSE {})
    BY <1>1, <1>5, ReturningNext
  <2> QED BY <2>1 DEF Gives
<1>10. offset \in 0 .. BumpWords /\ Carved(carved, offset) /\ freeList \in Seq(Block)
       /\ \A i \in DOMAIN freeList : freeList[i].size >= MinBump
  BY <1>1 DEF MemoryOK
<1>11. Kept(carved, Held, freeList)
  BY DEF IInv
<1>12. ASSUME Placement
       PROVE  OwnersApart' /\ FreesFirst' /\ wild' = {}
  <2>1. OwnersApart'
    <3>1. OwnersApart /\ live' \subseteq live /\ ~Gives("idle", NoBlock)
      BY <1>2, <1>12 DEF Placement, Gives
    <3> QED BY <1>1, <1>5, <3>1, OthersApart
  <2>2. \A g \in Hart : pc'[g] = "free" => pc[g] = "free" /\ arg'[g] = arg[g]
    BY <1>1, <1>5, HartMoves
  <2> QED BY <1>2, <1>12, <2>1, <2>2 DEF Placement, FreesFirst
<1>13. CASE BumpOwns(a.at)
  <2> DEFINE L == <<e>> \o freeList
  <2>1. freeList' = L
    BY <1>2, <1>13
  <2>2. /\ L \in Seq(Block)
        /\ \A j \in DOMAIN L : L[j] = e \/ \E m \in DOMAIN freeList : L[j] = freeList[m]
        /\ \E j \in DOMAIN L : L[j] = e
        /\ \A m \in DOMAIN freeList : \E j \in DOMAIN L : L[j] = freeList[m]
    BY <1>4, <1>10, ListMore
  <2>3. \A C : /\ ListOK(freeList, C)
               /\ \E c \in C : InCarved(c, e)
               /\ \A m \in DOMAIN freeList : freeList[m].at # e.at
               => ListOK(L, C)
    BY <1>4, <1>10, ListMore
  <2> HIDE DEF L
  <2>4. MemoryOK'
    <3>1. \A j \in DOMAIN L : L[j].size >= MinBump
      BY <1>4, <1>10, <2>2
    <3>2. freeList' \in Seq(Block) /\ \A j \in DOMAIN freeList' : freeList'[j].size >= MinBump
      BY <2>1, <2>2, <3>1
    <3> QED BY <1>1, <1>2, <3>2 DEF MemoryOK
  <2>5. Held \subseteq Held' \cup {a}
    BY <1>2, <1>8, <1>9 DEF Held
  <2>6. Kept(carved, Held, freeList)'
    <3> SUFFICES ASSUME NEW c \in carved
                 PROVE  (\E d \in Held' : d.at = c.at) \/ (\E j \in DOMAIN L : L[j].at = c.at)
      BY <1>2, <2>1 DEF Kept
    <3>1. CASE \E d \in Held : d.at = c.at
      <4>1. PICK d \in Held : d.at = c.at
        BY <3>1
      <4>2. CASE d = a
        BY <4>1, <4>2, <1>4, <2>2
      <4>3. CASE d # a
        BY <4>1, <4>3, <2>5
      <4> QED BY <4>2, <4>3
    <3>2. CASE \E m \in DOMAIN freeList : freeList[m].at = c.at
      BY <3>2, <2>2
    <3> QED BY <3>1, <3>2, <1>11 DEF Kept
  <2>7. ASSUME ~displaced PROVE Placement'
    <3>1. Placement /\ HeldOK(Held, carved) /\ ListOK(freeList, carved) /\ NotListed(Held, freeList)
      BY <2>7 DEF IInv, Placement
    <3>2. a \in Held /\ Placed(a, carved)
      BY <1>8, <1>13, <3>1 DEF Held, HeldOK
    <3>3. PICK c \in carved : InCarved(c, a)
      BY <1>4, <1>10, <1>13, <3>2, OneKind
    <3>4. \A k \in Pool : ~InPool(k, a)
      BY <1>4, <1>10, <1>13, <3>2, OneKind
    <3>5. InCarved(c, e)
      <4>1. Rounded(Rounded(a.size)) = Rounded(a.size)
        BY <1>3, RoundedUp
      <4> QED BY <1>4, <3>3, <4>1 DEF InCarved
    <3>6. \A m \in DOMAIN freeList : freeList[m].at # e.at
      BY <1>4, <3>1, <3>2 DEF NotListed
    <3>7. ListOK(L, carved)
      BY <2>3, <3>1, <3>5, <3>6
    <3>8. Held' = Held \ {a}
      <4>1. Gives(pc[h], arg[h])
        BY <1>1, <1>13 DEF Gives
      <4>2. a \notin live /\ a \notin OthersGive(h)
        BY <3>1, <4>1 DEF Placement, OwnersApart, OthersGive
      <4> QED BY <1>2, <1>8, <1>9, <1>13, <4>2 DEF Held
    <3>9. HeldOK(Held \ {a}, carved)
      BY <3>1, HeldLess
    <3>10. NotListed(Held \ {a}, L)
      <4> SUFFICES ASSUME NEW d \in Held \ {a}, NEW j \in DOMAIN L PROVE d.at # L[j].at
        BY DEF NotListed
      <4>1. d.at # a.at
        BY <3>1, <3>2 DEF HeldOK
      <4>2. \A m \in DOMAIN freeList : d.at # freeList[m].at
        BY <3>1 DEF NotListed
      <4> QED BY <1>4, <2>2, <4>1, <4>2
    <3>11. HeldOK(Held, carved)' /\ ListOK(freeList, carved)' /\ NotListed(Held, freeList)'
      BY <1>2, <2>1, <3>7, <3>8, <3>9, <3>10 DEF HeldOK, ListOK, NotListed
    <3>12. \A k \in Pool : used'[k] = Marks(k, Held \ {a})
      <4> SUFFICES ASSUME NEW k \in Pool PROVE used'[k] = Marks(k, Held \ {a})
        OBVIOUS
      <4>1. Marks(k, Held \ {a}) = Marks(k, Held)
        BY <3>4, MarkNone
      <4> QED BY <1>2, <3>1, <4>1 DEF Placement
    <3>13. (\A k \in Pool : used[k] = Marks(k, Held))'
      BY <3>8, <3>12 DEF Marks
    <3> QED BY <1>12, <3>1, <3>11, <3>13 DEF Placement
  <2> QED BY <1>2, <1>7, <2>4, <2>6, <2>7 DEF IInv
<1>14. CASE ~BumpOwns(a.at)
  <2>1. freeList' = freeList
    BY <1>2, <1>14
  <2>2. Held' = Held
    BY <1>2, <1>8, <1>9, <1>14 DEF Held
  <2>3. MemoryOK'
    BY <1>1, <1>2, <2>1 DEF MemoryOK
  <2>4. Kept(carved, Held, freeList)'
    BY <1>2, <1>11, <2>1, <2>2 DEF Kept
  <2>5. ASSUME ~displaced PROVE Placement'
    <3>1. Placement
      BY <2>5 DEF IInv
    <3>2. HeldOK(Held, carved)' /\ ListOK(freeList, carved)' /\ NotListed(Held, freeList)'
      BY <1>2, <2>1, <2>2, <3>1 DEF Placement, HeldOK, ListOK, NotListed
    <3>3. (\A k \in Pool : used[k] = Marks(k, Held))'
      BY <1>2, <2>2, <3>1 DEF Placement, Marks
    <3> QED BY <1>12, <3>1, <3>2, <3>3 DEF Placement
  <2> QED BY <1>2, <1>7, <2>3, <2>4, <2>5 DEF IInv
<1> QED BY <1>13, <1>14

-----------------------------------------------------------------------------
\* Every step keeps the invariant.
LEMMA NextIInv == IInv /\ [Next]_vars => IInv'
<1> SUFFICES ASSUME IInv, [Next]_vars PROVE IInv'
  OBVIOUS
<1>1. CASE Next
  <2>1. PICK h \in Hart :
          \/ \E n \in Request : allocate(h, n)
          \/ slabAllocate(h)
          \/ bumpAllocate(h)
          \/ freeListAllocate(h)
          \/ return(h)
          \/ \E b \in live : deallocate(h, b)
          \/ freeSlab(h)
          \/ registerFreedBlock(h)
    BY <1>1 DEF Next
  <2> QED BY <2>1, AllocateStep, SlabAllocateStep, BumpAllocateStep, FreeListAllocateStep,
             ReturnStep, DeallocateStep, FreeSlabStep, RegisterStep
<1>2. CASE UNCHANGED vars
  <2>1. Held' = Held
    BY <1>2 DEF vars, Held, Returning, BumpOwns
  <2>2. HartsOK' /\ MemoryOK'
    BY <1>2 DEF vars, IInv, HartsOK, HartOK, MemoryOK
  <2>3. Kept(carved, Held, freeList)'
    BY <1>2, <2>1 DEF vars, IInv, Kept
  <2>4. ~displaced' => Placement'
    <3> SUFFICES ASSUME ~displaced PROVE Placement'
      BY <1>2 DEF vars
    <3>1. Placement
      BY DEF IInv
    <3>2. OwnersApart' /\ FreesFirst'
      BY <1>2, <3>1 DEF vars, Placement, OwnersApart, FreesFirst, Gives, BumpOwns
    <3>3. HeldOK(Held, carved)' /\ ListOK(freeList, carved)' /\ NotListed(Held, freeList)'
      BY <1>2, <2>1, <3>1 DEF vars, Placement, HeldOK, ListOK, NotListed
    <3>4. (\A k \in Pool : used[k] = Marks(k, Held))' /\ wild' = {}
      BY <1>2, <2>1, <3>1 DEF vars, Placement, Marks
    <3> QED BY <3>2, <3>3, <3>4 DEF Placement
  <2> QED BY <2>2, <2>3, <2>4 DEF IInv
<1> QED BY <1>1, <1>2

\* The invariant holds in every behaviour of allocate and deallocate.
THEOREM Invariance == Spec => []IInv
<1>1. Init => IInv
  BY InitIInv
<1>2. IInv /\ [Next]_vars => IInv'
  BY NextIInv
<1> QED BY <1>1, <1>2, PTL DEF Spec

\* Bitmaps, offset, free list and the variables of the harts stay in their ranges.
THEOREM TypeCorrect == Spec => []TypeOK
<1>1. IInv => TypeOK
  <2> SUFFICES ASSUME IInv PROVE TypeOK
    OBVIOUS
  <2>1. HartsOK /\ MemoryOK
    BY DEF IInv
  <2>2. \A i \in DOMAIN freeList : freeList[i].at \in Nat /\ freeList[i].size >= MinBump
    <3> SUFFICES ASSUME NEW i \in DOMAIN freeList PROVE freeList[i].at \in Nat
      BY <2>1 DEF MemoryOK
    <3>1. freeList[i] \in Block
      BY <2>1 DEF MemoryOK
    <3> QED BY <3>1 DEF Block
  <2>3. \A b \in live : b.at \in Nat /\ b.size \in Request
    BY <2>1 DEF MemoryOK, Block
  <2>4. /\ pc \in [Hart -> {"idle", "slab", "bump", "freeList", "free", "register", "return"}]
        /\ pool \in [Hart -> Pool]
        /\ \A h \in Hart : word[h] \in 0 .. NumBitmaps(pool[h]) - 1
    BY <2>1 DEF HartsOK, HartOK
  <2> QED BY <2>1, <2>2, <2>3, <2>4 DEF MemoryOK, TypeOK
<1> QED BY <1>1, Invariance, PTL

\* deallocate clears bits only in the bitmaps of a header.
THEOREM WritesInHeader == Spec => []NoWildWrite
<1>1. IInv => NoWildWrite
  BY DEF IInv, MemoryOK, Placement, NoWildWrite
<1> QED BY <1>1, Invariance, PTL

\* A slab is marked exactly while it is held or on its way back, and a block of
\* the bump resource is held, on its way back or in the free list.
THEOREM NothingLost == Spec => []NoBlockLost
<1>1. IInv => NoBlockLost
  <2> SUFFICES ASSUME IInv PROVE NoBlockLost
    OBVIOUS
  <2>1. ASSUME NEW k \in Pool
        PROVE  \/ displaced
               \/ used[k] = Padding(k) \cup {SlabIndex(k, b.at) :
                                               b \in {c \in live \cup Returning : InPool(k, c)}}
    <3>1. displaced \/ used[k] = Marks(k, Held)
      BY DEF IInv, MemoryOK, Placement
    <3> QED BY <3>1 DEF Marks, Held
  <2>2. \A c \in carved : \/ \E b \in live \cup Returning : b.at = c.at
                          \/ \E i \in DOMAIN freeList : freeList[i].at = c.at
    BY DEF IInv, Kept, Held
  <2> QED BY <2>1, <2>2 DEF NoBlockLost
<1> QED BY <1>1, Invariance, PTL

\* A block that is handed out was free, and nothing else is in its words.
THEOREM MemoryExclusive == Spec => HandsOutFreeMemory
<1> DEFINE Body ==
      \A h \in Hart :
        ~displaced /\ pc[h] \in {"slab", "bump", "freeList"} /\ arg'[h] # arg[h] =>
          LET b == arg'[h]
          IN  /\ \/ \E k \in Pool : InPool(k, b)
                 \/ BumpOwns(b.at) /\ BumpOwns(b.at + b.size - 1)
              /\ \A c \in live \cup Returning : Words(b) \cap Words(c) = {}
              /\ \A i \in DOMAIN freeList' : Words(b) \cap Words(freeList'[i]) = {}
<1>1. IInv /\ [Next]_vars => [Body]_vars
  <2> SUFFICES ASSUME IInv, Next PROVE Body
    OBVIOUS
  <2> SUFFICES ASSUME NEW h \in Hart, ~displaced, pc[h] \in {"slab", "bump", "freeList"},
                      arg'[h] # arg[h], NEW b, b = arg'[h]
               PROVE  /\ \/ \E k \in Pool : InPool(k, b)
                         \/ BumpOwns(b.at) /\ BumpOwns(b.at + b.size - 1)
                      /\ \A c \in live \cup Returning : Words(b) \cap Words(c) = {}
                      /\ \A i \in DOMAIN freeList' : Words(b) \cap Words(freeList'[i]) = {}
    OBVIOUS
  <2>1. slabAllocate(h) \/ bumpAllocate(h) \/ freeListAllocate(h)
    <3>1. PICK g \in Hart :
            \/ \E n \in Request : allocate(g, n)
            \/ slabAllocate(g)
            \/ bumpAllocate(g)
            \/ freeListAllocate(g)
            \/ return(g)
            \/ \E d \in live : deallocate(g, d)
            \/ freeSlab(g)
            \/ registerFreedBlock(g)
      BY DEF Next
    <3>2. arg = [f \in Hart |-> arg[f]]
      BY DEF IInv, HartsOK
    <3>3. g # h => arg'[h] = arg[h]
      BY <3>1, <3>2 DEF allocate, slabAllocate, bumpAllocate, freeListAllocate, return,
                        deallocate, freeSlab, registerFreedBlock, Give
    <3>4. g = h
      BY <3>3
    <3>5. /\ \A n \in Request : ~allocate(h, n)
          /\ ~return(h) /\ (\A d \in live : ~deallocate(h, d))
          /\ ~freeSlab(h) /\ ~registerFreedBlock(h)
      BY DEF allocate, return, deallocate, freeSlab, registerFreedBlock
    <3> QED BY <3>1, <3>4, <3>5
  <2>2. PICK d : HandsOut(h, d)
    BY <2>1, SlabAllocateStep, BumpAllocateStep, FreeListAllocateStep
  <2>3. HandsOut(h, b)
    BY <2>2 DEF HandsOut
  <2>4. /\ b \in Block /\ Placed(b, carved') /\ carved \subseteq carved'
        /\ Carved(carved', offset') /\ offset' \in 0 .. BumpWords
        /\ ListOK(freeList', carved')
    BY <2>3 DEF HandsOut
  <2>5. \/ \E k \in Pool : InPool(k, b)
        \/ BumpOwns(b.at) /\ BumpOwns(b.at + b.size - 1)
    BY <2>4, SlabPlace, CarvedPlace DEF Placed
  <2>6. ASSUME NEW c \in live \cup Returning PROVE Words(b) \cap Words(c) = {}
    <3>1. c \in Held /\ HeldOK(Held, carved)
      BY DEF IInv, Placement, Held
    <3>2. c \in Block /\ Placed(c, carved)
      BY <3>1 DEF HeldOK
    <3>3. Placed(c, carved')
      BY <2>4, <3>2 DEF Placed
    <3>4. b.at # c.at
      BY <2>3, <3>1 DEF HandsOut
    <3> QED BY <2>4, <3>2, <3>3, <3>4, PlacedApart
  <2>7. ASSUME NEW i \in DOMAIN freeList' PROVE Words(b) \cap Words(freeList'[i]) = {}
    <3> DEFINE c == freeList'[i]
    <3>1. c \in Block /\ \E e \in carved' : InCarved(e, c)
      BY <2>4 DEF ListOK
    <3>2. Placed(c, carved') /\ b.at # c.at
      BY <2>3, <3>1 DEF Placed, HandsOut
    <3> HIDE DEF c
    <3>3. Words(b) \cap Words(c) = {}
      BY <2>4, <3>1, <3>2, PlacedApart
    <3> QED BY <3>3 DEF c
  <2> QED BY <2>5, <2>6, <2>7
<1>2. Spec => [][Body]_vars
  BY <1>1, Invariance, PTL DEF Spec
<1> QED BY <1>2 DEF HandsOutFreeMemory
=============================================================================
