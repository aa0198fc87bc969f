------------------------------ MODULE SlabProofs ------------------------------
(***************************************************************************)
(* Proofs about the slab allocator, for any number of harts and slabs and  *)
(* any width of the bitmaps.                                               *)
(***************************************************************************)
EXTENDS SlabMemoryResource, SlabLayoutProofs, WellFoundedInduction

-----------------------------------------------------------------------------
\* The buffer has at least one slab for the program.
LEMMA UserSlabsExist == NumUserSlabs \in Nat \ {0}
  BY SizeAssumption, DivisionOfSlabs DEF NumUserSlabs

\* The bitmaps cover all slabs, and only the last one has bits without.
LEMMA BitmapsCover ==
  /\ NumBitmaps \in Nat \ {0}
  /\ LastUsableBits \in Bit
  /\ LastUsableBits = 0 => NumUserSlabs = NumBitmaps * BitmapBits
  /\ LastUsableBits # 0 => NumUserSlabs = (NumBitmaps - 1) * BitmapBits + LastUsableBits
<1> DEFINE u == NumUserSlabs
           b == BitmapBits
           q == u \div b
           m == u % b
           v == u + b - 1
           d == v \div b
<1>1. u \in Nat \ {0} /\ b \in Nat \ {0}
  BY UserSlabsExist, SizeAssumption
<1>2. NumBitmaps = d /\ LastUsableBits = m
  BY DEF NumBitmaps, Bitmaps, nextMultipleOf, NumUserSlabs, LastUsableBits
<1> HIDE DEF u, b
<1>3. q \in Nat /\ m \in 0 .. b - 1 /\ u = q * b + m
  BY <1>1, DivMod
<1>4. v \in Nat
  BY <1>1
<1> HIDE DEF v
<1>5. d \in Nat /\ (v % b) \in 0 .. b - 1 /\ v = d * b + (v % b)
  BY <1>1, <1>4, DivMod
<1> HIDE DEF q, m, d
<1>6. CASE m = 0
  <2>1. v = q * b + (b - 1)
    BY <1>1, <1>3, <1>6 DEF v
  <2>2. d = q
    <3>1. d * b + (v % b) = q * b + (b - 1) /\ b - 1 \in 0 .. b - 1
      BY <2>1, <1>1, <1>5
    <3> HIDE DEF v
    <3> QED BY <3>1, <1>1, <1>3, <1>5, DivUnique
  <2>3. q # 0
    BY <1>1, <1>3, <1>6
  <2> QED BY <2>2, <2>3, <1>1, <1>2, <1>3, <1>6 DEF Bit, u, b
<1>7. CASE m # 0
  <2>1. v = (q + 1) * b + (m - 1) /\ m - 1 \in 0 .. b - 1 /\ q + 1 \in Nat
    BY <1>1, <1>3, <1>7 DEF v
  <2>2. d = q + 1
    <3>1. d * b + (v % b) = (q + 1) * b + (m - 1)
      BY <2>1, <1>5
    <3> DEFINE w == v % b
               q1 == q + 1
               m1 == m - 1
    <3>2. d * b + w = q1 * b + m1 /\ q1 \in Nat /\ m1 \in 0 .. b - 1 /\ w \in 0 .. b - 1
      BY <3>1, <2>1, <1>5
    <3> HIDE DEF w, q1, m1
    <3>3. d = q1
      BY <3>2, <1>1, <1>5, DivUnique
    <3> QED BY <3>3 DEF q1
  <2> QED BY <2>2, <1>1, <1>2, <1>3, <1>7 DEF Bit, u, b
<1> QED BY <1>6, <1>7

\* deallocate finds the bit that allocate set, and no other slab has it.
LEMMA Addressing ==
  /\ \A s \in Slab : /\ BitmapOf(s) \in Index /\ RankOf(s) \in Bit
                     /\ SlabAt(BitmapOf(s), RankOf(s)) = s
  /\ \A i \in Index, r \in Bit :
       SlabAt(i, r) \in Nat /\ BitmapOf(SlabAt(i, r)) = i /\ RankOf(SlabAt(i, r)) = r
<1>0. BitmapBits \in Nat \ {0} /\ NumUserSlabs \in Nat /\ NumBitmaps \in Nat \ {0}
  BY SizeAssumption, UserSlabsExist, BitmapsCover
<1>1. ASSUME NEW s \in Slab
      PROVE  /\ BitmapOf(s) \in Index /\ RankOf(s) \in Bit
             /\ SlabAt(BitmapOf(s), RankOf(s)) = s
  <2> DEFINE i == BitmapOf(s)
  <2>1. s \in Nat /\ s < NumUserSlabs
    BY <1>0 DEF Slab
  <2>2. i \in Nat /\ RankOf(s) \in Bit /\ s = i * BitmapBits + RankOf(s)
    BY <2>1, <1>0, DivMod DEF BitmapOf, RankOf, Bit
  <2>3. i < NumBitmaps
    <3>1. SUFFICES ASSUME ~(i < NumBitmaps) PROVE FALSE
      OBVIOUS
    <3> HIDE DEF i
    <3>2. NumBitmaps * BitmapBits <= i * BitmapBits
      <4>1. CASE i = NumBitmaps
        BY <4>1, <2>2, <1>0
      <4>2. CASE NumBitmaps < i
        <5>1. NumBitmaps * BitmapBits + BitmapBits <= i * BitmapBits
          BY <4>2, <2>2, <1>0, Monotone
        <5>2. NumBitmaps * BitmapBits \in Nat /\ i * BitmapBits \in Nat
          BY <2>2, <1>0
        <5> QED BY <5>1, <5>2, <1>0
      <4> QED BY <4>1, <4>2, <3>1, <2>2, <1>0
    <3>3. NumUserSlabs <= NumBitmaps * BitmapBits
      BY BitmapsCover, <1>0 DEF Bit
    <3>4. NumBitmaps * BitmapBits \in Nat /\ i * BitmapBits \in Nat
      BY <2>2, <1>0
    <3> QED BY <3>2, <3>3, <3>4, <2>1, <2>2, <1>0 DEF Bit
  <2>4. i \in Index
    BY <2>2, <2>3, <1>0 DEF Index
  <2>5. SlabAt(i, RankOf(s)) = s
    BY <2>2, <1>0 DEF SlabAt, Bit
  <2> QED BY <2>2, <2>4, <2>5
<1>2. ASSUME NEW i \in Index, NEW r \in Bit
      PROVE  SlabAt(i, r) \in Nat /\ BitmapOf(SlabAt(i, r)) = i /\ RankOf(SlabAt(i, r)) = r
  <2> DEFINE s == SlabAt(i, r)
  <2>1. i \in Nat /\ r \in 0 .. BitmapBits - 1
    BY <1>0 DEF Index, Bit
  <2>2. s \in Nat /\ s = i * BitmapBits + r
    BY <2>1, <1>0 DEF SlabAt
  <2> HIDE DEF s
  <2>3. /\ BitmapOf(s) \in Nat /\ RankOf(s) \in 0 .. BitmapBits - 1
        /\ s = BitmapOf(s) * BitmapBits + RankOf(s)
    BY <2>2, <1>0, DivMod DEF BitmapOf, RankOf
  <2>4. BitmapOf(s) = i /\ RankOf(s) = r
    <3> DEFINE j == BitmapOf(s)
               m == RankOf(s)
    <3>1. j \in Nat /\ m \in 0 .. BitmapBits - 1 /\ j * BitmapBits + m = i * BitmapBits + r
      BY <2>2, <2>3
    <3> HIDE DEF j, m
    <3>2. j = i /\ m = r
      BY <3>1, <2>1, <1>0, DivUnique
    <3> QED BY <3>2 DEF j, m
  <2> QED BY <2>2, <2>4 DEF s
<1> QED BY <1>1, <1>2

\* What the header is initialized to: no slab is used, bits without a slab are.
LEMMA LastBits ==
  \A i \in Index, r \in Bit :
    SlabAt(i, r) \in Slab <=>
      ~(LastUsableBits # 0 /\ i = NumBitmaps - 1 /\ r \in LastUsableBits .. BitmapBits - 1)
<1> SUFFICES ASSUME NEW i \in Index, NEW r \in Bit
             PROVE  SlabAt(i, r) \in Slab <=>
                      ~(/\ LastUsableBits # 0 /\ i = NumBitmaps - 1
                        /\ r \in LastUsableBits .. BitmapBits - 1)
  OBVIOUS
<1> DEFINE u == NumUserSlabs
           b == BitmapBits
           n == NumBitmaps
           m == LastUsableBits
<1>0. /\ b \in Nat \ {0} /\ u \in Nat \ {0} /\ n \in Nat \ {0} /\ m \in 0 .. b - 1
      /\ m = 0 => u = n * b
      /\ m # 0 => u = (n - 1) * b + m
  BY SizeAssumption, UserSlabsExist, BitmapsCover DEF Bit
<1>1. i \in 0 .. n - 1 /\ r \in 0 .. b - 1
  BY DEF Index, Bit
<1>2. SlabAt(i, r) \in Slab <=> i * b + r < u
  BY <1>0, <1>1 DEF SlabAt, Slab
<1> HIDE DEF u, b, n, m
<1>3. CASE m = 0
  <2>1. i * b + b <= n * b
    BY <1>0, <1>1, Monotone
  <2>2. i * b \in Nat /\ n * b \in Nat
    BY <1>0, <1>1
  <2> QED BY <2>1, <2>2, <1>0, <1>1, <1>2, <1>3 DEF m
<1>4. CASE m # 0 /\ i = n - 1
  <2>1. i * b \in Nat
    BY <1>0, <1>1
  <2> QED BY <2>1, <1>0, <1>1, <1>2, <1>4 DEF m, n, b
<1>5. CASE m # 0 /\ i # n - 1
  <2>1. n - 1 \in Nat /\ i \in Nat /\ i < n - 1 /\ b \in Nat
    BY <1>0, <1>1, <1>5
  <2>2. i * b + b <= (n - 1) * b
    BY <2>1, Monotone
  <2>3. i * b \in Nat /\ (n - 1) * b \in Nat
    BY <1>0, <1>1, <2>1
  <2> QED BY <2>2, <2>3, <1>0, <1>1, <1>2, <1>5 DEF n
<1> QED BY <1>3, <1>4, <1>5

\* A bitmap that is not full has a first free bit.
LEMMA FirstFreeBit ==
  ASSUME NEW b \in SUBSET Bit, b # Full
  PROVE  FirstFree(b) \in Bit \ b
<1> DEFINE F == Bit \ b
<1>0. Bit \subseteq Nat
  BY SizeAssumption DEF Bit
<1>1. F # {} /\ F \subseteq Nat
  BY <1>0 DEF Full
<1>2. IsWellFoundedOn(OpToRel(<, Nat), Nat)
  BY NatLessThanWellFounded
<1>3. PICK r \in F : \A q \in F : ~(<<q, r>> \in OpToRel(<, Nat))
  BY <1>1, <1>2, WFMin
<1>4. ASSUME NEW q \in F, q < r PROVE FALSE
  <2>1. <<q, r>> \in OpToRel(<, Nat)
    BY <1>1, <1>4, Zenon DEF OpToRel
  <2> QED BY <2>1, <1>3, Zenon
<1>5. \A q \in F : r <= q
  BY <1>1, <1>4
<1> QED BY <1>5 DEF FirstFree

-----------------------------------------------------------------------------
(***************************************************************************)
(* The inductive invariant.                                                *)
(***************************************************************************)
Initializes(h) == pc[h] \in {"clear", "last"}
Frees(h) == pc[h] \in {"freeLoad", "freeCas"}

\* One hart at most writes the header.
OneInitializes ==
  /\ \A h \in Hart : Initializes(h) => initState = "InProgress"
  /\ \A g, h \in Hart : Initializes(g) /\ Initializes(h) => g = h

\* Nobody uses the bitmaps before.
HeaderReady ==
  \A h \in Hart : Frees(h) \/ pc[h] \in {"load", "cas"} => initState = "Initialized"

\* The bitmaps behind the writer are cleared.
Cleared ==
  \A h \in Hart :
    /\ pc[h] \in {"idle", "init", "spin", "last"} => index[h] = 0
    /\ pc[h] = "clear" => \A i \in Index : i < index[h] => bitmap[i] = {}
    /\ pc[h] = "last" => \A i \in Index : bitmap[i] = {}

CasNotFull == \A h \in Hart : pc[h] = "cas" => expected[h] # Full

\* slab[h] is set by the end of allocate and by deallocate only.
EmptyHanded == \A h \in Hart : ~Frees(h) /\ pc[h] # "return" => slab[h] = NoSlab

\* Harts that free hold distinct slabs, which the program no longer holds.
FreeingApart ==
  /\ \A h \in Hart :
       Frees(h) => slab[h] \in Slab \ live /\ index[h] = BitmapOf(slab[h])
  /\ \A g, h \in Hart : Frees(g) /\ Frees(h) /\ slab[g] = slab[h] => g = h

IInv ==
  /\ TypeOK
  /\ OneInitializes
  /\ HeaderReady
  /\ Cleared
  /\ CasNotFull
  /\ EmptyHanded
  /\ FreeingApart
  /\ BitmapExact

\* The invariant holds before the first allocation, whatever the memory holds.
LEMMA InitInv == Init => IInv
<1> SUFFICES ASSUME Init PROVE IInv
  OBVIOUS
<1>0. 0 \in Index
  BY BitmapsCover DEF Index
<1>1. TypeOK
  BY <1>0 DEF Init, TypeOK, PC
<1>2. /\ OneInitializes /\ HeaderReady /\ Cleared /\ CasNotFull /\ EmptyHanded
      /\ FreeingApart
  BY DEF Init, OneInitializes, HeaderReady, Cleared, CasNotFull, EmptyHanded, FreeingApart, Initializes, Frees
<1>3. BitmapExact
  BY DEF Init, BitmapExact, Freeing
<1> QED BY <1>1, <1>2, <1>3 DEF IInv

(***************************************************************************)
(* Steps that move one hart and touch neither bitmaps, slabs nor live.     *)
(***************************************************************************)
LEMMA ExactKept ==
  ASSUME BitmapExact, UNCHANGED <<initState, bitmap, live>>, Freeing' = Freeing
  PROVE  BitmapExact'
  BY DEF BitmapExact, Used, RankOf, BitmapOf, SlabAt, Slab, Index, Bit

LEMMA FreeingKept ==
  ASSUME NEW h \in Hart, TypeOK, UNCHANGED slab, ~Frees(h),
         pc'[h] \notin {"freeLoad", "freeCas"},
         \A g \in Hart \ {h} : pc'[g] = pc[g]
  PROVE  Freeing' = Freeing
  BY DEF Freeing, Frees, TypeOK

\* allocate begins: only the program counter moves.
LEMMA allocateInv ==
  ASSUME IInv, NEW h \in Hart, NEW f \in BOOLEAN, allocate(h, f)
  PROVE  IInv'
<1> USE DEF IInv, allocate, Goto, Scan
<1>1. TypeOK'
  BY DEF TypeOK, PC
<1>2. pc' = [pc EXCEPT ![h] = pc'[h]] /\ pc[h] = "idle" /\ pc'[h] \in {"load", "return", "init"}
      /\ (pc'[h] = "load" => initState = "Initialized")
  BY DEF TypeOK
<1>3. OneInitializes' /\ HeaderReady' /\ Cleared' /\ CasNotFull' /\ EmptyHanded'
  BY <1>2 DEF TypeOK, OneInitializes, HeaderReady, Cleared, CasNotFull, EmptyHanded, Initializes, Frees, Index
<1>4. FreeingApart'
  BY <1>2 DEF TypeOK, FreeingApart, Frees, Slab, BitmapOf
<1>5. BitmapExact'
  BY <1>2, FreeingKept, ExactKept DEF TypeOK, Frees
<1> QED BY <1>1, <1>3, <1>4, <1>5

\* One hart wins the right to write the header.
LEMMA initializeInv ==
  ASSUME IInv, NEW h \in Hart, initializeControlSlabs(h)
  PROVE  IInv'
<1> USE DEF IInv, initializeControlSlabs, Goto
<1>1. TypeOK'
  BY DEF TypeOK, PC
<1>2. /\ pc[h] = "init" /\ pc' = [pc EXCEPT ![h] = pc'[h]]
      /\ \/ initState = "Uninitialized" /\ initState' = "InProgress" /\ pc'[h] = "clear"
         \/ initState # "Uninitialized" /\ initState' = initState /\ pc'[h] = "spin"
  BY DEF TypeOK
<1>3. OneInitializes'
  BY <1>2 DEF TypeOK, OneInitializes, Initializes
<1>4. HeaderReady' /\ CasNotFull' /\ EmptyHanded'
  BY <1>2 DEF TypeOK, HeaderReady, CasNotFull, EmptyHanded, Frees
<1>5. Cleared'
  BY <1>2 DEF TypeOK, Cleared, Index
<1>6. FreeingApart'
  BY <1>2 DEF TypeOK, FreeingApart, Frees, Slab, BitmapOf
<1>7. BitmapExact'
  <2>1. Freeing' = Freeing
    BY <1>2, FreeingKept DEF TypeOK, Frees
  <2>2. CASE initState' = initState
    BY <2>1, <2>2, ExactKept
  <2>3. CASE initState' # initState
    BY <1>2, <2>1, <2>3 DEF BitmapExact
  <2> QED BY <2>2, <2>3
<1> QED BY <1>1, <1>3, <1>4, <1>5, <1>6, <1>7

\* The writer of the header clears a bitmap.
LEMMA clearInv ==
  ASSUME IInv, NEW h \in Hart, clearBitmap(h)
  PROVE  IInv'
<1> USE DEF IInv, clearBitmap, Goto
<1>0. NumBitmaps \in Nat \ {0} /\ index[h] \in 0 .. NumBitmaps - 1
  BY BitmapsCover DEF TypeOK, Index
<1>1. TypeOK'
  <2>1. bitmap' \in [Index -> SUBSET Bit]
    BY DEF TypeOK
  <2>2. index' \in [Hart -> Index]
    <3>1. 0 \in Index /\ (index[h] + 1 < NumBitmaps => index[h] + 1 \in Index)
      BY <1>0 DEF Index
    <3> QED BY <3>1 DEF TypeOK
  <2>3. pc' \in [Hart -> PC]
    BY DEF TypeOK, PC
  <2> QED BY <2>1, <2>2, <2>3 DEF TypeOK
<1>2. /\ pc[h] = "clear" /\ initState = "InProgress" /\ initState' = initState
      /\ pc' = [pc EXCEPT ![h] = pc'[h]] /\ index' = [index EXCEPT ![h] = index'[h]]
      /\ bitmap' = [bitmap EXCEPT ![index[h]] = {}]
      /\ \/ pc'[h] = "clear" /\ index'[h] = index[h] + 1
         \/ pc'[h] = "last" /\ index'[h] = 0 /\ index[h] = NumBitmaps - 1
  BY <1>0 DEF TypeOK, OneInitializes, Initializes
<1>3. OneInitializes' /\ HeaderReady' /\ CasNotFull' /\ EmptyHanded'
  BY <1>2 DEF TypeOK, OneInitializes, Initializes, HeaderReady, CasNotFull, EmptyHanded, Frees
<1>4. Cleared'
  <2>1. ASSUME NEW g \in Hart, g # h
        PROVE  pc'[g] = pc[g] /\ index'[g] = index[g] /\ pc[g] \notin {"clear", "last"}
    BY <1>2, <2>1 DEF TypeOK, OneInitializes, Initializes
  <2>0. ASSUME NEW i \in Index, i <= index[h] PROVE bitmap'[i] = {}
    <3>1. CASE i = index[h]
      BY <3>1, <1>2 DEF TypeOK
    <3>2. CASE i < index[h]
      BY <3>2, <1>2 DEF TypeOK, Cleared
    <3> QED BY <3>1, <3>2, <2>0, <1>0 DEF Index
  <2>2. pc'[h] = "clear" => \A i \in Index : i < index'[h] => bitmap'[i] = {}
    BY <1>0, <1>2, <2>0 DEF Index
  <2>3. pc'[h] = "last" => \A i \in Index : bitmap'[i] = {}
    BY <1>0, <1>2, <2>0 DEF Index
  <2> QED BY <1>2, <2>1, <2>2, <2>3 DEF Cleared, Index
<1>5. FreeingApart'
  BY <1>2 DEF TypeOK, FreeingApart, HeaderReady, Frees
<1>6. BitmapExact'
  <2>1. Freeing' = Freeing
    BY <1>2, FreeingKept DEF TypeOK, Frees
  <2> QED BY <1>2, <2>1 DEF BitmapExact
<1> QED BY <1>1, <1>3, <1>4, <1>5, <1>6

\* After the last bitmap no slab is used, and bits without a slab are set.
LEMMA lastInv ==
  ASSUME IInv, NEW h \in Hart, lastBitmap(h)
  PROVE  IInv'
<1> USE DEF IInv, lastBitmap, Goto, Scan
<1>0. NumBitmaps \in Nat \ {0} /\ LastUsableBits \in Bit /\ NumBitmaps - 1 \in Index
      /\ BitmapBits \in Nat
  BY BitmapsCover, SizeAssumption DEF Index
<1>1. /\ pc[h] = "last" /\ initState = "InProgress" /\ initState' = "Initialized"
      /\ pc' = [pc EXCEPT ![h] = pc'[h]] /\ pc'[h] \in {"load", "return"}
      /\ \A i \in Index : bitmap[i] = {}
  BY DEF TypeOK, OneInitializes, Initializes, Cleared
<1>2. TypeOK'
  <2>1. bitmap' \in [Index -> SUBSET Bit]
    BY <1>0 DEF TypeOK, Bit
  <2> QED BY <2>1, <1>1 DEF TypeOK, PC
<1>3. OneInitializes' /\ HeaderReady' /\ CasNotFull' /\ EmptyHanded'
  BY <1>1 DEF TypeOK, OneInitializes, Initializes, HeaderReady, CasNotFull, EmptyHanded, Frees
<1>4. Cleared'
  BY <1>1 DEF TypeOK, OneInitializes, Initializes, Cleared, Index
<1>5. FreeingApart'
  BY <1>1 DEF TypeOK, FreeingApart, HeaderReady, Frees
<1>6. BitmapExact'
  <2>1. live' = {} /\ Freeing' = {}
    <3>1. Freeing' = Freeing
      BY <1>1, FreeingKept DEF TypeOK, Frees
    <3> QED BY <3>1, <1>1 DEF BitmapExact
  <2>2. ASSUME NEW i \in Index, NEW r \in Bit
        PROVE  r \in bitmap'[i] <=> SlabAt(i, r) \notin Slab
    <3>1. r \in bitmap'[i] <=>
            (/\ LastUsableBits # 0 /\ i = NumBitmaps - 1
             /\ r \in LastUsableBits .. BitmapBits - 1)
      BY <1>0, <1>1 DEF TypeOK
    <3> QED BY <3>1, LastBits
  <2>3. Used' = {}
    <3>1. ASSUME NEW s \in Slab PROVE RankOf(s) \notin bitmap'[BitmapOf(s)]
      BY <2>2, Addressing
    <3>2. Used' = {s \in Slab : RankOf(s) \in bitmap'[BitmapOf(s)]}
      BY DEF Used, Slab, RankOf, BitmapOf
    <3> QED BY <3>1, <3>2
  <2> QED BY <2>1, <2>2, <2>3, <1>1 DEF BitmapExact, SlabAt, Slab, Index, Bit
<1> QED BY <1>2, <1>3, <1>4, <1>5, <1>6

\* A hart that waited for the header goes on.
LEMMA spinInv ==
  ASSUME IInv, NEW h \in Hart, spin(h)
  PROVE  IInv'
<1> USE DEF IInv, spin, Goto, Scan
<1>1. TypeOK'
  BY DEF TypeOK, PC
<1>2. pc' = [pc EXCEPT ![h] = pc'[h]] /\ pc[h] = "spin" /\ pc'[h] \in {"load", "return"}
  BY DEF TypeOK
<1>3. OneInitializes' /\ HeaderReady' /\ Cleared' /\ CasNotFull' /\ EmptyHanded'
  BY <1>2 DEF TypeOK, OneInitializes, HeaderReady, Cleared, CasNotFull, EmptyHanded, Initializes, Frees, Index
<1>4. FreeingApart'
  BY <1>2 DEF TypeOK, FreeingApart, Frees, Slab, BitmapOf
<1>5. BitmapExact'
  BY <1>2, FreeingKept, ExactKept DEF TypeOK, Frees
<1> QED BY <1>1, <1>3, <1>4, <1>5

\* What loadBitmap and a failed compare-exchange do with the bitmap.
LEMMA TryNextInv ==
  ASSUME IInv, NEW h \in Hart, NEW b \in SUBSET Bit,
         pc[h] \in {"load", "cas"}, TryNext(h, b),
         UNCHANGED <<fits, initState, bitmap, slab, live, spare>>
  PROVE  IInv'
<1> USE DEF IInv, TryNext, nextBitmap, Goto
<1>0. NumBitmaps \in Nat \ {0} /\ index[h] \in 0 .. NumBitmaps - 1
  BY BitmapsCover DEF TypeOK, Index
<1>1. /\ pc' = [pc EXCEPT ![h] = pc'[h]] /\ index' = [index EXCEPT ![h] = index'[h]]
      /\ expected' = [expected EXCEPT ![h] = b]
      /\ pc'[h] \in {"load", "cas", "return"} /\ index'[h] \in Index
      /\ (pc'[h] = "cas" => b # Full)
  <2>1. index[h] + 1 < NumBitmaps => index[h] + 1 \in Index
    BY <1>0 DEF Index
  <2> QED BY <2>1 DEF TypeOK
<1>2. TypeOK'
  BY <1>1 DEF TypeOK, PC
<1>3. OneInitializes' /\ HeaderReady' /\ CasNotFull' /\ EmptyHanded'
  BY <1>1 DEF TypeOK, OneInitializes, HeaderReady, CasNotFull, EmptyHanded, Initializes, Frees, Full, Bit
<1>4. Cleared'
  BY <1>1 DEF TypeOK, Cleared, Index
<1>5. FreeingApart'
  BY <1>1 DEF TypeOK, FreeingApart, Frees, Slab, BitmapOf
<1>6. BitmapExact'
  BY <1>1, FreeingKept, ExactKept DEF TypeOK, Frees
<1> QED BY <1>2, <1>3, <1>4, <1>5, <1>6

\* The slab that a successful compare-exchange takes was in nobody's hands.
LEMMA FreeSlab ==
  ASSUME IInv, NEW h \in Hart, pc[h] = "cas", bitmap[index[h]] = expected[h]
  PROVE  LET r == FirstFree(expected[h])
         IN  /\ r \in Bit \ bitmap[index[h]]
             /\ SlabAt(index[h], r) \in Slab \ (live \cup Freeing)
<1> DEFINE r == FirstFree(expected[h])
           s == SlabAt(index[h], r)
<1>1. index[h] \in Index /\ expected[h] \in SUBSET Bit /\ expected[h] # Full
      /\ initState = "Initialized"
  BY DEF IInv, TypeOK, CasNotFull, EmptyHanded, HeaderReady
<1>2. r \in Bit \ bitmap[index[h]]
  BY <1>1, FirstFreeBit
<1> HIDE DEF r
<1>3. s \in Slab
  BY <1>1, <1>2 DEF IInv, BitmapExact
<1>4. BitmapOf(s) = index[h] /\ RankOf(s) = r
  BY <1>1, <1>2, Addressing
<1>5. s \notin Used
  BY <1>2, <1>4 DEF Used
<1> QED BY <1>1, <1>2, <1>3, <1>5 DEF IInv, BitmapExact, r

\* The compare-exchange of allocate marks exactly the slab it takes.
LEMMA allocateCasInv ==
  ASSUME IInv, NEW h \in Hart, allocateCas(h)
  PROVE  IInv'
<1> DEFINE i == index[h]
           r == FirstFree(expected[h])
           s == SlabAt(i, r)
<1>1. CASE bitmap[i] # expected[h]
  <2>1. bitmap[i] \in SUBSET Bit
    BY DEF IInv, TypeOK
  <2> QED BY <1>1, <2>1, TryNextInv DEF allocateCas
<1>2. CASE bitmap[i] = expected[h]
  <2>1. /\ pc[h] = "cas" /\ pc' = [pc EXCEPT ![h] = "return"]
        /\ bitmap' = [bitmap EXCEPT ![i] = @ \cup {r}]
        /\ slab' = [slab EXCEPT ![h] = s] /\ live' = live \cup {s}
        /\ UNCHANGED <<index, expected, fits, initState>> /\ spare' = [g \in Hart |-> spare[g] \ {s}]
    BY <1>2 DEF allocateCas, Goto, Without
  <2>2. r \in Bit \ bitmap[i] /\ s \in Slab \ (live \cup Freeing) /\ i \in Index
        /\ initState = "Initialized"
    BY <1>2, <2>1, FreeSlab DEF IInv, TypeOK, HeaderReady
  <2>3. BitmapOf(s) = i /\ RankOf(s) = r
    BY <2>2, Addressing
  <2> HIDE DEF r, s, i
  <2>4. TypeOK'
    BY <2>1, <2>2 DEF IInv, TypeOK, PC
  <2>5. OneInitializes' /\ HeaderReady' /\ CasNotFull' /\ EmptyHanded'
    BY <2>1 DEF IInv, TypeOK, OneInitializes, HeaderReady, CasNotFull, EmptyHanded, Initializes, Frees
  <2>6. Cleared'
    BY <2>1, <2>2 DEF IInv, TypeOK, OneInitializes, Cleared, Initializes
  <2>7. FreeingApart'
    BY <2>1, <2>2 DEF IInv, TypeOK, FreeingApart, Freeing, Frees
  <2>8. BitmapExact'
    <3>1. Freeing' = Freeing
      BY <2>1 DEF IInv, TypeOK, Freeing
    <3>2. Used' = Used \cup {s}
      <4>1. ASSUME NEW t \in Slab
            PROVE  RankOf(t) \in bitmap'[BitmapOf(t)] <=>
                     RankOf(t) \in bitmap[BitmapOf(t)] \/ t = s
        <5>1. t = s <=> BitmapOf(t) = i /\ RankOf(t) = r
          BY <2>2, <2>3, Addressing
        <5>2. BitmapOf(t) \in Index
          BY Addressing
        <5> QED BY <2>1, <2>2, <5>1, <5>2 DEF IInv, TypeOK
      <4>2. Used' = {t \in Slab : RankOf(t) \in bitmap'[BitmapOf(t)]}
        BY DEF Used
      <4> QED BY <2>2, <4>1, <4>2 DEF Used
    <3>3. \A j \in Index, q \in Bit : SlabAt(j, q) \notin Slab => q \in bitmap'[j]
      BY <2>1, <2>2 DEF IInv, TypeOK, BitmapExact
    <3> QED BY <2>1, <2>2, <3>1, <3>2, <3>3 DEF IInv, BitmapExact
  <2> QED BY <2>4, <2>5, <2>6, <2>7, <2>8 DEF IInv
<1> QED BY <1>1, <1>2

\* allocate returns.
LEMMA returnInv ==
  ASSUME IInv, NEW h \in Hart, return(h)
  PROVE  IInv'
<1> USE DEF IInv, return, Leave, Goto
<1>0. 0 \in Index
  BY BitmapsCover DEF Index
<1>1. TypeOK'
  BY <1>0 DEF TypeOK, PC
<1>2. OneInitializes' /\ HeaderReady' /\ CasNotFull' /\ EmptyHanded'
  BY DEF TypeOK, OneInitializes, HeaderReady, CasNotFull, EmptyHanded, Initializes, Frees
<1>3. Cleared'
  BY DEF TypeOK, Cleared
<1>4. FreeingApart'
  BY DEF TypeOK, FreeingApart, Frees
<1>5. BitmapExact'
  <2>1. Freeing' = Freeing
    BY DEF TypeOK, Freeing
  <2> QED BY <2>1, ExactKept
<1> QED BY <1>1, <1>2, <1>3, <1>4, <1>5

\* A slab the program gives back stays marked.
LEMMA deallocateInv ==
  ASSUME IInv, NEW h \in Hart, NEW s \in live, deallocate(h, s)
  PROVE  IInv'
<1>1. /\ pc[h] = "idle" /\ pc' = [pc EXCEPT ![h] = "freeLoad"]
      /\ live' = live \ {s} /\ slab' = [slab EXCEPT ![h] = s]
      /\ index' = [index EXCEPT ![h] = BitmapOf(s)]
      /\ UNCHANGED <<fits, initState, bitmap, expected, spare>>
  BY DEF deallocate, Goto
<1>2. s \in Slab /\ BitmapOf(s) \in Index /\ initState = "Initialized"
  BY Addressing DEF IInv, TypeOK, BitmapExact
<1>3. TypeOK'
  BY <1>1, <1>2 DEF IInv, TypeOK, PC
<1>4. OneInitializes' /\ HeaderReady' /\ CasNotFull' /\ EmptyHanded'
  BY <1>1, <1>2 DEF IInv, TypeOK, OneInitializes, HeaderReady, CasNotFull, EmptyHanded, Initializes, Frees
<1>5. Cleared'
  BY <1>1 DEF IInv, TypeOK, Cleared
<1>6. FreeingApart'
  BY <1>1, <1>2 DEF IInv, TypeOK, FreeingApart, Frees
<1>7. BitmapExact'
  <2>1. Freeing' = Freeing \cup {s}
    BY <1>1 DEF IInv, TypeOK, Freeing
  <2>2. live' \cup Freeing' = live \cup Freeing
    BY <1>1, <2>1
  <2> QED BY <1>1, <1>2, <2>2 DEF IInv, BitmapExact, Used
<1> QED BY <1>3, <1>4, <1>5, <1>6, <1>7 DEF IInv

\* deallocate looks at the bitmap.
LEMMA freeLoadInv ==
  ASSUME IInv, NEW h \in Hart, freeLoad(h)
  PROVE  IInv'
<1>1. /\ pc[h] = "freeLoad" /\ pc' = [pc EXCEPT ![h] = "freeCas"]
      /\ expected' = [expected EXCEPT ![h] = bitmap[index[h]]]
      /\ UNCHANGED <<fits, initState, bitmap, index, slab, live, spare>>
  BY DEF freeLoad, Goto
<1>2. TypeOK'
  BY <1>1 DEF IInv, TypeOK, PC
<1>3. OneInitializes' /\ HeaderReady' /\ CasNotFull' /\ EmptyHanded'
  BY <1>1 DEF IInv, TypeOK, OneInitializes, HeaderReady, CasNotFull, EmptyHanded, Initializes, Frees
<1>4. Cleared'
  BY <1>1 DEF IInv, TypeOK, Cleared
<1>5. FreeingApart'
  BY <1>1 DEF IInv, TypeOK, FreeingApart, Frees
<1>6. BitmapExact'
  <2>1. Freeing' = Freeing
    BY <1>1 DEF IInv, TypeOK, Freeing
  <2> QED BY <1>1, <2>1, ExactKept DEF IInv
<1> QED BY <1>2, <1>3, <1>4, <1>5, <1>6 DEF IInv

\* The compare-exchange of deallocate clears exactly the slab's own bit.
LEMMA freeCasInv ==
  ASSUME IInv, NEW h \in Hart, freeCas(h)
  PROVE  IInv'
<1>1. CASE bitmap[index[h]] # expected[h]
  <2>1. /\ pc[h] = "freeCas"
        /\ expected' = [expected EXCEPT ![h] = bitmap[index[h]]]
        /\ UNCHANGED <<pc, fits, initState, bitmap, index, slab, live, spare>>
    BY <1>1 DEF freeCas
  <2>2. TypeOK'
    BY <2>1 DEF IInv, TypeOK
  <2>3. /\ OneInitializes' /\ HeaderReady' /\ CasNotFull' /\ EmptyHanded' /\ Cleared' /\ FreeingApart'
    BY <2>1 DEF IInv, TypeOK, OneInitializes, HeaderReady, CasNotFull, EmptyHanded, Cleared, FreeingApart,
                Initializes, Frees
  <2>4. BitmapExact'
    BY <2>1, ExactKept DEF IInv, Freeing
  <2> QED BY <2>2, <2>3, <2>4 DEF IInv
<1>2. CASE bitmap[index[h]] = expected[h]
  <2> DEFINE s == slab[h]
             i == index[h]
             r == RankOf(slab[h])
  <2>1. /\ pc[h] = "freeCas" /\ pc' = [pc EXCEPT ![h] = "idle"]
        /\ bitmap' = [bitmap EXCEPT ![i] = @ \ {r}]
        /\ fits' = [fits EXCEPT ![h] = FALSE]
        /\ index' = [index EXCEPT ![h] = 0] /\ expected' = [expected EXCEPT ![h] = {}]
        /\ slab' = [slab EXCEPT ![h] = NoSlab]
        /\ UNCHANGED <<initState, live>> /\ spare' = [spare EXCEPT ![h] = {}]
    BY <1>2 DEF freeCas, Leave, Goto
  <2>2. s \in Slab \ live /\ i = BitmapOf(s) /\ initState = "Initialized"
    BY <2>1 DEF IInv, FreeingApart, HeaderReady, Frees
  <2>3. i \in Index /\ r \in Bit /\ 0 \in Index
    BY <2>2, Addressing, BitmapsCover DEF Index
  <2>4. TypeOK'
    BY <2>1, <2>3 DEF IInv, TypeOK, PC
  <2>5. OneInitializes' /\ HeaderReady' /\ CasNotFull' /\ EmptyHanded'
    BY <2>1 DEF IInv, TypeOK, OneInitializes, HeaderReady, CasNotFull, EmptyHanded, Initializes, Frees
  <2>6. Cleared'
    BY <2>1, <2>2, <2>3 DEF IInv, TypeOK, OneInitializes, Cleared, Initializes
  <2>7. FreeingApart'
    BY <2>1 DEF IInv, TypeOK, FreeingApart, Frees
  <2>8. BitmapExact'
    <3>1. Freeing' = Freeing \ {s}
      BY <2>1 DEF IInv, TypeOK, Freeing, FreeingApart, Frees
    <3>2. Used' = Used \ {s}
      <4>1. ASSUME NEW t \in Slab
            PROVE  RankOf(t) \in bitmap'[BitmapOf(t)] <=>
                     RankOf(t) \in bitmap[BitmapOf(t)] /\ t # s
        <5>1. t = s <=> BitmapOf(t) = i /\ RankOf(t) = r
          BY <2>2, Addressing
        <5>2. BitmapOf(t) \in Index
          BY Addressing
        <5> QED BY <2>1, <2>3, <5>1, <5>2 DEF IInv, TypeOK
      <4>2. Used' = {t \in Slab : RankOf(t) \in bitmap'[BitmapOf(t)]}
        BY DEF Used
      <4> QED BY <4>1, <4>2 DEF Used
    <3>3. ASSUME NEW j \in Index, NEW q \in Bit, SlabAt(j, q) \notin Slab
          PROVE  q \in bitmap'[j]
      <4>1. q \in bitmap[j]
        BY <2>2, <3>3 DEF IInv, BitmapExact
      <4>2. ~(j = i /\ q = r)
        BY <2>2, <3>3, Addressing
      <4> QED BY <2>1, <2>3, <4>1, <4>2 DEF IInv, TypeOK
    <3> QED BY <2>1, <2>2, <3>1, <3>2, <3>3 DEF IInv, BitmapExact
  <2> QED BY <2>4, <2>5, <2>6, <2>7, <2>8 DEF IInv
<1> QED BY <1>1, <1>2

\* Every step keeps the invariant: one case per action.
LEMMA NextInv == IInv /\ [Next]_vars => IInv'
<1> SUFFICES ASSUME IInv, [Next]_vars PROVE IInv'
  OBVIOUS
<1>1. ASSUME NEW h \in Hart, NEW f \in BOOLEAN, allocate(h, f) PROVE IInv'
  BY <1>1, allocateInv
<1>2. ASSUME NEW h \in Hart, NEW s \in live, deallocate(h, s) PROVE IInv'
  BY <1>2, deallocateInv
<1>3. ASSUME NEW h \in Hart, Inside(h) PROVE IInv'
  <2>1. CASE initializeControlSlabs(h)
    BY <2>1, initializeInv
  <2>2. CASE clearBitmap(h)
    BY <2>2, clearInv
  <2>3. CASE lastBitmap(h)
    BY <2>3, lastInv
  <2>4. CASE spin(h)
    BY <2>4, spinInv
  <2>5. CASE loadBitmap(h)
    <3>1. bitmap[index[h]] \in SUBSET Bit
      BY DEF IInv, TypeOK
    <3> QED BY <2>5, <3>1, TryNextInv DEF loadBitmap
  <2>6. CASE allocateCas(h)
    BY <2>6, allocateCasInv
  <2>7. CASE return(h)
    BY <2>7, returnInv
  <2>8. CASE freeLoad(h)
    BY <2>8, freeLoadInv
  <2>9. CASE freeCas(h)
    BY <2>9, freeCasInv
  <2> QED BY <1>3, <2>1, <2>2, <2>3, <2>4, <2>5, <2>6, <2>7, <2>8, <2>9 DEF Inside
<1>4. CASE UNCHANGED vars
  BY <1>4 DEF vars, IInv, TypeOK, OneInitializes, HeaderReady, Cleared, CasNotFull, EmptyHanded,
              FreeingApart, BitmapExact, Initializes, Frees, Used, Freeing
<1> QED BY <1>1, <1>2, <1>3, <1>4 DEF Next

\* The invariant holds throughout.
LEMMA Invariant == Spec => []IInv
  BY InitInv, NextInv, PTL DEF Spec

-----------------------------------------------------------------------------
\* The variables of the slab resource keep their types: in particular no hart
\* computes a slab or a bitmap outside the buffer.
THEOREM SlabTypeCorrect == Spec => []TypeOK
<1>1. IInv => TypeOK
  BY DEF IInv
<1> QED BY <1>1, Invariant, PTL

\* However harts race in allocate, deallocate and the lazy initialization, a
\* bit is 1 exactly while its slab is held or being freed.
THEOREM BitmapsAccount == Spec => []BitmapExact
<1>1. IInv => BitmapExact
  BY DEF IInv
<1> QED BY <1>1, Invariant, PTL

\* allocate hands out only slabs that are in nobody's hands.
THEOREM SlabsExclusive == Spec => Exclusive
<1> DEFINE A == \A h \in Hart :
                  pc[h] = "cas" /\ pc'[h] = "return" /\ slab'[h] # NoSlab =>
                    slab'[h] \in Slab \ (live \cup Freeing)
<1>1. IInv /\ [Next]_vars => [A]_vars
  <2> SUFFICES ASSUME IInv, Next, NEW h \in Hart,
                      pc[h] = "cas", pc'[h] = "return", slab'[h] # NoSlab
               PROVE  slab'[h] \in Slab \ (live \cup Freeing)
    OBVIOUS
  <2>1. allocateCas(h)
    <3>1. PICK g \in Hart :
            \/ \E f \in BOOLEAN : allocate(g, f)
            \/ \E s \in live : deallocate(g, s)
            \/ Inside(g)
      BY DEF Next
    <3>2. \E l : pc' = [pc EXCEPT ![g] = l]
      BY <3>1 DEF Inside, allocate, deallocate, initializeControlSlabs, clearBitmap, lastBitmap,
                  spin, loadBitmap, allocateCas, return, freeLoad, freeCas, Goto, Leave,
                  TryNext, nextBitmap, IInv, TypeOK
    <3>3. g = h
      BY <3>2 DEF IInv, TypeOK
    <3> QED
      BY <3>1, <3>3 DEF Inside, allocate, deallocate, initializeControlSlabs, clearBitmap,
                        lastBitmap, spin, loadBitmap, return, freeLoad, freeCas
  <2>2. bitmap[index[h]] = expected[h]
    BY <2>1 DEF allocateCas, IInv, EmptyHanded, Frees
  <2>3. slab'[h] = SlabAt(index[h], FirstFree(expected[h]))
    BY <2>1, <2>2 DEF allocateCas, IInv, TypeOK
  <2> QED BY <2>2, <2>3, FreeSlab
<1> QED BY <1>1, Invariant, PTL DEF Spec, Exclusive

-----------------------------------------------------------------------------
(***************************************************************************)
(* Capacity.  The slabs that were free all the time are before the scan,   *)
(* never behind it: a bitmap that the hart found full had none of them.    *)
(***************************************************************************)
Spare(h) ==
  /\ spare[h] \cap (live \cup Freeing) = {}
  /\ pc[h] \in {"load", "cas"} => \A s \in spare[h] : BitmapOf(s) >= index[h]
  /\ pc[h] = "return" /\ slab[h] = NoSlab /\ fits[h] => spare[h] = {}

SpareInv == \A h \in Hart : Spare(h)

\* A step that gives the program no slab concerns nobody but the hart that takes it.
LEMMA OthersSpare ==
  ASSUME SpareInv, NEW h \in Hart, live' \cup Freeing' \subseteq live \cup Freeing, Spare(h)',
         \A g \in Hart \ {h} :
           /\ pc'[g] = pc[g] /\ index'[g] = index[g] /\ slab'[g] = slab[g]
           /\ fits'[g] = fits[g] /\ spare'[g] = spare[g]
  PROVE  SpareInv'
<1> SUFFICES ASSUME NEW g \in Hart \ {h} PROVE Spare(g)'
  BY DEF SpareInv
<1> QED BY DEF SpareInv, Spare, BitmapOf

\* Going on from bitmap b, which the hart has just read, leaves no such slab behind.
LEMMA TryNextSpare ==
  ASSUME IInv, SpareInv, NEW h \in Hart, pc[h] \in {"load", "cas"},
         TryNext(h, bitmap[index[h]]),
         UNCHANGED <<fits, initState, bitmap, slab, live, spare>>
  PROVE  SpareInv'
<1> DEFINE b == bitmap[index[h]]
<1>0. /\ index[h] \in Index /\ initState = "Initialized" /\ spare[h] \subseteq Slab
      /\ DOMAIN pc = Hart /\ DOMAIN index = Hart
  BY DEF IInv, TypeOK, HeaderReady
<1>1. Index \subseteq Nat /\ NumBitmaps \in Nat \ {0} /\ index[h] \in Nat
  BY <1>0, BitmapsCover DEF Index
<1>2. \A s \in spare[h] : BitmapOf(s) \in Index /\ BitmapOf(s) >= index[h]
  BY <1>0, Addressing DEF SpareInv, Spare
<1>3. ASSUME b = Full, NEW s \in spare[h] PROVE BitmapOf(s) >= index[h] + 1
  <2>1. s \in Slab /\ s \notin Used
    BY <1>0, <1>3 DEF SpareInv, Spare, IInv, BitmapExact
  <2>2. RankOf(s) \in Bit
    BY <2>1, Addressing
  <2>3. BitmapOf(s) # index[h]
    BY <1>3, <2>1, <2>2 DEF Used, Full
  <2>4. BitmapOf(s) \in Nat /\ BitmapOf(s) >= index[h]
    BY <1>1, <1>2
  <2> QED BY <1>1, <2>3, <2>4
<1>4. index[h] + 1 < NumBitmaps \/ \A i \in Index : ~(i >= index[h] + 1)
  BY <1>0, <1>1 DEF Index
<1> HIDE DEF b
<1>5. /\ \A g \in Hart \ {h} : pc'[g] = pc[g] /\ index'[g] = index[g]
      /\ \/ b = Full /\ pc'[h] = "load" /\ index'[h] = index[h] + 1
         \/ b = Full /\ pc'[h] = "return" /\ ~(index[h] + 1 < NumBitmaps)
         \/ pc'[h] = "cas" /\ index'[h] = index[h]
  <2>1. \/ /\ b = Full /\ pc' = [pc EXCEPT ![h] = "load"]
           /\ index' = [index EXCEPT ![h] = index[h] + 1]
        \/ b = Full /\ ~(index[h] + 1 < NumBitmaps) /\ pc' = [pc EXCEPT ![h] = "return"] /\ index' = index
        \/ pc' = [pc EXCEPT ![h] = "cas"] /\ index' = index
    BY DEF TryNext, nextBitmap, Goto, b
  <2> QED BY <1>0, <2>1
<1>6. Freeing' = Freeing
  <2>1. pc'[h] \notin {"freeLoad", "freeCas"} /\ ~Frees(h)
    BY <1>5 DEF Frees
  <2> QED BY <1>5, <2>1, FreeingKept DEF IInv
<1>7. Spare(h)'
  <2>1. spare'[h] = spare[h] /\ live' = live
    OBVIOUS
  <2>2. pc'[h] \in {"load", "cas"} => \A s \in spare[h] : BitmapOf(s) >= index'[h]
    BY <1>2, <1>3, <1>5
  <2>3. pc'[h] = "return" => spare[h] = {}
    BY <1>2, <1>3, <1>4, <1>5
  <2> QED BY <1>6, <2>1, <2>2, <2>3 DEF SpareInv, Spare, BitmapOf
<1> QED BY <1>5, <1>6, <1>7, OthersSpare

\* Every step keeps it: one case per action.
LEMMA NextSpare == IInv /\ SpareInv /\ [Next]_vars => SpareInv'
<1> SUFFICES ASSUME IInv, SpareInv, [Next]_vars PROVE SpareInv'
  OBVIOUS
<1>0. \A s \in Slab : BitmapOf(s) >= 0
  BY Addressing, BitmapsCover DEF Index
<1>1. ASSUME NEW h \in Hart, NEW f \in BOOLEAN, allocate(h, f) PROVE SpareInv'
  <2>1. /\ index'[h] = 0 /\ (pc'[h] = "return" => ~fits'[h]) /\ live' = live /\ Freeing' = Freeing
        /\ spare'[h] = Slab \ (live \cup Freeing)
    <3>1. Freeing' = Freeing
      BY <1>1, FreeingKept DEF allocate, Goto, Scan, IInv, TypeOK, Frees
    <3> QED BY <1>1, <3>1 DEF allocate, Goto, Scan, IInv, TypeOK, Cleared
  <2>2. Spare(h)'
    BY <1>0, <2>1 DEF Spare, BitmapOf
  <2> QED BY <1>1, <2>1, <2>2, OthersSpare DEF allocate, Goto, IInv, TypeOK
<1>2. ASSUME NEW h \in Hart, NEW s \in live, deallocate(h, s) PROVE SpareInv'
  <2>1. live' \cup Freeing' \subseteq live \cup Freeing
    BY <1>2 DEF deallocate, Goto, IInv, TypeOK, Freeing
  <2>2. Spare(h)'
    BY <1>2, <2>1 DEF deallocate, Goto, IInv, TypeOK, SpareInv, Spare
  <2> QED BY <1>2, <2>1, <2>2, OthersSpare DEF deallocate, Goto, IInv, TypeOK
<1>3. ASSUME NEW h \in Hart, Inside(h) PROVE SpareInv'
  <2>1. CASE initializeControlSlabs(h) \/ clearBitmap(h)
    <3>1. Freeing' = Freeing /\ live' = live
      BY <2>1, FreeingKept DEF initializeControlSlabs, clearBitmap, Goto, IInv, TypeOK, Frees
    <3>2. Spare(h)'
      BY <2>1, <3>1 DEF initializeControlSlabs, clearBitmap, Goto, IInv, TypeOK, SpareInv, Spare
    <3> QED BY <2>1, <3>1, <3>2, OthersSpare
            DEF initializeControlSlabs, clearBitmap, Goto, IInv, TypeOK
  <2>2. CASE lastBitmap(h) \/ spin(h)
    <3>1. /\ index'[h] = 0 /\ spare'[h] = spare[h] /\ spare[h] \subseteq Slab /\ live' = live
          /\ (pc'[h] = "return" => ~fits'[h])
      BY <2>2 DEF lastBitmap, spin, Goto, Scan, IInv, TypeOK, Cleared
    <3>2. Freeing' = Freeing
      BY <2>2, FreeingKept DEF lastBitmap, spin, Goto, Scan, IInv, TypeOK, Frees
    <3>3. Spare(h)'
      BY <1>0, <3>1, <3>2 DEF SpareInv, Spare, BitmapOf
    <3> QED BY <2>2, <3>2, <3>3, OthersSpare DEF lastBitmap, spin, Goto, IInv, TypeOK
  <2>3. CASE loadBitmap(h)
    BY <2>3, TryNextSpare DEF loadBitmap
  <2>4. CASE allocateCas(h)
    <3> DEFINE s == SlabAt(index[h], FirstFree(expected[h]))
    <3>1. CASE bitmap[index[h]] # expected[h]
      BY <2>4, <3>1, TryNextSpare DEF allocateCas
    <3>2. CASE bitmap[index[h]] = expected[h]
      <4>1. /\ pc[h] = "cas" /\ pc' = [pc EXCEPT ![h] = "return"] /\ slab' = [slab EXCEPT ![h] = s]
            /\ live' = live \cup {s} /\ spare' = [g \in Hart |-> spare[g] \ {s}]
            /\ UNCHANGED <<index, fits>>
        BY <2>4, <3>2 DEF allocateCas, Goto, Without
      <4>2. s \in Slab /\ NoSlab \notin Slab
        BY <3>2, <4>1, FreeSlab, UserSlabsExist DEF NoSlab, Slab
      <4> HIDE DEF s
      <4>3. Freeing' = Freeing
        BY <4>1 DEF Freeing, IInv, TypeOK
      <4> SUFFICES ASSUME NEW g \in Hart PROVE Spare(g)'
        BY DEF SpareInv
      <4>4. Spare(g) /\ spare'[g] = spare[g] \ {s}
        BY <4>1 DEF SpareInv
      <4>5. CASE g = h
        BY <4>1, <4>2, <4>3, <4>4, <4>5 DEF Spare, IInv, TypeOK, BitmapOf
      <4>6. CASE g # h
        BY <4>1, <4>3, <4>4, <4>6 DEF Spare, IInv, TypeOK, BitmapOf
      <4> QED BY <4>5, <4>6
    <3> QED BY <3>1, <3>2
  <2>5. CASE return(h)
    <3>1. Freeing' = Freeing /\ live' = live
      BY <2>5 DEF return, Leave, Goto, IInv, TypeOK, Freeing
    <3>2. Spare(h)'
      BY <2>5 DEF return, Leave, Goto, IInv, TypeOK, Spare
    <3> QED BY <2>5, <3>1, <3>2, OthersSpare DEF return, Leave, Goto, IInv, TypeOK
  <2>6. CASE freeLoad(h) \/ freeCas(h)
    <3>1. live' = live /\ Freeing' \subseteq Freeing
      BY <2>6 DEF freeLoad, freeCas, Leave, Goto, IInv, TypeOK, Freeing
    <3>2. Spare(h)'
      BY <2>6, <3>1 DEF freeLoad, freeCas, Leave, Goto, IInv, TypeOK, SpareInv, Spare
    <3> QED BY <2>6, <3>1, <3>2, OthersSpare DEF freeLoad, freeCas, Leave, Goto, IInv, TypeOK
  <2> QED BY <1>3, <2>1, <2>2, <2>3, <2>4, <2>5, <2>6 DEF Inside
<1>4. CASE UNCHANGED vars
  BY <1>4 DEF vars, SpareInv, Spare, Freeing, BitmapOf
<1> QED BY <1>1, <1>2, <1>3, <1>4 DEF Next

\* Whatever other harts take and free meanwhile, allocate fails only if there was
\* no slab that was free throughout the call.
THEOREM CapacityUsable == Spec => []FailsOnlyWhenFull
<1>1. Init => SpareInv
  BY DEF Init, SpareInv, Spare
<1>2. SpareInv => FailsOnlyWhenFull
  BY DEF SpareInv, Spare, FailsOnlyWhenFull
<1> QED BY <1>1, <1>2, Invariant, NextSpare, PTL DEF Spec
=============================================================================
