-------------------------- MODULE SlabMemoryResource --------------------------
(***************************************************************************)
(* The slab allocator of the PANDO runtime: a header of bitmaps, one bit   *)
(* per slab, and the slabs.  Harts allocate and free slabs concurrently by *)
(* compare-exchange on a bitmap, without a lock; the first allocation      *)
(* writes the header while later ones wait for it.                         *)
(*                                                                         *)
(* A bitmap is the set of its bits that are 1.  Slab s is managed by bit   *)
(* s % BitmapBits of bitmap s \div BitmapBits.                             *)
(***************************************************************************)
EXTENDS SlabLayout

CONSTANTS
  Hart,            \* the harts of the node
  TotalSlabs,      \* slabs of the buffer, without the lock slab
  BitmapBits,      \* bits of a BitmapType, 64 in the code
  BitmapsPerSlab   \* slabSize / sizeof(BitmapType)

\* The constructor aborts with fewer slabs.
ASSUME SizeAssumption ==
  /\ TotalSlabs \in Nat /\ TotalSlabs >= 2
  /\ BitmapBits \in Nat \ {0}
  /\ BitmapsPerSlab \in Nat \ {0}

NumUserSlabs == UserSlabs(TotalSlabs, BitmapBits, BitmapsPerSlab)
NumBitmaps == Bitmaps(TotalSlabs, BitmapBits, BitmapsPerSlab)

Slab == 0 .. NumUserSlabs - 1
Bit == 0 .. BitmapBits - 1
Index == 0 .. NumBitmaps - 1

\* The slab managed by bit r of bitmap i, and what deallocate makes of s.
SlabAt(i, r) == r + i * BitmapBits
BitmapOf(s) == s \div BitmapBits
RankOf(s) == s % BitmapBits

NoSlab == -1

VARIABLES
  initState,   \* the InitializationState
  bitmap,      \* the header
  pc,          \* where each hart is
  fits,        \* its request is not larger than a slab
  index,       \* the bitmap it looks at, and the one it clears
  expected,    \* the value it last saw there
  slab,        \* the slab it was given, or is freeing
  live,        \* the slabs the program has been given and has not freed
  spare        \* history: slabs nobody has had since the hart called allocate

vars == <<initState, bitmap, pc, fits, index, expected, slab, live, spare>>

PC == {"idle", "init", "clear", "last", "spin", "load", "cas", "return",
       "freeLoad", "freeCas"}

Init ==
  /\ initState = "Uninitialized"
  /\ bitmap \in [Index -> SUBSET Bit]      \* whatever the memory holds
  /\ pc = [h \in Hart |-> "idle"]
  /\ fits = [h \in Hart |-> FALSE]
  /\ index = [h \in Hart |-> 0]
  /\ expected = [h \in Hart |-> {}]
  /\ slab = [h \in Hart |-> NoSlab]
  /\ live = {}
  /\ spare = [h \in Hart |-> {}]

\* The slabs whose release has begun and has not taken effect.
Freeing == {slab[h] : h \in {g \in Hart : pc[g] \in {"freeLoad", "freeCas"}}}

Goto(h, l) == pc' = [pc EXCEPT ![h] = l]

\* The call is over, and so are its local variables.
Leave(h) ==
  /\ Goto(h, "idle")
  /\ fits' = [fits EXCEPT ![h] = FALSE]
  /\ index' = [index EXCEPT ![h] = 0]
  /\ expected' = [expected EXCEPT ![h] = {}]
  /\ slab' = [slab EXCEPT ![h] = NoSlab]
  /\ spare' = [spare EXCEPT ![h] = {}]

Full == Bit

-----------------------------------------------------------------------------
(***************************************************************************)
(* allocate.  A request larger than a slab only initializes the resource.  *)
(***************************************************************************)
Scan(f) == IF f THEN "load" ELSE "return"

allocate(h, f) ==
  /\ pc[h] = "idle"
  /\ Goto(h, IF initState = "Initialized" THEN Scan(f) ELSE "init")
  /\ fits' = [fits EXCEPT ![h] = f]
  /\ spare' = [spare EXCEPT ![h] = Slab \ (live \cup Freeing)]
  /\ UNCHANGED <<initState, bitmap, index, expected, slab, live>>

\* One hart wins the compare-exchange; the others wait.
initializeControlSlabs(h) ==
  /\ pc[h] = "init"
  /\ IF initState = "Uninitialized"
     THEN initState' = "InProgress" /\ Goto(h, "clear")
     ELSE Goto(h, "spin") /\ UNCHANGED initState
  /\ UNCHANGED <<fits, bitmap, index, expected, slab, live, spare>>

clearBitmap(h) ==
  /\ pc[h] = "clear"
  /\ bitmap' = [bitmap EXCEPT ![index[h]] = {}]
  /\ IF index[h] + 1 < NumBitmaps
     THEN index' = [index EXCEPT ![h] = @ + 1] /\ UNCHANGED pc
     ELSE index' = [index EXCEPT ![h] = 0] /\ Goto(h, "last")
  /\ UNCHANGED <<fits, initState, expected, slab, live, spare>>

LastUsableBits == NumUserSlabs % BitmapBits

\* Mutant: the unused bits of the last bitmap are left free.
MutantNoLastBitmap(h) ==
  /\ pc[h] = "last"
  /\ initState' = "Initialized"
  /\ Goto(h, Scan(fits[h]))
  /\ UNCHANGED <<fits, bitmap, index, expected, slab, live, spare>>

\* Mutant: the resource is never marked as initialized.
MutantNotReady(h) ==
  /\ pc[h] = "last"
  /\ bitmap' = IF LastUsableBits = 0 THEN bitmap
               ELSE [bitmap EXCEPT ![NumBitmaps - 1] = LastUsableBits .. BitmapBits - 1]
  /\ Goto(h, Scan(fits[h]))
  /\ UNCHANGED <<fits, initState, index, expected, slab, live, spare>>

(***************************************************************************)
(* The bits of the last bitmap that no slab corresponds to are set for     *)
(* ever; then the resource is initialized and the hart goes on.            *)
(***************************************************************************)
lastBitmap(h) ==
  /\ pc[h] = "last"
  /\ bitmap' = IF LastUsableBits = 0 THEN bitmap
               ELSE [bitmap EXCEPT ![NumBitmaps - 1] = LastUsableBits .. BitmapBits - 1]
  /\ initState' = "Initialized"
  /\ Goto(h, Scan(fits[h]))
  /\ UNCHANGED <<fits, index, expected, slab, live, spare>>

spin(h) ==
  /\ pc[h] = "spin"
  /\ initState = "Initialized"
  /\ Goto(h, Scan(fits[h]))
  /\ UNCHANGED <<fits, initState, bitmap, index, expected, slab, live, spare>>

\* A full bitmap sends the hart to the next one; after the last, no slab.
nextBitmap(h) ==
  IF index[h] + 1 < NumBitmaps
  THEN Goto(h, "load") /\ index' = [index EXCEPT ![h] = @ + 1]
  ELSE Goto(h, "return") /\ UNCHANGED index

TryNext(h, b) ==
  /\ expected' = [expected EXCEPT ![h] = b]
  /\ IF b = Full THEN nextBitmap(h) ELSE Goto(h, "cas") /\ UNCHANGED index

loadBitmap(h) ==
  /\ pc[h] = "load"
  /\ TryNext(h, bitmap[index[h]])
  /\ UNCHANGED <<fits, initState, bitmap, slab, live, spare>>

\* Slab s has been held, whoever looks for one.
Without(s) == [g \in Hart |-> spare[g] \ {s}]

\* __builtin_ffsll(~expected) - 1
FirstFree(b) == CHOOSE r \in Bit \ b : \A q \in Bit \ b : r <= q

\* Mutant: the new value is stored without comparing.
MutantStoreNotCas(h) ==
  LET i == index[h]
      r == FirstFree(expected[h])
  IN  /\ pc[h] = "cas"
      /\ bitmap' = [bitmap EXCEPT ![i] = expected[h] \cup {r}]
      /\ slab' = [slab EXCEPT ![h] = SlabAt(i, r)]
      /\ live' = live \cup {SlabAt(i, r)}
      /\ spare' = Without(SlabAt(i, r))
      /\ Goto(h, "return")
      /\ UNCHANGED <<fits, initState, index, expected>>

\* Mutant: after a failed compare-exchange the hart goes on to the next bitmap.
MutantCasGivesUp(h) ==
  LET i == index[h]
      r == FirstFree(expected[h])
  IN  /\ pc[h] = "cas"
      /\ \/ /\ bitmap[i] = expected[h]
            /\ bitmap' = [bitmap EXCEPT ![i] = @ \cup {r}]
            /\ slab' = [slab EXCEPT ![h] = SlabAt(i, r)]
            /\ live' = live \cup {SlabAt(i, r)}
            /\ spare' = Without(SlabAt(i, r))
            /\ Goto(h, "return")
            /\ UNCHANGED <<index, expected>>
         \/ /\ bitmap[i] # expected[h]
            /\ nextBitmap(h)
            /\ UNCHANGED <<bitmap, expected, slab, live, spare>>
      /\ UNCHANGED <<fits, initState>>

\* The compare-exchange, which on failure loads the bitmap again.
allocateCas(h) ==
  LET i == index[h]
      r == FirstFree(expected[h])
  IN  /\ pc[h] = "cas"
      /\ \/ /\ bitmap[i] = expected[h]
            /\ bitmap' = [bitmap EXCEPT ![i] = @ \cup {r}]
            /\ slab' = [slab EXCEPT ![h] = SlabAt(i, r)]
            /\ live' = live \cup {SlabAt(i, r)}
            /\ spare' = Without(SlabAt(i, r))
            /\ Goto(h, "return")
            /\ UNCHANGED <<index, expected>>
         \/ /\ bitmap[i] # expected[h]
            /\ TryNext(h, bitmap[i])
            /\ UNCHANGED <<bitmap, slab, live, spare>>
      /\ UNCHANGED <<fits, initState>>

\* allocate returns slab[h], or a null pointer.
return(h) ==
  /\ pc[h] = "return"
  /\ Leave(h)
  /\ UNCHANGED <<initState, bitmap, live>>

-----------------------------------------------------------------------------
(***************************************************************************)
(* deallocate, for a slab the program holds, by whichever hart, once       *)
(* allocate has returned it.                                               *)
(***************************************************************************)
deallocate(h, s) ==
  /\ pc[h] = "idle"
  /\ s \in live /\ \A g \in Hart : pc[g] = "return" => slab[g] # s
  /\ live' = live \ {s}
  /\ slab' = [slab EXCEPT ![h] = s]
  /\ index' = [index EXCEPT ![h] = BitmapOf(s)]
  /\ Goto(h, "freeLoad")
  /\ UNCHANGED <<fits, initState, bitmap, expected, spare>>

freeLoad(h) ==
  /\ pc[h] = "freeLoad"
  /\ expected' = [expected EXCEPT ![h] = bitmap[index[h]]]
  /\ Goto(h, "freeCas")
  /\ UNCHANGED <<fits, initState, bitmap, index, slab, live, spare>>

\* Mutant: the loop ends after one compare-exchange.
MutantFreeOnce(h) ==
  /\ pc[h] = "freeCas"
  /\ bitmap' = IF bitmap[index[h]] = expected[h]
               THEN [bitmap EXCEPT ![index[h]] = @ \ {RankOf(slab[h])}] ELSE bitmap
  /\ Leave(h)
  /\ UNCHANGED <<initState, live>>

freeCas(h) ==
  /\ pc[h] = "freeCas"
  /\ IF bitmap[index[h]] = expected[h]
     THEN /\ bitmap' = [bitmap EXCEPT ![index[h]] = @ \ {RankOf(slab[h])}]
          /\ Leave(h)
     ELSE /\ expected' = [expected EXCEPT ![h] = bitmap[index[h]]]
          /\ UNCHANGED <<bitmap, pc, fits, index, slab, spare>>
  /\ UNCHANGED <<initState, live>>

Inside(h) ==
  \/ initializeControlSlabs(h)
  \/ clearBitmap(h)
  \/ lastBitmap(h)
  \/ spin(h)
  \/ loadBitmap(h)
  \/ allocateCas(h)
  \/ return(h)
  \/ freeLoad(h)
  \/ freeCas(h)

Next ==
  \E h \in Hart :
    \/ \E f \in BOOLEAN : allocate(h, f)
    \/ \E s \in live : deallocate(h, s)
    \/ Inside(h)

Spec == Init /\ [][Next]_vars

\* Harts are threads of a fair scheduler.
FairSpec == Spec /\ \A h \in Hart : WF_vars(Inside(h))

-----------------------------------------------------------------------------
\* The slabs whose bit is 1.
Used == {s \in Slab : RankOf(s) \in bitmap[BitmapOf(s)]}

TypeOK ==
  /\ initState \in {"Uninitialized", "InProgress", "Initialized"}
  /\ bitmap \in [Index -> SUBSET Bit]
  /\ pc \in [Hart -> PC]
  /\ fits \in [Hart -> BOOLEAN]
  /\ index \in [Hart -> Index]
  /\ expected \in [Hart -> SUBSET Bit]
  /\ slab \in [Hart -> Slab \cup {NoSlab}]
  /\ live \subseteq Slab
  /\ spare \in [Hart -> SUBSET Slab]

\* Once the header is initialized a bit is 1 exactly while its slab is in
\* the program's hands or being freed, and bits without a slab stay 1: no
\* lost update of the compare-exchange loops leaks a slab or frees one in use.
BitmapExact ==
  /\ initState = "Initialized" =>
       /\ Used = live \cup Freeing
       /\ \A i \in Index, r \in Bit : SlabAt(i, r) \notin Slab => r \in bitmap[i]
  /\ initState # "Initialized" => live \cup Freeing = {}

\* allocate never hands out a slab that is in use: not one the program
\* holds, and not one whose release has not taken effect.
Exclusive ==
  [][\A h \in Hart :
       pc[h] = "cas" /\ pc'[h] = "return" /\ slab'[h] # NoSlab =>
         slab'[h] \in Slab \ (live \cup Freeing)]_vars

\* allocate fails only if every slab was held at some time during the call, by
\* the program or by a hart that had not finished to free it: although the scan
\* looks at each bitmap once (slab_memory_resource.hpp:142), and other harts take
\* and free slabs before and behind it, a slab that was free all the time is found.
FailsOnlyWhenFull ==
  \A h \in Hart : pc[h] = "return" /\ slab[h] = NoSlab /\ fits[h] => spare[h] = {}

\* The header is initialized once a hart has begun to, and a hart that
\* waits for it goes on.
InitializationEnds ==
  \A h \in Hart : pc[h] = "spin" ~> pc[h] # "spin"
=============================================================================
