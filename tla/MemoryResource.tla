---------------------------- MODULE MemoryResource ----------------------------
(***************************************************************************)
(* The memory resource of a node (MainMemoryResource, L2SPResource): slab  *)
(* resources of growing slab size, a bump resource and a free list, laid   *)
(* out one after the other in one buffer.                                  *)
(*                                                                         *)
(* A request goes to the slabs it fits in, then to the bump resource, then *)
(* to the free list, which keeps freed bump blocks.  deallocate finds out  *)
(* from the pointer and the size who owns the block.                       *)
(*                                                                         *)
(* Addresses and sizes are in words of 8 bytes.  The compare-exchange loop *)
(* on one bitmap is a single step here (SlabMemoryResource shows that it   *)
(* takes effect at once), and so is one call on the bump resource or the   *)
(* free list, which hold an InplaceMutex throughout.                       *)
(***************************************************************************)
EXTENDS SlabLayout, FiniteSets, Sequences, SequencesExt

CONSTANTS
  Hart,
  SlabWords,    \* the slab size of each slab resource, growing
  TotalSlabs,   \* its number of slabs, without the lock slab
  BitmapBits,   \* bits of a bitmap, which is one word: 64 in the code
  WordBytes,    \* sizeof(BitmapType) in bytes: 8
  BumpWords,    \* capacity of the bump resource
  MinBump,      \* minimumBumpAllocation: the size of a FreeListNode
  Alignment,    \* alignof(MaxAlignT)
  Request,      \* the sizes the program asks for
  Freed,        \* the sizes of the blocks that it gives back
  MaxLive       \* the most blocks it holds, asks for or gives back at a time

Pool == 1 .. Len(SlabWords)

ASSUME ResourceAssumption ==
  /\ SlabWords \in Seq(Nat \ {0}) /\ Len(SlabWords) > 0
  /\ \A j, k \in Pool : j <= k => SlabWords[j] <= SlabWords[k]
  /\ TotalSlabs \in [Pool -> Nat \ {0, 1}]
  /\ {BitmapBits, WordBytes} \subseteq Nat \ {0, 1}
  /\ {MinBump, Alignment} \subseteq Nat \ {0}
  /\ BumpWords \in Nat /\ MaxLive \in Nat /\ Request \subseteq Nat \ {0}
  /\ Freed \subseteq Request

(***************************************************************************)
(* The layout.  Each slab resource starts with a slab for its lock; then   *)
(* come m_buffer, that is the bitmaps, and the user region.                *)
(***************************************************************************)
User(k) == UserSlabs(TotalSlabs[k], BitmapBits, SlabWords[k])
Header(k) == BitmapSlabs(TotalSlabs[k], BitmapBits, SlabWords[k]) * SlabWords[k]
Capacity(k) == User(k) * SlabWords[k]

\* align: the first multiple of alignment from address a on.
AlignUp(alignment, a) == ((a + alignment - 1) \div alignment) * alignment

\* The buffer starts at 0; each slab resource is aligned to its slab size.
Start[k \in 1 .. Len(SlabWords)] ==
  IF k = 1 THEN 0
  ELSE AlignUp(SlabWords[k],
               Start[k - 1] + (TotalSlabs[k - 1] + 1) * SlabWords[k - 1])
End(k) == Start[k] + (TotalSlabs[k] + 1) * SlabWords[k]

Buffer(k) == Start[k] + SlabWords[k]
RegionStart(k) == Buffer(k) + Header(k)

\* Behind the slabs: mutex and sentinel of the free list, then offset and
\* mutex of the bump resource.
FreeListStart == AlignUp(Alignment, End(Len(SlabWords)))
BumpBase == AlignUp(Alignment, FreeListStart + MinBump + 1) + 2

\* The slab whose address is p: its index as deallocate computes it.
SlabIndex(k, p) == (p - RegionStart(k)) \div SlabWords[k]

\* The bits allocate looks at.
NumBitmaps(k) == Bitmaps(TotalSlabs[k], BitmapBits, SlabWords[k])
Bits(k) == 0 .. NumBitmaps(k) * BitmapBits - 1

\* The bits without a slab, which are set for ever.
Padding(k) == Bits(k) \ (0 .. User(k) - 1)

Words(b) == b.at .. b.at + b.size - 1

VARIABLES
  used,      \* per slab resource, the bits that are 1
  offset,    \* m_curOffset of the bump resource
  freeList,  \* the blocks of the free list, from the head
  live,      \* the blocks the program holds, with the size it asked for
  carved,    \* history: the blocks cut off by the bump resource
  pc,        \* where each hart is
  arg,       \* the block it was given or frees; its size, while it has none
  pool,      \* the slab resource it tries
  word,      \* the bitmap of it that it looks at
  displaced, \* history: a block was freed that its size does not tell the place of
  wild       \* the words outside a header in which a bit was cleared

vars == <<used, offset, freeList, live, carved, pc, arg, pool, word, displaced, wild>>

NoAddress == -1
NoBlock == [at |-> NoAddress, size |-> 0]

Init ==
  /\ used = [k \in Pool |-> Padding(k)]
  /\ offset = 0
  /\ freeList = <<>>
  /\ live = {}
  /\ carved = {}
  /\ pc = [h \in Hart |-> "idle"]
  /\ arg = [h \in Hart |-> NoBlock]
  /\ pool = [h \in Hart |-> 1]
  /\ word = [h \in Hart |-> 0]
  /\ displaced = FALSE
  /\ wild = {}

\* Requests served by the bump resource or the free list are rounded up.
Rounded(n) == IF n < MinBump THEN MinBump ELSE n

\* The slab resources chainedTryAllocate and chainedTryDeallocate go through.
Chain(n) == {k \in Pool : n <= SlabWords[k]}

First(S) == CHOOSE k \in S : \A j \in S : k <= j

-----------------------------------------------------------------------------
allocate(h, n) ==
  /\ pc[h] = "idle"
  /\ Cardinality(live) + Cardinality({g \in Hart : pc[g] # "idle"}) < MaxLive
  /\ arg' = [arg EXCEPT ![h] = [at |-> NoAddress, size |-> n]]
  /\ IF Chain(n) = {}
     THEN pc' = [pc EXCEPT ![h] = "bump"] /\ UNCHANGED pool
     ELSE /\ pc' = [pc EXCEPT ![h] = "slab"]
          /\ pool' = [pool EXCEPT ![h] = First(Chain(n))]
  /\ UNCHANGED <<used, offset, freeList, live, carved, word, displaced, wild>>

\* The call will return a block at p.
Give(h, p) ==
  /\ arg' = [arg EXCEPT ![h].at = p]
  /\ live' = live \cup {[at |-> p, size |-> arg[h].size]}
  /\ pc' = [pc EXCEPT ![h] = "return"]

\* The call is over, and so are its local variables.
return(h) ==
  /\ pc[h] = "return"
  /\ pc' = [pc EXCEPT ![h] = "idle"]
  /\ arg' = [arg EXCEPT ![h] = NoBlock]
  /\ pool' = [pool EXCEPT ![h] = 1]
  /\ word' = [word EXCEPT ![h] = 0]
  /\ UNCHANGED <<used, offset, freeList, live, carved, displaced, wild>>

(***************************************************************************)
(* chainedTryAllocate.  A slab resource is scanned bitmap by bitmap: the   *)
(* first free slab of the bitmap is taken; a full bitmap sends the hart to *)
(* the next one, for good, and the last one to the next slab resource,     *)
(* after which comes the bump resource.                                    *)
(***************************************************************************)
slabAllocate(h) ==
  LET k == pool[h]
      free == {s \in Bits(k) \ used[k] : s \div BitmapBits = word[h]}
  IN  /\ pc[h] = "slab"
      /\ \/ /\ free # {}
            /\ used' = [used EXCEPT ![k] = @ \cup {First(free)}]
            /\ Give(h, RegionStart(k) + First(free) * SlabWords[k])
            /\ UNCHANGED <<pool, word>>
         \/ /\ free = {} /\ word[h] + 1 < NumBitmaps(k)
            /\ word' = [word EXCEPT ![h] = @ + 1]
            /\ UNCHANGED <<used, arg, live, pc, pool>>
         \/ /\ free = {} /\ word[h] + 1 = NumBitmaps(k)
            /\ IF k + 1 \in Pool
               THEN pool' = [pool EXCEPT ![h] = k + 1] /\ UNCHANGED pc
               ELSE pc' = [pc EXCEPT ![h] = "bump"] /\ UNCHANGED pool
            /\ word' = [word EXCEPT ![h] = 0]
            /\ UNCHANGED <<used, arg, live>>
      /\ UNCHANGED <<offset, freeList, carved, displaced, wild>>

\* Mutant: the alignment gap is not added to the offset.
MutantBump(h) ==
  LET n == Rounded(arg[h].size)
      at == AlignUp(Alignment, BumpBase + offset)
  IN  /\ pc[h] = "bump"
      /\ IF at + n <= BumpBase + BumpWords
         THEN /\ offset' = offset + n
              /\ carved' = carved \cup {[at |-> at, size |-> n]}
              /\ Give(h, at)
         ELSE /\ pc' = [pc EXCEPT ![h] = "freeList"]
              /\ UNCHANGED <<offset, carved, arg, live>>
      /\ UNCHANGED <<used, freeList, pool, word, displaced, wild>>

\* Mutant: the capacity is not checked.
MutantBumpUnbounded(h) ==
  LET n == Rounded(arg[h].size)
      at == AlignUp(Alignment, BumpBase + offset)
  IN  /\ pc[h] = "bump"
      /\ offset' = at + n - BumpBase
      /\ carved' = carved \cup {[at |-> at, size |-> n]}
      /\ Give(h, at)
      /\ UNCHANGED <<used, freeList, pool, word, displaced, wild>>

bumpAllocate(h) ==
  LET n == Rounded(arg[h].size)
      at == AlignUp(Alignment, BumpBase + offset)
  IN  /\ pc[h] = "bump"
      /\ IF at + n <= BumpBase + BumpWords
         THEN /\ offset' = at + n - BumpBase
              /\ carved' = carved \cup {[at |-> at, size |-> n]}
              /\ Give(h, at)
         ELSE /\ pc' = [pc EXCEPT ![h] = "freeList"]
              /\ UNCHANGED <<offset, carved, arg, live>>
      /\ UNCHANGED <<used, freeList, pool, word, displaced, wild>>

(***************************************************************************)
(* Of the blocks that are large enough, the first among the smallest.  The *)
(* block is handed out whole.                                              *)
(***************************************************************************)
Fitting(n) == {i \in DOMAIN freeList : freeList[i].size >= n}

findBestMatchingBlock(n) ==
  CHOOSE i \in Fitting(n) :
    \A j \in Fitting(n) :
      \/ freeList[i].size < freeList[j].size
      \/ freeList[i].size = freeList[j].size /\ i <= j

freeListAllocate(h) ==
  LET n == Rounded(arg[h].size)
  IN  /\ pc[h] = "freeList"
      /\ IF Fitting(n) = {}
         THEN /\ pc' = [pc EXCEPT ![h] = "return"]
              /\ UNCHANGED <<freeList, arg, live>>
         ELSE /\ freeList' = RemoveAt(freeList, findBestMatchingBlock(n))
              /\ Give(h, freeList[findBestMatchingBlock(n)].at)
      /\ UNCHANGED <<used, offset, carved, pool, word, displaced, wild>>

-----------------------------------------------------------------------------
InPool(k, b) ==
  /\ b.at >= RegionStart(k)
  /\ b.at + b.size <= RegionStart(k) + Capacity(k)

\* b did not fit in the first slab resource for its size when it was allocated.
Displaced(b) == Chain(b.size) # {} /\ ~InPool(First(Chain(b.size)), b)

deallocate(h, b) ==
  /\ pc[h] = "idle"
  /\ b \in live /\ b.size \in Freed
  /\ \A g \in Hart : pc[g] = "return" => arg[g] # b      \* allocate has returned it
  /\ live' = live \ {b}
  /\ arg' = [arg EXCEPT ![h] = b]
  /\ pc' = [pc EXCEPT ![h] = IF Chain(b.size) = {} THEN "register" ELSE "free"]
  /\ displaced' = (displaced \/ Displaced(b))
  /\ UNCHANGED <<used, offset, freeList, carved, pool, word, wild>>

(***************************************************************************)
(* m_buffer points to words of WordBytes bytes and m_capacity is in bytes: *)
(* the end that pointerIsOwned computes is WordBytes times too far.        *)
(***************************************************************************)
pointerIsOwned(k, p) ==
  /\ p >= Buffer(k)
  /\ p < Buffer(k) + Capacity(k) * WordBytes

\* Mutant: every slab resource is asked, whatever the size.
MutantClaims(b) == {k \in Pool : pointerIsOwned(k, b.at)}

\* The slab resources asked that claim the pointer.
Claims(b) == {k \in Chain(b.size) : pointerIsOwned(k, b.at)}

\* SlabMemoryResource::deallocate clears the bit it computes for p, in a
\* bitmap if there is one for it, else in whatever the memory holds there.
slabDeallocate(k, p) ==
  LET s == SlabIndex(k, p)
      i == s \div BitmapBits
  IN  /\ used' = [used EXCEPT ![k] = @ \ {s}]
      /\ wild' = IF i < Header(k) THEN wild ELSE wild \cup {Buffer(k) + i}

\* chainedTryDeallocate: the first slab resource that claims the pointer;
\* if none does, the last one's deallocate returns at once.
freeSlab(h) ==
  /\ pc[h] = "free"
  /\ \/ Claims(arg[h]) # {} /\ slabDeallocate(First(Claims(arg[h])), arg[h].at)
     \/ Claims(arg[h]) = {} /\ UNCHANGED <<used, wild>>
  /\ pc' = [pc EXCEPT ![h] = "register"]
  /\ UNCHANGED <<offset, freeList, live, carved, arg, pool, word, displaced>>

BumpOwns(p) == p >= BumpBase /\ p < BumpBase + BumpWords

\* Mutant: a freed bump block is forgotten.
MutantRegister(h) ==
  /\ pc[h] = "register"
  /\ pc' = [pc EXCEPT ![h] = "idle"]
  /\ arg' = [arg EXCEPT ![h] = NoBlock]
  /\ UNCHANGED <<used, offset, freeList, live, carved, pool, word, displaced, wild>>

\* The block joins the free list with the size given to deallocate, which ends.
registerFreedBlock(h) ==
  /\ pc[h] = "register"
  /\ freeList' = IF BumpOwns(arg[h].at)
                 THEN <<[at |-> arg[h].at, size |-> Rounded(arg[h].size)]>> \o freeList
                 ELSE freeList
  /\ pc' = [pc EXCEPT ![h] = "idle"]
  /\ arg' = [arg EXCEPT ![h] = NoBlock]
  /\ UNCHANGED <<used, offset, live, carved, pool, word, displaced, wild>>

Next ==
  \E h \in Hart :
    \/ \E n \in Request : allocate(h, n)
    \/ slabAllocate(h)
    \/ bumpAllocate(h)
    \/ freeListAllocate(h)
    \/ return(h)
    \/ \E b \in live : deallocate(h, b)
    \/ freeSlab(h)
    \/ registerFreedBlock(h)

Spec == Init /\ [][Next]_vars

-----------------------------------------------------------------------------
\* The blocks on their way back, while their memory is not yet free.
Returning ==
  {arg[h] : h \in {g \in Hart : \/ pc[g] = "free"
                                \/ pc[g] = "register" /\ BumpOwns(arg[g].at)}}

TypeOK ==
  /\ \A k \in Pool : used[k] \subseteq Bits(k)
  /\ offset \in 0 .. BumpWords
  /\ \A i \in DOMAIN freeList : freeList[i].at \in Nat /\ freeList[i].size >= MinBump
  /\ \A b \in live : b.at \in Nat /\ b.size \in Request
  /\ pc \in [Hart -> {"idle", "slab", "bump", "freeList", "free", "register", "return"}]
  /\ pool \in [Hart -> Pool]
  /\ \A h \in Hart : word[h] \in 0 .. NumBitmaps(pool[h]) - 1
  /\ wild \subseteq Nat

\* A block handed out lies inside the user region of a slab resource or in
\* the bump resource's memory, and overlaps no block that the program
\* holds, that is on its way back or that stays in the free list, unless the
\* program has freed a displaced block, which may have cleared a bit without
\* a slab.
HandsOutFreeMemory ==
  [][\A h \in Hart :
       ~displaced /\ pc[h] \in {"slab", "bump", "freeList"} /\ arg'[h] # arg[h] =>
         LET b == arg'[h]
         IN  /\ \/ \E k \in Pool : InPool(k, b)
                \/ BumpOwns(b.at) /\ BumpOwns(b.at + b.size - 1)
             /\ \A c \in live \cup Returning : Words(b) \cap Words(c) = {}
             /\ \A i \in DOMAIN freeList' : Words(b) \cap Words(freeList'[i]) = {}
    ]_vars

\* A bit is cleared only in a header: deallocate never writes to a bitmap
\* that does not exist, unless the program has freed a displaced block.
NoWildWrite == displaced \/ wild = {}

\* No block is lost: a slab is marked exactly while the program holds it or
\* is giving it back, and a bump block is held, on its way back or in the
\* free list.  A slab is lost only if the program has freed a displaced block.
NoBlockLost ==
  /\ \A k \in Pool :
       displaced \/ used[k] = Padding(k) \cup {SlabIndex(k, b.at) : b \in {c \in live \cup Returning : InPool(k, c)}}
  /\ \A c \in carved :
       \/ \E b \in live \cup Returning : b.at = c.at
       \/ \E i \in DOMAIN freeList : freeList[i].at = c.at

\* pointerIsOwned is true only for pointers of the resource's own memory.
OwnsWhatItClaims ==
  \A h \in Hart : pc[h] = "free" => \A k \in Claims(arg[h]) : InPool(k, arg[h])
=============================================================================
