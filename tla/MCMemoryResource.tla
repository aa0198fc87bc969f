--------------------------- MODULE MCMemoryResource ---------------------------
(***************************************************************************)
(* Two slab resources, of one and of two words, with bitmaps of two bits.  *)
(***************************************************************************)
EXTENDS MemoryResource, TLC

TwoPools == <<1, 2>>
\* Three user slabs in the first, the last bitmap half used; one in the second.
SmallPools == <<5, 2>>
\* Two user slabs in the first, one in the second.
FewUserSlabs == <<4, 2>>

HartSymmetry == Permutations(Hart)
=============================================================================
