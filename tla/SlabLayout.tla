------------------------------ MODULE SlabLayout ------------------------------
(***************************************************************************)
(* How the constructor of SlabMemoryResource divides total slabs (without  *)
(* the lock slab) into a header of bitmaps and user slabs, for bitmaps of  *)
(* bits bits of which a slab holds perSlab.                                *)
(***************************************************************************)
EXTENDS Integers

UserSlabs(total, bits, perSlab) ==
  (total * bits * perSlab) \div (bits * perSlab + 1)

BitmapSlabs(total, bits, perSlab) == total - UserSlabs(total, bits, perSlab)

\* nextMultipleOf returns how many multiples are needed.
nextMultipleOf(value, multiple) == (value + multiple - 1) \div multiple

Bitmaps(total, bits, perSlab) ==
  nextMultipleOf(UserSlabs(total, bits, perSlab), bits)
=============================================================================
