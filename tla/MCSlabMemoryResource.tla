------------------------- MODULE MCSlabMemoryResource -------------------------
(***************************************************************************)
(* Five slabs with bitmaps of two bits give three user slabs and two       *)
(* bitmaps, the second of which has a bit without a slab.                  *)
(***************************************************************************)
EXTENDS SlabMemoryResource
=============================================================================
