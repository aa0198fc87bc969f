SPECIFICATION Spec
CONSTANTS
  Hart = {h1, h2}
  SlabWords <- TwoPools
  TotalSlabs <- SmallPools
  BitmapBits = 2
  WordBytes = 8
  BumpWords = 12
  MinBump = 3
  Alignment = 2
  Request = {1, 2, 5}
  Freed = {1, 2, 5}
  MaxLive = 4
INVARIANTS TypeOK NoWildWrite NoBlockLost
PROPERTY HandsOutFreeMemory
SYMMETRY HartSymmetry
