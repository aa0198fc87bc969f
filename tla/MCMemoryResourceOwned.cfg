SPECIFICATION Spec
CONSTANTS
  Hart = {h1, h2}
  SlabWords <- TwoPools
  TotalSlabs <- FewUserSlabs
  BitmapBits = 2
  WordBytes = 8
  BumpWords = 8
  MinBump = 3
  Alignment = 2
  Request = {1, 2}
  Freed = {1, 2}
  MaxLive = 4
INVARIANT OwnsWhatItClaims
CHECK_DEADLOCK FALSE
SYMMETRY HartSymmetry
