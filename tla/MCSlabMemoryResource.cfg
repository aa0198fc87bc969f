SPECIFICATION FairSpec
CONSTANTS
  Hart = {h1, h2, h3}
  TotalSlabs = 5
  BitmapBits = 2
  BitmapsPerSlab = 1
INVARIANTS TypeOK BitmapExact FailsOnlyWhenFull
PROPERTY Exclusive
PROPERTY InitializationEnds
