CONSTANTS
  Instances <- MCInstances
  ThreadDims = 2
  Given <- PowersOfTen
  Calls = 2
SPECIFICATION FairSpec
INVARIANTS TypeOK PrefixSums InBounds
PROPERTY Returns
