CONSTANTS
  Instances <- OneNode
  ThreadDims = 2
  Given <- PowersOfTen
  Calls = 1
SPECIFICATION FairSpec
INVARIANT WithinLength
