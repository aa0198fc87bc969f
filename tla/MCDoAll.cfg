CONSTANTS
  NodeCount = 2
  CoreCount = 2
  HartCount = 2
  StealThreshold = 1
  OuterSize = 3
  InnerSize = 1
  Blocking = {0}
  Spawning = {0, 1}
  DeltaModulus = 4
  Freed = Freed
SPECIFICATION FairSpec
INVARIANTS TypeOK CountExact GroupLives LoopOver
PROPERTIES LoopReturns LoopsJoin
