CONSTANTS
  Node = {n1, n2}
  Task = {t1, t2, t3}
  HartCount = 2
  WaitAllCalls = 2
  CpAsync <- Locally
  CpWait <- Nowhere
  TaskAsync <- Locally
  TaskWait <- Nowhere
SPECIFICATION FairSpec
INVARIANTS TypeOK CountsExact DetectedQuiescent NoTaskLost
PROPERTY WaitAllReturns
