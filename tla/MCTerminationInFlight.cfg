CONSTANTS
  Node = {n1, n2}
  Task = {t1, t2}
  HartCount = 2
  WaitAllCalls = 1
  CpAsync <- Anywhere
  CpWait <- Nowhere
  TaskAsync <- Anywhere
  TaskWait <- Nowhere
SPECIFICATION FairSpec
INVARIANTS DetectedExecuted
