CONSTANTS
  Node = {n1, n2}
  Task = {t1, t2, t3}
  HartCount = 3
  WaitAllCalls = 2
  CpAsync <- Locally
  CpWait <- Anywhere
  TaskAsync <- Nowhere
  TaskWait <- Anywhere
SPECIFICATION Spec
SYMMETRY TaskSymmetry
INVARIANTS DetectedExecuted NoTaskLost WaitsForSubtree
