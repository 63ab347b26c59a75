SPECIFICATION Spec
CONSTANTS
  NumThreads = 2
  Tasks = {t1, t2, t3, t4}
  NULL = null
  Capacity = 1
  GrabAmount = 3
  FILOMaxChain = 1
  PollPeriod = 2
  MayStop = TRUE
  MaxSize = 2
SYMMETRY TaskSymmetry
CHECK_DEADLOCK FALSE
INVARIANTS
  EachTaskOnce
  CoordinatorInv
  NoStrandedTask
