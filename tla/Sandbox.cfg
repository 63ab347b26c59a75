SPECIFICATION Spec
CONSTANTS
  Timers = {k1, k2, k3, k4, k5}
  Deadlines <- SmallDeadlines
  NULL = null
  Delays = {0, 1, 2}
  Limits = {0, 2, 7}
  SizeMax = 7
  MaxTime = 2
SYMMETRY TaskSymmetry
INVARIANTS
  ManualLoopInv
  HeapInv
PROPERTIES
  NotOverdue
  HeapSpec
