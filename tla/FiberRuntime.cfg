SPECIFICATION FiberLiveSpec
CONSTANTS
  Workers = {w1, w2}
  Tasks = {f1, k1}
  Fibers = {f1}
  MaxSuspensions = 3
  NULL = null
  Client = client
  Delays = {0, 1}
  MaxTime = 1
CHECK_DEADLOCK FALSE
INVARIANTS
  PoolInv
  RuntimeInv
  FiberInv
PROPERTIES
  SchedulerSpec
  RuntimeProgress
