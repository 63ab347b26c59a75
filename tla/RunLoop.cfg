SPECIFICATION RunLoopLiveSpec
CONSTANTS
  Tasks = {k1, k2, k3}
  Durations = {0, 1, 2}
  LastTime = 3
  NoTask = null
CHECK_DEADLOCK FALSE
INVARIANTS
  LoopInv
PROPERTIES
  LoopProgress
