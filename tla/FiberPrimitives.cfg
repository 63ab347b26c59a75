SPECIFICATION PrimitivesLiveSpec
CONSTANTS
  Fibers = {f1, f2, f3}
  Workers = {w1, w2}
  NULL = null
  MaxCalls = 2
  MaxAdds = 2
  MaxWaits = 2
  Capacity = 2
CHECK_DEADLOCK FALSE
INVARIANTS
  PrimitiveInv
  MutualExclusion
  WaitersJustified
PROPERTIES
  DoneIsOver
  ChannelSpec
  CallsSettle
  SchedulerSpec
