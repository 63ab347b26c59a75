SPECIFICATION CombineSpec
CONSTANTS
  Concurrent = {"BothOk"}
  MayAllFail = {"BothOk"}
INVARIANT SetOnce
