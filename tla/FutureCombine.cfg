SPECIFICATION CombineLiveSpec
CONSTANTS
  Concurrent = {"Both", "First", "FirstOk", "BothOk"}
  MayAllFail = {"Both", "First", "FirstOk"}
CHECK_DEADLOCK FALSE
INVARIANTS
  ContractInv
  GotIsPromised
PROPERTIES
  CombinedGetReturns
