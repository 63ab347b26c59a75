SPECIFICATION LiveSpec
CONSTANTS
  Workers = {w1, w2}
  MaxStages = 3
CHECK_DEADLOCK FALSE
INVARIANTS
  ChainInv
  GetIsRight
PROPERTIES
  GetReturns
