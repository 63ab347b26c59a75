SPECIFICATION LiveSpec
CONSTANTS
  Owner = owner
  Thieves = {thief1}
  Tasks = {t1, t2, t3}
  NULL = null
  Capacity = 2
  GrabAmount = 2
  MaxPushes = 4
INVARIANTS
  WSInv
  Exclusive
PROPERTIES
  TQSpec
  OperationsReturn
