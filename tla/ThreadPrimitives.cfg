SPECIFICATION LiveSpec
CONSTANTS
  Threads = {t1, t2, t3}
  Width = 2
  MaxCount = 3
  MaxWaits = 2
  MaxPushes = 2
  MaxPops = 2
CHECK_DEADLOCK FALSE
INVARIANTS
  SyncInv
  DoneIsOver
PROPERTIES
  CallsReturn
