SPECIFICATION RuntimeLiveSpec
CONSTANTS
  NumThreads = 2
  Tasks = {t1, t2}
  NULL = null
  Capacity = 1
  GrabAmount = 2
  FILOMaxChain = 1
  PollPeriod = 1
  MayStop = TRUE
  MaxSize = 0
  Client = client
  TimerTasks = {t2}
  Delays = {1}
  MaxTime = 1
CHECK_DEADLOCK FALSE
INVARIANTS
  RuntimeKeepsTasks
  NoStrandedTimer
PROPERTIES
  RuntimeProgress
