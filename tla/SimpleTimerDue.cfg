\* One task, a clock that goes on after its deadline.
CONSTANTS
  Clients = {c1}
  PoolThreads = {}
  Tasks = {t1}
  Timeouts = {1}
  WheelLen = 4
  MaxTime = 4
  Budget = 0
  First = t1
SPECIFICATION FairSpec
PROPERTIES
  DueRuns
CHECK_DEADLOCK FALSE
