\* A wheel of two buckets, timeouts shorter, equal to and longer than a turn, tasks
\* added by a client or by a task of the pool; time passes and threads are scheduled
\* fairly.  One task is added before the other.
CONSTANTS
  Clients = {c1}
  PoolThreads = {p1}
  Tasks = {t1, t2}
  Timeouts = {0, 1, 2, 3}
  WheelLen = 2
  MaxTime = 3
  Budget = 1
  First = t1
SPECIFICATION MCFairSpec
INVARIANTS
  NoMissedWakeup
  NeverEarly
  WheelSound
  LateOnlyIfSkipped
PROPERTIES
  AddedIsScheduled
  DueRunsUnlessSkipped
  DestructorReturnsUnlessPoolBlocks
CHECK_DEADLOCK FALSE
