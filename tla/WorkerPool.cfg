\* Pools of up to two threads, some of them added later or refused, three tasks
\* committed by two clients or by other tasks, and the destructor, on a fair
\* scheduler.  No symmetry: it is not sound for liveness.
CONSTANTS
  None = None
  Clients = {c1, c2}
  Workers = {w1, w2, w3}
  Tasks = {t1, t2, t3}
  Sizes = {0, 1, 3}
  MaxThreads = 2
  Budget = 1
SPECIFICATION FairSpec
INVARIANTS
  TypeOK
  IdleExact
  WakeupsCoverQueue
  DestroyedDrained
PROPERTIES
  CommittedRuns
  DestructorReturnsUnlessMissed
CHECK_DEADLOCK FALSE
