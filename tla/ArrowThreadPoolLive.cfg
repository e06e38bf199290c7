\* A positive capacity: what the pool promises under a fair scheduler.  No
\* symmetry: it is not sound for liveness.
CONSTANTS
  None = None
  Clients = {c1, c2}
  Workers = {w1, w2}
  Tasks = {t1, t2}
  Stoppable = {t1}
  Capacities = {1, 2}
  WaitModes = {TRUE, FALSE}
  Budget = 1
  Void = {t2}
  Throwing = {t1}
SPECIFICATION FairSpec
INVARIANTS
  NoAbort
  QuietMeansReady
PROPERTIES
  StopsAreAnswered
  ImplementsExecutor
  CallsReturn
  FuturesSettle
CHECK_DEADLOCK FALSE
