\* Two clients and three workers; the pool is given every capacity set_capacity
\* accepts, is used from inside its own tasks and is shut down either way.
CONSTANTS
  None = None
  Clients = {c1, c2}
  Workers = {w1, w2, w3}
  Tasks = {t1, t2, t3}
  Stoppable = {t1}
  Capacities <- AnyCapacity
  WaitModes = {TRUE, FALSE}
  Budget = 2
SPECIFICATION Spec
SYMMETRY Symmetry
INVARIANTS
  TypeOK
  CountExact
  EnoughWorkers
  NobodySleepsOnLeave
  WakeupsCoverQueue
  SleepersHaveReason
  ShutdownQuiesces
  NobodyIsStuck
CHECK_DEADLOCK FALSE
