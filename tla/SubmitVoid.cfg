\* One client submits a void task: its future is ready with a broken promise.
CONSTANTS
  None = None
  Clients = {c1}
  Workers = {w1}
  Tasks = {t1, t2}
  Stoppable = {}
  Capacities = {1}
  WaitModes = {TRUE}
  Budget = 0
  Void = {t1}
  Throwing = {}
SPECIFICATION Spec
INVARIANT SubmitDelivers
CHECK_DEADLOCK FALSE
