\* set_capacity accepts 0, and shut_down(true) then aborts on its DCHECK_EQ.
CONSTANTS
  None = None
  Clients = {c1, c2}
  Workers = {w1, w2}
  Tasks = {t1, t2, t3}
  Stoppable = {t1}
  Capacities = {0, 1}
  WaitModes = {TRUE}
  Budget = 1
SPECIFICATION Spec
INVARIANT NoAbort
CHECK_DEADLOCK FALSE
