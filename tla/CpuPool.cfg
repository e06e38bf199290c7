\* A first call in any environment, then a pool of two workers that is used,
\* resized, shut down and forked.
CONSTANTS
  None = None
  Unset = Unset
  Clients = {c1, c2}
  Workers = {w1, w2}
  Tasks = {t1, t2}
  Stoppable = {}
  Capacities = {0, 1, 2}
  WaitModes = {FALSE}
  Budget = 2
  Texts <- AnyText
  MaxInt = 2
  Hardware = {0, 1, 2}
  Fallback = 2
SPECIFICATION CpuSpec
INVARIANTS
  ChildPoolSound
PROPERTIES
  ChildSurvives
  CapacityFromEnvironment
  CallsReturnAcrossFork
CHECK_DEADLOCK FALSE
