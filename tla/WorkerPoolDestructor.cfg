\* The destructor may join a worker that missed its notification.
CONSTANTS
  None = None
  Clients = {c1}
  Workers = {w1, w2}
  Tasks = {t1}
  Sizes = {1, 2}
  MaxThreads = 2
  Budget = 0
SPECIFICATION FairSpec
PROPERTY DestructorReturns
CHECK_DEADLOCK FALSE
