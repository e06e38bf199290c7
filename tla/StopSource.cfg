\* Three threads request, reset and poll, with the generic error and two others,
\* while a signal may come at any moment.
CONSTANTS
  None = None
  Ok = Ok
  Cancelled = Cancelled
  Errors = {Cancelled, e1, e2}
  Signals = {2}
  Threads = {p1, p2, p3}
SPECIFICATION Spec
SYMMETRY Symmetry
INVARIANTS
  NoAbort
  FirstReasonWins
  PollIsTimely
CHECK_DEADLOCK FALSE
