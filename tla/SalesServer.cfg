\* Three sales of one product, whose sums do not fit, and one of another.
CONSTANTS
  None = None
  Messages <- SomeSales
  UintLimit = 4
SPECIFICATION Spec
INVARIANTS
  SummaryExact
PROPERTIES
  SalesReachSummary
CHECK_DEADLOCK FALSE
