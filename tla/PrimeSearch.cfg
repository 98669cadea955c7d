SPECIFICATION Spec
CONSTANTS
  MaxTested = 35
  MaxRounded = 1111
  MaxBits = 5
  MaxBound = 12
  Calls <- MCCalls
INVARIANTS TypeOK LegalDraws InRange NothingSkipped QuarterLiars
PROPERTY Returns
CHECK_DEADLOCK FALSE
