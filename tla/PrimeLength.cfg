SPECIFICATION Spec
CONSTANTS
  MaxTested = 0
  MaxRounded = 0
  MaxBits = 4
  MaxBound = 3
  Calls <- BitsCalls
INVARIANT ExactLength
CHECK_DEADLOCK FALSE
