SPECIFICATION CurvesSpec
CONSTANTS
  Curves <- MCWalked
  MaxBits = 4
  Ladder <- MCLadder
  Bases <- MCBases
  Points <- MCPoints
  Pow2 <- MCPow2
  Infinity <- MCInfinity
  IsMultiple <- MCIsMultiple
  IsInfinity <- MCIsInfinity
  Add <- MCAdd
  Dbl <- MCDbl
  DAdd <- MCDAdd
  ToAffine <- MCToAffine
INVARIANTS TypeOK Correct BitsAbove PointsAgree StaysOnCurve EqualsAgrees
CHECK_DEADLOCK FALSE
