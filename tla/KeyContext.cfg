SPECIFICATION FairSpec
CONSTANTS
  a = a
  b = b
  Ctx = {a, b}
  SchemeOf <- MCSchemes
  MaxKeygen = 2
INVARIANTS
  TypeOK
  MemorySafe
  NothingLeftBehind
  LatestKeyOnly
PROPERTIES
  KeygenReturns
  ImplementsVaults
