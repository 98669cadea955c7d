SPECIFICATION OutputSpec
CONSTANTS
  Operations <- PythonCalls
  Attempts = 2
  ByteBits = 1
  XorByte <- Unused
  Handles = {"a", "b"}
  Seeds = {0, 1}
  Stream <- SomeStream
  Requests <- SomeRequests
  MaxDraws = 2
  UintBits = 2
INVARIANTS NoOverrun AllOrNothing Negotiated Reproducible EveryByteDrawn
CHECK_DEADLOCK FALSE
