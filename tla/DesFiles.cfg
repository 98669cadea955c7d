SPECIFICATION CallsSpec
CONSTANTS
  BlockSize = 2
  ByteMod = 4
  LittleEndian = TRUE
  Encipher <- MCEncipher
  Decipher <- MCDecipher
  XorByte <- MCXor
  p1 = p1
  p2 = p2
  Places <- MCPlaces
  First = p1
  Contents <- MCContents
  Ivs <- MCIvs
  NoIv = NoIv
  Capacities <- MCCapacities
  Budget <- MCBudget
  Hash <- MCHash
  HashBlock = 3
  HashLen = 2
  IPad = 1
  OPad = 2
  Keys <- MCKeys
  Messages <- MCMessages
PROPERTIES BigEndianBlocks
CHECK_DEADLOCK FALSE
