SPECIFICATION HashSpec
CONSTANTS
  BlockLen = 6
  FieldLen = 2
  LenMod = 128
  IndexMod = 16
  Lens <- AnyLength
  MaxTotal = 32
  Rate = 3
  MaxLen = 7
  MaxOut = 8
  Pieces <- FewBytes
PROPERTIES
  UpdateReturns
CHECK_DEADLOCK FALSE
