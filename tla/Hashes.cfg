\* Blocks of 6 bytes of which 2 are the length field; every split of every
\* message of up to 32 bytes, so that messages end at each place of a block,
\* up to six blocks are filled and the bit count wraps modulo 128.  For the
\* SHAKE object a rate of 3: messages of up to 7 bytes end at every place of
\* a block, and up to 8 bytes of output, in pieces of 0 to 4, need three.
SPECIFICATION HashSpec
CONSTANTS
  BlockLen = 6
  FieldLen = 2
  LenMod = 128
  IndexMod = 64
  Lens <- AnyLength
  MaxTotal = 32
  Rate = 3
  MaxLen = 7
  MaxOut = 8
  Pieces <- FewBytes
INVARIANTS
  BufferIsTail
  FedIsPadded
PROPERTIES
  ImplementsStream
  UpdateReturns
  ImplementsXof
CHECK_DEADLOCK FALSE
