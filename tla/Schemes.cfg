SPECIFICATION Spec
CONSTANTS
  ByteBits = 2
  XorByte <- MCXor
  Hash <- MCHash
  HashLen = 1
  PadMin = 1
  HashId <- MCHashId
  Trailer = 2
  RsaContexts <- MCRsaContexts
  DlGroups <- MCDlGroups
  EcGroups <- MCEcGroups
  MessagesFor <- MCMessages
  ForeignCiphers <- MCForeignCiphers
  ForeignSigned <- MCForeignSigned
INVARIANTS RoundTrip EncodingsFit OnlyGenuine
PROPERTY SealReturns
CHECK_DEADLOCK FALSE
