SPECIFICATION PagesSpec
CONSTANTS
  ByteBits = 2
  XorByte <- Unused
  DhGroups <- NumberGroups
  EcdhGroups <- CurveGroups
  MaxKeys = 3
INVARIANT Agreement
PROPERTIES FreshSecretsExchange TabsKeyIsUsed
