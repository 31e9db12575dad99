SPECIFICATION MCSpec
CONSTANTS
  Byte <- MCByte
  MaxPayload = 8
  TxRing = 14
  Half = 3
  MuteMs = 2
  TxMs = 1
  IndLen <- MCInd
  TextLen <- MCText
INVARIANTS
  TypeOK
  PayloadFits
  MuteExact
PROPERTIES
  IndOutsideDetect
  ImplementsContract

