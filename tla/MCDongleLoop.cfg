SPECIFICATION Spec
CONSTANTS
  Byte <- MCByte
  MaxPayload = 8
  TxRing = 8
  Half = 2
  MuteMs = 1
  TxMs = 0
  IndLen <- MCInd
  TextLen <- MCText
  WindowMs = 1
  ProbeMs = 1
  HostRequest <- MCRequest
  Fragment <- MCFragment
  Detect <- MCDetect
  MaxFragments = 1
INVARIANTS
  TypeOK
  WindowReceives
  LengthRestored
PROPERTIES
  DrivesShim
