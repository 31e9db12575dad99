SPECIFICATION FairSpec
CONSTANTS
  Byte <- MCByte
  MaxPayload = 8
  TxRing = 1
  Half = 2
  MuteMs = 1
  TxMs = 0
  IndLen = {}
  TextLen <- MCTiny
  WindowMs = 1
  ProbeMs = 1
  HostRequest <- MCNoConfig
  Fragment <- MCFragment
  Detect <- MCDetect
  MaxFragments = 1
PROPERTIES
  WindowEnds
  DetectIsServed
