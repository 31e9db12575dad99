SPECIFICATION Spec
CONSTANTS
  Packets <- MCPackets
  Buf = 128
  IndMax = 96
INVARIANT
  BBADNeverSent
