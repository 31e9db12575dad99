SPECIFICATION FairSpec
CONSTANTS
  Packets <- MCPackets
  Buf = 128
  IndMax = 96
INVARIANTS
  TypeOK
  VerdictSound
  RepairInsideBuffer
  LengthByteTrue
  CopyInside
  FeedVerified
  VerifiedReachesDaemon
PROPERTIES
  ScanEnds
