SPECIFICATION Spec
CONSTANTS
  Freq <- MCBand
  Channel <- MCChannel
  MaxRequests = 2
  MaxPackets = 2
INVARIANT
  ReceiverNearBase
