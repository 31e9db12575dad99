SPECIFICATION FairSpec
CONSTANTS
  Freq <- MCFreq
  Channel <- MCChannel
  MaxRequests = 2
  MaxPackets = 2
INVARIANTS
  TypeOK
  SuccessesEarned
  RecordsEarned
  DemoRecordsAreFresh
  TransmitterTuned
PROPERTIES
  ClientServedAgain
