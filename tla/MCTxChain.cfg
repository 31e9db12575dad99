SPECIFICATION FairSpec
CONSTANTS
  Contents <- MCContents
  FifoSize = 64
  MaxCalls = 3
INVARIANTS
  TypeOK
  CleanAir
  NoPhantomDone
PROPERTIES
  ActsAtomically
  TxReturns
