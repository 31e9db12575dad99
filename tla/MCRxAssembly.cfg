SPECIFICATION FairSpec
CONSTANTS
  OnAir <- MCOnAir
  Fifo = 64
  Threshold = 32
  Drain = 32
  DrainCap = 96
  Buf = 128
  RestMax = 64
  Fallback = 73
  Lump = 16
  Counter = 111
INVARIANTS
  TypeOK
  BuffersHold
  NoReplay
  TelegramWhole
PROPERTIES
  EndTaken
