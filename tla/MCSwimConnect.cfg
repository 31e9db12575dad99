SPECIFICATION Spec
CONSTANTS
  FlashSize = 300
  BlockSize = 255
INVARIANT
  AcknowledgedConnects
