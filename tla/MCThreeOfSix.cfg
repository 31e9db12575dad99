SPECIFICATION Spec
CONSTANTS
  OutMax = 24
  MaxSymbols = 4
INVARIANT
  ValidIsDecoded
CHECK_DEADLOCK FALSE
