SPECIFICATION Spec
CONSTANTS
  Width = 2
  IoSel <- MCIoSel
  MaxFifo = 2
  MaxBytes = 2
INVARIANTS
  TypeOK
  OneSelect
  MergeKept
PROPERTIES
  AccessesAreAtomic
