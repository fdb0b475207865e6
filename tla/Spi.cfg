SPECIFICATION SpiSpec
CONSTANTS
  MaxBytes = 8
  MaxRestarts = 2
INVARIANT
  NothingOverrun
PROPERTIES
  AccessesChip
  AccessReturns
