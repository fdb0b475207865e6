SPECIFICATION UartSpec
CONSTANTS
  BufLen = 3
  Fifo = 2
  ReadThreshold = 0
  WriteThreshold = 1
  Timeout = 2
  MaxCount = 2
  Numbers = 4
INVARIANT
  NothingStranded
PROPERTIES
  DeliversStream
  WriteReturns
