SPECIFICATION Spec
CONSTANTS
  writer = writer
  r1 = r1
  r2 = r2
  b1 = b1
  b2 = b2
  Threads <- MCThreads
  Blocks <- MCBlocks
  Writer <- MCWriter
  Reader <- MCReader
  MaxPackets = 5
INVARIANT
  PriorityIsPossible
CHECK_DEADLOCK FALSE
