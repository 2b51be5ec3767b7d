SPECIFICATION Spec
CONSTANTS
  ana = ana
  sink = sink
  Readers <- TwoReaders
  Addresses = {a1, a2}
  Null = Null
  None = None
  MaxReads = 1
INVARIANT
  DeletionIsSerial
CHECK_DEADLOCK FALSE
