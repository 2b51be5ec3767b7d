SPECIFICATION Spec
CONSTANTS
  ana = ana
  sink = sink
  Readers <- OneReader
  Addresses = {a1, a2}
  Null = Null
  None = None
  MaxReads = 3
INVARIANT
  NothingHeldIsFreed
CHECK_DEADLOCK FALSE
