SPECIFICATION FairSpec
CONSTANTS
  ana = ana
  sink = sink
  Readers <- TwoReaders
  Addresses = {a1, a2, a3}
  Null = Null
  None = None
  MaxReads = 2
CONSTRAINT
  Orderly
INVARIANTS
  DeletesOnce
  HeldIsAllocated
PROPERTIES
  FreedAfterAnalyze
  CollectionEnds
CHECK_DEADLOCK TRUE
