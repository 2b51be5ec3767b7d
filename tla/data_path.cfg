SPECIFICATION FairAnalysisSpec
CONSTANTS
  daq = daq
  ana = ana
  sink = sink
  raw = raw
  result = result
  None = None
  Threads <- PairThreads
  Blocks <- PairBlocks
  Writer <- PairWriter
  Linked <- PairLinked
  FirstLinked <- PairFirstLinked
  AnalysisThreads <- JustAna
  Sizes = {0, 2}
  MaxWrites = 3
  Switchable = {raw}
INVARIANTS
  IInv
  CopiesArePostings
  UnreadPacketsKept
  NeverWaitsOnQueue
  CountedPacketsAreWritten
  EndsBetweenPackets
PROPERTIES
  ExitEndsOrSleeps
CHECK_DEADLOCK FALSE
