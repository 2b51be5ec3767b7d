SPECIFICATION FairAnalysisSpec
CONSTANTS
  daq = daq
  ana = ana
  sink = sink
  raw = raw
  result = result
  None = None
  Threads <- PairThreads
  Blocks <- PairBlocks
  Writer <- PairWriter
  Linked <- PairLinked
  FirstLinked <- PairFirstLinked
  AnalysisThreads <- JustAna
  Sizes = {1}
  MaxWrites = 1
  Switchable = {}
PROPERTIES
  StopEndsThreads
CHECK_DEADLOCK FALSE
