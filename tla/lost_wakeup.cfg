SPECIFICATION FairSpec
CONSTANTS
  daq = daq
  ana = ana
  sink = sink
  raw = raw
  result = result
  None = None
  Threads <- PairThreads
  Blocks <- PairBlocks
  Writer <- PairWriter
  Linked <- PairLinked
  FirstLinked <- PairFirstLinked
  Sizes = {1}
  MaxWrites = 1
  Switchable = {}
PROPERTY
  WaitingReaderIsServed
CHECK_DEADLOCK FALSE
