SPECIFICATION FairSpec
CONSTANTS
  daq = daq
  ana = ana
  sink = sink
  raw = raw
  result = result
  None = None
  Threads <- ChainThreads
  Blocks <- ChainBlocks
  Writer <- ChainWriter
  Linked <- BothLinked
  FirstLinked <- ChainFirstLinked
  Sizes = {1}
  MaxWrites = 2
  Switchable = {result}
PROPERTIES
  ImplementsStream
  CallsReturnOrSleep
CHECK_DEADLOCK FALSE
