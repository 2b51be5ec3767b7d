SPECIFICATION FairSpec
CONSTANTS
  daq = daq
  ana = ana
  sink = sink
  raw = raw
  result = result
  None = None
  Threads <- ChainThreads
  Blocks <- ChainBlocks
  Writer <- ChainWriter
  Linked <- ChainLinked
  FirstLinked <- ChainFirstLinked
  Sizes = {1}
  MaxWrites = 1
  Switchable = {}
PROPERTY
  WokenThreadProceeds
CHECK_DEADLOCK FALSE
