SPECIFICATION Spec
CONSTANTS
  daq = daq
  ana = ana
  sink = sink
  raw = raw
  result = result
  None = None
  Threads <- PairThreads
  Blocks <- PairBlocks
  Writer <- PairWriter
  Linked <- PairLinked
  FirstLinked <- PairFirstLinked
  Sizes = {2}
  MaxWrites = 2
  Switchable = {}
INVARIANT
  LengthIsThatOfThePacket
CHECK_DEADLOCK FALSE
