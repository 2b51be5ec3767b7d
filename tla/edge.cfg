SPECIFICATION Spec
CONSTANTS
  NumBuff = 3
  AccumTime = 2
  Origins = {0}
  Times <- TwelveTicks
  MaxBatch = 2
  MaxEvents = 2
INVARIANT
  NoneDroppedOnTheEdge
CHECK_DEADLOCK FALSE
