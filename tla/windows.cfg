SPECIFICATION Spec
CONSTANTS
  NumBuff = 3
  AccumTime = 2
  Origins = {0, 1}
  Times <- TwelveTicks
  MaxBatch = 2
  MaxEvents = 3
INVARIANTS
  RingTiled
  PacketsAreWindows
  OnlyStaleAreLate
  FlushPostsAll
CHECK_DEADLOCK TRUE
