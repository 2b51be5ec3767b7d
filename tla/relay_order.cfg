SPECIFICATION ServerSpec
CONSTANTS
  Sockets = {s1, s2}
  Capacity = 2
  Arrivals = {2}
  MaxBytes = 2
INVARIANT
  OneOrder
CHECK_DEADLOCK FALSE
