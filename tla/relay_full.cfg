SPECIFICATION FairServerSpec
CONSTANTS
  Sockets = {s1, s2}
  Capacity = 2
  Arrivals = {4}
  MaxBytes = 4
PROPERTY
  SentIsRelayed
CHECK_DEADLOCK FALSE
