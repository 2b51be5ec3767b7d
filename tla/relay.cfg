SPECIFICATION FairServerSpec
CONSTANTS
  Sockets = {s1, s2}
  Capacity = 2
  Arrivals = {1, 2, 3}
  MaxBytes = 4
INVARIANTS
  ReceivedOnce
  TakenIsRelayed
PROPERTY
  CallsReturn
CHECK_DEADLOCK FALSE
