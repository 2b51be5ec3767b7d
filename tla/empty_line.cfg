SPECIFICATION Spec
CONSTANTS
  t1 = t1
  t2 = t2
  a1 = a1
  a2 = a2
  m1 = m1
  Nobody = Nobody
  Null = Null
  Threads <- MCThreads
  DAQThreads <- MCDAQThreads
  Addresses <- MCAddresses
  Macros <- MCMacros
  MaxLength = 2
  MaxQueue = 2
INVARIANT
  UnparsableIsRefused
CHECK_DEADLOCK FALSE
