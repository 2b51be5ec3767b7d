SPECIFICATION CollectionSpec
CONSTANTS
  chan = chan
  ts = ts
  Outputs = {chan, ts}
  MaxReach = 2
INVARIANTS
  OutputsInStep
  NothingTakenIsDropped
  DeviceIsBracketed
PROPERTIES
  ExitEndsThread
  StopClosesDevice
