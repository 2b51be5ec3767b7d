SPECIFICATION Spec
CONSTANTS
  daq = daq
  ana = ana
  known = known
  unknown = unknown
  raw = raw
  result = result
  None = None
  Names = {daq, ana}
  Classes = {known, unknown}
  Loadable = {known}
  Data = {raw, result}
  ObjectElements <- MCObjects
  LinkElements <- MCLinks
  MaxObjects = 3
  MaxLinks = 3
INVARIANT
  BrokenAreSkipped
CHECK_DEADLOCK FALSE
