SPECIFICATION Spec
CONSTANTS
  r1 = r1
  r2 = r2
  Requests = {r1, r2}
  NoRequest = NoRequest
  MaxStarts = 2
  MaxCrashes = 1
PROPERTY OnlyDeadSidecarsReplaced
CHECK_DEADLOCK FALSE
