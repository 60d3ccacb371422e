SPECIFICATION Spec
CONSTANTS
  Reader = {r1, r2}
  First = r1
  NCases = 3
  MaxInCore = 2
  CASENUMBER_MAX = 9
  TempFaults = TRUE
INVARIANT InOrder
PROPERTY CallsReturn
CHECK_DEADLOCK FALSE
