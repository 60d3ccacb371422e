SPECIFICATION Spec
CONSTANTS
  Reader = {r1, r2, r3}
  First = r1
  NCases = 2
  MaxInCore = 1
  CASENUMBER_MAX = 9
  TempFaults = FALSE
INVARIANTS
  TypeOK
  WindowTight
  AssertionsHold
PROPERTY
  IsStream
SYMMETRY Clones
CHECK_DEADLOCK FALSE
