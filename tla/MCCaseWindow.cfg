SPECIFICATION Spec
CONSTANTS
  MaxInCore = 2
  MaxCases = 7
INVARIANT WithinCore
PROPERTY IsQueue
CHECK_DEADLOCK FALSE
