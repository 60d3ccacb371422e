CONSTANTS
  Programs <- MCPrograms
  Clauses <- MCClauses
  MXLOOPS = 2
  Modulus = 2
  SYSMIS <- MCSysmis
  Exact = 2
  NULL = NULL
SPECIFICATION Spec
INVARIANT RunningTotal
CHECK_DEADLOCK FALSE
