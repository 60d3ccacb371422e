CONSTANTS
  Programs <- MCPrograms
  Clauses <- MCClauses
  MXLOOPS = 2
  Modulus = 2
  SYSMIS <- MCSysmis
  Exact = 2
  NULL = NULL
SPECIFICATION Spec
INVARIANT OneWayBack
INVARIANT TotalInProcedures
PROPERTY CasesEnd
PROPERTY IsControl
CHECK_DEADLOCK FALSE
