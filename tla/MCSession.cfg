CONSTANTS
  Name = {a, b}
  Unnamed = Unnamed
  Ds = {d1, d2, d3, d4}
  MaxVars = 2
  MaxMade = 1
  NULL = NULL
SYMMETRY Addresses
SPECIFICATION Spec
INVARIANT TypeOK
INVARIANT NamesReach
INVARIANT NothingPending
PROPERTY IsSession
CHECK_DEADLOCK FALSE
