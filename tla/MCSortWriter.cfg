SPECIFICATION Spec
CONSTANTS
  NULL = NULL
  Keys = {1, 2, 3, 4}
  NCases = 7
  Workspace = {2}
  MAX_MERGE_ORDER = 3
INVARIANTS RunsOrdered NothingLost LongRuns WithinBounds
PROPERTY IsStableSort
CHECK_DEADLOCK FALSE
