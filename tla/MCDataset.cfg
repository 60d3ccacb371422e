SPECIFICATION Spec
CONSTANTS
  NULL = NULL
  Commands = {"get", "num", "select", "fail", "lag", "temporary", "delete variables", "statistics", "sort cases", "z scores", "new file", "sort variables"}
  NCases = 3
  Unselected = {2}
  Filtered = {}
  Failing = {3}
  Limits = {}
  MaxLag = 2
  MaxTrns = 2
INVARIANTS TypeOK DictFitsData GuessSeesTheFile
PROPERTY IsActiveFile
CHECK_DEADLOCK FALSE
