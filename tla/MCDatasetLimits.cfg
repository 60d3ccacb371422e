SPECIFICATION Spec
CONSTANTS
  NULL = NULL
  Commands = {"get", "num", "select", "temporary", "n of cases", "filter", "statistics", "save unselected", "sort cases", "z scores", "rank", "sort variables"}
  NCases = 3
  Unselected = {1}
  Filtered = {3}
  Failing = {}
  Limits = {2}
  MaxLag = 0
  MaxTrns = 2
PROPERTIES LimitKept IsActiveFile
CHECK_DEADLOCK FALSE
