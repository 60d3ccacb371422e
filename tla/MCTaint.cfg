SPECIFICATION Spec
CONSTANTS
  Node = {n1, n2, n3}
  MaxRef = 2
INVARIANTS
  ListsMirror
  SuccessorsTainted
  PredecessorsSuspect
PROPERTY Refines
