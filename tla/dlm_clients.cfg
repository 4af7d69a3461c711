SPECIFICATION Spec
CONSTANTS
  Node = {n1, n2, n3}
  Master = n1
SYMMETRY Symmetry
INVARIANTS GrantedCompatible OneList RequestAccounted NoLostKick ObstaclesTold
CHECK_DEADLOCK FALSE
