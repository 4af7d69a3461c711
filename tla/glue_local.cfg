SPECIFICATION MCSpec
CONSTANTS
  n1 = n1
  n2 = n2
  n3 = n3
  a = a
  b = b
  c = c
  d = d
  Node = {n1, n2, n3}
  Master = n4
  Task = {a, b, c, d}
  NodeOf <- Where
  Types = {"rename", "dentry", "rw"}
  Requests <- Uses
  Once <- Rarely
  NoIntr = {n1, n2}
  Evictors <- EvictsRw
SYMMETRY Locals
INVARIANTS OneRequest WorkerSufficed DroppedIsForgotten
CHECK_DEADLOCK FALSE
