SPECIFICATION ContendedSpec
CONSTANTS
  n1 = n1
  n2 = n2
  n3 = n3
  a = a
  b = b
  c = c
  d = d
  Node = {n1, n2, n3}
  Master = n4
  Task = {a, b, c, d}
  NodeOf <- Where
  Types = {"rw"}
  Requests <- WritersReader
  Once <- EachOnce
  NoIntr = {n1, n2}
  Evictors <- Nobody
INVARIANT CancelExpected
CHECK_DEADLOCK FALSE
