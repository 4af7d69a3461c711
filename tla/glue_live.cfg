SPECIFICATION LiveSpec
CONSTANTS
  n1 = n1
  n2 = n2
  n3 = n3
  a = a
  b = b
  c = c
  d = d
  Node = {n1, n2}
  Master = n4
  Task = {a, b}
  NodeOf <- OneEach
  Types = {"rw"}
  Requests <- WriterReader
  Once <- WritesOnce
  NoIntr = {n1, n2}
  Evictors <- Nobody
PROPERTY NodeProgress ImplementsClusterLock
CHECK_DEADLOCK FALSE
