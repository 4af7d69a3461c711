SPECIFICATION Spec
CONSTANTS
  n1 = n1
  n2 = n2
  n3 = n3
  a = a
  b = b
  c = c
  d = d
  Node = {n1, n2}
  Master = n4
  Task = {a, b}
  NodeOf <- OneEach
  Types = {"nfs_sync", "open", "meta"}
  Requests <- Uses
  Once <- Rarely
  NoIntr = {}
  Evictors <- Nobody
CHECK_DEADLOCK FALSE
INVARIANTS
  MutualExclusion
  NoBug
  NoStandstill
  HeldIsCurrent
  BlockedIsServiced
