\* A recovery of a node that has long come back.
SPECIFICATION Spec
CONSTANTS
  FsNode <- ThreeNodes
  MaxSlots = 2
  Stories <- FsStories
  ONode <- TwoNodes
  Ino = {1, 2}
  Name = {1, 2}
  OStories <- OnlyNoOps
CHECK_DEADLOCK FALSE
INVARIANTS
  NeedsRecovery
