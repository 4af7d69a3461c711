\* A slot for each of two nodes, which mount, unmount, die, come back; two nodes
\* that make, open and delete two inodes.
SPECIFICATION Spec
CONSTANTS
  FsNode <- ThreeNodes
  MaxSlots = 2
  Stories <- FsStories
  ONode <- TwoNodes
  Ino = {1, 2}
  Name = {1, 2}
  OStories <- InoStories
CHECK_DEADLOCK FALSE
INVARIANTS
  FreshInode
  OwnSlot
  AllCleanedUp
  Orphaned
  NotWiped
  NoStandstill
