SPECIFICATION Spec
CONSTANTS
  SNode <- TwoNodes
  Clusters = 5
  TlCount = 2
  LaDefault = 4
  LaLeast = 1
  SpStories <- OnlyNoSpaceStory
  Nodes <- TwoNodes
  Volume = 12
  Cpg = 4
  PieceMax = 3
  MaxToSteal = 2
  SubStories <- OnlyNoBlocks
  Dirent <- Dirents
  BlockSize = 5
  InlineSize = 3
  Trailer = 1
  RootMax = 3
  LeafMax = 4
  Leaves = 2
  Buffer = 2
  DirStories <- RemoteDirectories
CHECK_DEADLOCK FALSE
INVARIANT ReadValid
