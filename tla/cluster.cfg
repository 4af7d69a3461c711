\* Nodes are told apart by their number (the lowest connects, and negotiates),
\* the containers of a peer by theirs, so no symmetry.
SPECIFICATION Spec
CONSTANTS
  Setups <- NetSetups
  Peer <- PeerTwo
  Sc = {1, 2}
  Sender = {"s1"}
  TargetOf <- ToPeer
  Node <- TwoNodes
  DeadThreshold = 3
  LiveThreshold = 2
  WriteTimeout = 2
  Faulty <- NoneOrSecond
  Incarnations = 2
CHECK_DEADLOCK TRUE
INVARIANTS
  TimerOwned
  IdleNoticed
  PeerRemembered
  WaiterHeard
  SameIncarnation
PROPERTIES
  BeatingIsLive
  FencedInTime
