\* Three nodes and a domain, a resource, the deaths of two; one death of four.
SPECIFICATION Spec
CONSTANTS
  DNode <- Three
  Cases <- MasterCases
  DomainNode <- Three
  Scenes <- DomainScenes
  RNode <- Four
  Plights <- RecoveryPlights
CHECK_DEADLOCK FALSE
INVARIANTS
  BugFree
  OneMaster
  UsersKnown
  NoStandstill
  DomainSound
  LocksKept
PROPERTY RecoveryEnds
