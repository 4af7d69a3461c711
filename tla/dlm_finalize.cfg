\* The first master of the resource dies, then the recovery master.
SPECIFICATION Spec
CONSTANTS
  DNode <- Three
  Cases <- OnlyNoCase
  DomainNode <- Three
  Scenes <- OnlyNoScene
  RNode <- Four
  Plights <- TwoOfFour
CHECK_DEADLOCK FALSE
INVARIANT OneMasterLeft
