CONSTANTS
  MaxA = 4
  MaxB = 3
SPECIFICATION Spec
INVARIANTS
  SearchIsRight
  HalvesFit
PROPERTIES
  GivesShortestScript
  Ends
CHECK_DEADLOCK FALSE
