CONSTANTS
  HashOf <- SomeHashes
  Shift = 5
  Worlds <- Executables
  Alphabet <- SortedIds
SPECIFICATION Spec
INVARIANT NeededIsCompared
CHECK_DEADLOCK FALSE
