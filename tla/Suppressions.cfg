SPECIFICATION Spec
CONSTANTS
  File <- SmallFile
  Change <- SmallChange
  Compiles <- SmallCompiles
  Matches <- SmallMatches
  MaxLines = 4
INVARIANTS
  VerdictsAreRight
  FilesAreRead
CHECK_DEADLOCK FALSE
