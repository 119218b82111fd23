CONSTANTS
  HashOf <- SomeHashes
  Shift = 5
  Worlds <- AllWorlds
  Alphabet <- SortedIds
SPECIFICATION Spec
INVARIANTS
  AliasesAreRight
  CorporaAreLibraries
  NeededIsKept
  LookupsAreRight
CHECK_DEADLOCK FALSE
