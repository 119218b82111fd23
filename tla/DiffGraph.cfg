SPECIFICATION GraphSpec
CONSTANTS
  Subject <- MCSubject
  ABI <- MCABI
  KindIn <- MCKind
  PartsIn <- MCParts
  RankIn <- MCRank
  RootsIn <- MCRoots
  MaxDepth = 12
INVARIANTS
  GraphTypeOK
  CanonicalDiffs
  NoReentrance
  AnyParentWillDo
  NoChangeLost
PROPERTY
  GraphGetsBuilt
CHECK_DEADLOCK FALSE
