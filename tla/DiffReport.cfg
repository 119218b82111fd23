SPECIFICATION ReportSpec
CONSTANTS
  Comparisons <- AllComparisons
  Subject <- MCSubject
  ABI <- MCABI
  KindIn <- MCKind
  PartsIn <- MCParts
  RankIn <- MCRank
  RootsIn <- MCRoots
  LocalIn <- MCLocal
  OwnIn <- MCOwn
  SuppressedIn <- MCSuppressed
  VariadicIn <- MCVariadic
  AllowedIn <- MCAllowed
  ShowRedundantIn <- MCShowRedundant
  MethodIn <- MCMethod
  RenamedIn <- MCRenamed
  MaxDepth = 14
INVARIANTS
  TypeOK
  PassesAreRight
  EveryOtherChangePrinted
  TraversingMatchesWalk
  NothingCutOut
  DetailsOnce
  AssertionsHold
PROPERTIES
  GraphIsBuilt
  ReportEnds
CHECK_DEADLOCK FALSE
