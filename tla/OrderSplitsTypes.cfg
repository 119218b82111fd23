CONSTANTS
  Type <- MCType
  NoType <- MCNoType
  CorpusOf <- MCCorpus
  Kind <- MCKind
  Name <- MCName
  DeclarationOf <- MCDeclaration
  Worlds <- MCSplitWorlds
  ReaderIn <- MCReader
  CollideIn <- MCCollide
  RootsIn <- MCRoots
  PartsIn <- MCParts
  LabelIn <- MCLabel
  LayoutIn <- MCLayout
  VirtualIn <- MCVirtual
  AlternateIn <- MCAlternate
SPECIFICATION Spec
INVARIANT SameMeansCanonical
CHECK_DEADLOCK FALSE
