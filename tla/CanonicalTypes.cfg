CONSTANTS
  Type <- MCType
  NoType <- MCNoType
  CorpusOf <- MCCorpus
  Kind <- MCKind
  Name <- MCName
  DeclarationOf <- MCDeclaration
  Worlds <- MCWorlds
  ReaderIn <- MCReader
  CollideIn <- MCCollide
  RootsIn <- MCRoots
  PartsIn <- MCParts
  LabelIn <- MCLabel
  LayoutIn <- MCLayout
  VirtualIn <- MCVirtual
  AlternateIn <- MCAlternate
SPECIFICATION Spec
INVARIANTS
  CanonicalMeansSame
  TypesGetCanonical
  ComparisonsAreRight
PROPERTY
  Ends
CHECK_DEADLOCK FALSE
