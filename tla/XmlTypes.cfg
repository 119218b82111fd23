\* What abidw writes is read back the same, whatever the order of elements.
CONSTANTS
    World <- MCWorld
    ArtifactsIn <- MCArtifactsIn
    UnitsIn <- MCUnitsIn
    SharedIdIn <- MCSharedIdIn
SPECIFICATION Spec
INVARIANTS
    ReadBackTheSame
    ScopesNest
PROPERTY ReadEnds
CHECK_DEADLOCK FALSE
