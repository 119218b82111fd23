\* Every program, and all its types or what is public of them.
CONSTANT
  Programs <- SmallPrograms
SPECIFICATION Spec
INVARIANTS NodesAreRight ReadingIsComplete
PROPERTY ReadEnds
\* When the corpus is read, the reader stops.
CHECK_DEADLOCK FALSE
