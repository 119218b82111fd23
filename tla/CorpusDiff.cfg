CONSTANTS
  Defaults = {FALSE, TRUE}
  WithAliases = TRUE
  Declarations = {"this", "that"}
  Libraries <- AnyLibraries
SPECIFICATION Spec
INVARIANTS
  TypeOK
  RemovalsAreTold
  ChangesAreTold
  NamesAreRight
  NoCountWraps
CHECK_DEADLOCK FALSE
