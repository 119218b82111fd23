CONSTANTS
  Defaults = {FALSE}
  WithAliases = FALSE
  Declarations = {"this", "that"}
  Libraries <- AnyLibraries
SPECIFICATION Spec
INVARIANT DeletedVariablesAreGone
CHECK_DEADLOCK FALSE
