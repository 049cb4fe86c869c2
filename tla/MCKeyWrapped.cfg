SPECIFICATION Spec
CONSTANTS
  dpapi_available = TRUE
  MaxGens = 1
  MaxCommands = 2
INVARIANTS
  WrappedStaysWrapped
CHECK_DEADLOCK FALSE
