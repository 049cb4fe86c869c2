SPECIFICATION Spec
CONSTANTS
  dpapi_available = TRUE
  MaxGens = 3
  MaxCommands = 4
INVARIANTS
  KeySurvives
  RotateIsUndoable
  PairAgrees
PROPERTIES
  StartsOnWholeKey
CHECK_DEADLOCK FALSE
