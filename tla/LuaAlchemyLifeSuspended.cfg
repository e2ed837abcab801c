SPECIFICATION Spec
CONSTANTS
  MaxStates = 3
  MaxDepth = 3
CHECK_DEADLOCK FALSE
INVARIANTS
  SuspendedSurvive
