SPECIFICATION Spec
CONSTANTS
  MaxStates = 3
  MaxDepth = 5
CHECK_DEADLOCK FALSE
INVARIANTS
  TypeOK
  HoldsTheLivingOne
  LostOnlyIf
  SugarWhenAsked
PROPERTIES
  ImplementsOneInterpreter
