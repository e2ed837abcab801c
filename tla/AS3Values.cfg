SPECIFICATION FairSpec
CONSTANTS
  Obj = {o1, stage}
  Fn = {f1, f2}
  LuaFn = {g1}
  Stage = stage
  Undefined = Undefined
  None = None
  MaxUdata = 4
  MaxHandlers = 2
  MaxRefs = 2
CHECK_DEADLOCK FALSE
INVARIANTS
  TypeOK
  HeldAlive
  OlderObjectsIntact
  HandlersRunInOrder
  LostOnlyIfMadeClosing
PROPERTIES
  OnlyTheseLeak
  CloseEnds
