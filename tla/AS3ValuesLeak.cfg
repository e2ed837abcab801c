SPECIFICATION Spec
CONSTANTS
  Obj = {o1, stage}
  Fn = {f1}
  LuaFn = {g1}
  Stage = stage
  Undefined = Undefined
  None = None
  MaxUdata = 3
  MaxHandlers = 1
  MaxRefs = 3
CHECK_DEADLOCK FALSE
PROPERTIES NoLeak
