SPECIFICATION Spec
CONSTANTS
  Number = {n1, n2}
  Integer = {n1}
  Text = {s1}
  Fun = {f1}
  Object = {o1}
  MaxArgs = 3
INVARIANTS
  TypeOK
  ToLuaOneByOne
  ToAS3AndBack
  FlashGetsBack
