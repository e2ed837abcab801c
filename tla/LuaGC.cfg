SPECIFICATION GcSpec
CONSTANTS
  Tables = {reg, t1}
  Udata = {u1, u2}
  Closures = {c1}
  Upvals = {v1}
  Strings = {s1}
  Threads = {main, co}
  Finalizable = {u1}
  Registry = reg
  MainThread = main
  Nil = Nil
  Pools = {{t1, u1}, {t1, s1}, {c1, v1, co}, {c1, v1, u1}, {u1, u2}}
  Watched = {t1, v1, u2}
INVARIANTS
  GcTypeOK
  NoDangling
  TriColor
PROPERTIES
  FinalizeOnlyLost
  GarbageFreed
