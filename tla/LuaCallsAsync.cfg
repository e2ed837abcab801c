SPECIFICATION Spec
CONSTANTS
  Async = {a1, a2}
  Value = {v1}
  MaxEntries = 3
  MaxArgs = 1
  Strict = FALSE
SYMMETRY Threads
INVARIANTS
  NeverCrossed
