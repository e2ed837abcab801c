SPECIFICATION Spec
CONSTANTS
  Async = {a1}
  Value = {v1}
  MaxEntries = 2
  MaxArgs = 1
  Strict = FALSE
SYMMETRY Threads
INVARIANTS
  StatusTruthful
