SPECIFICATION Spec
CONSTANTS
  Async = {a1, a2}
  Value = {v1, v2}
  MaxEntries = 3
  MaxArgs = 1
  Strict = TRUE
SYMMETRY Threads
INVARIANTS
  TypeOK
  FlagIsInnermost
  AnswerIsWhatScriptLeft
  StatusTruthfulAtBottom
  Balanced
  ArgumentsKept
  AtRest
  OneAsyncCallIsSafe
