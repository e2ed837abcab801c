SPECIFICATION Spec
CONSTANTS
  AsObj = {o1, o2}
  Number = Number
  Null = Null
  NotBoolean = NotBoolean
  Segments = {a, b, new}
  New = new
  Class = class
  Colons = colons
  Statics = {b}
  MaxPath = 4
  MaxLoads = 4
  Builtin = {"f", "g"}
  Broken = {"g"}
  Table = {t1, t2, t3}
  Given = t1
  Field = {1, 2}
  Scalar = Scalar
  NaN = NaN
  Unset = Unset
  Name = {a, b, c}
  Before = {a}
  Strings = {s1, s2}
  MaxIndex = 3
  HashValues = {0, 3}
  Nil = Nil
  Main = main
  Co = {co1, co2}
  MaxCCalls = 3
  ExtraCCalls = 1
  BasicCI = 2
  MaxCalls = 3
  Module = {m1, m2}
  Loaders = 1
  MaxRuns = 2
  MaxNested = 3
  Zero = "0"
  Subjects <- MCSubjects
  Items <- MCItems
  MaxItems = 3
  LateItems <- MCLateItems
  MaxLate = 2
  MaxCaptures = 2
  Item <- MCItem
  Nothing = 0
  Sorts <- MCSorts
  Leaves <- MCLeaves
  Operations <- MCOperations
  LateLeaves <- MCLateLeaves
  MaxOperands = 2
  Chunks <- MCChunks
  Inputs <- MCInputs
SYMMETRY Symmetry
CHECK_DEADLOCK FALSE
INVARIANTS
  ProxyIsTruthful
  PathsAgree
  LoadsAnswer
  CopiesTrees
  TableIsMap
  CallsUnwind
  NoStrayGlobal
PROPERTIES
  RunOnce
  SortRearranges
  MatchesFirstWay
  CompiledMeansSource
