----------------------------- MODULE LuaLibrary -----------------------------
(***************************************************************************)
(* LuaParts, and the parts of Lua 5.1 whose models recurse: its patterns   *)
(* and its compiler.  A behaviour is one of one part, which is chosen at   *)
(* the start; the variables of the others stay idle.                       *)
(***************************************************************************)
EXTENDS LuaParts

CONSTANTS
  Zero, Subjects, Items, MaxItems, LateItems, MaxLate,
  MaxCaptures,                                          \* LuaPatterns
  Leaves, Operations, LateLeaves, MaxOperands, Chunks,
  Inputs                                                \* LuaCompiler

VARIABLES
  pattern, anchored,
  expression, late, chunk, input

patterns  == <<pattern, anchored>>
compiling == <<expression, late, chunk, input>>

P == INSTANCE LuaPatterns
L == INSTANCE LuaCompiler

IdlePatterns == Idle(pattern) /\ Idle(anchored)
IdleCompiler == Idle(expression) /\ Idle(late) /\ Idle(chunk) /\ Idle(input)

Init ==
  /\ part \in {"sugar", "files", "toobject", "strict", "table", "threads",
               "modules", "patterns", "sort", "compiler"}
  /\ PartsInit
  /\ IF part = "patterns" THEN P!PatternsInit ELSE IdlePatterns
  /\ IF part = "compiler" THEN L!CompilerInit ELSE IdleCompiler

Next ==
  \/ PartsNext /\ UNCHANGED <<patterns, compiling>>
  \/ /\ part = "patterns" /\ P!PatternsNext
     /\ UNCHANGED <<parts, compiling>>
  \/ /\ part = "compiler" /\ L!CompilerNext
     /\ UNCHANGED <<parts, patterns>>

vars == <<parts, patterns, compiling>>
Spec == Init /\ [][Next]_vars

----------------------------------------------------------------------------
(* The properties of the parts added here.                                 *)

(* A match is the first way to match, for every pattern that a step makes  *)
(* (lstrlib.c).                                                            *)
MatchesFirstWay ==
  [][part = "patterns" => P!FirstWay(pattern', anchored')]_vars

(* The compiled program does what its source says, for every program that  *)
(* a step makes (lcode.c, lparser.c, lvm.c).                               *)
CompiledMeansSource ==
  [][part = "compiler" => L!MeansSource(chunk', expression', input')]_vars
=============================================================================
