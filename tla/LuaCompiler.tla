----------------------------- MODULE LuaCompiler -----------------------------
(***************************************************************************)
(* Programs for the compiler and the virtual machine: an expression grows  *)
(* by an operator at a time, is put where a program may have one, and what *)
(* the compiled program does is compared with what its source means.       *)
(*                                                                         *)
(* Only TLC uses this module.                                              *)
(***************************************************************************)
EXTENDS LuaPrograms

CONSTANTS
  Leaves,      \* bound: the operands
  Operations,  \* bound: the first operator
  LateLeaves,  \* bound: the operands that are added later
  MaxOperands,     \* bound: how many times one is added, by "and" or "or"
  Chunks,      \* bound: programs with other statements
  Inputs       \* bound: what reading globals and calls out of Lua give

VARIABLES
  expression,  \* the expression so far
  late,        \* how many operands have been added late
  chunk,       \* the program, <<>> while the expression grows
  input        \* what it will be given

compiling == <<expression, late, chunk, input>>

Var(n)    == <<"var", n>>
Num(n)    == <<"num", n>>
Return(e) == <<"return", <<e>>>>

(* The places of an expression: a result, the value of a local variable    *)
(* that is new or the one it reads, a condition.                           *)
Places(e) ==
  LET local == <<"local", <<"x">>, <<Num(2)>>>>
  IN  [result    |-> <<local, Return(e)>>,
       condition |-> <<local, <<"if", <<<<e, <<Return(Num(5))>>>>>>, <<>>>>,
                       Return(Num(6))>>,
       new       |-> <<local, <<"local", <<"y">>, <<e>>>>, Return(Var("y"))>>,
       same      |-> <<local, <<"set", <<Var("x")>>, <<e>>>>,
                       Return(Var("x"))>>]

CompilerInit ==
  /\ expression \in Leaves /\ late = 0 /\ chunk = <<>>
  /\ input \in Inputs

Grow ==
  /\ chunk = <<>> /\ expression \in Leaves
  /\ \/ expression' = <<"not", expression>>
     \/ \E op \in Operations, e \in Leaves :
          expression' = <<"bin", op, expression, e>>
  /\ UNCHANGED <<late, chunk, input>>

GrowLate ==
  /\ chunk = <<>> /\ expression \notin Leaves /\ late < MaxOperands
  /\ late' = late + 1
  /\ \/ expression' = <<"not", expression>>
     \/ \E op \in {"and", "or"}, e \in LateLeaves :
          expression' \in {<<"bin", op, expression, e>>}
            \cup IF late = 0 THEN {<<"bin", op, e, expression>>} ELSE {}
  /\ UNCHANGED <<chunk, input>>

Put ==
  /\ chunk = <<>>
  /\ \E place \in IF late < MaxOperands
                  THEN {"result", "condition", "new", "same"} ELSE {"result"} :
       chunk' = Places(expression)[place]
  /\ UNCHANGED <<expression, late, input>>

Write ==
  /\ chunk = <<>> /\ expression = <<"nil">>
  /\ chunk' \in Chunks /\ UNCHANGED <<expression, late, input>>

CompilerNext == Grow \/ GrowLate \/ Put \/ Write
CompilerSpec == CompilerInit /\ [][CompilerNext]_compiling

----------------------------------------------------------------------------
(* Properties.                                                             *)

(* An "and" after an operand that ends in the constant false, or an "or"   *)
(* after one that ends in true, and other jumps go to the constant.  The   *)
(* jump that luaK_goiftrue() or luaK_goiffalse() makes for it takes them   *)
(* with it: the value they tested becomes the result.                      *)
RECURSIVE Logical(_), Ends(_, _), JumpLost(_)
Logical(e) == \/ e[1] = "bin" /\ e[2] \in {"and", "or"}
              \/ e[1] = "not" /\ Logical(e[2])
Ends(e, constant) ==
  /\ e[1] = "bin" /\ e[2] \in {"and", "or"}
  /\ \/ e[4] = <<constant>> /\ Logical(e[3])
     \/ Ends(e[4], constant)
JumpLost(e) ==
  \/ e[1] = "not" /\ JumpLost(e[2])
  \/ /\ e[1] = "bin"
     /\ \/ JumpLost(e[3]) \/ JumpLost(e[4])
        \/ e[2] = "and" /\ Ends(e[3], "false")
        \/ e[2] = "or" /\ Ends(e[3], "true")

(* What is compiled does what the source says, in this order: the same     *)
(* answers, the same globals and calls, the same tables; and the code      *)
(* passes the checker for precompiled chunks.  Expressions of JumpLost     *)
(* need not: the manual says of both operators which operand they give.    *)
MeansSource(program, e, in) ==
  program # <<>> =>
    /\ Checked(luaY_parser(program))
    /\ JumpLost(e) \/ Outcome(program, in) = Meaning(program, in)
CompiledMeansSource ==
  [][MeansSource(chunk', expression', input')]_compiling
=============================================================================
