----------------------------- MODULE Conversion -----------------------------
(***************************************************************************)
(* What becomes of a value that crosses the bridge (bridge_as3_lua.c), and *)
(* the calls in which values cross it: as3.tolua() and as3.toas3(), which  *)
(* convert their arguments one by one on the Lua stack                     *)
(* (as3_lua_interface.c), and calls from Flash of a Lua function that      *)
(* returns its arguments (lua_wrapper.gg, callbacks_as3_lua.c).            *)
(*                                                                         *)
(* An AS3 value is a record with a class, a Lua value one with a type.     *)
(* A userdata of the bridge is written as the AS3 value it carries, so     *)
(* that a slot of the Lua stack holds a record of either kind.  The class  *)
(* "Binary" and the type "binary" are strings that go on behind a zero     *)
(* byte; a class "nullable" is any whose name begins with null.            *)
(***************************************************************************)
EXTENDS Integers, Sequences

CONSTANTS
  Number,     \* numbers
  Integer,    \* those that AS3 may hold as int
  Text,       \* strings without a zero byte
  Fun,        \* Lua functions
  Object,     \* AS3 objects of no class that Lua has a type for
  MaxArgs     \* bound: arguments of one call

ASSUME ConstantsAssumption == Integer \subseteq Number /\ MaxArgs \in Nat

Lua(type, of)  == [type |-> type, of |-> of]
AS3(class, of) == [class |-> class, of |-> of]

Opaque == {"table", "thread", "lightuserdata"}

(* Strings: what becomes of opaque values is the name of their type. *)
String == Text \cup Opaque \cup {"userdata"}

(* What scripts hold apart from userdata of the bridge; a foreign userdata *)
(* has a metatable ("alien") or none ("bare").                             *)
Native ==
  {Lua("nil", "nil")}
    \cup [type : {"boolean"}, of : {"true", "false"}]
    \cup [type : {"number"}, of : Number]
    \cup [type : {"string", "binary"}, of : String]
    \cup [type : {"function"}, of : Fun]
    \cup [type : Opaque, of : {"opaque"}]
    \cup [type : {"userdata"}, of : {"alien", "bare"}]

(* What AS3 holds. *)
AS3Value ==
  {AS3("null", "null"), AS3("undefined", "undefined")}
    \cup [class : {"Boolean"}, of : {"true", "false"}]
    \cup [class : {"Number"}, of : Number]
    \cup [class : {"int"}, of : Integer]
    \cup [class : {"String", "Binary"}, of : String]
    \cup [class : {"Function"}, of : Fun]
    \cup [class : {"Object", "nullable"}, of : Object]

LuaValue == Native \cup AS3Value
Ours(v)  == v \in AS3Value

VARIABLES
  op,        \* the call in progress, or "idle"
  args,      \* its arguments
  stack,     \* the Lua stack of its C function
  answer     \* the last call: what it was, its arguments and its results

vars == <<op, args, stack, answer>>

NoAnswer == [op |-> "idle", args |-> <<>>, results |-> <<>>]

Init ==
  /\ op     = "idle"
  /\ args   = <<>>
  /\ stack  = <<>>
  /\ answer = NoAnswer

----------------------------------------------------------------------------
(* Conversions of one value.                                               *)

ForeignUserdata == AS3("String", "userdata")

(* get_as3_value_from_lua_stack_type(). *)
(* Mutant: a boolean falls through to the next case. *)
ToAS3FallsThrough(v) ==
  CASE Ours(v) -> v
    [] v \in Native /\ v.type \in {"string", "binary"} -> AS3("String", v.of)
    [] v \in Native /\ v.type \in {"boolean", "nil"} -> AS3("null", "null")
    [] v \in Native /\ v.type = "number"   -> AS3("Number", v.of)
    [] v \in Native /\ v.type = "userdata" -> ForeignUserdata
    [] v \in Native /\ v.type = "function" -> AS3("Function", v.of)
    [] v \in Native /\ v.type \in Opaque   -> AS3("String", v.type)
ToAS3(v) ==
  CASE Ours(v) -> v
    [] v \in Native /\ v.type \in {"string", "binary"} -> AS3("String", v.of)
    [] v \in Native /\ v.type = "boolean"  -> AS3("Boolean", v.of)
    [] v \in Native /\ v.type = "number"   -> AS3("Number", v.of)
    [] v \in Native /\ v.type = "nil"      -> AS3("null", "null")
    [] v \in Native /\ v.type = "userdata" -> ForeignUserdata
    [] v \in Native /\ v.type = "function" -> AS3("Function", v.of)
    [] v \in Native /\ v.type \in Opaque   -> AS3("String", v.type)

(* is_null(): the first four characters of the class name.                 *)
is_null(a) == a.class \in {"null", "nullable"}

(* push_as3_to_lua_stack(): a userdata if there is no Lua type for it.     *)
(* Mutant: undefined stays what it is. *)
ToLuaNullOnly(a) ==
  CASE a.class \in {"Number", "int"}    -> Lua("number", a.of)
    [] a.class \in {"String", "Binary"} -> Lua("string", a.of)
    [] a.class = "Boolean"              -> Lua("boolean", a.of)
    [] is_null(a)                       -> Lua("nil", "nil")
    [] OTHER                            -> a
ToLua(a) ==
  CASE a.class \in {"Number", "int"}    -> Lua("number", a.of)
    [] a.class \in {"String", "Binary"} -> Lua("string", a.of)
    [] a.class = "Boolean"              -> Lua("boolean", a.of)
    [] a.class = "undefined"            -> Lua("nil", "nil")
    [] is_null(a)                       -> Lua("nil", "nil")
    [] OTHER                            -> a

----------------------------------------------------------------------------
(* as3.tolua() and as3.toas3().                                            *)

AS3LUA_METATABLE == Lua("table", "AS3LUA_METATABLE")

(* lua_getmetatable() finds one, and which. *)
IsUserdata(v)   == Ours(v) \/ v.type = "userdata"
HasMetatable(v) == Ours(v) \/ (v.type = "userdata" /\ v.of = "alien")
Metatable(v)    == IF Ours(v) THEN AS3LUA_METATABLE
                              ELSE Lua("table", "alien")

Base == Len(args)              \* LBASE: the arguments lie below
Done == Len(stack) - Base - 1  \* arguments converted

Ready == op = "idle" /\ answer = NoAnswer

Begin(which) ==
  /\ Ready
  /\ \E n \in 0..MaxArgs : \E vs \in [1..n -> LuaValue] : args' = vs
  /\ op' = which
  /\ stack' = Append(args', AS3LUA_METATABLE)
  /\ UNCHANGED answer

Push(v) == /\ stack' = Append(stack, v)
           /\ UNCHANGED <<op, args, answer>>

(* Mutant: the metatable is sought below the top. *)
as3_toluaBelowTop ==
  /\ op = "tolua" /\ Done < Base
  /\ LET v == stack[Done + 1]
     IN Push(IF /\ HasMetatable(v)
                /\ stack[Len(stack)] = Metatable(v)
             THEN ToLua(v) ELSE v)
as3_tolua ==
  /\ op = "tolua" /\ Done < Base
  /\ LET v == stack[Done + 1]
     IN Push(IF /\ HasMetatable(v)
                /\ stack[Base + 1] = Metatable(v)
             THEN ToLua(v) ELSE v)

(* The metatable of the argument, pushed, is compared with the slot below. *)
as3_toas3 ==
  /\ op = "toas3" /\ Done < Base
  /\ LET v == stack[Done + 1]
     IN Push(IF ~IsUserdata(v) THEN ToAS3(v)
             ELSE IF HasMetatable(v) /\ stack[Len(stack)] = Metatable(v)
                  THEN v ELSE ForeignUserdata)

(* lua_remove() of the metatable; the results are on top.                  *)
(* Mutant: one slot too low. *)
ResultsBelow == SubSeq(stack, Base + 1, Len(stack) - 1)
Results == SubSeq(stack, Base + 2, Len(stack))

End ==
  /\ op \in {"tolua", "toas3"} /\ Done = Base
  /\ answer' = [op |-> op, args |-> args, results |-> Results]
  /\ op' = "idle" /\ args' = <<>> /\ stack' = <<>>

----------------------------------------------------------------------------
(* Flash calls a Lua function that returns its arguments.                  *)

(* create_as3_value_from_lua_stack() with collapse_array.                  *)
Collapsed(vs) == IF vs = <<>> THEN <<AS3("null", "null")>> ELSE vs

(* callGlobal: arguments are converted; results come as an array.          *)
(* A callback: arguments are userdata; results are collapsed.              *)
callGlobal ==
  /\ Ready
  /\ \E n \in 0..MaxArgs : \E as \in [1..n -> AS3Value] :
       answer' = [op |-> "callGlobal", args |-> as,
                  results |-> [i \in 1..n |-> ToAS3(ToLua(as[i]))]]
  /\ UNCHANGED <<op, args, stack>>

as3_lua_callback ==
  /\ Ready
  /\ \E n \in 0..MaxArgs : \E as \in [1..n -> AS3Value] :
       answer' = [op |-> "callback", args |-> as,
                  results |-> Collapsed([i \in 1..n |-> ToAS3(as[i])])]
  /\ UNCHANGED <<op, args, stack>>

(* The caller takes the results. *)
Take == answer # NoAnswer /\ answer' = NoAnswer /\ UNCHANGED <<op, args, stack>>

Next ==
  \/ Begin("tolua") \/ Begin("toas3")
  \/ as3_tolua \/ as3_toas3 \/ End
  \/ callGlobal \/ as3_lua_callback \/ Take

Spec == Init /\ [][Next]_vars

----------------------------------------------------------------------------
(* Properties.                                                             *)

(* Arguments, stack and results hold values, and nothing else.             *)
TypeOK ==
  /\ op \in {"idle", "tolua", "toas3"}
  /\ args \in Seq(LuaValue)
  /\ stack \in Seq(LuaValue \cup {AS3LUA_METATABLE})
  /\ answer.op \in {"idle", "tolua", "toas3", "callGlobal", "callback"}
  /\ answer.args \in Seq(LuaValue) /\ answer.results \in Seq(LuaValue)

(* as3.tolua() answers one value for each argument, and the argument       *)
(* itself where it is a Lua value or an AS3 value without a Lua type,      *)
(* whatever stands before it in the list.                                  *)
ToLuaOneByOne ==
  answer.op = "tolua" =>
    /\ Len(answer.results) = Len(answer.args)
    /\ \A i \in DOMAIN answer.args :
         LET v == answer.args[i]  r == answer.results[i]
         IN IF v \in Native \/ v.class \in {"Function", "Object"}
            THEN r = v ELSE r \in Native

(* What a script can pass to AS3 and get back as it was. *)
Simple(v) == v \in Native /\ v.type \in {"nil", "boolean", "number", "string"}

(* as3.toas3() makes of each simple value an AS3 value that as3.tolua()    *)
(* makes the same value of, of any other Lua value an AS3 value too; what  *)
(* is an AS3 value it leaves alone, if it is the first argument.           *)
ToAS3AndBack ==
  answer.op = "toas3" =>
    /\ Len(answer.results) = Len(answer.args)
    /\ \A i \in DOMAIN answer.args :
         LET v == answer.args[i]  r == answer.results[i]
         IN /\ r \in AS3Value
            /\ Simple(v) => ToLua(r) = v
            /\ Ours(v) /\ i = 1 => r = v

(* as3_toas3: an argument that is an AS3 value is returned intact.         *)
ToAS3Intact ==
  answer.op = "toas3" =>
    \A i \in DOMAIN answer.args :
      Ours(answer.args[i]) => answer.results[i] = answer.args[i]

(* What Flash passes to a function that returns it comes back: through a   *)
(* callback as it was; through callGlobal undefined and any object of a    *)
(* class named null... as null, an int as a Number, a string up to its     *)
(* first zero byte, and the rest as it was.                                *)
FlashGetsBack ==
  /\ answer.op = "callback" =>
       \/ answer.results = answer.args
       \/ answer.args = <<>> /\ answer.results = <<AS3("null", "null")>>
  /\ answer.op = "callGlobal" =>
       /\ Len(answer.results) = Len(answer.args)
       /\ \A i \in DOMAIN answer.args :
            LET a == answer.args[i]  r == answer.results[i]
            IN CASE a.class \in {"undefined", "nullable"} -> r.class = "null"
                 [] a.class = "int"    -> r = AS3("Number", a.of)
                 [] a.class = "Binary" -> r = AS3("String", a.of)
                 [] OTHER              -> r = a
=============================================================================
