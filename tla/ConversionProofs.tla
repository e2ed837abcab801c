-------------------------- MODULE ConversionProofs --------------------------
(* Theorems about Conversion for every set of values and any number of     *)
(* arguments.                                                              *)
EXTENDS Conversion, SequenceTheorems, TLAPS

(* What as3.tolua() and as3.toas3() push for the i-th argument v.          *)
Right(which, i, v, r) ==
  IF which = "tolua"
  THEN IF v \in Native \/ v.class \in {"Function", "Object"}
       THEN r = v ELSE r \in Native
  ELSE /\ r \in AS3Value
       /\ Simple(v) => ToLua(r) = v
       /\ Ours(v) /\ i = 1 => r = v

(* A conversion in progress: the arguments, the metatable, and what has    *)
(* been made of the first arguments, in this order.                        *)
InProgress ==
  op # "idle" =>
    /\ Done \in 0..Base
    /\ \A i \in 1..Base : stack[i] = args[i]
    /\ stack[Base + 1] = AS3LUA_METATABLE
    /\ \A i \in 1..Done : Right(op, i, args[i], stack[Base + 1 + i])

Answers == ToLuaOneByOne /\ ToAS3AndBack /\ FlashGetsBack

IInv == TypeOK /\ InProgress /\ Answers

----------------------------------------------------------------------------
(* One value.                                                              *)

(* Lua values and AS3 values are told apart by the fields of their records. *)
LEMMA Kinds ==
  /\ \A v \in Native   : DOMAIN v = {"type", "of"}
  /\ \A v \in AS3Value : DOMAIN v = {"class", "of"}
  /\ \A v \in Native   : ~Ours(v)
<1>1. \A v \in Native : DOMAIN v = {"type", "of"}
  BY DEF Native, Lua
<1>2. \A v \in AS3Value : DOMAIN v = {"class", "of"}
  BY DEF AS3Value, AS3
<1>3. {"type", "of"} # {"class", "of"}
  OBVIOUS
<1> QED BY <1>1, <1>2, <1>3 DEF Ours

(* The types of Lua values.                                                *)
LEMMA Types ==
  ASSUME NEW v \in Native
  PROVE  \/ v = Lua("nil", "nil") /\ v.type = "nil"
         \/ /\ v.type = "boolean" /\ v.of \in {"true", "false"}
            /\ v = Lua("boolean", v.of)
         \/ v.type = "number" /\ v.of \in Number /\ v = Lua("number", v.of)
         \/ v.type = "string" /\ v.of \in String /\ v = Lua("string", v.of)
         \/ v.type = "binary" /\ v.of \in String
         \/ v.type = "function" /\ v.of \in Fun
         \/ v.type \in Opaque
         \/ v.type = "userdata"
BY DEF Native, Lua

(* The classes of AS3 values.                                              *)
LEMMA Classes ==
  ASSUME NEW a \in AS3Value
  PROVE  \/ a = AS3("null", "null") /\ a.class = "null"
         \/ a.class = "undefined"
         \/ /\ a.class = "Boolean" /\ a.of \in {"true", "false"}
            /\ a = AS3("Boolean", a.of)
         \/ a.class = "Number" /\ a.of \in Number /\ a = AS3("Number", a.of)
         \/ a.class = "int" /\ a.of \in Number
         \/ a.class = "String" /\ a.of \in String /\ a = AS3("String", a.of)
         \/ a.class = "Binary" /\ a.of \in String
         \/ a.class = "Function"
         \/ a.class = "Object"
         \/ a.class = "nullable"
BY ConstantsAssumption DEF AS3Value, AS3

(* Records of the AS3 values and Lua values that conversions make.         *)
LEMMA Made ==
  /\ \A x \in {"true", "false"} :
       /\ Lua("boolean", x) \in Native /\ AS3("Boolean", x) \in AS3Value
  /\ \A x \in Number :
       /\ Lua("number", x) \in Native /\ AS3("Number", x) \in AS3Value
  /\ \A x \in String :
       /\ Lua("string", x) \in Native /\ AS3("String", x) \in AS3Value
  /\ \A x \in Fun : AS3("Function", x) \in AS3Value
  /\ Lua("nil", "nil") \in Native /\ AS3("null", "null") \in AS3Value
  /\ \A x \in Opaque : x \in String
  /\ ForeignUserdata \in AS3Value
BY DEF Native, AS3Value, Lua, AS3, ForeignUserdata, String

(* push_as3_to_lua_stack() by class.                                       *)
LEMMA ToLuaLemma ==
  ASSUME NEW a \in AS3Value
  PROVE  /\ ToLua(a) \in LuaValue
         /\ IF a.class \in {"Function", "Object"} THEN ToLua(a) = a
                                                  ELSE ToLua(a) \in Native
         /\ a.class \in {"null", "undefined", "nullable"}
              => ToLua(a) = Lua("nil", "nil")
         /\ a.class = "Boolean" => ToLua(a) = Lua("boolean", a.of)
         /\ a.class \in {"Number", "int"} => ToLua(a) = Lua("number", a.of)
         /\ a.class \in {"String", "Binary"} => ToLua(a) = Lua("string", a.of)
BY Classes, Made DEF ToLua, is_null, LuaValue

(* get_as3_value_from_lua_stack_type() by type.                            *)
LEMMA ToAS3Lemma ==
  ASSUME NEW v \in LuaValue
  PROVE  /\ ToAS3(v) \in AS3Value
         /\ Ours(v) => ToAS3(v) = v
         /\ v \in Native =>
              /\ v.type \in {"string", "binary"}
                   => ToAS3(v) = AS3("String", v.of)
              /\ v.type = "boolean" => ToAS3(v) = AS3("Boolean", v.of)
              /\ v.type = "number"  => ToAS3(v) = AS3("Number", v.of)
              /\ v.type = "nil"     => ToAS3(v) = AS3("null", "null")
<1>1. CASE Ours(v)
  <2>1. v \notin Native
    BY <1>1, Kinds
  <2>2. ToAS3(v) = v
    BY <1>1, <2>1 DEF ToAS3
  <2> QED BY <1>1, <2>1, <2>2 DEF Ours
<1>2. CASE ~Ours(v)
  <2>1. v \in Native
    BY <1>2 DEF LuaValue, Ours
  <2> QED BY <1>2, <2>1, Types, Made DEF ToAS3, Opaque
<1> QED BY <1>1, <1>2

(* A simple value is the same after the way to AS3 and back.               *)
LEMMA SimpleComesBack ==
  ASSUME NEW v \in LuaValue, Simple(v)
  PROVE  ToLua(ToAS3(v)) = v
<1>1. v \in Native /\ v.type \in {"nil", "boolean", "number", "string"}
  BY DEF Simple
<1>2. /\ ToAS3(v) \in AS3Value
      /\ v.type = "string"  => ToAS3(v) = AS3("String", v.of)
      /\ v.type = "boolean" => ToAS3(v) = AS3("Boolean", v.of)
      /\ v.type = "number"  => ToAS3(v) = AS3("Number", v.of)
      /\ v.type = "nil"     => ToAS3(v) = AS3("null", "null")
  BY <1>1, ToAS3Lemma
<1>3. \A c, x : AS3(c, x).class = c /\ AS3(c, x).of = x
  BY DEF AS3
<1>4. /\ v.type = "nil"     => v = Lua("nil", "nil")
      /\ v.type = "boolean" => v = Lua("boolean", v.of)
      /\ v.type = "number"  => v = Lua("number", v.of)
      /\ v.type = "string"  => v = Lua("string", v.of)
  BY <1>1, Types DEF Opaque
<1> QED BY <1>1, <1>2, <1>3, <1>4, ToLuaLemma

(* What comes back to AS3 through callGlobal.                              *)
LEMMA ThroughLua ==
  ASSUME NEW a \in AS3Value, NEW r, r = ToAS3(ToLua(a))
  PROVE  /\ r \in LuaValue
         /\ CASE a.class \in {"undefined", "nullable"} -> r.class = "null"
              [] a.class = "int"    -> r = AS3("Number", a.of)
              [] a.class = "Binary" -> r = AS3("String", a.of)
              [] OTHER              -> r = a
<1>1. \A t, x : Lua(t, x).type = t /\ Lua(t, x).of = x
  BY DEF Lua
<1>2. AS3("null", "null").class = "null"
  BY DEF AS3
<1>3. r \in AS3Value /\ r \in LuaValue
  BY ToLuaLemma, ToAS3Lemma DEF LuaValue
<1>4. CASE a.class \in {"Function", "Object"}
  <2>1. ToLua(a) = a /\ Ours(a) /\ a \in LuaValue
    BY <1>4, ToLuaLemma DEF Ours, LuaValue
  <2>2. r = a
    BY <2>1, ToAS3Lemma
  <2> QED BY <1>3, <1>4, <2>2
<1>5. CASE a.class \notin {"Function", "Object"}
  <2>1. ToLua(a) \in Native /\ ToLua(a) \in LuaValue
    BY <1>5, ToLuaLemma
  <2>2. /\ ToLua(a).type = "string" => r = AS3("String", ToLua(a).of)
        /\ ToLua(a).type = "boolean" => r = AS3("Boolean", ToLua(a).of)
        /\ ToLua(a).type = "number"  => r = AS3("Number", ToLua(a).of)
        /\ ToLua(a).type = "nil"     => r = AS3("null", "null")
    BY <2>1, ToAS3Lemma
  <2>3. /\ a.class \in {"null", "undefined", "nullable"}
             => r = AS3("null", "null")
        /\ a.class = "Boolean" => r = AS3("Boolean", a.of)
        /\ a.class \in {"Number", "int"} => r = AS3("Number", a.of)
        /\ a.class \in {"String", "Binary"} => r = AS3("String", a.of)
    BY <1>1, <2>2, ToLuaLemma
  <2> QED BY <1>2, <1>3, <1>5, <2>3, Classes
<1> QED BY <1>4, <1>5

----------------------------------------------------------------------------
(* Steps.                                                                  *)

LEMMA TupleIsSeq ==
  ASSUME NEW S, NEW n \in Nat, NEW s \in [1..n -> S]
  PROVE  s \in Seq(S) /\ Len(s) = n /\ \A i \in 1..n : s[i] \in S
<1>1. s \in Seq(S)
  BY SeqDef
<1>2. Len(s) = n
  BY <1>1, LenProperties
<1> QED BY <1>1, <1>2

LEMMA InitIInv == Init => IInv
<1> SUFFICES ASSUME Init PROVE IInv
  OBVIOUS
<1>1. \A S : <<>> \in Seq(S)
  BY EmptySeq
<1>2. TypeOK
  BY <1>1 DEF Init, TypeOK, NoAnswer
<1>3. InProgress
  BY DEF Init, InProgress
<1>4. Answers
  BY DEF Init, Answers, NoAnswer, ToLuaOneByOne, ToAS3AndBack, FlashGetsBack
<1> QED BY <1>2, <1>3, <1>4 DEF IInv

(* The answer as it was keeps its properties.                              *)
LEMMA SameAnswer == Answers /\ UNCHANGED answer => Answers'
BY DEF Answers, ToLuaOneByOne, ToAS3AndBack, FlashGetsBack

LEMMA BeginStep ==
  ASSUME IInv, NEW which \in {"tolua", "toas3"}, Begin(which)
  PROVE  IInv'
<1>1. PICK n \in 0..MaxArgs : \E vs \in [1..n -> LuaValue] : args' = vs
  BY DEF Begin
<1>2. n \in Nat
  BY <1>1, ConstantsAssumption
<1>3. /\ args' \in Seq(LuaValue) /\ Len(args') \in Nat
      /\ args' \in Seq(LuaValue \cup {AS3LUA_METATABLE})
  <2>1. args' \in Seq(LuaValue)
    BY <1>1, <1>2, TupleIsSeq
  <2>2. \A i \in 1..Len(args') : args'[i] \in LuaValue
    BY <2>1, ElementOfSeq
  <2> QED BY <2>1, <2>2, LenProperties, SeqDef
<1>4. /\ stack' \in Seq(LuaValue \cup {AS3LUA_METATABLE})
      /\ Len(stack') = Len(args') + 1
      /\ \A i \in 1..Len(args') : stack'[i] = args'[i]
      /\ stack'[Len(args') + 1] = AS3LUA_METATABLE
  BY <1>3, AppendProperties DEF Begin
<1>5. TypeOK'
  BY <1>3, <1>4 DEF Begin, IInv, TypeOK
<1>6. Done' = 0 /\ Base' \in Nat
  BY <1>3, <1>4 DEF Done, Base
<1>7. InProgress'
  BY <1>4, <1>6 DEF InProgress, Base
<1> QED BY <1>5, <1>7, SameAnswer DEF IInv, Begin

(* An argument is where it was, below the metatable.                       *)
LEMMA Converting ==
  ASSUME IInv, op # "idle"
  PROVE  /\ Base \in Nat /\ Done \in 0..Base
         /\ Len(stack) = Base + 1 + Done
         /\ stack \in Seq(LuaValue \cup {AS3LUA_METATABLE})
         /\ \A i \in 1..Base : args[i] \in LuaValue /\ stack[i] = args[i]
         /\ stack[Base + 1] = AS3LUA_METATABLE
         /\ \A i \in 1..Done : Right(op, i, args[i], stack[Base + 1 + i])
<1>1. Base \in Nat /\ Len(stack) \in Nat
  BY LenProperties DEF IInv, TypeOK, Base
<1>2. \A i \in 1..Base : args[i] \in LuaValue
  BY ElementOfSeq DEF IInv, TypeOK, Base
<1>3. Len(stack) = Base + 1 + Done
  BY <1>1 DEF Done
<1> QED BY <1>1, <1>2, <1>3 DEF IInv, InProgress, TypeOK

LEMMA PushStep ==
  ASSUME IInv, op # "idle", Done < Base, NEW v \in LuaValue,
         Right(op, Done + 1, args[Done + 1], v), Push(v)
  PROVE  IInv'
<1>1. /\ Base \in Nat /\ Done \in 0..Base
      /\ Len(stack) = Base + 1 + Done
      /\ stack \in Seq(LuaValue \cup {AS3LUA_METATABLE})
      /\ \A i \in 1..Base : args[i] \in LuaValue /\ stack[i] = args[i]
      /\ stack[Base + 1] = AS3LUA_METATABLE
      /\ \A i \in 1..Done : Right(op, i, args[i], stack[Base + 1 + i])
  BY Converting
<1>2. stack' = Append(stack, v) /\ op' = op /\ args' = args /\ answer' = answer
  BY DEF Push
<1>3. /\ stack' \in Seq(LuaValue \cup {AS3LUA_METATABLE})
      /\ Len(stack') = Len(stack) + 1
      /\ \A i \in 1..Len(stack) : stack'[i] = stack[i]
      /\ stack'[Len(stack) + 1] = v
  <2> DEFINE S == LuaValue \cup {AS3LUA_METATABLE}
  <2>1. v \in S /\ stack \in Seq(S)
    BY <1>1
  <2> HIDE DEF S
  <2>2. /\ Append(stack, v) \in Seq(S)
        /\ Len(Append(stack, v)) = Len(stack) + 1
        /\ \A i \in 1..Len(stack) : Append(stack, v)[i] = stack[i]
        /\ Append(stack, v)[Len(stack) + 1] = v
    BY <2>1, AppendProperties
  <2> QED BY <1>2, <2>2 DEF S
<1>4. Base' = Base /\ Done' = Done + 1 /\ Done' \in 0..Base'
  BY <1>1, <1>2, <1>3 DEF Base, Done
<1>5. /\ \A i \in 1..Base : stack'[i] = args[i]
      /\ stack'[Base + 1] = AS3LUA_METATABLE
  BY <1>1, <1>3
<1>6. ASSUME NEW i \in 1..Done + 1
      PROVE  Right(op, i, args[i], stack'[Base + 1 + i])
  <2>1. CASE i = Done + 1
    <3>1. Base + 1 + i = Len(stack) + 1
      BY <1>1, <2>1
    <3> QED BY <1>3, <2>1, <3>1
  <2>2. CASE i \in 1..Done
    <3>1. Base + 1 + i \in 1..Len(stack)
      BY <1>1, <2>2
    <3> QED BY <1>1, <1>3, <2>2, <3>1
  <2> QED BY <1>1, <2>1, <2>2
<1>7. InProgress'
  BY <1>2, <1>4, <1>5, <1>6 DEF InProgress
<1>8. TypeOK'
  BY <1>2, <1>3 DEF IInv, TypeOK
<1> QED BY <1>2, <1>7, <1>8, SameAnswer DEF IInv

(* Only userdata of the bridge have the bridge's metatable.                *)
LEMMA MetatableTells ==
  ASSUME NEW v \in LuaValue
  PROVE  Metatable(v) = AS3LUA_METATABLE <=> Ours(v)
BY DEF Metatable, AS3LUA_METATABLE, Lua

LEMMA ToLuaStep == IInv /\ as3_tolua => IInv'
<1> SUFFICES ASSUME IInv, as3_tolua PROVE IInv'
  OBVIOUS
<1> DEFINE v == stack[Done + 1]
           r == IF /\ HasMetatable(v)
                   /\ stack[Base + 1] = Metatable(v)
                THEN ToLua(v) ELSE v
<1>1. op = "tolua" /\ Done < Base /\ Push(r)
  BY DEF as3_tolua
<1>2. /\ Base \in Nat /\ Done \in 0..Base
      /\ stack[Base + 1] = AS3LUA_METATABLE
      /\ \A i \in 1..Base : args[i] \in LuaValue /\ stack[i] = args[i]
  BY <1>1, Converting
<1>3. v = args[Done + 1] /\ v \in LuaValue
  BY <1>1, <1>2
<1>4. CASE Ours(v)
  <2>1. v \in AS3Value /\ v \notin Native
    BY <1>4, Kinds DEF Ours
  <2>2. r = ToLua(v)
    BY <1>2, <1>3, <1>4, MetatableTells DEF HasMetatable
  <2>3. r \in LuaValue /\ Right(op, Done + 1, v, r)
    BY <1>1, <2>1, <2>2, ToLuaLemma DEF Right
  <2> QED BY <1>1, <1>3, <2>3, PushStep
<1>5. CASE ~Ours(v)
  <2>1. v \in Native
    BY <1>3, <1>5 DEF LuaValue, Ours
  <2>2. r = v
    BY <1>2, <1>3, <1>5, MetatableTells
  <2>3. r \in LuaValue /\ Right(op, Done + 1, v, r)
    BY <1>1, <1>3, <2>1, <2>2 DEF Right
  <2> QED BY <1>1, <1>3, <2>3, PushStep
<1> QED BY <1>4, <1>5

LEMMA ToAS3Step == IInv /\ as3_toas3 => IInv'
<1> SUFFICES ASSUME IInv, as3_toas3 PROVE IInv'
  OBVIOUS
<1> DEFINE v == stack[Done + 1]
           r == IF ~IsUserdata(v) THEN ToAS3(v)
                ELSE IF HasMetatable(v) /\ stack[Len(stack)] = Metatable(v)
                     THEN v ELSE ForeignUserdata
<1>1. op = "toas3" /\ Done < Base /\ Push(r)
  BY DEF as3_toas3
<1>2. /\ Base \in Nat /\ Done \in 0..Base /\ Len(stack) = Base + 1 + Done
      /\ stack[Base + 1] = AS3LUA_METATABLE
      /\ \A i \in 1..Base : args[i] \in LuaValue /\ stack[i] = args[i]
      /\ \A i \in 1..Done : Right(op, i, args[i], stack[Base + 1 + i])
  BY <1>1, Converting
<1>3. v = args[Done + 1] /\ v \in LuaValue
  BY <1>1, <1>2
<1>4. stack[Len(stack)] # Lua("table", "alien")
  <2>1. CASE Done = 0
    BY <1>2, <2>1 DEF AS3LUA_METATABLE, Lua
  <2>2. CASE Done # 0
    <3>1. Done \in 1..Done /\ stack[Len(stack)] = stack[Base + 1 + Done]
      BY <1>2, <2>2
    <3>2. stack[Len(stack)] \in AS3Value
      BY <1>1, <1>2, <3>1 DEF Right
    <3>3. stack[Len(stack)] # Lua("table", "alien")
      BY <3>2, Kinds DEF Lua
    <3> QED BY <3>3
  <2> QED BY <2>1, <2>2
<1>5. CASE ~IsUserdata(v)
  <2>1. ~Ours(v) /\ r = ToAS3(v)
    BY <1>5 DEF IsUserdata
  <2>2. r \in AS3Value /\ (Simple(v) => ToLua(r) = v)
    BY <1>3, <2>1, ToAS3Lemma, SimpleComesBack
  <2>3. r \in LuaValue /\ Right(op, Done + 1, v, r)
    BY <1>1, <2>1, <2>2 DEF Right, LuaValue
  <2> QED BY <1>1, <1>3, <2>3, PushStep
<1>6. CASE IsUserdata(v)
  <2>1. ~Simple(v)
    BY <1>6, Kinds DEF IsUserdata, Simple
  <2>2. Ours(v) => Done + 1 # 1 \/ r = v
    <3> SUFFICES ASSUME Ours(v), Done = 0 PROVE r = v
      BY <1>2
    <3>1. stack[Len(stack)] = Metatable(v) /\ HasMetatable(v)
      BY <1>2 DEF Metatable, HasMetatable
    <3> QED BY <1>6, <3>1
  <2>3. r \in AS3Value
    <3>1. CASE Ours(v)
      BY <1>6, <3>1, Made DEF Ours
    <3>2. CASE ~Ours(v)
      BY <1>4, <1>6, <3>2, Made DEF Metatable
    <3> QED BY <3>1, <3>2
  <2>4. r \in LuaValue /\ Right(op, Done + 1, v, r)
    BY <1>1, <2>1, <2>2, <2>3 DEF Right, LuaValue
  <2> QED BY <1>1, <1>3, <2>4, PushStep
<1> QED BY <1>5, <1>6

LEMMA EndStep == IInv /\ End => IInv'
<1> SUFFICES ASSUME IInv, End PROVE IInv'
  OBVIOUS
<1>1. /\ op \in {"tolua", "toas3"} /\ op # "idle" /\ Done = Base
      /\ answer' = [op |-> op, args |-> args, results |-> Results]
      /\ op' = "idle" /\ args' = <<>> /\ stack' = <<>>
  BY DEF End
<1>2. /\ Base \in Nat /\ Len(stack) = Base + 1 + Base
      /\ stack \in Seq(LuaValue \cup {AS3LUA_METATABLE})
      /\ \A i \in 1..Base : args[i] \in LuaValue
      /\ \A i \in 1..Base : Right(op, i, args[i], stack[Base + 1 + i])
  BY <1>1, Converting
<1>3. args \in Seq(LuaValue) /\ Len(args) = Base /\ DOMAIN args = 1..Base
  BY LenProperties DEF IInv, TypeOK, Base
<1>4. \A i \in 1..Base : stack[Base + 1 + i] \in LuaValue
  BY <1>2 DEF Right, LuaValue
<1>5. /\ Results \in Seq(LuaValue) /\ Len(Results) = Base
      /\ \A i \in 1..Base : Results[i] = stack[Base + 1 + i]
  <2> DEFINE m == Base + 2
             n == Len(stack)
  <2>1. /\ m \in Int /\ n \in Int /\ n - m + 1 = Base
        /\ m <= n <=> Base # 0
        /\ \A i \in 1..Base : m + i - 1 = Base + 1 + i
    BY <1>2
  <2>2. Results = SubSeq(stack, m, n)
    BY DEF Results
  <2>3. ASSUME NEW i \in m..n PROVE stack[i] \in LuaValue
    <3>1. i - (Base + 1) \in 1..Base /\ Base + 1 + (i - (Base + 1)) = i
      BY <1>2
    <3> QED BY <1>4, <3>1
  <2> HIDE DEF m, n
  <2>4. /\ Results \in Seq(LuaValue)
        /\ Len(Results) = IF m <= n THEN n - m + 1 ELSE 0
        /\ \A i \in 1..n - m + 1 : Results[i] = stack[m + i - 1]
    BY <2>1, <2>2, <2>3, SubSeqProperties
  <2> QED BY <2>1, <2>4
<1>6. \A i \in 1..Base : Right(op, i, args[i], Results[i])
  BY <1>2, <1>5
<1>7. TypeOK'
  <2>1. \A S : <<>> \in Seq(S)
    BY EmptySeq
  <2> QED BY <1>1, <1>3, <1>5, <2>1 DEF TypeOK
<1>8. InProgress'
  BY <1>1 DEF InProgress
<1>9. Answers'
  <2>1. /\ answer'.op = op /\ answer'.args = args
        /\ answer'.results = Results
    BY <1>1
  <2>2. ToLuaOneByOne'
    BY <1>3, <1>5, <1>6, <2>1 DEF ToLuaOneByOne, Right
  <2>3. ToAS3AndBack'
    BY <1>3, <1>5, <1>6, <2>1 DEF ToAS3AndBack, Right
  <2>4. FlashGetsBack'
    BY <1>1, <2>1 DEF FlashGetsBack
  <2> QED BY <2>2, <2>3, <2>4 DEF Answers
<1> QED BY <1>7, <1>8, <1>9 DEF IInv

LEMMA GlobalStep == IInv /\ callGlobal => IInv'
<1> SUFFICES ASSUME IInv, callGlobal PROVE IInv'
  OBVIOUS
<1>0. PICK n \in 0..MaxArgs : \E as \in [1..n -> AS3Value] :
        answer' = [op |-> "callGlobal", args |-> as,
                   results |-> [i \in 1..n |-> ToAS3(ToLua(as[i]))]]
  BY DEF callGlobal
<1>1. PICK as \in [1..n -> AS3Value] :
        answer' = [op |-> "callGlobal", args |-> as,
                   results |-> [i \in 1..n |-> ToAS3(ToLua(as[i]))]]
  BY <1>0
<1> DEFINE rs == [i \in 1..n |-> ToAS3(ToLua(as[i]))]
<1>2. n \in Nat
  BY <1>0, ConstantsAssumption
<1>3. as \in [1..n -> LuaValue] /\ rs \in [1..n -> LuaValue]
  BY ThroughLua DEF LuaValue
<1>4. /\ as \in Seq(LuaValue) /\ Len(as) = n /\ DOMAIN as = 1..n
      /\ rs \in Seq(LuaValue) /\ Len(rs) = n
  BY <1>2, <1>3, TupleIsSeq
<1>5. /\ answer'.op = "callGlobal" /\ answer'.args = as
      /\ answer'.results = rs
  BY <1>1
<1>6. op' = op /\ args' = args /\ stack' = stack
  BY DEF callGlobal
<1>7. TypeOK'
  BY <1>4, <1>5, <1>6 DEF IInv, TypeOK
<1>8. InProgress'
  BY <1>6 DEF IInv, InProgress, Base, Done
<1>9. FlashGetsBack'
  <2>1. \A i \in 1..n :
          LET a == as[i]  r == rs[i]
          IN CASE a.class \in {"undefined", "nullable"} -> r.class = "null"
               [] a.class = "int"    -> r = AS3("Number", a.of)
               [] a.class = "Binary" -> r = AS3("String", a.of)
               [] OTHER              -> r = a
    BY ThroughLua
  <2> QED BY <1>4, <1>5, <2>1 DEF FlashGetsBack
<1>10. Answers'
  BY <1>5, <1>9 DEF Answers, ToLuaOneByOne, ToAS3AndBack
<1> QED BY <1>7, <1>8, <1>10 DEF IInv

LEMMA CallbackStep == IInv /\ as3_lua_callback => IInv'
<1> SUFFICES ASSUME IInv, as3_lua_callback PROVE IInv'
  OBVIOUS
<1>0. PICK n \in 0..MaxArgs : \E as \in [1..n -> AS3Value] :
        answer' = [op |-> "callback", args |-> as,
                   results |-> Collapsed([i \in 1..n |-> ToAS3(as[i])])]
  BY DEF as3_lua_callback
<1>1. PICK as \in [1..n -> AS3Value] :
        answer' = [op |-> "callback", args |-> as,
                   results |-> Collapsed([i \in 1..n |-> ToAS3(as[i])])]
  BY <1>0
<1>2. n \in Nat
  BY <1>0, ConstantsAssumption
<1>3. as \in [1..n -> LuaValue]
  BY DEF LuaValue
<1>4. as \in Seq(LuaValue)
  BY <1>2, <1>3, TupleIsSeq
<1>5. \A i \in 1..n : ToAS3(as[i]) = as[i]
  BY <1>3, ToAS3Lemma DEF Ours
<1>6. [i \in 1..n |-> ToAS3(as[i])] = as
  BY <1>5
<1>7. /\ answer'.op = "callback" /\ answer'.args = as
      /\ answer'.results = Collapsed(as)
  BY <1>1, <1>6
<1>8. \/ as # <<>> /\ Collapsed(as) = as
      \/ as = <<>> /\ Collapsed(as) = <<AS3("null", "null")>>
  BY DEF Collapsed
<1>9. <<AS3("null", "null")>> \in Seq(LuaValue)
  BY Made DEF LuaValue
<1>10. op' = op /\ args' = args /\ stack' = stack
  BY DEF as3_lua_callback
<1>11. TypeOK'
  BY <1>4, <1>7, <1>8, <1>9, <1>10 DEF IInv, TypeOK
<1>12. InProgress'
  BY <1>10 DEF IInv, InProgress, Base, Done
<1>13. Answers'
  BY <1>7, <1>8 DEF Answers, ToLuaOneByOne, ToAS3AndBack, FlashGetsBack
<1> QED BY <1>11, <1>12, <1>13 DEF IInv

LEMMA TakeStep == IInv /\ Take => IInv'
<1> SUFFICES ASSUME IInv, Take PROVE IInv'
  OBVIOUS
<1>1. answer' = NoAnswer /\ op' = op /\ args' = args /\ stack' = stack
  BY DEF Take
<1>2. TypeOK'
  <2>1. <<>> \in Seq(LuaValue)
    BY EmptySeq
  <2> QED BY <1>1, <2>1 DEF IInv, TypeOK, NoAnswer
<1>3. InProgress'
  BY <1>1 DEF IInv, InProgress, Base, Done
<1>4. Answers'
  BY <1>1 DEF Answers, ToLuaOneByOne, ToAS3AndBack, FlashGetsBack, NoAnswer
<1> QED BY <1>2, <1>3, <1>4 DEF IInv

LEMMA Inductive == IInv /\ [Next]_vars => IInv'
<1> SUFFICES ASSUME IInv, [Next]_vars PROVE IInv'
  OBVIOUS
<1>1. CASE UNCHANGED vars
  <2>1. op' = op /\ args' = args /\ stack' = stack /\ answer' = answer
    BY <1>1 DEF vars
  <2>2. TypeOK'
    BY <2>1 DEF IInv, TypeOK
  <2>3. InProgress'
    BY <2>1 DEF IInv, InProgress, Base, Done
  <2> QED BY <2>1, <2>2, <2>3, SameAnswer DEF IInv
<1>2. CASE Begin("tolua") \/ Begin("toas3")
  BY <1>2, BeginStep
<1>3. CASE as3_tolua
  BY <1>3, ToLuaStep
<1>4. CASE as3_toas3
  BY <1>4, ToAS3Step
<1>5. CASE End
  BY <1>5, EndStep
<1>6. CASE callGlobal
  BY <1>6, GlobalStep
<1>7. CASE as3_lua_callback
  BY <1>7, CallbackStep
<1>8. CASE Take
  BY <1>8, TakeStep
<1> QED BY <1>1, <1>2, <1>3, <1>4, <1>5, <1>6, <1>7, <1>8 DEF Next

LEMMA IInvAlways == Spec => []IInv
BY InitIInv, Inductive, PTL DEF Spec

----------------------------------------------------------------------------
(* Arguments, stack and results hold values, and nothing else.             *)
THEOREM TypeCorrect == Spec => []TypeOK
<1>1. IInv => TypeOK
  BY DEF IInv
<1> QED BY <1>1, IInvAlways, PTL

(* as3.tolua() converts each of any number of arguments by itself: the     *)
(* metatable it compares with stays in its slot while results pile up.     *)
THEOREM ToLuaOneByOneAlways == Spec => []ToLuaOneByOne
<1>1. IInv => ToLuaOneByOne
  BY DEF IInv, Answers
<1> QED BY <1>1, IInvAlways, PTL

(* as3.toas3() makes an AS3 value of each of any number of arguments, from *)
(* which as3.tolua() makes a simple value again; it leaves the first       *)
(* argument alone if that is an AS3 value.                                 *)
THEOREM ToAS3AndBackAlways == Spec => []ToAS3AndBack
<1>1. IInv => ToAS3AndBack
  BY DEF IInv, Answers
<1> QED BY <1>1, IInvAlways, PTL

(* Flash gets back what it passes to a Lua function that returns its       *)
(* arguments, with the exceptions FlashGetsBack names.                     *)
THEOREM FlashGetsBackAlways == Spec => []FlashGetsBack
<1>1. IInv => FlashGetsBack
  BY DEF IInv, Answers
<1> QED BY <1>1, IInvAlways, PTL
=============================================================================
