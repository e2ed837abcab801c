-------------------------------- MODULE LuaVM --------------------------------
(***************************************************************************)
(* The virtual machine (luaV_execute in lvm.c, with luaD_precall() and     *)
(* luaD_poscall() of ldo.c, upvalues of lfunc.c) and the checker of code   *)
(* (symbexec in ldebug.c), over the code of LuaParser.                     *)
(*                                                                         *)
(* m is the machine: its stack, calls, upvalues, closures and tables.      *)
(* What is outside answers reads of globals, reads of what is not a table  *)
(* and calls of what is not a Lua function with the next of its answers,   *)
(* as a metamethod may, and everything it is told is in the log.           *)
(***************************************************************************)
EXTENDS LuaParser, SequencesExt

Closure(n)  == 2000 + n
TableRef(n) == 3000 + n
IsClosure(m, v) == v - 2000 \in DOMAIN m.fns
IsTable(m, v)   == v - 3000 \in DOMAIN m.tabs
IsNum(v) == v \in -9 .. 99
Add(x, y) == IF IsNum(x) /\ IsNum(y) THEN x + y ELSE 120
Minus(x)  == IF IsNum(x) THEN -x ELSE 121
Length(x) == 130 + (x % 17)
Join(x, y) == 200 + (((x + 20) * 13 + y + 20) % 300)

StackSize == 40
Fuel      == 9              \* a program is given 2 ^ Fuel instructions
Junk      == 999            \* what a register nobody wrote holds

Said(m, event) == [m EXCEPT !.log = Append(@, event)]
Asked(m, event) ==
  [Said(m, event) EXCEPT !.asked = @ + 1,
     !.v = IF m.asked < Len(m.answers) THEN m.answers[m.asked + 1] ELSE NIL]

(* luaV_gettable(), luaV_settable()                                        *)
gettable(m, t, k) ==
  IF ~IsTable(m, t) THEN Asked(m, <<"get", t, k>>)
  ELSE [m EXCEPT !.v = IF k \in DOMAIN m.tabs[t - 3000]
                       THEN m.tabs[t - 3000][k] ELSE NIL]
settable(m, t, k, v) ==
  IF IsTable(m, t) THEN [m EXCEPT !.tabs[t - 3000] = (k :> v) @@ @]
  ELSE Said(m, <<"set", t, k, v>>)

----------------------------------------------------------------------------
(* Upvalues: open while at is a place in the stack.                        *)

findupval(m, level) ==
  LET open == {u \in DOMAIN m.ups : m.ups[u].at = level}
  IN  IF open # {} THEN [m EXCEPT !.v = Max(open)]
      ELSE [m EXCEPT !.ups = Append(@, [at |-> level, v |-> NIL]),
                     !.v = Len(m.ups) + 1]
close(m, level) ==
  [m EXCEPT !.ups = [u \in DOMAIN @ |->
     IF @[u].at >= level THEN [at |-> -1, v |-> m.reg[@[u].at]] ELSE @[u]]]
Upval(m, u) ==
  IF m.ups[u].at = -1 THEN m.ups[u].v ELSE m.reg[m.ups[u].at]
SetUpval(m, u, v) ==
  IF m.ups[u].at = -1 THEN [m EXCEPT !.ups[u].v = v]
  ELSE [m EXCEPT !.reg[m.ups[u].at] = v]

----------------------------------------------------------------------------
(* Calls.                                                                  *)

Slots(m, from, n) == [i \in 1 .. n |-> m.reg[from + i - 1]]
Filled(m, from, n, list) ==
  [m EXCEPT !.reg = [r \in DOMAIN @ |->
     IF r \in from .. from + n - 1
     THEN IF r - from + 1 \in DOMAIN list THEN list[r - from + 1] ELSE NIL
     ELSE @[r]]]

(* luaD_poscall(): n results at first go where the caller wants them.      *)
poscall(m, func, want, list) ==
  LET n == IF want = MultRet THEN Len(list) ELSE want
  IN  [Filled(m, func, n, list) EXCEPT !.top = func + n]

(* luaD_precall(): m.top is above the arguments.  A vararg function gets   *)
(* its named parameters above all of them (adjust_varargs).                *)
precall(m, func, want) ==
  LET f    == m.reg[func]
      args == Slots(m, func + 1, m.top - func - 1)
      p    == m.fns[f - 2000].p
      skip == IF ~p.vararg THEN 0
              ELSE IF Len(args) > p.nparams THEN Len(args) ELSE p.nparams
      base == func + 1 + skip
      own  == SubSeq(args, 1, IF Len(args) < p.nparams THEN Len(args)
                              ELSE p.nparams)
      out  == Asked(m, <<"call", f, args>>)
  IN  IF ~IsClosure(m, f)
      THEN poscall(out, func, want, <<out.v, 1>>)
      ELSE [Filled(IF p.vararg THEN Filled(m, func + 1, p.nparams, <<>>)
                   ELSE m, base, p.max, own)
              EXCEPT !.calls = Append(@, [f |-> f - 2000, pc |-> 1,
                        base |-> base, func |-> func, want |-> want])]

----------------------------------------------------------------------------
(* Instructions (luaV_execute), by what they do.                           *)

Running(m)   == m.calls[Len(m.calls)]
Proto(m)     == m.fns[Running(m).f].p
Instr(m)     == Proto(m).code[Running(m).pc]
Place(m, x)  == Running(m).base + x
R(m, x)      == m.reg[Place(m, x)]
RK(m, x)     == IF ISK(x) THEN INDEXK(x) ELSE R(m, x)
Own(m)       == m.fns[Running(m).f].ups

ToPc(m, pc)  == [m EXCEPT !.calls[Len(m.calls)].pc = pc]
On(m)        == [m EXCEPT !.calls[Len(m.calls)].pc = @ + 1]
Into(m, a, v) == On([m EXCEPT !.reg[Place(m, a)] = v])
Got(m, a)    == Into(m, a, m.v)
(* dojump() of the JMP that follows, or past it.                           *)
JumpIf(m, b) ==
  LET pc == Running(m).pc
  IN  IF b THEN ToPc(m, Proto(m).code[pc + 1].b) ELSE ToPc(m, pc + 2)

Moves(m, i) ==
  CASE i.op = "MOVE"      -> Into(m, i.a, R(m, i.b))
    [] i.op = "LOADK"     -> Into(m, i.a, i.b)
    [] i.op = "LOADBOOL"  ->
         ToPc(Into(m, i.a, i.b), Running(m).pc + 1 + i.c)
    [] i.op = "LOADNIL"   -> On(Filled(m, Place(m, i.a), i.b - i.a + 1, <<>>))
    [] i.op = "GETUPVAL"  -> Into(m, i.a, Upval(m, Own(m)[i.b]))
    [] i.op = "SETUPVAL"  -> On(SetUpval(m, Own(m)[i.b], R(m, i.a)))
    [] i.op = "GETGLOBAL" -> Got(Asked(m, <<"read", i.b>>), i.a)
    [] i.op = "SETGLOBAL" -> On(Said(m, <<"write", i.b, R(m, i.a)>>))
    [] i.op = "GETTABLE"  -> Got(gettable(m, R(m, i.b), RK(m, i.c)), i.a)
    [] i.op = "SETTABLE"  ->
         On(settable(m, R(m, i.a), RK(m, i.b), RK(m, i.c)))
    [] i.op = "NEWTABLE"  ->
         Into([m EXCEPT !.tabs = Append(@, <<>>)], i.a,
              TableRef(Len(m.tabs) + 1))
    [] i.op = "SELF"      ->
         Got(gettable([m EXCEPT !.reg[Place(m, i.a + 1)] = R(m, i.b)],
                      R(m, i.b), RK(m, i.c)), i.a)

Joined(m, b, c) == FoldRight(Join, Slots(m, Place(m, b), c - b),
                             R(m, c))
Operators(m, i) ==
  CASE i.op = "ADD"    -> Into(m, i.a, Add(RK(m, i.b), RK(m, i.c)))
    [] i.op = "UNM"    -> Into(m, i.a, Minus(R(m, i.b)))
    [] i.op = "LEN"    -> Into(m, i.a, Length(R(m, i.b)))
    [] i.op = "NOT"    -> Into(m, i.a, Bool(False(R(m, i.b))))
    [] i.op = "CONCAT" -> Into(m, i.a, Joined(m, i.b, i.c))

Tests(m, i) ==
  LET x == RK(m, i.b)  y == RK(m, i.c)
  IN  CASE i.op = "JMP"  -> ToPc(m, i.b)
        [] i.op = "EQ"   -> JumpIf(m, (x = y) = (i.a = 1))
        [] i.op = "LT"   -> JumpIf(m, (x < y) = (i.a = 1))
        [] i.op = "LE"   -> JumpIf(m, (x <= y) = (i.a = 1))
        [] i.op = "TEST" -> JumpIf(m, False(R(m, i.a)) # (i.c = 1))
        [] i.op = "TESTSET" ->
             IF False(x) # (i.c = 1)
             THEN JumpIf([m EXCEPT !.reg[Place(m, i.a)] = x], TRUE)
             ELSE JumpIf(m, FALSE)

(* B is the number of arguments or results and one, 0 for up to the top.   *)
Upto(m, i, n) == IF i.b # 0 THEN [m EXCEPT !.top = Place(m, i.a + n)] ELSE m
Dropped(m) == [m EXCEPT !.calls = SubSeq(@, 1, Len(@) - 1)]
Calls(m, i) ==
  LET ra   == Place(m, i.a)
      c    == Running(m)
      args == Upto(m, i, i.b)
      back == close(Upto(m, i, i.b - 1), c.base)
      res  == Slots(back, ra, back.top - ra)
      left == poscall(Dropped(back), c.func, c.want, res)
      tail == close(args, c.base)
      down == [Filled(tail, c.func, tail.top - ra,
                      Slots(tail, ra, tail.top - ra))
                 EXCEPT !.top = c.func + tail.top - ra]
  IN  CASE i.op = "CALL" -> precall(On(args), ra, i.c - 1)
        [] i.op = "TAILCALL" ->
             IF IsClosure(m, R(m, i.a))
             THEN precall(Dropped(down), c.func, c.want)
             ELSE precall(On(args), ra, MultRet)
        [] i.op = "RETURN" ->
             IF Len(m.calls) = 1 THEN [left EXCEPT !.v = res] ELSE left

RECURSIVE execute(_, _, _)
Loops(m, i) ==
  LET ra   == Place(m, i.a)
      next == R(m, i.a) + R(m, i.a + 2)
      goes == IF R(m, i.a + 2) > 0 THEN next <= R(m, i.a + 1)
              ELSE R(m, i.a + 1) <= next
      copy == [m EXCEPT !.top = ra + 6,
                 !.reg = [r \in DOMAIN @ |-> IF r \in ra + 3 .. ra + 5
                                             THEN @[r - 3] ELSE @[r]]]
      tfor == execute(precall(copy, ra + 3, i.c), Fuel, Len(m.calls))
      more == tfor.reg[ra + 3] # NIL
  IN  CASE i.op = "FORPREP" ->
             ToPc([m EXCEPT !.reg[ra] = @ - R(m, i.a + 2)], i.b)
        [] i.op = "FORLOOP" ->
             IF goes THEN ToPc([m EXCEPT !.reg[ra] = next,
                                         !.reg[ra + 3] = next], i.b)
             ELSE On(m)
        [] i.op = "TFORLOOP" ->
             JumpIf([tfor EXCEPT !.reg[ra + 2] =
                       IF more THEN tfor.reg[ra + 3] ELSE @], more)

(* OP_CLOSURE and the instructions after it, one for each upvalue.         *)
Capture(m, i) ==
  LET Caught(q, l) ==
        LET u == findupval(q, Place(m, l.b))
            With(w, x) == [w EXCEPT !.fns[Len(w.fns)].ups = Append(@, x)]
        IN  IF l.op = "MOVE" THEN With(u, u.v) ELSE With(q, Own(m)[l.b])
      p  == Proto(m).protos[i.b]
      pc == Running(m).pc
      made == FoldLeft(Caught,
                [m EXCEPT !.fns = Append(@, [p |-> p, ups |-> <<>>])],
                SubSeq(Proto(m).code, pc + 1, pc + Len(p.ups)))
  IN  ToPc(Into(made, i.a, Closure(Len(made.fns))), pc + 1 + Len(p.ups))

Builds(m, i) ==
  LET ra   == Place(m, i.a)
      n    == IF i.b = 0 THEN m.top - ra - 1 ELSE i.b
      done == (i.c - 1) * Flush
      c    == Running(m)
      skip == Proto(m).nparams
      dots == Slots(m, c.func + 1 + skip, c.base - c.func - skip - 1)
  IN  CASE i.op = "SETLIST" ->
             On([m EXCEPT !.tabs[R(m, i.a) - 3000] =
                  [k \in done + 1 .. done + n |-> m.reg[ra + k - done]] @@ @])
        [] i.op = "CLOSE"   -> On(close(m, ra))
        [] i.op = "CLOSURE" -> Capture(m, i)
        [] i.op = "VARARG"  ->
             [On(Filled(m, ra, IF i.b = 0 THEN Len(dots) ELSE i.b - 1, dots))
                EXCEPT !.top = ra + Len(dots)]

Step(m) ==
  LET i == Instr(m)
  IN  CASE i.op \in {"ADD", "UNM", "LEN", "NOT", "CONCAT"} -> Operators(m, i)
        [] i.op \in TestOps \cup {"JMP"} -> Tests(m, i)
        [] i.op \in {"CALL", "TAILCALL", "RETURN"} -> Calls(m, i)
        [] i.op \in {"FORPREP", "FORLOOP", "TFORLOOP"} -> Loops(m, i)
        [] i.op \in {"SETLIST", "CLOSE", "CLOSURE", "VARARG"} -> Builds(m, i)
        [] OTHER -> Moves(m, i)
(* 2 ^ fuel instructions, or as many as it takes to be back at a depth.    *)
execute(m, fuel, depth) ==
  IF Len(m.calls) = depth THEN m
  ELSE IF fuel = 0 THEN Step(m)
  ELSE execute(execute(m, fuel - 1, depth), fuel - 1, depth)

----------------------------------------------------------------------------
(* The checker (symbexec, luaG_checkcode): operands are in their range,    *)
(* jumps stay inside, and an open list is taken by what comes next.        *)

RB == {"MOVE", "LOADNIL", "GETTABLE", "SELF", "UNM", "NOT", "LEN", "CONCAT",
       "TEST", "TESTSET"}
KB == {"SETTABLE", "ADD", "EQ", "LT", "LE"}
KC == KB \cup {"GETTABLE", "SELF"}
Jumps == {"JMP", "FORPREP", "FORLOOP"}

IsReg(p, x) == x \in 0 .. p.max - 1
checkopenop(p, pc) ==
  /\ p.code[pc + 1].op \in {"CALL", "TAILCALL", "RETURN", "SETLIST"}
  /\ p.code[pc + 1].b = 0

Operands(p, pc) ==
  LET i == p.code[pc]
      Operand(x) == ISK(x) \/ IsReg(p, x)
  IN  /\ IsReg(p, i.a)
      /\ i.op \in RB => IsReg(p, i.b)
      /\ i.op \in KB => Operand(i.b)
      /\ i.op \in KC => Operand(i.c)
      /\ i.op \in Jumps => i.b \in 1 .. Len(p.code)
      /\ i.op \in TestOps \cup {"TFORLOOP"} =>
           pc + 2 <= Len(p.code) /\ p.code[pc + 1].op = "JMP"

Room(p, pc) ==
  LET i == p.code[pc]
  IN  /\ i.op = "LOADBOOL" /\ i.c = 1 => pc + 2 <= Len(p.code)
      /\ i.op \in {"GETUPVAL", "SETUPVAL"} => i.b <= Len(p.ups)
      /\ i.op = "SELF" => IsReg(p, i.a + 1)
      /\ i.op = "CONCAT" => i.b < i.c /\ IsReg(p, i.c)
      /\ i.op = "TFORLOOP" => i.c >= 1 /\ IsReg(p, i.a + 2 + i.c)
      /\ i.op \in {"FORPREP", "FORLOOP"} => IsReg(p, i.a + 3)
      /\ i.op \in {"CALL", "TAILCALL"} =>
           /\ i.b = 0 \/ IsReg(p, i.a + i.b - 1)
           /\ IF i.c = 0 THEN checkopenop(p, pc)
              ELSE i.c = 1 \/ IsReg(p, i.a + i.c - 2)
      /\ i.op = "RETURN" /\ i.b > 1 => IsReg(p, i.a + i.b - 2)
      /\ i.op = "SETLIST" /\ i.b > 0 => IsReg(p, i.a + i.b)
      /\ i.op = "CLOSURE" =>
           /\ i.b \in DOMAIN p.protos
           /\ \A u \in 1 .. Len(p.protos[i.b].ups) :
                p.code[pc + u].op \in {"MOVE", "GETUPVAL"}
      /\ i.op = "VARARG" =>
           /\ p.vararg
           /\ IF i.b = 0 THEN checkopenop(p, pc) ELSE IsReg(p, i.a + i.b - 2)

precheck(p) ==
  /\ p.nparams <= p.max
  /\ p.code # <<>> /\ p.code[Len(p.code)].op = "RETURN"
RECURSIVE Checked(_)
Checked(p) ==
  /\ p.ok /\ precheck(p)
  /\ \A pc \in DOMAIN p.code : Operands(p, pc) /\ Room(p, pc)
  /\ \A n \in DOMAIN p.protos : Checked(p.protos[n])

(* lua_load() and lua_call() of a chunk, with these answers from outside.  *)
Started(chunk, answers) ==
  [reg |-> [r \in 0 .. StackSize |-> IF r = 0 THEN Closure(1) ELSE Junk],
   top |-> 1, calls |-> <<>>, ups |-> <<>>, tabs |-> <<>>, log |-> <<>>,
   fns |-> <<[p |-> luaY_parser(chunk), ups |-> <<>>]>>,
   asked |-> 0, answers |-> answers, v |-> <<>>]
RunCode(chunk, answers) ==
  execute(precall(Started(chunk, answers), 0, MultRet), Fuel, 0)
=============================================================================
