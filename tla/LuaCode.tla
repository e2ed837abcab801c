------------------------------- MODULE LuaCode -------------------------------
(***************************************************************************)
(* The code generator of the compiler (lcode.c): expressions that are not  *)
(* code yet, lists of jumps that wait for their target or their value, and *)
(* registers used as a stack above the local variables.                    *)
(*                                                                         *)
(* s is the FuncState: the code (positions from 1), jpc, lasttarget,       *)
(* freereg, nactvar, the stack size, whether the assertions held (ok), the *)
(* expression e at hand, the operand rk and the jump list j a function     *)
(* returned, and what the parser keeps in it.  A list of jumps is a set of *)
(* positions, NIL, FALSEv and TRUEv are the values, other constants are    *)
(* numbers, and a constant as an operand is a register number above 500.   *)
(***************************************************************************)
EXTENDS Integers, Sequences, FiniteSets

NIL    == -11                 \* other values are numbers
FALSEv == -12
TRUEv  == -13
Bool(b)  == IF b THEN TRUEv ELSE FALSEv
False(v) == v \in {NIL, FALSEv}

NoReg  == 99
NoJump == 0
RKASK(v)  == 1000 + v
ISK(x)    == x > 500
INDEXK(x) == x - 1000

Exp(k, i) == [k |-> k, i |-> i, aux |-> 0, all |-> {}, t |-> {}, f |-> {}]
hasjumps(e)  == e.t # e.f
isnumeral(e) == e.k = "num" /\ e.t = {} /\ e.f = {}

Ins(op, a, b, c) == [op |-> op, a |-> a, b |-> b, c |-> c]
TestOps == {"EQ", "LT", "LE", "TEST", "TESTSET"}


(* open_func() and parlist(): the parameters are in their registers.       *)
NewState(vars, nparams, vararg, outer) ==
  [code |-> <<>>, jpc |-> {}, target |-> 0, free |-> Len(vars),
   nact |-> Len(vars), max |-> IF Len(vars) > 2 THEN Len(vars) ELSE 2,
   ok |-> TRUE, e |-> Exp("void", 0), rk |-> 0,
   j |-> [at |-> NoJump, all |-> {}],
   vars |-> vars, nparams |-> nparams, vararg |-> vararg, ups |-> <<>>,
   blocks |-> <<>>, protos |-> <<>>, outer |-> outer]

Here(s)   == Len(s.code) + 1
E(s, e)   == [s EXCEPT !.e = e]
Asserted(s, p) == [s EXCEPT !.ok = @ /\ p]

----------------------------------------------------------------------------
(* Jumps.                                                                  *)

Control(code, j) ==
  IF j > 1 /\ code[j - 1].op \in TestOps THEN j - 1 ELSE j
GivesValue(code, j) == code[Control(code, j)].op = "TESTSET"
need_value(s, list) == \E j \in list : ~GivesValue(s.code, j)

(* patchtestreg(): a TESTSET gets the register its value goes to, or is a  *)
(* plain test when there is none or the value is there.                    *)
(* Mutant: a test that has its value in place sets it anyway. *)
TestRegSet(i, reg) == [i EXCEPT !.a = reg]
TestReg(i, reg) ==
  IF reg # NoReg /\ reg # i.b THEN [i EXCEPT !.a = reg]
  ELSE Ins("TEST", i.b, 0, i.c)

(* patchlistaux(): jumps with a value to vtarget, the others to dtarget.   *)
Patch(code, list, vtarget, reg, dtarget) ==
  [p \in DOMAIN code |->
     IF p \in list
     THEN [code[p] EXCEPT !.b = IF GivesValue(code, p) THEN vtarget
                                ELSE dtarget]
     ELSE IF code[p].op = "TESTSET" /\ p + 1 \in list
          THEN TestReg(code[p], reg) ELSE code[p]]
removevalues(code, list) ==
  [p \in DOMAIN code |-> IF code[p].op = "TESTSET" /\ p + 1 \in list
                         THEN TestReg(code[p], NoReg) ELSE code[p]]

getlabel(s) == [s EXCEPT !.target = Here(s)]
patchtohere(s, list) == [getlabel(s) EXCEPT !.jpc = @ \cup list]
patchlist(s, list, target) ==
  IF target = Here(s) THEN patchtohere(s, list)
  ELSE [s EXCEPT !.code = Patch(@, list, target, NoReg, target)]

(* luaK_code(): the jumps to here are patched before the code grows.       *)
Code(s, op, a, b, c) ==
  [s EXCEPT !.jpc = {}, !.code =
     Append(Patch(@, s.jpc, Here(s), NoReg, Here(s)), Ins(op, a, b, c))]

(* luaK_jump(): jumps that wait for this place wait with it.               *)
Jump(s) ==
  LET at == Here(s)
  IN  [Code([s EXCEPT !.jpc = {}], "JMP", 0, NoJump, 0)
         EXCEPT !.j = [at |-> at, all |-> s.jpc \cup {at}]]
condjump(s, op, a, b, c) == Jump(Code(s, op, a, b, c))

----------------------------------------------------------------------------
(* Registers.                                                              *)

reserve(s, n) ==
  [s EXCEPT !.free = @ + n, !.max = IF s.free + n > @ THEN s.free + n ELSE @]

(* freereg(): "reg == fs->freereg"                                         *)
freereg(s, r) ==
  IF ISK(r) \/ r < s.nact THEN s
  ELSE Asserted([s EXCEPT !.free = @ - 1], r = s.free - 1)
freeexp(s, e) == IF e.k = "nonreloc" THEN freereg(s, e.i) ELSE s

(* luaK_nil(): joined with a LOADNIL before it, and not needed at the      *)
(* start of a function, where registers are nil.                           *)
LoadNil(s, from, n) ==
  LET last  == s.code[Len(s.code)]
      clean == Here(s) > s.target
      upto  == from + n - 1
  IN  CASE clean /\ s.code = <<>> /\ from >= s.nact -> s
        [] clean /\ s.code # <<>> /\ last.op = "LOADNIL"
             /\ last.a <= from /\ from <= last.b + 1 ->
             [s EXCEPT !.code[Len(s.code)].b = IF upto > @ THEN upto ELSE @]
        [] OTHER -> Code(s, "LOADNIL", from, upto, 0)

----------------------------------------------------------------------------
(* Expressions to code.                                                    *)

Coded(s, k) == E(s, [s.e EXCEPT !.k = k, !.i = Len(s.code)])

MultRet == -1
hasmultret(e) == e.k \in {"call", "vararg"}
setoneret(s) ==
  CASE s.e.k = "call" ->
         E(s, [s.e EXCEPT !.k = "nonreloc", !.i = s.code[s.e.i].a])
    [] s.e.k = "vararg" ->
         [s EXCEPT !.code[s.e.i].b = 2, !.e.k = "reloc"]
    [] OTHER -> s
setreturns(s, n) ==
  CASE s.e.k = "call" -> [s EXCEPT !.code[s.e.i].c = n + 1]
    [] s.e.k = "vararg" ->
         reserve([s EXCEPT !.code[s.e.i].b = n + 1,
                           !.code[s.e.i].a = s.free], 1)
    [] OTHER -> s
ret(s, first, n) == Code(s, "RETURN", first, n + 1, 0)

dischargevars(s) ==
  LET e == s.e
  IN  CASE e.k = "local"   -> E(s, [e EXCEPT !.k = "nonreloc"])
        [] e.k = "upval"   -> Coded(Code(s, "GETUPVAL", 0, e.i, 0), "reloc")
        [] e.k = "global"  -> Coded(Code(s, "GETGLOBAL", 0, e.i, 0), "reloc")
        [] e.k = "indexed" ->
             Coded(Code(freereg(freereg(s, e.aux), e.i),
                        "GETTABLE", 0, e.i, e.aux), "reloc")
        [] OTHER           -> setoneret(s)

ConstOf(e) == CASE e.k = "nil" -> NIL [] e.k = "true" -> TRUEv
                [] e.k = "false" -> FALSEv [] OTHER -> e.i
discharge2reg(s0, reg) ==
  LET s == dischargevars(s0)
      e == s.e
      In(u) == E(u, [e EXCEPT !.k = "nonreloc", !.i = reg])
  IN  CASE e.k = "nil" -> In(LoadNil(s, reg, 1))
        [] e.k \in {"true", "false"} ->
             In(Code(s, "LOADBOOL", reg, ConstOf(e), 0))
        [] e.k \in {"k", "num"} -> In(Code(s, "LOADK", reg, e.i, 0))
        [] e.k = "reloc" -> In([s EXCEPT !.code[e.i].a = reg])
        [] e.k = "nonreloc" ->
             In(IF reg = e.i THEN s ELSE Code(s, "MOVE", reg, e.i, 0))
        [] OTHER -> s
discharge2anyreg(s) ==
  IF s.e.k = "nonreloc" THEN s
  ELSE LET r == reserve(s, 1) IN discharge2reg(r, r.free - 1)

(* exp2reg(): jumps out of the expression bring their value to reg, or go  *)
(* to code that loads it.                                                  *)
exp2reg(s0, reg) ==
  LET s == discharge2reg(s0, reg)
      t == s.e.t \cup (IF s.e.k = "jmp" THEN s.e.all ELSE {})
      f == s.e.f
      Loads ==
        LET fj == IF s.e.k = "jmp" THEN s ELSE Jump(s)
            lf == Code(getlabel(fj), "LOADBOOL", reg, FALSEv, 1)
            lt == Code(getlabel(lf), "LOADBOOL", reg, TRUEv, 0)
        IN  [at |-> Here(fj),
             s  |-> IF s.e.k = "jmp" THEN lt ELSE patchtohere(lt, fj.j.all)]
      Final(u, at) ==
        [getlabel(u) EXCEPT !.code =
           Patch(Patch(@, f, Here(u), reg, at), t, Here(u), reg, at + 1)]
  IN  E(CASE t = f -> s
          [] t # f /\ (need_value(s, t) \/ need_value(s, f)) ->
               Final(Loads.s, Loads.at)
          [] OTHER -> Final(s, NoJump), Exp("nonreloc", reg))

exp2nextreg(s0) ==
  LET d == dischargevars(s0)
      s == reserve(freeexp(d, d.e), 1)
  IN  exp2reg(s, s.free - 1)
exp2anyreg(s0) ==
  LET s == dischargevars(s0)
  IN  CASE s.e.k = "nonreloc" /\ ~hasjumps(s.e) -> s
        [] s.e.k = "nonreloc" /\ hasjumps(s.e) /\ s.e.i >= s.nact ->
             exp2reg(s, s.e.i)
        [] OTHER -> exp2nextreg(s)
exp2val(s) == IF hasjumps(s.e) THEN exp2anyreg(s) ELSE dischargevars(s)

Consts == {"nil", "true", "false", "num", "k"}
exp2RK(s0) ==
  LET s == exp2val(s0)
  IN  IF s.e.k \in Consts
      THEN [E(s, [s.e EXCEPT !.k = "k", !.i = ConstOf(s.e)])
              EXCEPT !.rk = RKASK(ConstOf(s.e))]
      ELSE LET r == exp2anyreg(s) IN [r EXCEPT !.rk = r.e.i]

storevar(s, var) ==
  CASE var.k = "local" -> exp2reg(freeexp(s, s.e), var.i)
    [] var.k = "upval" ->
         LET r == exp2anyreg(s)
         IN  freeexp(Code(r, "SETUPVAL", r.e.i, var.i, 0), r.e)
    [] var.k = "global" ->
         LET r == exp2anyreg(s)
         IN  freeexp(Code(r, "SETGLOBAL", r.e.i, var.i, 0), r.e)
    [] var.k = "indexed" ->
         LET r == exp2RK(s)
         IN  freeexp(Code(r, "SETTABLE", var.i, var.aux, r.rk), r.e)
    [] OTHER -> Asserted(s, FALSE)

(* luaK_indexed(): the key is the expression at hand.                      *)
indexed(s, t) ==
  LET k == exp2RK(s)
  IN  E(k, [t EXCEPT !.k = "indexed", !.aux = k.rk])

(* luaK_self(), for a method name: a constant.                             *)
self(s0, name) ==
  LET s == exp2anyreg(s0)
      r == reserve(freeexp(s, s.e), 2)
      at == r.free - 2
  IN  E(Code(r, "SELF", at, s.e.i, RKASK(name)), Exp("nonreloc", at))

(* luaK_setlist(): na list items so far, n of them pending.                *)
Flush == 2                                  \* for the 50 of the code
setlist(s, base, na, n) ==
  [Asserted(Code(s, "SETLIST", base, IF n = MultRet THEN 0 ELSE n,
               (na - 1) \div Flush + 1), n # 0) EXCEPT !.free = base + 1]

----------------------------------------------------------------------------
(* Conditions.                                                             *)

invertjump(s, j) == [s EXCEPT !.code[Control(s.code, j)].a = 1 - @]

(* jumponcond(): a NOT just coded is taken back and its test inverted.     *)
jumponcond(s, cond) ==
  LET i == s.code[s.e.i]
      r == discharge2anyreg(s)
  IN  IF s.e.k = "reloc" /\ i.op = "NOT"
      THEN condjump([s EXCEPT !.code = SubSeq(@, 1, Len(@) - 1)],
                    "TEST", i.b, 0, 1 - cond)
      ELSE condjump(freeexp(r, r.e), "TESTSET", NoReg, r.e.i, cond)

goiftrue(s0) ==
  LET s == dischargevars(s0)
      r == CASE s.e.k \in {"k", "num", "true"} -> [s EXCEPT !.j.all = {}]
             [] s.e.k = "false" -> Jump(s)
             [] s.e.k = "jmp"   -> [invertjump(s, s.e.i) EXCEPT
                                      !.j.all = s.e.all]
             [] OTHER           -> jumponcond(s, 0)
  IN  E(patchtohere(r, s.e.t), [r.e EXCEPT !.f = r.j.all \cup s.e.f, !.t = {}])
goiffalse(s0) ==
  LET s == dischargevars(s0)
      r == CASE s.e.k \in {"nil", "false"} -> [s EXCEPT !.j.all = {}]
             [] s.e.k = "true" -> Jump(s)
             [] s.e.k = "jmp"  -> [s EXCEPT !.j.all = s.e.all]
             [] OTHER          -> jumponcond(s, 1)
  IN  E(patchtohere(r, s.e.f), [r.e EXCEPT !.t = r.j.all \cup s.e.t, !.f = {}])

codenot(s0) ==
  LET s == dischargevars(s0)
      r == CASE s.e.k \in {"nil", "false"} -> E(s, [s.e EXCEPT !.k = "true"])
             [] s.e.k \in {"k", "num", "true"} ->
                  E(s, [s.e EXCEPT !.k = "false"])
             [] s.e.k = "jmp" -> invertjump(s, s.e.i)
             [] OTHER -> LET d == discharge2anyreg(s)
                         IN  Coded(Code(freeexp(d, d.e), "NOT", 0, d.e.i, 0),
                                   "reloc")
  IN  [r EXCEPT !.e.t = r.e.f, !.e.f = r.e.t,
                !.code = removevalues(@, r.e.t \cup r.e.f)]

----------------------------------------------------------------------------
(* Operators.                                                              *)

(* constfolding(): of numbers, at compile time.                            *)
codearith(s, op, e1) ==
  IF op = "ADD" /\ isnumeral(e1) /\ isnumeral(s.e)
  THEN E(s, [e1 EXCEPT !.i = @ + s.e.i])
  ELSE LET s2 == exp2RK(s)
           s1 == exp2RK(E(s2, e1))
           fr == IF s1.rk > s2.rk THEN freeexp(freeexp(s1, s1.e), s2.e)
                 ELSE freeexp(freeexp(s1, s2.e), s1.e)
       IN  Coded(Code(fr, op, 0, s1.rk, s2.rk), "reloc")

(* codecomp(): a > b is b < a.                                             *)
codecomp(s, op, cond, e1) ==
  LET s1   == exp2RK(E(s, e1))
      s2   == exp2RK(E(s1, s.e))
      fr   == freeexp(freeexp(s2, s2.e), s1.e)
      swap == cond = 0 /\ op # "EQ"
      c    == IF swap THEN condjump(fr, op, 1, s2.rk, s1.rk)
              ELSE condjump(fr, op, cond, s1.rk, s2.rk)
  IN  E(c, [s1.e EXCEPT !.k = "jmp", !.i = c.j.at, !.all = c.j.all])

(* luaK_prefix(): the minus of a number is folded.                         *)
prefix(s0, op) ==
  LET s == exp2anyreg(s0)
  IN  CASE op = "not" -> codenot(s0)
        [] op = "minus" /\ isnumeral(s0.e) -> E(s0, [s0.e EXCEPT !.i = -@])
        [] OTHER -> Coded(Code(freeexp(s, s.e), IF op = "len" THEN "LEN"
                                 ELSE "UNM", 0, s.e.i, 0), "reloc")

infix(s, op) ==
  CASE op = "and"    -> goiftrue(s)
    [] op = "or"     -> goiffalse(s)
    [] op = "concat" -> exp2nextreg(s)
    [] op = "add" -> IF isnumeral(s.e) THEN s ELSE exp2RK(s)
    [] OTHER         -> exp2RK(s)

posfix(s, op, e1) ==
  LET d == dischargevars(s)
      v == exp2val(s)
      n == exp2nextreg(v)
  IN  CASE op = "and" -> Asserted([d EXCEPT !.e.f = @ \cup e1.f], e1.t = {})
        [] op = "or"  -> Asserted([d EXCEPT !.e.t = @ \cup e1.t], e1.f = {})
        [] op = "concat" /\ v.e.k = "reloc" /\ v.code[v.e.i].op = "CONCAT" ->
             E([freeexp(Asserted(v, e1.i = v.code[v.e.i].b - 1), e1)
                  EXCEPT !.code[v.e.i].b = e1.i],
               [e1 EXCEPT !.k = "reloc", !.i = v.e.i])
        [] op = "concat" -> codearith(n, "CONCAT", e1)
        [] op = "add" -> codearith(s, "ADD", e1)
        [] op = "eq"  -> codecomp(s, "EQ", 1, e1)
        [] op = "ne"  -> codecomp(s, "EQ", 0, e1)
        [] op = "lt"  -> codecomp(s, "LT", 1, e1)
        [] op = "gt"  -> codecomp(s, "LT", 0, e1)
        [] op = "le"  -> codecomp(s, "LE", 1, e1)
        [] op = "ge"  -> codecomp(s, "LE", 0, e1)
=============================================================================
