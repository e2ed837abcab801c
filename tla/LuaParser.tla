------------------------------ MODULE LuaParser ------------------------------
(***************************************************************************)
(* The compiler of one pass (lparser.c): what each rule of the grammar has *)
(* the code generator do, the scopes of local variables and upvalues, and  *)
(* the blocks a break leaves.                                              *)
(*                                                                         *)
(* A program is its syntax tree, in tuples tagged with the rule: reading   *)
(* the tokens, precedence and syntax errors are left out.  A nested binary *)
(* expression stands in parentheses.  Only TLC uses this module.           *)
(***************************************************************************)
EXTENDS LuaCode, FiniteSetsExt

----------------------------------------------------------------------------
(* Variables and blocks.                                                   *)

adjustlocalvars(s, names) ==
  [s EXCEPT !.nact = @ + Len(names), !.vars = @ \o names]
removevars(s, level) ==
  [s EXCEPT !.nact = level, !.vars = SubSeq(@, 1, level)]

indexupvalue(s, name, v) ==
  LET same == {i \in DOMAIN s.ups : s.ups[i].k = v.k /\ s.ups[i].i = v.i}
  IN  IF same # {} THEN E(s, Exp("upval", Max(same)))
      ELSE E([s EXCEPT !.ups = Append(@, [k |-> v.k, i |-> v.i])],
             Exp("upval", Len(s.ups) + 1))

(* markupval(): the block that declared the variable will close it.        *)
markupval(s, reg) ==
  LET at == {b \in DOMAIN s.blocks : s.blocks[b].nact <= reg}
  IN  IF at = {} THEN s ELSE [s EXCEPT !.blocks[Max(at)].upval = TRUE]

RECURSIVE singlevaraux(_, _, _)
singlevaraux(s, name, base) ==
  LET found == {i \in DOMAIN s.vars : s.vars[i] = name}
      local == E(s, Exp("local", Max(found) - 1))
      outer == singlevaraux(s.outer[1], name, FALSE)
  IN  CASE found # {} ->
             IF base THEN local ELSE markupval(local, Max(found) - 1)
        [] found = {} /\ s.outer = <<>> -> E(s, Exp("global", name))
        [] OTHER ->
             IF outer.e.k = "global" THEN E(s, outer.e)
             ELSE indexupvalue([s EXCEPT !.outer = <<outer>>], name, outer.e)

enterblock(s, breakable) ==
  Asserted([s EXCEPT !.blocks =
            Append(@, [nact |-> s.nact, breakable |-> breakable,
                       upval |-> FALSE, brk |-> {}])], s.free = s.nact)

(* Mutant: a block leaves its captured variables open.                     *)
CloseNone(s, bl) == s
CloseIn(s, bl) == IF bl.upval THEN Code(s, "CLOSE", bl.nact, 0, 0) ELSE s
leaveblock(s0) ==
  LET bl == s0.blocks[Len(s0.blocks)]
      s  == CloseIn(removevars([s0 EXCEPT !.blocks =
                       SubSeq(@, 1, Len(@) - 1)], bl.nact), bl)
  IN  patchtohere([Asserted(s, ~(bl.breakable /\ bl.upval))
                     EXCEPT !.free = bl.nact], bl.brk)

breakstat(s) ==
  LET at == Max({b \in DOMAIN s.blocks : s.blocks[b].breakable})
      up == \E b \in at + 1 .. Len(s.blocks) : s.blocks[b].upval
      c  == IF up THEN Code(s, "CLOSE", s.blocks[at].nact, 0, 0) ELSE s
      jp == Jump(c)
  IN  [jp EXCEPT !.blocks[at].brk = @ \cup jp.j.all]

----------------------------------------------------------------------------
(* Lists of expressions and values.                                        *)

RECURSIVE Expr(_, _), Block(_, _), Statement(_, _)

RECURSIVE explist1(_, _)
explist1(s, list) ==
  LET e == Expr(s, Head(list))
  IN  IF Len(list) = 1 THEN e ELSE explist1(exp2nextreg(e), Tail(list))

(* adjust_assign(): the values are brought to the number of variables.     *)
adjust_assign(s, nvars, nexps) ==
  LET extra == nvars - nexps
      wants == IF extra + 1 < 0 THEN 0 ELSE extra + 1
      r     == setreturns(s, wants)
      last  == IF s.e.k = "void" THEN s ELSE exp2nextreg(s)
  IN  CASE hasmultret(s.e) -> IF wants > 1 THEN reserve(r, wants - 1) ELSE r
        [] ~hasmultret(s.e) /\ extra > 0 ->
             LoadNil(reserve(last, extra), last.free, extra)
        [] OTHER -> last

values(s, list) ==
  IF list = <<>> THEN E(s, Exp("void", 0)) ELSE explist1(s, list)

----------------------------------------------------------------------------
(* Constructors.  cc has the list item read last, the number of list items *)
(* and how many of them wait in registers.                                 *)

closelistfield(s, t, cc) ==
  LET v == exp2nextreg(E(s, cc.v))
  IN  IF cc.v.k = "void" \/ cc.wait < Flush
      THEN IF cc.v.k = "void" THEN s ELSE v
      ELSE setlist(v, t, cc.na, cc.wait)
Pending(cc) == IF cc.v.k # "void" /\ cc.wait = Flush THEN 0 ELSE cc.wait

lastlistfield(s, t, cc) ==
  LET v == IF cc.v.k = "void" THEN s ELSE exp2nextreg(E(s, cc.v))
  IN  CASE cc.wait = 0 -> s
        [] cc.wait # 0 /\ hasmultret(cc.v) ->
             setlist(setreturns(E(s, cc.v), MultRet), t, cc.na, MultRet)
        [] OTHER -> setlist(v, t, cc.na, cc.wait)

recfield(s, t, item) ==
  LET key == exp2RK(exp2val(Expr(s, item[2])))
      val == exp2RK(Expr(key, item[3]))
  IN  [Code(val, "SETTABLE", t, key.rk, val.rk) EXCEPT !.free = s.free]

RECURSIVE items(_, _, _, _)
items(s, t, cc, list) ==
  LET c    == closelistfield(s, t, cc)
      item == Head(list)
      v    == Expr(c, item[2])
      none == [cc EXCEPT !.v = Exp("void", 0), !.wait = Pending(cc)]
  IN  CASE list = <<>> -> lastlistfield(s, t, cc)
        [] list # <<>> /\ item[1] = "item" ->
             items(v, t, [v |-> v.e, na |-> cc.na + 1,
                          wait |-> Pending(cc) + 1], Tail(list))
        [] OTHER -> items(recfield(c, t, item), t, none, Tail(list))

constructor(s, list) ==
  LET t == exp2nextreg(Coded(Code(s, "NEWTABLE", 0, 0, 0), "reloc"))
  IN  E(items(t, t.e.i, [v |-> Exp("void", 0), na |-> 0, wait |-> 0], list),
        t.e)

----------------------------------------------------------------------------
(* Functions.                                                              *)

close_func(s0) ==
  LET s == ret(removevars(s0, 0), 0, 0)
  IN  [code |-> s.code, protos |-> s.protos, ups |-> s.ups, max |-> s.max,
       nparams |-> s.nparams, vararg |-> s.vararg, ok |-> s.ok]

pushclosure(s, p) ==
  LET at == Here(s)
      c  == Code([s EXCEPT !.protos = Append(@, p)],
                 "CLOSURE", 0, Len(s.protos) + 1, 0)
      Up(u, v) == Code(u, IF v.k = "local" THEN "MOVE" ELSE "GETUPVAL",
                       0, v.i, 0)
      up[n \in 0 .. Len(p.ups)] ==
        IF n = 0 THEN c ELSE Up(up[n - 1], p.ups[n])
  IN  E(up[Len(p.ups)], Exp("reloc", at))

(* body(), with the arg a vararg function has for compatibility.           *)
body(s, params, dots, chunk) ==
  LET vars == IF dots THEN Append(params, "arg") ELSE params
      fs   == Block(NewState(vars, Len(params), dots, <<s>>), chunk)
  IN  pushclosure(fs.outer[1], close_func(fs))

funcargs(s, args) ==
  LET f    == s.e
      a    == explist1(s, args)
      open == args # <<>> /\ hasmultret(a.e)
      r    == CASE args = <<>> -> s
                [] args # <<>> /\ open -> setreturns(a, MultRet)
                [] OTHER -> exp2nextreg(a)
      n    == IF open THEN MultRet ELSE r.free - (f.i + 1)
      c    == Code(Asserted(r, f.k = "nonreloc"), "CALL", f.i, n + 1, 2)
  IN  E([c EXCEPT !.free = f.i + 1], Exp("call", Len(c.code)))

----------------------------------------------------------------------------
(* Expressions.                                                            *)

primaryexp(s, e) ==
  CASE e[1] = "var" -> singlevaraux(s, e[2], TRUE)
    [] e[1] = "paren" -> dischargevars(Expr(s, e[2]))
    [] e[1] = "index" ->
         LET t == exp2anyreg(Expr(s, e[2]))
         IN  indexed(exp2val(Expr(t, e[3])), t.e)
    [] e[1] = "call" -> funcargs(exp2nextreg(Expr(s, e[2])), e[3])
    [] e[1] = "method" -> funcargs(self(Expr(s, e[2]), e[3]), e[4])

simpleexp(s, e) ==
  CASE e[1] \in {"nil", "true", "false"} -> E(s, Exp(e[1], 0))
    [] e[1] = "num"  -> E(s, Exp("num", e[2]))
    [] e[1] = "str"  -> E(s, Exp("k", e[2]))
    [] e[1] = "dots" -> Coded(Code(s, "VARARG", 0, 1, 0), "vararg")
    [] e[1] = "table" -> constructor(s, e[2])
    [] e[1] = "fn"   -> body(s, e[2], e[3], e[4])
    [] OTHER         -> primaryexp(s, e)

(* subexpr()                                                               *)
Expr(s, e) ==
  CASE e[1] \in {"not", "minus", "len"} -> prefix(Expr(s, e[2]), e[1])
    [] e[1] = "bin" ->
         LET a == infix(Expr(s, e[3]), e[2])
         IN  posfix(Expr(a, e[4]), e[2], a.e)
    [] OTHER -> simpleexp(s, e)

cond(s0, e) ==
  LET s == Expr(s0, e)
  IN  goiftrue(IF s.e.k = "nil" THEN [s EXCEPT !.e.k = "false"] ELSE s)

----------------------------------------------------------------------------
(* Assignments.                                                            *)

(* check_conflict(): tables of the list that the local variable is keep    *)
(* its old value.                                                          *)
(* Mutant: only the table is looked at, not the key. *)
ConflictInTable(v, reg) == v.k = "indexed" /\ v.i = reg
Conflict(v, reg) == v.k = "indexed" /\ (v.i = reg \/ v.aux = reg)
check_conflict(s, lh, reg) ==
  LET Safe(r) == IF r = reg THEN s.free ELSE r
      saved == [n \in DOMAIN lh |->
                  IF lh[n].k = "indexed"
                  THEN [lh[n] EXCEPT !.i = Safe(@), !.aux = Safe(@)]
                  ELSE lh[n]]
  IN  IF \E n \in DOMAIN lh : Conflict(lh[n], reg)
      THEN [s |-> reserve(Code(s, "MOVE", s.free, reg, 0), 1), lh |-> saved]
      ELSE [s |-> s, lh |-> lh]

RECURSIVE stores(_, _)
stores(s, lh) ==
  IF lh = <<>> THEN s
  ELSE stores(storevar(E(s, Exp("nonreloc", s.free - 1)), lh[Len(lh)]),
              SubSeq(lh, 1, Len(lh) - 1))

RECURSIVE assignment(_, _, _, _)
assignment(s, lh, targets, exps) ==
  LET v == primaryexp(s, Head(targets))
      c == IF v.e.k = "local" THEN check_conflict(v, lh, v.e.i)
           ELSE [s |-> v, lh |-> lh]
      x == explist1(s, exps)
      n == Len(lh)
      a == adjust_assign(x, n, Len(exps))
  IN  CASE targets # <<>> ->
             assignment(c.s, Append(c.lh, v.e), Tail(targets), exps)
        [] targets = <<>> /\ Len(exps) = n ->
             stores(storevar(setoneret(x), lh[n]), SubSeq(lh, 1, n - 1))
        [] OTHER ->
             stores(IF Len(exps) > n
                    THEN [a EXCEPT !.free = @ - (Len(exps) - n)] ELSE a, lh)

----------------------------------------------------------------------------
(* Statements.                                                             *)

Chunk(s, stats) ==
  LET Free(u) == [Asserted(u, u.max >= u.free /\ u.free >= u.nact)
                    EXCEPT !.free = u.nact]
      done[n \in 0 .. Len(stats)] ==
        LET u == IF n = 0 THEN s ELSE done[n - 1]
        IN  IF n = 0 \/ ~u.ok THEN u ELSE Free(Statement(u, stats[n]))
  IN  done[Len(stats)]
Block(s, stats) == Chunk(s, stats)
block(s, stats) == leaveblock(Block(enterblock(s, FALSE), stats))

whilestat(s, e, stats) ==
  LET c  == cond(getlabel(s), e)
      jp == Jump(block(enterblock(c, TRUE), stats))
  IN  patchtohere(leaveblock(patchlist(jp, jp.j.all, Here(s))), c.e.f)

repeatstat(s, stats, e) ==
  LET c  == cond(Block(enterblock(enterblock(getlabel(s), TRUE), FALSE),
                       stats), e)
      b  == leaveblock(patchtohere(breakstat(c), c.e.f))
      jp == Jump(b)
  IN  leaveblock(IF ~c.blocks[Len(c.blocks)].upval
                 THEN patchlist(leaveblock(c), c.e.f, Here(s))
                 ELSE patchlist(jp, jp.j.all, Here(s)))

exp1(s, e) == exp2nextreg(Expr(s, e))

forbody(s, base, names, isnum, stats) ==
  LET v    == adjustlocalvars(s, <<"(for)", "(for)", "(for)">>)
      prep == IF isnum THEN Code(v, "FORPREP", base, NoJump, 0) ELSE Jump(v)
      wait == IF isnum THEN {Len(prep.code)} ELSE prep.j.all
      in   == reserve(adjustlocalvars(enterblock(prep, FALSE), names),
                      Len(names))
      out  == patchtohere(leaveblock(block(in, stats)), wait)
      end  == IF isnum THEN Code(out, "FORLOOP", base, NoJump, 0)
              ELSE Jump(Code(out, "TFORLOOP", base, 0, Len(names)))
  IN  patchlist(end, IF isnum THEN {Len(end.code)} ELSE end.j.all,
                Len(prep.code) + 1)

fornum(s0, name, from, to, step, stats) ==
  LET s == enterblock(s0, TRUE)
      b == exp1(exp1(s, from), to)
      i == IF step = <<>> THEN reserve(Code(b, "LOADK", b.free, 1, 0), 1)
           ELSE exp1(b, step[1])
  IN  leaveblock(forbody(i, s.free, <<name>>, TRUE, stats))

forlist(s0, names, exps, stats) ==
  LET s == enterblock(s0, TRUE)
      a == adjust_assign(explist1(s, exps), 3, Len(exps))
      c == [reserve(a, 3) EXCEPT !.free = a.free]      \* luaK_checkstack()
  IN  leaveblock(forbody(c, s.free, names, FALSE, stats))

ifstat(s, clauses, else) ==
  LET Then(u, c, esc) ==
        LET t == cond(u, c[1])
        IN  [s |-> block(t, c[2]), esc |-> esc, f |-> t.e.f]
      Escape(x) ==
        LET jp == Jump(x.s)
        IN  [x EXCEPT !.s = patchtohere(jp, x.f), !.esc = @ \cup jp.j.all]
      done[n \in DOMAIN clauses] ==
        LET x == Escape(done[n - 1])
        IN  IF n = 1 THEN Then(s, clauses[1], {})
            ELSE Then(x.s, clauses[n], x.esc)
      last == done[Len(clauses)]
      x    == Escape(last)
  IN  IF else = <<>> THEN patchtohere(last.s, last.esc \cup last.f)
      ELSE patchtohere(block(x.s, else[1]), x.esc)

localfunc(s, name, params, stats) ==
  LET v == Exp("local", s.free)
  IN  storevar(body(adjustlocalvars(reserve(s, 1), <<name>>),
                    params, FALSE, stats), v)

localstat(s, names, exps) ==
  adjustlocalvars(adjust_assign(values(s, exps), Len(names), Len(exps)),
                  names)

exprstat(s, e) ==
  LET c == primaryexp(s, e)
  IN  [c EXCEPT !.code[c.e.i].c = 1]

retstat(s, exps) ==
  LET e  == values(s, exps)
      n  == Len(exps)
      mr == setreturns(e, MultRet)
      tc == IF e.e.k = "call" /\ n = 1
            THEN Asserted([mr EXCEPT !.code[e.e.i].op = "TAILCALL"],
                        mr.code[e.e.i].a = s.nact) ELSE mr
      one == exp2anyreg(e)
      all == exp2nextreg(e)
  IN  CASE n = 0 -> ret(s, 0, 0)
        [] n > 0 /\ hasmultret(e.e) -> ret(tc, s.nact, MultRet)
        [] n = 1 /\ ~hasmultret(e.e) -> ret(one, one.e.i, 1)
        [] OTHER -> ret(Asserted(all, n = all.free - s.nact), s.nact, n)

Statement(s, t) ==
  CASE t[1] = "if"     -> ifstat(s, t[2], t[3])
    [] t[1] = "while"  -> whilestat(s, t[2], t[3])
    [] t[1] = "do"     -> block(s, t[2])
    [] t[1] = "for"    -> fornum(s, t[2], t[3], t[4], t[5], t[6])
    [] t[1] = "forin"  -> forlist(s, t[2], t[3], t[4])
    [] t[1] = "repeat" -> repeatstat(s, t[2], t[3])
    [] t[1] = "localfunction" -> localfunc(s, t[2], t[3], t[4])
    [] t[1] = "local"  -> localstat(s, t[2], t[3])
    [] t[1] = "return" -> retstat(s, t[2])
    [] t[1] = "break"  -> breakstat(s)
    [] t[1] = "set"    -> assignment(s, <<>>, t[2], t[3])
    [] OTHER           -> exprstat(s, t)

(* luaY_parser(): a chunk is a vararg function, without the arg.           *)
luaY_parser(chunk) == close_func(Block(NewState(<<>>, 0, TRUE, <<>>), chunk))
=============================================================================
