----------------------------- MODULE LuaPrograms -----------------------------
(***************************************************************************)
(* What a Lua program means, by its syntax (the reference manual, chapter  *)
(* 2): operands left to right, the targets of an assignment before its     *)
(* values, a fresh variable for every round of a loop.  The compiler and   *)
(* the virtual machine of LuaVM are compared with it.                      *)
(*                                                                         *)
(* r has the variables (cells), functions, tables and log; a scope is its  *)
(* names with their cells, innermost last, and the arguments of the dots.  *)
(***************************************************************************)
EXTENDS LuaVM

Scope(names, first, scope) ==
  [scope EXCEPT !.vars = @ \o [i \in DOMAIN names |->
                                 [name |-> names[i], cell |-> first + i]]]
Nth(list, i) == IF i \in DOMAIN list THEN list[i] ELSE NIL
Adjusted(list, n) == [i \in 1 .. n |-> Nth(list, i)]
Cells(r, list) == [r EXCEPT !.cells = @ \o list]
CellOf(scope, name) ==
  LET at == {i \in DOMAIN scope.vars : scope.vars[i].name = name}
  IN  IF at = {} THEN 0 ELSE scope.vars[Max(at)].cell

RECURSIVE Values(_, _, _), Exec(_, _, _), While(_, _, _)

Value(r, scope, e) ==
  LET x == Values(r, scope, e) IN [x EXCEPT !.v = Nth(x.v, 1)]

(* The values of a list: all of its last expression, one of the others.    *)
List(r, scope, exps) ==
  LET upto[n \in 0 .. Len(exps)] ==
        LET p == upto[n - 1]
            x == IF n = Len(exps) THEN Values(p, scope, exps[n])
                 ELSE Value(p, scope, exps[n])
        IN  CASE n = 0 -> [r EXCEPT !.v = <<>>]
              [] n > 0 /\ n = Len(exps) -> [x EXCEPT !.v = p.v \o @]
              [] OTHER -> [x EXCEPT !.v = Append(p.v, @)]
  IN  upto[Len(exps)]

Apply(r, f, args) ==
  LET fn   == r.fns[f - 2000]
      out  == Asked(r, <<"call", f, args>>)
      ran  == Exec(Cells(r, Adjusted(args, Len(fn.params))),
                   [Scope(fn.params, Len(r.cells), fn.scope) EXCEPT
                      !.dots = SubSeq(args, Len(fn.params) + 1, Len(args))],
                   fn.body)
  IN  IF ~IsClosure(r, f) THEN [out EXCEPT !.v = <<out.v, 1>>]
      ELSE [ran EXCEPT !.sig = "run",
              !.v = IF ran.sig = "return" THEN ran.v ELSE <<>>]

Binary(op, x, y) ==
  CASE op = "add" -> Add(x, y) [] op = "concat" -> Join(x, y)
    [] op = "eq" -> Bool(x = y) [] op = "ne" -> Bool(x # y)
    [] op = "lt" -> Bool(x < y) [] op = "gt" -> Bool(y < x)
    [] op = "le" -> Bool(x <= y) [] op = "ge" -> Bool(y <= x)

(* Items of a constructor: numbered, or with their key.                    *)
Constructed(r0, scope, items_) ==
  LET n == Len(items_)
      t == TableRef(Len(r0.tabs) + 1)
      Entry(r, i, last) ==
        LET k == Value(r, scope, items_[i][2])
            x == Value(k, scope, items_[i][3])
            v == IF last THEN Values(r, scope, items_[i][2])
                 ELSE [k EXCEPT !.v = <<k.v>>]
        IN  IF items_[i][1] = "pair" THEN settable(x, t, k.v, x.v)
            ELSE [v EXCEPT !.tabs[t - 3000] =
                    [j \in r.n + 1 .. r.n + Len(v.v) |-> v.v[j - r.n]] @@ @,
                    !.n = r.n + 1]
      done[i \in 0 .. n] ==
        IF i = 0 THEN [r0 EXCEPT !.tabs = Append(@, <<>>), !.n = 0]
        ELSE Entry(done[i - 1], i, i = n)
  IN  [done[n] EXCEPT !.v = <<t>>, !.n = r0.n]

Values(r, scope, e) ==
  LET x == Value(r, scope, e[2])
      One(u, v) == [u EXCEPT !.v = <<v>>]
      k == Value(x, scope, e[3])
      g == gettable(k, x.v, k.v)
      m == gettable(x, x.v, e[3])
      Bin(a) == LET b == Value(a, scope, e[4])
                IN  CASE e[2] = "and" -> IF False(a.v) THEN One(a, a.v)
                                         ELSE One(b, b.v)
                      [] e[2] = "or" -> IF False(a.v) THEN One(b, b.v)
                                        ELSE One(a, a.v)
                      [] OTHER -> One(b, Binary(e[2], a.v, b.v))
      global == Asked(r, <<"read", e[2]>>)
      cell == CellOf(scope, e[2])
      args == List(x, scope, e[3])
      margs == List(m, scope, e[4])
  IN  CASE e[1] = "nil" -> One(r, NIL)
        [] e[1] = "true" -> One(r, TRUEv)
        [] e[1] = "false" -> One(r, FALSEv)
        [] e[1] \in {"num", "str"} -> One(r, e[2])
        [] e[1] = "dots" -> [r EXCEPT !.v = scope.dots]
        [] e[1] = "var" -> IF cell = 0 THEN One(global, global.v)
                           ELSE One(r, r.cells[cell])
        [] e[1] = "paren" -> One(x, x.v)
        [] e[1] = "not" -> One(x, Bool(False(x.v)))
        [] e[1] = "minus" -> One(x, Minus(x.v))
        [] e[1] = "len" -> One(x, Length(x.v))
        [] e[1] = "bin" -> Bin(Value(r, scope, e[3]))
        [] e[1] = "index" -> One(g, g.v)
        [] e[1] = "call" -> Apply(args, x.v, args.v)
        [] e[1] = "method" -> Apply(margs, m.v, <<x.v>> \o margs.v)
        [] e[1] = "table" -> Constructed(r, scope, e[2])
        [] e[1] = "fn" ->
             [r EXCEPT !.fns = Append(@, [params |-> e[2], body |-> e[4],
                                          scope |-> scope]),
                       !.v = <<Closure(Len(r.fns) + 1)>>]

----------------------------------------------------------------------------
(* Statements.                                                             *)

Target(r, scope, t) ==
  LET x == Value(r, scope, t[2])
      k == Value(x, scope, t[3])
  IN  IF t[1] = "var" THEN [r EXCEPT !.v = <<"name", t[2]>>]
      ELSE [k EXCEPT !.v = <<"field", x.v, k.v>>]
Targets(r, scope, list) ==
  LET upto[n \in 0 .. Len(list)] ==
        IF n = 0 THEN [r EXCEPT !.v = <<>>]
        ELSE LET t == Target(upto[n - 1], scope, list[n])
             IN  [t EXCEPT !.v = Append(upto[n - 1].v, @)]
  IN  upto[Len(list)]
Store(r, scope, t, v) ==
  LET cell == CellOf(scope, t[2])
  IN  CASE t[1] = "field" -> settable(r, t[2], t[3], v)
        [] t[1] = "name" /\ cell # 0 -> [r EXCEPT !.cells[cell] = v]
        [] OTHER -> Said(r, <<"write", t[2], v>>)
Assigned(r, scope, targets, exps) ==
  LET t == Targets(r, scope, targets)
      x == List(t, scope, exps)
      n == Len(targets)
      from[i \in 1 .. n + 1] ==
        IF i > n THEN x ELSE Store(from[i + 1], scope, t.v[i], Nth(x.v, i))
  IN  from[1]

After(r) == IF r.sig = "break" THEN [r EXCEPT !.sig = "run"] ELSE r

(* A loop: go on while the condition says so.                              *)
While(r, scope, s) ==
  LET c == Value(r, scope, s[2])
      b == Exec(c, scope, s[3])
  IN  IF False(c.v) THEN c
      ELSE IF b.sig # "run" THEN After(b) ELSE While(b, scope, s)

RECURSIVE Repeat(_, _, _)
Repeat(r, scope, s) ==
  LET b == Exec(r, scope, Append(s[2], <<"until", s[3]>>))
  IN  IF b.sig # "run" THEN After(b) ELSE Repeat(b, scope, s)

RECURSIVE For(_, _, _, _, _, _)
For(r, scope, s, at, to, step) ==
  LET b == Exec(Cells(r, <<at>>), Scope(<<s[2]>>, Len(r.cells), scope), s[6])
  IN  IF IF step > 0 THEN at > to ELSE to > at THEN r
      ELSE IF b.sig # "run" THEN After(b)
      ELSE For(b, scope, s, at + step, to, step)

RECURSIVE ForIn(_, _, _, _)
ForIn(r, scope, s, fsc) ==
  LET c  == Apply(r, fsc[1], <<fsc[2], fsc[3]>>)
      vs == Adjusted(c.v, Len(s[2]))
      b  == Exec(Cells(c, vs), Scope(s[2], Len(c.cells), scope), s[4])
  IN  CASE vs[1] = NIL -> c
        [] vs[1] # NIL /\ b.sig # "run" -> After(b)
        [] OTHER -> ForIn(b, scope, s, [fsc EXCEPT ![3] = vs[1]])

RECURSIVE Clauses(_, _, _, _)
Clauses(r, scope, list, else) ==
  LET c == Value(r, scope, Head(list)[1])
  IN  CASE list = <<>> -> IF else = <<>> THEN r ELSE Exec(r, scope, else[1])
        [] list # <<>> /\ False(c.v) -> Clauses(c, scope, Tail(list), else)
        [] OTHER -> Exec(c, scope, Head(list)[2])

Exec(r, scope, stats) ==
  LET s == Head(stats)
      Then(u) == IF u.sig = "run" THEN Exec(u, scope, Tail(stats)) ELSE u
      x == List(r, scope, s[3])
      f == Value(r, scope, s[3])
      t == Value(f, scope, s[4])
      p == IF s[5] = <<>> THEN [t EXCEPT !.v = 1] ELSE Value(t, scope, s[5][1])
      g == List(r, scope, s[3])
      c == Value(r, scope, s[2])
      in == Scope(s[2], Len(x.cells), scope)
      fn == Scope(<<s[2]>>, Len(r.cells), scope)
  IN  IF stats = <<>> THEN r
      ELSE CASE s[1] = "local" ->
             Exec(Cells(x, Adjusted(x.v, Len(s[2]))), in, Tail(stats))
        [] s[1] = "localfunction" ->
             Exec([Cells(r, <<Closure(Len(r.fns) + 1)>>) EXCEPT
                     !.fns = Append(@, [params |-> s[3], body |-> s[4],
                                        scope |-> fn])], fn, Tail(stats))
        [] s[1] = "set" -> Then(Assigned(r, scope, s[2], s[3]))
        [] s[1] = "do" -> Then(Exec(r, scope, s[2]))
        [] s[1] = "while" -> Then(While(r, scope, s))
        [] s[1] = "repeat" -> Then(Repeat(r, scope, s))
        [] s[1] = "until" -> [c EXCEPT !.sig = IF False(c.v) THEN "run"
                                               ELSE "break"]
        [] s[1] = "if" -> Then(Clauses(r, scope, s[2], s[3]))
        [] s[1] = "for" -> Then(For(p, scope, s, f.v, t.v, p.v))
        [] s[1] = "forin" -> Then(ForIn(g, scope, s, Adjusted(g.v, 3)))
        [] s[1] = "break" -> [r EXCEPT !.sig = "break"]
        [] s[1] = "return" ->
             [List(r, scope, s[2]) EXCEPT !.sig = "return"]
        [] OTHER -> Then(Values(r, scope, s))

----------------------------------------------------------------------------
(* A program as it is run and as it is meant.                              *)

Told(m, v) == [v |-> v, log |-> m.log, tabs |-> m.tabs]
Meaning(chunk, answers) ==
  LET r == Exec([cells |-> <<>>, fns |-> <<[params |-> <<>>]>>,
                 tabs |-> <<>>, log |-> <<>>, asked |-> 0, n |-> 0,
                 answers |-> answers, v |-> <<>>, sig |-> "run"],
                [vars |-> <<>>, dots |-> <<>>], chunk)
  IN  Told(r, IF r.sig = "return" THEN r.v ELSE <<>>)
Outcome(chunk, answers) ==
  LET m == RunCode(chunk, answers) IN Told(m, m.v)
=============================================================================
