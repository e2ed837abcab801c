---------------------------- MODULE MCLuaLibrary ----------------------------
(* Values for the constants of LuaLibrary.                                 *)
EXTENDS LuaLibrary, TLC

(* ToObject: tables are interchangeable, but for the one that is given.    *)
(* LuaModules: modules are.                                                *)
Symmetry == Permutations(Table \ {Given}) \cup Permutations(Module)

(* LuaPatterns: every kind of item, and every repetition of a set of one   *)
(* character and of one of two.                                            *)
One(set, rep) == [k |-> "one", set |-> set, rep |-> rep]
Open          == [k |-> "("]
Position      == [k |-> "()"]
Close         == [k |-> ")"]
Back(n)       == [k |-> "%1", n |-> n]
Balance(b, e) == [k |-> "%b", b |-> b, e |-> e]
Frontier(set) == [k |-> "%f", set |-> set]
End           == [k |-> "$"]
MCItems ==
  {One({"a"}, r) : r \in {"1", "?", "*", "+", "-"}}
    \cup {One({"a", "b"}, r) : r \in {"*", "-"}}
    \cup {Open, Position, Close, Back(1), Balance("a", "b"),
          Frontier({"a"}), End}
MCLateItems == {Close, Back(1)}
MCSubjects ==
  {<<>>, <<"a">>, <<"a", "b">>, <<"a", "a", "b">>, <<"b", "a", "a">>}

(* LuaSort: every list of up to five items under every order of three, and *)
(* up to seven of two; any answers over a list of up to five.              *)
MCItem == 1 .. 3
MCSorts ==
  LET Lists(set, n) == UNION {[1 .. k -> set] : k \in 0 .. n}
      Strict == {r \in SUBSET (MCItem \X MCItem) : Q!IsOrder(r)}
      Sort(list, steady, r) ==
        [items |-> list, lt |-> [steady |-> steady, less |-> r]]
  IN  {Sort(list, TRUE, r) : list \in Lists(MCItem, 5), r \in Strict}
        \cup {Sort(list, TRUE, {<<1, 2>>, <<1, 3>>}) :
                 list \in Lists({1, 2}, 7)}
        \cup {Sort([p \in 1 .. n |-> (p \div 2) + 1], FALSE, {}) :
                 n \in 0 .. 5}

(* LuaCompiler: operands and operators, x is local and g is global.        *)
Nil_   == <<"nil">>
True_  == <<"true">>
False_ == <<"false">>
N(n) == <<"num", n>>
V(name) == <<"var", name>>
MCLeaves == {Nil_, True_, False_, N(1), V("x"), V("g")}
MCLateLeaves == {True_, False_, V("g")}
MCOperations == {"and", "or", "eq", "lt", "gt", "add"}
MCInputs == {<<1, -11>>, <<-11, 1>>, <<2, 3, 4>>}

(* Statements, as the parser of LuaParser gets them.                       *)
Local(names, es)  == <<"local", names, es>>
Set(targets, es)  == <<"set", targets, es>>
Ret(es)           == <<"return", es>>
Call(f, args)     == <<"call", f, args>>
Plus(e, f)        == <<"bin", "add", e, f>>
Concat(e, f)      == <<"bin", "concat", e, f>>
At(t, k)          == <<"index", t, k>>
Fn(params, body)  == <<"fn", params, FALSE, body>>
Dotted(params, body) == <<"fn", params, TRUE, body>>
If(e, stats)      == <<"if", <<<<e, stats>>>>, <<>>>>
Item_(e)          == <<"item", e>>
Dots              == <<"dots">>

(* Captured variables: shared by two calls, one for each round of a loop,  *)
(* closed by the condition of repeat and by break.                         *)
Closures ==
  {<<Local(<<"x">>, <<N(0)>>),
     <<"localfunction", "f", <<"a">>,
       <<Set(<<V("x")>>, <<Plus(V("x"), V("a"))>>), Ret(<<V("x"), V("a")>>)>>>>,
     Call(V("f"), <<N(3)>>), Ret(<<Call(V("f"), <<N(1)>>)>>)>>,
   <<Local(<<"t">>, <<<<"table", <<>>>>>>),
     <<"for", "i", N(1), N(3), <<>>,
       <<Set(<<At(V("t"), V("i"))>>,
             <<Fn(<<>>, <<Set(<<V("i")>>, <<Plus(V("i"), N(10))>>),
                          Ret(<<V("i")>>)>>)>>)>>>>,
     Call(At(V("t"), N(1)), <<>>),
     Ret(<<Call(At(V("t"), N(1)), <<>>), Call(At(V("t"), N(2)), <<>>)>>)>>,
   <<<<"repeat", <<Local(<<"x">>, <<V("g")>>),
                   Set(<<V("f")>>, <<Fn(<<>>, <<Ret(<<V("x")>>)>>)>>)>>,
       <<"not", V("x")>>>>,
     Ret(<<V("f")>>)>>,
   <<<<"while", V("g"), <<Local(<<"x">>, <<V("g")>>),
                          Set(<<V("f")>>, <<Fn(<<>>, <<Ret(<<V("x")>>)>>)>>),
                          If(V("x"), <<<<"break">>>>)>>>>,
     Ret(<<V("f"), N(4)>>)>>}

(* Assignments that read what they change, varargs, calls, a generic for.  *)
Assignments ==
  {<<Local(<<"a", "b">>, <<N(1), N(2)>>),
     Set(<<At(V("g"), V("a")), V("a"), V("b")>>, <<V("b"), V("a")>>),
     Ret(<<V("a"), V("b")>>)>>,
   <<Local(<<"a">>, <<<<"table", <<>>>>>>),
     Set(<<At(V("a"), N(1)), V("a")>>, <<N(7), N(8)>>), Ret(<<V("a")>>)>>}
Functions ==
  {<<Local(<<"f">>, <<Dotted(<<"a">>, <<Ret(<<Dots, Dots>>)>>)>>),
     Ret(<<Call(V("f"), <<N(1), N(2), N(3)>>)>>)>>,
   <<Local(<<"f">>, <<Dotted(<<"a">>,
       <<Local(<<"p", "q", "r">>, <<Dots>>),
         Ret(<<V("r"), V("q"), V("p"), V("a")>>)>>)>>),
     Ret(<<Call(V("f"), <<N(1), N(2), N(3)>>)>>)>>,
   <<Ret(<<<<"method", V("g"), 66, <<N(1), V("h")>>>>>>)>>,
   <<Ret(<<<<"paren", Call(V("g"), <<N(1), Call(V("h"), <<>>)>>)>>,
           Call(V("g"), <<>>)>>)>>,
   <<<<"localfunction", "it", <<"s", "c">>,
       <<If(<<"bin", "lt", V("c"), V("s")>>,
            <<Ret(<<Plus(V("c"), N(1)), V("c")>>)>>)>>>>,
     <<"forin", <<"a", "b">>, <<V("it"), N(3), N(0)>>,
       <<Set(<<V("g")>>, <<Concat(V("a"), Concat(V("b"), V("a")))>>),
         If(<<"bin", "eq", V("a"), V("h")>>, <<<<"break">>>>)>>>>,
     Ret(<<V("g")>>)>>}

(* Constructors that pass the limit of one SETLIST, and open ones.         *)
Constructors ==
  {<<Ret(<<<<"table", list>>>>)>> :
     list \in {<<>>, <<Item_(N(1))>>, <<Item_(Dots)>>,
               <<Item_(N(1)), Item_(N(2)), Item_(V("g"))>>,
               <<Item_(N(1)), <<"pair", <<"str", 61>>, V("g")>>, Item_(N(2)),
                 Item_(Call(V("g"), <<>>))>>,
               <<Item_(N(1)), Item_(N(2)), Item_(Call(V("g"), <<>>))>>,
               <<Item_(Call(V("g"), <<>>)), Item_(N(2)), Item_(N(2)),
                 Item_(N(2))>>}}

MCChunks == Closures \cup Assignments \cup Functions \cup Constructors
=============================================================================
