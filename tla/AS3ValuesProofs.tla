-------------------------- MODULE AS3ValuesProofs --------------------------
(* Theorems about AS3Values for every set of values and every bound.       *)
EXTENDS AS3Values, FiniteSetTheorems, SequenceTheorems,
        WellFoundedInduction, TLAPS

(* What each kind of userdata carries; an AS3 function made of a Lua       *)
(* function has one record, and there is one userdata that runs handlers.  *)
Shape ==
  /\ \A i \in Ids :
       udata[i].kind = "as3" => udata[i].val \in Val \cup {Undefined}
  /\ \A i \in Ids : udata[i].kind = "callback" =>
       udata[i].val \in Fn /\ Made(udata[i].val)
  /\ \A i, j \in Ids :
       udata[i].kind = "callback" /\ udata[j].kind = "callback"
         /\ udata[i].val = udata[j].val => i = j
  /\ \A i, j \in Ids :
       udata[i].kind = "onclose" /\ udata[j].kind = "onclose" => i = j
  /\ \A f \in listeners \cup live :
       \E i \in Ids : udata[i].kind = "callback" /\ udata[i].val = f
  /\ \A i \in Ids : udata[i].kind = "callback" /\ udata[i].done =>
       udata[i].val \notin live
  /\ \A h \in 1..Len(handlers) : udata[handlers[h]].kind = "as3"
  /\ HasRunner <=> handlers # <<>>

(* What the phases of lua_close() have done and not done.                  *)
Phases ==
  /\ phase = "open" =>
       /\ height = 0 /\ handler = 0
       /\ \A h \in 1..Len(handlers) : ~udata[handlers[h]].done
       /\ \A i \in Ids : udata[i].kind = "onclose" => ~udata[i].done
  /\ handler > 0 => phase = "closing"
  /\ phase # "open" => \A i \in Ids : udata[i].kind = "onclose" => i <= height
  /\ phase = "closed" => Pending = {}

(* Finalizers run from the newest to the oldest.                           *)
NewestFirst ==
  /\ \A h \in 1..Len(handlers), i \in Pending :
       udata[handlers[h]].done => i < handlers[h]
  /\ handler > 0 =>
       /\ HasRunner
       /\ \A i \in Ids : udata[i].kind = "onclose" =>
         /\ udata[i].done
         /\ \A h \in 1..Len(handlers) :
              udata[handlers[h]].done => i < handlers[h]

(* The handlers that ran are those up to the one that runs; none before    *)
(* the userdata that runs them is done, and all of them afterwards, unless *)
(* the report of an error raised another.                                  *)
RunnerDone == \E i \in Ids : udata[i].kind = "onclose" /\ udata[i].done

Counted ==
  /\ \A n \in 1..Len(ran) : ran[n] = n
  /\ handler > 0 => Len(ran) = handler
  /\ handler = 0 /\ ~RunnerDone => Len(ran) = 0
  /\ handler = 0 /\ RunnerDone => Len(ran) = Len(handlers) \/ cut

IInv == TypeOK /\ Shape /\ Phases /\ NewestFirst /\ Counted
----------------------------------------------------------------------------
(* The sequence of userdata.                                               *)

New(kind, v) == [kind |-> kind, val |-> v, done |-> FALSE]

LEMMA IdsLemma ==
  ASSUME TypeOK
  PROVE  /\ Len(udata) \in Nat /\ Ids = DOMAIN udata
         /\ \A i \in Ids : /\ i \in Nat /\ i > 0 /\ i <= Len(udata)
                           /\ udata[i] \in Udata
         /\ Len(handlers) \in Nat
         /\ \A h \in 1..Len(handlers) : handlers[h] \in Ids
BY LenProperties, ElementOfSeq DEF TypeOK, Ids

(* lua_newuserdata(): the others stay. *)
LEMMA NewLemma ==
  ASSUME TypeOK, NEW u \in Udata
  PROVE  /\ Append(udata, u) \in Seq(Udata)
         /\ Len(Append(udata, u)) = Len(udata) + 1
         /\ \A i \in Ids : Append(udata, u)[i] = udata[i]
         /\ Append(udata, u)[Len(udata) + 1] = u
BY AppendProperties, IdsLemma DEF TypeOK, Ids

LEMMA NewTwoLemma ==
  ASSUME TypeOK, NEW u \in Udata, NEW w \in Udata
  PROVE  /\ udata \o <<u, w>> \in Seq(Udata)
         /\ Len(udata \o <<u, w>>) = Len(udata) + 2
         /\ \A i \in Ids : (udata \o <<u, w>>)[i] = udata[i]
         /\ (udata \o <<u, w>>)[Len(udata) + 1] = u
         /\ (udata \o <<u, w>>)[Len(udata) + 2] = w
<1>1. <<u, w>> \in Seq(Udata) /\ Len(<<u, w>>) = 2
      /\ <<u, w>>[1] = u /\ <<u, w>>[2] = w
  OBVIOUS
<1>2. udata \in Seq(Udata) /\ Len(udata) \in Nat
  BY IdsLemma DEF TypeOK
<1>3. /\ udata \o <<u, w>> \in Seq(Udata)
      /\ Len(udata \o <<u, w>>) = Len(udata) + 2
      /\ \A i \in 1..Len(udata) + 2 : (udata \o <<u, w>>)[i] =
           IF i <= Len(udata) THEN udata[i] ELSE <<u, w>>[i - Len(udata)]
  BY <1>1, <1>2, ConcatProperties
<1>4. /\ \A i \in Ids : i \in 1..Len(udata) + 2 /\ i <= Len(udata)
      /\ Len(udata) + 1 \in 1..Len(udata) + 2
      /\ Len(udata) + 2 \in 1..Len(udata) + 2
      /\ Len(udata) + 1 - Len(udata) = 1 /\ Len(udata) + 2 - Len(udata) = 2
      /\ ~(Len(udata) + 1 <= Len(udata)) /\ ~(Len(udata) + 2 <= Len(udata))
  BY <1>2, IdsLemma DEF Ids
<1> QED BY <1>1, <1>3, <1>4

(* as3_release(), by the script or by the collector. *)
LEMMA ReleaseLemma ==
  ASSUME TypeOK, NEW i \in Ids, NEW done \in BOOLEAN, Release(i, done)
  PROVE  /\ udata' \in Seq(Udata) /\ Len(udata') = Len(udata)
         /\ \A j \in Ids : j # i => udata'[j] = udata[j]
         /\ udata'[i] = [udata[i] EXCEPT !.val = Undefined, !.done = done]
         /\ udata'[i].kind = udata[i].kind /\ udata'[i].val = Undefined
         /\ udata'[i].done = done
<1> DEFINE u == [udata[i] EXCEPT !.val = Undefined, !.done = done]
<1>1. /\ udata[i] \in Udata /\ Len(udata) \in Nat
      /\ Ids = 1..Len(udata) /\ Ids = DOMAIN udata
  BY IdsLemma DEF Ids
<1>2. /\ u \in Udata /\ u.kind = udata[i].kind
      /\ u.val = Undefined /\ u.done = done
  BY <1>1 DEF Udata
<1>3. udata' = [udata EXCEPT ![i] = u]
  BY <1>1 DEF Release
<1> HIDE DEF u
<1>4. /\ [udata EXCEPT ![i] = u] \in Seq(Udata)
      /\ Len([udata EXCEPT ![i] = u]) = Len(udata)
      /\ \A j \in Ids :
           [udata EXCEPT ![i] = u][j] = IF j = i THEN u ELSE udata[j]
  BY <1>1, <1>2, ExceptSeq DEF TypeOK
<1> QED BY <1>2, <1>3, <1>4 DEF u

(* A finalizer runs that leaves the contents alone. *)
LEMMA DoneLemma ==
  ASSUME TypeOK, NEW i \in Ids, udata' = [udata EXCEPT ![i].done = TRUE]
  PROVE  /\ udata' \in Seq(Udata) /\ Len(udata') = Len(udata)
         /\ \A j \in Ids : j # i => udata'[j] = udata[j]
         /\ udata'[i].kind = udata[i].kind /\ udata'[i].val = udata[i].val
         /\ udata'[i].done = TRUE
<1> DEFINE u == [udata[i] EXCEPT !.done = TRUE]
<1>1. /\ udata[i] \in Udata /\ Len(udata) \in Nat
      /\ Ids = 1..Len(udata) /\ Ids = DOMAIN udata
  BY IdsLemma DEF Ids
<1>2. /\ u \in Udata /\ u.kind = udata[i].kind
      /\ u.val = udata[i].val /\ u.done = TRUE
  BY <1>1 DEF Udata
<1>3. udata' = [udata EXCEPT ![i] = u]
  BY <1>1
<1> HIDE DEF u
<1>4. /\ [udata EXCEPT ![i] = u] \in Seq(Udata)
      /\ Len([udata EXCEPT ![i] = u]) = Len(udata)
      /\ \A j \in Ids :
           [udata EXCEPT ![i] = u][j] = IF j = i THEN u ELSE udata[j]
  BY <1>1, <1>2, ExceptSeq DEF TypeOK
<1> QED BY <1>2, <1>3, <1>4

----------------------------------------------------------------------------
(* Steps of the script and of the collector that register no handler.      *)

Quiet ==
  /\ udata' \in Seq(Udata) /\ Len(udata) <= Len(udata')
  /\ \A i \in Ids :
       /\ udata'[i].kind = udata[i].kind
       /\ \/ udata'[i].done = udata[i].done
          \/ /\ udata[i].kind = "as3" /\ i > height
             /\ \A h \in 1..Len(handlers) : handlers[h] # i
  /\ \A i \in Len(udata)+1 .. Len(udata') :
       udata'[i].kind # "onclose" /\ ~udata'[i].done
  /\ refs' \in [Val -> Int]
  /\ of' \in [Fn -> LuaFn \cup {None}]
  /\ live' \subseteq Fn /\ listeners' \subseteq Fn /\ removed' \subseteq LuaFn
  /\ handlers' = handlers
  /\ Goes

LEMMA QuietType ==
  ASSUME TypeOK, Quiet
  PROVE  TypeOK'
<1>1. Len(udata) \in Nat /\ Len(udata') \in Nat /\ Len(udata) <= Len(udata')
  BY IdsLemma, LenProperties DEF Quiet
<1>2. Ids \subseteq Ids' /\ handlers \in Seq(Ids)
  BY <1>1 DEF Ids, TypeOK
<1>3. handlers' \in Seq(Ids')
  BY <1>2, SeqMonotonic DEF Quiet
<1>4. /\ phase' \in {"open", "closing", "closed"} /\ height' \in 0..Len(udata')
      /\ handler' \in 0..Len(handlers') /\ ran' \in Seq(1..Len(handlers'))
      /\ more' \in BOOLEAN /\ cut' \in BOOLEAN
      /\ found'.what = "nothing" /\ found'.id = 0
      /\ found'.id \in 0..Len(udata')
  BY <1>1 DEF Quiet, Goes, closing, TypeOK, Nothing
<1> QED BY <1>3, <1>4 DEF Quiet, TypeOK

LEMMA QuietIds ==
  ASSUME TypeOK, Quiet
  PROVE  /\ Ids \subseteq Ids'
         /\ \A i \in Ids' : udata'[i].kind = "onclose" \/ udata'[i].done =>
              i \in Ids
         /\ \A i \in Ids : udata'[i].kind = "onclose" =>
              udata[i].kind = "onclose" /\ udata'[i].done = udata[i].done
         /\ \A i \in 1..height : i \in Ids /\ udata'[i].done = udata[i].done
         /\ \A h \in 1..Len(handlers) :
              udata'[handlers[h]].done = udata[handlers[h]].done
<1>1. Len(udata) \in Nat /\ Len(udata') \in Nat /\ Len(udata) <= Len(udata')
  BY IdsLemma, LenProperties DEF Quiet
<1>2. \A i \in Ids' : i \in Ids \/ i \in Len(udata)+1 .. Len(udata')
  BY <1>1 DEF Ids
<1>3. /\ Ids \subseteq Ids'
      /\ \A i \in 1..height : i \in Ids /\ ~(i > height)
  BY <1>1 DEF Ids, TypeOK
<1>4. \A h \in 1..Len(handlers) : handlers[h] \in Ids
  BY IdsLemma
<1> QED BY <1>2, <1>3, <1>4 DEF Quiet

LEMMA QuietStep ==
  ASSUME IInv, Quiet
  PROVE  Phases' /\ NewestFirst' /\ Counted'
<1>1. TypeOK /\ Shape /\ Phases /\ NewestFirst /\ Counted
  BY DEF IInv
<1>2. /\ phase' = phase /\ height' = height /\ handler' = handler
      /\ ran' = ran /\ cut' = cut /\ handlers' = handlers
  BY DEF Quiet, Goes, closing
<1>3. /\ Ids \subseteq Ids'
      /\ \A i \in Ids' : udata'[i].kind = "onclose" => i \in Ids
      /\ \A i \in Ids : udata'[i].kind = "onclose" =>
           udata[i].kind = "onclose" /\ udata'[i].done = udata[i].done
      /\ \A i \in 1..height : i \in Ids /\ udata'[i].done = udata[i].done
      /\ \A h \in 1..Len(handlers) :
           udata'[handlers[h]].done = udata[handlers[h]].done
  BY <1>1, QuietIds
<1>4. \A i \in Ids : udata[i].kind = "onclose" =>
        i \in Ids' /\ udata'[i].kind = "onclose" /\ udata'[i].done = udata[i].done
  BY <1>3 DEF Quiet
<1>5. Pending' = Pending
  BY <1>2, <1>3 DEF Pending
<1>6. HasRunner' <=> HasRunner
  BY <1>3, <1>4 DEF HasRunner
<1>7. Phases'
  BY <1>1, <1>2, <1>3, <1>5 DEF Phases
<1>8. NewestFirst'
  BY <1>1, <1>2, <1>3, <1>5, <1>6 DEF NewestFirst
<1>9. Counted'
  <2>1. RunnerDone' <=> RunnerDone
    BY <1>3, <1>4 DEF RunnerDone
  <2> QED BY <1>1, <1>2, <2>1 DEF Counted
<1> QED BY <1>7, <1>8, <1>9

LEMMA ValLemma ==
  /\ Undefined \notin Val
  /\ \A v \in Val : New("as3", v) \in Udata
  /\ \A f \in Fn : f \in Val /\ New("callback", f) \in Udata
  /\ New("onclose", None) \in Udata
  /\ \A kind, v : /\ New(kind, v).kind = kind /\ New(kind, v).val = v
                  /\ New(kind, v).done = FALSE
BY ConstantsAssumption DEF Udata, Val, New

LEMMA HoldersFinite ==
  ASSUME TypeOK, NEW v
  PROVE  IsFiniteSet(Holders(v)) /\ Cardinality(Holders(v)) \in Nat
<1>1. IsFiniteSet(Ids)
  BY IdsLemma, FS_Interval DEF Ids
<1> QED BY <1>1, FS_Subset, FS_CardinalityType DEF Holders

(* References and holders of a value go up and down together. *)
LEMMA SurplusLemma ==
  ASSUME TypeOK, NEW v \in Val, NEW n \in Int, refs'[v] = refs[v] + n
  PROVE  /\ Surplus(v) \in Int
         /\ Holders(v)' = Holders(v) => Surplus(v)' = Surplus(v) + n
         /\ \A i : i \notin Holders(v) /\ Holders(v)' = Holders(v) \cup {i} =>
              Surplus(v)' = Surplus(v) + n - 1
         /\ \A i \in Holders(v) : Holders(v)' = Holders(v) \ {i} =>
              Surplus(v)' = Surplus(v) + n + 1
<1>1. IsFiniteSet(Holders(v)) /\ Cardinality(Holders(v)) \in Nat
  BY HoldersFinite
<1>2. refs[v] \in Int
  BY DEF TypeOK
<1>3. \A i : i \notin Holders(v) /\ Holders(v)' = Holders(v) \cup {i} =>
        Cardinality(Holders(v)') = Cardinality(Holders(v)) + 1
  BY <1>1, FS_AddElement
<1>4. \A i \in Holders(v) : Holders(v)' = Holders(v) \ {i} =>
        Cardinality(Holders(v)') = Cardinality(Holders(v)) - 1
  BY <1>1, FS_RemoveElement
<1>5. Surplus(v)' = refs'[v] - Cardinality(Holders(v)')
  BY DEF Surplus
<1>6. Surplus(v) = refs[v] - Cardinality(Holders(v))
  BY DEF Surplus
<1> HIDE DEF Surplus, Holders
<1> QED BY <1>1, <1>2, <1>3, <1>4, <1>5, <1>6

Same(v) == Surplus(v)' = Surplus(v)

(* A userdata for a value that keeps all others as they were. *)
LEMMA NewAS3Lemma ==
  ASSUME IInv, NEW v \in Val, NEW n \in Int, Acquire(v, n),
         NewUdata("as3", v), Goes,
         of' = of, live' = live, listeners' = listeners, removed' = removed,
         handlers' = handlers
  PROVE  /\ Quiet /\ Shape'
         /\ Surplus(v)' = Surplus(v) + n - 1
         /\ \A w \in Val \ {v} : Same(w)
<1> DEFINE k == Len(udata) + 1
<1>1. TypeOK /\ Shape
  BY DEF IInv
<1>2. /\ udata' \in Seq(Udata) /\ Len(udata') = k
      /\ \A i \in Ids : udata'[i] = udata[i]
      /\ udata'[k] = New("as3", v) /\ New("as3", v) \in Udata
  BY <1>1, NewLemma, ValLemma DEF NewUdata, New
<1>3. /\ Len(udata) \in Nat /\ Ids = 1..Len(udata) /\ Ids' = Ids \cup {k}
      /\ k \notin Ids /\ k \in Ids'
      /\ k = Len(udata) + 1 /\ Len(udata) <= k
      /\ \A i \in Len(udata)+1 .. Len(udata') : i = k
      /\ \A h \in 1..Len(handlers) : handlers[h] \in Ids
  BY <1>1, <1>2, IdsLemma DEF Ids
<1>4. /\ New("as3", v).kind = "as3" /\ New("as3", v).val = v
      /\ New("as3", v).done = FALSE
  BY ValLemma
<1>5. refs' = [refs EXCEPT ![v] = @ + n] /\ refs' \in [Val -> Int]
      /\ refs'[v] = refs[v] + n
      /\ \A w \in Val \ {v} : refs[w] \in Int /\ refs'[w] = refs[w] + 0
  BY <1>1 DEF Acquire, TypeOK
<1> HIDE DEF k
<1>6. Quiet
  BY <1>1, <1>2, <1>3, <1>4, <1>5 DEF Quiet, TypeOK, Goes, closing
<1>7. Shape'
  <2>1. /\ \A i \in Ids' : udata'[i].kind = "callback" => i \in Ids
        /\ \A i \in Ids' : udata'[i].kind = "onclose" => i \in Ids
    BY <1>2, <1>3, <1>4
  <2>2. /\ \A i, j \in Ids' :
             udata'[i].kind = "callback" /\ udata'[j].kind = "callback"
               /\ udata'[i].val = udata'[j].val => i = j
        /\ \A i, j \in Ids' :
             udata'[i].kind = "onclose" /\ udata'[j].kind = "onclose" => i = j
    BY <1>1, <1>2, <2>1 DEF Shape
  <2>3. \A i \in Ids' : udata'[i].kind = "callback" =>
          /\ udata'[i].val \in Fn /\ of'[udata'[i].val] # None
          /\ udata'[i].done => udata'[i].val \notin live'
    BY <1>1, <1>2, <2>1 DEF Shape, Made
  <2>4. \A h \in listeners' \cup live' :
          \E i \in Ids' : udata'[i].kind = "callback" /\ udata'[i].val = h
    BY <1>1, <1>2, <1>3 DEF Shape
  <2>5. /\ \A i \in Ids' : udata'[i].kind = "as3" =>
             udata'[i].val \in Val \cup {Undefined}
        /\ \A h \in 1..Len(handlers') : udata'[handlers'[h]].kind = "as3"
        /\ (HasRunner' <=> handlers' # <<>>)
    BY <1>1, <1>2, <1>3, <1>4, <2>1 DEF Shape, HasRunner
  <2> QED BY <2>2, <2>3, <2>4, <2>5 DEF Shape, Made
<1>8. /\ Holders(v)' = Holders(v) \cup {k} /\ k \notin Holders(v)
      /\ \A w \in Val \ {v} : Holders(w)' = Holders(w)
  BY <1>2, <1>3, <1>4 DEF Holders, InLua
<1>9. Surplus(v)' = Surplus(v) + n - 1
  BY <1>1, <1>5, <1>8, SurplusLemma
<1>10. ASSUME NEW w \in Val \ {v}
       PROVE  Same(w)
  <2>1. Surplus(w) \in Int /\ Surplus(w)' = Surplus(w) + 0
    BY <1>1, <1>5, <1>8, SurplusLemma
  <2> QED BY <2>1 DEF Same
<1> QED BY <1>6, <1>7, <1>9, <1>10

LEMMA SetupLemma ==
  ASSUME IInv, NEW g \in LuaFn, NEW f \in Fn, NEW kept \in Nat,
         SetupCallback(g, f, kept)
  PROVE  /\ f \in Val /\ f \notin live /\ f \notin listeners
         /\ \A i \in Ids : udata[i].kind = "callback" => udata[i].val # f
         /\ of' \in [Fn -> LuaFn \cup {None}]
         /\ \A h \in Fn : of'[h] # None <=> of[h] # None \/ h = f
         /\ live' = live \cup {f} /\ live' \subseteq Fn
         /\ refs' \in [Val -> Int]
         /\ refs'[f] = refs[f] + kept
         /\ \A w \in Val \ {f} : refs'[w] = refs[w] + 0
<1>1. TypeOK /\ Shape
  BY DEF IInv
<1>2. f \in Val /\ ~Made(f) /\ g # None
  BY ConstantsAssumption DEF SetupCallback, Fresh, Val
<1>3. \A i \in Ids : udata[i].kind = "callback" => udata[i].val # f
  BY <1>1, <1>2 DEF Shape
<1>4. f \notin live /\ f \notin listeners
  BY <1>1, <1>3 DEF Shape
<1>5. of' \in [Fn -> LuaFn \cup {None}]
      /\ \A h \in Fn : of'[h] # None <=> of[h] # None \/ h = f
  BY <1>1, <1>2 DEF SetupCallback, TypeOK, Made
<1>6. /\ live' = live \cup {f} /\ live' \subseteq Fn
      /\ refs' \in [Val -> Int] /\ refs'[f] = refs[f] + kept
      /\ \A w \in Val \ {f} : refs'[w] = refs[w] + 0
  BY <1>1, <1>2 DEF SetupCallback, TypeOK, Acquire
<1> QED BY <1>2, <1>3, <1>4, <1>5, <1>6

(* addEventListener, removeEventListener and as3.set() of a function. *)
LEMMA ListenerLemma ==
  ASSUME IInv, NEW g \in LuaFn, NEW f \in Fn, NEW kept \in Nat,
         SetupCallback(g, f, kept), NewUdata("callback", f), Goes,
         handlers' = handlers, removed' \subseteq LuaFn,
         listeners' \subseteq listeners \cup {f}
  PROVE  /\ Quiet /\ Shape'
         /\ Surplus(f) \in Int /\ Surplus(f)' = Surplus(f) + kept
         /\ \A w \in Val \ {f} : Same(w)
<1> DEFINE k == Len(udata) + 1
<1>1. TypeOK /\ Shape
  BY DEF IInv
<1>2. /\ udata' \in Seq(Udata) /\ Len(udata') = k
      /\ \A i \in Ids : udata'[i] = udata[i]
      /\ udata'[k] = New("callback", f)
  BY <1>1, NewLemma, ValLemma DEF NewUdata, New
<1>3. /\ Len(udata) \in Nat /\ Ids = 1..Len(udata) /\ Ids' = Ids \cup {k}
      /\ k \notin Ids /\ k \in Ids'
      /\ k = Len(udata) + 1 /\ Len(udata) <= k
      /\ \A i \in Len(udata)+1 .. Len(udata') : i = k
      /\ \A h \in 1..Len(handlers) : handlers[h] \in Ids
  BY <1>1, <1>2, IdsLemma DEF Ids
<1>4. /\ New("callback", f).kind = "callback" /\ New("callback", f).val = f
      /\ New("callback", f).done = FALSE
  BY ValLemma
<1>5. /\ f \in Val /\ f \notin live
      /\ \A i \in Ids : udata[i].kind = "callback" => udata[i].val # f
      /\ of' \in [Fn -> LuaFn \cup {None}]
      /\ \A h \in Fn : of'[h] # None <=> of[h] # None \/ h = f
      /\ live' = live \cup {f} /\ live' \subseteq Fn
      /\ refs' \in [Val -> Int]
      /\ refs'[f] = refs[f] + kept
      /\ \A w \in Val \ {f} : refs'[w] = refs[w] + 0
  BY SetupLemma
<1>6. listeners' \subseteq Fn
  BY <1>1 DEF TypeOK
<1> HIDE DEF k
<1>7. Quiet
  BY <1>1, <1>2, <1>3, <1>4, <1>5, <1>6 DEF Quiet, TypeOK, Goes, closing
<1>8. Shape'
  <2>1. \A i, j \in Ids' :
          udata'[i].kind = "callback" /\ udata'[j].kind = "callback"
            /\ udata'[i].val = udata'[j].val => i = j
    BY <1>1, <1>2, <1>3, <1>4, <1>5 DEF Shape
  <2>2. \A i \in Ids' : udata'[i].kind = "callback" =>
          /\ udata'[i].val \in Fn /\ of'[udata'[i].val] # None
          /\ udata'[i].done => udata'[i].val \notin live'
    <3>1. ASSUME NEW i \in Ids, udata[i].kind = "callback"
          PROVE  /\ udata[i].val \in Fn /\ of'[udata[i].val] # None
                 /\ udata[i].done => udata[i].val \notin live'
      BY <1>1, <1>5, <3>1 DEF Shape, Made
    <3>2. of'[f] # None
      BY <1>5
    <3> QED BY <1>2, <1>3, <1>4, <3>1, <3>2
  <2>3. \A h \in listeners' \cup live' :
          \E i \in Ids' : udata'[i].kind = "callback" /\ udata'[i].val = h
    BY <1>1, <1>2, <1>3, <1>4, <1>5 DEF Shape
  <2>4. /\ \A i \in Ids' : udata'[i].kind = "as3" =>
             udata'[i].val \in Val \cup {Undefined}
        /\ \A i, j \in Ids' :
             udata'[i].kind = "onclose" /\ udata'[j].kind = "onclose" => i = j
        /\ \A h \in 1..Len(handlers') : udata'[handlers'[h]].kind = "as3"
        /\ (HasRunner' <=> handlers' # <<>>)
    <3>1. /\ \A i \in Ids : udata'[i].kind = udata[i].kind
          /\ \A i \in Ids : udata'[i].val = udata[i].val
          /\ udata'[k].kind = "callback"
      BY <1>2, <1>4
    <3>2. \A i \in Ids' : udata'[i].kind = "as3" =>
             udata'[i].val \in Val \cup {Undefined}
      BY <1>1, <1>3, <3>1 DEF Shape
    <3>3. \A i, j \in Ids' :
             udata'[i].kind = "onclose" /\ udata'[j].kind = "onclose" => i = j
      <4>1. \A i, j \in Ids :
              udata[i].kind = "onclose" /\ udata[j].kind = "onclose" => i = j
        BY <1>1 DEF Shape
      <4>2. \A i \in Ids' : udata'[i].kind = "onclose" =>
               i \in Ids /\ udata[i].kind = "onclose"
        BY <1>3, <3>1
      <4> QED BY <4>1, <4>2
    <3>4. \A h \in 1..Len(handlers') : udata'[handlers'[h]].kind = "as3"
      BY <1>1, <1>3, <3>1 DEF Shape
    <3>5. HasRunner' <=> HasRunner
      BY <1>3, <3>1 DEF HasRunner
    <3> QED BY <1>1, <3>2, <3>3, <3>4, <3>5 DEF Shape
  <2> QED BY <2>1, <2>2, <2>3, <2>4 DEF Shape, Made
<1>9. \A w \in Val : Holders(w)' = Holders(w)
  BY <1>2, <1>3, <1>4 DEF Holders, InLua
<1>10. Surplus(f) \in Int /\ Surplus(f)' = Surplus(f) + kept
  BY <1>1, <1>5, <1>9, SurplusLemma
<1>11. ASSUME NEW w \in Val \ {f}
       PROVE  Same(w)
  <2>1. Surplus(w) \in Int /\ Surplus(w)' = Surplus(w) + 0
    BY <1>1, <1>5, <1>9, SurplusLemma
  <2> QED BY <2>1 DEF Same
<1> QED BY <1>7, <1>8, <1>10, <1>11

(* as3.toas3() of a Lua function. *)
LEMMA ToAS3Lemma ==
  ASSUME IInv, NEW g \in LuaFn, NEW f \in Fn, as3_toas3(g, f)
  PROVE  /\ Quiet /\ Shape'
         /\ Surplus(f)' = Surplus(f) + 1
         /\ \A w \in Val \ {f} : Same(w)
<1> DEFINE k == Len(udata) + 1
           l == Len(udata) + 2
<1>1. TypeOK /\ Shape
  BY DEF IInv
<1>2. /\ udata' \in Seq(Udata) /\ Len(udata') = l
      /\ \A i \in Ids : udata'[i] = udata[i]
      /\ udata'[k] = New("callback", f) /\ udata'[l] = New("as3", f)
  <2>1. New("callback", f) \in Udata /\ New("as3", f) \in Udata
    BY ValLemma
  <2>2. udata' = udata \o <<New("callback", f), New("as3", f)>>
    BY DEF as3_toas3, New
  <2> QED BY <1>1, <2>1, <2>2, NewTwoLemma
<1>3. /\ Len(udata) \in Nat /\ Ids = 1..Len(udata) /\ Ids' = Ids \cup {k, l}
      /\ k \notin Ids /\ l \notin Ids /\ k # l
      /\ Len(udata) <= Len(udata')
      /\ \A i \in Len(udata)+1 .. Len(udata') : i = k \/ i = l
      /\ \A h \in 1..Len(handlers) : handlers[h] \in Ids
  BY <1>1, <1>2, IdsLemma DEF Ids
<1>4. /\ New("callback", f).kind = "callback" /\ New("callback", f).val = f
      /\ New("callback", f).done = FALSE
      /\ New("as3", f).kind = "as3" /\ New("as3", f).val = f
      /\ New("as3", f).done = FALSE
  BY ValLemma
<1>5. /\ f \in Val /\ f \notin live
      /\ \A i \in Ids : udata[i].kind = "callback" => udata[i].val # f
      /\ of' \in [Fn -> LuaFn \cup {None}]
      /\ \A h \in Fn : of'[h] # None <=> of[h] # None \/ h = f
      /\ live' = live \cup {f} /\ live' \subseteq Fn
      /\ refs' \in [Val -> Int]
      /\ refs'[f] = refs[f] + 2
      /\ \A w \in Val \ {f} : refs'[w] = refs[w] + 0
  BY SetupLemma DEF as3_toas3
<1>6. /\ listeners' = listeners /\ removed' = removed /\ handlers' = handlers
      /\ Goes
  BY DEF as3_toas3
<1> HIDE DEF k, l
<1>7. Quiet
  BY <1>1, <1>2, <1>3, <1>4, <1>5, <1>6 DEF Quiet, TypeOK
<1>8. Shape'
  <2>1. \A i, j \in Ids' :
          udata'[i].kind = "callback" /\ udata'[j].kind = "callback"
            /\ udata'[i].val = udata'[j].val => i = j
    BY <1>1, <1>2, <1>3, <1>4, <1>5 DEF Shape
  <2>2. \A i \in Ids' : udata'[i].kind = "callback" =>
          /\ udata'[i].val \in Fn /\ of'[udata'[i].val] # None
          /\ udata'[i].done => udata'[i].val \notin live'
    <3>1. ASSUME NEW i \in Ids, udata[i].kind = "callback"
          PROVE  /\ udata[i].val \in Fn /\ of'[udata[i].val] # None
                 /\ udata[i].done => udata[i].val \notin live'
      BY <1>1, <1>5, <3>1 DEF Shape, Made
    <3>2. of'[f] # None
      BY <1>5
    <3> QED BY <1>2, <1>3, <1>4, <3>1, <3>2
  <2>3. \A h \in listeners' \cup live' :
          \E i \in Ids' : udata'[i].kind = "callback" /\ udata'[i].val = h
    <3>1. \A h \in listeners \cup live :
            \E i \in Ids : udata[i].kind = "callback" /\ udata[i].val = h
      BY <1>1 DEF Shape
    <3>2. k \in Ids' /\ udata'[k].kind = "callback" /\ udata'[k].val = f
      BY <1>2, <1>3, <1>4
    <3> QED BY <1>2, <1>3, <1>5, <1>6, <3>1, <3>2
  <2>4. /\ \A i \in Ids' : udata'[i].kind = "onclose" => i \in Ids
        /\ \A i \in Ids : i \in Ids'
    BY <1>2, <1>3, <1>4
  <2>5. /\ \A i \in Ids' : udata'[i].kind = "as3" =>
             udata'[i].val \in Val \cup {Undefined}
        /\ \A i, j \in Ids' :
             udata'[i].kind = "onclose" /\ udata'[j].kind = "onclose" => i = j
        /\ \A h \in 1..Len(handlers') : udata'[handlers'[h]].kind = "as3"
        /\ (HasRunner' <=> handlers' # <<>>)
    <3>1. \A i \in Ids' : udata'[i].kind = "as3" =>
            udata'[i].val \in Val \cup {Undefined}
      BY <1>1, <1>2, <1>3, <1>4, <1>5 DEF Shape
    <3>2. \A i, j \in Ids' :
            udata'[i].kind = "onclose" /\ udata'[j].kind = "onclose" => i = j
      BY <1>1, <1>2, <2>4 DEF Shape
    <3>3. \A h \in 1..Len(handlers') : udata'[handlers'[h]].kind = "as3"
      BY <1>1, <1>2, <1>3, <1>6 DEF Shape
    <3>4. HasRunner' <=> HasRunner
      BY <1>2, <2>4 DEF HasRunner
    <3> QED BY <1>1, <1>6, <3>1, <3>2, <3>3, <3>4 DEF Shape
  <2> QED BY <2>1, <2>2, <2>3, <2>5 DEF Shape, Made
<1>9. /\ Holders(f)' = Holders(f) \cup {l} /\ l \notin Holders(f)
      /\ \A w \in Val \ {f} : Holders(w)' = Holders(w)
  BY <1>2, <1>3, <1>4 DEF Holders, InLua
<1>10. Surplus(f)' = Surplus(f) + 1
  <2>1. Surplus(f) \in Int /\ Surplus(f)' = Surplus(f) + 2 - 1
    BY <1>1, <1>5, <1>9, SurplusLemma
  <2> QED BY <2>1
<1>11. ASSUME NEW w \in Val \ {f}
       PROVE  Same(w)
  <2>1. Surplus(w) \in Int /\ Surplus(w)' = Surplus(w) + 0
    BY <1>1, <1>5, <1>9, SurplusLemma
  <2> QED BY <2>1 DEF Same
<1> QED BY <1>7, <1>8, <1>10, <1>11

(* Userdata i loses its value, and the value the reference. *)
LEMMA ReleaseEffect ==
  ASSUME IInv, NEW i \in Ids, InLua(i), NEW done \in BOOLEAN,
         Release(i, done), of' = of, live' = live, listeners' = listeners,
         handlers' = handlers
  PROVE  /\ udata' \in Seq(Udata) /\ Len(udata') = Len(udata) /\ Ids' = Ids
         /\ \A j \in Ids : /\ j # i => udata'[j] = udata[j]
                           /\ udata'[j].kind = udata[j].kind
         /\ udata[i].kind = "as3" /\ udata'[i].done = done
         /\ refs' \in [Val -> Int] /\ Shape'
         /\ \A w \in Val : Same(w)
<1>1. TypeOK /\ Shape
  BY DEF IInv
<1>2. /\ udata' \in Seq(Udata) /\ Len(udata') = Len(udata) /\ Ids' = Ids
      /\ \A j \in Ids : j # i => udata'[j] = udata[j]
      /\ udata'[i].kind = udata[i].kind /\ udata'[i].val = Undefined
      /\ udata'[i].done = done
  BY <1>1, ReleaseLemma DEF Ids
<1>3. udata[i].kind = "as3" /\ ~udata[i].done
      /\ udata[i].val \in Val \cup {Undefined}
  BY <1>1 DEF InLua, Shape
<1>4. refs' \in [Val -> Int]
      /\ \A w \in Val : /\ w # udata[i].val => refs'[w] = refs[w] + 0
                        /\ w = udata[i].val => refs'[w] = refs[w] + (-1)
  BY <1>1, <1>3, ValLemma DEF TypeOK, Release, Acquire
<1>5. Shape'
  <2>1. \A j \in Ids : udata[j].kind # "as3" => udata'[j] = udata[j] /\ j # i
    BY <1>2, <1>3
  <2>2. \A j \in Ids : udata'[j].kind = udata[j].kind
    BY <1>2
  <2>3. /\ \A j, n \in Ids' :
             udata'[j].kind = "callback" /\ udata'[n].kind = "callback"
               /\ udata'[j].val = udata'[n].val => j = n
        /\ \A j, n \in Ids' :
             udata'[j].kind = "onclose" /\ udata'[n].kind = "onclose" => j = n
    BY <1>1, <1>2, <2>1, <2>2 DEF Shape
  <2>4. \A j \in Ids' : udata'[j].kind = "callback" =>
          /\ udata'[j].val \in Fn /\ of'[udata'[j].val] # None
          /\ udata'[j].done => udata'[j].val \notin live'
    BY <1>1, <1>2, <2>1, <2>2 DEF Shape, Made
  <2>5. \A h \in listeners' \cup live' :
          \E j \in Ids' : udata'[j].kind = "callback" /\ udata'[j].val = h
    <3>1. \A h \in listeners' \cup live' :
            \E j \in Ids : udata[j].kind = "callback" /\ udata[j].val = h
      BY <1>1 DEF Shape
    <3> QED BY <1>2, <2>1, <3>1
  <2>6. /\ \A j \in Ids' : udata'[j].kind = "as3" =>
             udata'[j].val \in Val \cup {Undefined}
        /\ \A h \in 1..Len(handlers') : udata'[handlers'[h]].kind = "as3"
        /\ (HasRunner' <=> handlers' # <<>>)
    BY <1>1, <1>2, <2>2, IdsLemma DEF Shape, HasRunner
  <2> QED BY <2>3, <2>4, <2>5, <2>6 DEF Shape, Made
<1>6. /\ \A w \in Val : w # udata[i].val => Holders(w)' = Holders(w)
      /\ \A w \in Val : w = udata[i].val =>
           Holders(w)' = Holders(w) \ {i} /\ i \in Holders(w)
  BY <1>2, <1>3, ValLemma DEF Holders, InLua
<1>7. ASSUME NEW w \in Val
      PROVE  Same(w)
  <2>1. CASE w # udata[i].val
    <3>1. Surplus(w) \in Int /\ Surplus(w)' = Surplus(w) + 0
      BY <1>1, <1>4, <1>6, <2>1, SurplusLemma
    <3> QED BY <3>1 DEF Same
  <2>2. CASE w = udata[i].val
    <3>1. Surplus(w) \in Int /\ Surplus(w)' = Surplus(w) + (-1) + 1
      BY <1>1, <1>4, <1>6, <2>2, SurplusLemma
    <3> QED BY <3>1 DEF Same
  <2> QED BY <2>1, <2>2
<1> QED BY <1>2, <1>3, <1>4, <1>5, <1>7

(* What a step may do to the surplus of a value: only the functions that   *)
(* leak add to it, and only release_callback() takes from it.              *)
Leak(v) == \/ as3_new(v) \/ as3_toas3_value(v)
           \/ v = Stage /\ as3_stage
           \/ \E i \in Ids : udata[i].val = v /\ as3_set(i)
           \/ \E g \in LuaFn : as3_set_function(g, v) \/ as3_toas3(g, v)
           \/ JumpedOver(v)
SurplusStep ==
  \A v \in Val : \/ Same(v)
                 \/ Leak(v) /\ Surplus(v)' = Surplus(v) + 1
                 \/ v \in Fn /\ phase = "closing" /\ Surplus(v)' = Surplus(v) - 1

(* as3.new(), as3.new2() and as3.toas3() of a value, and as3.stage(). *)
LEMMA NewStep ==
  ASSUME IInv, NEW o \in Obj,
         as3_new(o) \/ as3_toas3_value(o) \/ (o = Stage /\ as3_stage)
  PROVE  IInv' /\ SurplusStep
<1>1. o \in Val /\ Acquire(o, 2) /\ NewUdata("as3", o) /\ Goes
      /\ of' = of /\ live' = live /\ listeners' = listeners
      /\ removed' = removed /\ handlers' = handlers
  BY DEF as3_new, as3_toas3_value, as3_stage, Val
<1>2. /\ Quiet /\ Shape' /\ Surplus(o)' = Surplus(o) + 2 - 1
      /\ \A w \in Val \ {o} : Same(w)
  BY <1>1, NewAS3Lemma
<1>3. Surplus(o) \in Int
  BY <1>1, SurplusLemma DEF IInv, Acquire, TypeOK
<1>4. SurplusStep
  BY <1>2, <1>3 DEF SurplusStep, Leak
<1> QED BY <1>2, <1>4, QuietStep, QuietType DEF IInv

LEMMA FetchStep ==
  ASSUME IInv, NEW v \in Val, Fetch(v)
  PROVE  IInv' /\ SurplusStep
<1>1. Acquire(v, 1) /\ NewUdata("as3", v) /\ Goes
      /\ of' = of /\ live' = live /\ listeners' = listeners
      /\ removed' = removed /\ handlers' = handlers
  BY DEF Fetch
<1>2. /\ Quiet /\ Shape' /\ Surplus(v)' = Surplus(v) + 1 - 1
      /\ \A w \in Val \ {v} : Same(w)
  BY <1>1, NewAS3Lemma
<1>3. Surplus(v) \in Int
  BY <1>1, SurplusLemma DEF IInv, Acquire, TypeOK
<1>4. SurplusStep
  BY <1>2, <1>3 DEF SurplusStep, Same
<1> QED BY <1>2, <1>4, QuietStep, QuietType DEF IInv

(* A reference more that no userdata carries. *)
LEMMA KeptLemma ==
  ASSUME IInv, NEW v \in Val, Acquire(v, 1), udata' = udata, of' = of,
         live' = live, listeners' = listeners, removed' = removed,
         handlers' = handlers, Goes, Leak(v)
  PROVE  IInv' /\ SurplusStep
<1>1. TypeOK /\ Shape
  BY DEF IInv
<1>2. /\ refs' \in [Val -> Int] /\ refs'[v] = refs[v] + 1
      /\ \A w \in Val \ {v} : refs'[w] = refs[w] + 0
  BY <1>1 DEF Acquire, TypeOK
<1>3. Quiet
  BY <1>1, <1>2, IdsLemma DEF Quiet, TypeOK, Ids
<1>4. Shape'
  BY <1>1 DEF Shape, Ids, Made, HasRunner
<1>5. \A w \in Val : Holders(w)' = Holders(w)
  BY DEF Holders, InLua, Ids
<1>6. Surplus(v)' = Surplus(v) + 1
  BY <1>1, <1>2, <1>5, SurplusLemma
<1>7. ASSUME NEW w \in Val, w # v
      PROVE  Same(w)
  <2>1. Surplus(w) \in Int /\ Surplus(w)' = Surplus(w) + 0
    BY <1>1, <1>2, <1>5, <1>7, SurplusLemma
  <2> QED BY <2>1 DEF Same
<1>8. SurplusStep
  BY <1>6, <1>7 DEF SurplusStep
<1> QED BY <1>3, <1>4, <1>8, QuietStep, QuietType DEF IInv

LEMMA SetStep ==
  ASSUME IInv, NEW i \in Ids, as3_set(i)
  PROVE  IInv' /\ SurplusStep
<1>1. /\ udata[i].val \in Val /\ Acquire(udata[i].val, 1)
      /\ udata' = udata /\ of' = of /\ live' = live
      /\ listeners' = listeners /\ removed' = removed
      /\ handlers' = handlers /\ Goes
  BY DEF as3_set, InLua, IInv, Shape
<1>2. Leak(udata[i].val)
  BY DEF Leak
<1> QED BY <1>1, <1>2, KeptLemma

LEMMA JumpedOverStep ==
  ASSUME IInv, NEW o \in Obj, JumpedOver(o)
  PROVE  IInv' /\ SurplusStep
<1>1. /\ o \in Val /\ Acquire(o, 1)
      /\ udata' = udata /\ of' = of /\ live' = live
      /\ listeners' = listeners /\ removed' = removed
      /\ handlers' = handlers /\ Goes
  BY DEF JumpedOver, Val
<1>2. Leak(o)
  BY DEF Leak
<1> QED BY <1>1, <1>2, KeptLemma

LEMMA CallbackStep ==
  ASSUME IInv, NEW g \in LuaFn, NEW f \in Fn,
         \/ AddListener(g, f) \/ RemoveListener(g, f)
         \/ as3_set_function(g, f) \/ as3_toas3(g, f)
  PROVE  IInv' /\ SurplusStep
<1>1. CASE \/ AddListener(g, f) \/ RemoveListener(g, f)
           \/ as3_set_function(g, f)
  <2>1. PICK kept \in {0, 1} :
          /\ SetupCallback(g, f, kept) /\ NewUdata("callback", f) /\ Goes
          /\ handlers' = handlers /\ removed' \subseteq removed \cup {g}
          /\ listeners' \subseteq listeners \cup {f}
          /\ kept = 1 => as3_set_function(g, f)
    BY <1>1 DEF AddListener, RemoveListener, as3_set_function, Listen
  <2>2. removed' \subseteq LuaFn
    BY <2>1 DEF IInv, TypeOK
  <2>3. /\ Quiet /\ Shape'
        /\ Surplus(f) \in Int /\ Surplus(f)' = Surplus(f) + kept
        /\ \A w \in Val \ {f} : Same(w)
    BY <2>1, <2>2, ListenerLemma
  <2>4. SurplusStep
    BY <2>1, <2>3 DEF SurplusStep, Leak, Same
  <2> QED BY <2>3, <2>4, QuietStep, QuietType DEF IInv
<1>2. CASE as3_toas3(g, f)
  <2>1. /\ Quiet /\ Shape' /\ Surplus(f)' = Surplus(f) + 1
        /\ \A w \in Val \ {f} : Same(w)
    BY <1>2, ToAS3Lemma
  <2>2. SurplusStep
    BY <1>2, <2>1 DEF SurplusStep, Leak
  <2> QED BY <2>1, <2>2, QuietStep, QuietType DEF IInv
<1> QED BY <1>1, <1>2

LEMMA ReleaseStep ==
  ASSUME IInv, NEW i \in Ids, as3_release(i) \/ Collect(i)
  PROVE  IInv' /\ SurplusStep
<1>1. PICK done \in BOOLEAN :
        /\ Release(i, done) /\ InLua(i)
        /\ done => i > height /\ \A h \in 1..Len(handlers) : handlers[h] # i
        /\ of' = of /\ live' = live /\ listeners' = listeners
        /\ removed' = removed /\ handlers' = handlers /\ Goes
  BY DEF as3_release, Collect
<1>2. /\ udata' \in Seq(Udata) /\ Len(udata') = Len(udata) /\ Ids' = Ids
      /\ \A j \in Ids : /\ j # i => udata'[j] = udata[j]
                        /\ udata'[j].kind = udata[j].kind
      /\ udata[i].kind = "as3" /\ udata'[i].done = done
      /\ refs' \in [Val -> Int] /\ Shape'
      /\ \A w \in Val : Same(w)
  BY <1>1, ReleaseEffect
<1>3. ~udata[i].done /\ TypeOK
  BY <1>1 DEF InLua, IInv
<1>4. \A j \in Ids : \/ udata'[j].done = udata[j].done
                     \/ udata[j].kind = "as3" /\ j > height
                        /\ \A h \in 1..Len(handlers) : handlers[h] # j
  <2>1. udata[i].done \in BOOLEAN
    BY <1>3, IdsLemma DEF Udata
  <2> QED BY <1>1, <1>2, <1>3, <2>1
<1>5. Len(udata) \in Nat /\ Len(udata) <= Len(udata')
      /\ Len(udata)+1 .. Len(udata') = {}
  BY <1>2, <1>3, IdsLemma
<1>6. Quiet
  BY <1>1, <1>2, <1>3, <1>4, <1>5 DEF Quiet, TypeOK
<1>7. SurplusStep
  BY <1>2 DEF SurplusStep
<1> QED BY <1>2, <1>6, <1>7, QuietStep, QuietType DEF IInv

----------------------------------------------------------------------------
(* Handlers.                                                               *)

LEMMA RegisterLemma ==
  ASSUME IInv, NEW i \in Ids, onclose(i)
  PROVE  /\ udata[i].kind = "as3" /\ ~udata[i].done
         /\ handlers' = Append(handlers, i)
         /\ Len(handlers') = Len(handlers) + 1 /\ handlers' # <<>>
         /\ \A h \in 1..Len(handlers') : \/ handlers'[h] = i
                                         \/ /\ h \in 1..Len(handlers)
                                            /\ handlers'[h] = handlers[h]
         /\ handlers' \in Seq(Ids)
         /\ refs' = refs /\ of' = of /\ live' = live
         /\ listeners' = listeners /\ removed' = removed /\ Goes
<1>1. handlers \in Seq(Ids) /\ Len(handlers) \in Nat
  BY IdsLemma DEF IInv, TypeOK
<1>2. handlers' = Append(handlers, i)
  BY DEF onclose
<1>3. /\ Len(handlers') = Len(handlers) + 1 /\ handlers' \in Seq(Ids)
      /\ \A h \in 1..Len(handlers) : handlers'[h] = handlers[h]
      /\ handlers'[Len(handlers) + 1] = i
  BY <1>1, <1>2, AppendProperties
<1>4. \A h \in 1..Len(handlers') : h = Len(handlers) + 1 \/ h \in 1..Len(handlers)
  BY <1>1, <1>3
<1>5. handlers' # <<>>
  BY <1>1, <1>3
<1>6. udata[i].kind = "as3" /\ ~udata[i].done
  BY DEF onclose, InLua
<1> QED BY <1>2, <1>3, <1>4, <1>5, <1>6 DEF onclose

LEMMA RegisterType ==
  ASSUME TypeOK, udata' \in Seq(Udata), Len(udata) <= Len(udata'),
         handlers' \in Seq(Ids), Len(handlers') = Len(handlers) + 1,
         refs' = refs, of' = of, live' = live, listeners' = listeners,
         removed' = removed, Goes
  PROVE  TypeOK'
<1>1. /\ Len(udata) \in Nat /\ Len(udata') \in Nat /\ Len(handlers) \in Nat
      /\ Ids \subseteq Ids'
  BY IdsLemma, LenProperties DEF Ids
<1>2. handlers' \in Seq(Ids')
  BY <1>1, SeqMonotonic
<1>3. 1..Len(handlers) \subseteq 1..Len(handlers')
  BY <1>1
<1>4. ran' \in Seq(1..Len(handlers'))
  BY <1>3, SeqMonotonic DEF Goes, closing, TypeOK
<1>5. /\ phase' \in {"open", "closing", "closed"} /\ height' \in 0..Len(udata')
      /\ handler' \in 0..Len(handlers')
      /\ more' \in BOOLEAN /\ cut' \in BOOLEAN
      /\ found'.what = "nothing" /\ found'.id = 0
      /\ found'.id \in 0..Len(udata')
  BY <1>1 DEF Goes, closing, TypeOK, Nothing
<1> QED BY <1>2, <1>4, <1>5 DEF TypeOK

(* as3.onclose() when its userdata is there. *)
LEMMA RegisterMore ==
  ASSUME IInv, NEW i \in Ids, onclose(i), HasRunner
  PROVE  IInv' /\ SurplusStep
<1>1. TypeOK /\ Shape /\ Phases /\ NewestFirst /\ Counted
  BY DEF IInv
<1>2. /\ udata[i].kind = "as3" /\ ~udata[i].done
      /\ Len(handlers') = Len(handlers) + 1 /\ handlers' # <<>>
      /\ \A h \in 1..Len(handlers') : \/ handlers'[h] = i
                                      \/ /\ h \in 1..Len(handlers)
                                         /\ handlers'[h] = handlers[h]
      /\ handlers' \in Seq(Ids)
      /\ refs' = refs /\ of' = of /\ live' = live
      /\ listeners' = listeners /\ removed' = removed /\ Goes
  BY RegisterLemma
<1>3. udata' = udata /\ Ids' = Ids /\ Len(udata) <= Len(udata')
      /\ (phase = "open" \/ handler > 0)
      /\ phase' = phase /\ height' = height /\ handler' = handler /\ ran' = ran
  BY <1>1, <1>2, IdsLemma DEF onclose, ScriptRuns, Ids, Goes, closing
<1>4. TypeOK'
  BY <1>1, <1>2, <1>3, RegisterType DEF TypeOK
<1>5. Shape'
  BY <1>1, <1>2, <1>3 DEF Shape, Made, HasRunner
<1>6. Pending' = Pending /\ (HasRunner' <=> HasRunner)
  BY <1>3 DEF Pending, HasRunner
<1>7. Phases'
  BY <1>1, <1>2, <1>3, <1>6 DEF Phases
<1>8. NewestFirst'
  BY <1>1, <1>2, <1>3, <1>6 DEF NewestFirst
<1>9. Counted'
  <2>1. RunnerDone' <=> RunnerDone
    BY <1>3 DEF RunnerDone
  <2>2. handler = 0 => ~RunnerDone
    BY <1>1, <1>3 DEF Phases, RunnerDone
  <2> QED BY <1>1, <1>3, <2>1, <2>2 DEF Counted
<1>10. SurplusStep
  BY <1>2, <1>3 DEF SurplusStep, Same, Surplus, Holders, InLua
<1> QED BY <1>4, <1>5, <1>7, <1>8, <1>9, <1>10 DEF IInv

(* The first as3.onclose(): nothing is being closed. *)
LEMMA RegisterFirst ==
  ASSUME IInv, NEW i \in Ids, onclose(i), ~HasRunner
  PROVE  IInv' /\ SurplusStep
<1> DEFINE k == Len(udata) + 1
<1>1. TypeOK /\ Shape /\ Phases /\ NewestFirst /\ Counted
  BY DEF IInv
<1>2. /\ udata[i].kind = "as3" /\ ~udata[i].done
      /\ Len(handlers') = Len(handlers) + 1 /\ handlers' # <<>>
      /\ \A h \in 1..Len(handlers') : \/ handlers'[h] = i
                                      \/ /\ h \in 1..Len(handlers)
                                         /\ handlers'[h] = handlers[h]
      /\ handlers' \in Seq(Ids)
      /\ refs' = refs /\ of' = of /\ live' = live
      /\ listeners' = listeners /\ removed' = removed /\ Goes
  BY RegisterLemma
<1>3. phase = "open" /\ height = 0 /\ handler = 0
      /\ phase' = phase /\ height' = 0 /\ handler' = 0 /\ ran' = ran
  BY <1>1, <1>2 DEF onclose, ScriptRuns, Phases, NewestFirst, Goes, closing
<1>4. /\ udata' \in Seq(Udata) /\ Len(udata') = k
      /\ \A j \in Ids : udata'[j] = udata[j]
      /\ udata'[k] = New("onclose", None)
  <2>1. udata' = Append(udata, New("onclose", None))
    BY DEF onclose, NewUdata, New
  <2> QED BY <1>1, <2>1, NewLemma, ValLemma
<1>5. /\ New("onclose", None).kind = "onclose"
      /\ New("onclose", None).done = FALSE
  BY ValLemma
<1>6. /\ Len(udata) \in Nat /\ Ids = 1..Len(udata) /\ Ids' = Ids \cup {k}
      /\ k \notin Ids /\ k \in Ids' /\ Len(udata) <= Len(udata')
      /\ \A h \in 1..Len(handlers) : handlers[h] \in Ids
  BY <1>1, <1>4, IdsLemma DEF Ids
<1> HIDE DEF k
<1>7. TypeOK'
  BY <1>1, <1>2, <1>4, <1>6, RegisterType
<1>8. \A j \in Ids : udata[j].kind # "onclose"
  BY DEF HasRunner
<1>9. /\ \A j \in Ids' : udata'[j].kind = "onclose" => j = k /\ ~udata'[j].done
      /\ \A j \in Ids' : udata'[j].kind # "onclose" => j \in Ids
      /\ \A h \in 1..Len(handlers') :
           handlers'[h] \in Ids /\ udata'[handlers'[h]] = udata[handlers'[h]]
  <2>1. /\ \A j \in Ids' : udata'[j].kind = "onclose" => j = k /\ ~udata'[j].done
        /\ \A j \in Ids' : udata'[j].kind # "onclose" => j \in Ids
    BY <1>4, <1>5, <1>6, <1>8
  <2>2. \A h \in 1..Len(handlers') : handlers'[h] \in Ids
    BY <1>2, <1>6
  <2> QED BY <1>4, <2>1, <2>2
<1>10. Shape'
  <2>1. /\ \A j \in Ids' : udata'[j].kind = "as3" =>
             udata'[j].val \in Val \cup {Undefined}
        /\ \A j \in Ids' : udata'[j].kind = "callback" =>
             /\ udata'[j].val \in Fn /\ of'[udata'[j].val] # None
             /\ udata'[j].done => udata'[j].val \notin live'
    BY <1>1, <1>2, <1>4, <1>9 DEF Shape, Made
  <2>2. \A j, n \in Ids' :
          udata'[j].kind = "callback" /\ udata'[n].kind = "callback"
            /\ udata'[j].val = udata'[n].val => j = n
    BY <1>1, <1>4, <1>9 DEF Shape
  <2>3. \A h \in listeners' \cup live' :
          \E j \in Ids' : udata'[j].kind = "callback" /\ udata'[j].val = h
    BY <1>1, <1>2, <1>4, <1>6 DEF Shape
  <2>4. \A h \in 1..Len(handlers') : udata'[handlers'[h]].kind = "as3"
    BY <1>1, <1>2, <1>9 DEF Shape
  <2>5. HasRunner'
    BY <1>4, <1>5, <1>6 DEF HasRunner
  <2> QED BY <1>2, <1>9, <2>1, <2>2, <2>3, <2>4, <2>5 DEF Shape, Made
<1>11. Phases'
  BY <1>1, <1>2, <1>3, <1>9 DEF Phases
<1>12. NewestFirst'
  BY <1>3 DEF NewestFirst, Pending
<1>13. Counted'
  BY <1>1, <1>3, <1>8, <1>9 DEF Counted, RunnerDone
<1>14. \A w \in Val : Holders(w)' = Holders(w)
  BY <1>4, <1>5, <1>6 DEF Holders, InLua
<1>15. SurplusStep
  BY <1>2, <1>14 DEF SurplusStep, Same, Surplus
<1> QED BY <1>7, <1>10, <1>11, <1>12, <1>13, <1>15 DEF IInv

----------------------------------------------------------------------------
(* lua_close().                                                            *)

LEMMA SmallestLemma ==
  ASSUME NEW S \in SUBSET Nat, S # {}
  PROVE  \E m \in S : \A k \in S : m <= k
<1> DEFINE R == OpToRel(<, Nat)
<1>1. IsWellFoundedOn(R, Nat)
  BY NatLessThanWellFounded
<1>2. \A a, b \in Nat : a < b => <<a, b>> \in R
  BY DEF OpToRel
<1> HIDE DEF R
<1>3. PICK m \in S : \A k \in S : ~(<<k, m>> \in R)
  BY <1>1, WFMin
<1>4. \A k \in S : ~(k < m)
  BY <1>2, <1>3
<1>5. \A k \in S : m <= k
  BY <1>4
<1> QED BY <1>5

(* There is a newest userdata as long as one is pending. *)
LEMMA NewestLemma ==
  ASSUME TypeOK, Pending # {}
  PROVE  /\ NextToFinalize \in Pending
         /\ \A j \in Pending : j <= NextToFinalize
<1> DEFINE S == {height - i : i \in Pending}
<1>1. height \in Nat /\ \A i \in Pending : i \in Nat /\ i <= height
  BY IdsLemma DEF TypeOK, Pending
<1>2. S \in SUBSET Nat /\ S # {}
  BY <1>1
<1>3. PICK m \in S : \A k \in S : m <= k
  BY <1>2, SmallestLemma
<1>4. PICK i \in Pending : m = height - i
  BY <1>3
<1>5. \A j \in Pending : j <= i
  <2> TAKE j \in Pending
  <2>1. m <= height - j
    BY <1>3
  <2> QED BY <1>1, <1>4, <2>1
<1>6. \E n \in Pending : \A j \in Pending : j <= n
  BY <1>4, <1>5
<1> QED BY <1>6 DEF NextToFinalize

LEMMA CloseStep ==
  ASSUME IInv, luaClose
  PROVE  IInv' /\ SurplusStep
<1>1. TypeOK /\ Shape /\ Phases /\ NewestFirst /\ Counted
  BY DEF IInv
<1>2. /\ phase = "open" /\ phase' = "closing" /\ height' = Len(udata)
      /\ found' = Nothing /\ udata' = udata /\ refs' = refs /\ of' = of
      /\ live' = live /\ listeners' = listeners /\ removed' = removed
      /\ handlers' = handlers /\ handler' = handler /\ ran' = ran /\ Ids' = Ids
      /\ more' = more /\ cut' = cut
  BY DEF luaClose, script, Ids
<1>3. Len(udata) \in Nat /\ Ids = 1..Len(udata)
  BY <1>1, IdsLemma DEF Ids
<1>4. TypeOK'
  BY <1>1, <1>2, <1>3 DEF TypeOK, Nothing
<1>5. Shape'
  BY <1>1, <1>2 DEF Shape, Made, HasRunner
<1>6. Phases'
  BY <1>1, <1>2, <1>3 DEF Phases
<1>7. NewestFirst' /\ Counted'
  BY <1>1, <1>2, <1>3 DEF Phases, NewestFirst, Counted, RunnerDone, Pending
<1>8. SurplusStep
  BY <1>2 DEF SurplusStep, Same, Surplus, Holders, InLua
<1> QED BY <1>4, <1>5, <1>6, <1>7, <1>8 DEF IInv

(* What every finalizer does to the order: the newest is done. *)
LEMMA FinalizedLemma ==
  ASSUME IInv, Finalize, NEW i \in Ids, i = NextToFinalize,
         udata' \in Seq(Udata), Len(udata') = Len(udata),
         udata'[i].kind = udata[i].kind, udata'[i].done = TRUE,
         \A j \in Ids : j # i => udata'[j] = udata[j]
  PROVE  /\ phase = "closing" /\ phase' = "closing" /\ height' = height
         /\ handler = 0 /\ handlers' = handlers /\ found' = Nothing
         /\ of' = of /\ listeners' = listeners /\ removed' = removed
         /\ more' = more /\ cut' = cut
         /\ i \in Pending /\ Pending' = Pending \ {i}
         /\ \A h \in 1..Len(handlers), j \in Pending' :
              udata'[handlers[h]].done => j < handlers[h]
<1>1. TypeOK /\ Phases /\ NewestFirst
  BY DEF IInv
<1>2. /\ phase = "closing" /\ phase' = "closing" /\ height' = height
      /\ handler = 0 /\ handlers' = handlers /\ found' = Nothing
      /\ of' = of /\ listeners' = listeners /\ removed' = removed
      /\ more' = more /\ cut' = cut /\ Pending # {}
  BY DEF Finalize
<1>3. i \in Pending /\ \A j \in Pending : j <= i
  BY <1>1, <1>2, NewestLemma
<1>4. \A j \in 1..height : j \in Ids
  BY <1>1, IdsLemma DEF TypeOK, Ids
<1>5. Pending' = Pending \ {i}
  BY <1>2, <1>3, <1>4 DEF Pending
<1>6. \A j \in Pending : j # i => j < i
  <2>1. \A j \in Pending : j \in Int
    BY DEF Pending
  <2> QED BY <1>3, <2>1
<1>7. ASSUME NEW h \in 1..Len(handlers), NEW j \in Pending',
             udata'[handlers[h]].done
      PROVE  j < handlers[h]
  <2>1. j \in Pending /\ j # i /\ handlers[h] \in Ids
    BY <1>1, <1>5, IdsLemma
  <2>2. CASE handlers[h] = i
    BY <1>6, <2>1, <2>2
  <2>3. CASE handlers[h] # i
    BY <1>1, <1>7, <2>1, <2>3 DEF NewestFirst
  <2> QED BY <2>2, <2>3
<1> QED BY <1>2, <1>3, <1>5, <1>7

(* A userdata other than the one that runs the handlers is finalized. *)
LEMMA FinalizeOther ==
  ASSUME IInv, Finalize, NEW i \in Ids, i = NextToFinalize,
         udata' \in Seq(Udata), Len(udata') = Len(udata),
         udata'[i].kind = udata[i].kind, udata'[i].done = TRUE,
         \A j \in Ids : j # i => udata'[j] = udata[j],
         udata[i].kind # "onclose", handler' = 0, ran' = ran,
         refs' \in [Val -> Int], live' \subseteq live
  PROVE  TypeOK' /\ Phases' /\ NewestFirst' /\ Counted'
<1>1. TypeOK /\ Shape /\ Phases /\ NewestFirst /\ Counted
  BY DEF IInv
<1>2. /\ phase = "closing" /\ phase' = "closing" /\ height' = height
      /\ handler = 0 /\ handlers' = handlers /\ found' = Nothing
      /\ of' = of /\ listeners' = listeners /\ removed' = removed
      /\ more' = more /\ cut' = cut
      /\ \A h \in 1..Len(handlers), j \in Pending' :
           udata'[handlers[h]].done => j < handlers[h]
  BY FinalizedLemma
<1>3. /\ Len(udata) \in Nat /\ Ids = 1..Len(udata) /\ Ids' = Ids
      /\ Len(handlers) \in Nat
  BY <1>1, IdsLemma DEF Ids
<1>4. /\ \A j \in Ids : udata'[j].kind = "onclose" =>
           udata[j].kind = "onclose" /\ udata'[j].done = udata[j].done
      /\ \A j \in Ids : udata[j].kind = "onclose" =>
           udata'[j].kind = "onclose" /\ udata'[j].done = udata[j].done
  OBVIOUS
<1>5. TypeOK'
  BY <1>1, <1>2, <1>3 DEF TypeOK, Nothing
<1>6. Phases'
  BY <1>1, <1>2, <1>3, <1>4 DEF Phases
<1>7. NewestFirst'
  BY <1>2, <1>3 DEF NewestFirst
<1>8. Counted'
  <2>1. RunnerDone' <=> RunnerDone
    BY <1>3, <1>4 DEF RunnerDone
  <2> QED BY <1>1, <1>2, <2>1 DEF Counted
<1> QED BY <1>5, <1>6, <1>7, <1>8

LEMMA FinalizeStep ==
  ASSUME IInv, Finalize
  PROVE  IInv' /\ SurplusStep
<1> DEFINE i == NextToFinalize
<1>1. TypeOK /\ Shape /\ Phases /\ NewestFirst /\ Counted
  BY DEF IInv
<1>2. /\ phase = "closing" /\ handler = 0 /\ Pending # {}
      /\ of' = of /\ listeners' = listeners /\ removed' = removed
      /\ handlers' = handlers /\ more' = more /\ cut' = cut
      /\ CASE udata[i].kind = "as3" ->
               Release(i, TRUE) /\ UNCHANGED <<live, handler, ran>>
          [] udata[i].kind = "callback" ->
               /\ release_callback(udata[i].val)
               /\ udata' = [udata EXCEPT ![i].done = TRUE]
               /\ UNCHANGED <<handler, ran>>
          [] udata[i].kind = "onclose" ->
               /\ RunHandler(1)
               /\ udata' = [udata EXCEPT ![i].done = TRUE]
               /\ UNCHANGED <<refs, live>>
  BY DEF Finalize
<1>3. i \in Pending /\ i \in Ids /\ ~udata[i].done
  <2>1. i \in Pending
    BY <1>1, <1>2, NewestLemma
  <2> QED BY <1>1, <2>1, IdsLemma DEF Pending, TypeOK, Ids
<1>4. udata[i].kind \in {"as3", "callback", "onclose"}
  BY <1>1, <1>3, IdsLemma DEF Udata
<1>5. i = NextToFinalize
  OBVIOUS
<1> HIDE DEF i
<1>6. CASE udata[i].kind = "as3"
  <2>1. /\ Release(i, TRUE) /\ InLua(i) /\ live' = live
        /\ handler' = 0 /\ ran' = ran
    BY <1>2, <1>3, <1>6 DEF InLua
  <2>2. /\ udata' \in Seq(Udata) /\ Len(udata') = Len(udata)
        /\ \A j \in Ids : /\ j # i => udata'[j] = udata[j]
                          /\ udata'[j].kind = udata[j].kind
        /\ udata'[i].done = TRUE
        /\ refs' \in [Val -> Int] /\ Shape'
        /\ \A w \in Val : Same(w)
    BY <1>2, <1>3, <2>1, ReleaseEffect
  <2>3. udata[i].kind # "onclose" /\ live' \subseteq live
        /\ udata'[i].kind = udata[i].kind
    BY <1>3, <1>6, <2>1, <2>2
  <2>4. TypeOK' /\ Phases' /\ NewestFirst' /\ Counted'
    BY <1>3, <1>5, <2>1, <2>2, <2>3, FinalizeOther
  <2>5. SurplusStep
    BY <2>2 DEF SurplusStep
  <2> QED BY <2>2, <2>4, <2>5 DEF IInv
<1>7. CASE udata[i].kind = "callback"
  <2>0. PICK f \in Fn : f = udata[i].val
    BY <1>1, <1>3, <1>7 DEF Shape
  <2>1. /\ f \in Fn /\ f \in Val /\ Acquire(f, -1) /\ live' = live \ {f}
        /\ udata' = [udata EXCEPT ![i].done = TRUE]
        /\ handler' = 0 /\ ran' = ran
    BY <1>2, <1>7, <2>0 DEF release_callback, Val
  <2>2. /\ udata' \in Seq(Udata) /\ Len(udata') = Len(udata) /\ Ids' = Ids
        /\ \A j \in Ids : j # i => udata'[j] = udata[j]
        /\ udata'[i].kind = udata[i].kind /\ udata'[i].val = udata[i].val
        /\ udata'[i].done = TRUE
    BY <1>1, <1>3, <2>1, DoneLemma DEF Ids
  <2>3. /\ refs' \in [Val -> Int] /\ refs'[f] = refs[f] + (-1)
        /\ \A w \in Val \ {f} : refs'[w] = refs[w] + 0
    BY <1>1, <2>1 DEF Acquire, TypeOK
  <2>4. udata[i].kind # "onclose" /\ live' \subseteq live
    BY <1>7, <2>1
  <2>5. TypeOK' /\ Phases' /\ NewestFirst' /\ Counted'
    BY <1>3, <1>5, <2>1, <2>2, <2>3, <2>4, FinalizeOther
  <2>6. Shape'
    <3>1. \A j \in Ids : udata'[j].kind = udata[j].kind
                         /\ udata'[j].val = udata[j].val
      BY <2>2
    <3>2. \A j \in Ids : udata[j].kind = "callback" /\ j # i =>
            udata[j].val # f /\ udata'[j].done = udata[j].done
      BY <1>1, <1>3, <1>7, <2>0, <2>2 DEF Shape
    <3>3. \A j \in Ids' : udata'[j].kind = "callback" =>
            /\ udata'[j].val \in Fn /\ of'[udata'[j].val] # None
            /\ udata'[j].done => udata'[j].val \notin live'
      <4>1. \A j \in Ids : udata[j].kind = "callback" =>
              /\ udata[j].val \in Fn /\ of[udata[j].val] # None
              /\ udata'[j].done => udata[j].val \notin live'
        BY <1>1, <2>0, <2>1, <3>2 DEF Shape, Made
      <4> QED BY <1>2, <2>2, <3>1, <4>1
    <3>4. /\ \A j \in Ids' : udata'[j].kind = "as3" =>
               udata'[j].val \in Val \cup {Undefined}
          /\ \A j, n \in Ids' :
               udata'[j].kind = "callback" /\ udata'[n].kind = "callback"
                 /\ udata'[j].val = udata'[n].val => j = n
          /\ \A j, n \in Ids' :
               udata'[j].kind = "onclose" /\ udata'[n].kind = "onclose" => j = n
      BY <1>1, <2>2, <3>1 DEF Shape
    <3>5. \A h \in listeners' \cup live' :
            \E j \in Ids' : udata'[j].kind = "callback" /\ udata'[j].val = h
      BY <1>1, <1>2, <2>1, <2>2, <3>1 DEF Shape
    <3>6. /\ \A h \in 1..Len(handlers') : udata'[handlers'[h]].kind = "as3"
          /\ (HasRunner' <=> handlers' # <<>>)
      BY <1>1, <1>2, <2>2, <3>1, IdsLemma DEF Shape, HasRunner
    <3> QED BY <3>3, <3>4, <3>5, <3>6 DEF Shape, Made
  <2>7. \A w \in Val : Holders(w)' = Holders(w)
    BY <1>7, <2>2 DEF Holders, InLua
  <2>8. SurplusStep
    <3>1. Surplus(f) \in Int /\ Surplus(f)' = Surplus(f) + (-1)
      BY <1>1, <2>1, <2>3, <2>7, SurplusLemma
    <3>2. ASSUME NEW w \in Val, w # f
          PROVE  Same(w)
      <4>1. Surplus(w) \in Int /\ Surplus(w)' = Surplus(w) + 0
        BY <1>1, <2>3, <2>7, <3>2, SurplusLemma
      <4> QED BY <4>1 DEF Same
    <3>3. Surplus(f)' = Surplus(f) - 1
      BY <3>1
    <3> QED BY <1>2, <2>1, <3>2, <3>3 DEF SurplusStep
  <2> QED BY <2>5, <2>6, <2>8 DEF IInv
<1>8. CASE udata[i].kind = "onclose"
  <2>1. /\ handler' = 1 /\ ran' = Append(ran, 1)
        /\ udata' = [udata EXCEPT ![i].done = TRUE]
        /\ refs' = refs /\ live' = live
    BY <1>2, <1>8 DEF RunHandler
  <2>2. /\ udata' \in Seq(Udata) /\ Len(udata') = Len(udata) /\ Ids' = Ids
        /\ \A j \in Ids : j # i => udata'[j] = udata[j]
        /\ udata'[i].kind = udata[i].kind /\ udata'[i].val = udata[i].val
        /\ udata'[i].done = TRUE
    BY <1>1, <1>3, <2>1, DoneLemma DEF Ids
  <2>3. /\ phase' = "closing" /\ height' = height /\ found' = Nothing
        /\ Pending' = Pending \ {i}
        /\ \A h \in 1..Len(handlers), j \in Pending' :
             udata'[handlers[h]].done => j < handlers[h]
    BY <1>3, <1>5, <2>2, FinalizedLemma
  <2>4. \A j \in Ids : /\ udata'[j].kind = udata[j].kind
                       /\ udata'[j].val = udata[j].val
                       /\ udata[j].kind = "onclose" => j = i
                       /\ udata[j].kind # "onclose" =>
                            udata'[j].done = udata[j].done
    BY <1>1, <1>3, <1>8, <2>2 DEF Shape
  <2>5. Shape'
    <3>1. /\ \A j \in Ids' : udata'[j].kind = "as3" =>
               udata'[j].val \in Val \cup {Undefined}
          /\ \A j \in Ids' : udata'[j].kind = "callback" =>
               /\ udata'[j].val \in Fn /\ of'[udata'[j].val] # None
               /\ udata'[j].done => udata'[j].val \notin live'
      <4>1. \A j \in Ids : udata[j].kind = "callback" =>
              /\ udata[j].val \in Fn /\ of[udata[j].val] # None
              /\ udata'[j].done => udata[j].val \notin live
        BY <1>1, <2>4 DEF Shape, Made
      <4>2. \A j \in Ids : udata[j].kind = "as3" =>
              udata[j].val \in Val \cup {Undefined}
        BY <1>1 DEF Shape
      <4> QED BY <1>2, <2>1, <2>2, <2>4, <4>1, <4>2
    <3>2. /\ \A j, n \in Ids' :
               udata'[j].kind = "callback" /\ udata'[n].kind = "callback"
                 /\ udata'[j].val = udata'[n].val => j = n
          /\ \A j, n \in Ids' :
               udata'[j].kind = "onclose" /\ udata'[n].kind = "onclose" => j = n
      BY <1>1, <2>2, <2>4 DEF Shape
    <3>3. \A h \in listeners' \cup live' :
            \E j \in Ids' : udata'[j].kind = "callback" /\ udata'[j].val = h
      BY <1>1, <1>2, <2>1, <2>2, <2>4 DEF Shape
    <3>4. /\ \A h \in 1..Len(handlers') : udata'[handlers'[h]].kind = "as3"
          /\ (HasRunner' <=> handlers' # <<>>)
      BY <1>1, <1>2, <2>2, <2>4, IdsLemma DEF Shape, HasRunner
    <3> QED BY <3>1, <3>2, <3>3, <3>4 DEF Shape, Made
  <2>6. Len(handlers) > 0
    <3>1. HasRunner
      BY <1>3, <1>8 DEF HasRunner
    <3> QED BY <1>1, <3>1, EmptySeq, IdsLemma DEF Shape, TypeOK
  <2>7. Len(ran) = 0
    <3>1. ~RunnerDone
      BY <1>3, <2>4 DEF RunnerDone
    <3> QED BY <1>1, <1>2, <3>1 DEF Counted
  <2>8. /\ ran' \in Seq(1..Len(handlers)) /\ Len(ran') = 1
        /\ \A n \in 1..Len(ran') : ran'[n] = n
    <3>1. /\ Len(handlers) \in Nat /\ 1 \in 1..Len(handlers)
          /\ ran \in Seq(1..Len(handlers))
      BY <1>1, <2>6, IdsLemma DEF TypeOK
    <3>2. /\ ran' \in Seq(1..Len(handlers)) /\ Len(ran') = Len(ran) + 1
          /\ ran'[Len(ran) + 1] = 1
      BY <2>1, <3>1, AppendProperties
    <3> QED BY <2>7, <3>2
  <2>9. TypeOK'
    BY <1>1, <1>2, <2>1, <2>2, <2>3, <2>6, <2>8, IdsLemma
       DEF TypeOK, Nothing
  <2>10. Phases'
    BY <1>1, <1>2, <2>1, <2>2, <2>3, <2>4 DEF Phases
  <2>11. NewestFirst'
    <3>1. ASSUME NEW h \in 1..Len(handlers), udata'[handlers[h]].done
          PROVE  i < handlers[h]
      <4>1. handlers[h] \in Ids /\ udata[handlers[h]].kind = "as3"
        BY <1>1, IdsLemma DEF Shape
      <4>2. udata[handlers[h]].done
        BY <2>4, <3>1, <4>1
      <4> QED BY <1>1, <1>3, <4>2 DEF NewestFirst
    <3>2. HasRunner'
      BY <1>3, <1>8, <2>2 DEF HasRunner
    <3> QED BY <1>2, <2>2, <2>3, <2>4, <3>1, <3>2 DEF NewestFirst
  <2>12. Counted'
    BY <2>1, <2>8 DEF Counted
  <2>13. \A w \in Val : Holders(w)' = Holders(w)
    BY <1>8, <2>2 DEF Holders, InLua
  <2>14. SurplusStep
    BY <2>1, <2>13 DEF SurplusStep, Same, Surplus
  <2> QED BY <2>5, <2>9, <2>10, <2>11, <2>12, <2>14 DEF IInv
<1> QED BY <1>4, <1>6, <1>7, <1>8

LEMMA RegisterStep ==
  ASSUME IInv, NEW i \in Ids, onclose(i)
  PROVE  IInv' /\ SurplusStep
BY RegisterMore, RegisterFirst

(* Steps that only look, or note that more handlers were registered. *)
LEMMA LookStep ==
  ASSUME IInv, UNCHANGED <<script, phase, height, handler, ran, cut>>,
         more' \in BOOLEAN,
         found'.what \in {"nothing", "finalized", "intact",
                          "expired", "lost", "called"},
         found'.id \in 0..Len(udata)
  PROVE  IInv' /\ SurplusStep
<1>1. TypeOK /\ Shape /\ Phases /\ NewestFirst /\ Counted
  BY DEF IInv
<1>2. /\ phase' = phase /\ height' = height /\ handler' = handler /\ ran' = ran
      /\ cut' = cut /\ udata' = udata /\ refs' = refs /\ of' = of
      /\ live' = live /\ listeners' = listeners /\ removed' = removed
      /\ handlers' = handlers /\ Ids' = Ids
  BY DEF script, Ids
<1>3. TypeOK'
  BY <1>1, <1>2 DEF TypeOK
<1>4. Shape'
  BY <1>1, <1>2 DEF Shape, Made, HasRunner
<1>5. Phases' /\ NewestFirst' /\ Counted'
  BY <1>1, <1>2
     DEF Phases, NewestFirst, Counted, RunnerDone, Pending, HasRunner
<1>6. SurplusStep
  BY <1>2 DEF SurplusStep, Same, Surplus, Holders, InLua
<1> QED BY <1>3, <1>4, <1>5, <1>6 DEF IInv

LEMMA HandlerUsesStep ==
  ASSUME IInv, HandlerUses
  PROVE  IInv' /\ SurplusStep
<1>1. TypeOK /\ Len(handlers) \in Nat /\ Len(udata) \in Nat
  BY IdsLemma DEF IInv
<1>2. handler \in 1..Len(handlers)
  BY <1>1 DEF HandlerUses, TypeOK
<1>3. handlers[handler] \in 0..Len(udata)
  BY <1>1, <1>2, IdsLemma DEF Ids
<1>4. /\ found'.what \in {"finalized", "intact"}
      /\ found'.id = handlers[handler]
      /\ UNCHANGED <<script, phase, height, handler, ran, cut>> /\ more' = more
  BY DEF HandlerUses, closing
<1> QED BY <1>1, <1>3, <1>4, LookStep DEF TypeOK

LEMMA FurtherStep ==
  ASSUME IInv, Further
  PROVE  IInv' /\ SurplusStep
<1>1. /\ found'.what = "nothing" /\ found'.id = 0 /\ more' \in BOOLEAN
      /\ UNCHANGED <<script, phase, height, handler, ran, cut>>
  BY DEF Further, Nothing
<1>2. 0 \in 0..Len(udata)
  BY IdsLemma DEF IInv
<1> QED BY <1>1, <1>2, LookStep

(* The record of an AS3 function that Flash may call. *)
LEMMA CallbackLemma ==
  ASSUME IInv, NEW f \in listeners \cup live
  PROVE  /\ CallbackOf(f) \in Ids
         /\ udata[CallbackOf(f)].kind = "callback"
         /\ udata[CallbackOf(f)].val = f
BY DEF IInv, Shape, CallbackOf

LEMMA FlashCallsStep ==
  ASSUME IInv, NEW f \in Fn, FlashCalls(f)
  PROVE  IInv' /\ SurplusStep
<1>1. TypeOK /\ CallbackOf(f) \in Ids
  BY CallbackLemma DEF FlashCalls, IInv
<1>2. CallbackOf(f) \in 0..Len(udata)
  BY <1>1, IdsLemma
<1>3. /\ found'.what \in {"expired", "lost", "called"}
      /\ found'.id = CallbackOf(f)
      /\ UNCHANGED <<script, phase, height, handler, ran, cut>> /\ more' = more
  BY DEF FlashCalls, closing
<1> QED BY <1>1, <1>2, <1>3, LookStep DEF TypeOK

LEMMA StutterStep ==
  ASSUME IInv, UNCHANGED vars
  PROVE  IInv' /\ SurplusStep
<1>1. /\ UNCHANGED <<script, phase, height, handler, ran, cut>>
      /\ more' = more /\ found' = found
  BY DEF vars, closing
<1> QED BY <1>1, LookStep DEF IInv, TypeOK

LEMMA CloseStateStep ==
  ASSUME IInv, CloseState
  PROVE  IInv' /\ SurplusStep
<1>1. TypeOK /\ Shape /\ Phases /\ NewestFirst /\ Counted
  BY DEF IInv
<1>2. /\ phase = "closing" /\ handler = 0 /\ Pending = {}
      /\ phase' = "closed" /\ found' = Nothing
      /\ height' = height /\ handler' = handler /\ ran' = ran
      /\ more' = more /\ cut' = cut
      /\ udata' = udata /\ refs' = refs /\ of' = of /\ live' = live
      /\ listeners' = listeners /\ removed' = removed /\ handlers' = handlers
      /\ Ids' = Ids
  BY DEF CloseState, script, Ids
<1>3. TypeOK'
  BY <1>1, <1>2, IdsLemma DEF TypeOK, Nothing
<1>4. Shape'
  BY <1>1, <1>2 DEF Shape, Made, HasRunner
<1>5. Pending' = {}
  BY <1>2 DEF Pending
<1>6. Phases'
  BY <1>1, <1>2, <1>5 DEF Phases
<1>7. NewestFirst' /\ Counted'
  BY <1>1, <1>2, <1>5 DEF NewestFirst, Counted, RunnerDone
<1>8. SurplusStep
  BY <1>2 DEF SurplusStep, Same, Surplus, Holders, InLua
<1> QED BY <1>3, <1>4, <1>6, <1>7, <1>8 DEF IInv

(* The list of handlers is walked on, or left. *)
LEMMA WalkLemma ==
  ASSUME IInv, handler > 0, found' = Nothing, UNCHANGED <<script, phase, height>>,
         more' \in BOOLEAN, cut' \in BOOLEAN,
         \/ /\ handler < Len(handlers)
            /\ handler' = handler + 1 /\ ran' = Append(ran, handler + 1)
         \/ /\ handler = Len(handlers) \/ cut'
            /\ handler' = 0 /\ ran' = ran
  PROVE  IInv' /\ SurplusStep
<1>1. TypeOK /\ Shape /\ Phases /\ NewestFirst /\ Counted
  BY DEF IInv
<1>2. /\ handler > 0 /\ found' = Nothing /\ phase' = phase /\ height' = height
      /\ udata' = udata /\ refs' = refs /\ of' = of /\ live' = live
      /\ listeners' = listeners /\ removed' = removed /\ handlers' = handlers
      /\ Ids' = Ids
  BY DEF script, Ids
<1>3. /\ Len(handlers) \in Nat /\ handler \in 1..Len(handlers)
      /\ ran \in Seq(1..Len(handlers)) /\ Len(ran) = handler
      /\ phase = "closing" /\ HasRunner
      /\ \A j \in Ids : udata[j].kind = "onclose" => udata[j].done
  BY <1>1, <1>2, IdsLemma DEF TypeOK, Phases, NewestFirst, Counted
<1>4. Pending' = Pending /\ (HasRunner' <=> HasRunner)
  BY <1>2 DEF Pending, HasRunner
<1>5. Shape'
  BY <1>1, <1>2 DEF Shape, Made, HasRunner
<1>6. SurplusStep
  BY <1>2 DEF SurplusStep, Same, Surplus, Holders, InLua
<1>7. Phases'
  BY <1>1, <1>2, <1>3, <1>4 DEF Phases
<1>8. NewestFirst'
  BY <1>1, <1>2, <1>3, <1>4 DEF NewestFirst
<1>9. CASE /\ handler < Len(handlers)
           /\ handler' = handler + 1 /\ ran' = Append(ran, handler + 1)
  <2>1. /\ handler' = handler + 1 /\ handler' \in 1..Len(handlers)
        /\ ran' = Append(ran, handler + 1)
    BY <1>2, <1>3, <1>9
  <2>2. /\ ran' \in Seq(1..Len(handlers)) /\ Len(ran') = Len(ran) + 1
        /\ \A n \in 1..Len(ran) : ran'[n] = ran[n]
        /\ ran'[Len(ran) + 1] = handler + 1
    BY <1>3, <2>1, AppendProperties
  <2>3. TypeOK'
    BY <1>1, <1>2, <2>1, <2>2 DEF TypeOK, Nothing
  <2>4. \A n \in 1..Len(ran') : ran'[n] = n
    <3>1. \A n \in 1..Len(ran) : ran[n] = n
      BY <1>1 DEF Counted
    <3>2. \A n \in 1..Len(ran') : n \in 1..Len(ran) \/ n = Len(ran) + 1
      BY <1>3, <2>2
    <3> QED BY <1>3, <2>2, <3>1, <3>2
  <2>5. handler' > 0 /\ Len(ran') = handler'
    BY <1>3, <2>1, <2>2
  <2>6. Counted'
    BY <2>4, <2>5 DEF Counted
  <2> QED BY <1>5, <1>6, <1>7, <1>8, <2>3, <2>6 DEF IInv
<1>10. CASE /\ handler = Len(handlers) \/ cut'
            /\ handler' = 0 /\ ran' = ran
  <2>1. handler' = 0 /\ ran' = ran /\ (Len(ran) = Len(handlers) \/ cut')
    BY <1>3, <1>10
  <2>2. TypeOK'
    BY <1>1, <1>2, <1>3, <2>1, IdsLemma DEF TypeOK, Nothing
  <2>3. RunnerDone'
    BY <1>2, <1>3 DEF HasRunner, RunnerDone
  <2>4. Counted'
    BY <1>1, <1>2, <2>1, <2>3 DEF Counted
  <2> QED BY <1>5, <1>6, <1>7, <1>8, <2>2, <2>4 DEF IInv
<1> QED BY <1>9, <1>10

(* A handler gives way to the next, or to the finalizers that are left. *)
LEMMA HandlerEndsStep ==
  ASSUME IInv, HandlerEnds
  PROVE  IInv' /\ SurplusStep
<1>1. /\ handler > 0 /\ found' = Nothing /\ cut' = cut
      /\ UNCHANGED <<script, phase, height>>
  BY DEF HandlerEnds, EndsHandler
<1>2. more \in BOOLEAN /\ cut \in BOOLEAN
  BY DEF IInv, TypeOK
<1>3. CASE handler < Len(handlers) /\ RunHandler(handler + 1) /\ more' = more
  BY <1>1, <1>2, <1>3, WalkLemma DEF RunHandler
<1>4. CASE more' = FALSE /\ UNCHANGED <<handler, ran>>
  <2>1. 0 \in 0..Len(udata)
    BY IdsLemma DEF IInv
  <2> QED BY <1>1, <1>4, <2>1, LookStep DEF Nothing
<1>5. CASE handler = Len(handlers) /\ handler' = 0 /\ UNCHANGED <<more, ran>>
  BY <1>1, <1>2, <1>5, WalkLemma
<1> QED BY <1>3, <1>4, <1>5 DEF HandlerEnds

(* The report of an error leaves the loop. *)
LEMMA ReportRaisesStep ==
  ASSUME IInv, ReportRaises
  PROVE  IInv' /\ SurplusStep
BY WalkLemma DEF ReportRaises

----------------------------------------------------------------------------
(* The specification.                                                      *)

LEMMA InitLemma ==
  ASSUME Init
  PROVE  IInv /\ \A v \in Val : Surplus(v) = 0
<1>1. /\ Len(udata) = 0 /\ Ids = {} /\ Len(handlers) = 0 /\ Len(ran) = 0
      /\ udata \in Seq(Udata) /\ handlers \in Seq(Ids)
      /\ ran \in Seq(1..Len(handlers))
  BY EmptySeq DEF Init, Ids
<1>2. TypeOK
  <2>1. /\ phase \in {"open", "closing", "closed"}
        /\ height \in 0..Len(udata) /\ handler \in 0..Len(handlers)
    <3>1. phase = "open" /\ height = 0 /\ handler = 0
      BY DEF Init
    <3> QED BY ONLY <1>1, <3>1
  <2>2. refs \in [Val -> Int] /\ of \in [Fn -> LuaFn \cup {None}]
    BY DEF Init
  <2>3. live \subseteq Fn /\ listeners \subseteq Fn /\ removed \subseteq LuaFn
    BY DEF Init
  <2>4. found.what = "nothing" /\ found.id = 0 /\ 0 \in 0..Len(udata)
    BY <1>1 DEF Init, Nothing
  <2>5. more \in BOOLEAN /\ cut \in BOOLEAN
    BY Zenon DEF Init
  <2> QED BY ONLY <1>1, <2>1, <2>2, <2>3, <2>4, <2>5 DEF TypeOK
<1>3. Shape
  BY <1>1 DEF Init, Shape, HasRunner
<1>4. Phases /\ NewestFirst /\ Counted
  BY <1>1 DEF Init, Phases, NewestFirst, Counted, Pending
<1>5. \A v \in Val : Holders(v) = {} /\ refs[v] = 0
  BY <1>1 DEF Init, Holders, InLua
<1>6. \A v \in Val : Surplus(v) = 0
  BY <1>5, FS_EmptySet DEF Surplus
<1> QED BY <1>2, <1>3, <1>4, <1>6 DEF IInv

LEMMA NextStep ==
  ASSUME IInv, [Next]_vars
  PROVE  IInv' /\ SurplusStep
<1>1. CASE (\E o \in Obj : as3_new(o) \/ as3_toas3_value(o)) \/ as3_stage
  <2>1. Stage \in Obj
    BY ConstantsAssumption
  <2> QED BY <1>1, <2>1, NewStep
<1>2. CASE \E v \in Val : Fetch(v)
  BY <1>2, FetchStep
<1>3. CASE \E i \in Ids : as3_set(i)
  BY <1>3, SetStep
<1>4. CASE \E i \in Ids : as3_release(i) \/ Collect(i)
  BY <1>4, ReleaseStep
<1>5. CASE \E i \in Ids : onclose(i)
  BY <1>5, RegisterStep
<1>6. CASE \E g \in LuaFn, f \in Fn :
             \/ AddListener(g, f) \/ RemoveListener(g, f)
             \/ as3_set_function(g, f) \/ as3_toas3(g, f)
  BY <1>6, CallbackStep
<1>7. CASE luaClose
  BY <1>7, CloseStep
<1>8. CASE Finalize
  BY <1>8, FinalizeStep
<1>9. CASE HandlerEnds
  BY <1>9, HandlerEndsStep
<1>10. CASE CloseState
  BY <1>10, CloseStateStep
<1>11. CASE HandlerUses
  BY <1>11, HandlerUsesStep
<1>12. CASE \E f \in Fn : FlashCalls(f)
  BY <1>12, FlashCallsStep
<1>13. CASE \E o \in Obj : JumpedOver(o)
  BY <1>13, JumpedOverStep
<1>14. CASE Further
  BY <1>14, FurtherStep
<1>15. CASE ReportRaises
  BY <1>15, ReportRaisesStep
<1>16. CASE UNCHANGED vars
  BY <1>16, StutterStep
<1> QED BY <1>1, <1>2, <1>3, <1>4, <1>5, <1>6, <1>7, <1>8, <1>9, <1>10,
           <1>11, <1>12, <1>13, <1>14, <1>15, <1>16 DEF Next, Script, Closing

(* Every reachable state satisfies the inductive invariant.                *)
THEOREM InductiveInvariant == Spec => []IInv
<1>1. Init => IInv
  BY InitLemma
<1>2. IInv /\ [Next]_vars => IInv'
  BY NextStep
<1> QED BY <1>1, <1>2, PTL DEF Spec

(* The variables stay in their types.                                      *)
THEOREM TypeCorrect == Spec => []TypeOK
<1>1. IInv => TypeOK
  BY DEF IInv
<1> QED BY <1>1, InductiveInvariant, PTL

(* What a step records, and that lua_close() is not undone.                *)
LEMMA FoundLemma ==
  ASSUME [Next]_vars
  PROVE  /\ \/ found' = Nothing
            \/ HandlerUses
            \/ \E f \in Fn : FlashCalls(f)
            \/ UNCHANGED vars
         /\ phase' = "open" => phase = "open"
<1>1. CASE \/ \E o \in Obj : as3_new(o) \/ as3_toas3_value(o) \/ JumpedOver(o)
           \/ as3_stage
           \/ \E v \in Val : Fetch(v)
           \/ \E i \in Ids : \/ as3_set(i) \/ as3_release(i)
                             \/ onclose(i) \/ Collect(i)
           \/ \E g \in LuaFn, f \in Fn :
                \/ AddListener(g, f) \/ RemoveListener(g, f)
                \/ as3_set_function(g, f) \/ as3_toas3(g, f)
  <2>1. Goes
    BY <1>1 DEF as3_new, as3_toas3_value, JumpedOver, as3_stage, Fetch,
                as3_set, as3_release, onclose, Collect, AddListener,
                RemoveListener, as3_set_function, Listen, as3_toas3
  <2> QED BY <2>1 DEF Goes, closing
<1>2. CASE \/ luaClose \/ Finalize \/ HandlerEnds \/ CloseState
           \/ Further \/ ReportRaises
  BY <1>2 DEF luaClose, Finalize, HandlerEnds, EndsHandler, CloseState,
              Further, ReportRaises
<1>3. CASE HandlerUses \/ \E f \in Fn : FlashCalls(f)
  BY <1>3 DEF HandlerUses, FlashCalls, closing
<1>4. CASE UNCHANGED vars
  BY <1>4 DEF vars, closing
<1> QED BY <1>1, <1>2, <1>3, <1>4 DEF Next, Script, Closing

(* as3_gc: whatever scripts, handlers, the collector and lua_close() do, a *)
(* userdata's AS3 value never loses the last counted reference while Lua   *)
(* holds it, until release_callback() takes one that is not its own.       *)
THEOREM HeldAliveAlways == Spec => []HeldAlive
<1>1. Init => HeldAlive
  <2> SUFFICES ASSUME Init PROVE HeldAlive
    OBVIOUS
  <2>1. \A v \in Val : Surplus(v) = 0
    BY InitLemma
  <2> QED BY <2>1 DEF HeldAlive, Val
<1>2. IInv /\ HeldAlive /\ [Next]_vars => HeldAlive'
  <2> SUFFICES ASSUME IInv, HeldAlive, [Next]_vars
               PROVE  HeldAlive'
    OBVIOUS
  <2>1. SurplusStep /\ (phase' = "open" => phase = "open")
    BY NextStep, FoundLemma
  <2>2. \A v \in Val : Surplus(v) \in Int
    <3> TAKE v \in Val
    <3>1. TypeOK /\ refs[v] \in Int
      BY DEF IInv, TypeOK
    <3> QED BY <3>1, HoldersFinite DEF Surplus
  <2>3. ASSUME NEW o \in Obj PROVE (Surplus(o) >= 0)'
    <3>1. o \in Val /\ o \notin Fn /\ Surplus(o) >= 0
      BY ConstantsAssumption DEF Val, HeldAlive
    <3>2. Surplus(o)' = Surplus(o) \/ Surplus(o)' = Surplus(o) + 1
      BY <2>1, <3>1 DEF SurplusStep, Same
    <3> HIDE DEF Surplus
    <3> QED BY <2>2, <3>1, <3>2
  <2>4. ASSUME NEW f \in Fn, phase' = "open" PROVE (Surplus(f) >= 0)'
    <3>1. f \in Val /\ Surplus(f) >= 0 /\ phase # "closing"
      BY <2>1, <2>4 DEF Val, HeldAlive
    <3>2. Surplus(f)' = Surplus(f) \/ Surplus(f)' = Surplus(f) + 1
      BY <2>1, <3>1 DEF SurplusStep, Same
    <3> QED BY <2>2, <3>1, <3>2
  <2> QED BY <2>3, <2>4 DEF HeldAlive
<1> QED BY <1>1, <1>2, InductiveInvariant, PTL DEF Spec

(* as3_new, as3_new2, as3_stage, as3_set, as3_toas3, and the functions an  *)
(* error of AS3 code jumps over: nothing else in the bridge leaves a       *)
(* reference behind that no userdata gives back.                           *)
THEOREM OnlyTheseLeakAlways == Spec => OnlyTheseLeak
<1>1. IInv /\ [Next]_vars =>
        [\A v \in Val : Surplus(v)' > Surplus(v) =>
           \/ as3_new(v) \/ as3_toas3_value(v)
           \/ v = Stage /\ as3_stage
           \/ \E i \in Ids : udata[i].val = v /\ as3_set(i)
           \/ \E g \in LuaFn : as3_set_function(g, v) \/ as3_toas3(g, v)
           \/ JumpedOver(v)]_vars
  <2> SUFFICES ASSUME IInv, [Next]_vars, NEW v \in Val,
                      Surplus(v)' > Surplus(v)
               PROVE  Leak(v)
    BY DEF Leak
  <2>1. SurplusStep
    BY NextStep
  <2>2. Surplus(v) \in Int
    <3>1. TypeOK /\ refs[v] \in Int
      BY DEF IInv, TypeOK
    <3> QED BY <3>1, HoldersFinite DEF Surplus
  <2>3. Same(v) \/ Leak(v) \/ Surplus(v)' = Surplus(v) - 1
    BY <2>1 DEF SurplusStep
  <2> QED BY <2>2, <2>3 DEF Same
<1> QED BY <1>1, InductiveInvariant, PTL DEF Spec, OnlyTheseLeak

(* The first as3.onclose() makes the userdata that runs the handlers; what *)
(* is older has not been finalized when they run.                          *)
THEOREM OlderObjectsIntactAlways == Spec => []OlderObjectsIntact
<1>1. Init => OlderObjectsIntact
  BY DEF Init, OlderObjectsIntact, Nothing
<1>2. IInv /\ OlderObjectsIntact /\ [Next]_vars => OlderObjectsIntact'
  <2> SUFFICES ASSUME IInv, OlderObjectsIntact, [Next]_vars
               PROVE  OlderObjectsIntact'
    OBVIOUS
  <2>1. CASE found' = Nothing
    BY <2>1 DEF OlderObjectsIntact, Nothing
  <2>2. CASE HandlerUses
    <3>1. TypeOK /\ NewestFirst /\ handler > 0
      BY <2>2 DEF IInv, HandlerUses
    <3>2. handler \in 1..Len(handlers)
      BY <3>1, IdsLemma DEF TypeOK
    <3>3. /\ found'.what = "finalized" => udata[handlers[handler]].done
          /\ found'.id = handlers[handler]
          /\ udata' = udata
      BY <2>2 DEF HandlerUses, script
    <3>4. Runner \in Ids /\ udata[Runner].kind = "onclose"
      BY <3>1 DEF NewestFirst, HasRunner, Runner
    <3>5. found'.what = "finalized" => Runner < found'.id
      BY <3>1, <3>2, <3>3, <3>4 DEF NewestFirst
    <3>6. Runner' = Runner /\ handlers[handler] \in Nat /\ Runner \in Nat
      BY <3>1, <3>2, <3>3, <3>4, IdsLemma DEF Runner, Ids
    <3> QED BY <3>3, <3>5, <3>6 DEF OlderObjectsIntact
  <2>3. CASE \E f \in Fn : FlashCalls(f)
    BY <2>3 DEF FlashCalls, OlderObjectsIntact
  <2>4. CASE UNCHANGED vars
    BY <2>4 DEF vars, script, closing, OlderObjectsIntact, Runner, Ids
  <2> QED BY <2>1, <2>2, <2>3, <2>4, FoundLemma
<1> QED BY <1>1, <1>2, InductiveInvariant, PTL DEF Spec

(* The loop over the registered handlers: each runs once, in order, and a  *)
(* closed state has none left, unless the report of an error left the loop.*)
THEOREM HandlersRunInOrderAlways == Spec => []HandlersRunInOrder
<1>1. IInv => HandlersRunInOrder
  <2> SUFFICES ASSUME IInv, phase = "closed"
               PROVE  Len(ran) = Len(handlers) \/ cut
    BY DEF HandlersRunInOrder, IInv, Counted
  <2>1. TypeOK /\ Shape /\ Phases /\ Counted
    BY DEF IInv
  <2>2. handler = 0 /\ Pending = {}
    BY <2>1 DEF Phases, TypeOK
  <2>3. CASE HasRunner
    <3>1. PICK i \in Ids : udata[i].kind = "onclose"
      BY <2>3 DEF HasRunner
    <3>2. i \in 1..height
      BY <2>1, <3>1, IdsLemma DEF Phases, TypeOK
    <3>3. udata[i].done
      BY <2>2, <3>2 DEF Pending
    <3> QED BY <2>1, <2>2, <3>1, <3>3 DEF Counted, RunnerDone
  <2>4. CASE ~HasRunner
    <3>1. handlers = <<>> /\ ~RunnerDone
      BY <2>1, <2>4 DEF Shape, HasRunner, RunnerDone
    <3> QED BY <2>1, <2>2, <3>1 DEF Counted
  <2> QED BY <2>3, <2>4
<1> QED BY <1>1, InductiveInvariant, PTL

(* as3_lua_callback() after lua_close(): only a record made while the      *)
(* handlers ran still points to the freed state.                           *)
THEOREM LostOnlyIfMadeClosingAlways == Spec => []LostOnlyIfMadeClosing
<1>1. Init => LostOnlyIfMadeClosing
  BY DEF Init, LostOnlyIfMadeClosing, Nothing
<1>2. IInv /\ LostOnlyIfMadeClosing /\ [Next]_vars => LostOnlyIfMadeClosing'
  <2> SUFFICES ASSUME IInv, LostOnlyIfMadeClosing, [Next]_vars
               PROVE  LostOnlyIfMadeClosing'
    OBVIOUS
  <2>1. CASE found' = Nothing
    BY <2>1 DEF LostOnlyIfMadeClosing, Nothing
  <2>2. CASE HandlerUses
    BY <2>2 DEF HandlerUses, LostOnlyIfMadeClosing
  <2>3. CASE \E f \in Fn : FlashCalls(f)
    <3>1. PICK f \in Fn : FlashCalls(f)
      BY <2>3
    <3> DEFINE c == CallbackOf(f)
    <3>2. /\ c \in Ids /\ udata[c].kind = "callback" /\ udata[c].val = f
          /\ found'.id = c /\ height' = height
          /\ found'.what = "lost" => f \in live /\ phase = "closed"
      BY <3>1, CallbackLemma DEF FlashCalls, closing
    <3> HIDE DEF c
    <3>3. TypeOK /\ Shape /\ Phases
      BY DEF IInv
    <3>4. found'.what = "lost" => c \notin 1..height
      BY <3>2, <3>3 DEF Shape, Phases, Pending
    <3>5. c \in Nat /\ c > 0 /\ height \in Nat
      BY <3>2, <3>3, IdsLemma DEF TypeOK
    <3> QED BY <3>2, <3>4, <3>5 DEF LostOnlyIfMadeClosing
  <2>4. CASE UNCHANGED vars
    BY <2>4 DEF vars, closing, LostOnlyIfMadeClosing
  <2> QED BY <2>1, <2>2, <2>3, <2>4, FoundLemma
<1> QED BY <1>1, <1>2, InductiveInvariant, PTL DEF Spec
=============================================================================
