-------------------------- MODULE LuaThreadsProofs --------------------------
(***************************************************************************)
(* Proof that the C stack and the lua_States of LuaThreads agree, for any  *)
(* coroutines and any limits.                                              *)
(***************************************************************************)
EXTENDS LuaParts, SequenceTheorems, FiniteSetTheorems,
        WellFoundedInduction, TLAPS

-----------------------------------------------------------------------------
(* What the first i entries of a C stack c hold.                           *)

Jump(e) == e.is \in {"try", "start"}
Own(c, i, l) == {j \in 1 .. i : c[j].th = l}
CallsIn(c, i, l) == Cardinality({j \in 1 .. i : c[j].th = l /\ c[j].called})
FramesIn(c, i, l) ==
  Cardinality(UNION {{j} \X (1 .. C!Frames(c[j])) : j \in Own(c, i, l)})
Starts(c, i) == Cardinality({j \in 1 .. i : c[j].is = "start"})
AllCalls(c, i) == Cardinality({j \in 1 .. i : c[j].called})
Nested(c, i) == AllCalls(c, i) + Starts(c, i)
Handled(c, i, l) == \E j \in 1 .. i : c[j].th = l /\ c[j].handles
Tries(c, i, l) == {j \in 1 .. i : c[j].th = l /\ c[j].is = "try"}
Handler(c, i, l) ==
  Tries(c, i, l) # {} /\ c[C!Max(Tries(c, i, l)) - 1].is = "xpcall"

LEMMA SmallestLemma ==
  ASSUME NEW A \in SUBSET Nat, A # {}
  PROVE  \E m \in A : \A k \in A : m <= k
<1> DEFINE R == OpToRel(<, Nat)
<1>1. IsWellFoundedOn(R, Nat) BY NatLessThanWellFounded
<1>2. \A a, b \in Nat : a < b => <<a, b>> \in R BY DEF OpToRel
<1> HIDE DEF R
<1>3. PICK m \in A : \A k \in A : ~(<<k, m>> \in R) BY <1>1, WFMin
<1>4. \A k \in A : ~(k < m) BY <1>2, <1>3
<1> QED BY <1>4

(* The largest number of a set. *)
LEMMA MaxLemma ==
  ASSUME NEW n \in Nat, NEW A \in SUBSET (1 .. n), A # {}
  PROVE  C!Max(A) \in A /\ \A k \in A : k <= C!Max(A)
<1> DEFINE B == {n - k : k \in A}
<1>1. B \subseteq Nat /\ B # {}
  <2>1. \A k \in A : n - k \in Nat OBVIOUS
  <2>2. B \subseteq Nat BY ONLY <2>1
  <2>3. PICK k \in A : TRUE OBVIOUS
  <2>4. n - k \in B BY ONLY <2>3
  <2> QED BY ONLY <2>2, <2>4
<1>2. PICK b \in B : \A k \in B : b <= k
  <2> HIDE DEF B
  <2> QED BY <1>1, SmallestLemma
<1>3. PICK m \in A : b = n - m OBVIOUS
<1>4. ASSUME NEW k \in A PROVE m >= k
  <2>1. n - k \in B OBVIOUS
  <2>2. n - m <= n - k BY <1>2, <1>3, <2>1
  <2>3. n \in Int /\ m \in Int /\ k \in Int OBVIOUS
  <2> QED BY ONLY <2>2, <2>3
<1>5. C!Max(A) \in A /\ \A k \in A : C!Max(A) >= k BY <1>4 DEF C!Max
<1> QED BY <1>5

LEMMA CardLemma ==
  ASSUME NEW A
  PROVE  C!Cardinality(A) = Cardinality(A)
BY DEF C!Cardinality, Cardinality

(* A count over the first entries grows by what the next one adds. *)
LEMMA NextLemma ==
  ASSUME NEW i \in Nat, NEW A \in SUBSET (1 .. i)
  PROVE  /\ IsFiniteSet(A) /\ Cardinality(A) \in Nat
         /\ Cardinality(A \cup {i + 1}) = Cardinality(A) + 1
<1>1. IsFiniteSet(A)
  <2>1. IsFiniteSet(1 .. i) BY FS_Interval
  <2> QED BY <2>1, FS_Subset
<1>2. i + 1 \notin A OBVIOUS
<1> QED BY <1>1, <1>2, FS_AddElement, FS_CardinalityType

LEMMA CallsLemma ==
  ASSUME NEW c, NEW i \in Nat, NEW l
  PROVE  /\ CallsIn(c, i, l) \in Nat
         /\ CallsIn(c, i + 1, l) = CallsIn(c, i, l)
              + (IF c[i + 1].th = l /\ c[i + 1].called THEN 1 ELSE 0)
<1> DEFINE A == {j \in 1 .. i : c[j].th = l /\ c[j].called}
           B == {j \in 1 .. i + 1 : c[j].th = l /\ c[j].called}
<1>1. A \in SUBSET (1 .. i) OBVIOUS
<1>2. 1 .. i + 1 = (1 .. i) \cup {i + 1} OBVIOUS
<1>3. B = IF c[i + 1].th = l /\ c[i + 1].called THEN A \cup {i + 1} ELSE A
  BY <1>2
<1>4. CallsIn(c, i, l) = Cardinality(A) /\ CallsIn(c, i + 1, l) = Cardinality(B)
  BY DEF CallsIn
<1> HIDE DEF A, B
<1>5. /\ Cardinality(A) \in Nat
      /\ Cardinality(A \cup {i + 1}) = Cardinality(A) + 1
  BY <1>1, NextLemma
<1>6. CASE c[i + 1].th = l /\ c[i + 1].called
  BY <1>3, <1>4, <1>5, <1>6
<1>7. CASE ~(c[i + 1].th = l /\ c[i + 1].called)
  BY <1>3, <1>4, <1>5, <1>7
<1> QED BY <1>6, <1>7

LEMMA NestedLemma ==
  ASSUME NEW c, NEW i \in Nat
  PROVE  /\ Nested(c, i) \in Nat
         /\ Nested(c, i + 1) = Nested(c, i)
              + (IF c[i + 1].called THEN 1 ELSE 0)
              + (IF c[i + 1].is = "start" THEN 1 ELSE 0)
<1> DEFINE A == {j \in 1 .. i : c[j].called}
           B == {j \in 1 .. i + 1 : c[j].called}
           D == {j \in 1 .. i : c[j].is = "start"}
           E == {j \in 1 .. i + 1 : c[j].is = "start"}
<1>1. A \in SUBSET (1 .. i) /\ D \in SUBSET (1 .. i) OBVIOUS
<1>2. 1 .. i + 1 = (1 .. i) \cup {i + 1} OBVIOUS
<1>3. /\ B = IF c[i + 1].called THEN A \cup {i + 1} ELSE A
      /\ E = IF c[i + 1].is = "start" THEN D \cup {i + 1} ELSE D
  BY <1>2
<1>4. /\ Nested(c, i) = Cardinality(A) + Cardinality(D)
      /\ Nested(c, i + 1) = Cardinality(B) + Cardinality(E)
  BY DEF Nested, AllCalls, Starts
<1> HIDE DEF A, B, D, E
<1>5. /\ Cardinality(A) \in Nat /\ Cardinality(D) \in Nat
      /\ Cardinality(A \cup {i + 1}) = Cardinality(A) + 1
      /\ Cardinality(D \cup {i + 1}) = Cardinality(D) + 1
  BY <1>1, NextLemma
<1> QED BY <1>3, <1>4, <1>5

LEMMA FramesLemma ==
  ASSUME NEW c, NEW i \in Nat, NEW l,
         \A j \in 1 .. i + 1 : C!Frames(c[j]) \in Nat
  PROVE  /\ FramesIn(c, i, l) \in Nat
         /\ FramesIn(c, i + 1, l) = FramesIn(c, i, l)
              + (IF c[i + 1].th = l THEN C!Frames(c[i + 1]) ELSE 0)
<1> PICK n \in Nat : n = C!Frames(c[i + 1]) OBVIOUS
<1> DEFINE D(j) == {j} \X (1 .. C!Frames(c[j]))
           K == {D(j) : j \in Own(c, i, l)}
           N == {i + 1} \X (1 .. n)
           A == UNION K
           B == UNION {D(j) : j \in Own(c, i + 1, l)}
<1>1. Own(c, i + 1, l) = IF c[i + 1].th = l THEN Own(c, i, l) \cup {i + 1}
                         ELSE Own(c, i, l)
  BY 1 .. i + 1 = (1 .. i) \cup {i + 1} DEF Own
<1>2. B = IF c[i + 1].th = l THEN A \cup N ELSE A
  <2>1. D(i + 1) = N OBVIOUS
  <2> HIDE DEF D, N
  <2>2. CASE c[i + 1].th = l
    <3>1. Own(c, i + 1, l) = Own(c, i, l) \cup {i + 1} BY <1>1, <2>2
    <3>2. \A z : z \in B <=> z \in A \cup N BY <2>1, <3>1
    <3> QED BY <2>2, <3>2
  <2>3. CASE c[i + 1].th # l BY <1>1, <2>3
  <2> QED BY <2>2, <2>3
<1>3. IsFiniteSet(A)
  <2> DEFINE I == Own(c, i, l)
             f == [j \in I |-> D(j)]
  <2>1. ASSUME NEW j \in I PROVE IsFiniteSet(D(j))
    <3>1. IsFiniteSet({j}) BY FS_Singleton
    <3>2. C!Frames(c[j]) \in Nat BY DEF Own
    <3>3. IsFiniteSet(1 .. C!Frames(c[j])) BY <3>2, FS_Interval
    <3> QED BY <3>1, <3>3, FS_Product
  <2>2. IsFiniteSet(I)
    <3>1. I \in SUBSET (1 .. i) BY DEF Own
    <3> HIDE DEF I
    <3> QED BY <3>1, NextLemma
  <2>3. f \in Surjection(I, K) BY DEF Surjection
  <2>4. IsFiniteSet(K)
    <3> HIDE DEF f, I, K
    <3> QED BY <2>2, <2>3, FS_Surjection
  <2>5. \A d \in K : IsFiniteSet(d) BY <2>1
  <2> HIDE DEF K
  <2> QED BY <2>4, <2>5, FS_UNION
<1>4. A \cap N = {}
  BY DEF Own
<1>5. IsFiniteSet(N) /\ Cardinality(N) = n
  <2>1. IsFiniteSet({i + 1}) /\ Cardinality({i + 1}) = 1 BY FS_Singleton
  <2>2. IsFiniteSet(1 .. n) /\ Cardinality(1 .. n) = n
    BY FS_Interval
  <2> QED BY <2>1, <2>2, FS_Product
<1>6. /\ FramesIn(c, i, l) = Cardinality(A)
      /\ FramesIn(c, i + 1, l) = Cardinality(B)
  BY DEF FramesIn
<1> HIDE DEF A, B, N, D
<1>7. Cardinality(A) \in Nat BY <1>3, FS_CardinalityType
<1>8. Cardinality(A \cup N) = Cardinality(A) + n
  <2>1. Cardinality(A \cup N) = Cardinality(A) + Cardinality(N)
                                 - Cardinality(A \cap N)
    BY <1>3, <1>5, FS_Union
  <2>2. Cardinality(A \cap N) = 0 BY <1>4, FS_EmptySet
  <2> QED BY <1>5, <1>7, <2>1, <2>2
<1> QED BY <1>2, <1>6, <1>7, <1>8

-----------------------------------------------------------------------------
(* The invariant.                                                          *)

Kind == C!Callee \cup {"host", "try", "start"}
OldType == [ci : Int, nCcalls : Int, errfunc : BOOLEAN]
EntryType == [th : C!Thread, is : Kind, called : BOOLEAN, n : Nat,
              handles : BOOLEAN, old : OldType]
ThreadType == [ci : Int, size : Int, nCcalls : Int, baseCcalls : Int,
               status : {"ok", "yield", "error"}, errfunc : BOOLEAN,
               fresh : BOOLEAN]
StateType == [c : Seq(EntryType), th : [C!Thread -> ThreadType],
              raise : BOOLEAN]

(* What the entry i may be, given those before it: who starts a coroutine, *)
(* who calls under a try, who calls without luaD_call().                   *)
Shape(c, i) ==
  /\ c[i].is = "host" <=> i = 1
  /\ i = 1 => c[i].th = Main /\ ~c[i].called /\ ~c[i].handles
  /\ Jump(c[i]) => ~c[i].called /\ ~c[i].handles
  /\ c[i].handles => c[i].called
  /\ c[i].is = "execute" => c[i].n >= 1
  /\ i > 1 =>
       /\ IF c[i].is = "start"
          THEN c[i].th \in Co /\ c[i - 1].is \in {"resume", "wrap"}
               /\ Own(c, i - 1, c[i].th) = {}
          ELSE c[i].th = c[i - 1].th
       /\ c[i].is = "try" => c[i - 1].is \in {"pcall", "xpcall", "host"}
       /\ i = 2 => c[i].is = "try"
       /\ c[i - 1].is = "try" => c[i].called
       /\ c[i].is \in C!Callee /\ ~c[i].called =>
            IF c[i].is = "execute" THEN c[i - 1].is = "start"
            ELSE c[i - 1].is = "execute"

(* What a try puts back is what was true of the entries before it.         *)
Saves(c, i, l, base) ==
  /\ c[i].old.ci = FramesIn(c, i - 1, l)
  /\ c[i].old.errfunc = Handler(c, i - 1, l)
  /\ c[i].old.nCcalls >= base + CallsIn(c, i - 1, l)
  /\ ~Handled(c, i - 1, l) => c[i].old.nCcalls = base + CallsIn(c, i - 1, l)

(* Up to each entry, its thread has counted all calls that are nested      *)
(* there, and never past the limits.                                       *)
Good(c, th, i) ==
  LET l    == c[i].th
      base == th[l].baseCcalls
  IN  /\ Shape(c, i)
      /\ Nested(c, i) <= base + CallsIn(c, i, l)
      /\ base + CallsIn(c, i, l) <= MaxCCalls + ExtraCCalls
      /\ ~Handled(c, i, l) /\ base < MaxCCalls =>
           base + CallsIn(c, i, l) < MaxCCalls
      /\ c[i].is = "try" => Saves(c, i, l, base)

(* A thread that is on the C stack, and one that is not.                   *)
Mine(r, l) ==
  /\ r.status = "ok" /\ r.baseCcalls <= MaxCCalls
  /\ l = Main => r.baseCcalls = 0
  /\ l \in Co => ~r.fresh
CountsAt(c, n, r, l) ==
  /\ r.ci = FramesIn(c, n, l)
  /\ r.nCcalls >= r.baseCcalls + CallsIn(c, n, l)
  /\ r.errfunc = Handler(c, n, l)
ExactAt(c, n, r, l) ==
  ~Handled(c, n, l) => r.nCcalls = r.baseCcalls + CallsIn(c, n, l)
Counts(c, r, l) == CountsAt(c, Len(c), r, l)
Exact(c, r, l) == ExactAt(c, Len(c), r, l)
Outside(r) ==
  /\ r.status = "ok" => r.ci = 0
  /\ r.status = "yield" => r.ci >= 2 /\ ~r.errfunc
  /\ r.fresh => r.status = "ok" /\ ~r.errfunc

(* Loose: what luaD_throw() needs, the running thread may count anything.  *)
(* Core: it may count too many C calls, as while an error is raised.       *)
Loose(s) ==
  /\ s \in StateType /\ Len(s.c) >= 1
  /\ \A i \in 1 .. Len(s.c) : Good(s.c, s.th, i)
  /\ Mine(s.th[C!L(s)], C!L(s))
  /\ \A l \in C!Thread \ {C!L(s)} :
       IF Own(s.c, Len(s.c), l) = {} THEN Outside(s.th[l])
       ELSE /\ Mine(s.th[l], l) /\ Counts(s.c, s.th[l], l)
            /\ Exact(s.c, s.th[l], l)
Core(s) ==
  /\ Loose(s) /\ Counts(s.c, s.th[C!L(s)], C!L(s))
  /\ s.raise => Len(s.c) >= 2
ThreadsInv(s) ==
  Core(s) /\ (~s.raise => Exact(s.c, s.th[C!L(s)], C!L(s)))

(* What the operators of LuaThreads make of a state.                       *)
Put(th, l, r) == [th EXCEPT ![l] = r]
Is(t, c, th) == t \in StateType /\ t.c = c /\ t.th = th

LEMMA PutLemma ==
  ASSUME NEW th \in [C!Thread -> ThreadType], NEW l \in C!Thread,
         NEW r \in ThreadType
  PROVE  /\ Put(th, l, r) \in [C!Thread -> ThreadType] /\ Put(th, l, r)[l] = r
         /\ \A j \in C!Thread \ {l} : Put(th, l, r)[j] = th[j]
         /\ \A q : Put(Put(th, l, q), l, r) = Put(th, l, r)
         /\ Put(th, l, th[l]) = th
BY DEF Put

LEMMA StateLemma ==
  ASSUME NEW s \in StateType
  PROVE  /\ Is(s, s.c, s.th)
         /\ C!Top(s) = s.c[Len(s.c)] /\ C!L(s) = s.c[Len(s.c)].th
         /\ C!Now(s) = s.th[C!L(s)]
BY DEF Is, C!Top, C!L, C!Now, C!Last

LEMMA PushForm ==
  ASSUME NEW s \in StateType, NEW e \in EntryType
  PROVE  /\ Is(C!Push(s, e), Append(s.c, e), s.th)
         /\ C!Push(s, e).raise = s.raise
<1> DEFINE v == Append(s.c, e)
<1>1. v \in Seq(EntryType) BY AppendProperties DEF StateType
<1> HIDE DEF v
<1>2. [s EXCEPT !.c = v] \in StateType BY <1>1 DEF StateType
<1>3. /\ [s EXCEPT !.c = v].c = v /\ [s EXCEPT !.c = v].th = s.th
      /\ [s EXCEPT !.c = v].raise = s.raise
  BY DEF StateType
<1> QED BY <1>2, <1>3 DEF v, C!Push, Is

LEMMA UptoForm ==
  ASSUME NEW s \in StateType, NEW k \in 0 .. Len(s.c)
  PROVE  /\ Is(C!Upto(s, k), SubSeq(s.c, 1, k), s.th)
         /\ C!Upto(s, k).raise = s.raise
<1> DEFINE v == SubSeq(s.c, 1, k)
<1>1. v \in Seq(EntryType)
  <2>1. \A i \in 1 .. k : s.c[i] \in EntryType
    BY ElementOfSeq, LenProperties DEF StateType
  <2>2. k \in Int /\ 1 \in Int BY LenProperties DEF StateType
  <2> QED BY <2>1, <2>2, SubSeqProperties
<1> HIDE DEF v
<1>2. [s EXCEPT !.c = v] \in StateType BY <1>1 DEF StateType
<1>3. /\ [s EXCEPT !.c = v].c = v /\ [s EXCEPT !.c = v].th = s.th
      /\ [s EXCEPT !.c = v].raise = s.raise
  BY DEF StateType
<1> QED BY <1>2, <1>3 DEF v, C!Upto, Is

LEMMA SetForm ==
  ASSUME NEW s \in StateType, NEW l \in C!Thread, NEW r \in ThreadType
  PROVE  /\ Is([s EXCEPT !.th[l] = r], s.c, Put(s.th, l, r))
         /\ [s EXCEPT !.th[l] = r].raise = s.raise
         /\ l = C!L(s) => C!Set(s, r) = [s EXCEPT !.th[l] = r]
<1>1. [s EXCEPT !.th[l] = r] \in StateType BY DEF StateType
<1>2. /\ [s EXCEPT !.th[l] = r].c = s.c
      /\ [s EXCEPT !.th[l] = r].th = Put(s.th, l, r)
      /\ [s EXCEPT !.th[l] = r].raise = s.raise
  BY DEF StateType, Put
<1>3. l = C!L(s) => C!Set(s, r) = [s EXCEPT !.th[l] = r] BY DEF C!Set
<1> QED BY <1>1, <1>2, <1>3 DEF Is

LEMMA SetIs ==
  ASSUME NEW s \in StateType, NEW l \in C!Thread, l = C!L(s),
         NEW r \in ThreadType
  PROVE  Is(C!Set(s, r), s.c, Put(s.th, l, r)) /\ C!Set(s, r).raise = s.raise
<1>1. /\ Is([s EXCEPT !.th[l] = r], s.c, Put(s.th, l, r))
      /\ [s EXCEPT !.th[l] = r].raise = s.raise
  BY SetForm
<1>2. C!Set(s, r) = [s EXCEPT !.th[l] = r] BY Zenon DEF C!Set
<1> QED BY <1>1, <1>2

LEMMA RaiseForm ==
  ASSUME NEW s \in StateType
  PROVE  /\ Is(C!Raise(s), s.c, s.th) /\ C!Raise(s).raise
         /\ Is([s EXCEPT !.raise = FALSE], s.c, s.th)
         /\ ~[s EXCEPT !.raise = FALSE].raise
<1>1. /\ [s EXCEPT !.raise = TRUE] \in StateType
      /\ [s EXCEPT !.raise = FALSE] \in StateType
  BY DEF StateType
<1>2. /\ [s EXCEPT !.raise = TRUE].c = s.c
      /\ [s EXCEPT !.raise = TRUE].th = s.th
      /\ [s EXCEPT !.raise = TRUE].raise
      /\ [s EXCEPT !.raise = FALSE].c = s.c
      /\ [s EXCEPT !.raise = FALSE].th = s.th
      /\ ~[s EXCEPT !.raise = FALSE].raise
  BY DEF StateType
<1> QED BY <1>1, <1>2 DEF Is, C!Raise

(* Fields and entries of a state have their types.                         *)
LEMMA TypesLemma ==
  ASSUME NEW s \in StateType, Len(s.c) >= 1
  PROVE  /\ Len(s.c) \in Nat \ {0} /\ s.c \in Seq(EntryType)
         /\ s.th \in [C!Thread -> ThreadType] /\ s.raise \in BOOLEAN
         /\ \A i \in 1 .. Len(s.c) : s.c[i] \in EntryType
         /\ C!L(s) \in C!Thread /\ s.c[Len(s.c)] \in EntryType
         /\ C!L(s) = s.c[Len(s.c)].th
<1>1. s.c \in Seq(EntryType) /\ s.th \in [C!Thread -> ThreadType]
      /\ s.raise \in BOOLEAN
  BY DEF StateType
<1>2. \A i \in 1 .. Len(s.c) : s.c[i] \in EntryType BY <1>1, ElementOfSeq
<1>3. Len(s.c) \in Nat BY <1>1, LenProperties
<1>4. s.c[Len(s.c)] \in EntryType BY <1>2, <1>3
<1>5. C!L(s) = s.c[Len(s.c)].th BY StateLemma
<1> QED BY <1>1, <1>2, <1>3, <1>4, <1>5 DEF EntryType

LEMMA EntryFrames ==
  ASSUME NEW e \in EntryType
  PROVE  /\ C!Frames(e) \in Nat
         /\ Jump(e) \/ e.is = "host" => C!Frames(e) = 0
         /\ e.is \in C!Callee => C!Frames(e) = IF e.is = "execute" THEN e.n
                                              ELSE 1
BY DEF C!Frames, EntryType, Jump, Kind, C!Callee, C!CKinds

-----------------------------------------------------------------------------
(* Stacks that are alike hold alike.                                       *)

Alike(e, g) ==
  /\ e.th = g.th /\ e.is = g.is /\ e.called = g.called
  /\ e.handles = g.handles /\ e.old = g.old
Same(c, d, i) == \A j \in 1 .. i : Alike(c[j], d[j])
SameFrames(c, d, i) == \A j \in 1 .. i : C!Frames(c[j]) = C!Frames(d[j])

LEMMA SameLemma ==
  ASSUME NEW c, NEW d, NEW i \in Nat, Same(c, d, i), NEW l
  PROVE  /\ Own(c, i, l) = Own(d, i, l)
         /\ CallsIn(c, i, l) = CallsIn(d, i, l)
         /\ Nested(c, i) = Nested(d, i)
         /\ Handled(c, i, l) <=> Handled(d, i, l)
         /\ SameFrames(c, d, i) => FramesIn(c, i, l) = FramesIn(d, i, l)
         /\ i = 0 \/ c[1].is # "try" => Handler(c, i, l) = Handler(d, i, l)
<1>1. \A j \in 1 .. i : /\ c[j].th = d[j].th /\ c[j].is = d[j].is
                        /\ c[j].called = d[j].called
                        /\ c[j].handles = d[j].handles
  BY DEF Same, Alike
<1>2. Own(c, i, l) = Own(d, i, l) BY <1>1 DEF Own
<1>3. {j \in 1 .. i : c[j].th = l /\ c[j].called}
      = {j \in 1 .. i : d[j].th = l /\ d[j].called}
  BY <1>1
<1>4. /\ {j \in 1 .. i : c[j].called} = {j \in 1 .. i : d[j].called}
      /\ {j \in 1 .. i : c[j].is = "start"}
         = {j \in 1 .. i : d[j].is = "start"}
  BY <1>1
<1>5. Handled(c, i, l) <=> Handled(d, i, l) BY <1>1 DEF Handled
<1>6. ASSUME SameFrames(c, d, i) PROVE FramesIn(c, i, l) = FramesIn(d, i, l)
  <2>1. \A j \in Own(c, i, l) : C!Frames(c[j]) = C!Frames(d[j])
    BY <1>6 DEF SameFrames, Own
  <2>2. UNION {{j} \X (1 .. C!Frames(c[j])) : j \in Own(c, i, l)}
        = UNION {{j} \X (1 .. C!Frames(d[j])) : j \in Own(d, i, l)}
    BY <1>2, <2>1
  <2> QED BY <2>2 DEF FramesIn
<1>7. Tries(c, i, l) = Tries(d, i, l) BY <1>1 DEF Tries
<1>8. ASSUME i = 0 \/ c[1].is # "try"
      PROVE  Handler(c, i, l) = Handler(d, i, l)
  <2>1. CASE Tries(c, i, l) = {} BY <1>7, <2>1 DEF Handler
  <2>2. CASE Tries(c, i, l) # {}
    <3> DEFINE m == C!Max(Tries(c, i, l))
    <3>1. Tries(c, i, l) \in SUBSET (1 .. i) BY DEF Tries
    <3>2. m \in Tries(c, i, l) BY <2>2, <3>1, MaxLemma
    <3>3. m \in 1 .. i /\ c[m].is = "try" BY <3>2 DEF Tries
    <3> HIDE DEF m
    <3>4. m - 1 \in 1 .. i BY <1>8, <3>3
    <3>5. c[m - 1].is = d[m - 1].is BY <1>1, <3>4
    <3> QED BY <1>7, <2>2, <3>5 DEF Handler, m
  <2> QED BY <2>1, <2>2
<1> QED BY <1>2, <1>3, <1>4, <1>5, <1>6, <1>8
        DEF CallsIn, Nested, AllCalls, Starts

(* An entry is good whatever comes after it.                               *)
LEMMA GoodLemma ==
  ASSUME NEW c, NEW d, NEW th, NEW ur, NEW i \in Nat \ {0},
         Good(c, th, i), Same(c, d, i), SameFrames(c, d, i - 1),
         i = 1 \/ c[1].is = "host", d[i].is = "execute" => d[i].n >= 1,
         th[c[i].th].baseCcalls = ur[c[i].th].baseCcalls
  PROVE  Good(d, ur, i)
<1>1. Alike(c[i], d[i]) BY DEF Same
<1>2. i - 1 \in Nat /\ Same(c, d, i - 1) BY DEF Same
<1>3. i > 1 => Alike(c[i - 1], d[i - 1]) BY DEF Same
<1>4. \A l : /\ CallsIn(c, i, l) = CallsIn(d, i, l)
             /\ Nested(c, i) = Nested(d, i)
             /\ Handled(c, i, l) <=> Handled(d, i, l)
  BY SameLemma
<1>5. \A l : /\ CallsIn(c, i - 1, l) = CallsIn(d, i - 1, l)
             /\ Own(c, i - 1, l) = Own(d, i - 1, l)
             /\ Handled(c, i - 1, l) <=> Handled(d, i - 1, l)
             /\ FramesIn(c, i - 1, l) = FramesIn(d, i - 1, l)
             /\ Handler(c, i - 1, l) = Handler(d, i - 1, l)
  <2>1. i - 1 = 0 \/ c[1].is # "try" OBVIOUS
  <2> QED BY <1>2, <2>1, SameLemma
<1>6. Shape(d, i)
  <2>1. Shape(c, i) BY DEF Good
  <2> QED BY <1>1, <1>3, <1>5, <2>1 DEF Shape, Alike, Jump
<1>7. c[i].is = "try" => Saves(d, i, d[i].th, ur[d[i].th].baseCcalls)
  BY <1>1, <1>5 DEF Good, Saves, Alike
<1> QED BY <1>1, <1>4, <1>6, <1>7 DEF Good, Alike

(* A thread that has no entry after k on either stack.                     *)
LEMMA SkipLemma ==
  ASSUME NEW c, NEW k \in Nat, NEW n \in Nat, k <= n, NEW l,
         \A j \in k + 1 .. n : c[j].th # l
  PROVE  /\ Own(c, k, l) = Own(c, n, l)
         /\ CallsIn(c, k, l) = CallsIn(c, n, l)
         /\ FramesIn(c, k, l) = FramesIn(c, n, l)
         /\ Handled(c, k, l) <=> Handled(c, n, l)
         /\ Handler(c, k, l) = Handler(c, n, l)
<1>1. \A j : j \in 1 .. n /\ c[j].th = l <=> j \in 1 .. k /\ c[j].th = l
  OBVIOUS
<1>2. Own(c, k, l) = Own(c, n, l) BY <1>1 DEF Own
<1>3. {j \in 1 .. k : c[j].th = l /\ c[j].called}
      = {j \in 1 .. n : c[j].th = l /\ c[j].called}
  BY <1>1
<1>4. Handled(c, k, l) <=> Handled(c, n, l) BY <1>1 DEF Handled
<1>5. Tries(c, k, l) = Tries(c, n, l) BY <1>1 DEF Tries
<1> QED BY <1>2, <1>3, <1>4, <1>5 DEF CallsIn, FramesIn, Handler

LEMMA KeepLemma ==
  ASSUME NEW c, NEW d, NEW k \in Nat \ {0}, Len(c) \in Nat, Len(d) \in Nat,
         k <= Len(c), k <= Len(d), Same(c, d, k), SameFrames(c, d, k - 1),
         c[1].is = "host", NEW l,
         c[k].th # l \/ C!Frames(c[k]) = C!Frames(d[k]),
         \A j \in k + 1 .. Len(c) : c[j].th # l,
         \A j \in k + 1 .. Len(d) : d[j].th # l
  PROVE  /\ Own(c, Len(c), l) = Own(d, Len(d), l)
         /\ \A r : Counts(c, r, l) <=> Counts(d, r, l)
         /\ \A r : Exact(c, r, l) <=> Exact(d, r, l)
<1>1. /\ Own(c, k, l) = Own(d, k, l)
      /\ CallsIn(c, k, l) = CallsIn(d, k, l)
      /\ Handled(c, k, l) <=> Handled(d, k, l)
      /\ Handler(c, k, l) = Handler(d, k, l)
  BY SameLemma
<1>2. FramesIn(c, k, l) = FramesIn(d, k, l)
  <2>1. CASE C!Frames(c[k]) = C!Frames(d[k])
    <3>1. SameFrames(c, d, k) BY <2>1 DEF SameFrames
    <3> QED BY <3>1, SameLemma
  <2>2. CASE c[k].th # l
    <3>1. Same(c, d, k - 1) /\ d[k].th # l BY <2>2 DEF Same, Alike
    <3>2. FramesIn(c, k - 1, l) = FramesIn(d, k - 1, l) BY <3>1, SameLemma
    <3>3. FramesIn(c, k - 1, l) = FramesIn(c, k, l)
      <4>1. \A j \in (k - 1) + 1 .. k : c[j].th # l BY <2>2
      <4>2. k - 1 \in Nat /\ k \in Nat /\ k - 1 <= k OBVIOUS
      <4> QED BY ONLY <4>1, <4>2, SkipLemma
    <3>4. FramesIn(d, k - 1, l) = FramesIn(d, k, l)
      <4>1. \A j \in (k - 1) + 1 .. k : d[j].th # l BY <3>1
      <4>2. k - 1 \in Nat /\ k \in Nat /\ k - 1 <= k OBVIOUS
      <4> QED BY ONLY <4>1, <4>2, SkipLemma
    <3> QED BY <3>2, <3>3, <3>4
  <2> QED BY <2>1, <2>2
<1>3. /\ Own(c, k, l) = Own(c, Len(c), l)
      /\ CallsIn(c, k, l) = CallsIn(c, Len(c), l)
      /\ FramesIn(c, k, l) = FramesIn(c, Len(c), l)
      /\ Handled(c, k, l) <=> Handled(c, Len(c), l)
      /\ Handler(c, k, l) = Handler(c, Len(c), l)
  BY ONLY Len(c) \in Nat, k \in Nat \ {0}, k <= Len(c),
          \A j \in k + 1 .. Len(c) : c[j].th # l, SkipLemma
<1>4. /\ Own(d, k, l) = Own(d, Len(d), l)
      /\ CallsIn(d, k, l) = CallsIn(d, Len(d), l)
      /\ FramesIn(d, k, l) = FramesIn(d, Len(d), l)
      /\ Handled(d, k, l) <=> Handled(d, Len(d), l)
      /\ Handler(d, k, l) = Handler(d, Len(d), l)
  BY ONLY Len(d) \in Nat, k \in Nat \ {0}, k <= Len(d),
          \A j \in k + 1 .. Len(d) : d[j].th # l, SkipLemma
<1> QED BY <1>1, <1>2, <1>3, <1>4 DEF Counts, Exact, CountsAt, ExactAt

(* What one thread does at the end of the C stack, from its entry k on,    *)
(* and in its lua_State leaves the others as they are.                     *)
Change(s, d, k, u, r, t) ==
  /\ Loose(s) /\ d \in Seq(EntryType) /\ k \in 1 .. Len(s.c) /\ k <= Len(d)
  /\ Same(s.c, d, k) /\ SameFrames(s.c, d, k - 1)
  /\ u \in C!Thread /\ r \in ThreadType
  /\ Is(t, d, Put(s.th, u, r)) /\ (t.raise => Len(d) >= 2)
  /\ \A j \in k + 1 .. Len(s.c) : s.c[j].th = u
  /\ \A j \in k + 1 .. Len(d) : d[j].th = u
  /\ s.c[k].th = u \/ C!Frames(s.c[k]) = C!Frames(d[k])
  /\ d[k].is = "execute" => d[k].n >= 1
  /\ Own(d, k, u) = {} \/ r.baseCcalls = s.th[u].baseCcalls
  /\ \A i \in k + 1 .. Len(d) : Good(d, t.th, i)
  /\ IF Own(d, Len(d), u) = {} THEN Outside(r) ELSE Mine(r, u)
  /\ C!L(s) # u => /\ Counts(s.c, s.th[C!L(s)], C!L(s))
                   /\ Exact(s.c, s.th[C!L(s)], C!L(s))

LEMMA ChangeLemma ==
  ASSUME NEW s, NEW d, NEW k, NEW u, NEW r, NEW t, Change(s, d, k, u, r, t)
  PROVE  /\ C!L(t) = d[Len(d)].th
         /\ C!L(t) = u => Loose(t)
         /\ C!L(t) = u /\ Counts(d, r, u) => Core(t)
         /\ C!L(t) = u /\ Counts(d, r, u) /\ (t.raise \/ Exact(d, r, u))
              => ThreadsInv(t)
         /\ C!L(t) # u /\ Own(d, Len(d), u) = {} => ThreadsInv(t)
<1> /\ Loose(s) /\ d \in Seq(EntryType) /\ k \in 1 .. Len(s.c) /\ k <= Len(d)
    /\ Same(s.c, d, k) /\ SameFrames(s.c, d, k - 1)
    /\ u \in C!Thread /\ r \in ThreadType
    /\ Is(t, d, Put(s.th, u, r)) /\ (t.raise => Len(d) >= 2)
    /\ \A j \in k + 1 .. Len(s.c) : s.c[j].th = u
    /\ \A j \in k + 1 .. Len(d) : d[j].th = u
    /\ s.c[k].th = u \/ C!Frames(s.c[k]) = C!Frames(d[k])
    /\ d[k].is = "execute" => d[k].n >= 1
    /\ Own(d, k, u) = {} \/ r.baseCcalls = s.th[u].baseCcalls
    /\ \A i \in k + 1 .. Len(d) : Good(d, t.th, i)
    /\ IF Own(d, Len(d), u) = {} THEN Outside(r) ELSE Mine(r, u)
    /\ C!L(s) # u => /\ Counts(s.c, s.th[C!L(s)], C!L(s))
                     /\ Exact(s.c, s.th[C!L(s)], C!L(s))
  BY DEF Change
<1> DEFINE ur == Put(s.th, u, r)
<1>1. /\ t.c = d /\ t.th = ur /\ Len(d) \in Nat
  BY LenProperties DEF Is
<1>2. /\ s \in StateType /\ Len(s.c) >= 1 BY DEF Loose
<1>3. /\ Len(s.c) \in Nat \ {0} /\ s.c \in Seq(EntryType)
      /\ s.th \in [C!Thread -> ThreadType]
      /\ \A i \in 1 .. Len(s.c) : s.c[i] \in EntryType
  BY <1>2, TypesLemma
<1>13. /\ ur \in [C!Thread -> ThreadType] /\ ur[u] = r
       /\ \A j \in C!Thread \ {u} : ur[j] = s.th[j]
  BY <1>3, PutLemma
<1>4. t \in StateType BY DEF Is
<1>5. /\ C!L(t) = d[Len(d)].th /\ C!L(t) \in C!Thread
  BY <1>1, <1>4, TypesLemma
<1>6. s.c[1].is = "host" /\ d[1].is = "host"
  <2>1. Good(s.c, s.th, 1) BY <1>3 DEF Loose
  <2>2. s.c[1].is = "host" BY <2>1 DEF Good, Shape
  <2> QED BY <2>2 DEF Same, Alike
<1>7. ASSUME NEW i \in 1 .. Len(d) PROVE Good(d, ur, i)
  <2>1. CASE i > k BY <1>1, <2>1
  <2>2. CASE i <= k
    <3>1. Good(s.c, s.th, i) BY <1>3, <2>2 DEF Loose
    <3>2. Same(s.c, d, i) /\ SameFrames(s.c, d, i - 1)
      BY <2>2 DEF Same, SameFrames
    <3>3. d[i].is = "execute" => d[i].n >= 1
      <4>1. CASE i = k BY <4>1
      <4>2. CASE i # k
        <5>1. s.c[i].is = d[i].is /\ C!Frames(s.c[i]) = C!Frames(d[i])
          BY <2>2, <4>2 DEF Same, SameFrames, Alike
        <5>2. s.c[i].is = "execute" => s.c[i].n >= 1 BY <3>1 DEF Good, Shape
        <5> QED BY <5>1, <5>2 DEF C!Frames
      <4> QED BY <4>1, <4>2
    <3>4. s.th[s.c[i].th].baseCcalls = ur[s.c[i].th].baseCcalls
      <4>4. i \in 1 .. Len(s.c) BY <1>3, <2>2
      <4>5. s.c[i] \in EntryType BY <1>3, <4>4
      <4>1. s.c[i].th \in C!Thread BY <4>5 DEF EntryType
      <4>2. CASE s.c[i].th # u BY <1>13, <4>1, <4>2
      <4>3. CASE s.c[i].th = u
        <5>1. d[i].th = u BY <2>2, <4>3 DEF Same, Alike
        <5>2. i \in Own(d, k, u) BY <2>2, <5>1 DEF Own
        <5> QED BY <1>13, <4>3, <5>2
      <4> QED BY <4>2, <4>3
    <3>5. i \in Nat \ {0} OBVIOUS
    <3> HIDE DEF ur
    <3> QED BY <1>6, <3>1, <3>2, <3>3, <3>4, <3>5, GoodLemma
  <2> QED BY <2>1, <2>2
<1>8. ASSUME NEW l \in C!Thread \ {u}
      PROVE  /\ ur[l] = s.th[l]
             /\ IF Own(d, Len(d), l) = {} THEN Outside(ur[l])
                ELSE /\ Mine(ur[l], l) /\ Counts(d, ur[l], l)
                     /\ Exact(d, ur[l], l)
  <2>1. ur[l] = s.th[l] BY <1>13
  <2>2. /\ Own(s.c, Len(s.c), l) = Own(d, Len(d), l)
        /\ \A q : Counts(s.c, q, l) <=> Counts(d, q, l)
        /\ \A q : Exact(s.c, q, l) <=> Exact(d, q, l)
    <3>1. s.c[k].th # l \/ C!Frames(s.c[k]) = C!Frames(d[k]) OBVIOUS
    <3>2. /\ \A j \in k + 1 .. Len(s.c) : s.c[j].th # l
          /\ \A j \in k + 1 .. Len(d) : d[j].th # l
      OBVIOUS
    <3>3. k \in Nat \ {0} /\ k <= Len(s.c) BY <1>3
    <3>4. /\ Same(s.c, d, k) /\ SameFrames(s.c, d, k - 1) /\ k <= Len(d)
          /\ Len(s.c) \in Nat /\ Len(d) \in Nat
      BY <1>1, <1>3
    <3> HIDE DEF ur
    <3> QED BY ONLY <1>6, <3>1, <3>2, <3>3, <3>4, KeepLemma, Zenon
  <2>3. CASE l # C!L(s) BY <2>1, <2>2, <2>3 DEF Loose
  <2>4. CASE l = C!L(s)
    <3>1. Mine(s.th[l], l) /\ Counts(s.c, s.th[l], l) /\ Exact(s.c, s.th[l], l)
      BY <2>4 DEF Loose
    <3>2. Own(s.c, Len(s.c), l) # {}
      BY <1>2, <1>3, <2>4, TypesLemma DEF Own
    <3> QED BY <2>1, <2>2, <3>1, <3>2
  <2> QED BY <2>3, <2>4
<1>9. ur[u] = r BY <1>13
<1>10. Own(d, Len(d), C!L(t)) # {} BY <1>1, <1>5 DEF Own
<1> HIDE DEF ur
<1>11. ASSUME C!L(t) = u PROVE Loose(t)
  <2>1. Mine(t.th[C!L(t)], C!L(t)) BY <1>1, <1>9, <1>10, <1>11
  <2>2. Len(t.c) >= 1 BY <1>1
  <2>3. \A i \in 1 .. Len(t.c) : Good(t.c, t.th, i) BY <1>1, <1>7
  <2>4. \A l \in C!Thread \ {C!L(t)} :
          IF Own(t.c, Len(t.c), l) = {} THEN Outside(t.th[l])
          ELSE /\ Mine(t.th[l], l) /\ Counts(t.c, t.th[l], l)
               /\ Exact(t.c, t.th[l], l)
    BY <1>1, <1>8, <1>11
  <2> QED BY ONLY <1>4, <2>1, <2>2, <2>3, <2>4 DEF Loose
<1>12. ASSUME C!L(t) # u, Own(d, Len(d), u) = {} PROVE ThreadsInv(t)
  <2>1. /\ Mine(t.th[C!L(t)], C!L(t)) /\ Counts(d, t.th[C!L(t)], C!L(t))
        /\ Exact(d, t.th[C!L(t)], C!L(t))
    BY <1>1, <1>5, <1>8, <1>10, <1>12
  <2>2. ASSUME NEW l \in C!Thread \ {C!L(t)}
        PROVE  IF Own(d, Len(d), l) = {} THEN Outside(ur[l])
               ELSE /\ Mine(ur[l], l) /\ Counts(d, ur[l], l)
                    /\ Exact(d, ur[l], l)
    <3>1. CASE l = u BY <1>9, <1>12, <3>1
    <3>2. CASE l # u BY <1>8, <3>2
    <3> QED BY <3>1, <3>2
  <2>4. Len(t.c) >= 1 BY <1>1
  <2>5. \A i \in 1 .. Len(t.c) : Good(t.c, t.th, i) BY <1>1, <1>7
  <2>6. \A l \in C!Thread \ {C!L(t)} :
          IF Own(t.c, Len(t.c), l) = {} THEN Outside(t.th[l])
          ELSE /\ Mine(t.th[l], l) /\ Counts(t.c, t.th[l], l)
               /\ Exact(t.c, t.th[l], l)
    BY <1>1, <2>2
  <2>3. Loose(t) BY ONLY <1>4, <2>1, <2>4, <2>5, <2>6 DEF Loose
  <2> QED BY <1>1, <2>1, <2>3 DEF Core, ThreadsInv
<1> QED BY <1>1, <1>5, <1>9, <1>11, <1>12 DEF Core, ThreadsInv

-----------------------------------------------------------------------------
(* Errors.                                                                 *)

LEMMA LimitsLemma ==
  /\ MaxCCalls \in Nat /\ ExtraCCalls \in Nat /\ BasicCI \in Nat
  /\ MaxCalls \in Nat /\ MaxCCalls > 0 /\ Main \notin Co
BY PartsAssumption DEF C!ThreadsAssumption

LEMMA PrefixLemma ==
  ASSUME NEW c \in Seq(EntryType), NEW k \in 0 .. Len(c),
         NEW d, d = SubSeq(c, 1, k)
  PROVE  /\ d \in Seq(EntryType) /\ Len(d) = k
         /\ \A j \in 1 .. k : d[j] = c[j]
         /\ \A i \in 0 .. k : Same(c, d, i) /\ SameFrames(c, d, i)
<1>1. Len(c) \in Nat BY LenProperties
<1>2. \A i \in 1 .. k : c[i] \in EntryType BY <1>1, ElementOfSeq
<1>3. k \in Int /\ k \in Nat BY <1>1
<1>4. /\ SubSeq(c, 1, k) \in Seq(EntryType)
      /\ Len(SubSeq(c, 1, k)) = IF 1 <= k THEN k - 1 + 1 ELSE 0
      /\ \A i \in 1 .. k - 1 + 1 : SubSeq(c, 1, k)[i] = c[1 + i - 1]
  BY <1>2, <1>3, SubSeqProperties
<1>5. /\ d \in Seq(EntryType) /\ Len(d) = k
      /\ \A j \in 1 .. k : d[j] = c[j]
  BY <1>3, <1>4
<1> QED BY <1>3, <1>5 DEF Same, SameFrames, Alike

(* The last try or start is of the running thread, and all after it.       *)
LEMMA TopRun ==
  ASSUME NEW s, Loose(s), Len(s.c) >= 2
  PROVE  \E m \in 2 .. Len(s.c) :
           /\ Jump(s.c[m]) /\ \A j \in m + 1 .. Len(s.c) : ~Jump(s.c[j])
           /\ \A j \in m .. Len(s.c) : s.c[j].th = C!L(s)
<1> PICK n : n = Len(s.c) OBVIOUS
<1>1. s \in StateType /\ n \in Nat \ {0} /\ C!L(s) = s.c[n].th
  BY TypesLemma DEF Loose
<1>2. \A i \in 1 .. n : Shape(s.c, i) BY <1>1 DEF Loose, Good
<1> DEFINE J == {j \in 2 .. n : Jump(s.c[j])}
           m == C!Max(J)
<1>3. m \in J /\ \A k \in J : k <= m
  <2>1. J \in SUBSET (1 .. n) OBVIOUS
  <2>2. 2 \in J BY <1>1, <1>2 DEF Shape, Jump
  <2> HIDE DEF J
  <2> QED BY <1>1, <2>1, <2>2, MaxLemma
<1> HIDE DEF m
<1>4. /\ m \in 2 .. n /\ Jump(s.c[m])
      /\ \A j \in m + 1 .. n : ~Jump(s.c[j])
  BY <1>1, <1>3
<1>5. ASSUME NEW i \in m .. n, s.c[i].th # s.c[n].th PROVE FALSE
  <2> DEFINE A == {n - k : k \in {k \in m .. n : s.c[k].th # s.c[n].th}}
  <2>1. A \subseteq Nat /\ A # {}
    <3>1. A \subseteq Nat BY <1>1, <1>4
    <3>2. n - i \in A BY <1>5
    <3> QED BY <3>1, <3>2
  <2>2. PICK a \in A : \A b \in A : a <= b
    <3> HIDE DEF A
    <3> QED BY <2>1, SmallestLemma
  <2>3. PICK k \in m .. n : a = n - k /\ s.c[k].th # s.c[n].th OBVIOUS
  <2>4. k + 1 \in m + 1 .. n BY <1>1, <1>4, <2>3
  <2>5. s.c[k + 1].th = s.c[k].th
    <3>1. ~Jump(s.c[k + 1]) BY <1>4, <2>4
    <3>2. Shape(s.c, k + 1) /\ k + 1 > 1 /\ k + 1 - 1 = k
      BY <1>1, <1>2, <1>4, <2>4
    <3> QED BY <3>1, <3>2 DEF Shape, Jump
  <2>6. n - (k + 1) \in A BY <1>4, <2>3, <2>4, <2>5
  <2>7. n - k <= n - (k + 1) BY <2>2, <2>3, <2>6
  <2> QED BY <1>1, <1>4, <2>7
<1> QED BY <1>1, <1>4, <1>5

LEMMA RestoredLemma ==
  ASSUME NEW r \in ThreadType, NEW old \in OldType
  PROVE  /\ C!Restored(r, old) \in ThreadType
         /\ C!Restored(r, old).ci = old.ci
         /\ C!Restored(r, old).nCcalls = old.nCcalls
         /\ C!Restored(r, old).errfunc = old.errfunc
         /\ C!Restored(r, old).baseCcalls = r.baseCcalls
         /\ C!Restored(r, old).status = r.status
         /\ C!Restored(r, old).fresh = r.fresh
<1> DEFINE q == [r EXCEPT !.ci = old.ci, !.nCcalls = old.nCcalls,
                   !.errfunc = old.errfunc]
           w == [q EXCEPT !.size = MaxCalls]
<1>1. /\ q \in ThreadType /\ q.ci = old.ci /\ q.nCcalls = old.nCcalls
      /\ q.errfunc = old.errfunc /\ q.baseCcalls = r.baseCcalls
      /\ q.status = r.status /\ q.fresh = r.fresh
  BY DEF ThreadType, OldType
<1> HIDE DEF q
<1>2. /\ w \in ThreadType /\ w.ci = q.ci /\ w.nCcalls = q.nCcalls
      /\ w.errfunc = q.errfunc /\ w.baseCcalls = q.baseCcalls
      /\ w.status = q.status /\ w.fresh = q.fresh
  BY <1>1, LimitsLemma DEF ThreadType
<1>3. C!Restored(r, old) = w \/ C!Restored(r, old) = q
  BY DEF C!Restored, C!Limited, q
<1> HIDE DEF w
<1> QED BY <1>1, <1>2, <1>3

(* The last try or start is where luaD_throw() goes. *)
LEMMA JumpLemma ==
  ASSUME NEW s, Loose(s), NEW m \in 2 .. Len(s.c), Jump(s.c[m]),
         \A j \in m + 1 .. Len(s.c) : ~Jump(s.c[j]), s.c[m].th = C!L(s),
         NEW J, J = {i \in DOMAIN s.c : s.c[i].is \in {"try", "start"}
                                        /\ s.c[i].th = C!L(s)}
  PROVE  J # {} /\ C!Max(J) = m
<1> DEFINE n == Len(s.c)
<1>1. n \in Nat /\ DOMAIN s.c = 1 .. n
  BY TypesLemma, LenProperties DEF Loose
<1> HIDE DEF n
<1>2. J \in SUBSET (1 .. n) BY <1>1
<1>3. m \in J BY <1>1 DEF Jump, n
<1>4. ASSUME NEW k \in J PROVE k <= m
  <2>1. k \in 1 .. n /\ Jump(s.c[k]) BY <1>1 DEF Jump
  <2> QED BY <1>1, <2>1 DEF n
<1>5. C!Max(J) \in J /\ m <= C!Max(J) BY <1>1, <1>2, <1>3, MaxLemma
<1> DEFINE q == C!Max(J)
<1> HIDE DEF q
<1>6. q \in J /\ m <= q BY <1>5 DEF q
<1>7. q \in 1 .. n /\ q <= m BY <1>2, <1>4, <1>6
<1>8. q = m BY <1>1, <1>6, <1>7
<1> QED BY <1>3, <1>8 DEF q

LEMMA DiedLemma ==
  ASSUME NEW r \in ThreadType
  PROVE  /\ C!Died(r) \in ThreadType
         /\ C!Died(r).status = "error" /\ C!Died(r).fresh = r.fresh
<1> DEFINE v == r.nCcalls - 1
           q == "error"
           w == [r EXCEPT !.status = q, !.nCcalls = v]
<1>1. C!Died(r) = w BY Zenon DEF C!Died
<1>2. v \in Int /\ q \in {"ok", "yield", "error"} BY DEF ThreadType
<1> HIDE DEF v, q
<1>3. w \in ThreadType /\ w.status = q /\ w.fresh = r.fresh
  BY <1>2 DEF ThreadType
<1> HIDE DEF w
<1> QED BY <1>1, <1>3, Zenon DEF q

LEMMA ThrowForm ==
  ASSUME NEW s, Loose(s), NEW m \in 2 .. Len(s.c), Jump(s.c[m]),
         \A j \in m + 1 .. Len(s.c) : ~Jump(s.c[j]), s.c[m].th = C!L(s),
         NEW r, r = IF s.c[m].is = "try"
                    THEN C!Restored(s.th[C!L(s)], s.c[m].old)
                    ELSE C!Died(s.th[C!L(s)])
  PROVE  /\ r \in ThreadType
         /\ Is(C!Throw(s), SubSeq(s.c, 1, m - 1), Put(s.th, C!L(s), r))
         /\ C!Throw(s).raise => s.c[m].is # "try" /\ s.c[m - 1].is = "wrap"
<1> DEFINE l == C!L(s)
           J == {i \in DOMAIN s.c : s.c[i].is \in {"try", "start"}
                                     /\ s.c[i].th = l}
           cut == [C!Upto(s, m - 1) EXCEPT !.raise = FALSE]
           d == SubSeq(s.c, 1, m - 1)
<1>1. /\ s \in StateType /\ Len(s.c) \in Nat \ {0} /\ l \in C!Thread
      /\ s.th[l] \in ThreadType /\ s.c[m].old \in OldType
  <2>1. /\ s \in StateType /\ Len(s.c) \in Nat \ {0}
        /\ s.th \in [C!Thread -> ThreadType] /\ l \in C!Thread
        /\ \A i \in 1 .. Len(s.c) : s.c[i] \in EntryType
    BY TypesLemma DEF Loose
  <2>2. s.c[m] \in EntryType BY <2>1
  <2>3. s.c[m].old \in OldType BY <2>2 DEF EntryType
  <2> QED BY <2>1, <2>3
<1>2. J # {} /\ C!Max(J) = m BY JumpLemma
<1>3. r \in ThreadType BY <1>1, RestoredLemma, DiedLemma
<1>4. Is(cut, d, s.th) /\ ~cut.raise
  <2>1. m - 1 \in 0 .. Len(s.c) BY <1>1
  <2>2. Is(C!Upto(s, m - 1), d, s.th) BY <1>1, <2>1, UptoForm
  <2> QED BY <2>2, RaiseForm DEF Is
<1> HIDE DEF cut, J, d, l
<1>5. cut.th[l] = s.th[l] /\ cut \in StateType BY <1>4 DEF Is
<1>6. C!Throw(s) =
        IF s.c[m].is = "try"
        THEN [cut EXCEPT !.th[l] = C!Restored(@, s.c[m].old)]
        ELSE [cut EXCEPT !.th[l] = C!Died(@),
                         !.raise = s.c[m - 1].is = "wrap"]
  BY ONLY <1>2, Zenon DEF C!Throw, J, cut, l
<1>7. CASE s.c[m].is = "try"
  <2>1. C!Throw(s) = [cut EXCEPT !.th[l] = r]
    BY ONLY <1>5, <1>6, <1>7, Zenon,
            r = IF s.c[m].is = "try" THEN C!Restored(s.th[C!L(s)], s.c[m].old)
                ELSE C!Died(s.th[C!L(s)])
        DEF l
  <2>2. Is([cut EXCEPT !.th[l] = r], d, Put(s.th, l, r))
        /\ [cut EXCEPT !.th[l] = r].raise = cut.raise
    <3>1. Is([cut EXCEPT !.th[l] = r], cut.c, Put(cut.th, l, r))
          /\ [cut EXCEPT !.th[l] = r].raise = cut.raise
      BY ONLY <1>1, <1>3, <1>5, SetForm
    <3> QED BY <1>4, <3>1 DEF Is
  <2> QED BY <1>3, <1>4, <2>1, <2>2 DEF d, l
<1>8. CASE s.c[m].is # "try"
  <2> DEFINE z == s.c[m - 1].is = "wrap"
             w == [cut EXCEPT !.th[l] = C!Died(@), !.raise = z]
  <2>1. C!Throw(s) = w BY ONLY <1>6, <1>8, Zenon
  <2>2. r = C!Died(cut.th[l]) BY <1>5, <1>8 DEF l
  <2>3. w \in StateType /\ w.c = cut.c /\ w.th = Put(cut.th, l, r)
        /\ (w.raise <=> z)
    BY ONLY <1>1, <1>3, <1>5, <2>2 DEF StateType, Put
  <2> HIDE DEF w
  <2> QED BY <1>3, <1>4, <1>8, <2>1, <2>3 DEF Is, d, l
<1> QED BY <1>7, <1>8

LEMMA LooseLemma ==
  ASSUME NEW s, Loose(s)
  PROVE  /\ s \in StateType /\ Len(s.c) \in Nat \ {0}
         /\ s.c \in Seq(EntryType) /\ s.th \in [C!Thread -> ThreadType]
         /\ s.raise \in BOOLEAN /\ C!L(s) = s.c[Len(s.c)].th
         /\ C!Now(s) = s.th[C!L(s)] /\ C!Top(s) = s.c[Len(s.c)]
         /\ C!L(s) \in C!Thread /\ s.th[C!L(s)] \in ThreadType
         /\ Mine(s.th[C!L(s)], C!L(s)) /\ s.c[1].is = "host"
         /\ Len(s.c) \in 1 .. Len(s.c)
         /\ \A i \in 1 .. Len(s.c) :
              /\ Good(s.c, s.th, i) /\ Shape(s.c, i)
              /\ s.c[i] \in EntryType /\ s.c[i].th \in C!Thread
<1>1. s \in StateType /\ Len(s.c) >= 1 BY DEF Loose
<1>2. /\ Len(s.c) \in Nat \ {0} /\ s.c \in Seq(EntryType)
      /\ s.th \in [C!Thread -> ThreadType] /\ s.raise \in BOOLEAN
      /\ \A i \in 1 .. Len(s.c) : s.c[i] \in EntryType
      /\ C!L(s) \in C!Thread /\ C!L(s) = s.c[Len(s.c)].th
  BY <1>1, TypesLemma
<1>3. C!Now(s) = s.th[C!L(s)] /\ C!Top(s) = s.c[Len(s.c)]
  BY <1>1, StateLemma
<1>4. \A i \in 1 .. Len(s.c) : Good(s.c, s.th, i) /\ Shape(s.c, i)
  BY DEF Loose, Good
<1>5. Shape(s.c, 1) BY <1>2, <1>4
<1>6. s.c[1].is = "host" BY <1>5 DEF Shape
<1>7. Mine(s.th[C!L(s)], C!L(s)) BY DEF Loose
<1>8. \A i \in 1 .. Len(s.c) : s.c[i].th \in C!Thread BY <1>2 DEF EntryType
<1>9. s.th[C!L(s)] \in ThreadType BY <1>2
<1> QED BY ONLY <1>1, <1>2, <1>3, <1>4, <1>6, <1>7, <1>8, <1>9

(* The C stack is cut after entry k, all that goes being of one thread.    *)
LEMMA CutLemma ==
  ASSUME NEW s, Loose(s), NEW k \in 1 .. Len(s.c),
         NEW l, l = C!L(s), NEW r \in ThreadType,
         NEW t, Is(t, SubSeq(s.c, 1, k), Put(s.th, l, r)), t.raise => k >= 2,
         \A j \in k + 1 .. Len(s.c) : s.c[j].th = l,
         IF s.c[k].th = l
         THEN Mine(r, l) /\ r.baseCcalls = s.th[l].baseCcalls
         ELSE Own(s.c, k, l) = {} /\ Outside(r)
  PROVE  /\ Len(t.c) = k /\ C!L(t) = s.c[k].th
         /\ s.c[k].th = l => Loose(t)
         /\ s.c[k].th = l /\ CountsAt(s.c, k, r, l) => Core(t)
         /\ s.c[k].th = l /\ CountsAt(s.c, k, r, l)
              /\ (t.raise \/ ExactAt(s.c, k, r, l)) => ThreadsInv(t)
         /\ s.c[k].th # l => ThreadsInv(t)
<1> DEFINE d == SubSeq(s.c, 1, k)
<1>1. /\ Len(s.c) \in Nat \ {0} /\ s.c \in Seq(EntryType)
      /\ l \in C!Thread /\ s.c[1].is = "host"
      /\ \A i \in 1 .. Len(s.c) : Shape(s.c, i)
  BY LooseLemma
<1>2. k \in 0 .. Len(s.c) /\ k \in Nat \ {0} BY <1>1
<1>3. /\ d \in Seq(EntryType) /\ Len(d) = k
      /\ \A j \in 1 .. k : d[j] = s.c[j]
      /\ \A i \in 0 .. k : Same(s.c, d, i) /\ SameFrames(s.c, d, i)
  BY <1>1, <1>2, PrefixLemma
<1>4. t.c = d /\ Is(t, d, Put(s.th, l, r)) BY DEF Is
<1> HIDE DEF d
<1>5. /\ k \in 0 .. k /\ k - 1 \in 0 .. k /\ k \in 1 .. k /\ k <= Len(d)
      /\ k + 1 .. Len(d) = {}
  BY <1>2, <1>3
<1>6. /\ Same(s.c, d, k) /\ SameFrames(s.c, d, k) /\ SameFrames(s.c, d, k - 1)
      /\ d[k] = s.c[k]
  BY <1>3, <1>5
<1>7. /\ Own(s.c, k, l) = Own(d, k, l)
      /\ CallsIn(s.c, k, l) = CallsIn(d, k, l)
      /\ Handled(s.c, k, l) <=> Handled(d, k, l)
      /\ FramesIn(s.c, k, l) = FramesIn(d, k, l)
      /\ Handler(s.c, k, l) = Handler(d, k, l)
  BY <1>1, <1>2, <1>6, SameLemma
<1>8. /\ Own(s.c, k, l) = Own(d, Len(d), l)
      /\ CountsAt(s.c, k, r, l) <=> Counts(d, r, l)
      /\ ExactAt(s.c, k, r, l) <=> Exact(d, r, l)
  BY <1>3, <1>7 DEF Counts, Exact, CountsAt, ExactAt
<1>9. s.c[k].th = l => Own(d, Len(d), l) # {}
  BY <1>3, <1>5, <1>6 DEF Own
<1>10. IF Own(d, Len(d), l) = {} THEN Outside(r) ELSE Mine(r, l)
  BY <1>8, <1>9
<1>11. Own(d, k, l) = {} \/ r.baseCcalls = s.th[l].baseCcalls
  BY <1>7
<1>12. d[k].is = "execute" => d[k].n >= 1 BY <1>1, <1>6 DEF Shape
<1>13. t.raise => Len(d) >= 2 BY <1>3
<1>14. /\ C!Frames(s.c[k]) = C!Frames(d[k])
       /\ \A j \in k + 1 .. Len(d) : d[j].th = l
       /\ \A i \in k + 1 .. Len(d) : Good(d, t.th, i)
  BY <1>5, <1>6
<1>16. /\ C!L(t) = d[Len(d)].th
       /\ C!L(t) = l => Loose(t)
       /\ C!L(t) = l /\ Counts(d, r, l) => Core(t)
       /\ C!L(t) = l /\ Counts(d, r, l) /\ (t.raise \/ Exact(d, r, l))
            => ThreadsInv(t)
       /\ C!L(t) # l /\ Own(d, Len(d), l) = {} => ThreadsInv(t)
  <2>1. C!L(s) = l /\ s.c[k].th = d[k].th BY <1>6
  <2>2. k \in 1 .. Len(s.c) OBVIOUS
  <2>3. Change(s, d, k, l, r, t)
    BY ONLY Loose(s), r \in ThreadType,
            \A j \in k + 1 .. Len(s.c) : s.c[j].th = l,
            <1>1, <1>3, <1>4, <1>5, <1>6, <1>10, <1>11, <1>12, <1>13,
            <1>14, <2>1, <2>2 DEF Change
  <2> QED BY ONLY <2>3, ChangeLemma
<1>17. C!L(t) = s.c[k].th BY <1>3, <1>6, <1>16
<1> QED BY <1>3, <1>4, <1>8, <1>16, <1>17 DEF d

(* The coroutine that runs leaves the C stack.                             *)
Leaves(s, k, l, r, t) ==
  /\ Loose(s) /\ k \in 1 .. Len(s.c) /\ l = C!L(s) /\ r \in ThreadType
  /\ Is(t, SubSeq(s.c, 1, k), Put(s.th, l, r)) /\ (t.raise => k >= 2)
  /\ \A j \in k + 1 .. Len(s.c) : s.c[j].th = l
  /\ s.c[k].th # l /\ Own(s.c, k, l) = {} /\ Outside(r)

LEMMA LeaveLemma ==
  ASSUME NEW s, NEW k, NEW l, NEW r, NEW t, Leaves(s, k, l, r, t)
  PROVE  ThreadsInv(t)
<1>1. /\ Loose(s) /\ k \in 1 .. Len(s.c) /\ l = C!L(s) /\ r \in ThreadType
      /\ Is(t, SubSeq(s.c, 1, k), Put(s.th, l, r)) /\ (t.raise => k >= 2)
      /\ \A j \in k + 1 .. Len(s.c) : s.c[j].th = l
      /\ s.c[k].th # l /\ Own(s.c, k, l) = {} /\ Outside(r)
  BY DEF Leaves
<1>2. /\ Len(t.c) = k /\ C!L(t) = s.c[k].th
      /\ s.c[k].th # l => ThreadsInv(t)
  BY ONLY <1>1, CutLemma
<1> QED BY <1>1, <1>2

(* luaD_throw() finds a protected call, and all that is known there.       *)
LEMMA ThrowLemma ==
  ASSUME NEW s, Loose(s), Len(s.c) >= 2
  PROVE  ThreadsInv(C!Throw(s)) /\ Len(C!Throw(s).c) < Len(s.c)
<1> PICK m \in 2 .. Len(s.c) :
      /\ Jump(s.c[m]) /\ \A j \in m + 1 .. Len(s.c) : ~Jump(s.c[j])
      /\ \A j \in m .. Len(s.c) : s.c[j].th = C!L(s)
  BY TopRun
<1> DEFINE l == C!L(s)
           k == m - 1
           d == SubSeq(s.c, 1, k)
<1>1. /\ k \in 1 .. Len(s.c) /\ k + 1 = m /\ m \in 1 .. Len(s.c)
      /\ k < Len(s.c) /\ Len(s.c) \in Nat /\ m > 1
  BY LooseLemma
<1>2. \A j \in k + 1 .. Len(s.c) : s.c[j].th = l BY <1>1
<1>3. s.c[m].th = l BY <1>1
<1>4. /\ Good(s.c, s.th, m) /\ Shape(s.c, m) /\ s.c[m] \in EntryType
      /\ Shape(s.c, k) /\ l \in C!Thread
      /\ s.th[l] \in ThreadType /\ Mine(s.th[l], l)
  BY <1>1, LooseLemma
<1> DEFINE r == IF s.c[m].is = "try" THEN C!Restored(s.th[l], s.c[m].old)
                ELSE C!Died(s.th[l])
           t == C!Throw(s)
<1>5. /\ r \in ThreadType /\ Is(t, SubSeq(s.c, 1, k), Put(s.th, l, r))
      /\ t.raise => s.c[m].is # "try" /\ s.c[k].is = "wrap"
  BY <1>1, <1>3, ThrowForm
<1>8. l = C!L(s) OBVIOUS
<1>9. \A j \in k + 1 .. Len(s.c) : s.c[j].th = l BY <1>2
<1>6. CASE s.c[m].is = "try"
  <2>2. /\ r.ci = s.c[m].old.ci
        /\ r.nCcalls = s.c[m].old.nCcalls /\ r.errfunc = s.c[m].old.errfunc
        /\ r.baseCcalls = s.th[l].baseCcalls /\ r.status = s.th[l].status
        /\ r.fresh = s.th[l].fresh
    <3>1. s.c[m].old \in OldType BY <1>4 DEF EntryType
    <3>2. r = C!Restored(s.th[l], s.c[m].old) BY <1>6
    <3> HIDE DEF l, r
    <3> QED BY ONLY <1>4, <3>1, <3>2, RestoredLemma
  <2>3. s.c[k].th = l
    <3>1. s.c[m].th = s.c[m - 1].th BY <1>1, <1>4, <1>6 DEF Shape
    <3> QED BY <1>3, <3>1
  <2>6. ~t.raise BY <1>5, <1>6
  <2> HIDE DEF r, k, l, t
  <2>4. Mine(r, l) BY <1>4, <2>2 DEF Mine
  <2>5. CountsAt(s.c, k, r, l) /\ ExactAt(s.c, k, r, l)
    <3>1. Saves(s.c, m, l, r.baseCcalls) BY <1>3, <1>4, <1>6, <2>2 DEF Good
    <3> QED BY <2>2, <3>1 DEF Saves, CountsAt, ExactAt, k
  <2>7. ThreadsInv(t) /\ Len(t.c) = k
    BY ONLY Loose(s), <1>1, <1>5, <1>8, <1>9, <2>2, <2>3, <2>4, <2>5, <2>6,
            CutLemma
  <2> QED BY <1>1, <2>7 DEF t
<1>7. CASE s.c[m].is # "try"
  <2>2. s.c[m].is = "start" BY <1>7 DEF Jump
  <2>3. /\ l \in Co /\ s.c[k].is \in {"resume", "wrap"}
        /\ Own(s.c, k, l) = {}
    <3> HIDE DEF l
    <3> QED BY ONLY <1>1, <1>3, <1>4, <2>2 DEF Shape, k
  <2>1. r = C!Died(s.th[l]) BY <1>7
  <2> HIDE DEF k, l, t, r
  <2>4. Outside(r)
    <3>1. ~s.th[l].fresh BY <1>4, <2>3 DEF Mine
    <3>2. r.status = "error" /\ r.fresh = s.th[l].fresh
      BY <1>4, <2>1, DiedLemma
    <3> QED BY <3>1, <3>2 DEF Outside
  <2>5. k >= 2
    <3>1. k # 1 BY <1>1, <1>4, <2>3 DEF Shape
    <3> QED BY <1>1, <3>1
  <2>6. s.c[k].th # l BY <1>1, <2>3 DEF Own
  <2>7. ThreadsInv(t) /\ Len(t.c) = k
    BY ONLY Loose(s), <1>1, <1>5, <1>8, <1>9, <2>3, <2>4, <2>5, <2>6,
            CutLemma
  <2> QED BY <1>1, <2>7 DEF t
<1> QED BY <1>6, <1>7

-----------------------------------------------------------------------------
(* Calls.                                                                  *)

(* What one more entry adds to the counts of a thread.                     *)
Adds(c, i, l) ==
  /\ CallsIn(c, i, l) \in Nat /\ FramesIn(c, i, l) \in Nat
  /\ Nested(c, i) \in Nat
  /\ CallsIn(c, i + 1, l) = CallsIn(c, i, l)
       + (IF c[i + 1].th = l /\ c[i + 1].called THEN 1 ELSE 0)
  /\ FramesIn(c, i + 1, l) = FramesIn(c, i, l)
       + (IF c[i + 1].th = l THEN C!Frames(c[i + 1]) ELSE 0)
  /\ Nested(c, i + 1) = Nested(c, i)
       + (IF c[i + 1].called THEN 1 ELSE 0)
       + (IF c[i + 1].is = "start" THEN 1 ELSE 0)
  /\ Handled(c, i + 1, l) <=>
       Handled(c, i, l) \/ (c[i + 1].th = l /\ c[i + 1].handles)
  /\ IF c[i + 1].th = l /\ c[i + 1].is = "try"
     THEN Handler(c, i + 1, l) <=> c[i].is = "xpcall"
     ELSE Handler(c, i + 1, l) <=> Handler(c, i, l)
  /\ Own(c, i + 1, l) = IF c[i + 1].th = l THEN Own(c, i, l) \cup {i + 1}
                        ELSE Own(c, i, l)

LEMMA StepLemma ==
  ASSUME NEW c, NEW i \in Nat, NEW l, \A j \in 1 .. i + 1 : c[j] \in EntryType
  PROVE  Adds(c, i, l)
<1>1. \A j \in 1 .. i + 1 : C!Frames(c[j]) \in Nat BY EntryFrames
<1>2. \A j : j \in 1 .. i + 1 <=> j \in 1 .. i \/ j = i + 1 OBVIOUS
<1>3. Handled(c, i + 1, l) <=>
        Handled(c, i, l) \/ (c[i + 1].th = l /\ c[i + 1].handles)
  BY <1>2 DEF Handled
<1>4. Own(c, i + 1, l) = IF c[i + 1].th = l THEN Own(c, i, l) \cup {i + 1}
                         ELSE Own(c, i, l)
  BY <1>2 DEF Own
<1>5. CASE c[i + 1].th = l /\ c[i + 1].is = "try"
  <2> DEFINE A == Tries(c, i + 1, l)
             q == C!Max(A)
  <2>1. A \in SUBSET (1 .. i + 1) /\ i + 1 \in A BY <1>5 DEF Tries
  <2>2. q \in A /\ i + 1 <= q
    <3> HIDE DEF A
    <3>1. i + 1 \in Nat OBVIOUS
    <3> QED BY ONLY <2>1, <3>1, MaxLemma
  <2> HIDE DEF q
  <2>3. q = i + 1 BY <2>1, <2>2
  <2>4. q - 1 = i BY <2>3
  <2>5. Handler(c, i + 1, l) <=> c[i].is = "xpcall"
    <3>1. A # {} BY <2>1
    <3>2. Handler(c, i + 1, l) <=> A # {} /\ c[q - 1].is = "xpcall"
      BY Zenon DEF Handler, q
    <3> HIDE DEF A
    <3> QED BY ONLY <2>4, <3>1, <3>2
  <2> QED BY <1>1, <1>3, <1>4, <1>5, <2>5, CallsLemma, FramesLemma, NestedLemma
     DEF Adds
<1>6. CASE ~(c[i + 1].th = l /\ c[i + 1].is = "try")
  <2>1. Tries(c, i + 1, l) = Tries(c, i, l) BY <1>2, <1>6 DEF Tries
  <2>2. Handler(c, i + 1, l) <=> Handler(c, i, l) BY <2>1 DEF Handler
  <2> QED BY <1>1, <1>3, <1>4, <1>6, <2>2, CallsLemma, FramesLemma, NestedLemma
     DEF Adds
<1> QED BY <1>5, <1>6

LEMMA NoneLemma ==
  ASSUME NEW c, NEW i \in Nat, NEW l, Own(c, i, l) = {}
  PROVE  /\ CallsIn(c, i, l) = 0 /\ FramesIn(c, i, l) = 0
         /\ ~Handled(c, i, l) /\ ~Handler(c, i, l)
<1>1. \A j \in 1 .. i : c[j].th # l BY DEF Own
<1>2. /\ {j \in 1 .. i : c[j].th = l /\ c[j].called} = {}
      /\ Tries(c, i, l) = {} /\ ~Handled(c, i, l)
  BY <1>1 DEF Tries, Handled
<1>3. Cardinality({}) = 0 BY FS_EmptySet
<1>4. UNION {{j} \X (1 .. C!Frames(c[j])) : j \in Own(c, i, l)} = {} OBVIOUS
<1> QED BY <1>2, <1>3, <1>4 DEF CallsIn, FramesIn, Handler

(* Entry e on top of the C stack c.                                        *)
Pushed(c, e, d, n) ==
  /\ d \in Seq(EntryType) /\ Len(d) = n + 1 /\ n \in Nat
  /\ d[n + 1] = e /\ \A j \in 1 .. n : d[j] = c[j]
  /\ \A j \in 1 .. n + 1 : d[j] \in EntryType
  /\ \A i \in 0 .. n : Same(c, d, i) /\ SameFrames(c, d, i)
  /\ SubSeq(d, 1, n) = c

LEMMA AppendLemma ==
  ASSUME NEW c \in Seq(EntryType), NEW e \in EntryType
  PROVE  Pushed(c, e, Append(c, e), Len(c))
<1> DEFINE d == Append(c, e)
           n == Len(c)
<1>1. n \in Nat BY LenProperties
<1>2. /\ d \in Seq(EntryType) /\ Len(d) = n + 1
      /\ d[n + 1] = e /\ \A j \in 1 .. n : d[j] = c[j]
  BY <1>1, AppendProperties
<1>3. \A j \in 1 .. n + 1 : d[j] \in EntryType BY <1>2, ElementOfSeq
<1>4. SubSeq(d, 1, n) = c
  <2> DEFINE q == SubSeq(d, 1, n)
  <2>1. n \in 0 .. Len(d) BY <1>1, <1>2
  <2>2. q \in Seq(EntryType) /\ Len(q) = n /\ \A j \in 1 .. n : q[j] = d[j]
    <3> HIDE DEF q
    <3>1. q = SubSeq(d, 1, n) BY DEF q
    <3> QED BY ONLY <1>2, <2>1, <3>1, PrefixLemma
  <2>3. \A j \in 1 .. Len(c) : q[j] = c[j] BY <1>2, <2>2
  <2> HIDE DEF q
  <2>4. q = c BY ONLY c \in Seq(EntryType), n = Len(c), <2>2, <2>3, SeqEqual
  <2> QED BY <2>4 DEF q
<1> QED BY <1>1, <1>2, <1>3, <1>4 DEF Same, SameFrames, Alike, Pushed

(* Only the lua_State of the running thread changes. *)
LEMMA TouchLemma ==
  ASSUME NEW s, Loose(s), NEW l, l = C!L(s), NEW r \in ThreadType,
         Mine(r, l), r.baseCcalls = s.th[l].baseCcalls,
         NEW t, Is(t, s.c, Put(s.th, l, r)), t.raise => Len(s.c) >= 2
  PROVE  /\ C!L(t) = l /\ Loose(t)
         /\ Counts(s.c, r, l) => Core(t)
         /\ Counts(s.c, r, l) /\ (t.raise \/ Exact(s.c, r, l)) => ThreadsInv(t)
<1> DEFINE k == Len(s.c)
           d == s.c
<1>1. /\ k \in Nat \ {0} /\ d \in Seq(EntryType) /\ l \in C!Thread
      /\ s.c[k].th = l /\ k \in 1 .. Len(s.c) /\ k <= Len(d)
  BY LooseLemma
<1>2. Same(s.c, d, k) /\ SameFrames(s.c, d, k - 1)
  BY DEF Same, SameFrames, Alike
<1>3. k + 1 .. Len(s.c) = {} BY <1>1
<1>4. /\ \A j \in k + 1 .. Len(s.c) : s.c[j].th = l
      /\ \A j \in k + 1 .. Len(d) : d[j].th = l
      /\ \A i \in k + 1 .. Len(d) : Good(d, t.th, i)
  BY <1>3
<1>5. d[k].is = "execute" => d[k].n >= 1
  <2>1. Shape(s.c, k) BY <1>1, LooseLemma
  <2> QED BY <2>1 DEF Shape
<1>6. IF Own(d, Len(d), l) = {} THEN Outside(r) ELSE Mine(r, l)
  BY <1>1 DEF Own
<1>7. s.c[k].th = l \/ C!Frames(s.c[k]) = C!Frames(d[k]) OBVIOUS
<1>8. Own(d, k, l) = {} \/ r.baseCcalls = s.th[l].baseCcalls OBVIOUS
<1>9. C!L(s) # l => /\ Counts(s.c, s.th[C!L(s)], C!L(s))
                    /\ Exact(s.c, s.th[C!L(s)], C!L(s))
  OBVIOUS
<1>11. Is(t, d, Put(s.th, l, r)) /\ (t.raise => Len(d) >= 2) OBVIOUS
<1> HIDE DEF k, d
<1>10. /\ C!L(t) = d[Len(d)].th
       /\ C!L(t) = l => Loose(t)
       /\ C!L(t) = l /\ Counts(d, r, l) => Core(t)
       /\ C!L(t) = l /\ Counts(d, r, l) /\ (t.raise \/ Exact(d, r, l))
            => ThreadsInv(t)
  <2>1. Change(s, d, k, l, r, t)
    BY ONLY Loose(s), r \in ThreadType, <1>1, <1>2, <1>4, <1>5, <1>6, <1>7,
            <1>8, <1>9, <1>11 DEF Change
  <2> QED BY ONLY <2>1, ChangeLemma
<1> QED BY <1>1, <1>10 DEF k, d

(* Entry e may follow entry f, the n-th, on the same thread.               *)
Fits(f, e, n) ==
  /\ e.is \notin {"host", "start"} /\ e.th = f.th
  /\ e.is = "try" => ~e.called /\ ~e.handles /\ f.is \in {"pcall", "xpcall", "host"}
  /\ e.handles => e.called
  /\ e.is = "execute" => e.n >= 1
  /\ n = 1 => e.is = "try"
  /\ f.is = "try" => e.called
  /\ e.is \in C!Callee /\ ~e.called =>
       IF e.is = "execute" THEN f.is = "start" ELSE f.is = "execute"

(* What the lua_State must count when e is entered.                        *)
Room(c, n, e, r, l) ==
  LET calls == r.baseCcalls + CallsIn(c, n, l) + (IF e.called THEN 1 ELSE 0)
  IN  /\ r.ci = FramesIn(c, n, l) + C!Frames(e)
      /\ r.nCcalls >= calls /\ calls <= MaxCCalls + ExtraCCalls
      /\ ~Handled(c, n, l) /\ ~e.handles =>
           r.nCcalls = calls /\ (r.baseCcalls < MaxCCalls => calls < MaxCCalls)
      /\ r.errfunc <=> IF e.is = "try" THEN c[n].is = "xpcall"
                       ELSE Handler(c, n, l)
      /\ e.is = "try" => Saves(Append(c, e), n + 1, l, r.baseCcalls)

LEMMA PushLemma ==
  ASSUME NEW s, Loose(s), NEW l, l = C!L(s), NEW n, n = Len(s.c),
         NEW e \in EntryType, Fits(s.c[n], e, n), NEW r \in ThreadType,
         Mine(r, l), r.baseCcalls = s.th[l].baseCcalls, Room(s.c, n, e, r, l),
         NEW t, Is(t, Append(s.c, e), Put(s.th, l, r))
  PROVE  ThreadsInv(t) /\ C!L(t) = l
<1> DEFINE d == Append(s.c, e)
<1>1. /\ n \in Nat \ {0} /\ s.c \in Seq(EntryType) /\ l \in C!Thread
      /\ s.c[n].th = l /\ n \in 1 .. Len(s.c) /\ s.c[1].is = "host"
      /\ Good(s.c, s.th, n) /\ Shape(s.c, n) /\ s.th \in [C!Thread -> ThreadType]
  BY LooseLemma
<1>19. d = Append(s.c, e) OBVIOUS
<1> HIDE DEF d
<1>2. /\ d \in Seq(EntryType) /\ Len(d) = n + 1 /\ n \in Nat
      /\ d[n + 1] = e /\ \A j \in 1 .. n : d[j] = s.c[j]
      /\ \A j \in 1 .. n + 1 : d[j] \in EntryType
      /\ \A i \in 0 .. n : Same(s.c, d, i) /\ SameFrames(s.c, d, i)
  <2>1. Pushed(s.c, e, d, n)
    BY ONLY <1>1, <1>19, e \in EntryType, n = Len(s.c), AppendLemma
  <2> QED BY ONLY <2>1 DEF Pushed
<1>3. Is(t, d, Put(s.th, l, r)) BY <1>19
<1>20. e.is = "try" => Saves(d, n + 1, l, r.baseCcalls) BY <1>19 DEF Room
<1>4. /\ n \in 0 .. n /\ n - 1 \in 0 .. n /\ n <= Len(d) BY <1>1, <1>2
<1>5. /\ Same(s.c, d, n) /\ SameFrames(s.c, d, n) /\ SameFrames(s.c, d, n - 1)
      /\ d[n] = s.c[n]
  BY <1>1, <1>2, <1>4
<1>6. /\ Own(s.c, n, l) = Own(d, n, l)
      /\ CallsIn(s.c, n, l) = CallsIn(d, n, l)
      /\ Nested(s.c, n) = Nested(d, n)
      /\ Handled(s.c, n, l) <=> Handled(d, n, l)
      /\ FramesIn(s.c, n, l) = FramesIn(d, n, l)
      /\ Handler(s.c, n, l) = Handler(d, n, l)
  BY <1>1, <1>5, SameLemma
<1>7. e.th = l /\ e.is # "start" /\ e.is # "host" BY <1>1 DEF Fits
<1>8. /\ CallsIn(d, n, l) \in Nat /\ FramesIn(d, n, l) \in Nat
      /\ Nested(d, n) \in Nat
      /\ CallsIn(d, n + 1, l) = CallsIn(d, n, l) + (IF e.called THEN 1 ELSE 0)
      /\ FramesIn(d, n + 1, l) = FramesIn(d, n, l) + C!Frames(e)
      /\ Nested(d, n + 1) = Nested(d, n) + (IF e.called THEN 1 ELSE 0)
      /\ Handled(d, n + 1, l) <=> Handled(d, n, l) \/ e.handles
      /\ IF e.is = "try" THEN Handler(d, n + 1, l) <=> d[n].is = "xpcall"
         ELSE Handler(d, n + 1, l) <=> Handler(d, n, l)
      /\ Own(d, n + 1, l) # {}
  <2>1. e.th = l /\ e.is # "start" /\ C!Frames(e) \in Nat BY <1>7, EntryFrames
  <2>2. d[n + 1] = e /\ n \in Nat /\ \A j \in 1 .. n + 1 : d[j] \in EntryType
    BY <1>2
  <2>3. Adds(d, n, l) BY ONLY <2>2, StepLemma
  <2>4. n + 1 \in Own(d, n, l) \cup {n + 1} OBVIOUS
  <2> QED BY ONLY <2>1, <2>2, <2>3, <2>4 DEF Adds
<1>9. /\ Counts(d, r, l) /\ Exact(d, r, l)
  <2>2. r.errfunc = Handler(d, n + 1, l)
    <3>1. r.errfunc \in BOOLEAN BY DEF ThreadType
    <3>2. Handler(d, n + 1, l) \in BOOLEAN BY DEF Handler
    <3>3. r.errfunc <=> Handler(d, n + 1, l)
      BY ONLY <1>5, <1>6, <1>8, Room(s.c, n, e, r, l) DEF Room
    <3> QED BY ONLY <3>1, <3>2, <3>3
  <2>1. r.baseCcalls \in Int /\ r.nCcalls \in Int BY DEF ThreadType
  <2>3. /\ r.ci = FramesIn(s.c, n, l) + C!Frames(e)
        /\ r.nCcalls >= r.baseCcalls + CallsIn(s.c, n, l)
                          + (IF e.called THEN 1 ELSE 0)
        /\ ~Handled(s.c, n, l) /\ ~e.handles =>
             r.nCcalls = r.baseCcalls + CallsIn(s.c, n, l)
                           + (IF e.called THEN 1 ELSE 0)
    BY ONLY Room(s.c, n, e, r, l) DEF Room
  <2>4. r.ci = FramesIn(d, n + 1, l) BY ONLY <1>6, <1>8, <2>3
  <2>5. r.nCcalls >= r.baseCcalls + CallsIn(d, n + 1, l)
    BY ONLY <1>6, <1>8, <2>1, <2>3
  <2>6. ~Handled(d, n + 1, l) => r.nCcalls = r.baseCcalls + CallsIn(d, n + 1, l)
    BY ONLY <1>6, <1>8, <2>1, <2>3
  <2>7. Len(d) = n + 1 BY <1>2
  <2> QED BY ONLY <2>2, <2>4, <2>5, <2>6, <2>7
          DEF Counts, Exact, CountsAt, ExactAt
<1>10. Shape(d, n + 1)
  <2>1. n + 1 - 1 = n /\ n + 1 > 1 /\ n + 1 # 1 BY <1>1
  <2>2. n + 1 = 2 => n = 1 BY ONLY <1>2
  <2> QED BY ONLY <1>1, <1>2, <1>5, <1>7, <2>1, <2>2, Fits(s.c[n], e, n)
          DEF Fits, Shape, Jump
<1>11. t.th[l].baseCcalls = r.baseCcalls BY <1>1, <1>3, PutLemma DEF Is
<1>12. Good(d, t.th, n + 1)
  <2>5. r.baseCcalls \in Int BY DEF ThreadType
  <2>1. Nested(d, n + 1) <= r.baseCcalls + CallsIn(d, n + 1, l)
    <3>1. Nested(s.c, n) <= r.baseCcalls + CallsIn(s.c, n, l)
      BY <1>1 DEF Good
    <3> QED BY ONLY <1>6, <1>8, <2>5, <3>1
  <2>2. r.baseCcalls + CallsIn(d, n + 1, l) <= MaxCCalls + ExtraCCalls
    BY ONLY <1>6, <1>8, <2>5, LimitsLemma, Room(s.c, n, e, r, l) DEF Room
  <2>3. ~Handled(d, n + 1, l) /\ r.baseCcalls < MaxCCalls =>
          r.baseCcalls + CallsIn(d, n + 1, l) < MaxCCalls
    BY ONLY <1>6, <1>8, <2>5, LimitsLemma, Room(s.c, n, e, r, l) DEF Room
  <2>4. d[n + 1].th = l /\ d[n + 1].is = e.is BY <1>2, <1>7
  <2> QED BY ONLY <1>10, <1>11, <1>20, <2>1, <2>2, <2>3, <2>4 DEF Good
<1>13. \A i \in n + 1 .. Len(d) : Good(d, t.th, i)
  <2>1. \A i \in n + 1 .. n + 1 : i = n + 1 BY <1>1
  <2> QED BY ONLY <1>2, <1>12, <2>1
<1>14. /\ \A j \in n + 1 .. Len(s.c) : s.c[j].th = l
       /\ \A j \in n + 1 .. Len(d) : d[j].th = l
  <2>1. \A i \in n + 1 .. n + 1 : i = n + 1 BY <1>1
  <2>2. n + 1 .. Len(s.c) = {} BY <1>1
  <2> QED BY ONLY <1>2, <1>7, <2>1, <2>2
<1>15. t.raise => Len(d) >= 2 BY <1>1, <1>2
<1>16. /\ s.c[n].th = l \/ C!Frames(s.c[n]) = C!Frames(d[n])
       /\ Own(d, n, l) = {} \/ r.baseCcalls = s.th[l].baseCcalls
       /\ d[n].is = "execute" => d[n].n >= 1
       /\ IF Own(d, Len(d), l) = {} THEN Outside(r) ELSE Mine(r, l)
  BY <1>1, <1>2, <1>5, <1>8 DEF Shape
<1>17. C!L(s) # l => /\ Counts(s.c, s.th[C!L(s)], C!L(s))
                     /\ Exact(s.c, s.th[C!L(s)], C!L(s))
  OBVIOUS
<1>18. /\ C!L(t) = d[Len(d)].th
       /\ C!L(t) = l /\ Counts(d, r, l) /\ (t.raise \/ Exact(d, r, l))
            => ThreadsInv(t)
  <2>1. Change(s, d, n, l, r, t)
    BY ONLY Loose(s), r \in ThreadType, <1>1, <1>2, <1>3, <1>4, <1>5, <1>13,
            <1>14, <1>15, <1>16, <1>17 DEF Change
  <2> QED BY ONLY <2>1, ChangeLemma
<1> QED BY <1>2, <1>7, <1>9, <1>18

(* The count n of the top entry is set.                                    *)
Bump(c, i, v) == [c EXCEPT ![i].n = v]
Bumped(c, d, i, v) ==
  /\ d \in Seq(EntryType) /\ Len(d) = i /\ d[i].n = v /\ Alike(c[i], d[i])
  /\ \A j \in 1 .. i - 1 : d[j] = c[j]
  /\ Same(c, d, i) /\ SameFrames(c, d, i - 1)

LEMMA BumpLemma ==
  ASSUME NEW c \in Seq(EntryType), NEW i \in Nat \ {0}, i = Len(c), NEW v \in Nat
  PROVE  Bumped(c, Bump(c, i, v), i, v)
<1> DEFINE e == [c[i] EXCEPT !.n = v]
           d == Bump(c, i, v)
<1>1. c[i] \in EntryType BY ElementOfSeq
<1>2. e \in EntryType /\ e.n = v /\ Alike(c[i], e)
  BY <1>1 DEF EntryType, Alike
<1>3. d = [c EXCEPT ![i] = e] BY Zenon DEF Bump
<1> HIDE DEF e, d
<1>4. /\ d \in Seq(EntryType) /\ Len(d) = i /\ d[i] = e
      /\ \A j \in 1 .. i : j # i => d[j] = c[j]
  BY <1>2, <1>3, ExceptSeq
<1>5. Same(c, d, i)
  <2>1. ASSUME NEW j \in 1 .. i PROVE Alike(c[j], d[j])
    <3>1. CASE j = i BY <1>2, <1>4, <3>1
    <3>2. CASE j # i BY <1>4, <3>2 DEF Alike
    <3> QED BY <3>1, <3>2
  <2> QED BY <2>1 DEF Same
<1> QED BY <1>2, <1>4, <1>5 DEF Bumped, SameFrames, d

LEMMA BumpIs ==
  ASSUME NEW s \in StateType, NEW i \in Nat \ {0}, i = Len(s.c), NEW v \in Nat,
         NEW t, t = [s EXCEPT !.c[i].n = v]
  PROVE  Is(t, Bump(s.c, i, v), s.th) /\ t.raise = s.raise
<1> DEFINE d == Bump(s.c, i, v)
<1>1. d \in Seq(EntryType)
  <2>1. s.c \in Seq(EntryType) BY DEF StateType
  <2> QED BY <2>1, BumpLemma DEF Bumped
<1>2. t = [s EXCEPT !.c = d] BY Zenon DEF Bump
<1> HIDE DEF d
<1>3. t \in StateType BY <1>1, <1>2 DEF StateType
<1>4. t.c = d /\ t.th = s.th /\ t.raise = s.raise BY <1>2 DEF StateType
<1> QED BY <1>3, <1>4 DEF Is, d

(* The running thread sets n of its top entry, and counts its frames so.   *)
LEMMA TopLemma ==
  ASSUME NEW s, ThreadsInv(s), ~s.raise, NEW l, l = C!L(s), NEW n, n = Len(s.c),
         NEW v \in Nat, NEW r \in ThreadType, Mine(r, l),
         r.baseCcalls = s.th[l].baseCcalls, r.nCcalls = s.th[l].nCcalls,
         r.errfunc = s.th[l].errfunc,
         r.ci = s.th[l].ci - C!Frames(s.c[n]) + C!Frames(Bump(s.c, n, v)[n]),
         s.c[n].is = "execute" => v >= 1,
         NEW t, Is(t, Bump(s.c, n, v), Put(s.th, l, r)), t.raise => n >= 2
  PROVE  ThreadsInv(t) /\ C!L(t) = l
<1> DEFINE d == Bump(s.c, n, v)
<1>1. Loose(s) /\ Counts(s.c, s.th[l], l) /\ Exact(s.c, s.th[l], l)
  BY DEF ThreadsInv, Core
<1>2. /\ n \in Nat \ {0} /\ s.c \in Seq(EntryType) /\ l \in C!Thread
      /\ s.c[n].th = l /\ n \in 1 .. Len(s.c) /\ s.c[1].is = "host"
      /\ Shape(s.c, n) /\ \A j \in 1 .. n : s.c[j] \in EntryType
  BY <1>1, LooseLemma
<1>3. Bumped(s.c, d, n, v) BY <1>2, BumpLemma
<1>4. /\ Is(t, d, Put(s.th, l, r)) /\ (t.raise => n >= 2)
      /\ r.ci = s.th[l].ci - C!Frames(s.c[n]) + C!Frames(d[n])
  OBVIOUS
<1> HIDE DEF d
<1>5. PICK k \in Nat : n = k + 1
  <2>1. n - 1 \in Nat /\ n = (n - 1) + 1 BY <1>2
  <2> QED BY ONLY <2>1
<1>6. /\ d \in Seq(EntryType) /\ Len(d) = n /\ d[n].n = v
      /\ Alike(s.c[n], d[n]) /\ Same(s.c, d, n) /\ SameFrames(s.c, d, n - 1)
      /\ SameFrames(s.c, d, k) /\ Same(s.c, d, k)
  <2>1. n - 1 = k /\ k <= n BY <1>5
  <2>2. Same(s.c, d, n) /\ SameFrames(s.c, d, k) BY <1>3, <2>1 DEF Bumped
  <2>3. Same(s.c, d, k) BY <1>5, <2>2 DEF Same
  <2> QED BY <1>3, <2>1, <2>2, <2>3 DEF Bumped
<1>7. d[n].th = l /\ d[n].is = s.c[n].is BY <1>2, <1>6 DEF Alike
<1>8. /\ Own(s.c, n, l) = Own(d, n, l)
      /\ CallsIn(s.c, n, l) = CallsIn(d, n, l)
      /\ Handled(s.c, n, l) <=> Handled(d, n, l)
      /\ Handler(s.c, n, l) = Handler(d, n, l)
      /\ FramesIn(s.c, k, l) = FramesIn(d, k, l)
  BY <1>2, <1>6, SameLemma
<1>9. FramesIn(d, n, l) = r.ci
  <2>1. \A j \in 1 .. n : d[j] \in EntryType BY <1>6, ElementOfSeq
  <2>2. Adds(s.c, k, l) /\ Adds(d, k, l) BY <1>2, <1>5, <2>1, StepLemma
  <2>3. s.th[l].ci = FramesIn(s.c, n, l) BY <1>1 DEF Counts, CountsAt
  <2>4. C!Frames(s.c[n]) \in Nat /\ C!Frames(d[n]) \in Nat
    BY <1>2, <2>1, EntryFrames
  <2> QED BY ONLY <1>2, <1>4, <1>5, <1>7, <1>8, <2>2, <2>3, <2>4 DEF Adds
<1>10. Counts(d, r, l) /\ Exact(d, r, l)
  BY <1>1, <1>6, <1>8, <1>9 DEF Counts, Exact, CountsAt, ExactAt
<1>11. n + 1 .. n = {} BY ONLY <1>2
<1>12. Change(s, d, n, l, r, t)
  <2>1. n <= Len(d) /\ (t.raise => Len(d) >= 2) BY <1>2, <1>4, <1>6
  <2>2. /\ \A j \in n + 1 .. Len(s.c) : s.c[j].th = l
        /\ \A j \in n + 1 .. Len(d) : d[j].th = l
        /\ \A i \in n + 1 .. Len(d) : Good(d, t.th, i)
    BY <1>6, <1>11
  <2>3. d[n].is = "execute" => d[n].n >= 1 BY <1>6, <1>7
  <2>4. IF Own(d, Len(d), l) = {} THEN Outside(r) ELSE Mine(r, l)
    BY <1>2, <1>6, <1>7 DEF Own
  <2> QED BY ONLY <1>1, <1>2, <1>4, <1>6, <2>1, <2>2, <2>3, <2>4, l = C!L(s),
             r \in ThreadType, r.baseCcalls = s.th[l].baseCcalls DEF Change
<1>13. C!L(t) = l BY <1>6, <1>7, <1>12, ChangeLemma
<1>14. ThreadsInv(t) BY ONLY <1>10, <1>12, <1>13, ChangeLemma
<1> QED BY <1>13, <1>14

(* r with other call frames and C calls, and perhaps another size.         *)
Like(q, r, ci, calls) ==
  /\ q \in ThreadType /\ q.ci = ci /\ q.nCcalls = calls
  /\ q.baseCcalls = r.baseCcalls /\ q.status = r.status
  /\ q.errfunc = r.errfunc /\ q.fresh = r.fresh

LEMMA EnterForm ==
  ASSUME NEW s \in StateType, Len(s.c) >= 1, NEW e \in EntryType,
         NEW l, l = C!L(s), NEW r, r = s.th[l], NEW t, t = C!Enter(s, e)
  PROVE  \/ t = C!Throw(s)
         \/ \E q : /\ Like(q, r, r.ci, r.nCcalls) /\ t.raise
                   /\ Is(t, s.c, Put(s.th, l, q))
         \/ \E q : /\ Like(q, r, r.ci + 1, r.nCcalls) /\ t.raise = s.raise
                   /\ Is(t, Append(s.c, e), Put(s.th, l, q))
<1>1. /\ l \in C!Thread /\ r \in ThreadType /\ C!Now(s) = r
      /\ r.ci \in Int /\ r.size \in Int
  BY TypesLemma, StateLemma DEF ThreadType
<1> DEFINE g == [r EXCEPT !.size = 2 * @]
           q1 == [r EXCEPT !.ci = @ + 1]
           q2 == [g EXCEPT !.ci = @ + 1]
<1>2. /\ Like(g, r, r.ci, r.nCcalls) /\ Like(q1, r, r.ci + 1, r.nCcalls)
      /\ Like(q2, r, r.ci + 1, r.nCcalls)
  <2>1. Like(g, r, r.ci, r.nCcalls) BY <1>1 DEF Like, ThreadType
  <2>2. Like(q1, r, r.ci + 1, r.nCcalls) BY <1>1 DEF Like, ThreadType
  <2> HIDE DEF g
  <2>3. Like(q2, r, r.ci + 1, r.nCcalls) BY <1>1, <2>1 DEF Like, ThreadType
  <2> QED BY <2>1, <2>2, <2>3
<1>3. ASSUME NEW q \in ThreadType
      PROVE  /\ Is(C!Push(C!Set(s, q), e), Append(s.c, e), Put(s.th, l, q))
             /\ C!Push(C!Set(s, q), e).raise = s.raise
             /\ Is(C!Raise(C!Set(s, q)), s.c, Put(s.th, l, q))
             /\ C!Raise(C!Set(s, q)).raise
  <2> DEFINE x1 == C!Set(s, q)
  <2>1. Is(x1, s.c, Put(s.th, l, q)) /\ x1.raise = s.raise
    BY <1>1, SetIs
  <2> HIDE DEF x1
  <2>2. x1 \in StateType /\ x1.c = s.c /\ x1.th = Put(s.th, l, q)
    BY <2>1 DEF Is
  <2>3. /\ Is(C!Push(x1, e), Append(x1.c, e), x1.th)
        /\ C!Push(x1, e).raise = x1.raise
    BY <2>2, PushForm
  <2>4. Is(C!Raise(x1), x1.c, x1.th) /\ C!Raise(x1).raise
    BY <2>2, RaiseForm
  <2> QED BY <2>1, <2>2, <2>3, <2>4 DEF x1
<1> DEFINE G1 == r.ci + 1 < r.size
           G2 == r.size > MaxCalls
           G3 == g.size > MaxCalls
<1>4. t = CASE G1 -> C!Push(C!Set(s, q1), e)
            [] ~G1 /\ G2 -> C!Throw(s)
            [] OTHER -> IF G3 THEN C!Raise(C!Set(s, g))
                        ELSE C!Push(C!Set(s, q2), e)
  <2>1. (r.ci + 1 >= r.size) <=> ~G1 BY <1>1
  <2> HIDE DEF G1
  <2> QED BY <1>1, <2>1 DEF C!Enter, G1
<1> HIDE DEF g, q1, q2, G1, G2, G3
<1>5. \/ t = C!Throw(s) \/ t = C!Raise(C!Set(s, g))
      \/ t = C!Push(C!Set(s, q1), e) \/ t = C!Push(C!Set(s, q2), e)
  BY ONLY <1>4
<1>6. CASE t = C!Raise(C!Set(s, g))
  <2>1. g \in ThreadType BY <1>2 DEF Like
  <2>2. Is(t, s.c, Put(s.th, l, g)) /\ t.raise BY <1>3, <1>6, <2>1
  <2> QED BY <1>2, <2>2
<1>7. ASSUME NEW q, Like(q, r, r.ci + 1, r.nCcalls), t = C!Push(C!Set(s, q), e)
      PROVE  \E p : /\ Like(p, r, r.ci + 1, r.nCcalls) /\ t.raise = s.raise
                    /\ Is(t, Append(s.c, e), Put(s.th, l, p))
  <2>1. q \in ThreadType BY <1>7 DEF Like
  <2>2. Is(t, Append(s.c, e), Put(s.th, l, q)) /\ t.raise = s.raise
    BY <1>3, <1>7, <2>1
  <2> QED BY <1>7, <2>2
<1> QED BY <1>2, <1>5, <1>6, <1>7

(* inc_ci() and growCI() with room for e in what the lua_State counts.     *)
LEMMA EnterLemma ==
  ASSUME NEW s, Core(s), ~s.raise, Len(s.c) >= 2, NEW e \in EntryType,
         NEW n, n = Len(s.c), NEW l, l = C!L(s), NEW r, r = s.th[l],
         Fits(s.c[n], e, n), C!Frames(e) = 1, e.is # "try",
         \A q : Like(q, r, r.ci + 1, r.nCcalls) => Room(s.c, n, e, q, l)
  PROVE  ThreadsInv(C!Enter(s, e))
<1> DEFINE t == C!Enter(s, e)
<1>1. Loose(s) /\ Counts(s.c, r, l) BY DEF Core
<1>2. /\ s \in StateType /\ Mine(r, l) BY <1>1, LooseLemma
<1>3. \/ t = C!Throw(s)
      \/ \E q : /\ Like(q, r, r.ci, r.nCcalls) /\ t.raise
                /\ Is(t, s.c, Put(s.th, l, q))
      \/ \E q : /\ Like(q, r, r.ci + 1, r.nCcalls) /\ t.raise = s.raise
                /\ Is(t, Append(s.c, e), Put(s.th, l, q))
  <2>1. Len(s.c) >= 1 BY LooseLemma, <1>1
  <2> QED BY <1>2, <2>1, EnterForm
<1> HIDE DEF t
<1>4. ASSUME NEW q, NEW i, Like(q, r, i, r.nCcalls)
      PROVE  q \in ThreadType /\ Mine(q, l) /\ q.baseCcalls = s.th[l].baseCcalls
  BY <1>2, <1>4 DEF Like, Mine
<1>5. CASE t = C!Throw(s) BY <1>1, <1>5, ThrowLemma DEF t
<1>6. ASSUME NEW q, Like(q, r, r.ci, r.nCcalls), t.raise,
             Is(t, s.c, Put(s.th, l, q))
      PROVE  ThreadsInv(t)
  <2>1. Counts(s.c, q, l) BY <1>1, <1>6 DEF Like, Counts, CountsAt
  <2>2. q \in ThreadType /\ Mine(q, l) /\ q.baseCcalls = s.th[l].baseCcalls
    BY <1>4, <1>6
  <2> QED BY ONLY <1>1, <1>6, <2>1, <2>2, l = C!L(s), Len(s.c) >= 2, TouchLemma
<1>7. ASSUME NEW q, Like(q, r, r.ci + 1, r.nCcalls),
             Is(t, Append(s.c, e), Put(s.th, l, q))
      PROVE  ThreadsInv(t)
  <2>1. Room(s.c, n, e, q, l) BY <1>7
  <2>2. q \in ThreadType /\ Mine(q, l) /\ q.baseCcalls = s.th[l].baseCcalls
    BY <1>4, <1>7
  <2> QED BY ONLY <1>1, <1>7, <2>1, <2>2, l = C!L(s), n = Len(s.c),
             e \in EntryType, Fits(s.c[n], e, n), PushLemma
<1> QED BY <1>3, <1>5, <1>6, <1>7 DEF t

(* luaD_call() of a function, or of the handler of an error.               *)
LEMMA CallLemma ==
  ASSUME NEW s, Core(s), ~s.raise, Len(s.c) >= 2, NEW l, l = C!L(s),
         NEW e \in EntryType, e.th = l, e.is \in C!Callee,
         e.is = "execute" => e.n = 1, e.handles \/ Exact(s.c, s.th[l], l)
  PROVE  ThreadsInv(C!luaD_call(s, e))
<1> DEFINE r == s.th[l]
           r2 == [r EXCEPT !.nCcalls = @ + 1]
           more == C!Set(s, r2)
           calls == r.nCcalls + 1
           e2 == [e EXCEPT !.called = TRUE]
           t == C!luaD_call(s, e)
           n == Len(s.c)
<1>1. Loose(s) /\ Counts(s.c, r, l) BY DEF Core
<1>2. /\ s \in StateType /\ n \in Nat \ {0} /\ l \in C!Thread
      /\ r \in ThreadType /\ Mine(r, l) /\ C!Now(s) = r
      /\ s.th \in [C!Thread -> ThreadType] /\ n >= 2
      /\ Good(s.c, s.th, n) /\ Shape(s.c, n) /\ s.c[n] \in EntryType
      /\ s.c[n].th = l
  <2>1. n \in 1 .. n /\ n >= 2 BY <1>1, LooseLemma
  <2> QED BY <1>1, <2>1, LooseLemma
<1>3. Like(r2, r, r.ci, r.nCcalls + 1)
  <2> DEFINE v == r.nCcalls + 1
  <2>1. v \in Int /\ r \in ThreadType BY <1>2 DEF ThreadType
  <2>2. r2 = [r EXCEPT !.nCcalls = v] OBVIOUS
  <2> HIDE DEF v, r, r2
  <2>3. Like(r2, r, r.ci, v) BY ONLY <2>1, <2>2 DEF Like, ThreadType
  <2> QED BY <2>3 DEF v
<1>4. r2 \in ThreadType BY <1>3 DEF Like
<1>5. Is(more, s.c, Put(s.th, l, r2)) /\ ~more.raise
  <2> HIDE DEF r2
  <2>1. Is(C!Set(s, r2), s.c, Put(s.th, l, r2))
        /\ C!Set(s, r2).raise = s.raise
    BY ONLY <1>2, <1>4, s \in StateType, l = C!L(s), SetIs
  <2> QED BY <2>1
<1>6. /\ e2 \in EntryType /\ e2.called /\ e2.th = e.th /\ e2.is = e.is
      /\ e2.n = e.n /\ e2.handles = e.handles
  BY DEF EntryType
<1>7. t = CASE C!Now(more).nCcalls = MaxCCalls -> C!Raise(more)
            [] C!Now(more).nCcalls # MaxCCalls
                 /\ C!Now(more).nCcalls >= MaxCCalls + ExtraCCalls -> C!Throw(more)
            [] OTHER -> C!Enter(more, e2)
  BY <1>2, Zenon DEF C!luaD_call
<1> HIDE DEF r2, more, e2, t, n, r
<1>8. /\ more \in StateType /\ more.c = s.c /\ more.th = Put(s.th, l, r2)
      /\ more.th[l] = r2
  BY <1>2, <1>4, <1>5, PutLemma DEF Is
<1>9. Mine(r2, l) /\ r2.baseCcalls = s.th[l].baseCcalls
  BY <1>2, <1>3 DEF Like, Mine, r
<1>10. Counts(s.c, r2, l)
  <2>1. r.nCcalls \in Int /\ r.baseCcalls \in Int BY <1>2 DEF ThreadType
  <2>2. CallsIn(s.c, Len(s.c), l) \in Nat BY <1>2, CallsLemma DEF n
  <2> QED BY <1>1, <1>3, <2>1, <2>2 DEF Like, Counts, CountsAt
<1>11. C!L(more) = l /\ Loose(more) /\ Core(more)
  BY ONLY <1>1, <1>4, <1>5, <1>9, <1>10, l = C!L(s), TouchLemma
<1>12. C!Now(more).nCcalls = calls
  BY <1>3, <1>8, <1>11, StateLemma DEF Like
<1> HIDE DEF calls
<1>13. \/ calls = MaxCCalls /\ t = C!Raise(more)
       \/ t = C!Throw(more)
       \/ /\ calls # MaxCCalls /\ ~(calls >= MaxCCalls + ExtraCCalls)
          /\ t = C!Enter(more, e2)
  BY ONLY <1>7, <1>12
<1>14. CASE t = C!Raise(more)
  <2>1. Is(t, more.c, more.th) BY <1>8, <1>14, RaiseForm
  <2>2. Is(t, s.c, Put(s.th, l, r2)) BY <1>8, <2>1
  <2>3. t.raise BY <1>8, <1>14, RaiseForm
  <2> QED BY ONLY <1>1, <1>4, <1>9, <1>10, <2>2, <2>3, l = C!L(s),
             Len(s.c) >= 2, TouchLemma DEF t
<1>15. CASE t = C!Throw(more) BY <1>8, <1>11, <1>15, ThrowLemma DEF t
<1>16. CASE /\ calls # MaxCCalls /\ ~(calls >= MaxCCalls + ExtraCCalls)
            /\ t = C!Enter(more, e2)
  <2>1. e2.is # "try" /\ e2.is # "host" /\ e2.is # "start"
    BY <1>6 DEF C!Callee, C!CKinds
  <2>2. C!Frames(e2) = 1 BY <1>6, EntryFrames
  <2>3. n # 1 BY <1>2
  <2>4. Fits(s.c[n], e2, n)
    BY ONLY <1>2, <1>6, <2>1, <2>3, e.th = l, e.is = "execute" => e.n = 1
       DEF Fits
  <2>5. ASSUME NEW q, Like(q, r2, r2.ci + 1, r2.nCcalls)
        PROVE  Room(s.c, n, e2, q, l)
    <3>1. /\ q.ci = r.ci + 1 /\ q.nCcalls = calls
          /\ q.baseCcalls = r.baseCcalls /\ q.errfunc = r.errfunc
      BY <1>3, <2>5 DEF Like, calls
    <3>2. /\ r.ci = FramesIn(s.c, n, l)
          /\ r.nCcalls >= r.baseCcalls + CallsIn(s.c, n, l)
          /\ r.errfunc = Handler(s.c, n, l)
      BY <1>1 DEF Counts, CountsAt, n
    <3>3. /\ r.nCcalls \in Int /\ r.baseCcalls \in Int
          /\ CallsIn(s.c, n, l) \in Nat
      BY <1>2, CallsLemma DEF ThreadType
    <3>4. ~Handled(s.c, n, l) /\ r.baseCcalls < MaxCCalls =>
            r.baseCcalls + CallsIn(s.c, n, l) < MaxCCalls
      BY <1>2 DEF Good, r
    <3>5. ~Handled(s.c, n, l) /\ ~e2.handles =>
            r.nCcalls = r.baseCcalls + CallsIn(s.c, n, l)
      BY <1>6 DEF Exact, ExactAt, r, n
    <3>6. calls = r.nCcalls + 1 BY DEF calls
    <3> QED BY ONLY <1>6, <1>16, <2>1, <2>2, <3>1, <3>2, <3>3, <3>4, <3>5,
               <3>6, LimitsLemma DEF Room
  <2>6. ThreadsInv(C!Enter(more, e2))
    <3>1. n = Len(more.c) /\ Len(more.c) >= 2 BY <1>8 DEF n
    <3>2. \A q : Like(q, r2, r2.ci + 1, r2.nCcalls) => Room(more.c, n, e2, q, l)
      BY <1>8, <2>5
    <3>3. Fits(more.c[n], e2, n) BY <1>8, <2>4
    <3> QED BY ONLY <1>5, <1>6, <1>8, <1>11, <2>1, <2>2, <3>1, <3>2, <3>3,
               EnterLemma
  <2> QED BY <1>16, <2>6 DEF t
<1> QED BY <1>13, <1>14, <1>15, <1>16

(* luaG_errormsg().                                                        *)
LEMMA ErrorLemma ==
  ASSUME NEW s, ThreadsInv(s), s.raise
  PROVE  ThreadsInv(C!luaG_errormsg(s))
<1> DEFINE calm == [s EXCEPT !.raise = FALSE]
           l == C!L(s)
           f == C!Entry(l, "execute", TRUE, 1)
           e == [f EXCEPT !.handles = TRUE]
<1>1. /\ Loose(s) /\ Counts(s.c, s.th[l], l) /\ Len(s.c) >= 2
  BY DEF ThreadsInv, Core
<1>2. /\ s \in StateType /\ l \in C!Thread /\ s.th[l] \in ThreadType
      /\ s.th \in [C!Thread -> ThreadType] /\ Mine(s.th[l], l)
  BY <1>1, LooseLemma
<1>3. Is(calm, s.c, s.th) /\ ~calm.raise BY <1>2, RaiseForm
<1>4. e \in EntryType /\ e.th = l /\ e.is = "execute" /\ e.n = 1 /\ e.handles
  <2>1. C!None \in OldType BY DEF C!None, OldType
  <2>2. f \in EntryType /\ f.th = l /\ f.is = "execute" /\ f.n = 1
    BY <1>2, <2>1 DEF C!Entry, EntryType, Kind, C!Callee
  <2> HIDE DEF f
  <2> QED BY <2>2 DEF EntryType
<1>5. C!luaG_errormsg(s) = IF C!Now(s).errfunc THEN C!luaD_call(calm, e)
                           ELSE C!Throw(calm)
  BY Zenon DEF C!luaG_errormsg
<1> HIDE DEF calm, l, f, e
<1>6. calm \in StateType /\ calm.c = s.c /\ calm.th = s.th BY <1>3 DEF Is
<1>7. Loose(calm) /\ Core(calm) /\ C!L(calm) = l
  <2>1. Is(calm, s.c, Put(s.th, l, s.th[l])) BY <1>2, <1>3, PutLemma
  <2>2. l = C!L(s) /\ s.th[l].baseCcalls = s.th[l].baseCcalls BY DEF l
  <2> QED BY ONLY <1>1, <1>2, <1>3, <2>1, <2>2, TouchLemma
<1>8. ThreadsInv(C!luaD_call(calm, e))
  <2>1. e.is \in C!Callee /\ (e.is = "execute" => e.n = 1)
    BY <1>4 DEF C!Callee
  <2>2. Len(calm.c) >= 2 BY <1>1, <1>6
  <2> QED BY ONLY <1>3, <1>4, <1>7, <2>1, <2>2, CallLemma
<1>9. ThreadsInv(C!Throw(calm)) BY <1>1, <1>6, <1>7, ThrowLemma
<1> QED BY <1>5, <1>8, <1>9

-----------------------------------------------------------------------------
(* Steps: calls.                                                           *)

(* A program that runs knows where it is.                                  *)
LEMMA RunLemma ==
  ASSUME NEW s, ThreadsInv(s), ~s.raise, NEW n, n = Len(s.c),
         NEW l, l = C!L(s)
  PROVE  /\ Loose(s) /\ Core(s) /\ s \in StateType /\ n \in Nat \ {0}
         /\ s.c \in Seq(EntryType) /\ s.th \in [C!Thread -> ThreadType]
         /\ C!Top(s) = s.c[n] /\ C!Now(s) = s.th[l]
         /\ s.c[n].th = l /\ l \in C!Thread /\ s.th[l] \in ThreadType
         /\ Mine(s.th[l], l) /\ Counts(s.c, s.th[l], l)
         /\ Exact(s.c, s.th[l], l) /\ Good(s.c, s.th, n) /\ Shape(s.c, n)
         /\ s.c[n] \in EntryType /\ n \in 1 .. Len(s.c)
         /\ s.c[n].is # "host" => n >= 2
<1>1. Core(s) /\ Loose(s) /\ Counts(s.c, s.th[l], l) /\ Exact(s.c, s.th[l], l)
  BY DEF ThreadsInv, Core
<1>2. /\ s \in StateType /\ n \in Nat \ {0} /\ n \in 1 .. Len(s.c)
      /\ s.c \in Seq(EntryType) /\ s.th \in [C!Thread -> ThreadType]
      /\ C!Top(s) = s.c[n] /\ C!Now(s) = s.th[l] /\ s.c[n].th = l
      /\ l \in C!Thread /\ s.th[l] \in ThreadType /\ Mine(s.th[l], l)
      /\ s.c[1].is = "host"
  BY <1>1, LooseLemma
<1>3. Good(s.c, s.th, n) /\ Shape(s.c, n) /\ s.c[n] \in EntryType
  BY <1>1, <1>2, LooseLemma
<1>4. s.c[n].is # "host" => n >= 2
  <2>1. s.c[n].is # "host" => n # 1 BY <1>2
  <2> QED BY ONLY <1>2, <2>1
<1> QED BY ONLY <1>1, <1>2, <1>3, <1>4

LEMMA RaiseLemma ==
  ASSUME NEW s, ThreadsInv(s), Len(s.c) >= 2
  PROVE  ThreadsInv(C!Raise(s))
<1> DEFINE t == C!Raise(s)
           l == C!L(s)
<1>1. Loose(s) /\ Counts(s.c, s.th[l], l) BY DEF ThreadsInv, Core
<1>2. /\ s \in StateType /\ s.th[l] \in ThreadType /\ Mine(s.th[l], l)
      /\ s.th \in [C!Thread -> ThreadType] /\ l \in C!Thread
  BY <1>1, LooseLemma
<1>3. Is(t, s.c, s.th) /\ t.raise BY <1>2, RaiseForm
<1>4. Is(t, s.c, Put(s.th, l, s.th[l])) BY <1>2, <1>3, PutLemma
<1>5. l = C!L(s) /\ s.th[l].baseCcalls = s.th[l].baseCcalls OBVIOUS
<1> HIDE DEF t, l
<1>6. ThreadsInv(t)
  BY ONLY <1>1, <1>2, <1>3, <1>4, <1>5, Len(s.c) >= 2, TouchLemma
<1> QED BY <1>6 DEF t

(* A C function that has called or resumed.                                *)
LEMMA DoneLemma ==
  ASSUME NEW s, ThreadsInv(s), ~s.raise, NEW n, n = Len(s.c),
         s.c[n].is \in {"pcall", "xpcall", "resume", "wrap"}
  PROVE  /\ ThreadsInv(C!Done(s)) /\ C!L(C!Done(s)) = C!L(s)
         /\ Is(C!Done(s), Bump(s.c, n, 1), s.th) /\ ~C!Done(s).raise
         /\ Bumped(s.c, Bump(s.c, n, 1), n, 1) /\ n >= 2
         /\ SameFrames(s.c, Bump(s.c, n, 1), n)
<1> DEFINE l == C!L(s)
           t == C!Done(s)
           d == Bump(s.c, n, 1)
<1>1. /\ Loose(s) /\ s \in StateType /\ n \in Nat \ {0} /\ l \in C!Thread
      /\ s.c \in Seq(EntryType) /\ s.c[n] \in EntryType
      /\ s.th \in [C!Thread -> ThreadType]
      /\ s.th[l] \in ThreadType /\ Mine(s.th[l], l) /\ n >= 2
  BY RunLemma
<1>2. t = [s EXCEPT !.c[n].n = 1] BY Zenon DEF C!Done
<1>3. Is(t, d, s.th) /\ t.raise = s.raise
  <2> DEFINE v == 1
  <2>1. v \in Nat OBVIOUS
  <2> HIDE DEF v
  <2>2. t = [s EXCEPT !.c[n].n = v] /\ n = Len(s.c) BY <1>2 DEF v
  <2> HIDE DEF t
  <2>4. s \in StateType /\ n \in Nat \ {0} BY <1>1
  <2>5. d = Bump(s.c, n, v) BY DEF v
  <2> HIDE DEF l, d
  <2>3. Is(t, Bump(s.c, n, v), s.th) /\ t.raise = s.raise
    BY ONLY <2>1, <2>2, <2>4, BumpIs
  <2> QED BY ONLY <2>3, <2>5
<1>4. Bumped(s.c, d, n, 1) BY <1>1, BumpLemma
<1> HIDE DEF t, d, l
<1>5. Is(t, d, Put(s.th, l, s.th[l])) BY <1>1, <1>3, PutLemma
<1>6. C!Frames(d[n]) = C!Frames(s.c[n])
  BY <1>4 DEF Bumped, Alike, C!Frames
<1>7. SameFrames(s.c, d, n)
  BY <1>1, <1>4, <1>6 DEF Bumped, SameFrames
<1>8. ThreadsInv(t) /\ C!L(t) = l
  <2>1. s.th[l].ci = s.th[l].ci - C!Frames(s.c[n]) + C!Frames(d[n])
    <3>1. s.th[l].ci \in Int /\ C!Frames(s.c[n]) \in Nat
      BY <1>1, EntryFrames DEF ThreadType
    <3> QED BY <1>6, <3>1
  <2>2. s.c[n].is = "execute" => 1 >= 1 OBVIOUS
  <2>3. ~t.raise BY <1>3
  <2>4. l = C!L(s) /\ 1 \in Nat BY DEF l
  <2> QED BY ONLY <1>1, <1>5, <2>1, <2>2, <2>3, <2>4, ThreadsInv(s), ~s.raise,
             n = Len(s.c), TopLemma DEF d
<1> QED BY <1>1, <1>3, <1>4, <1>7, <1>8 DEF t, d, l

(* The function that is called, before luaD_call() or inc_ci().            *)
LEMMA CallsLemmaOf ==
  ASSUME NEW kind \in C!Callee, C!L(vm) \in C!Thread
  PROVE  /\ C!Calls(kind) \in EntryType /\ C!Calls(kind).th = C!L(vm)
         /\ C!Calls(kind).is = kind /\ ~C!Calls(kind).called
         /\ ~C!Calls(kind).handles /\ (kind = "execute" => C!Calls(kind).n = 1)
<1>1. C!None \in OldType BY DEF C!None, OldType
<1>2. kind \in Kind BY DEF Kind
<1>3. (IF kind = "execute" THEN 1 ELSE 0) \in Nat OBVIOUS
<1> QED BY <1>1, <1>2, <1>3 DEF C!Calls, C!Entry, EntryType

LEMMA StepRaises ==
  ASSUME ThreadsInv(vm), C!Raises
  PROVE  ThreadsInv(vm')
<1>1. /\ ~vm.raise /\ C!Top(vm).is \in {"execute", "plain"}
      /\ vm' = C!Raise(vm)
  BY DEF C!Raises, C!Runs
<1>2. Len(vm.c) >= 2 BY <1>1, RunLemma
<1> QED BY <1>1, <1>2, RaiseLemma

LEMMA StepHandle ==
  ASSUME ThreadsInv(vm), C!Handle
  PROVE  ThreadsInv(vm')
BY ErrorLemma DEF C!Handle

LEMMA StepCallsBack ==
  ASSUME ThreadsInv(vm), NEW kind \in C!Callee, C!CallsBack(kind)
  PROVE  ThreadsInv(vm')
<1> DEFINE l == C!L(vm)
           e == C!Calls(kind)
<1>1. /\ ~vm.raise /\ C!Top(vm).is \in {"execute", "plain"}
      /\ vm' = C!luaD_call(vm, e)
  BY DEF C!CallsBack, C!Runs
<1>2. /\ Len(vm.c) >= 2 /\ Core(vm) /\ l \in C!Thread
      /\ Exact(vm.c, vm.th[l], l)
  BY <1>1, RunLemma
<1>3. e \in EntryType /\ e.th = l /\ e.is = kind /\ (kind = "execute" => e.n = 1)
  BY <1>2, CallsLemmaOf
<1>4. e.is \in C!Callee /\ (e.is = "execute" => e.n = 1) /\ l = C!L(vm)
  BY <1>3
<1> HIDE DEF e, l
<1>5. ThreadsInv(C!luaD_call(vm, e))
  BY ONLY <1>1, <1>2, <1>3, <1>4, CallLemma
<1> QED BY <1>1, <1>5

LEMMA StepLuaCalls ==
  ASSUME ThreadsInv(vm), NEW kind \in C!Callee, C!LuaCalls(kind)
  PROVE  ThreadsInv(vm')
<1> DEFINE l == C!L(vm)
           r == vm.th[l]
           n == Len(vm.c)
           e == C!Calls(kind)
           in == C!Enter(vm, e)
<1>1. ~vm.raise /\ C!Top(vm).is = "execute" BY DEF C!LuaCalls, C!Runs
<1>2. /\ Loose(vm) /\ Core(vm) /\ vm \in StateType /\ n \in Nat \ {0}
      /\ n >= 2 /\ l \in C!Thread /\ vm.c \in Seq(EntryType)
      /\ vm.th \in [C!Thread -> ThreadType] /\ r \in ThreadType
      /\ vm.c[n] \in EntryType /\ vm.c[n].th = l /\ vm.c[n].is = "execute"
      /\ Mine(r, l) /\ Counts(vm.c, r, l) /\ Exact(vm.c, r, l)
      /\ Good(vm.c, vm.th, n)
  BY <1>1, RunLemma
<1>3. /\ e \in EntryType /\ e.th = l /\ e.is = kind /\ ~e.called
      /\ ~e.handles /\ (kind = "execute" => e.n = 1)
  BY <1>2, CallsLemmaOf
<1>4. CASE kind # "execute"
  <2>1. vm' = in BY <1>4 DEF C!LuaCalls
  <2>2. e.is # "try" /\ e.is # "host" /\ e.is # "start"
    BY <1>3 DEF C!Callee, C!CKinds
  <2>3. C!Frames(e) = 1 BY <1>3, <1>4, EntryFrames
  <2>4. n # 1 BY <1>2
  <2> HIDE DEF e, n, l, r, in
  <2>5. Fits(vm.c[n], e, n)
    BY ONLY <1>2, <1>3, <1>4, <2>2, <2>4 DEF Fits
  <2>6. ASSUME NEW q, Like(q, r, r.ci + 1, r.nCcalls)
        PROVE  Room(vm.c, n, e, q, l)
    <3>1. /\ q.ci = r.ci + 1 /\ q.nCcalls = r.nCcalls
          /\ q.baseCcalls = r.baseCcalls /\ q.errfunc = r.errfunc
      BY <2>6 DEF Like
    <3>2. /\ r.ci = FramesIn(vm.c, n, l)
          /\ r.nCcalls >= r.baseCcalls + CallsIn(vm.c, n, l)
          /\ r.errfunc = Handler(vm.c, n, l)
          /\ ~Handled(vm.c, n, l) =>
               r.nCcalls = r.baseCcalls + CallsIn(vm.c, n, l)
      BY <1>2 DEF Counts, CountsAt, Exact, ExactAt, n
    <3>3. /\ r.baseCcalls + CallsIn(vm.c, n, l) <= MaxCCalls + ExtraCCalls
          /\ ~Handled(vm.c, n, l) /\ r.baseCcalls < MaxCCalls =>
               r.baseCcalls + CallsIn(vm.c, n, l) < MaxCCalls
      BY <1>2 DEF Good, r
    <3>4. r.baseCcalls \in Int /\ CallsIn(vm.c, n, l) \in Nat
      BY <1>2, CallsLemma DEF ThreadType
    <3> QED BY ONLY <1>3, <2>2, <2>3, <3>1, <3>2, <3>3, <3>4 DEF Room
  <2>7. n = Len(vm.c) /\ l = C!L(vm) /\ r = vm.th[l] BY DEF n, l, r
  <2>9. Len(vm.c) >= 2 BY <1>2, <2>7
  <2>8. ThreadsInv(C!Enter(vm, e))
    BY ONLY <1>1, <1>2, <1>3, <2>2, <2>3, <2>5, <2>6, <2>7, <2>9, EnterLemma
  <2> QED BY <2>1, <2>8 DEF in
<1>5. CASE kind = "execute"
  <2> DEFINE p == C!Pop(in)
             v == vm.c[n].n + 1
  <2>1. vm' = IF Len(in.c) <= n THEN in ELSE [p EXCEPT !.c[n].n = @ + 1]
    BY <1>5, Zenon DEF C!LuaCalls
  <2>2. \/ in = C!Throw(vm)
        \/ \E q : /\ Like(q, r, r.ci, r.nCcalls) /\ in.raise
                  /\ Is(in, vm.c, Put(vm.th, l, q))
        \/ \E q : /\ Like(q, r, r.ci + 1, r.nCcalls) /\ in.raise = vm.raise
                  /\ Is(in, Append(vm.c, e), Put(vm.th, l, q))
    BY <1>2, <1>3, EnterForm
  <2>10. n = Len(vm.c) /\ l = C!L(vm) /\ r = vm.th[l] OBVIOUS
  <2> HIDE DEF in, e, n, l, r
  <2>3. CASE in = C!Throw(vm)
    <3>1. ThreadsInv(in) /\ Len(in.c) < n
      BY <1>2, <2>3, <2>10, ThrowLemma
    <3>2. in \in StateType BY <3>1 DEF ThreadsInv, Core, Loose
    <3>3. Len(in.c) \in Nat BY <3>2, LenProperties DEF StateType
    <3> QED BY <1>2, <2>1, <3>1, <3>3
  <2>4. ASSUME NEW q, NEW i \in Int, Like(q, r, i, r.nCcalls)
        PROVE  /\ q \in ThreadType /\ Mine(q, l) /\ q.nCcalls = r.nCcalls
               /\ q.baseCcalls = vm.th[l].baseCcalls /\ q.errfunc = r.errfunc
    BY <1>2, <2>4, <2>10 DEF Like, Mine
  <2>5. r.ci \in Int /\ r.ci + 1 \in Int BY <1>2 DEF ThreadType
  <2>6. ASSUME NEW q, Like(q, r, r.ci, r.nCcalls), in.raise,
               Is(in, vm.c, Put(vm.th, l, q))
        PROVE  ThreadsInv(vm')
    <3>1. Counts(vm.c, q, l) BY <1>2, <2>6 DEF Like, Counts, CountsAt
    <3>2. /\ q \in ThreadType /\ Mine(q, l)
          /\ q.baseCcalls = vm.th[l].baseCcalls
      BY <2>4, <2>5, <2>6
    <3>3. Len(vm.c) >= 2 BY <1>2, <2>10
    <3>4. ThreadsInv(in)
      BY ONLY <1>2, <2>6, <2>10, <3>1, <3>2, <3>3, TouchLemma
    <3>5. Len(in.c) <= n BY <1>2, <2>6, <2>10 DEF Is
    <3> QED BY <2>1, <3>4, <3>5
  <2>7. ASSUME NEW q, Like(q, r, r.ci + 1, r.nCcalls), in.raise = vm.raise,
               Is(in, Append(vm.c, e), Put(vm.th, l, q))
        PROVE  ThreadsInv(vm')
    <3> HIDE DEF p, v
    <3>1. /\ q \in ThreadType /\ Mine(q, l) /\ q.nCcalls = r.nCcalls
          /\ q.baseCcalls = vm.th[l].baseCcalls /\ q.errfunc = r.errfunc
          /\ q.ci = r.ci + 1
      BY <2>4, <2>5, <2>7 DEF Like
    <3>2. Len(in.c) = n + 1 /\ SubSeq(in.c, 1, n) = vm.c /\ in \in StateType
          /\ in.th = Put(vm.th, l, q)
      <4>1. Pushed(vm.c, e, in.c, n)
        BY <1>2, <1>3, <2>7, <2>10, AppendLemma DEF Is
      <4> QED BY <2>7, <4>1 DEF Pushed, Is
    <3>3. ~(Len(in.c) <= n) BY <1>2, <3>2
    <3>4. Is(p, vm.c, Put(vm.th, l, q)) /\ ~p.raise
      <4>1. Len(in.c) - 1 = n BY <1>2, <3>2
      <4>2. p = C!Upto(in, n) BY <4>1 DEF p, C!Pop
      <4>3. n \in 0 .. Len(in.c) BY <1>2, <3>2
      <4>4. Is(p, SubSeq(in.c, 1, n), in.th) /\ p.raise = in.raise
        BY <3>2, <4>2, <4>3, UptoForm
      <4> QED BY <1>1, <2>7, <3>2, <4>4
    <3>5. v \in Nat /\ v >= 1 /\ v = vm.c[n].n + 1
      BY <1>2 DEF EntryType, v
    <3>6. p \in StateType /\ p.c = vm.c /\ p.th = Put(vm.th, l, q)
      BY <3>4 DEF Is
    <3>7. vm' = [p EXCEPT !.c[n].n = v]
      <4>1. vm' = [p EXCEPT !.c[n].n = @ + 1] BY <2>1, <3>3
      <4>2. p.c[n].n + 1 = v BY <3>5, <3>6
      <4> QED BY <4>1, <4>2, Zenon
    <3>8. Is(vm', Bump(vm.c, n, v), Put(vm.th, l, q)) /\ ~vm'.raise
      <4>1. n = Len(p.c) BY <2>10, <3>6
      <4>2. Is(vm', Bump(p.c, n, v), p.th) /\ vm'.raise = p.raise
        <5>1. p \in StateType /\ n \in Nat \ {0} /\ v \in Nat
          BY <1>2, <3>5, <3>6
        <5> QED BY ONLY <3>7, <4>1, <5>1, BumpIs
      <4> QED BY <3>4, <3>6, <4>2
    <3>9. q.ci = vm.th[l].ci - C!Frames(vm.c[n]) + C!Frames(Bump(vm.c, n, v)[n])
      <4>1. Bumped(vm.c, Bump(vm.c, n, v), n, v)
        BY <1>2, <2>10, <3>5, BumpLemma
      <4>2. C!Frames(Bump(vm.c, n, v)[n]) = v
        BY <1>2, <4>1 DEF Bumped, Alike, C!Frames
      <4>3. C!Frames(vm.c[n]) = vm.c[n].n BY <1>2 DEF C!Frames
      <4>4. vm.c[n].n \in Nat BY <1>2 DEF EntryType
      <4> QED BY <2>5, <2>10, <3>1, <3>5, <4>2, <4>3, <4>4
    <3> QED BY ONLY ThreadsInv(vm), <1>1, <2>10, <3>1, <3>5, <3>8, <3>9,
               TopLemma
  <2> QED BY <2>2, <2>3, <2>6, <2>7
<1> QED BY <1>4, <1>5

LEMMA StepProtect ==
  ASSUME ThreadsInv(vm), NEW kind \in C!Callee, C!Protect(kind)
  PROVE  ThreadsInv(vm')
<1> DEFINE l == C!L(vm)
           r == vm.th[l]
           n == Len(vm.c)
           before == IF C!Top(vm).is = "host" THEN vm ELSE C!Done(vm)
           old == [ci |-> r.ci, nCcalls |-> r.nCcalls, errfunc |-> r.errfunc]
           f == C!Entry(l, "try", FALSE, 0)
           try == [f EXCEPT !.old = old]
           z == C!Top(vm).is = "xpcall"
           r2 == [r EXCEPT !.errfunc = z]
           in == C!Push(before, try)
           t == C!Set(in, r2)
<1>1. ~vm.raise /\ C!Top(vm).is \in {"pcall", "xpcall", "host"}
  BY DEF C!Protect, C!Runs
<1>2. /\ Loose(vm) /\ vm \in StateType /\ n \in Nat \ {0}
      /\ l \in C!Thread /\ vm.th \in [C!Thread -> ThreadType]
      /\ r \in ThreadType /\ C!Now(vm) = r /\ C!Top(vm) = vm.c[n]
  BY <1>1, RunLemma
<1>3. /\ ThreadsInv(before) /\ ~before.raise /\ C!L(before) = l
      /\ Len(before.c) = n /\ before.th = vm.th
      /\ before.c[n].is = vm.c[n].is
  <2>1. CASE C!Top(vm).is = "host" BY <1>1, <2>1
  <2>2. CASE C!Top(vm).is # "host"
    <3>1. before = C!Done(vm) BY <2>2
    <3>2. vm.c[n].is \in {"pcall", "xpcall", "resume", "wrap"}
      BY <1>1, <1>2, <2>2
    <3>3. /\ ThreadsInv(C!Done(vm)) /\ C!L(C!Done(vm)) = l
          /\ Is(C!Done(vm), Bump(vm.c, n, 1), vm.th) /\ ~C!Done(vm).raise
          /\ Bumped(vm.c, Bump(vm.c, n, 1), n, 1)
      BY <1>1, <3>2, DoneLemma
    <3> HIDE DEF before
    <3> QED BY <3>1, <3>3 DEF Is, Bumped, Alike
  <2> QED BY <2>1, <2>2
<1>4. vm' = C!luaD_call(t, C!Calls(kind))
  BY <1>2, Zenon DEF C!Protect
<1>5. /\ try \in EntryType /\ try.th = l /\ try.is = "try" /\ ~try.called
      /\ ~try.handles /\ try.old.ci = r.ci
      /\ try.old.nCcalls = r.nCcalls /\ try.old.errfunc = r.errfunc
  <2>1. C!None \in OldType BY DEF C!None, OldType
  <2>2. /\ f \in EntryType /\ f.th = l /\ f.is = "try" /\ ~f.called /\ ~f.handles
    BY <1>2, <2>1 DEF C!Entry, EntryType, Kind
  <2>3. old \in OldType BY <1>2 DEF OldType, ThreadType
  <2>4. /\ old.ci = r.ci /\ old.nCcalls = r.nCcalls
        /\ old.errfunc = r.errfunc
    OBVIOUS
  <2> HIDE DEF f, old
  <2> QED BY <2>2, <2>3, <2>4 DEF EntryType
<1>6. /\ r2 \in ThreadType /\ r2.ci = r.ci /\ r2.nCcalls = r.nCcalls
      /\ r2.baseCcalls = r.baseCcalls /\ r2.errfunc = z
      /\ r2.status = r.status /\ r2.fresh = r.fresh
  <2>1. z \in BOOLEAN OBVIOUS
  <2> HIDE DEF z
  <2> QED BY <1>2, <2>1 DEF ThreadType
<1> HIDE DEF before, try, r2, in, t, old, f, z
<1>7. /\ Loose(before) /\ before \in StateType /\ before.c \in Seq(EntryType)
      /\ before.c[n] \in EntryType /\ before.c[n].th = l /\ Mine(r, l)
      /\ Counts(before.c, r, l) /\ Exact(before.c, r, l)
      /\ Good(before.c, before.th, n) /\ Shape(before.c, n)
  BY <1>3, RunLemma
<1>8. Is(t, Append(before.c, try), Put(before.th, l, r2)) /\ ~t.raise
  <2>1. Is(in, Append(before.c, try), before.th) /\ in.raise = before.raise
    BY <1>5, <1>7, PushForm DEF in
  <2>2. /\ in \in StateType /\ in.c = Append(before.c, try)
        /\ in.th = before.th
    BY <2>1 DEF Is
  <2>3. C!L(in) = l
    <3>1. Pushed(before.c, try, in.c, n)
      BY <1>3, <1>5, <1>7, <2>2, AppendLemma
    <3> QED BY <1>5, <2>2, <3>1, StateLemma DEF Pushed
  <2>4. Is(C!Set(in, r2), in.c, Put(in.th, l, r2))
        /\ C!Set(in, r2).raise = in.raise
    BY <1>2, <1>6, <2>2, <2>3, SetIs
  <2> QED BY <1>3, <2>1, <2>2, <2>4 DEF t
<1>9. Fits(before.c[n], try, n)
  BY <1>1, <1>2, <1>3, <1>5, <1>7 DEF Fits, C!Callee, C!CKinds
<1>10. /\ r.ci = FramesIn(before.c, n, l)
       /\ r.nCcalls >= r.baseCcalls + CallsIn(before.c, n, l)
       /\ r.errfunc = Handler(before.c, n, l)
       /\ ~Handled(before.c, n, l) =>
            r.nCcalls = r.baseCcalls + CallsIn(before.c, n, l)
  BY <1>3, <1>7 DEF Counts, CountsAt, Exact, ExactAt
<1>11. Saves(Append(before.c, try), n + 1, l, r2.baseCcalls)
  <2> DEFINE d == Append(before.c, try)
  <2>1. Pushed(before.c, try, d, n) BY <1>3, <1>5, <1>7, AppendLemma
  <2> HIDE DEF d
  <2>2. d[n + 1] = try /\ Same(before.c, d, n) /\ SameFrames(before.c, d, n)
    <3>1. n \in 0 .. n BY <1>2
    <3> QED BY <2>1, <3>1 DEF Pushed
  <2>3. before.c[1].is # "try"
    <3>1. before.c[1].is = "host" BY <1>7, LooseLemma
    <3> QED BY <3>1
  <2>4. /\ CallsIn(before.c, n, l) = CallsIn(d, n, l)
        /\ Handled(before.c, n, l) <=> Handled(d, n, l)
        /\ FramesIn(before.c, n, l) = FramesIn(d, n, l)
        /\ Handler(before.c, n, l) = Handler(d, n, l)
    BY <1>2, <2>2, <2>3, SameLemma
  <2>5. n + 1 - 1 = n BY <1>2
  <2>6. Saves(d, n + 1, l, r2.baseCcalls)
    BY ONLY <1>5, <1>6, <1>10, <2>2, <2>4, <2>5 DEF Saves
  <2> QED BY <2>6 DEF d
<1>12. Room(before.c, n, try, r2, l)
  <2>1. C!Frames(try) = 0 BY <1>5, EntryFrames DEF Jump
  <2>2. r.baseCcalls \in Int /\ CallsIn(before.c, n, l) \in Nat /\ r.ci \in Int
    BY <1>2, CallsLemma DEF ThreadType
  <2>3. /\ r.baseCcalls + CallsIn(before.c, n, l) <= MaxCCalls + ExtraCCalls
        /\ ~Handled(before.c, n, l) /\ r.baseCcalls < MaxCCalls =>
             r.baseCcalls + CallsIn(before.c, n, l) < MaxCCalls
    BY <1>3, <1>7 DEF Good, r
  <2>4. z <=> before.c[n].is = "xpcall" BY <1>2, <1>3 DEF z
  <2> QED BY ONLY <1>5, <1>6, <1>10, <1>11, <2>1, <2>2, <2>3, <2>4 DEF Room
<1>13. ThreadsInv(t) /\ C!L(t) = l
  <2>1. Mine(r2, l) BY <1>6, <1>7 DEF Mine
  <2>2. r2.baseCcalls = before.th[l].baseCcalls /\ n = Len(before.c)
        /\ l = C!L(before)
    BY <1>3, <1>6 DEF r
  <2> HIDE DEF n, l
  <2> QED BY ONLY <1>5, <1>6, <1>7, <1>8, <1>9, <1>12, <2>1, <2>2, PushLemma
<1>14. /\ Core(t) /\ Exact(t.c, t.th[l], l) /\ Len(t.c) >= 2
  <2>1. Core(t) /\ Exact(t.c, t.th[l], l) BY <1>8, <1>13, RunLemma
  <2>2. Len(t.c) = n + 1
    BY <1>3, <1>5, <1>7, <1>8, AppendLemma DEF Is, Pushed
  <2> QED BY <1>2, <2>1, <2>2
<1>15. /\ C!Calls(kind) \in EntryType /\ C!Calls(kind).th = l
       /\ C!Calls(kind).is \in C!Callee
       /\ C!Calls(kind).is = "execute" => C!Calls(kind).n = 1
  BY <1>2, CallsLemmaOf
<1> HIDE DEF l
<1>16. ThreadsInv(C!luaD_call(t, C!Calls(kind)))
  <2> DEFINE e == C!Calls(kind)
  <2> HIDE DEF e
  <2>1. l = C!L(t) BY <1>13
  <2>2. /\ e \in EntryType /\ e.th = l /\ e.is \in C!Callee
        /\ e.is = "execute" => e.n = 1
    BY <1>15 DEF e
  <2>3. ThreadsInv(C!luaD_call(t, e))
    BY ONLY <1>8, <1>14, <2>1, <2>2, CallLemma
  <2> QED BY <2>3 DEF e
<1> QED BY <1>4, <1>16

-----------------------------------------------------------------------------
(* Steps: returns.                                                         *)

(* What the lua_State of the running thread counts without the top entry,  *)
(* the n-th.                                                               *)
Under(s, n, l, r, k) ==
  /\ n = k + 1 /\ k \in 1 .. Len(s.c)
  /\ \A j \in k + 1 .. Len(s.c) : s.c[j].th = l
  /\ s.c[n].is # "start" => s.c[k].th = l
  /\ FramesIn(s.c, k, l) = r.ci - C!Frames(s.c[n])
  /\ r.nCcalls >= r.baseCcalls + CallsIn(s.c, k, l)
                    + (IF s.c[n].called THEN 1 ELSE 0)
  /\ ~Handled(s.c, k, l) /\ ~s.c[n].handles =>
       r.nCcalls = r.baseCcalls + CallsIn(s.c, k, l)
                     + (IF s.c[n].called THEN 1 ELSE 0)
  /\ s.c[n].is # "try" => r.errfunc = Handler(s.c, k, l)
  /\ r.ci \in Int /\ r.nCcalls \in Int /\ r.baseCcalls \in Int
  /\ CallsIn(s.c, k, l) \in Nat /\ C!Frames(s.c[n]) \in Nat

LEMMA BelowLemma ==
  ASSUME NEW s, ThreadsInv(s), ~s.raise, NEW n, n = Len(s.c), NEW l, l = C!L(s),
         s.c[n].is # "host", NEW r, r = s.th[l]
  PROVE  \E k \in Nat \ {0} : Under(s, n, l, r, k)
<1>1. /\ Loose(s) /\ n \in Nat \ {0} /\ n >= 2 /\ r \in ThreadType
      /\ s.c[n].th = l /\ Counts(s.c, r, l) /\ Exact(s.c, r, l)
      /\ Shape(s.c, n) /\ s.c[n] \in EntryType
  BY RunLemma
<1>2. PICK k \in Nat \ {0} : n = k + 1
  <2>1. n - 1 \in Nat \ {0} /\ n = (n - 1) + 1 BY ONLY <1>1
  <2> QED BY ONLY <2>1
<1>3. k \in 1 .. n /\ k \in Nat BY ONLY <1>1, <1>2
<1>4. \A j \in 1 .. k + 1 : s.c[j] \in EntryType BY <1>1, <1>2, LooseLemma
<1>5. Adds(s.c, k, l) BY ONLY <1>3, <1>4, StepLemma
<1>6. /\ r.ci \in Int /\ r.nCcalls \in Int /\ r.baseCcalls \in Int
      /\ C!Frames(s.c[n]) \in Nat
  BY <1>1, EntryFrames DEF ThreadType
<1>7. \A j \in k + 1 .. n : s.c[j].th = l
  <2>1. \A j \in k + 1 .. n : j = n BY ONLY <1>1, <1>2
  <2> QED BY <1>1, <2>1
<1>8. s.c[n].is # "start" => s.c[k].th = l
  <2>1. n - 1 = k /\ n > 1 BY ONLY <1>1, <1>2
  <2> QED BY ONLY <1>1, <2>1 DEF Shape
<1>9. /\ r.ci = FramesIn(s.c, n, l)
      /\ r.nCcalls >= r.baseCcalls + CallsIn(s.c, n, l)
      /\ r.errfunc = Handler(s.c, n, l)
      /\ ~Handled(s.c, n, l) =>
           r.nCcalls = r.baseCcalls + CallsIn(s.c, n, l)
  BY <1>1 DEF Counts, CountsAt, Exact, ExactAt
<1>10. s.c[n].is # "try" => r.errfunc = Handler(s.c, k, l)
  <2>1. r.errfunc \in BOOLEAN /\ Handler(s.c, k, l) \in BOOLEAN
    BY <1>1 DEF ThreadType, Handler
  <2>2. s.c[n].is # "try" => (Handler(s.c, n, l) <=> Handler(s.c, k, l))
    BY ONLY <1>1, <1>2, <1>5 DEF Adds
  <2>3. s.c[n].is # "try" => (r.errfunc <=> Handler(s.c, k, l))
    BY <1>9, <2>2
  <2> QED BY ONLY <2>1, <2>3
<1>11. FramesIn(s.c, k, l) = r.ci - C!Frames(s.c[n])
  BY ONLY <1>1, <1>2, <1>5, <1>6, <1>9 DEF Adds
<1>12. /\ CallsIn(s.c, k, l) \in Nat
       /\ r.nCcalls >= r.baseCcalls + CallsIn(s.c, k, l)
                         + (IF s.c[n].called THEN 1 ELSE 0)
  BY ONLY <1>1, <1>2, <1>5, <1>6, <1>9 DEF Adds
<1>13. ~Handled(s.c, k, l) /\ ~s.c[n].handles =>
         r.nCcalls = r.baseCcalls + CallsIn(s.c, k, l)
                       + (IF s.c[n].called THEN 1 ELSE 0)
  BY ONLY <1>1, <1>2, <1>5, <1>6, <1>9 DEF Adds
<1>14. Under(s, n, l, r, k)
  BY ONLY <1>2, <1>3, <1>6, <1>7, <1>8, <1>10, <1>11, <1>12, <1>13,
          n = Len(s.c) DEF Under
<1> QED BY <1>14

(* The end of a try or of a coroutine, without an error.                   *)
LEMMA EndedLemma ==
  ASSUME NEW s, ThreadsInv(s), ~s.raise
  PROVE  ThreadsInv(C!Ended(s))
<1> DEFINE l == C!L(s)
           n == Len(s.c)
           r == s.th[l]
           t == C!Ended(s)
<1>1. /\ Loose(s) /\ s \in StateType /\ n \in Nat \ {0} /\ l \in C!Thread
      /\ s.th \in [C!Thread -> ThreadType] /\ r \in ThreadType
      /\ C!Top(s) = s.c[n] /\ C!Now(s) = r /\ Mine(r, l)
      /\ s.c[n] \in EntryType /\ Shape(s.c, n) /\ Good(s.c, s.th, n)
      /\ s.c[n].th = l
  BY RunLemma
<1>2. n = Len(s.c) /\ l = C!L(s) /\ r = s.th[l] OBVIOUS
<1>3. ASSUME NEW q \in ThreadType, NEW k \in Nat \ {0}, n = k + 1,
             k \in 1 .. Len(s.c)
      PROVE  /\ Is(C!Pop(C!Set(s, q)), SubSeq(s.c, 1, k), Put(s.th, l, q))
             /\ ~C!Pop(C!Set(s, q)).raise
  <2> DEFINE w == C!Set(s, q)
  <2>1. Is(w, s.c, Put(s.th, l, q)) /\ w.raise = s.raise BY <1>1, SetIs
  <2> HIDE DEF w
  <2>2. w \in StateType /\ w.c = s.c /\ w.th = Put(s.th, l, q) BY <2>1 DEF Is
  <2>3. Len(w.c) - 1 = k /\ k \in 0 .. Len(w.c) BY <1>1, <1>3, <2>2
  <2>4. Is(C!Upto(w, k), SubSeq(w.c, 1, k), w.th)
        /\ C!Upto(w, k).raise = w.raise
    BY <2>2, <2>3, UptoForm
  <2>5. C!Pop(w) = C!Upto(w, k) BY <2>3 DEF C!Pop
  <2> QED BY <2>1, <2>2, <2>4, <2>5 DEF w
<1>4. CASE s.c[n].is = "try"
  <2> DEFINE h == s.c[n].old.errfunc
             q == [r EXCEPT !.errfunc = h]
  <2>1. t = C!Pop(C!Set(s, q)) BY <1>1, <1>4 DEF C!Ended
  <2>2. h \in BOOLEAN BY <1>1 DEF EntryType, OldType
  <2> HIDE DEF h
  <2>3. /\ q \in ThreadType /\ q.errfunc = h /\ q.ci = r.ci
        /\ q.nCcalls = r.nCcalls /\ q.baseCcalls = r.baseCcalls
        /\ q.status = r.status /\ q.fresh = r.fresh
    BY <1>1, <2>2 DEF ThreadType
  <2> HIDE DEF q, t, l, n, r
  <2>12. PICK k \in Nat \ {0} : Under(s, n, l, r, k)
    <3>1. s.c[n].is # "host" BY <1>4
    <3> QED BY ONLY ThreadsInv(s), ~s.raise, <1>2, <3>1, BelowLemma
  <2>4. /\ n = k + 1 /\ k \in 1 .. Len(s.c)
        /\ \A j \in k + 1 .. Len(s.c) : s.c[j].th = l
        /\ s.c[n].is # "start" => s.c[k].th = l
        /\ FramesIn(s.c, k, l) = r.ci - C!Frames(s.c[n])
        /\ r.nCcalls >= r.baseCcalls + CallsIn(s.c, k, l)
                          + (IF s.c[n].called THEN 1 ELSE 0)
        /\ ~Handled(s.c, k, l) /\ ~s.c[n].handles =>
             r.nCcalls = r.baseCcalls + CallsIn(s.c, k, l)
                           + (IF s.c[n].called THEN 1 ELSE 0)
        /\ r.ci \in Int /\ r.nCcalls \in Int /\ r.baseCcalls \in Int
        /\ CallsIn(s.c, k, l) \in Nat
    BY <2>12 DEF Under
  <2>5. ~s.c[n].called /\ ~s.c[n].handles BY <1>1, <1>4 DEF Shape, Jump
  <2>6. C!Frames(s.c[n]) = 0 BY <1>1, <1>4, EntryFrames DEF Jump
  <2>7. h = Handler(s.c, k, l)
    <3>1. Saves(s.c, n, l, r.baseCcalls) BY <1>1, <1>2, <1>4 DEF Good
    <3>2. n - 1 = k BY ONLY <2>4
    <3> QED BY <3>1, <3>2 DEF Saves, h
  <2>8. CountsAt(s.c, k, q, l) /\ ExactAt(s.c, k, q, l)
    BY ONLY <2>3, <2>4, <2>5, <2>6, <2>7 DEF CountsAt, ExactAt
  <2>9. s.c[k].th = l /\ Mine(q, l) /\ q.baseCcalls = s.th[l].baseCcalls
    BY <1>1, <1>2, <1>4, <2>3, <2>4 DEF Mine
  <2>10. Is(t, SubSeq(s.c, 1, k), Put(s.th, l, q)) /\ ~t.raise
    BY <1>3, <2>1, <2>3, <2>4
  <2>11. ThreadsInv(t)
    BY ONLY <1>1, <1>2, <2>3, <2>4, <2>8, <2>9, <2>10, CutLemma
  <2> QED BY <2>11 DEF t
<1>5. CASE s.c[n].is = "start"
  <2> DEFINE v == r.nCcalls - 1
             q == [r EXCEPT !.nCcalls = v]
  <2>1. t = C!Pop(C!Set(s, q)) BY <1>1, <1>5 DEF C!Ended
  <2>2. v \in Int BY <1>1 DEF ThreadType
  <2> HIDE DEF v
  <2>3. /\ q \in ThreadType /\ q.ci = r.ci
        /\ q.status = r.status /\ q.fresh = r.fresh
    BY <1>1, <2>2 DEF ThreadType
  <2> HIDE DEF q, t, l, n, r
  <2>12. PICK k \in Nat \ {0} : Under(s, n, l, r, k)
    <3>1. s.c[n].is # "host" BY <1>5
    <3> QED BY ONLY ThreadsInv(s), ~s.raise, <1>2, <3>1, BelowLemma
  <2>4. /\ n = k + 1 /\ k \in 1 .. Len(s.c)
        /\ \A j \in k + 1 .. Len(s.c) : s.c[j].th = l
        /\ FramesIn(s.c, k, l) = r.ci - C!Frames(s.c[n])
        /\ r.ci \in Int
    BY <2>12 DEF Under
  <2>5. Own(s.c, k, l) = {} /\ l \in Co
    <3>1. n - 1 = k /\ n > 1 BY ONLY <2>4
    <3> QED BY ONLY <1>1, <1>5, <3>1 DEF Shape
  <2>6. s.c[k].th # l
    <3>1. k \in 1 .. k BY ONLY <2>4
    <3> QED BY ONLY <2>5, <3>1 DEF Own
  <2>7. r.ci = 0
    <3>1. FramesIn(s.c, k, l) = 0 BY <2>4, <2>5, NoneLemma
    <3>2. C!Frames(s.c[n]) = 0 BY <1>1, <1>5, EntryFrames DEF Jump
    <3> QED BY ONLY <2>4, <3>1, <3>2
  <2>8. Outside(q) BY <1>1, <2>3, <2>5, <2>7 DEF Outside, Mine
  <2>10. Is(t, SubSeq(s.c, 1, k), Put(s.th, l, q)) /\ ~t.raise
    BY <1>3, <2>1, <2>3, <2>4
  <2>11. Leaves(s, k, l, q, t)
    BY ONLY <1>1, <1>2, <2>3, <2>4, <2>5, <2>6, <2>8, <2>10 DEF Leaves
  <2> QED BY <2>11, LeaveLemma DEF t
<1>6. CASE s.c[n].is \notin {"try", "start"}
  <2>1. t = s BY <1>1, <1>6 DEF C!Ended
  <2> QED BY <2>1
<1> QED BY <1>4, <1>5, <1>6

LEMMA StepReturn ==
  ASSUME ThreadsInv(vm), C!Return
  PROVE  ThreadsInv(vm')
<1> DEFINE l == C!L(vm)
           r == vm.th[l]
           n == Len(vm.c)
           e == vm.c[n]
<1>1. /\ ~vm.raise
      /\ C!Top(vm).is \in {"execute", "plain", "pcall", "xpcall", "resume", "wrap"}
  BY DEF C!Return, C!Runs
<1>2. /\ Loose(vm) /\ vm \in StateType /\ n \in Nat \ {0}
      /\ n >= 2 /\ l \in C!Thread /\ vm.c \in Seq(EntryType)
      /\ vm.th \in [C!Thread -> ThreadType] /\ r \in ThreadType
      /\ e \in EntryType /\ e.th = l /\ C!Top(vm) = e /\ C!Now(vm) = r
      /\ Mine(r, l) /\ Shape(vm.c, n)
  <2>1. vm.c[n].is # "host" BY <1>1, RunLemma
  <2> QED BY <1>1, <2>1, RunLemma
<1>3. n = Len(vm.c) /\ l = C!L(vm) /\ r = vm.th[l] /\ Len(vm.c) >= 2
  BY <1>2
<1>4. CASE e.is = "execute" /\ e.n > 1
  <2> DEFINE i == r.ci - 1
             q == [r EXCEPT !.ci = i]
             w == C!Set(vm, q)
             v == e.n - 1
  <2>1. vm' = [w EXCEPT !.c[n].n = @ - 1] BY <1>2, <1>4 DEF C!Return
  <2>2. i \in Int /\ v \in Nat /\ v >= 1 /\ e.n \in Nat /\ r.ci \in Int
    <3>1. r.ci \in Int /\ e.n \in Nat BY <1>2 DEF ThreadType, EntryType
    <3> HIDE DEF e, r
    <3> QED BY <1>4, <3>1
  <2> HIDE DEF i
  <2>3. /\ q \in ThreadType /\ q.ci = i /\ q.nCcalls = r.nCcalls
        /\ q.baseCcalls = r.baseCcalls /\ q.errfunc = r.errfunc
        /\ q.status = r.status /\ q.fresh = r.fresh
    BY <1>2, <2>2 DEF ThreadType
  <2> HIDE DEF q
  <2>4. Is(w, vm.c, Put(vm.th, l, q)) /\ w.raise = vm.raise
    BY <1>2, <2>3, SetIs
  <2> HIDE DEF w
  <2>5. w \in StateType /\ w.c = vm.c /\ w.th = Put(vm.th, l, q) BY <2>4 DEF Is
  <2>6. vm' = [w EXCEPT !.c[n].n = v]
    <3>1. w.c[n].n - 1 = v BY <2>5
    <3> QED BY <2>1, <3>1, Zenon
  <2> HIDE DEF v
  <2>7. Is(vm', Bump(vm.c, n, v), Put(vm.th, l, q)) /\ ~vm'.raise
    <3>1. n = Len(w.c) /\ n \in Nat \ {0} BY <1>2, <2>5
    <3>2. Is(vm', Bump(w.c, n, v), w.th) /\ vm'.raise = w.raise
      BY ONLY <2>2, <2>5, <2>6, <3>1, BumpIs
    <3> QED BY <1>1, <2>4, <2>5, <3>2
  <2>8. q.ci = r.ci - C!Frames(vm.c[n]) + C!Frames(Bump(vm.c, n, v)[n])
    <3>1. Bumped(vm.c, Bump(vm.c, n, v), n, v) BY <1>2, <2>2, BumpLemma
    <3>2. C!Frames(Bump(vm.c, n, v)[n]) = v
      BY <1>4, <3>1 DEF Bumped, Alike, C!Frames
    <3>3. C!Frames(vm.c[n]) = e.n BY <1>4 DEF C!Frames
    <3> QED BY <2>2, <2>3, <3>2, <3>3 DEF i, v
  <2>9. Mine(q, l) BY <1>2, <2>3 DEF Mine
  <2> HIDE DEF n, l, r
  <2> QED BY ONLY ThreadsInv(vm), <1>1, <1>3, <2>2, <2>3, <2>7, <2>8, <2>9,
             TopLemma
<1>5. CASE ~(e.is = "execute" /\ e.n > 1)
  <2> DEFINE i == r.ci - 1
             m == IF e.called THEN r.nCcalls - 1 ELSE r.nCcalls
             q == [r EXCEPT !.ci = i, !.nCcalls = m]
             w == C!Set(vm, q)
             t == C!LeaveTop(vm)
  <2>1. t = C!Pop(w) BY <1>2 DEF C!LeaveTop
  <2>2. /\ i \in Int /\ m \in Int /\ r.ci \in Int /\ i = r.ci - 1
        /\ m = r.nCcalls - (IF e.called THEN 1 ELSE 0)
    BY <1>2 DEF ThreadType
  <2> HIDE DEF i, m
  <2>3. /\ q \in ThreadType /\ q.ci = i /\ q.nCcalls = m
        /\ q.baseCcalls = r.baseCcalls /\ q.errfunc = r.errfunc
        /\ q.status = r.status /\ q.fresh = r.fresh
    BY <1>2, <2>2 DEF ThreadType
  <2> HIDE DEF q
  <2>4. Is(w, vm.c, Put(vm.th, l, q)) /\ w.raise = vm.raise
    BY <1>2, <2>3, SetIs
  <2> HIDE DEF w
  <2>5. w \in StateType /\ w.c = vm.c /\ w.th = Put(vm.th, l, q) BY <2>4 DEF Is
  <2>6. vm' = IF e.handles THEN C!Throw([vm EXCEPT !.th = t.th])
              ELSE C!Ended(t)
    BY <1>2, <1>5 DEF C!Return
  <2>7. Mine(q, l) /\ q.baseCcalls = vm.th[l].baseCcalls
    BY <1>2, <2>3 DEF Mine
  <2>8. /\ Is(t, SubSeq(vm.c, 1, n - 1), Put(vm.th, l, q)) /\ ~t.raise
    <3>1. n - 1 \in 0 .. Len(w.c) /\ Len(w.c) - 1 = n - 1 BY <1>2, <2>5
    <3>2. t = C!Upto(w, n - 1) BY <2>1, <3>1 DEF C!Pop
    <3>3. Is(C!Upto(w, n - 1), SubSeq(w.c, 1, n - 1), w.th)
          /\ C!Upto(w, n - 1).raise = w.raise
      BY <2>5, <3>1, UptoForm
    <3> QED BY <1>1, <2>4, <2>5, <3>2, <3>3
  <2> HIDE DEF t
  <2>9. CASE e.handles
    <3> DEFINE y == [vm EXCEPT !.th = t.th]
    <3>1. vm' = C!Throw(y) BY <2>6, <2>9
    <3>2. Is(y, vm.c, Put(vm.th, l, q)) /\ ~y.raise
      <4>1. t.th = Put(vm.th, l, q) /\ t \in StateType BY <2>8 DEF Is
      <4>2. t.th \in [C!Thread -> ThreadType] BY <4>1 DEF StateType
      <4>3. y \in StateType BY <1>2, <4>2 DEF StateType
      <4>4. y.c = vm.c /\ y.th = t.th /\ y.raise = vm.raise
        BY <1>2 DEF StateType
      <4> HIDE DEF y
      <4> QED BY <1>1, <4>1, <4>3, <4>4 DEF Is
    <3> HIDE DEF y, n, l, r
    <3>3. Loose(y) BY ONLY <1>2, <1>3, <2>3, <2>7, <3>2, TouchLemma
    <3>4. Len(y.c) >= 2 BY <1>3, <3>2 DEF Is
    <3> QED BY <3>1, <3>3, <3>4, ThrowLemma
  <2>10. CASE ~e.handles
    <3>1. e.is # "host" /\ e.is # "start" /\ e.is # "try" BY <1>1, <1>2
    <3>2. C!Frames(e) = 1
      <4>1. e.is \in C!Callee BY <1>1, <1>2 DEF C!Callee, C!CKinds
      <4>2. e.is = "execute" => e.n = 1
        BY <1>2, <1>5 DEF Shape, EntryType
      <4> QED BY <1>2, <4>1, <4>2, EntryFrames
    <3>5. e = vm.c[n] OBVIOUS
    <3> HIDE DEF n, l, r, e
    <3>10. PICK k \in Nat \ {0} : Under(vm, n, l, r, k)
      BY ONLY ThreadsInv(vm), <1>1, <1>3, <3>1, <3>5, BelowLemma
    <3>3. /\ n = k + 1 /\ k \in 1 .. Len(vm.c)
          /\ \A j \in k + 1 .. Len(vm.c) : vm.c[j].th = l
          /\ vm.c[n].is # "start" => vm.c[k].th = l
          /\ FramesIn(vm.c, k, l) = r.ci - C!Frames(vm.c[n])
          /\ r.nCcalls >= r.baseCcalls + CallsIn(vm.c, k, l)
                            + (IF vm.c[n].called THEN 1 ELSE 0)
          /\ ~Handled(vm.c, k, l) /\ ~vm.c[n].handles =>
               r.nCcalls = r.baseCcalls + CallsIn(vm.c, k, l)
                             + (IF vm.c[n].called THEN 1 ELSE 0)
          /\ vm.c[n].is # "try" => r.errfunc = Handler(vm.c, k, l)
          /\ r.ci \in Int /\ r.nCcalls \in Int /\ r.baseCcalls \in Int
          /\ CallsIn(vm.c, k, l) \in Nat
      BY <3>10 DEF Under
    <3>4. CountsAt(vm.c, k, q, l) /\ ExactAt(vm.c, k, q, l)
      BY ONLY <2>2, <2>3, <2>10, <3>1, <3>2, <3>3, <3>5 DEF CountsAt, ExactAt
    <3>6. n - 1 = k BY ONLY <3>3
    <3>7. Is(t, SubSeq(vm.c, 1, k), Put(vm.th, l, q)) /\ vm.c[k].th = l
      BY <2>8, <3>1, <3>3, <3>5, <3>6
    <3>8. ThreadsInv(t)
      BY ONLY <1>2, <1>3, <2>3, <2>7, <2>8, <3>3, <3>4, <3>7, CutLemma
    <3>9. vm' = C!Ended(t) BY <2>6, <2>10
    <3> QED BY ONLY <2>8, <3>8, <3>9, EndedLemma
  <2> QED BY <2>9, <2>10
<1> QED BY <1>4, <1>5

-----------------------------------------------------------------------------
(* Steps: coroutines.                                                      *)

(* A thread that has no C call of its own when it yields was resumed right *)
(* below: its one luaV_execute() is what lua_resume() calls.               *)
Yields(s, n, l, r, k) ==
  /\ n = k + 3 /\ ~s.c[n].called /\ s.c[k + 1].is = "start"
  /\ \A j \in k + 1 .. n : s.c[j].th = l
  /\ s.c[k].th # l /\ Own(s.c, k, l) = {} /\ l \in Co
  /\ r.ci >= 2 /\ ~r.errfunc

LEMMA YieldsLemma ==
  ASSUME NEW s, ThreadsInv(s), ~s.raise, NEW n, n = Len(s.c), NEW l, l = C!L(s),
         NEW r, r = s.th[l], s.c[n].is = "yield", r.nCcalls <= r.baseCcalls
  PROVE  \E k \in Nat \ {0} : Yields(s, n, l, r, k)
<1>1. /\ Loose(s) /\ n \in Nat \ {0} /\ n >= 2 /\ r \in ThreadType
      /\ s.c[n].th = l /\ Shape(s.c, n) /\ s.c[n] \in EntryType
      /\ s.c[1].is = "host"
  BY RunLemma, LooseLemma
<1>2. PICK m \in Nat \ {0} : Under(s, n, l, r, m)
  <2>1. s.c[n].is # "host" OBVIOUS
  <2> QED BY ONLY ThreadsInv(s), ~s.raise, n = Len(s.c), l = C!L(s),
             r = s.th[l], <2>1, BelowLemma
<1>3. /\ n = m + 1 /\ s.c[m].th = l
      /\ FramesIn(s.c, m, l) = r.ci - C!Frames(s.c[n])
      /\ r.nCcalls >= r.baseCcalls + CallsIn(s.c, m, l)
                        + (IF s.c[n].called THEN 1 ELSE 0)
      /\ r.errfunc = Handler(s.c, m, l)
      /\ r.ci \in Int /\ r.nCcalls \in Int /\ r.baseCcalls \in Int
      /\ CallsIn(s.c, m, l) \in Nat /\ m \in 1 .. Len(s.c)
  BY <1>2 DEF Under
<1>25. n = m + 1 /\ m \in Nat \ {0} BY <1>3
<1>4. CallsIn(s.c, m, l) = 0 /\ ~s.c[n].called
  BY ONLY <1>3, r.nCcalls <= r.baseCcalls
<1>5. s.c[m].is = "execute"
  <2>1. s.c[n].is \in C!Callee /\ s.c[n].is # "execute"
    BY DEF C!Callee, C!CKinds
  <2>2. n - 1 = m /\ n > 1 BY ONLY <1>1, <1>25
  <2> QED BY ONLY <1>1, <1>4, <2>1, <2>2 DEF Shape
<1>6. PICK i \in Nat \ {0} : m = i + 1
  <2>1. m # 1 BY <1>1, <1>5
  <2>2. m - 1 \in Nat \ {0} /\ m = (m - 1) + 1 BY ONLY <2>1, m \in Nat \ {0}
  <2> QED BY ONLY <2>2
<1>7. /\ Shape(s.c, m) /\ i \in 1 .. Len(s.c) /\ Shape(s.c, i)
      /\ s.c[m] \in EntryType /\ s.c[i] \in EntryType
  <2>1. m \in 1 .. Len(s.c) /\ i \in 1 .. Len(s.c) BY <1>1, <1>3, <1>6
  <2> QED BY <1>1, <2>1, LooseLemma
<1>8. \A j \in 1 .. n : s.c[j] \in EntryType BY <1>1, LooseLemma
<1>9. Adds(s.c, i, l)
  <2>1. \A j \in 1 .. i + 1 : s.c[j] \in EntryType
    BY ONLY <1>1, <1>3, <1>6, <1>8
  <2>2. i \in Nat OBVIOUS
  <2> QED BY ONLY <2>1, <2>2, StepLemma
<1>10. /\ ~s.c[m].called /\ CallsIn(s.c, i, l) = 0
       /\ FramesIn(s.c, m, l) = FramesIn(s.c, i, l) + C!Frames(s.c[m])
       /\ Handler(s.c, m, l) <=> Handler(s.c, i, l)
  BY ONLY <1>3, <1>4, <1>5, <1>6, <1>9 DEF Adds
<1>11. s.c[i].is = "start" /\ s.c[i].th = l
  <2>1. m - 1 = i /\ m > 1 BY ONLY <1>6
  <2>2. s.c[m].is \in C!Callee BY <1>5 DEF C!Callee
  <2> QED BY ONLY <1>3, <1>5, <1>7, <1>10, <2>1, <2>2 DEF Shape
<1>12. PICK k \in Nat \ {0} : i = k + 1
  <2>1. i # 1 BY <1>1, <1>11
  <2>2. i - 1 \in Nat \ {0} /\ i = (i - 1) + 1 BY ONLY <2>1, i \in Nat \ {0}
  <2> QED BY ONLY <2>2
<1>13. Own(s.c, k, l) = {} /\ l \in Co
  <2>1. i - 1 = k /\ i > 1 BY ONLY <1>12
  <2> QED BY ONLY <1>7, <1>11, <2>1 DEF Shape
<1>14. s.c[k].th # l
  <2>1. k \in 1 .. k BY ONLY k \in Nat \ {0}
  <2> QED BY ONLY <1>13, <2>1 DEF Own
<1>15. Adds(s.c, k, l)
  <2>1. \A j \in 1 .. k + 1 : s.c[j] \in EntryType
    BY ONLY <1>1, <1>3, <1>6, <1>8, <1>12
  <2>2. k \in Nat OBVIOUS
  <2> QED BY ONLY <2>1, <2>2, StepLemma
<1>16. FramesIn(s.c, k, l) = 0 /\ ~Handler(s.c, k, l) BY <1>13, NoneLemma
<1>17. /\ C!Frames(s.c[i]) = 0 /\ C!Frames(s.c[m]) = s.c[m].n
       /\ C!Frames(s.c[n]) = 1 /\ s.c[m].n >= 1 /\ s.c[m].n \in Nat
  <2>1. s.c[m].n >= 1 BY ONLY <1>5, <1>7 DEF Shape
  <2>2. s.c[m].n \in Nat BY ONLY <1>7 DEF EntryType
  <2> QED BY <1>5, <1>11, <2>1, <2>2 DEF C!Frames
<1>18. FramesIn(s.c, i, l) = 0 /\ ~Handler(s.c, i, l)
  BY ONLY <1>11, <1>12, <1>15, <1>16, <1>17 DEF Adds
<1>19. r.ci >= 2 BY ONLY <1>3, <1>10, <1>17, <1>18
<1>20. ~r.errfunc BY <1>3, <1>10, <1>18
<1>21. n = k + 3 BY ONLY <1>3, <1>6, <1>12
<1>22. \A j \in k + 1 .. n : s.c[j].th = l
  <2>1. \A j \in k + 1 .. n : j = i \/ j = m \/ j = n
    BY ONLY k \in Nat \ {0}, <1>6, <1>12, <1>21, <1>25
  <2> QED BY ONLY <1>1, <1>3, <1>11, <2>1
<1>23. s.c[k + 1].is = "start" BY ONLY <1>11, <1>12
<1>24. Yields(s, n, l, r, k)
  BY ONLY <1>4, <1>13, <1>14, <1>19, <1>20, <1>21, <1>22, <1>23 DEF Yields
<1> QED BY <1>24

LEMMA StepYield ==
  ASSUME ThreadsInv(vm), C!Yield
  PROVE  ThreadsInv(vm')
<1> DEFINE l == C!L(vm)
           r == vm.th[l]
           n == Len(vm.c)
<1>1. ~vm.raise /\ C!Top(vm).is = "yield" BY DEF C!Yield, C!Runs
<1>2. /\ Loose(vm) /\ vm \in StateType /\ n \in Nat \ {0}
      /\ n >= 2 /\ l \in C!Thread /\ r \in ThreadType
      /\ C!Top(vm) = vm.c[n] /\ C!Now(vm) = r /\ Mine(r, l)
  <2>1. vm.c[n].is # "host" BY <1>1, RunLemma
  <2> QED BY <1>1, <2>1, RunLemma
<1>3. CASE C!YieldRefused(r)
  <2>1. vm' = C!Raise(vm) BY <1>2, <1>3 DEF C!Yield
  <2> QED BY <1>2, <2>1, RaiseLemma
<1>4. CASE ~C!YieldRefused(r)
  <2>1. r.nCcalls <= r.baseCcalls
    <3>1. r.nCcalls \in Int /\ r.baseCcalls \in Int BY <1>2 DEF ThreadType
    <3> QED BY <1>4, <3>1 DEF C!YieldRefused
  <2>12. PICK k \in Nat \ {0} : Yields(vm, n, l, r, k)
    <3>1. n = Len(vm.c) /\ l = C!L(vm) /\ r = vm.th[l] OBVIOUS
    <3>2. vm.c[n].is = "yield" BY <1>1, <1>2
    <3> HIDE DEF n, l, r
    <3> QED BY ONLY ThreadsInv(vm), <1>1, <2>1, <3>1, <3>2, YieldsLemma
  <2>2. /\ n = k + 3 /\ ~vm.c[n].called /\ vm.c[k + 1].is = "start"
        /\ \A j \in k + 1 .. n : vm.c[j].th = l
        /\ vm.c[k].th # l /\ Own(vm.c, k, l) = {} /\ l \in Co
        /\ r.ci >= 2 /\ ~r.errfunc
    BY ONLY <2>12 DEF Yields
  <2> DEFINE v == r.nCcalls - 1
             y == "yield"
             q == [r EXCEPT !.status = y, !.nCcalls = v]
             w == C!Set(vm, q)
  <2>3. n - 2 = k + 1 /\ n - 3 = k /\ k \in 1 .. n BY <1>2, <2>2
  <2>4. vm' = C!Upto(w, k)
    <3>1. vm' = C!Upto(w, n - 3)
      <4>1. ~C!Top(vm).called /\ vm.c[n - 2].is = "start" BY <1>2, <2>2, <2>3
      <4>2. vm' = CASE C!YieldRefused(r) -> C!Raise(vm)
                    [] ~C!YieldRefused(r) /\ ~C!Top(vm).called
                         /\ vm.c[n - 2].is = "start" -> C!Upto(w, n - 3)
                    [] OTHER -> C!Upto(vm, 0)
        BY <1>2, Zenon DEF C!Yield
      <4> HIDE DEF w, n, r
      <4> QED BY <1>4, <4>1, <4>2
    <3> QED BY <2>3, <3>1
  <2>5. v \in Int BY <1>2 DEF ThreadType
  <2>6. /\ q \in ThreadType /\ q.status = y /\ q.ci = r.ci
        /\ q.errfunc = r.errfunc /\ q.fresh = r.fresh
    <3> HIDE DEF v
    <3> QED BY <1>2, <2>5 DEF ThreadType
  <2> HIDE DEF q
  <2>7. Is(w, vm.c, Put(vm.th, l, q)) /\ w.raise = vm.raise
    BY <1>2, <2>6, SetIs
  <2> HIDE DEF w
  <2>8. Is(vm', SubSeq(vm.c, 1, k), Put(vm.th, l, q)) /\ ~vm'.raise
    <3>1. w \in StateType /\ w.c = vm.c /\ w.th = Put(vm.th, l, q)
      BY <2>7 DEF Is
    <3>2. k \in 0 .. Len(w.c) BY <2>3, <3>1
    <3>3. Is(C!Upto(w, k), SubSeq(w.c, 1, k), w.th)
          /\ C!Upto(w, k).raise = w.raise
      BY <3>1, <3>2, UptoForm
    <3> QED BY <1>1, <2>4, <2>7, <3>1, <3>3
  <2>9. Outside(q)
    <3>1. ~r.fresh BY <1>2, <2>2 DEF Mine
    <3> QED BY <2>2, <2>6, <3>1 DEF Outside
  <2>10. n = Len(vm.c) /\ l = C!L(vm) OBVIOUS
  <2> HIDE DEF n, l, r
  <2>11. Leaves(vm, k, l, q, vm')
    BY ONLY <1>2, <2>2, <2>3, <2>6, <2>8, <2>9, <2>10 DEF Leaves
  <2> QED BY <2>11, LeaveLemma
<1> QED BY <1>3, <1>4

LEMMA RefusedLemma ==
  ASSUME NEW s, ThreadsInv(s), ~s.raise, C!Top(s).is \in {"resume", "wrap"}
  PROVE  ThreadsInv(C!Refused(s))
<1> DEFINE n == Len(s.c)
           t == C!Done(s)
<1>1. n = Len(s.c) /\ s.c[n].is \in {"pcall", "xpcall", "resume", "wrap"}
  BY RunLemma
<1> HIDE DEF n
<1>2. /\ ThreadsInv(t) /\ Is(t, Bump(s.c, n, 1), s.th)
      /\ Bumped(s.c, Bump(s.c, n, 1), n, 1) /\ n >= 2
  BY ONLY ThreadsInv(s), ~s.raise, <1>1, DoneLemma
<1>3. Len(t.c) >= 2 BY ONLY <1>2 DEF Is, Bumped
<1> HIDE DEF t
<1>4. ThreadsInv(C!Raise(t)) BY ONLY <1>2, <1>3, RaiseLemma
<1> QED BY <1>2, <1>4 DEF C!Refused, t

(* A coroutine that has just been started, or goes on, on the C stack c of *)
(* whoever resumes it, of n entries.                                       *)
Starting(s, n, co, level, q) ==
  /\ ThreadsInv(s) /\ ~s.raise /\ n = Len(s.c)
  /\ s.c[n].is \in {"resume", "wrap"} /\ co \in Co /\ Own(s.c, n, co) = {}
  /\ level = s.th[C!L(s)].nCcalls + 1 /\ level <= MaxCCalls
  /\ q \in ThreadType /\ q.status = "ok" /\ ~q.fresh /\ ~q.errfunc
  /\ q.nCcalls = level /\ q.baseCcalls = level
Opens(d, n, co) ==
  /\ d \in Seq(EntryType) /\ Len(d) = n + 1 /\ n \in Nat \ {0, 1}
  /\ d[n + 1].is = "start" /\ d[n + 1].th = co
  /\ FramesIn(d, n + 1, co) = 0 /\ CallsIn(d, n + 1, co) = 0
  /\ ~Handled(d, n + 1, co) /\ ~Handler(d, n + 1, co)

(* The state t in which nothing but its start is on the C stack.           *)
Started(s, n, co, level, q, d, t) ==
  /\ Starting(s, n, co, level, q) /\ q.ci = 0
  /\ d = Append(s.c, C!Entry(co, "start", FALSE, 0))
  /\ Is(t, d, Put(s.th, co, q)) /\ ~t.raise

LEMMA StartLemma ==
  ASSUME NEW s, NEW n, NEW co, NEW level, NEW q, NEW d, NEW t,
         Started(s, n, co, level, q, d, t)
  PROVE  ThreadsInv(t) /\ C!L(t) = co /\ Opens(d, n, co)
<1> /\ Starting(s, n, co, level, q) /\ q.ci = 0
    /\ d = Append(s.c, C!Entry(co, "start", FALSE, 0))
    /\ Is(t, d, Put(s.th, co, q)) /\ ~t.raise
  BY DEF Started
<1> DEFINE e == C!Entry(co, "start", FALSE, 0)
           l == C!L(s)
<1>1. /\ ThreadsInv(s) /\ ~s.raise /\ n = Len(s.c)
      /\ s.c[n].is \in {"resume", "wrap"} /\ co \in Co /\ Own(s.c, n, co) = {}
      /\ level = s.th[l].nCcalls + 1 /\ level <= MaxCCalls
      /\ q \in ThreadType /\ q.status = "ok" /\ ~q.fresh /\ ~q.errfunc
      /\ q.nCcalls = level /\ q.baseCcalls = level
  BY DEF Starting
<1>2. /\ Loose(s) /\ n \in Nat \ {0} /\ n >= 2 /\ s.c \in Seq(EntryType)
      /\ s.c[n].th = l /\ l \in C!Thread /\ s.th[l] \in ThreadType
      /\ Counts(s.c, s.th[l], l) /\ Exact(s.c, s.th[l], l)
      /\ Good(s.c, s.th, n) /\ n \in 1 .. Len(s.c) /\ s.c[1].is = "host"
      /\ s.th \in [C!Thread -> ThreadType]
  <2>1. s.c[n].is # "host" BY <1>1
  <2> QED BY <1>1, <2>1, RunLemma, LooseLemma
<1>3. co \in C!Thread /\ co # Main BY <1>1, LimitsLemma DEF C!Thread
<1>4. /\ e \in EntryType /\ e.th = co /\ e.is = "start" /\ ~e.called
      /\ ~e.handles
  <2>1. C!None \in OldType BY DEF C!None, OldType
  <2> QED BY <1>3, <2>1 DEF C!Entry, EntryType, Kind
<1>5. d = Append(s.c, e) OBVIOUS
<1> HIDE DEF e, l
<1>6. Pushed(s.c, e, d, n) BY ONLY <1>1, <1>2, <1>4, <1>5, AppendLemma
<1>7. /\ d \in Seq(EntryType) /\ Len(d) = n + 1 /\ d[n + 1] = e
      /\ \A j \in 1 .. n : d[j] = s.c[j]
      /\ \A j \in 1 .. n + 1 : d[j] \in EntryType
      /\ \A i \in 0 .. n : Same(s.c, d, i) /\ SameFrames(s.c, d, i)
  BY <1>6 DEF Pushed
<1>8. /\ n \in 0 .. n /\ n - 1 \in 0 .. n /\ n \in 1 .. n /\ n \in Nat
  BY ONLY <1>2
<1>9. /\ Same(s.c, d, n) /\ SameFrames(s.c, d, n) /\ SameFrames(s.c, d, n - 1)
      /\ d[n] = s.c[n]
  BY ONLY <1>7, <1>8
<1>10. s.c[1].is # "try" /\ l # co
  <2>1. l # co BY <1>1, <1>2, <1>8 DEF Own
  <2> QED BY <1>2, <2>1
<1>11. Own(d, n, co) = {} /\ Nested(s.c, n) = Nested(d, n)
  BY ONLY <1>1, <1>8, <1>9, SameLemma
<1>12. /\ CallsIn(d, n, co) = 0 /\ FramesIn(d, n, co) = 0
       /\ ~Handled(d, n, co) /\ ~Handler(d, n, co)
  BY ONLY <1>8, <1>11, NoneLemma
<1>13. Adds(d, n, co) BY ONLY <1>7, <1>8, StepLemma
<1>14. C!Frames(e) = 0 BY <1>4, EntryFrames DEF Jump
<1>15. /\ FramesIn(d, n + 1, co) = 0 /\ CallsIn(d, n + 1, co) = 0
       /\ ~Handled(d, n + 1, co) /\ ~Handler(d, n + 1, co)
       /\ Nested(d, n + 1) = Nested(d, n) + 1 /\ Nested(d, n) \in Nat
  BY ONLY <1>4, <1>7, <1>12, <1>13, <1>14 DEF Adds
<1>16. Opens(d, n, co)
  <2>1. n \in Nat \ {0, 1} BY ONLY <1>2
  <2> QED BY ONLY <1>4, <1>7, <1>15, <2>1 DEF Opens
<1>17. t.th[co] = q /\ t.c = d
  BY <1>1, <1>2, <1>3, PutLemma DEF Is
<1>18. Nested(d, n + 1) <= level
  <2>1. Nested(s.c, n) <= s.th[l].baseCcalls + CallsIn(s.c, n, l)
    BY <1>2 DEF Good
  <2>2. s.th[l].nCcalls >= s.th[l].baseCcalls + CallsIn(s.c, n, l)
    BY <1>1, <1>2 DEF Counts, CountsAt
  <2>3. /\ s.th[l].nCcalls \in Int /\ s.th[l].baseCcalls \in Int
        /\ CallsIn(s.c, n, l) \in Nat
    BY <1>2, <1>8, CallsLemma DEF ThreadType
  <2> QED BY ONLY <1>1, <1>11, <1>15, <2>1, <2>2, <2>3
<1>19. Shape(d, n + 1)
  <2>1. n + 1 > 1 /\ n + 1 - 1 = n /\ n + 1 # 1 /\ n + 1 # 2 BY ONLY <1>2
  <2>2. e.is \notin C!Callee BY <1>4 DEF C!Callee, C!CKinds
  <2>3. d[n].is \in {"resume", "wrap"} BY <1>1, <1>9
  <2> QED BY ONLY <1>1, <1>4, <1>7, <1>11, <2>1, <2>2, <2>3 DEF Shape, Jump
<1>20. Good(d, t.th, n + 1)
  <2>1. level \in Int BY <1>1 DEF ThreadType
  <2>2. d[n + 1].th = co /\ d[n + 1].is # "try" BY <1>4, <1>7
  <2> QED BY ONLY <1>1, <1>15, <1>17, <1>18, <1>19, <2>1, <2>2, LimitsLemma
          DEF Good
<1>21. Mine(q, co) BY <1>1, <1>3 DEF Mine
<1>22. /\ \A j \in n + 1 .. Len(s.c) : s.c[j].th = co
       /\ \A j \in n + 1 .. Len(d) : d[j].th = co
       /\ \A i \in n + 1 .. Len(d) : Good(d, t.th, i)
  <2>1. n + 1 .. Len(s.c) = {} BY ONLY <1>1, <1>2
  <2>2. \A j \in n + 1 .. Len(d) : j = n + 1 BY ONLY <1>2, <1>7
  <2> QED BY <1>4, <1>7, <1>20, <2>1, <2>2
<1>23. IF Own(d, Len(d), co) = {} THEN Outside(q) ELSE Mine(q, co)
  <2>1. n + 1 \in Own(d, Len(d), co)
    <3>1. n + 1 \in 1 .. n + 1 BY ONLY <1>2
    <3> QED BY <1>4, <1>7, <3>1 DEF Own
  <2> QED BY <1>21, <2>1
<1>24. Counts(d, q, co) /\ Exact(d, q, co)
  <2>1. q.errfunc = Handler(d, n + 1, co)
    <3>1. q.errfunc \in BOOLEAN /\ Handler(d, n + 1, co) \in BOOLEAN
      BY <1>1 DEF ThreadType, Handler
    <3> QED BY ONLY <1>1, <1>15, <3>1
  <2>2. level \in Int BY <1>1 DEF ThreadType
  <2> QED BY ONLY <1>1, <1>7, <1>15, <2>1, <2>2, q.ci = 0
          DEF Counts, Exact, CountsAt, ExactAt
<1>25. Change(s, d, n, co, q, t)
  <2>1. C!L(s) = l BY DEF l
  <2>8. n <= Len(d) BY ONLY <1>7, <1>8
  <2>2. /\ Loose(s) /\ d \in Seq(EntryType) /\ n \in 1 .. Len(s.c)
        /\ n <= Len(d)
    BY ONLY <1>2, <1>7, <2>8
  <2>3. s.c[n].th = co \/ C!Frames(s.c[n]) = C!Frames(d[n]) BY <1>9
  <2>4. d[n].is = "execute" => d[n].n >= 1 BY <1>1, <1>9
  <2>5. Own(d, n, co) = {} \/ q.baseCcalls = s.th[co].baseCcalls BY <1>11
  <2>6. Is(t, d, Put(s.th, co, q)) /\ (t.raise => Len(d) >= 2) OBVIOUS
  <2>7. q \in ThreadType /\ co \in C!Thread BY <1>1, <1>3
  <2> QED BY ONLY <1>2, <1>9, <1>22, <1>23, <2>1, <2>2, <2>3, <2>4, <2>5, <2>6,
             <2>7 DEF Change
<1>26. C!L(t) = co
  <2>1. C!L(t) = d[Len(d)].th BY ONLY <1>25, ChangeLemma
  <2> QED BY <1>4, <1>7, <2>1
<1>27. ThreadsInv(t)
  <2>1. C!L(t) = co /\ Counts(d, q, co) /\ (t.raise \/ Exact(d, q, co))
          => ThreadsInv(t)
    BY ONLY <1>25, ChangeLemma
  <2> QED BY ONLY <1>24, <1>26, <2>1
<1> QED BY <1>16, <1>26, <1>27

(* What the coroutine runs first fits on top of its start.                 *)
First(d, n, co, i, e) ==
  /\ e \in EntryType /\ Fits(d[n + 1], e, n + 1) /\ C!Frames(e) = i
  /\ e.is = "execute"
  /\ \A q : /\ q \in ThreadType /\ q.ci = i /\ q.nCcalls = q.baseCcalls
            /\ q.baseCcalls <= MaxCCalls /\ ~q.errfunc
            => Room(d, n + 1, e, q, co)

LEMMA OpensLemma ==
  ASSUME NEW d, NEW n, NEW co, Opens(d, n, co),
         NEW i \in Nat \ {0}, NEW e, e = C!Entry(co, "execute", FALSE, i),
         co \in C!Thread
  PROVE  First(d, n, co, i, e)
<1>1. /\ e \in EntryType /\ e.th = co /\ e.is = "execute" /\ ~e.called
      /\ ~e.handles /\ e.n = i
  <2>1. C!None \in OldType BY DEF C!None, OldType
  <2> QED BY <2>1 DEF C!Entry, EntryType, Kind, C!Callee
<1>2. /\ n \in Nat \ {0, 1} /\ d[n + 1].is = "start" /\ d[n + 1].th = co
      /\ FramesIn(d, n + 1, co) = 0 /\ CallsIn(d, n + 1, co) = 0
      /\ ~Handler(d, n + 1, co)
  BY DEF Opens
<1>3. C!Frames(e) = i BY <1>1 DEF C!Frames
<1>4. Fits(d[n + 1], e, n + 1)
  <2>1. n + 1 # 1 /\ i >= 1 BY ONLY <1>2, i \in Nat \ {0}
  <2> QED BY ONLY <1>1, <1>2, <2>1 DEF Fits
<1>5. ASSUME NEW q, q \in ThreadType, q.ci = i, q.nCcalls = q.baseCcalls,
             q.baseCcalls <= MaxCCalls, ~q.errfunc
      PROVE  Room(d, n + 1, e, q, co)
  <2>1. q.nCcalls \in Int /\ q.baseCcalls \in Int BY <1>5 DEF ThreadType
  <2> QED BY ONLY <1>1, <1>2, <1>3, <1>5, <2>1, i \in Nat \ {0}, LimitsLemma
          DEF Room
<1> QED BY ONLY <1>1, <1>3, <1>4, <1>5 DEF First

(* A suspended coroutine is not on the C stack. *)
LEMMA SuspendedLemma ==
  ASSUME ThreadsInv(vm), NEW co \in Co, NEW l, l = C!L(vm),
         C!costatus(l, co) = "suspended"
  PROVE  /\ l # co /\ Own(vm.c, Len(vm.c), co) = {} /\ Outside(vm.th[co])
         /\ vm.th[co].status \in {"ok", "yield"}
         /\ vm.th[co].status = "ok" => vm.th[co].fresh
         /\ ~vm.th[co].errfunc
<1> DEFINE r == vm.th[co]
<1>1. Loose(vm) BY DEF ThreadsInv, Core
<1>2. /\ vm.th \in [C!Thread -> ThreadType] /\ co \in C!Thread
  BY <1>1, LooseLemma DEF C!Thread
<1>3. r \in ThreadType BY <1>2
<1>4. l # co /\ (r.status = "yield" \/ (r.status = "ok" /\ r.fresh))
  <2>1. C!costatus(l, co) =
          CASE l = co                                -> "running"
            [] l # co /\ r.status = "yield"          -> "suspended"
            [] l # co /\ r.status = "ok" /\ r.ci > 0 -> "normal"
            [] l # co /\ r.status = "ok" /\ r.ci = 0 ->
                 IF r.fresh THEN "suspended" ELSE "dead"
            [] OTHER                                 -> "dead"
    BY Zenon DEF C!costatus
  <2> HIDE DEF r
  <2>2. r.ci \in Int /\ r.status \in {"ok", "yield", "error"}
    BY <1>3 DEF ThreadType
  <2>3. l # co BY ONLY <2>1, C!costatus(l, co) = "suspended"
  <2> QED BY ONLY <2>1, <2>2, <2>3, C!costatus(l, co) = "suspended"
<1>5. Own(vm.c, Len(vm.c), co) = {}
  <2>1. SUFFICES ASSUME Own(vm.c, Len(vm.c), co) # {} PROVE FALSE OBVIOUS
  <2>2. Mine(r, co) BY <1>1, <1>2, <1>4, <2>1 DEF Loose
  <2> QED BY <1>4, <2>2 DEF Mine
<1>6. Outside(r) BY <1>1, <1>2, <1>4, <1>5 DEF Loose
<1> QED BY <1>3, <1>4, <1>5, <1>6 DEF Outside

(* lua_resume() that refuses a coroutine for its C calls has touched it.   *)
LEMMA TooDeepLemma ==
  ASSUME NEW s, ThreadsInv(s), ~s.raise, C!Top(s).is \in {"resume", "wrap"},
         NEW co \in C!Thread, Own(s.c, Len(s.c), co) = {}, NEW q \in ThreadType,
         Outside(q), NEW t, t = [s EXCEPT !.th[co] = q]
  PROVE  ThreadsInv(C!Refused(t))
<1> DEFINE n == Len(s.c)
           l == C!L(s)
           d == s.c
<1>1. /\ Loose(s) /\ n \in Nat \ {0} /\ n \in 1 .. Len(s.c)
      /\ s \in StateType /\ s.c \in Seq(EntryType)
      /\ s.c[n].th = l /\ Counts(s.c, s.th[l], l) /\ Exact(s.c, s.th[l], l)
      /\ Shape(s.c, n) /\ C!Top(s) = s.c[n]
  BY RunLemma
<1>2. Is(t, s.c, Put(s.th, co, q)) /\ t.raise = s.raise BY <1>1, SetForm
<1>3. l # co BY <1>1 DEF Own
<1>4. Change(s, d, n, co, q, t)
  <2>1. Same(s.c, d, n) /\ SameFrames(s.c, d, n - 1)
    BY DEF Same, SameFrames, Alike
  <2>2. n + 1 .. Len(s.c) = {} BY ONLY <1>1
  <2>3. /\ \A j \in n + 1 .. Len(s.c) : s.c[j].th = co
        /\ \A j \in n + 1 .. Len(d) : d[j].th = co
        /\ \A i \in n + 1 .. Len(d) : Good(d, t.th, i)
    BY <2>2
  <2>4. /\ s.c[n].th = co \/ C!Frames(s.c[n]) = C!Frames(d[n])
        /\ Own(d, n, co) = {} \/ q.baseCcalls = s.th[co].baseCcalls
        /\ IF Own(d, Len(d), co) = {} THEN Outside(q) ELSE Mine(q, co)
    OBVIOUS
  <2>5. d[n].is = "execute" => d[n].n >= 1 BY <1>1 DEF Shape
  <2>6. Is(t, d, Put(s.th, co, q)) /\ (t.raise => Len(d) >= 2) BY <1>2
  <2>7. n <= Len(d) /\ d \in Seq(EntryType) BY <1>1
  <2>8. l = C!L(s) /\ n = Len(s.c) OBVIOUS
  <2> HIDE DEF d, n, l
  <2> QED BY ONLY co \in C!Thread, q \in ThreadType, <1>1, <2>1, <2>3, <2>4,
             <2>5, <2>6, <2>7, <2>8 DEF Change
<1>5. C!L(t) = l
  <2> HIDE DEF l, d, n
  <2>1. C!L(t) = d[Len(d)].th BY ONLY <1>4, ChangeLemma
  <2> QED BY <1>1, <2>1 DEF d, n
<1>6. ThreadsInv(t)
  <2>1. Own(d, Len(d), co) = {} OBVIOUS
  <2> HIDE DEF l, d, n
  <2>2. C!L(t) # co /\ Own(d, Len(d), co) = {} => ThreadsInv(t)
    BY ONLY <1>4, ChangeLemma
  <2> QED BY ONLY <1>3, <1>5, <2>1, <2>2
<1>7. ~t.raise BY <1>2
<1>8. C!Top(t).is \in {"resume", "wrap"}
  <2>1. t \in StateType /\ t.c = s.c BY <1>2 DEF Is
  <2>2. C!Top(t) = t.c[Len(t.c)] BY <2>1, StateLemma
  <2> QED BY <1>1, <2>1, <2>2
<1> QED BY ONLY <1>6, <1>7, <1>8, RefusedLemma

(* lua_resume() of a coroutine that starts or goes on.                     *)
LEMMA GoesOnLemma ==
  ASSUME NEW s, NEW n, NEW co, NEW level, NEW r, Starting(s, n, co, level, r),
         r.ci >= 2, NEW e, e = C!Entry(co, "execute", FALSE, r.ci - 1),
         NEW d, d = Append(s.c, C!Entry(co, "start", FALSE, 0)),
         NEW q, q = [r EXCEPT !.ci = r.ci - 1],
         NEW t, Is(t, Append(d, e), Put(s.th, co, q))
  PROVE  ThreadsInv(t)
<1> DEFINE z == [r EXCEPT !.ci = 0]
           f == C!Entry(co, "start", FALSE, 0)
           k == r.ci - 1
           w == [c |-> d, th |-> Put(s.th, co, z), raise |-> FALSE]
<1>1. /\ ThreadsInv(s) /\ ~s.raise /\ n = Len(s.c)
      /\ s.c[n].is \in {"resume", "wrap"} /\ co \in Co /\ Own(s.c, n, co) = {}
      /\ level = s.th[C!L(s)].nCcalls + 1 /\ level <= MaxCCalls
      /\ r \in ThreadType /\ r.status = "ok" /\ ~r.fresh /\ ~r.errfunc
      /\ r.nCcalls = level /\ r.baseCcalls = level
  BY DEF Starting
<1>2. r.ci \in Int /\ level \in Int BY <1>1 DEF ThreadType
<1>3. k \in Nat \ {0} BY ONLY <1>2, r.ci >= 2
<1> HIDE DEF k
<1>4. /\ q \in ThreadType /\ q.ci = k /\ q.nCcalls = level
      /\ q.baseCcalls = level /\ q.status = "ok" /\ ~q.errfunc /\ ~q.fresh
  <2>1. q = [r EXCEPT !.ci = k] BY DEF k
  <2> QED BY ONLY <1>1, <1>3, <2>1 DEF ThreadType
<1>5. /\ z \in ThreadType /\ z.ci = 0 /\ z.nCcalls = level
      /\ z.baseCcalls = level /\ z.status = "ok" /\ ~z.errfunc /\ ~z.fresh
  BY ONLY <1>1 DEF ThreadType
<1> HIDE DEF z
<1>6. /\ co \in C!Thread /\ s.c \in Seq(EntryType)
      /\ s.th \in [C!Thread -> ThreadType]
  BY <1>1, RunLemma DEF C!Thread
<1>7. d \in Seq(EntryType)
  <2>1. C!None \in OldType BY DEF C!None, OldType
  <2>2. f \in EntryType BY <1>6, <2>1 DEF C!Entry, EntryType, Kind
  <2>3. d = Append(s.c, f) OBVIOUS
  <2> HIDE DEF f
  <2> QED BY ONLY <1>6, <2>2, <2>3, AppendProperties
<1>8. Is(w, d, Put(s.th, co, z)) /\ ~w.raise
  <2>1. Put(s.th, co, z) \in [C!Thread -> ThreadType]
    BY ONLY <1>5, <1>6, PutLemma
  <2> QED BY ONLY <1>7, <2>1 DEF Is, StateType
<1> HIDE DEF w
<1>9. ThreadsInv(w) /\ C!L(w) = co /\ Opens(d, n, co)
  <2>1. Starting(s, n, co, level, z) BY ONLY <1>1, <1>5 DEF Starting
  <2>2. d = Append(s.c, C!Entry(co, "start", FALSE, 0)) /\ z.ci = 0 BY <1>5
  <2>3. Started(s, n, co, level, z, d, w)
    BY ONLY <1>8, <2>1, <2>2 DEF Started
  <2> QED BY ONLY <2>3, StartLemma
<1>10. e = C!Entry(co, "execute", FALSE, k) BY DEF k
<1>19. First(d, n, co, k, e)
  BY ONLY <1>3, <1>6, <1>9, <1>10, OpensLemma
<1>11. /\ e \in EntryType /\ Fits(d[n + 1], e, n + 1)
       /\ \A p : /\ p \in ThreadType /\ p.ci = k /\ p.nCcalls = p.baseCcalls
                 /\ p.baseCcalls <= MaxCCalls /\ ~p.errfunc
                 => Room(d, n + 1, e, p, co)
  BY <1>19 DEF First
<1>12. Room(d, n + 1, e, q, co) BY ONLY <1>1, <1>4, <1>11
<1>13. w.c = d /\ w.th = Put(s.th, co, z) /\ n + 1 = Len(w.c) /\ w.th[co] = z
  <2>1. w.c = d /\ w.th = Put(s.th, co, z) BY <1>8 DEF Is
  <2>2. Len(d) = n + 1 BY <1>9 DEF Opens
  <2>3. Put(s.th, co, z)[co] = z BY ONLY <1>5, <1>6, PutLemma
  <2> QED BY ONLY <2>1, <2>2, <2>3
<1>14. Is(t, Append(w.c, e), Put(w.th, co, q))
  <2>1. Put(Put(s.th, co, z), co, q) = Put(s.th, co, q)
    BY ONLY <1>4, <1>6, PutLemma
  <2> QED BY <1>13, <2>1
<1>15. Loose(w) BY <1>9 DEF ThreadsInv, Core
<1>16. Mine(q, co) BY <1>1, <1>4, LimitsLemma DEF Mine
<1>17. /\ co = C!L(w) /\ q.baseCcalls = w.th[co].baseCcalls
       /\ Fits(w.c[n + 1], e, n + 1) /\ Room(w.c, n + 1, e, q, co)
       /\ e \in EntryType /\ q \in ThreadType
  BY <1>4, <1>5, <1>9, <1>11, <1>12, <1>13
<1> DEFINE m == n + 1
<1>18. /\ m = Len(w.c) /\ Fits(w.c[m], e, m) /\ Room(w.c, m, e, q, co)
  BY <1>13, <1>17
<1> HIDE DEF m
<1> QED BY ONLY <1>14, <1>15, <1>16, <1>17, <1>18, PushLemma

(* lua_resume() of a coroutine for the first time: its function is entered.*)
LEMMA FirstLemma ==
  ASSUME NEW s, NEW n, NEW co, NEW level, NEW q, NEW d, NEW t,
         Started(s, n, co, level, q, d, t),
         NEW e, e = C!Entry(co, "execute", FALSE, 1)
  PROVE  ThreadsInv(C!Enter(t, e))
<1> /\ Starting(s, n, co, level, q) /\ q.ci = 0
    /\ d = Append(s.c, C!Entry(co, "start", FALSE, 0))
    /\ Is(t, d, Put(s.th, co, q)) /\ ~t.raise
  BY DEF Started
<1>1. ThreadsInv(t) /\ C!L(t) = co /\ Opens(d, n, co)
  BY ONLY Started(s, n, co, level, q, d, t), StartLemma
<1>2. /\ co \in C!Thread /\ q \in ThreadType /\ q.nCcalls = q.baseCcalls
      /\ q.baseCcalls <= MaxCCalls /\ ~q.errfunc
      /\ s.th \in [C!Thread -> ThreadType]
  BY RunLemma DEF Starting, C!Thread
<1>3. PICK i \in Nat \ {0} : i = 1 OBVIOUS
<1>9. e = C!Entry(co, "execute", FALSE, i) BY <1>3
<1>12. First(d, n, co, i, e)
  BY ONLY <1>1, <1>2, <1>9, i \in Nat \ {0}, OpensLemma
<1>4. /\ e \in EntryType /\ Fits(d[n + 1], e, n + 1) /\ C!Frames(e) = i
      /\ e.is = "execute"
      /\ \A p : /\ p \in ThreadType /\ p.ci = i /\ p.nCcalls = p.baseCcalls
                /\ p.baseCcalls <= MaxCCalls /\ ~p.errfunc
                => Room(d, n + 1, e, p, co)
  BY <1>12 DEF First
<1>5. t.c = d /\ t.th[co] = q /\ Len(d) = n + 1 /\ n + 1 >= 2
  <2>1. t.c = d /\ t.th = Put(s.th, co, q) BY DEF Is
  <2>2. Put(s.th, co, q)[co] = q BY ONLY <1>2, PutLemma
  <2>3. Len(d) = n + 1 /\ n \in Nat \ {0, 1} BY <1>1 DEF Opens
  <2>4. n + 1 >= 2 BY ONLY <2>3
  <2> QED BY ONLY <2>1, <2>2, <2>3, <2>4
<1>6. ASSUME NEW p, Like(p, q, q.ci + 1, q.nCcalls)
      PROVE  Room(d, n + 1, e, p, co)
  <2>1. /\ p \in ThreadType /\ p.ci = i /\ p.nCcalls = p.baseCcalls
        /\ p.baseCcalls <= MaxCCalls /\ ~p.errfunc
    BY ONLY <1>2, <1>3, <1>6, q.ci = 0 DEF Like
  <2> QED BY ONLY <1>4, <2>1
<1>7. Core(t) BY <1>1 DEF ThreadsInv
<1> DEFINE m == n + 1
<1>8. /\ m = Len(t.c) /\ Len(t.c) >= 2 /\ Fits(t.c[m], e, m)
      /\ co = C!L(t) /\ q = t.th[co] /\ e.is # "try"
  BY <1>1, <1>4, <1>5
<1>10. \A p : Like(p, q, q.ci + 1, q.nCcalls) => Room(t.c, m, e, p, co)
  BY <1>5, <1>6
<1>11. C!Frames(e) = 1 BY <1>3, <1>4
<1> HIDE DEF m
<1> QED BY ONLY ~t.raise, <1>4, <1>7, <1>8, <1>10, <1>11, EnterLemma

LEMMA StepResume ==
  ASSUME ThreadsInv(vm), NEW co \in Co, C!Resume(co)
  PROVE  ThreadsInv(vm')
<1> DEFINE l == C!L(vm)
           r == vm.th[co]
           n == Len(vm.c)
           level == C!Level(C!Now(vm)) + 1
           state == [r EXCEPT !.nCcalls = level, !.baseCcalls = level,
                              !.fresh = FALSE]
           after == C!Done(vm)
           start == C!Entry(co, "start", FALSE, 0)
           readied == [after EXCEPT !.th[co] = state]
           begun == C!Push(readied, start)
           deep == [vm EXCEPT !.th[co] = [@ EXCEPT !.nCcalls = level - 1,
                                                   !.fresh = FALSE]]
           next == [state EXCEPT !.status = "ok", !.ci = @ - 1]
           first == C!Entry(co, "execute", FALSE, 1)
           again == C!Entry(co, "execute", FALSE, r.ci - 1)
<1>1. ~vm.raise /\ C!Top(vm).is \in {"resume", "wrap"}
  BY DEF C!Resume, C!Runs
<1>2. vm' = CASE C!costatus(l, co) # "suspended" -> C!Refused(vm)
              [] C!costatus(l, co) = "suspended" /\ level > MaxCCalls ->
                   C!Refused(deep)
              [] OTHER ->
                   IF r.status = "ok" THEN C!Enter(begun, first)
                   ELSE C!Push(C!Set(begun, next), again)
  BY Zenon DEF C!Resume
<1>3. /\ vm \in StateType /\ n \in Nat \ {0} /\ l \in C!Thread
      /\ vm.th \in [C!Thread -> ThreadType] /\ C!Top(vm) = vm.c[n]
      /\ C!Now(vm) = vm.th[l] /\ vm.th[l] \in ThreadType /\ co \in C!Thread
  BY <1>1, RunLemma DEF C!Thread
<1>4. r \in ThreadType /\ level = vm.th[l].nCcalls + 1 /\ level \in Int
  BY <1>3 DEF C!Level, ThreadType
<1>5. CASE C!costatus(l, co) # "suspended"
  <2>1. vm' = C!Refused(vm)
    <3> HIDE DEF l, level, begun, next, deep, first, again, r
    <3> QED BY ONLY <1>2, <1>5
  <2> QED BY <1>1, <2>1, RefusedLemma
<1>6. CASE C!costatus(l, co) = "suspended"
  <2>1. /\ l # co /\ Own(vm.c, n, co) = {} /\ Outside(r)
        /\ r.status \in {"ok", "yield"} /\ (r.status = "ok" => r.fresh)
        /\ ~r.errfunc
    BY <1>6, SuspendedLemma
  <2>2. CASE level > MaxCCalls
    <3>1. vm' = C!Refused(deep)
      <4> HIDE DEF l, level, begun, next, deep, first, again, r
      <4> QED BY ONLY <1>2, <1>6, <2>2
    <3> DEFINE v == level - 1
               b == FALSE
               q == [r EXCEPT !.nCcalls = v, !.fresh = b]
    <3>2. deep = [vm EXCEPT !.th[co] = q] BY Zenon
    <3> HIDE DEF deep
    <3>3. v \in Int /\ ~b /\ b \in BOOLEAN BY <1>4
    <3> HIDE DEF v, b, r
    <3>4. /\ q \in ThreadType /\ q.status = r.status /\ q.ci = r.ci
          /\ q.errfunc = r.errfunc /\ q.fresh = b
      BY ONLY <1>4, <3>3 DEF ThreadType
    <3>5. Outside(q)
      <4> HIDE DEF q
      <4> QED BY ONLY <2>1, <3>3, <3>4 DEF Outside
    <3>6. Own(vm.c, Len(vm.c), co) = {} BY <2>1
    <3> HIDE DEF q
    <3>7. ThreadsInv(C!Refused(deep))
      BY ONLY ThreadsInv(vm), <1>1, <1>3, <3>2, <3>4, <3>5, <3>6, TooDeepLemma
    <3> QED BY <3>1, <3>7
  <2>3. CASE ~(level > MaxCCalls)
    <3>1. vm' = IF r.status = "ok" THEN C!Enter(begun, first)
                ELSE C!Push(C!Set(begun, next), again)
      <4> HIDE DEF l, level, begun, next, deep, first, again, r
      <4> QED BY ONLY <1>2, <1>6, <2>3
    <3> DEFINE b == FALSE
               d == Bump(vm.c, n, 1)
    <3>2. /\ ThreadsInv(after) /\ Is(after, d, vm.th) /\ ~after.raise
          /\ Bumped(vm.c, d, n, 1) /\ n >= 2 /\ C!L(after) = l
      <4>1. n = Len(vm.c) /\ vm.c[n].is \in {"pcall", "xpcall", "resume", "wrap"}
        BY <1>1, <1>3
      <4> QED BY <1>1, <4>1, DoneLemma
    <3> HIDE DEF after, d
    <3>3. /\ after.c = d /\ after.th = vm.th /\ after \in StateType
          /\ Len(d) = n /\ d[n].is \in {"resume", "wrap"}
      BY <1>1, <1>3, <3>2 DEF Is, Bumped, Alike
    <3>4. Own(after.c, n, co) = {}
      <4>1. Own(vm.c, n, co) = Own(d, n, co)
        BY <1>3, <3>2, SameLemma DEF Bumped
      <4> QED BY <2>1, <3>3, <4>1
    <3>5. /\ state \in ThreadType /\ state.ci = r.ci /\ state.nCcalls = level
          /\ state.baseCcalls = level /\ state.status = r.status
          /\ state.errfunc = r.errfunc /\ ~state.fresh
      <4> HIDE DEF r, level
      <4> QED BY ONLY <1>4 DEF ThreadType
    <3> HIDE DEF state
    <3>6. /\ Is(readied, d, Put(vm.th, co, state)) /\ ~readied.raise
      BY ONLY <1>3, <3>2, <3>3, <3>5, SetForm
    <3> HIDE DEF readied
    <3>7. start \in EntryType /\ start.th = co
      <4>1. C!None \in OldType BY DEF C!None, OldType
      <4> QED BY <1>3, <4>1 DEF C!Entry, EntryType, Kind
    <3>8. /\ Is(begun, Append(d, start), Put(vm.th, co, state)) /\ ~begun.raise
      <4>1. readied \in StateType /\ readied.c = d /\ readied.th = Put(vm.th, co, state)
        BY <3>6 DEF Is
      <4> HIDE DEF start
      <4>2. /\ Is(C!Push(readied, start), Append(readied.c, start), readied.th)
            /\ C!Push(readied, start).raise = readied.raise
        BY ONLY <3>7, <4>1, PushForm
      <4> QED BY <3>6, <4>1, <4>2
    <3> HIDE DEF begun
    <3>9. /\ ThreadsInv(after) /\ ~after.raise /\ n = Len(after.c)
          /\ after.c[n].is \in {"resume", "wrap"} /\ co \in Co
          /\ Own(after.c, n, co) = {}
          /\ level = after.th[C!L(after)].nCcalls + 1 /\ level <= MaxCCalls
      <4>1. level <= MaxCCalls BY <1>4, <2>3, LimitsLemma
      <4> HIDE DEF level, r, n, l
      <4> QED BY ONLY co \in Co, <1>4, <3>2, <3>3, <3>4, <4>1
    <3>10. CASE r.status = "ok"
      <4>1. vm' = C!Enter(begun, first)
        BY <3>1, <3>10
      <4>2. Starting(after, n, co, level, state)
        <5>1. state.status = "ok" /\ ~state.errfunc BY <2>1, <3>5, <3>10
        <5> HIDE DEF level, r, n, l
        <5> QED BY ONLY <3>5, <3>9, <5>1 DEF Starting
      <4>3. state.ci = 0 BY <2>1, <3>5, <3>10 DEF Outside
      <4> DEFINE a == Append(after.c, start)
      <4>4. a = Append(after.c, C!Entry(co, "start", FALSE, 0)) OBVIOUS
      <4>5. Is(begun, a, Put(after.th, co, state)) BY <3>3, <3>8
      <4>6. first = C!Entry(co, "execute", FALSE, 1) OBVIOUS
      <4> HIDE DEF a, start, first, n, level
      <4>8. Started(after, n, co, level, state, a, begun)
        BY ONLY <3>8, <4>2, <4>3, <4>4, <4>5 DEF Started, start
      <4>7. ThreadsInv(C!Enter(begun, first))
        BY ONLY <4>6, <4>8, FirstLemma
      <4> QED BY <4>1, <4>7
    <3>11. CASE r.status # "ok"
      <4>1. vm' = C!Push(C!Set(begun, next), again) BY <3>1, <3>11
      <4>2. r.status = "yield" /\ r.ci >= 2
        BY <2>1, <3>11 DEF Outside
      <4> DEFINE y == "ok"
                 z == [state EXCEPT !.status = y]
                 q == [z EXCEPT !.ci = z.ci - 1]
                 k == r.ci - 1
      <4>3. r.ci \in Int /\ k \in Nat BY <1>4, <4>2 DEF ThreadType
      <4>4. /\ z \in ThreadType /\ z.status = "ok" /\ z.ci = r.ci
            /\ z.nCcalls = level /\ z.baseCcalls = level /\ ~z.fresh
            /\ ~z.errfunc
        <5> HIDE DEF r, level
        <5> QED BY ONLY <2>1, <3>5 DEF ThreadType
      <4>5. next = q
        <5> DEFINE i == state.ci - 1
        <5>1. next = [state EXCEPT !.status = y, !.ci = i] BY Zenon
        <5>2. z.ci - 1 = i BY <3>5, <4>4
        <5>3. q = [z EXCEPT !.ci = i] BY <5>2
        <5> HIDE DEF i, next, q
        <5> QED BY ONLY <3>5, <5>1, <5>3 DEF ThreadType, z
      <4> HIDE DEF next
      <4>12. q = [z EXCEPT !.ci = z.ci - 1] OBVIOUS
      <4> HIDE DEF z
      <4>6. q \in ThreadType
        <5> DEFINE i == z.ci - 1
        <5>1. i \in Int BY <4>3, <4>4
        <5>2. q = [z EXCEPT !.ci = i] OBVIOUS
        <5> HIDE DEF i, q
        <5> QED BY ONLY <4>4, <5>1, <5>2 DEF ThreadType
      <4> HIDE DEF q
      <4>7. Starting(after, n, co, level, z)
        <5> HIDE DEF level, r, n, l
        <5> QED BY ONLY <3>9, <4>4 DEF Starting
      <4> DEFINE a == Append(after.c, start)
                 w == C!Set(begun, next)
      <4>8. a = Append(after.c, C!Entry(co, "start", FALSE, 0))
            /\ again = C!Entry(co, "execute", FALSE, z.ci - 1)
        BY <4>4
      <4>9. Is(w, a, Put(after.th, co, q)) /\ ~w.raise
        <5>1. begun \in StateType /\ begun.c = a
              /\ begun.th = Put(after.th, co, state)
          BY <3>3, <3>8 DEF Is
        <5>2. C!L(begun) = co
          <6>1. Pushed(d, start, a, n)
            <7> HIDE DEF start
            <7>1. d \in Seq(EntryType) BY <3>2 DEF Bumped
            <7> QED BY <3>3, <3>7, <7>1, AppendLemma
          <6>2. Len(a) = n + 1 /\ a[n + 1] = start BY ONLY <6>1 DEF Pushed
          <6>3. C!L(begun) = begun.c[Len(begun.c)].th BY ONLY <5>1, StateLemma
          <6> HIDE DEF start, a
          <6> QED BY ONLY <3>7, <5>1, <6>2, <6>3
        <5>3. Is(C!Set(begun, q), begun.c, Put(begun.th, co, q))
              /\ C!Set(begun, q).raise = begun.raise
          BY ONLY <1>3, <4>6, <5>1, <5>2, SetIs
        <5>4. Put(Put(after.th, co, state), co, q) = Put(after.th, co, q)
          BY ONLY <1>3, <3>3, <3>5, <4>6, PutLemma
        <5> HIDE DEF a
        <5> QED BY ONLY <3>8, <4>5, <5>1, <5>3, <5>4
      <4>10. Is(vm', Append(a, again), Put(after.th, co, q))
        <5>1. again \in EntryType
          <6>1. C!None \in OldType BY DEF C!None, OldType
          <6>2. k \in Nat /\ again = C!Entry(co, "execute", FALSE, k)
            BY <4>3
          <6> HIDE DEF k, again
          <6> QED BY ONLY <1>3, <6>1, <6>2
                  DEF C!Entry, EntryType, Kind, C!Callee
        <5> HIDE DEF a, w, again
        <5>2. w \in StateType /\ w.c = a /\ w.th = Put(after.th, co, q)
          BY ONLY <4>9 DEF Is
        <5>3. Is(C!Push(w, again), Append(w.c, again), w.th)
          BY ONLY <5>1, <5>2, PushForm
        <5> QED BY <4>1, <5>2, <5>3 DEF w
      <4>11. z.ci >= 2 BY <4>2, <4>4
      <4> HIDE DEF a, w, again, n, level
      <4> QED BY ONLY <4>7, <4>8, <4>10, <4>11, <4>12, GoesOnLemma
    <3> QED BY <3>10, <3>11
  <2> QED BY <2>2, <2>3
<1> QED BY <1>5, <1>6

-----------------------------------------------------------------------------
(* The invariant holds from the start, and says what CallsUnwind says.     *)

LEMMA ThreadsStart ==
  ASSUME C!ThreadsInit
  PROVE  ThreadsInv(vm)
<1> DEFINE e == C!Entry(Main, "host", FALSE, 0)
           c == <<e>>
           r == C!NewThread
<1>1. /\ vm.c = c /\ vm.th = [l \in C!Thread |-> r] /\ vm.raise = FALSE
      /\ vm = [c |-> c, th |-> [l \in C!Thread |-> r], raise |-> FALSE]
  BY DEF C!ThreadsInit
<1>2. /\ e \in EntryType /\ e.th = Main /\ e.is = "host" /\ ~e.called
      /\ ~e.handles
  <2>1. C!None \in OldType BY DEF C!None, OldType
  <2> QED BY <2>1 DEF C!Entry, EntryType, Kind, C!Thread
<1>3. /\ r \in ThreadType /\ r.ci = 0 /\ r.nCcalls = 0 /\ r.baseCcalls = 0
      /\ r.status = "ok" /\ r.errfunc = FALSE /\ r.fresh
  BY LimitsLemma DEF C!NewThread, ThreadType
<1> HIDE DEF e, r
<1>4. c \in Seq(EntryType) /\ Len(c) = 1 /\ c[1] = e BY <1>2
<1> HIDE DEF c
<1>5. vm \in StateType
  <2>1. [l \in C!Thread |-> r] \in [C!Thread -> ThreadType] BY <1>3
  <2> QED BY <1>1, <1>4, <2>1 DEF StateType
<1> PICK z \in Nat : z = 0 OBVIOUS
<1>6. \A j \in 1 .. z + 1 : c[j] \in EntryType
  <2>1. \A j \in 1 .. z + 1 : j = 1 OBVIOUS
  <2> QED BY <1>2, <1>4, <2>1
<1>7. Adds(c, z, Main) BY ONLY z \in Nat, <1>6, StepLemma
<1>8. /\ CallsIn(c, z, Main) = 0 /\ FramesIn(c, z, Main) = 0
      /\ ~Handled(c, z, Main) /\ ~Handler(c, z, Main)
  <2>1. Own(c, z, Main) = {} BY DEF Own
  <2> QED BY <2>1, NoneLemma
<1>9. Nested(c, z) = 0
  <2>1. {j \in 1 .. z : c[j].called} = {} /\ {j \in 1 .. z : c[j].is = "start"} = {}
    OBVIOUS
  <2>2. Cardinality({}) = 0 BY FS_EmptySet
  <2> QED BY <2>1, <2>2 DEF Nested, AllCalls, Starts
<1>10. C!Frames(e) = 0 BY <1>2, EntryFrames
<1>11. z + 1 = 1 OBVIOUS
<1>12. /\ CallsIn(c, 1, Main) = 0 /\ FramesIn(c, 1, Main) = 0
       /\ ~Handled(c, 1, Main) /\ ~Handler(c, 1, Main) /\ Nested(c, 1) = 0
  BY ONLY <1>2, <1>4, <1>7, <1>8, <1>9, <1>10, <1>11 DEF Adds
<1>13. Main \in C!Thread /\ vm.th[Main] = r
  <2>1. Main \in C!Thread BY DEF C!Thread
  <2> QED BY <1>1, <2>1
<1>14. Good(vm.c, vm.th, 1)
  <2>1. Shape(c, 1)
    BY ONLY <1>2, <1>4 DEF Shape, Jump
  <2>2. c[1].th = Main /\ c[1].is # "try" BY <1>2, <1>4
  <2>3. vm.c = c BY <1>1
  <2> QED BY ONLY <1>3, <1>12, <1>13, <2>1, <2>2, <2>3, LimitsLemma DEF Good
<1>15. C!L(vm) = Main
  <2>1. C!L(vm) = vm.c[Len(vm.c)].th BY <1>5, StateLemma
  <2> QED BY <1>1, <1>2, <1>4, <2>1
<1>16. Mine(r, Main) BY <1>3, LimitsLemma DEF Mine
<1>17. Counts(c, r, Main) /\ Exact(c, r, Main)
  <2>1. Handler(c, 1, Main) \in BOOLEAN BY DEF Handler
  <2>2. r.errfunc = Handler(c, 1, Main) BY ONLY <1>3, <1>12, <2>1
  <2> QED BY ONLY <1>3, <1>4, <1>12, <2>2 DEF Counts, Exact, CountsAt, ExactAt
<1>18. \A l \in C!Thread \ {Main} :
         Own(vm.c, Len(vm.c), l) = {} /\ Outside(vm.th[l])
  <2>1. \A j \in 1 .. 1 : j = 1 OBVIOUS
  <2>2. Outside(r) BY <1>3 DEF Outside
  <2>3. \A l \in C!Thread : vm.th[l] = r BY <1>1
  <2>4. \A l \in C!Thread \ {Main} : Own(vm.c, Len(vm.c), l) = {}
    BY <1>1, <1>2, <1>4, <2>1 DEF Own
  <2> QED BY <2>2, <2>3, <2>4
<1>19. \A i \in 1 .. Len(vm.c) : Good(vm.c, vm.th, i)
  <2>1. \A i \in 1 .. Len(vm.c) : i = 1 BY <1>1, <1>4
  <2> QED BY <1>14, <2>1
<1>20. Loose(vm)
  <2>1. Len(vm.c) >= 1 BY <1>1, <1>4
  <2>2. Mine(vm.th[C!L(vm)], C!L(vm)) BY <1>13, <1>15, <1>16
  <2> QED BY ONLY <1>5, <1>15, <1>18, <1>19, <2>1, <2>2 DEF Loose
<1> QED BY <1>1, <1>13, <1>15, <1>17, <1>20 DEF ThreadsInv, Core

LEMMA ThreadsStep ==
  ASSUME ThreadsInv(vm), C!ThreadsNext
  PROVE  ThreadsInv(vm')
<1>1. ASSUME NEW kind \in C!Callee, C!LuaCalls(kind) PROVE ThreadsInv(vm')
  BY <1>1, StepLuaCalls
<1>2. ASSUME NEW kind \in C!Callee, C!CallsBack(kind) PROVE ThreadsInv(vm')
  BY <1>2, StepCallsBack
<1>3. ASSUME NEW kind \in C!Callee, C!Protect(kind) PROVE ThreadsInv(vm')
  BY <1>3, StepProtect
<1>4. ASSUME NEW co \in Co, C!Resume(co) PROVE ThreadsInv(vm')
  BY <1>4, StepResume
<1> QED BY <1>1, <1>2, <1>3, <1>4, StepRaises, StepHandle, StepReturn,
           StepYield DEF C!ThreadsNext

(* A thread on the C stack that does not run has a frame, where it called. *)
LEMMA WaitingLemma ==
  ASSUME NEW s, Loose(s), NEW n, n = Len(s.c), NEW l \in C!Thread, l # C!L(s),
         Own(s.c, n, l) # {}
  PROVE  FramesIn(s.c, n, l) \in Nat /\ FramesIn(s.c, n, l) >= 1
<1>1. /\ n \in Nat \ {0} /\ s.c[n].th # l
      /\ \A i \in 1 .. n : Shape(s.c, i) /\ s.c[i] \in EntryType
  BY LooseLemma
<1> DEFINE m == C!Max(Own(s.c, n, l))
<1>2. m \in Own(s.c, n, l) /\ \A k \in Own(s.c, n, l) : k <= m
  <2>1. Own(s.c, n, l) \in SUBSET (1 .. n) BY DEF Own
  <2>2. n \in Nat BY <1>1
  <2> QED BY ONLY Own(s.c, n, l) # {}, <2>1, <2>2, MaxLemma
<1> HIDE DEF m
<1>3. /\ m \in 1 .. n /\ s.c[m].th = l /\ m \in Nat /\ m <= n
      /\ \A j \in m + 1 .. n : s.c[j].th # l
  <2>1. m \in 1 .. n /\ s.c[m].th = l BY <1>2 DEF Own
  <2>2. ASSUME NEW j \in m + 1 .. n, s.c[j].th = l PROVE FALSE
    <3>1. j \in 1 .. n BY <1>1, <2>1
    <3>2. j \in Own(s.c, n, l) BY <2>2, <3>1 DEF Own
    <3> QED BY <1>1, <1>2, <2>1, <3>2
  <2> QED BY <1>1, <2>1, <2>2
<1>4. m + 1 \in 1 .. n /\ m + 1 > 1 /\ m + 1 - 1 = m
  <2>1. m # n BY <1>1, <1>3
  <2> QED BY ONLY <1>1, <1>3, <2>1
<1>5. s.c[m].is \in {"resume", "wrap"}
  <2>1. Shape(s.c, m + 1) BY <1>1, <1>4
  <2>2. s.c[m + 1].th # l
    <3>1. m + 1 \in m + 1 .. n BY ONLY <1>1, <1>3, <1>4
    <3> QED BY <1>3, <3>1
  <2> QED BY ONLY <1>3, <1>4, <2>1, <2>2 DEF Shape
<1>6. C!Frames(s.c[m]) = 1 BY <1>5 DEF C!Frames
<1>7. PICK i \in Nat : m = i + 1
  <2>1. m - 1 \in Nat /\ m = (m - 1) + 1 BY ONLY <1>1, <1>3
  <2> QED BY ONLY <2>1
<1>8. Adds(s.c, i, l)
  <2>1. \A j \in 1 .. i + 1 : j \in 1 .. n BY ONLY <1>1, <1>3, <1>7
  <2>2. \A j \in 1 .. i + 1 : s.c[j] \in EntryType BY <1>1, <2>1
  <2> QED BY ONLY i \in Nat, <2>2, StepLemma
<1>9. FramesIn(s.c, m, l) \in Nat /\ FramesIn(s.c, m, l) >= 1
  BY ONLY <1>3, <1>6, <1>7, <1>8 DEF Adds
<1>10. FramesIn(s.c, m, l) = FramesIn(s.c, n, l)
  <2>1. n \in Nat BY <1>1
  <2> QED BY ONLY <1>3, <2>1, SkipLemma
<1> QED BY <1>9, <1>10

LEMMA DepthGoal ==
  ASSUME ThreadsInv(vm)
  PROVE  C!Cardinality(C!CCalls(DOMAIN vm.c))
           + C!Cardinality(C!Jumps \ C!Tries(C!Jumps))
         <= MaxCCalls
              + (IF C!Handlers = {} /\ C!AtLimit = {} THEN 0 ELSE ExtraCCalls)
<1> DEFINE n == Len(vm.c)
           l == C!L(vm)
           base == vm.th[l].baseCcalls
<1>1. /\ Loose(vm) /\ n \in Nat \ {0} /\ Good(vm.c, vm.th, n)
      /\ vm.c[n].th = l /\ Mine(vm.th[l], l) /\ l \in C!Thread
      /\ vm.th[l] \in ThreadType /\ n \in 1 .. n /\ vm.c \in Seq(EntryType)
  BY LooseLemma DEF ThreadsInv, Core
<1>2. DOMAIN vm.c = 1 .. n BY <1>1, LenProperties
<1>3. C!Cardinality(C!CCalls(DOMAIN vm.c)) = AllCalls(vm.c, n)
  BY <1>2, CardLemma DEF C!CCalls, AllCalls
<1>4. C!Cardinality(C!Jumps \ C!Tries(C!Jumps)) = Starts(vm.c, n)
  <2>1. C!Jumps \ C!Tries(C!Jumps) = {j \in 1 .. n : vm.c[j].is = "start"}
    BY <1>2 DEF C!Jumps, C!Tries
  <2> QED BY <2>1, CardLemma DEF Starts
<1>5. /\ Nested(vm.c, n) <= base + CallsIn(vm.c, n, l)
      /\ base + CallsIn(vm.c, n, l) <= MaxCCalls + ExtraCCalls
      /\ ~Handled(vm.c, n, l) /\ base < MaxCCalls =>
           base + CallsIn(vm.c, n, l) < MaxCCalls
  BY <1>1 DEF Good
<1>6. Nested(vm.c, n) \in Nat /\ CallsIn(vm.c, n, l) \in Nat /\ base \in Int
  BY <1>1, NestedLemma, CallsLemma DEF ThreadType
<1>7. ASSUME C!Handlers = {} /\ C!AtLimit = {}
      PROVE  ~Handled(vm.c, n, l) /\ base < MaxCCalls
  <2>1. ~Handled(vm.c, n, l) BY <1>2, <1>7 DEF C!Handlers, Handled
  <2>2. base <= MaxCCalls /\ (l = Main => base = 0) BY <1>1 DEF Mine
  <2>3. base # MaxCCalls
    <3>1. CASE l = Main BY <2>2, <3>1, LimitsLemma
    <3>2. CASE l # Main
      <4>1. l \in Co /\ n \in C!Of(l)
        BY <1>1, <1>2, <3>2 DEF C!Thread, C!Of
      <4> QED BY <1>7, <4>1 DEF C!AtLimit
    <3> QED BY <3>1, <3>2
  <2> QED BY ONLY <1>6, <2>1, <2>2, <2>3, LimitsLemma
<1> DEFINE none == C!Handlers = {} /\ C!AtLimit = {}
<1>8. none => ~Handled(vm.c, n, l) /\ base < MaxCCalls BY <1>7
<1> HIDE DEF n, l, base, none
<1>9. Nested(vm.c, n) <= MaxCCalls + (IF none THEN 0 ELSE ExtraCCalls)
  BY ONLY <1>5, <1>6, <1>8, LimitsLemma
<1> QED BY <1>3, <1>4, <1>9 DEF Nested, none

LEMMA JumpGoal ==
  ASSUME ThreadsInv(vm), C!Jumps # {}
  PROVE  vm.c[C!Max(C!Jumps)].th = C!L(vm)
<1> DEFINE n == Len(vm.c)
<1>1. /\ Loose(vm) /\ n \in Nat \ {0} /\ vm.c \in Seq(EntryType)
      /\ vm.c[1].is = "host"
  BY LooseLemma DEF ThreadsInv, Core
<1>2. DOMAIN vm.c = 1 .. n BY <1>1, LenProperties
<1>3. C!Jumps = {j \in 1 .. n : Jump(vm.c[j])} BY <1>2 DEF C!Jumps, Jump
<1>4. n >= 2
  <2>1. PICK j \in 1 .. n : Jump(vm.c[j]) BY <1>3
  <2>2. j # 1 BY <1>1, <2>1 DEF Jump
  <2> QED BY <1>1, <2>1, <2>2
<1>5. PICK m \in 2 .. n :
        /\ Jump(vm.c[m]) /\ \A j \in m + 1 .. n : ~Jump(vm.c[j])
        /\ \A j \in m .. n : vm.c[j].th = C!L(vm)
  BY <1>1, <1>4, TopRun
<1> DEFINE q == C!Max(C!Jumps)
<1>6. q \in C!Jumps /\ \A j \in C!Jumps : j <= q
  <2>1. C!Jumps \in SUBSET (1 .. n) BY <1>3
  <2>2. n \in Nat BY <1>1
  <2> QED BY ONLY C!Jumps # {}, <2>1, <2>2, MaxLemma
<1> HIDE DEF q
<1>7. q \in 1 .. n /\ m <= q BY <1>1, <1>3, <1>5, <1>6
<1>8. q \in m .. n BY <1>1, <1>7
<1> QED BY <1>5, <1>8 DEF q

LEMMA ThreadGoal ==
  ASSUME ThreadsInv(vm), NEW l \in C!Thread, C!Of(l) # {}
  PROVE  /\ vm.th[l].ci = C!Cardinality(C!Running(C!Of(l)))
         /\ vm.th[l].nCcalls
              >= vm.th[l].baseCcalls + C!Cardinality(C!CCalls(C!Of(l)))
         /\ C!Of(l) \cap C!Handlers = {} /\ ~vm.raise =>
              vm.th[l].nCcalls
                = vm.th[l].baseCcalls + C!Cardinality(C!CCalls(C!Of(l)))
         /\ vm.th[l].errfunc =
              (C!Tries(C!Of(l)) # {} /\ vm.c[C!Max(C!Tries(C!Of(l))) - 1].is
                                         = "xpcall")
<1> DEFINE n == Len(vm.c)
           r == vm.th[l]
<1>1. /\ Loose(vm) /\ n \in Nat \ {0} /\ vm.c \in Seq(EntryType)
  BY LooseLemma DEF ThreadsInv, Core
<1>2. DOMAIN vm.c = 1 .. n BY <1>1, LenProperties
<1>3. C!Of(l) = Own(vm.c, n, l) BY <1>2 DEF C!Of, Own
<1>4. C!Cardinality(C!Running(C!Of(l))) = FramesIn(vm.c, n, l)
  <2>1. C!Running(Own(vm.c, n, l))
          = UNION {{j} \X (1 .. C!Frames(vm.c[j])) : j \in Own(vm.c, n, l)}
    BY DEF C!Running
  <2> QED BY <1>3, <2>1, CardLemma DEF FramesIn
<1>5. C!Cardinality(C!CCalls(C!Of(l))) = CallsIn(vm.c, n, l)
  <2>1. C!CCalls(C!Of(l)) = {j \in 1 .. n : vm.c[j].th = l /\ vm.c[j].called}
    BY <1>3 DEF C!CCalls, Own
  <2> QED BY <2>1, CardLemma DEF CallsIn
<1>6. C!Tries(C!Of(l)) = Tries(vm.c, n, l)
  BY <1>3 DEF C!Tries, Own, Tries
<1>7. C!Of(l) \cap C!Handlers = {} => ~Handled(vm.c, n, l)
  BY <1>2, <1>3 DEF C!Handlers, Own, Handled
<1>8. /\ Counts(vm.c, r, l) /\ (~vm.raise => Exact(vm.c, r, l))
  <2>1. CASE l = C!L(vm) BY <2>1 DEF ThreadsInv, Core
  <2>2. CASE l # C!L(vm) BY <1>1, <1>3, <2>2 DEF Loose
  <2> QED BY <2>1, <2>2
<1>9. r.errfunc = Handler(vm.c, n, l) BY <1>8 DEF Counts, CountsAt
<1>10. Handler(vm.c, n, l) =
         (C!Tries(C!Of(l)) # {} /\ vm.c[C!Max(C!Tries(C!Of(l))) - 1].is
                                    = "xpcall")
  BY <1>6 DEF Handler
<1> QED BY <1>4, <1>5, <1>7, <1>8, <1>9, <1>10
        DEF Counts, CountsAt, Exact, ExactAt

LEMMA StatusGoal ==
  ASSUME ThreadsInv(vm), NEW co \in Co
  PROVE  /\ C!costatus(C!L(vm), co) = "normal" <=> C!Of(co) # {} /\ co # C!L(vm)
         /\ vm.th[co].fresh => C!costatus(C!L(vm), co) = "suspended"
<1> DEFINE n == Len(vm.c)
           l == C!L(vm)
           r == vm.th[co]
           st == C!costatus(l, co)
<1>1. /\ Loose(vm) /\ n \in Nat \ {0} /\ vm.c \in Seq(EntryType)
      /\ vm.th \in [C!Thread -> ThreadType] /\ co \in C!Thread
      /\ Mine(vm.th[l], l)
  BY LooseLemma DEF ThreadsInv, Core, C!Thread
<1>2. C!Of(co) = Own(vm.c, n, co)
  BY <1>1, LenProperties DEF C!Of, Own
<1>3. /\ r.ci \in Int /\ r.status \in {"ok", "yield", "error"}
      /\ r.fresh \in BOOLEAN
  BY <1>1 DEF ThreadType
<1>4. st = CASE l = co                                -> "running"
             [] l # co /\ r.status = "yield"          -> "suspended"
             [] l # co /\ r.status = "ok" /\ r.ci > 0 -> "normal"
             [] l # co /\ r.status = "ok" /\ r.ci = 0 ->
                  IF r.fresh THEN "suspended" ELSE "dead"
             [] OTHER                                 -> "dead"
  BY Zenon DEF C!costatus
<1>5. CASE l = co
  <2>1. ~r.fresh BY <1>1, <1>5 DEF Mine
  <2> HIDE DEF st, l, r
  <2>2. st = "running" BY ONLY <1>4, <1>5
  <2> QED BY <1>5, <2>1, <2>2 DEF st, l, r
<1>6. CASE l # co /\ Own(vm.c, n, co) = {}
  <2>1. Outside(r) BY <1>1, <1>6 DEF Loose
  <2>2. /\ r.status = "ok" => r.ci = 0
        /\ r.fresh => r.status = "ok"
    BY <2>1 DEF Outside
  <2> HIDE DEF st, l, r
  <2>3. st # "normal" /\ (r.fresh => st = "suspended")
    BY ONLY <1>3, <1>4, <1>6, <2>2
  <2> QED BY <1>2, <1>6, <2>3 DEF st, l, r
<1>7. CASE l # co /\ Own(vm.c, n, co) # {}
  <2>1. Mine(r, co) /\ Counts(vm.c, r, co) BY <1>1, <1>7 DEF Loose
  <2>2. FramesIn(vm.c, n, co) \in Nat /\ FramesIn(vm.c, n, co) >= 1
    BY <1>1, <1>7, WaitingLemma
  <2>3. r.ci = FramesIn(vm.c, n, co) BY <2>1 DEF Counts, CountsAt
  <2>4. r.status = "ok" /\ ~r.fresh BY <2>1 DEF Mine
  <2>5. r.ci > 0 BY ONLY <2>2, <2>3
  <2> HIDE DEF st, l, r
  <2>6. st = "normal" BY ONLY <1>3, <1>4, <1>7, <2>4, <2>5
  <2> QED BY <1>2, <1>7, <2>4, <2>6 DEF st, l, r
<1> QED BY <1>5, <1>6, <1>7

LEMMA ThreadsGoal ==
  ASSUME ThreadsInv(vm)
  PROVE  C!CallsUnwind
<1>1. vm.c # <<>>
  <2>1. Len(vm.c) >= 1 BY DEF ThreadsInv, Core, Loose
  <2> QED BY <2>1
<1>2. \A l \in C!Thread : C!Of(l) # {} =>
         /\ vm.th[l].ci = C!Cardinality(C!Running(C!Of(l)))
         /\ vm.th[l].nCcalls
              >= vm.th[l].baseCcalls + C!Cardinality(C!CCalls(C!Of(l)))
         /\ C!Of(l) \cap C!Handlers = {} /\ ~vm.raise =>
              vm.th[l].nCcalls
                = vm.th[l].baseCcalls + C!Cardinality(C!CCalls(C!Of(l)))
         /\ vm.th[l].errfunc =
              (C!Tries(C!Of(l)) # {} /\ vm.c[C!Max(C!Tries(C!Of(l))) - 1].is
                                         = "xpcall")
  BY ThreadGoal
<1>3. \A co \in Co :
        /\ C!costatus(C!L(vm), co) = "normal" <=> C!Of(co) # {} /\ co # C!L(vm)
        /\ vm.th[co].fresh => C!costatus(C!L(vm), co) = "suspended"
  BY StatusGoal
<1> QED BY ONLY ThreadsInv(vm), <1>1, <1>2, <1>3, DepthGoal, JumpGoal, Zenon
        DEF C!CallsUnwind

(* What ldo.c and lbaselib.c promise of calls, errors and coroutines: after*)
(* any of them, of any number of threads, whatever the limits, the C stack *)
(* is there and every lua_State knows its part of it, an error has a pcall *)
(* or a resume to go to, and C calls are never nested past the limit and   *)
(* its reserve.                                                            *)
THEOREM CallsUnwindAlways == PartsSpec => []CallsUnwind
<1> DEFINE Inv == part = "threads" => ThreadsInv(vm)
<1>1. PartsInit => Inv BY ThreadsStart DEF PartsInit
<1>2. Inv /\ [PartsNext]_parts => Inv'
  <2> SUFFICES ASSUME Inv, [PartsNext]_parts PROVE Inv' OBVIOUS
  <2>1. CASE PartsNext
    <3>1. part' = part /\ (part = "threads" => C!ThreadsNext)
      BY <2>1 DEF PartsNext, Only
    <3> QED BY <3>1, ThreadsStep
  <2>2. CASE UNCHANGED parts
    <3>1. part' = part /\ vm' = vm BY <2>2 DEF parts
    <3> QED BY <3>1
  <2> QED BY <2>1, <2>2
<1>3. Inv => CallsUnwind BY ThreadsGoal DEF CallsUnwind
<1> QED BY <1>1, <1>2, <1>3, PTL DEF PartsSpec
=============================================================================
