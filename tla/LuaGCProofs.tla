---------------------------- MODULE LuaGCProofs ----------------------------
(* Theorems about LuaGC for every heap: any sets of objects, any of which  *)
(* may be infinite, and any pools.                                         *)
EXTENDS LuaGC, SequenceTheorems, WellFoundedInduction, TLAPS

----------------------------------------------------------------------------
(* The inductive invariant.                                                *)

Colors == {"white", "dead", "gray", "black"}
Phases == {"pause", "propagate", "sweepstring", "sweep", "finalize"}
Waiting == ToSet(tmudata)

(* Everything an object names, weak entries included. *)
Refs(o) == Children(o) \cup
  (IF o \in Tables THEN {entry[o].key, entry[o].val} \ {Nil} ELSE {})

Marks == [color : [Objects -> Colors], gray : SUBSET Objects,
          again : SUBSET Objects, weak : SUBSET Objects]

TypesOK ==
  /\ pool \in Pools /\ live \subseteq pool \cup Roots /\ Roots \subseteq live
  /\ marks \in Marks
  /\ gcstate \in Phases /\ full \in {"no", "sweep", "mark"}
  /\ unswept \subseteq live
  /\ udlist \in Seq(Udata) /\ tmudata \in Seq(Udata)
  /\ finalized \subseteq Udata
  /\ running \in Threads
  /\ stack \in [Threads -> Ref]
  /\ entry \in [Tables -> [key : Ref, val : Ref]]
  /\ mode \in [Tables -> SUBSET {"k", "v"}]
  /\ env \in [Udata -> Ref]
  /\ captures \in [Closures -> Upvals \cup {Nil}]
  /\ location \in [Upvals -> Threads \cup {Nil}]
  /\ closedval \in [Upvals -> Ref]

(* What is not allocated has the contents of a new object. *)
Unborn ==
  \A o \in Objects \ live :
    /\ color[o] = "white"
    /\ o \in Tables => entry[o] = Empty
    /\ o \in Threads => stack[o] = Nil
    /\ o \in Udata => env[o] = Registry
    /\ o \in Upvals => location[o] = Nil /\ closedval[o] = Nil

(* Userdata is in the list of one of the two lists, and nothing else is;   *)
(* an upvalue lies in a thread that exists, and a closure has an upvalue.  *)
Linked ==
  /\ ToSet(udlist) \cup Waiting = Udata \cap live
  /\ Waiting \subseteq finalized /\ finalized \subseteq live
  /\ \A v \in OpenUpvals : location[v] \in live
  /\ \A c \in Closures \cap live : captures[c] \in Upvals

(* What an object that is not to be freed names is not to be freed. *)
Whole ==
  /\ \A o \in live : color[o] # "dead" =>
       \A x \in Refs(o) : x \in live /\ color[x] # "dead"
  /\ running \in live
  /\ \A o \in Roots \cup {running} : color[o] # "dead"
  /\ gray \cup grayagain \cup weak \subseteq Queued \cap live
  /\ \A o \in gray \cup grayagain \cup weak : color[o] # "dead"
  /\ \A o \in gray : color[o] = "gray"

(* What each phase of the collector promises. *)
PhaseOK ==
  /\ gcstate # "propagate" => gray = {}
  /\ gcstate \notin {"sweepstring", "sweep"} => unswept = {}
  /\ gcstate = "sweep" => unswept \cap Strings = {}
  /\ Waiting \cap unswept = {}
  /\ \A v \in OpenUpvals : color[v] # "black"
  /\ \A v \in OpenUpvals \cap unswept : location[v] \in unswept
  /\ \A o \in Objects : color[o] = "dead" => o \in unswept
  /\ gcstate # "propagate" =>
       \A o \in live \ (unswept \cup Waiting) : color[o] = "white"

(* The invariant of marking, on marks of live objects: what is black names *)
(* nothing white, what is gray is in a list, or is a string or an open     *)
(* upvalue, both X excepted, and neither the roots nor what is in a list   *)
(* are white.                                                              *)
Incremental(m, X) ==
  /\ Roots \cap WhiteIn(m) = {}
  /\ m.gray \cup m.again \cup m.weak \subseteq (Queued \cap live) \ WhiteIn(m)
  /\ \A o \in Objects : m.color[o] # "dead"
  /\ \A o \in Objects \ live : m.color[o] = "white"
  /\ \A o \in live : m.color[o] = "black" => o \notin Threads \cup OpenUpvals
  /\ \A o \in live \ X : m.color[o] = "black" => Refs(o) \cap WhiteIn(m) = {}
  /\ \A o \in live \ X : m.color[o] = "gray" =>
       o \in m.gray \cup m.again \cup m.weak \cup Strings \cup OpenUpvals

Marking == gcstate = "propagate" => Incremental(marks, Waiting)

IInv == TypesOK /\ Unborn /\ Linked /\ Whole /\ PhaseOK /\ Marking

----------------------------------------------------------------------------
(* Lists.                                                                  *)

LEMMA SmallestLemma ==
  ASSUME NEW S \in SUBSET Nat, S # {}
  PROVE  \E m \in S : \A k \in S : m <= k
<1> DEFINE R == OpToRel(<, Nat)
<1>1. IsWellFoundedOn(R, Nat)
  BY NatLessThanWellFounded
<1>2. \A a, b \in Nat : a < b => <<a, b>> \in R
  BY DEF OpToRel
<1> HIDE DEF R
<1>3. PICK m \in S : \A k \in S : ~(<<k, m>> \in R)
  BY <1>1, WFMin
<1>4. \A k \in S : ~(k < m)
  BY <1>2, <1>3
<1>5. \A k \in S : m <= k
  BY <1>4
<1> QED BY <1>5

(* f counts out of s what lies in S, up to n. *)
Filters(f, s, S, n) ==
  f = [i \in 0..n |-> IF i = 0 THEN <<>>
                      ELSE IF s[i] \in S THEN Append(f[i-1], s[i]) ELSE f[i-1]]

LEMMA FilterExtends ==
  ASSUME NEW s, NEW S, NEW n \in Nat, NEW f, Filters(f, s, S, n)
  PROVE  \E g : Filters(g, s, S, n+1)
<1> DEFINE x == IF s[n+1] \in S THEN Append(f[n], s[n+1]) ELSE f[n]
           g == [i \in 0..n+1 |-> IF i = n+1 THEN x ELSE f[i]]
           h == [i \in 0..n+1 |-> IF i = 0 THEN <<>>
                   ELSE IF s[i] \in S THEN Append(g[i-1], s[i]) ELSE g[i-1]]
<1>1. \A i \in 0..n : f[i] = IF i = 0 THEN <<>>
        ELSE IF s[i] \in S THEN Append(f[i-1], s[i]) ELSE f[i-1]
  BY DEF Filters
<1>2. \A i \in 0..n : g[i] = f[i]
  OBVIOUS
<1>3. g[n+1] = x
  OBVIOUS
<1>4. ASSUME NEW i \in 0..n+1 PROVE g[i] = h[i]
  <2>1. CASE i = n+1
    <3>1. i # 0 /\ i-1 = n /\ g[n] = f[n]
      BY <2>1, <1>2
    <3>2. h[i] = IF s[i] \in S THEN Append(g[i-1], s[i]) ELSE g[i-1]
      BY <3>1
    <3> HIDE DEF g, h
    <3> QED BY <3>1, <3>2, <1>3, <2>1
  <2>2. CASE i # n+1 /\ i # 0
    <3>1. i \in 0..n /\ i-1 \in 0..n
      BY <2>2
    <3>2. h[i] = IF s[i] \in S THEN Append(g[i-1], s[i]) ELSE g[i-1]
      BY <2>2
    <3> HIDE DEF g, h
    <3>3. g[i] = f[i] /\ g[i-1] = f[i-1]
      BY <3>1, <1>2
    <3> QED BY <3>1, <3>2, <3>3, <2>2, <1>1
  <2>3. CASE i = 0
    <3>1. h[i] = <<>> /\ i \in 0..n
      BY <2>3
    <3> HIDE DEF g, h
    <3> QED BY <3>1, <1>1, <1>2, <2>3
  <2> QED BY <2>1, <2>2, <2>3
<1>5. g = h
  BY <1>4
<1> HIDE DEF x, h
<1>6. Filters(g, s, S, n+1)
  BY <1>5 DEF Filters, h
<1> QED BY <1>6

LEMMA FilterExists ==
  ASSUME NEW s, NEW S, NEW n \in Nat
  PROVE  \E f : Filters(f, s, S, n)
<1> DEFINE B == {k \in Nat : ~\E f : Filters(f, s, S, k)}
<1>1. SUFFICES ASSUME B # {} PROVE FALSE
  OBVIOUS
<1>2. PICK m \in B : \A k \in B : m <= k
  BY <1>1, SmallestLemma
<1>3. m # 0
  <2> DEFINE f == [i \in 0..0 |-> <<>>]
  <2>1. f = [i \in 0..0 |-> IF i = 0 THEN <<>>
                ELSE IF s[i] \in S THEN Append(f[i-1], s[i]) ELSE f[i-1]]
    OBVIOUS
  <2> HIDE DEF f
  <2>2. Filters(f, s, S, 0)
    BY <2>1 DEF Filters
  <2> QED BY <2>2
<1>4. m-1 \in Nat /\ m-1 \notin B /\ (m-1)+1 = m
  BY <1>2, <1>3
<1>5. PICK f : Filters(f, s, S, m-1)
  BY <1>4
<1>6. \E g : Filters(g, s, S, (m-1)+1)
  BY <1>4, <1>5, FilterExtends
<1> QED BY <1>4, <1>6

(* What Only() leaves of a list is what lies in S. *)
LEMMA OnlyLemma ==
  ASSUME NEW T, NEW s \in Seq(T), NEW S
  PROVE  /\ Only(s, S) \in Seq(T)
         /\ ToSet(Only(s, S)) = ToSet(s) \cap S
<1> DEFINE n == Len(s)
           F == CHOOSE f : Filters(f, s, S, n)
<1>1. n \in Nat
  BY LenProperties
<1>2. Filters(F, s, S, n)
  BY <1>1, FilterExists
<1>3. Only(s, S) = F[n]
  BY DEF Only, Filters
<1> HIDE DEF F
<1>4. \A i \in 0..n : F[i] = IF i = 0 THEN <<>>
        ELSE IF s[i] \in S THEN Append(F[i-1], s[i]) ELSE F[i-1]
  BY <1>2 DEF Filters
<1> DEFINE Upto(i) == {s[j] : j \in 1..i} \cap S
           Good(i) == F[i] \in Seq(T) /\ ToSet(F[i]) = Upto(i)
           B == {i \in 0..n : ~Good(i)}
<1>5. Good(0)
  <2>1. F[0] = <<>> /\ 0 \in 0..n
    BY <1>1, <1>4
  <2>2. <<>> \in Seq(T) /\ ToSet(<<>>) = {}
    BY DEF ToSet
  <2>3. Upto(0) = {}
    OBVIOUS
  <2> QED BY <2>1, <2>2, <2>3
<1>6. ASSUME NEW i \in 1..n, Good(i-1) PROVE Good(i)
  <2>1. /\ i \in 0..n /\ i # 0
        /\ F[i] = IF s[i] \in S THEN Append(F[i-1], s[i]) ELSE F[i-1]
    BY <1>1, <1>4
  <2>2. s[i] \in T
    BY ElementOfSeq
  <2> DEFINE f == F[i-1]
  <2>3. f \in Seq(T) /\ ToSet(f) = Upto(i-1)
    BY <1>6
  <2> HIDE DEF f
  <2>4. Upto(i) = Upto(i-1) \cup ({s[i]} \cap S)
    <3>1. 1..i = 1..i-1 \cup {i}
      BY <1>1
    <3> QED BY <3>1
  <2>5. /\ Append(f, s[i]) \in Seq(T)
        /\ ToSet(Append(f, s[i])) = ToSet(f) \cup {s[i]}
    <3> DEFINE g == Append(f, s[i])
    <3>1. /\ g \in Seq(T) /\ Len(g) = Len(f) + 1 /\ Len(f) \in Nat
          /\ \A j \in 1..Len(f) : g[j] = f[j]
          /\ g[Len(f)+1] = s[i]
      BY <2>2, <2>3, AppendProperties, LenProperties
    <3> HIDE DEF g
    <3>2. DOMAIN g = 1..Len(f)+1 /\ DOMAIN f = 1..Len(f)
      BY <2>3, <3>1, LenProperties
    <3>3. 1..Len(f)+1 = (1..Len(f)) \cup {Len(f)+1}
      BY <3>1
    <3>4. ToSet(g) = ToSet(f) \cup {s[i]}
      BY <3>1, <3>2, <3>3 DEF ToSet
    <3> QED BY <3>1, <3>4 DEF g
  <2> HIDE DEF Upto
  <2>6. F[i] = IF s[i] \in S THEN Append(f, s[i]) ELSE f
    BY <2>1 DEF f
  <2>7. CASE s[i] \in S
    BY <2>3, <2>4, <2>5, <2>6, <2>7
  <2>8. CASE s[i] \notin S
    BY <2>3, <2>4, <2>6, <2>8
  <2> QED BY <2>7, <2>8
<1> HIDE DEF Good
<1>7. B = {}
  <2> SUFFICES ASSUME B # {} PROVE FALSE
    OBVIOUS
  <2>1. B \in SUBSET Nat
    BY <1>1
  <2>2. PICK m \in B : \A k \in B : m <= k
    BY <2>1, SmallestLemma
  <2>3. m # 0 /\ m \in 1..n
    BY <1>1, <1>5, <2>2
  <2>4. m-1 \in 0..n /\ m-1 \notin B
    BY <1>1, <2>2, <2>3
  <2> QED BY <1>6, <2>2, <2>3, <2>4
<1>8. Good(n)
  BY <1>1, <1>7
<1>9. ToSet(s) = {s[j] : j \in 1..n}
  BY LenProperties DEF ToSet
<1> QED BY <1>3, <1>8, <1>9 DEF Good

----------------------------------------------------------------------------
(* Reach and marks.                                                        *)

(* Every sort of object is one only. *)
LEMMA Sorts ==
  /\ Objects = Leafs \cup Queued /\ Leafs \cap Queued = {}
  /\ Leafs = Udata \cup Upvals \cup Strings
  /\ Queued = Tables \cup Closures \cup Threads
  /\ Tables \cap Closures = {} /\ Tables \cap Threads = {}
  /\ Closures \cap Threads = {} /\ Udata \cap Upvals = {}
  /\ Udata \cap Strings = {} /\ Upvals \cap Strings = {}
  /\ Roots \subseteq Objects /\ Nil \notin Objects
  /\ Registry \in Tables /\ MainThread \in Threads
BY HeapAssumption DEF Objects, Leafs, Queued, Roots

(* What Reach() returns is closed. *)
LEMMA ReachClosed ==
  ASSUME NEW base, NEW among, NEW through
  PROVE  /\ Reach(base, among, through) \subseteq among
         /\ base \cap among \subseteq Reach(base, among, through)
         /\ \A o \in Reach(base, among, through) \cap through :
              Children(o) \cap among \subseteq Reach(base, among, through)
BY DEF Reach

(* Nothing that is closed is smaller. *)
LEMMA ReachLeast ==
  ASSUME NEW base, NEW among, NEW through, NEW T \in SUBSET among,
         base \cap among \subseteq T,
         \A o \in T \cap through : Children(o) \cap among \subseteq T
  PROVE  Reach(base, among, through) \subseteq T
BY DEF Reach

LEMMA ChildrenLemma ==
  ASSUME TypesOK, NEW o
  PROVE  /\ Nil \notin Children(o) /\ Nil \notin Refs(o)
         /\ Children(o) \subseteq Refs(o)
         /\ o \in Leafs \cup Closures \cup Threads => Refs(o) = Children(o)
         /\ o \in Tables /\ ~Weak(o) => Refs(o) = Children(o)
         /\ o \in Strings => Children(o) = {}
         /\ o \in Udata => Children(o) = {env[o]} \ {Nil}
         /\ o \in Upvals => Children(o) = {ValueOf(o)} \ {Nil}
         /\ o \in Threads => Children(o) = {stack[o], Registry}  \ {Nil}
         /\ o \in Closures => Children(o) = {captures[o], Registry}  \ {Nil}
         /\ o \in Tables => Refs(o) = {entry[o].key, entry[o].val} \ {Nil}
<1>1. CASE o \in Tables
  <2>1. Children(o) = ({entry[o].key : k \in {"k"} \ mode[o]}
                       \cup {entry[o].val : k \in {"v"} \ mode[o]}) \ {Nil}
    BY <1>1, Sorts DEF Children
  <2>2. o \notin Leafs \cup Closures \cup Threads /\ o \notin Strings
        /\ o \notin Udata /\ o \notin Upvals
    BY <1>1, Sorts
  <2> QED BY <1>1, <2>1, <2>2 DEF Refs, Weak
<1>2. CASE o \in Closures
  BY <1>2, Sorts DEF Children, Refs
<1>3. CASE o \in Threads
  BY <1>3, Sorts DEF Children, Refs
<1>4. CASE o \in Udata
  BY <1>4, Sorts DEF Children, Refs
<1>5. CASE o \in Upvals
  BY <1>5, Sorts DEF Children, Refs
<1>6. CASE o \notin Tables \cup Closures \cup Threads \cup Udata \cup Upvals
  BY <1>6, Sorts DEF Children, Refs
<1> QED BY <1>1, <1>2, <1>3, <1>4, <1>5, <1>6

LEMMA PaintLemma ==
  ASSUME NEW m \in Marks, NEW S, NEW c \in Colors
  PROVE  /\ Paint(m, S, c) \in Marks
         /\ Paint(m, S, c).gray = m.gray /\ Paint(m, S, c).again = m.again
         /\ Paint(m, S, c).weak = m.weak
         /\ \A o \in Objects : Paint(m, S, c).color[o] =
                                 IF o \in S THEN c ELSE m.color[o]
BY DEF Paint, Marks

LEMMA TraversedLemma ==
  ASSUME NEW m \in Marks, NEW S
  PROVE  LET n == Traversed(m, S)
         IN  /\ n.gray = m.gray
             /\ n.again = m.again \cup (S \cap Threads)
             /\ n.weak = m.weak \cup (S \cap {t \in Tables : Weak(t)})
             /\ \A o \in Objects : n.color[o] =
                  IF o \in S THEN (IF o \in StaysGray THEN "gray" ELSE "black")
                  ELSE m.color[o]
             /\ n \in Marks
<1> DEFINE a == Paint(m, S \cap StaysGray, "gray")
           b == Paint(a, S \ StaysGray, "black")
           n == Traversed(m, S)
<1>1. "gray" \in Colors /\ "black" \in Colors
  BY DEF Colors
<1>2. /\ a \in Marks
      /\ a.gray = m.gray /\ a.again = m.again /\ a.weak = m.weak
      /\ \A o \in Objects : a.color[o] =
           IF o \in S \cap StaysGray THEN "gray" ELSE m.color[o]
  BY <1>1, PaintLemma
<1> HIDE DEF a
<1>3. /\ b \in Marks
      /\ b.gray = a.gray /\ b.again = a.again /\ b.weak = a.weak
      /\ \A o \in Objects : b.color[o] =
           IF o \in S \ StaysGray THEN "black" ELSE a.color[o]
  BY <1>1, <1>2, PaintLemma
<1> HIDE DEF b
<1>4. n = [b EXCEPT !.again = @ \cup (S \cap Threads),
                    !.weak = @ \cup (S \cap {t \in Tables : Weak(t)})]
  BY DEF Traversed, a, b
<1>5. /\ n.gray = b.gray /\ n.again = b.again \cup (S \cap Threads)
      /\ n.weak = b.weak \cup (S \cap {t \in Tables : Weak(t)})
      /\ n.color = b.color
  BY <1>3, <1>4 DEF Marks
<1>6. n \in Marks
  <2>1. S \cap Threads \subseteq Objects /\ S \cap {t \in Tables : Weak(t)} \subseteq Objects
    BY DEF Objects, Queued
  <2> QED BY <1>3, <1>4, <2>1 DEF Marks
<1> HIDE DEF n
<1> QED BY <1>2, <1>3, <1>5, <1>6 DEF n

(* What Mark() finds white. *)
Fresh1(m, base) == Reach(base, WhiteIn(m), Leafs)

LEMMA WhiteObjects ==
  ASSUME TypesOK, NEW m
  PROVE  WhiteIn(m) \subseteq Objects
BY HeapAssumption, Sorts DEF WhiteIn, TypesOK

(* reallymarkobject(): what it meets is white no more, what is queued will *)
(* be traversed, and what is not has nothing white below.                  *)
LEMMA MarkLemma ==
  ASSUME TypesOK, NEW m \in Marks, NEW base
  PROVE  LET n == Mark(m, base)
             S == Fresh1(m, base)
         IN  /\ n \in Marks
             /\ n.gray = m.gray \cup (S \cap Queued)
             /\ n.again = m.again /\ n.weak = m.weak
             /\ S \subseteq WhiteIn(m) /\ base \cap WhiteIn(m) \subseteq S
             /\ WhiteIn(n) = WhiteIn(m) \ S
             /\ \A o \in S \cap Queued : n.color[o] = "gray"
             /\ \A o \in S \cap Leafs :
                  n.color[o] = IF o \in StaysGray THEN "gray" ELSE "black"
             /\ \A o \in Objects \ S : n.color[o] = m.color[o]
             /\ \A o \in S \cap Leafs : Children(o) \cap WhiteIn(n) = {}
<1> DEFINE S == Fresh1(m, base)
           p == Paint(m, S \cap Queued, "gray")
           t == Traversed(p, S \cap Leafs)
           n == Mark(m, base)
<1>1. /\ S \subseteq WhiteIn(m) /\ base \cap WhiteIn(m) \subseteq S
      /\ \A o \in S \cap Leafs : Children(o) \cap WhiteIn(m) \subseteq S
  BY ReachClosed DEF Fresh1
<1>2. S \subseteq Objects /\ WhiteIn(m) \subseteq Objects
  BY <1>1, WhiteObjects
<1> HIDE DEF S
<1>3. /\ p \in Marks /\ p.gray = m.gray /\ p.again = m.again /\ p.weak = m.weak
      /\ \A o \in Objects : p.color[o] =
           IF o \in S \cap Queued THEN "gray" ELSE m.color[o]
  <2>1. "gray" \in Colors
    BY DEF Colors
  <2> QED BY <2>1, PaintLemma
<1> HIDE DEF p
<1>4. /\ t \in Marks /\ t.gray = p.gray
      /\ t.again = p.again \cup (S \cap Leafs \cap Threads)
      /\ t.weak = p.weak \cup (S \cap Leafs \cap {x \in Tables : Weak(x)})
      /\ \A o \in Objects : t.color[o] =
           IF o \in S \cap Leafs
           THEN (IF o \in StaysGray THEN "gray" ELSE "black") ELSE p.color[o]
  BY <1>3, TraversedLemma
<1> HIDE DEF t
<1>5. n = [t EXCEPT !.gray = @ \cup (S \cap Queued)]
  BY DEF Mark, Fresh1, S, p, t
<1>6. n.gray = t.gray \cup (S \cap Queued) /\ n.again = t.again
      /\ n.weak = t.weak /\ n.color = t.color
  BY <1>4, <1>5 DEF Marks
<1>7. S \cap Leafs \cap Threads = {} /\ S \cap Leafs \cap Tables = {}
  BY Sorts
<1>8. n.again = m.again /\ n.weak = m.weak /\ n.gray = m.gray \cup (S \cap Queued)
  BY <1>3, <1>4, <1>6, <1>7
<1>9. n \in Marks
  BY <1>2, <1>4, <1>5 DEF Marks
<1> HIDE DEF n
<1>10. /\ \A o \in S \cap Queued : n.color[o] = "gray"
       /\ \A o \in S \cap Leafs :
            n.color[o] = IF o \in StaysGray THEN "gray" ELSE "black"
       /\ \A o \in Objects \ S : n.color[o] = m.color[o]
  BY <1>2, <1>3, <1>4, <1>6, Sorts
<1>11. WhiteIn(n) = WhiteIn(m) \ S
  <2>1. pool \cup Roots \subseteq Objects
    BY HeapAssumption, Sorts DEF TypesOK
  <2>2. \A o \in S : n.color[o] \notin {"white", "dead"}
    BY <1>2, <1>10, Sorts
  <2> QED BY <1>10, <2>1, <2>2 DEF WhiteIn
<1>12. \A o \in S \cap Leafs : Children(o) \cap WhiteIn(n) = {}
  BY <1>1, <1>11
<1> QED BY <1>1, <1>8, <1>9, <1>10, <1>11, <1>12 DEF S, n

(* What PropagateAll() finds white. *)
Fresh2(m) == Reach(UNION {Children(o) : o \in m.gray}, WhiteIn(m), Objects)

(* propagateall(): whatever was queued, or is found, has been traversed. *)
LEMMA PropagateAllLemma ==
  ASSUME TypesOK, NEW m \in Marks
  PROVE  LET n == PropagateAll(m)
             S == Fresh2(m)
         IN  /\ n \in Marks
             /\ n.gray = {}
             /\ n.again = m.again \cup ((m.gray \cup S) \cap Threads)
             /\ n.weak = m.weak
                  \cup ((m.gray \cup S) \cap {t \in Tables : Weak(t)})
             /\ S \subseteq WhiteIn(m)
             /\ WhiteIn(n) = WhiteIn(m) \ (m.gray \cup S)
             /\ \A o \in m.gray \cup S :
                  n.color[o] = IF o \in StaysGray THEN "gray" ELSE "black"
             /\ \A o \in Objects \ (m.gray \cup S) : n.color[o] = m.color[o]
             /\ \A o \in m.gray \cup S : Children(o) \cap WhiteIn(n) = {}
<1> DEFINE S == Fresh2(m)
           p == [m EXCEPT !.gray = {}]
           n == PropagateAll(m)
<1>1. /\ S \subseteq WhiteIn(m)
      /\ (UNION {Children(o) : o \in m.gray}) \cap WhiteIn(m) \subseteq S
      /\ \A o \in S \cap Objects : Children(o) \cap WhiteIn(m) \subseteq S
  BY ReachClosed DEF Fresh2
<1>2. S \subseteq Objects /\ m.gray \subseteq Objects
  BY <1>1, WhiteObjects DEF Marks
<1> HIDE DEF S
<1>3. /\ p \in Marks /\ p.gray = {} /\ p.again = m.again /\ p.weak = m.weak
      /\ p.color = m.color
  BY DEF Marks
<1>4. n = Traversed(p, m.gray \cup S)
  BY DEF PropagateAll, Fresh2, S, p
<1> HIDE DEF p
<1>5. /\ n \in Marks /\ n.gray = p.gray
      /\ n.again = p.again \cup ((m.gray \cup S) \cap Threads)
      /\ n.weak = p.weak \cup ((m.gray \cup S) \cap {x \in Tables : Weak(x)})
      /\ \A o \in Objects : n.color[o] =
           IF o \in m.gray \cup S
           THEN (IF o \in StaysGray THEN "gray" ELSE "black") ELSE p.color[o]
  BY <1>3, <1>4, TraversedLemma
<1> HIDE DEF n
<1>6. /\ \A o \in m.gray \cup S :
           n.color[o] = IF o \in StaysGray THEN "gray" ELSE "black"
      /\ \A o \in Objects \ (m.gray \cup S) : n.color[o] = m.color[o]
  BY <1>2, <1>3, <1>5
<1>7. WhiteIn(n) = WhiteIn(m) \ (m.gray \cup S)
  <2>1. pool \cup Roots \subseteq Objects
    BY HeapAssumption, Sorts DEF TypesOK
  <2>2. \A o \in m.gray \cup S : n.color[o] \notin {"white", "dead"}
    BY <1>6
  <2> QED BY <1>6, <2>1, <2>2 DEF WhiteIn
<1>8. \A o \in m.gray \cup S : Children(o) \cap WhiteIn(n) = {}
  <2> TAKE o \in m.gray \cup S
  <2>1. CASE o \in m.gray
    <3>1. Children(o) \cap WhiteIn(m) \subseteq S
      BY <1>1, <2>1
    <3> QED BY <1>7, <3>1
  <2>2. CASE o \in S
    <3>1. Children(o) \cap WhiteIn(m) \subseteq S
      BY <1>1, <1>2, <2>2
    <3> QED BY <1>7, <3>1
  <2> QED BY <2>1, <2>2
<1> QED BY <1>1, <1>3, <1>5, <1>6, <1>7, <1>8 DEF S, n

Closed == \A o \in live : Refs(o) \subseteq live

(* Marking from live objects keeps the invariant of marking. *)
LEMMA MarkIncremental ==
  ASSUME TypesOK, Closed, NEW m \in Marks, NEW X, Incremental(m, X),
         NEW base \in SUBSET (live \cup {Nil})
  PROVE  /\ Incremental(Mark(m, base), X)
         /\ Fresh1(m, base) \subseteq live
<1> DEFINE n == Mark(m, base)
           S == Fresh1(m, base)
           W == WhiteIn(m)
<1>0. W \subseteq Objects /\ live \subseteq Objects
  <2>1. live \subseteq Objects
    BY HeapAssumption, Sorts DEF TypesOK
  <2> QED BY <2>1, WhiteObjects
<1>1. /\ n \in Marks
      /\ n.gray = m.gray \cup (S \cap Queued)
      /\ n.again = m.again /\ n.weak = m.weak
      /\ S \subseteq W /\ base \cap W \subseteq S
      /\ WhiteIn(n) = W \ S
      /\ \A o \in S \cap Queued : n.color[o] = "gray"
      /\ \A o \in S \cap Leafs :
           n.color[o] = IF o \in StaysGray THEN "gray" ELSE "black"
      /\ \A o \in Objects \ S : n.color[o] = m.color[o]
      /\ \A o \in S \cap Leafs : Children(o) \cap WhiteIn(n) = {}
  BY MarkLemma
<1>2. S \subseteq live
  <2> DEFINE T == live \cap W
  <2>1. base \cap W \subseteq T
    BY <1>0, Sorts
  <2>2. \A o \in T \cap Leafs : Children(o) \cap W \subseteq T
    BY ChildrenLemma DEF Closed
  <2>3. T \in SUBSET W
    OBVIOUS
  <2> HIDE DEF T, W
  <2>4. Reach(base, W, Leafs) \subseteq T
    BY <2>1, <2>2, <2>3, ReachLeast
  <2> QED BY <2>4 DEF T, Fresh1, W
<1> HIDE DEF n, S, W
<1>3. /\ Roots \cap W = {}
      /\ m.gray \cup m.again \cup m.weak \subseteq (Queued \cap live) \ W
      /\ \A o \in Objects : m.color[o] # "dead"
      /\ \A o \in Objects \ live : m.color[o] = "white"
      /\ \A o \in live : m.color[o] = "black" => o \notin Threads \cup OpenUpvals
      /\ \A o \in live \ X : m.color[o] = "black" => Refs(o) \cap W = {}
      /\ \A o \in live \ X : m.color[o] = "gray" =>
           o \in m.gray \cup m.again \cup m.weak \cup Strings \cup OpenUpvals
  BY DEF Incremental, W
<1>4. \A o \in S : (o \in Queued /\ n.color[o] = "gray") \/
                   (o \in Leafs /\ n.color[o] = "gray" /\ o \in StaysGray) \/
                   (o \in Leafs /\ n.color[o] = "black" /\ o \notin StaysGray)
  BY <1>0, <1>1, Sorts
<1>5. Roots \cap WhiteIn(n) = {}
  BY <1>1, <1>3
<1>6. n.gray \cup n.again \cup n.weak \subseteq (Queued \cap live) \ WhiteIn(n)
  BY <1>1, <1>2, <1>3
<1>7. /\ \A o \in Objects : n.color[o] # "dead"
      /\ \A o \in Objects \ live : n.color[o] = "white"
  BY <1>1, <1>2, <1>3, <1>4
<1>8. \A o \in live : n.color[o] = "black" => o \notin Threads \cup OpenUpvals
  BY <1>0, <1>1, <1>3, <1>4, Sorts DEF StaysGray
<1>9. \A o \in live \ X : n.color[o] = "black" => Refs(o) \cap WhiteIn(n) = {}
  <2> SUFFICES ASSUME NEW o \in live \ X, n.color[o] = "black"
               PROVE  Refs(o) \cap WhiteIn(n) = {}
    OBVIOUS
  <2>1. CASE o \in S
    <3>1. o \in Leafs
      BY <1>4, <2>1
    <3>2. Refs(o) = Children(o)
      BY <3>1, ChildrenLemma
    <3> QED BY <1>1, <2>1, <3>1, <3>2
  <2>2. CASE o \notin S
    <3>1. m.color[o] = "black"
      BY <1>0, <1>1, <2>2
    <3> QED BY <1>1, <1>3, <3>1
  <2> QED BY <2>1, <2>2
<1>10. \A o \in live \ X : n.color[o] = "gray" =>
         o \in n.gray \cup n.again \cup n.weak \cup Strings \cup OpenUpvals
  <2> SUFFICES ASSUME NEW o \in live \ X, n.color[o] = "gray"
               PROVE  o \in n.gray \cup n.again \cup n.weak \cup Strings
                              \cup OpenUpvals
    OBVIOUS
  <2>1. CASE o \in S
    <3>1. CASE o \in Queued
      BY <1>1, <2>1, <3>1
    <3>2. CASE o \in Leafs /\ o \in StaysGray
      <4>1. o \notin Tables /\ o \notin Threads
        BY <3>2, Sorts
      <4> QED BY <3>2, <4>1 DEF StaysGray
    <3> QED BY <1>4, <2>1, <3>1, <3>2
  <2>2. CASE o \notin S
    BY <1>0, <1>1, <1>3, <2>2
  <2> QED BY <2>1, <2>2
<1>11. Incremental(n, X)
  BY <1>5, <1>6, <1>7, <1>8, <1>9, <1>10 DEF Incremental
<1> QED BY <1>2, <1>11 DEF n, S

(* So does propagateall(), and nothing waits to be traversed after it. *)
LEMMA PropagateAllIncremental ==
  ASSUME TypesOK, Closed, NEW m \in Marks, NEW X, Incremental(m, X)
  PROVE  /\ Incremental(PropagateAll(m), X)
         /\ Fresh2(m) \subseteq live
<1> DEFINE n == PropagateAll(m)
           S == Fresh2(m)
           W == WhiteIn(m)
           G == m.gray
           base == UNION {Children(o) : o \in m.gray}
<1>0. W \subseteq Objects /\ live \subseteq Objects
  <2>1. live \subseteq Objects
    BY HeapAssumption, Sorts DEF TypesOK
  <2> QED BY <2>1, WhiteObjects
<1>1. /\ n \in Marks
      /\ n.gray = {}
      /\ n.again = m.again \cup ((G \cup S) \cap Threads)
      /\ n.weak = m.weak \cup ((G \cup S) \cap {t \in Tables : Weak(t)})
      /\ S \subseteq W
      /\ WhiteIn(n) = W \ (G \cup S)
      /\ \A o \in G \cup S :
           n.color[o] = IF o \in StaysGray THEN "gray" ELSE "black"
      /\ \A o \in Objects \ (G \cup S) : n.color[o] = m.color[o]
      /\ \A o \in G \cup S : Children(o) \cap WhiteIn(n) = {}
  BY PropagateAllLemma
<1>3. /\ Roots \cap W = {}
      /\ G \cup m.again \cup m.weak \subseteq (Queued \cap live) \ W
      /\ \A o \in Objects : m.color[o] # "dead"
      /\ \A o \in Objects \ live : m.color[o] = "white"
      /\ \A o \in live : m.color[o] = "black" => o \notin Threads \cup OpenUpvals
      /\ \A o \in live \ X : m.color[o] = "black" => Refs(o) \cap W = {}
      /\ \A o \in live \ X : m.color[o] = "gray" =>
           o \in G \cup m.again \cup m.weak \cup Strings \cup OpenUpvals
  BY DEF Incremental
<1>2. S \subseteq live
  <2> DEFINE T == live \cap W
  <2>1. base \subseteq live
    BY <1>3, ChildrenLemma DEF Closed
  <2>2. \A o \in T \cap Objects : Children(o) \cap W \subseteq T
    BY ChildrenLemma DEF Closed
  <2>3. T \in SUBSET W /\ base \cap W \subseteq T
    BY <2>1
  <2> HIDE DEF T, W, base
  <2>4. Reach(base, W, Objects) \subseteq T
    BY <2>2, <2>3, ReachLeast
  <2> QED BY <2>4 DEF T, Fresh2, W, base
<1> HIDE DEF n, S, W, G, base
<1>4. G \cup S \subseteq live /\ G \cup S \subseteq Objects
  BY <1>0, <1>2, <1>3
<1>5. Roots \cap WhiteIn(n) = {}
  BY <1>1, <1>3
<1>6. n.gray \cup n.again \cup n.weak \subseteq (Queued \cap live) \ WhiteIn(n)
  BY <1>1, <1>3, <1>4, Sorts
<1>7. /\ \A o \in Objects : n.color[o] # "dead"
      /\ \A o \in Objects \ live : n.color[o] = "white"
  BY <1>1, <1>3, <1>4
<1>8. \A o \in live : n.color[o] = "black" => o \notin Threads \cup OpenUpvals
  BY <1>0, <1>1, <1>3 DEF StaysGray
<1>9. \A o \in live \ X : n.color[o] = "black" => Refs(o) \cap WhiteIn(n) = {}
  <2> SUFFICES ASSUME NEW o \in live \ X, n.color[o] = "black"
               PROVE  Refs(o) \cap WhiteIn(n) = {}
    OBVIOUS
  <2>1. CASE o \in G \cup S
    <3>1. o \notin StaysGray /\ o \in Objects
      BY <1>1, <1>4, <2>1
    <3>2. Refs(o) = Children(o)
      BY <3>1, ChildrenLemma, Sorts DEF StaysGray
    <3> QED BY <1>1, <2>1, <3>2
  <2>2. CASE o \notin G \cup S
    <3>1. m.color[o] = "black"
      BY <1>0, <1>1, <2>2
    <3> QED BY <1>1, <1>3, <3>1
  <2> QED BY <2>1, <2>2
<1>10. \A o \in live \ X : n.color[o] = "gray" =>
         o \in n.gray \cup n.again \cup n.weak \cup Strings \cup OpenUpvals
  <2> SUFFICES ASSUME NEW o \in live \ X, n.color[o] = "gray"
               PROVE  o \in n.gray \cup n.again \cup n.weak \cup Strings
                              \cup OpenUpvals
    OBVIOUS
  <2>1. CASE o \in G \cup S
    <3>1. o \in StaysGray
      BY <1>1, <2>1
    <3> QED BY <1>1, <2>1, <3>1 DEF StaysGray
  <2>2. CASE o \notin G \cup S
    BY <1>0, <1>1, <1>3, <2>2
  <2> QED BY <2>1, <2>2
<1>11. Incremental(n, X)
  BY <1>5, <1>6, <1>7, <1>8, <1>9, <1>10 DEF Incremental
<1> QED BY <1>2, <1>11 DEF n, S

----------------------------------------------------------------------------
(* atomic().                                                               *)

(* Outside E, what is not white is queued or has only marked children. *)
Half(m, E) ==
  \A o \in live \ (E \cup WhiteIn(m)) :
    o \in m.gray \/ Children(o) \cap WhiteIn(m) = {}

LEMMA LiveObjects == ASSUME TypesOK PROVE live \subseteq Objects
BY HeapAssumption, Sorts DEF TypesOK

LEMMA MarkHalf ==
  ASSUME TypesOK, NEW m \in Marks, NEW E, NEW base,
         \A o \in live \ (E \cup WhiteIn(m)) :
           o \in m.gray \/ Children(o) \cap WhiteIn(m) \subseteq base
  PROVE  Half(Mark(m, base), E)
<1> DEFINE n == Mark(m, base)
           S == Fresh1(m, base)
<1>1. /\ n.gray = m.gray \cup (S \cap Queued)
      /\ S \subseteq WhiteIn(m) /\ base \cap WhiteIn(m) \subseteq S
      /\ WhiteIn(n) = WhiteIn(m) \ S
      /\ \A o \in S \cap Leafs : Children(o) \cap WhiteIn(n) = {}
  BY MarkLemma
<1> HIDE DEF n, S
<1>2. ASSUME NEW o \in live \ (E \cup WhiteIn(n))
      PROVE  o \in n.gray \/ Children(o) \cap WhiteIn(n) = {}
  <2>1. CASE o \in S
    <3>1. o \in Leafs \cup Queued
      BY LiveObjects, Sorts
    <3> QED BY <1>1, <2>1, <3>1
  <2>2. CASE o \notin S
    <3>1. o \in live \ (E \cup WhiteIn(m))
      BY <1>1, <2>2
    <3>2. o \in m.gray \/ Children(o) \cap WhiteIn(m) \subseteq base
      BY <3>1
    <3> QED BY <1>1, <3>2
  <2> QED BY <2>1, <2>2
<1> QED BY <1>2 DEF Half, n

LEMMA PropagateHalf ==
  ASSUME TypesOK, NEW m \in Marks, NEW E, Half(m, E)
  PROVE  Half(PropagateAll(m), E)
<1> DEFINE n == PropagateAll(m)
           S == Fresh2(m)
           G == m.gray
<1>1. /\ WhiteIn(n) = WhiteIn(m) \ (G \cup S)
      /\ \A o \in G \cup S : Children(o) \cap WhiteIn(n) = {}
  BY PropagateAllLemma
<1> HIDE DEF n, S
<1>2. ASSUME NEW o \in live \ (E \cup WhiteIn(n))
      PROVE  o \in n.gray \/ Children(o) \cap WhiteIn(n) = {}
  <2>1. CASE o \in G \cup S
    BY <1>1, <2>1
  <2>2. CASE o \notin G \cup S
    <3>1. o \in live \ (E \cup WhiteIn(m))
      BY <1>1, <2>2
    <3>2. Children(o) \cap WhiteIn(m) = {}
      BY <2>2, <3>1 DEF Half
    <3> QED BY <1>1, <3>2
  <2> QED BY <2>1, <2>2
<1> QED BY <1>2 DEF Half, n

(* Objects that go from one list into another keep the invariant. *)
LEMMA RequeuedIncremental ==
  ASSUME NEW m \in Marks, NEW n \in Marks, NEW X, Incremental(m, X),
         n.color = m.color,
         n.gray \cup n.again \cup n.weak = m.gray \cup m.again \cup m.weak
  PROVE  Incremental(n, X) /\ WhiteIn(n) = WhiteIn(m)
<1>1. WhiteIn(n) = WhiteIn(m)
  BY DEF WhiteIn
<1> QED BY <1>1 DEF Incremental

(* Up to the third propagateall() of atomic(): nothing that is marked      *)
(* refers to anything that is not, except userdata that waits for its      *)
(* finalizer since the cycle before.                                       *)
LEMMA MarkedAgainLemma ==
  ASSUME IInv, gcstate = "propagate", gray = {}
  PROVE  /\ MarkedAgain \in Marks
         /\ Incremental(MarkedAgain, Waiting)
         /\ MarkedAgain.gray = {} /\ MarkedAgain.again \subseteq Threads
         /\ running \notin WhiteIn(MarkedAgain)
         /\ Half(MarkedAgain, Waiting)
<1> DEFINE open == {ValueOf(v) : v \in {u \in OpenUpvals : color[u] = "gray"}}
           a  == Mark(marks, open)
           m1 == PropagateAll(a)
           b  == [m1 EXCEPT !.gray = m1.weak, !.weak = {}]
           c  == Mark(b, {running})
           m2 == PropagateAll(c)
           d  == [m2 EXCEPT !.gray = m2.again, !.again = {}]
           m3 == PropagateAll(d)
           E1 == grayagain \cup weak \cup Waiting
           E2 == m1.again \cup Waiting
<1>0. TypesOK /\ Linked /\ Whole /\ PhaseOK /\ Incremental(marks, Waiting)
  BY DEF IInv, Marking
<1>1. marks \in Marks /\ marks.gray = {} /\ marks.again = grayagain
      /\ marks.weak = weak /\ marks.color = color
  BY <1>0 DEF TypesOK, marks
<1>2. Closed /\ running \in live
  <2>1. \A o \in Objects : color[o] # "dead"
    BY <1>0, <1>1 DEF Incremental
  <2> QED BY <1>0, <2>1, LiveObjects DEF Whole, Closed
<1>3. MarkedAgain = m3
  BY DEF MarkedAgain
<1>4. open \in SUBSET (live \cup {Nil})
  <2> SUFFICES ASSUME NEW v \in OpenUpvals, ValueOf(v) # Nil
               PROVE  ValueOf(v) \in live
    OBVIOUS
  <2>1. v \in Upvals \cap live
    BY DEF OpenUpvals, OpenOf
  <2>2. ValueOf(v) \in Refs(v)
    BY <1>0, <2>1, ChildrenLemma
  <2> QED BY <1>2, <2>1, <2>2 DEF Closed
<1>5. a \in Marks /\ Incremental(a, Waiting) /\ a.again = grayagain /\ a.weak = weak
  BY <1>0, <1>1, <1>2, <1>4, MarkLemma, MarkIncremental
<1>6. Half(a, E1)
  <2> SUFFICES ASSUME NEW o \in live \ (E1 \cup WhiteIn(marks))
               PROVE  o \in marks.gray
                      \/ Children(o) \cap WhiteIn(marks) \subseteq open
    BY <1>0, <1>1, MarkHalf
  <2>0. o \in Objects /\ o \in pool \cup Roots
    BY <1>0, LiveObjects DEF TypesOK
  <2>1. color[o] = "black" \/ color[o] = "gray"
    BY <1>0, <1>1, <2>0 DEF WhiteIn, TypesOK, Marks, Colors
  <2>2. CASE color[o] = "black"
    <3>1. Refs(o) \cap WhiteIn(marks) = {}
      BY <1>0, <1>1, <2>2 DEF Incremental
    <3> QED BY <1>0, <3>1, ChildrenLemma
  <2>3. CASE color[o] = "gray"
    <3>1. o \in Strings \cup OpenUpvals
      BY <1>0, <1>1, <2>3 DEF Incremental
    <3>2. CASE o \in Strings
      BY <1>0, <3>2, ChildrenLemma
    <3>3. CASE o \in OpenUpvals
      <4>1. o \in Upvals /\ ValueOf(o) \in open
        BY <2>3, <3>3 DEF OpenUpvals, OpenOf
      <4> QED BY <1>0, <4>1, ChildrenLemma
    <3> QED BY <3>1, <3>2, <3>3
  <2> QED BY <2>1, <2>2, <2>3
<1> HIDE DEF a, open
<1>7. /\ m1 \in Marks /\ Incremental(m1, Waiting) /\ Half(m1, E1)
      /\ m1.gray = {} /\ grayagain \subseteq m1.again /\ weak \subseteq m1.weak
  BY <1>0, <1>2, <1>5, <1>6, PropagateAllLemma, PropagateAllIncremental,
     PropagateHalf
<1> HIDE DEF m1
<1>8. /\ b \in Marks /\ b.color = m1.color /\ b.gray = m1.weak
      /\ b.again = m1.again /\ b.weak = {}
  BY <1>7 DEF Marks
<1> HIDE DEF b
<1>9. Incremental(b, Waiting) /\ WhiteIn(b) = WhiteIn(m1)
  BY <1>7, <1>8, RequeuedIncremental
<1>10. /\ c \in Marks /\ c.again = m1.again
       /\ Incremental(c, Waiting) /\ running \notin WhiteIn(c)
  BY <1>0, <1>2, <1>8, <1>9, MarkLemma, MarkIncremental
<1>11. Half(c, E2)
  <2> SUFFICES ASSUME NEW o \in live \ (E2 \cup WhiteIn(b))
               PROVE  o \in b.gray \/ Children(o) \cap WhiteIn(b) \subseteq {running}
    BY <1>0, <1>8, MarkHalf
  <2>1. CASE o \in m1.weak
    BY <1>8, <2>1
  <2>2. CASE o \notin m1.weak
    <3>1. o \in live \ (E1 \cup WhiteIn(m1))
      BY <1>7, <1>9, <2>2
    <3> QED BY <1>7, <1>9, <3>1 DEF Half
  <2> QED BY <2>1, <2>2
<1> HIDE DEF c
<1>12. /\ m2 \in Marks /\ Incremental(m2, Waiting) /\ Half(m2, E2)
       /\ m2.gray = {} /\ m1.again \subseteq m2.again
       /\ running \notin WhiteIn(m2)
  BY <1>0, <1>2, <1>10, <1>11, PropagateAllLemma, PropagateAllIncremental,
     PropagateHalf
<1> HIDE DEF m2
<1>13. /\ d \in Marks /\ d.color = m2.color /\ d.gray = m2.again
       /\ d.again = {} /\ d.weak = m2.weak
  BY <1>12 DEF Marks
<1> HIDE DEF d
<1>14. Incremental(d, Waiting) /\ WhiteIn(d) = WhiteIn(m2)
  BY <1>12, <1>13, RequeuedIncremental
<1>15. Half(d, Waiting)
  BY <1>12, <1>13, <1>14 DEF Half
<1>16. /\ m3 \in Marks /\ Incremental(m3, Waiting) /\ Half(m3, Waiting)
       /\ m3.gray = {} /\ m3.again \subseteq Threads
       /\ running \notin WhiteIn(m3)
  BY <1>0, <1>2, <1>12, <1>13, <1>14, <1>15, PropagateAllLemma,
     PropagateAllIncremental, PropagateHalf
<1> HIDE DEF m3
<1> QED BY <1>3, <1>16

(* marktmu() and the last propagateall(): what waits for a finalizer is    *)
(* white again and marked anew, and then nothing that is marked refers to  *)
(* anything that is not.  Only weak tables still name what is white.       *)
LEMMA FinalMarksLemma ==
  ASSUME IInv, gcstate = "propagate", gray = {},
         NEW T \in SUBSET (Udata \cap live), Waiting \subseteq T
  PROVE  LET m4 == PropagateAll(Mark(Paint(MarkedAgain, T, "white"), T))
             W  == WhiteIn(m4)
         IN  /\ m4 \in Marks /\ m4.gray = {}
             /\ m4.again \cup m4.weak \subseteq (Queued \cap live) \ W
             /\ \A o \in Objects : m4.color[o] # "dead"
             /\ \A o \in Objects \ live : m4.color[o] = "white"
             /\ \A v \in OpenUpvals : m4.color[v] # "black"
             /\ \A o \in live \ W : Children(o) \cap W = {}
             /\ \A t \in (Tables \cap live) \ (W \cup m4.weak) :
                  Refs(t) \cap W = {}
             /\ (T \cup Roots \cup {running}) \cap W = {}
<1> DEFINE m3 == MarkedAgain
           p  == Paint(m3, T, "white")
           q  == Mark(p, T)
           m4 == PropagateAll(q)
           W3 == WhiteIn(m3)
           W  == WhiteIn(m4)
           S1 == Fresh1(p, T)
           S2 == Fresh2(q)
<1>0. TypesOK /\ Linked /\ Whole /\ PhaseOK /\ Incremental(marks, Waiting)
  BY DEF IInv, Marking
<1>1. /\ m3 \in Marks /\ Incremental(m3, Waiting)
      /\ m3.gray = {} /\ m3.again \subseteq Threads
      /\ running \notin W3 /\ Half(m3, Waiting)
  BY MarkedAgainLemma
<1> HIDE DEF m3
<1>2. Closed /\ running \in live /\ live \subseteq Objects /\ live \subseteq pool \cup Roots
  <2>1. \A o \in Objects : color[o] # "dead"
    BY <1>0 DEF Incremental, marks
  <2> QED BY <1>0, <2>1, LiveObjects DEF Whole, Closed, TypesOK
<1>3. /\ p \in Marks /\ p.gray = {} /\ p.again = m3.again /\ p.weak = m3.weak
      /\ \A o \in Objects : p.color[o] = IF o \in T THEN "white" ELSE m3.color[o]
  <2>1. "white" \in Colors
    BY DEF Colors
  <2> QED BY <1>1, <2>1, PaintLemma
<1> HIDE DEF p
<1>4. WhiteIn(p) = W3 \cup T
  BY <1>2, <1>3, WhiteObjects, <1>0 DEF WhiteIn
<1>5. Incremental(p, live)
  <2>0. \A o \in Objects : p.color[o] = m3.color[o] \/ (o \in T /\ p.color[o] = "white")
    BY <1>3
  <2>1. Roots \cap WhiteIn(p) = {}
    BY <1>1, <1>4, Sorts DEF Incremental, Roots
  <2>2. p.gray \cup p.again \cup p.weak \subseteq (Queued \cap live) \ WhiteIn(p)
    BY <1>1, <1>3, <1>4, Sorts DEF Incremental
  <2>3. \A o \in Objects : p.color[o] # "dead"
    BY <1>1, <2>0 DEF Incremental
  <2>4. \A o \in Objects \ live : p.color[o] = "white"
    BY <1>1, <2>0 DEF Incremental
  <2>5. \A o \in live : p.color[o] = "black" => o \notin Threads \cup OpenUpvals
    BY <1>1, <1>2, <2>0 DEF Incremental
  <2> QED BY <2>1, <2>2, <2>3, <2>4, <2>5 DEF Incremental
<1>6. /\ q \in Marks /\ Incremental(q, live) /\ S1 \subseteq live
      /\ q.gray = S1 \cap Queued /\ q.again = m3.again /\ q.weak = m3.weak
      /\ S1 \subseteq WhiteIn(p) /\ T \cap WhiteIn(p) \subseteq S1
      /\ WhiteIn(q) = WhiteIn(p) \ S1
      /\ \A o \in Objects \ S1 : q.color[o] = p.color[o]
      /\ \A o \in S1 \cap Leafs : Children(o) \cap WhiteIn(q) = {}
  <2>1. T \in SUBSET (live \cup {Nil})
    OBVIOUS
  <2> QED BY <1>0, <1>2, <1>3, <1>5, <2>1, MarkLemma, MarkIncremental
<1> HIDE DEF q, S1
<1>7. /\ m4 \in Marks /\ Incremental(m4, live) /\ S2 \subseteq live
      /\ m4.gray = {}
      /\ m4.weak = m3.weak
           \cup ((q.gray \cup S2) \cap {t \in Tables : Weak(t)})
      /\ W = WhiteIn(q) \ (q.gray \cup S2)
      /\ \A o \in Objects \ (q.gray \cup S2) : m4.color[o] = q.color[o]
      /\ \A o \in q.gray \cup S2 : Children(o) \cap W = {}
  BY <1>0, <1>2, <1>6, PropagateAllLemma, PropagateAllIncremental
<1> HIDE DEF m4, S2
<1>8. W \subseteq W3 /\ T \cap W = {}
  BY <1>4, <1>6, <1>7
<1>9. ASSUME NEW o \in live \ W PROVE Children(o) \cap W = {}
  <2>1. CASE o \in q.gray \cup S2
    BY <1>7, <2>1
  <2>2. CASE o \in S1 \cap Leafs
    BY <1>6, <1>7, <2>2
  <2>3. CASE o \notin q.gray \cup S2 /\ o \notin S1 \cap Leafs
    <3>1. o \in Leafs \cup Queued
      BY <1>2, Sorts
    <3>2. o \notin S1
      BY <1>6, <2>3, <3>1
    <3>3. o \in live \ (Waiting \cup W3)
      BY <1>4, <1>6, <1>7, <2>3, <3>2
    <3>4. Children(o) \cap W3 = {}
      BY <1>1, <3>3 DEF Half
    <3> QED BY <1>8, <3>4
  <2> QED BY <2>1, <2>2, <2>3
<1>10. ASSUME NEW t \in (Tables \cap live) \ (W \cup m4.weak)
       PROVE  Refs(t) \cap W = {}
  <2>0. t \in Queued /\ t \notin Threads /\ t \notin Strings
        /\ t \notin OpenUpvals /\ t \notin Udata /\ t \in Objects
    BY Sorts DEF OpenUpvals, OpenOf
  <2>1. CASE t \in q.gray \cup S2
    <3>1. ~Weak(t)
      BY <1>7, <2>1
    <3>2. Refs(t) = Children(t)
      BY <1>0, <3>1, ChildrenLemma
    <3> QED BY <1>7, <2>1, <3>2
  <2>2. CASE t \notin q.gray \cup S2
    <3>1. t \notin S1 /\ t \notin T
      BY <1>6, <2>0, <2>2
    <3>2. t \in live \ (Waiting \cup W3)
      BY <1>4, <1>6, <1>7, <2>2, <3>1
    <3>3. m3.color[t] = "gray" \/ m3.color[t] = "black"
      BY <1>1, <1>2, <2>0, <3>2 DEF WhiteIn, Marks, Colors
    <3>4. m3.color[t] # "gray"
      <4> SUFFICES ASSUME m3.color[t] = "gray" PROVE FALSE
        OBVIOUS
      <4>1. t \in m3.gray \cup m3.again \cup m3.weak
        BY <1>1, <2>0 DEF Incremental
      <4>2. t \in m3.weak
        BY <1>1, <2>0, <4>1
      <4> QED BY <1>7, <4>2
    <3>5. Refs(t) \cap W3 = {}
      BY <1>1, <3>2, <3>3, <3>4 DEF Incremental
    <3> QED BY <1>8, <3>5
  <2> QED BY <2>1, <2>2
<1>11. (T \cup Roots \cup {running}) \cap W = {}
  BY <1>1, <1>7, <1>8 DEF Incremental
<1>12. /\ m4.again \cup m4.weak \subseteq (Queued \cap live) \ W
       /\ \A o \in Objects : m4.color[o] # "dead"
       /\ \A o \in Objects \ live : m4.color[o] = "white"
  BY <1>7 DEF Incremental
<1>13. \A v \in OpenUpvals : m4.color[v] # "black"
  BY <1>7 DEF Incremental, OpenUpvals, OpenOf
<1> QED BY <1>7, <1>9, <1>10, <1>11, <1>12, <1>13 DEF m3, p, q, m4

----------------------------------------------------------------------------
(* Steps of the collector that change marks only.                          *)

THEOREM InitIInv == GcInit => IInv
<1> SUFFICES ASSUME GcInit PROVE IInv
  OBVIOUS
<1>0. Roots \subseteq Objects /\ pool \in SUBSET (Objects \ Roots)
  BY HeapAssumption, Sorts DEF GcInit
<1>1. TypesOK
  <2>1. <<>> \in Seq(Udata)
    BY EmptySeq
  <2>2. Registry \in Objects /\ MainThread \in Threads
    BY Sorts
  <2> QED BY <1>0, <2>1, <2>2
        DEF GcInit, TypesOK, marks, Marks, Colors, Phases, Ref, Empty
<1>2. Unborn
  BY DEF GcInit, Unborn, Objects, Leafs, Queued
<1>3. Waiting = {} /\ ToSet(udlist) = {}
  BY DEF Waiting, GcInit, ToSet
<1>4. OpenUpvals = {}
  BY DEF OpenUpvals, OpenOf, Open, GcInit
<1>5. Linked
  <2>1. Udata \cap live = {} /\ Closures \cap live = {}
    BY Sorts DEF GcInit, Roots
  <2> QED BY <1>3, <1>4, <2>1 DEF Linked, GcInit
<1>6. Whole
  <2>1. \A o \in Roots : Refs(o) \subseteq Roots
    <3> TAKE o \in Roots
    <3>1. CASE o = Registry
      <4>1. Refs(o) = {entry[o].key, entry[o].val} \ {Nil}
        BY <1>1, <3>1, Sorts, ChildrenLemma
      <4> QED BY <3>1, <4>1, Sorts DEF GcInit, Empty
    <3>2. CASE o = MainThread
      <4>1. Refs(o) = {stack[o], Registry} \ {Nil}
        BY <1>1, <3>2, Sorts, ChildrenLemma
      <4> QED BY <3>2, <4>1, Sorts DEF GcInit, Roots
    <3> QED BY <3>1, <3>2 DEF Roots
  <2>2. \A o \in Roots : color[o] # "dead"
    BY <1>0 DEF GcInit
  <2>3. running \in Roots /\ live = Roots /\ gray = {} /\ grayagain = {} /\ weak = {}
    BY DEF GcInit, Roots
  <2> QED BY <2>1, <2>2, <2>3 DEF Whole
<1>7. PhaseOK
  BY <1>0, <1>3, <1>4 DEF PhaseOK, GcInit
<1>8. Marking
  BY DEF Marking, GcInit
<1> QED BY <1>1, <1>2, <1>3, <1>5, <1>6, <1>7, <1>8 DEF IInv

SameContent ==
  /\ live' = live /\ stack' = stack /\ entry' = entry /\ mode' = mode
  /\ env' = env /\ captures' = captures /\ location' = location
  /\ closedval' = closedval

(* What objects refer to is decided by their contents. *)
LEMMA SameRefs ==
  ASSUME SameContent
  PROVE  /\ OpenUpvals' = OpenUpvals
         /\ \A o : Children(o)' = Children(o)
         /\ \A o : Refs(o)' = Refs(o)
<1>1. \A v : Open(v)' = Open(v) /\ ValueOf(v)' = ValueOf(v)
  BY DEF SameContent, Open, ValueOf
<1>2. \A t : OpenOf(t)' = OpenOf(t)
  BY <1>1 DEF OpenOf, SameContent
<1>3. OpenUpvals' = OpenUpvals
  BY <1>2 DEF OpenUpvals
<1>4. \A o : Children(o)' = Children(o)
  BY <1>1 DEF Children, SameContent
<1>5. \A o : Refs(o)' = Refs(o)
  BY <1>4 DEF Refs, SameContent
<1> QED BY <1>3, <1>4, <1>5

LEMMA SetMarksLemma ==
  ASSUME NEW m \in Marks, SetMarks(m)
  PROVE  /\ marks' = m
         /\ color' = m.color /\ gray' = m.gray
         /\ grayagain' = m.again /\ weak' = m.weak
BY DEF SetMarks, marks, Marks

(* The parts of the invariant that no phase is about. *)
LEMMA MarksStep ==
  ASSUME IInv, SameContent, pool' = pool, running' = running,
         finalized' = finalized, udlist' = udlist, tmudata' = tmudata,
         NEW m \in Marks, SetMarks(m),
         gcstate' \in Phases, full' \in {"no", "sweep", "mark"},
         unswept' \in SUBSET live,
         \A o \in Objects : m.color[o] = "dead" <=> color[o] = "dead",
         \A o \in Objects \ live : m.color[o] = "white",
         m.gray \cup m.again \cup m.weak \subseteq Queued \cap live,
         \A o \in m.gray \cup m.again \cup m.weak : m.color[o] # "dead",
         \A o \in m.gray : m.color[o] = "gray"
  PROVE  TypesOK' /\ Unborn' /\ Linked' /\ Whole'
<1>0. TypesOK /\ Unborn /\ Linked /\ Whole /\ live \subseteq Objects
  BY LiveObjects DEF IInv
<1>1. /\ marks' = m /\ color' = m.color /\ gray' = m.gray
      /\ grayagain' = m.again /\ weak' = m.weak
  BY SetMarksLemma
<1>2. OpenUpvals' = OpenUpvals /\ (\A o : Refs(o)' = Refs(o)) /\ Waiting' = Waiting
  BY SameRefs DEF Waiting
<1>3. TypesOK'
  BY <1>0, <1>1 DEF TypesOK, SameContent
<1>4. Unborn'
  BY <1>0, <1>1 DEF Unborn, SameContent
<1>5. Linked'
  BY <1>0, <1>2 DEF Linked, SameContent
<1>6. Whole'
  <2>1. \A o \in live' : color'[o] # "dead" =>
          \A x \in Refs(o)' : x \in live' /\ color'[x] # "dead"
    BY <1>0, <1>1, <1>2 DEF Whole, SameContent
  <2>2. \A o \in (Roots \cup {running})' : color'[o] # "dead"
    BY <1>0, <1>1 DEF Whole, TypesOK, Roots
  <2> QED BY <1>0, <1>1, <2>1, <2>2 DEF Whole, SameContent
<1> QED BY <1>3, <1>4, <1>5, <1>6

(* Marks that satisfy the invariant of marking become those of the state. *)
LEMMA MarkingStep ==
  ASSUME SameContent, pool' = pool, NEW m \in Marks, SetMarks(m), NEW X,
         Incremental(m, X), Waiting' = X
  PROVE  Marking'
<1>1. marks' = m
  BY SetMarksLemma
<1>2. OpenUpvals' = OpenUpvals /\ (\A o : Refs(o)' = Refs(o)) /\ live' = live
  BY SameRefs DEF SameContent
<1>3. WhiteIn(m)' = WhiteIn(m)
  BY DEF WhiteIn, Roots
<1>4. Incremental(m, X)'
  BY <1>2, <1>3 DEF Incremental, Roots
<1> QED BY <1>1, <1>4 DEF Marking

(* Outside a cycle only userdata that waits may be marked. *)
LEMMA Unmarked ==
  ASSUME IInv, gcstate \in {"pause", "finalize"}
  PROVE  /\ unswept = {} /\ (\A o \in Objects : color[o] # "dead")
         /\ \A o \in live \ Waiting : color[o] = "white"
         /\ gray = {}
BY DEF IInv, PhaseOK

LEMMA FreshLemma ==
  ASSUME TypesOK
  PROVE  /\ Fresh(marks) \in Marks /\ Fresh(marks).color = color
         /\ Fresh(marks).gray = {} /\ Fresh(marks).again = {}
         /\ Fresh(marks).weak = {}
<1>1. marks \in Marks /\ marks.color = color
  BY DEF TypesOK, marks
<1> QED BY <1>1 DEF Fresh, Marks

LEMMA WaitingLemma ==
  ASSUME TypesOK, Linked
  PROVE  /\ Waiting \subseteq Udata \cap live
         /\ ToSet(udlist) \subseteq Udata \cap live
BY DEF Linked

(* markroot() begins the marking: the roots are queued. *)
LEMMA MarkrootStep ==
  ASSUME IInv, markroot, gcstate \in {"pause", "finalize"},
         full' \in {"no", "sweep", "mark"},
         UNCHANGED <<pool, live, unswept, udlist, tmudata, finalized,
                     running, stack, entry, content>>
  PROVE  IInv'
<1> DEFINE f == Fresh(marks)
           n == Mark(f, Roots)
           S == Fresh1(f, Roots)
<1>0. /\ TypesOK /\ Unborn /\ Linked /\ Whole /\ PhaseOK /\ live \subseteq Objects
      /\ Waiting \subseteq Udata /\ OpenUpvals \subseteq Upvals
      /\ Roots \subseteq live
  BY LiveObjects, WaitingLemma DEF IInv, OpenUpvals, OpenOf, TypesOK
<1>1. SameContent /\ Waiting' = Waiting
  BY DEF SameContent, content, Waiting
<1>2. /\ unswept = {} /\ (\A o \in Objects : color[o] # "dead")
      /\ \A o \in live \ Waiting : color[o] = "white"
  BY Unmarked
<1>3. /\ f \in Marks /\ f.color = color /\ f.gray = {} /\ f.again = {}
      /\ f.weak = {}
  BY <1>0, FreshLemma
<1> HIDE DEF f
<1>4. /\ n \in Marks
      /\ n.gray = f.gray \cup (S \cap Queued)
      /\ n.again = f.again /\ n.weak = f.weak
      /\ S \subseteq WhiteIn(f) /\ Roots \cap WhiteIn(f) \subseteq S
      /\ WhiteIn(n) = WhiteIn(f) \ S
      /\ \A o \in S \cap Queued : n.color[o] = "gray"
      /\ \A o \in Objects \ S : n.color[o] = f.color[o]
  BY <1>0, <1>3, MarkLemma
<1>5. S = Roots
  <2>1. Roots \cap WhiteIn(f) = Roots /\ Roots \subseteq Queued
    <3>1. \A o \in Roots : color[o] = "white"
      BY <1>0, <1>2, Sorts DEF Roots
    <3> QED BY <1>3, <3>1, Sorts DEF WhiteIn, Roots
  <2>2. \A o \in Roots \cap Leafs : Children(o) \cap WhiteIn(f) \subseteq Roots
    BY <2>1, Sorts
  <2>3. S \subseteq Roots
    BY <2>1, <2>2, ReachLeast DEF Fresh1
  <2> QED BY <1>4, <2>1, <2>3
<1> HIDE DEF n, S
<1>6. /\ n.gray = Roots /\ n.again = {} /\ n.weak = {}
      /\ \A o \in Roots : n.color[o] = "gray"
      /\ \A o \in Objects \ Roots : n.color[o] = color[o]
      /\ Roots \subseteq Queued \cap live /\ Roots \cap WhiteIn(n) = {}
  <2>1. Roots \subseteq Queued
    BY Sorts DEF Roots
  <2> QED BY <1>0, <1>3, <1>4, <1>5, <2>1
<1>7. Incremental(n, Waiting)
  <2>1. \A o \in Objects : n.color[o] # "dead"
    BY <1>2, <1>6
  <2>2. \A o \in Objects \ live : n.color[o] = "white"
    BY <1>0, <1>6 DEF Unborn
  <2>3. \A o \in live : n.color[o] = "black" => o \in Waiting
    BY <1>0, <1>2, <1>6
  <2>4. \A o \in live \ Waiting : n.color[o] = "gray" => o \in n.gray
    BY <1>0, <1>2, <1>6
  <2>5. \A o \in Waiting : o \notin Threads \cup OpenUpvals
    BY <1>0, Sorts
  <2> QED BY <1>6, <2>1, <2>2, <2>3, <2>4, <2>5 DEF Incremental
<1>8. SetMarks(n) /\ gcstate' = "propagate"
  BY DEF markroot, n, f
<1>9. TypesOK' /\ Unborn' /\ Linked' /\ Whole'
  <2>1. \A o \in Objects : n.color[o] # "dead"
    BY <1>7 DEF Incremental
  <2>2. \A o \in Objects \ live : n.color[o] = "white"
    BY <1>7 DEF Incremental
  <2>3. gcstate' \in Phases /\ unswept' \in SUBSET live
    BY <1>2, <1>8 DEF Phases
  <2> QED BY <1>1, <1>2, <1>4, <1>6, <1>8, <2>1, <2>2, <2>3, MarksStep
<1>10. Marking'
  BY <1>1, <1>4, <1>7, <1>8, MarkingStep
<1>11. PhaseOK'
  <2>1. unswept' = {} /\ color' = n.color
    BY <1>2, <1>4, <1>8, SetMarksLemma
  <2>2. OpenUpvals' = OpenUpvals
    BY <1>1, SameRefs
  <2>3. \A v \in OpenUpvals : n.color[v] # "black"
    BY <1>7 DEF Incremental, OpenUpvals, OpenOf
  <2>4. \A o \in Objects : n.color[o] # "dead"
    BY <1>7 DEF Incremental
  <2> QED BY <1>8, <2>1, <2>2, <2>3, <2>4 DEF PhaseOK
<1> QED BY <1>9, <1>10, <1>11 DEF IInv

(* propagatemark(): the object that is traversed is an exception until its *)
(* children are marked.                                                    *)
LEMMA PropagateMarkLemma ==
  ASSUME TypesOK, Closed, Incremental(marks, Waiting), NEW o \in gray,
         \A x \in gray : color[x] = "gray"
  PROVE  LET n == PropagateMark(marks, o)
         IN  /\ n \in Marks /\ Incremental(n, Waiting)
             /\ \A x \in n.gray : n.color[x] = "gray"
<1> DEFINE e == [marks EXCEPT !.gray = @ \ {o}]
           t == Traversed(e, {o})
           n == Mark(t, Children(o))
           X == Waiting \cup {o}
<1>1. /\ marks \in Marks /\ marks.gray = gray /\ marks.again = grayagain
      /\ marks.weak = weak /\ marks.color = color
  BY DEF TypesOK, marks
<1>2. /\ e \in Marks /\ e.gray = gray \ {o} /\ e.again = grayagain
      /\ e.weak = weak /\ e.color = color
  BY <1>1 DEF Marks
<1> HIDE DEF e
<1>3. /\ t \in Marks /\ t.gray = gray \ {o}
      /\ t.again = grayagain \cup ({o} \cap Threads)
      /\ t.weak = weak \cup ({o} \cap {x \in Tables : Weak(x)})
      /\ \A x \in Objects : t.color[x] =
           IF x \in {o} THEN (IF x \in StaysGray THEN "gray" ELSE "black")
           ELSE color[x]
  BY <1>2, TraversedLemma
<1> HIDE DEF t
<1>4. /\ Roots \cap WhiteIn(marks) = {}
      /\ gray \cup grayagain \cup weak \subseteq (Queued \cap live) \ WhiteIn(marks)
      /\ \A x \in Objects : color[x] # "dead"
      /\ \A x \in Objects \ live : color[x] = "white"
      /\ \A x \in live : color[x] = "black" => x \notin Threads \cup OpenUpvals
      /\ \A x \in live \ Waiting :
           color[x] = "black" => Refs(x) \cap WhiteIn(marks) = {}
      /\ \A x \in live \ Waiting : color[x] = "gray" =>
           x \in gray \cup grayagain \cup weak \cup Strings \cup OpenUpvals
  BY <1>1 DEF Incremental
<1>5. o \in Queued \cap live /\ o \notin WhiteIn(marks) /\ live \subseteq Objects
  BY <1>4, LiveObjects
<1>6. WhiteIn(t) = WhiteIn(marks)
  <2>1. \A x \in Objects : x # o => t.color[x] = color[x]
    BY <1>3
  <2>2. t.color[o] \notin {"white", "dead"}
    BY <1>3, <1>5
  <2> QED BY <1>1, <1>5, <2>1, <2>2, WhiteObjects DEF WhiteIn
<1>7. Incremental(t, X)
  <2>1. t.gray \cup t.again \cup t.weak \subseteq (Queued \cap live) \ WhiteIn(t)
    BY <1>3, <1>4, <1>5, <1>6
  <2>2. \A x \in Objects : t.color[x] # "dead"
    BY <1>3, <1>4
  <2>3. \A x \in Objects \ live : t.color[x] = "white"
    BY <1>3, <1>4, <1>5
  <2>4. \A x \in live : t.color[x] = "black" => x \notin Threads \cup OpenUpvals
    BY <1>3, <1>4, <1>5 DEF StaysGray
  <2>5. \A x \in live \ X : t.color[x] = color[x] /\ x # o
    BY <1>3, <1>5
  <2>6. \A x \in live \ X : t.color[x] = "gray" =>
          x \in t.gray \cup t.again \cup t.weak \cup Strings \cup OpenUpvals
    BY <1>3, <1>4, <2>5
  <2>7. \A x \in live \ X : t.color[x] = "black" => Refs(x) \cap WhiteIn(t) = {}
    BY <1>4, <1>6, <2>5
  <2> QED BY <1>4, <1>6, <2>1, <2>2, <2>3, <2>4, <2>6, <2>7 DEF Incremental
<1>8. Children(o) \in SUBSET (live \cup {Nil})
  BY <1>5, ChildrenLemma DEF Closed
<1>9. /\ n \in Marks /\ Incremental(n, X)
      /\ n.gray = t.gray \cup (Fresh1(t, Children(o)) \cap Queued)
      /\ n.again = t.again /\ n.weak = t.weak
      /\ Fresh1(t, Children(o)) \subseteq WhiteIn(t)
      /\ Children(o) \cap WhiteIn(t) \subseteq Fresh1(t, Children(o))
      /\ WhiteIn(n) = WhiteIn(t) \ Fresh1(t, Children(o))
      /\ \A x \in Fresh1(t, Children(o)) \cap Queued : n.color[x] = "gray"
      /\ \A x \in Objects \ Fresh1(t, Children(o)) : n.color[x] = t.color[x]
  BY <1>3, <1>7, <1>8, MarkLemma, MarkIncremental
<1> DEFINE S == Fresh1(t, Children(o))
<1> HIDE DEF n, S
<1>10. \A x \in n.gray : n.color[x] = "gray"
  <2> TAKE x \in n.gray
  <2>1. CASE x \in S
    BY <1>9, <2>1, <1>7 DEF Incremental, S
  <2>2. CASE x \notin S
    <3>1. x \in gray \ {o} /\ x \in Objects
      BY <1>3, <1>4, <1>5, <1>9, <2>2 DEF S
    <3> QED BY <1>3, <1>9, <2>2, <3>1 DEF S
  <2> QED BY <2>1, <2>2
<1>11. o \notin S /\ n.color[o] = t.color[o] /\ Children(o) \cap WhiteIn(n) = {}
  BY <1>5, <1>6, <1>9 DEF S
<1>12. n.color[o] = "black" => Refs(o) \cap WhiteIn(n) = {}
  <2> SUFFICES ASSUME n.color[o] = "black" PROVE Refs(o) \cap WhiteIn(n) = {}
    OBVIOUS
  <2>1. o \notin StaysGray
    BY <1>3, <1>5, <1>11
  <2>2. Refs(o) = Children(o)
    BY <1>5, <2>1, ChildrenLemma, Sorts DEF StaysGray
  <2> QED BY <1>11, <2>2
<1>13. n.color[o] = "gray" => o \in n.again \cup n.weak \cup OpenUpvals \cup Strings
  <2> SUFFICES ASSUME n.color[o] = "gray"
               PROVE o \in n.again \cup n.weak \cup OpenUpvals \cup Strings
    OBVIOUS
  <2>1. o \in StaysGray
    BY <1>3, <1>5, <1>11
  <2> QED BY <1>3, <1>9, <2>1 DEF StaysGray
<1>14. Incremental(n, Waiting)
  BY <1>9, <1>12, <1>13 DEF Incremental
<1> QED BY <1>9, <1>10, <1>14 DEF PropagateMark, n, t, e

LEMMA ClosedLemma ==
  ASSUME IInv, gcstate = "propagate"
  PROVE  Closed /\ \A o \in Objects : color[o] # "dead"
<1>1. \A o \in Objects : color[o] # "dead"
  BY DEF IInv, Marking, Incremental, marks
<1> QED BY <1>1, LiveObjects DEF IInv, Whole, Closed

LEMMA PropagateStep ==
  ASSUME IInv, Propagate
  PROVE  IInv'
<1>0. TypesOK /\ Unborn /\ Linked /\ Whole /\ PhaseOK /\ Incremental(marks, Waiting)
  BY DEF IInv, Propagate, Marking
<1>1. PICK o \in gray : SetMarks(PropagateMark(marks, o))
  BY DEF Propagate
<1> DEFINE n == PropagateMark(marks, o)
<1>2. /\ gcstate = "propagate" /\ SameContent /\ Waiting' = Waiting
      /\ UNCHANGED <<pool, cycle, running>>
  BY DEF Propagate, SameContent, content, Waiting, cycle
<1>3. /\ n \in Marks /\ Incremental(n, Waiting)
      /\ \A x \in n.gray : n.color[x] = "gray"
  BY <1>0, <1>2, ClosedLemma, PropagateMarkLemma DEF Whole
<1>4. SetMarks(n)
  BY <1>1
<1> HIDE DEF n
<1>5. /\ n.gray \cup n.again \cup n.weak \subseteq (Queued \cap live) \ WhiteIn(n)
      /\ \A x \in Objects : n.color[x] # "dead"
      /\ \A x \in Objects \ live : n.color[x] = "white"
      /\ \A x \in OpenUpvals : n.color[x] # "black"
      /\ \A x \in n.gray \cup n.again \cup n.weak : x \in Objects
  BY <1>3, LiveObjects, <1>0 DEF Incremental, OpenUpvals, OpenOf
<1>6. TypesOK' /\ Unborn' /\ Linked' /\ Whole'
  <2>1. unswept' \in SUBSET live /\ gcstate' \in Phases /\ full' \in {"no", "sweep", "mark"}
    BY <1>0, <1>2 DEF cycle, TypesOK
  <2>2. \A x \in Objects : n.color[x] = "dead" <=> color[x] = "dead"
    BY <1>2, <1>5, ClosedLemma
  <2> QED BY <1>2, <1>3, <1>4, <1>5, <2>1, <2>2, MarksStep DEF cycle
<1>7. Marking'
  BY <1>2, <1>3, <1>4, MarkingStep
<1>8. PhaseOK'
  <2>1. color' = n.color /\ OpenUpvals' = OpenUpvals /\ live' = live
    BY <1>2, <1>3, <1>4, SetMarksLemma, SameRefs DEF SameContent
  <2> QED BY <1>0, <1>2, <1>5, <2>1 DEF PhaseOK, cycle, SameContent
<1> QED BY <1>6, <1>7, <1>8 DEF IInv

(* luaC_fullgc() drops what was marked and sweeps its colours away. *)
LEMMA FullGCStep ==
  ASSUME IInv, FullGC
  PROVE  IInv'
<1>0. TypesOK /\ Unborn /\ Linked /\ Whole /\ PhaseOK
  BY DEF IInv
<1>1. /\ SameContent /\ Waiting' = Waiting /\ OpenUpvals' = OpenUpvals
      /\ pool' = pool /\ running' = running /\ finalized' = finalized
      /\ udlist' = udlist /\ tmudata' = tmudata /\ full' = "sweep"
  BY SameRefs DEF FullGC, SameContent, content, Waiting
<1>2. CASE gcstate \in {"pause", "propagate"}
  <2> DEFINE f == Fresh(marks)
  <2>1. SetMarks(f) /\ gcstate' = "sweepstring" /\ unswept' = live \ Waiting
    BY <1>2 DEF FullGC, Waiting
  <2>2. /\ f \in Marks /\ f.color = color /\ f.gray = {} /\ f.again = {}
        /\ f.weak = {}
    BY <1>0, FreshLemma
  <2>3. \A o \in Objects : color[o] # "dead"
    BY <1>2, Unmarked, ClosedLemma
  <2> HIDE DEF f
  <2>4. TypesOK' /\ Unborn' /\ Linked' /\ Whole'
    <3>1. \A o \in Objects \ live : f.color[o] = "white"
      BY <1>0, <2>2 DEF Unborn
    <3>2. gcstate' \in Phases /\ unswept' \in SUBSET live /\ full' \in {"no", "sweep", "mark"}
      BY <1>1, <2>1 DEF Phases
    <3> QED BY <1>1, <2>1, <2>2, <3>1, <3>2, MarksStep
  <2>5. PhaseOK'
    <3>1. color' = color /\ gray' = {} /\ live' = live /\ location' = location
      BY <1>1, <2>1, <2>2, SetMarksLemma DEF SameContent
    <3>2. \A v \in OpenUpvals : location[v] \in unswept'
      <4>1. \A v \in OpenUpvals : location[v] \in live /\ location[v] \in Threads
        BY <1>0 DEF Linked, OpenUpvals, OpenOf
      <4>2. Waiting \cap Threads = {}
        BY <1>0, WaitingLemma, Sorts
      <4> QED BY <2>1, <4>1, <4>2
    <3> QED BY <1>0, <1>1, <2>1, <2>3, <3>1, <3>2 DEF PhaseOK
  <2>6. Marking'
    BY <2>1 DEF Marking
  <2> QED BY <2>4, <2>5, <2>6 DEF IInv
<1>3. CASE gcstate \notin {"pause", "propagate"}
  <2>1. UNCHANGED <<color, lists, gcstate, unswept>>
    BY <1>3 DEF FullGC
  <2>2. marks \in Marks /\ SetMarks(marks)
    BY <1>0, <2>1 DEF TypesOK, SetMarks, marks, lists
  <2>3. TypesOK' /\ Unborn' /\ Linked' /\ Whole'
    <3>1. gcstate' \in Phases /\ unswept' \in SUBSET live /\ full' \in {"no", "sweep", "mark"}
      BY <1>0, <1>1, <2>1 DEF TypesOK
    <3>2. /\ \A o \in Objects : marks.color[o] = "dead" <=> color[o] = "dead"
          /\ \A o \in Objects \ live : marks.color[o] = "white"
          /\ marks.gray \cup marks.again \cup marks.weak \subseteq Queued \cap live
          /\ \A o \in marks.gray \cup marks.again \cup marks.weak :
               marks.color[o] # "dead"
          /\ \A o \in marks.gray : marks.color[o] = "gray"
      BY <1>0 DEF Unborn, Whole, marks
    <3> QED BY <1>1, <2>2, <3>1, <3>2, MarksStep
  <2>4. PhaseOK'
    BY <1>0, <1>1, <2>1 DEF PhaseOK, lists, SameContent
  <2>5. Marking'
    BY <1>3, <2>1 DEF Marking
  <2> QED BY <2>3, <2>4, <2>5 DEF IInv
<1> QED BY <1>2, <1>3

(* One phase ends and the next begins, and nothing else changes. *)
LEMMA PhaseStep ==
  ASSUME IInv, UNCHANGED <<pool, live, color, lists, udlist, tmudata,
           finalized, running, stack, entry, content, unswept>>,
         full' \in {"no", "sweep", "mark"},
         \/ gcstate = "sweepstring" /\ gcstate' = "sweep"
              /\ unswept \cap Strings = {}
         \/ gcstate = "sweep" /\ gcstate' = "finalize"
              /\ unswept \subseteq OpenUpvals
         \/ gcstate = "finalize" /\ gcstate' = "pause"
         \/ gcstate' = gcstate
  PROVE  IInv'
<1>0. TypesOK /\ Unborn /\ Linked /\ Whole /\ PhaseOK /\ Marking
  BY DEF IInv
<1>1. SameContent /\ Waiting' = Waiting /\ OpenUpvals' = OpenUpvals
  BY SameRefs DEF SameContent, content, Waiting
<1>2. marks \in Marks /\ SetMarks(marks)
  BY <1>0 DEF TypesOK, SetMarks, marks, lists
<1>3. TypesOK' /\ Unborn' /\ Linked' /\ Whole'
  <2>1. gcstate' \in Phases /\ unswept' \in SUBSET live
    BY <1>0 DEF TypesOK, Phases
  <2>2. /\ \A o \in Objects : marks.color[o] = "dead" <=> color[o] = "dead"
        /\ \A o \in Objects \ live : marks.color[o] = "white"
        /\ marks.gray \cup marks.again \cup marks.weak \subseteq Queued \cap live
        /\ \A o \in marks.gray \cup marks.again \cup marks.weak :
             marks.color[o] # "dead"
        /\ \A o \in marks.gray : marks.color[o] = "gray"
    BY <1>0 DEF Unborn, Whole, marks
  <2> QED BY <1>1, <1>2, <2>1, <2>2, MarksStep
<1>4. unswept \subseteq OpenUpvals => unswept = {}
  <2> SUFFICES ASSUME unswept \subseteq OpenUpvals, NEW v \in unswept PROVE FALSE
    OBVIOUS
  <2>1. location[v] \in unswept /\ v \in Upvals /\ location[v] \in Upvals
    BY <1>0 DEF PhaseOK, OpenUpvals, OpenOf
  <2>2. location[v] \in Threads
    BY <2>1, <1>0 DEF OpenUpvals, OpenOf
  <2> QED BY <2>1, <2>2, Sorts
<1>5. PhaseOK'
  <2>1. color' = color /\ gray' = gray /\ live' = live /\ location' = location
        /\ unswept' = unswept
    BY DEF lists, content
  <2>2. CASE gcstate' = gcstate
    BY <1>0, <1>1, <2>1, <2>2 DEF PhaseOK
  <2>3. CASE gcstate = "sweepstring" /\ gcstate' = "sweep" /\ unswept \cap Strings = {}
    BY <1>0, <1>1, <2>1, <2>3 DEF PhaseOK
  <2>4. CASE gcstate = "sweep" /\ gcstate' = "finalize" /\ unswept \subseteq OpenUpvals
    BY <1>0, <1>1, <1>4, <2>1, <2>4 DEF PhaseOK
  <2>5. CASE gcstate = "finalize" /\ gcstate' = "pause"
    BY <1>0, <1>1, <2>1, <2>5 DEF PhaseOK
  <2> QED BY <2>2, <2>3, <2>4, <2>5
<1>6. Marking'
  <2>1. CASE gcstate' # "propagate"
    BY <2>1 DEF Marking
  <2>2. CASE gcstate' = "propagate"
    <3>1. Incremental(marks, Waiting)
      BY <1>0, <2>2 DEF Marking
    <3> QED BY <1>1, <1>2, <3>1, MarkingStep
  <2> QED BY <2>1, <2>2
<1> QED BY <1>3, <1>5, <1>6 DEF IInv

LEMMA ConcatSet ==
  ASSUME NEW T, NEW a \in Seq(T), NEW b \in Seq(T)
  PROVE  /\ a \o b \in Seq(T)
         /\ ToSet(a \o b) = ToSet(a) \cup ToSet(b)
<1>1. /\ a \o b \in Seq(T) /\ Len(a \o b) = Len(a) + Len(b)
      /\ \A i \in 1..Len(a)+Len(b) :
           (a \o b)[i] = IF i <= Len(a) THEN a[i] ELSE b[i - Len(a)]
  BY ConcatProperties
<1>2. Len(a) \in Nat /\ Len(b) \in Nat /\ DOMAIN a = 1..Len(a)
      /\ DOMAIN b = 1..Len(b) /\ DOMAIN (a \o b) = 1..Len(a)+Len(b)
  BY <1>1, LenProperties
<1> DEFINE c == a \o b
<1> HIDE DEF c
<1>3. ASSUME NEW x \in ToSet(c) PROVE x \in ToSet(a) \cup ToSet(b)
  <2>1. PICK i \in 1..Len(a)+Len(b) : x = c[i]
    BY <1>2 DEF ToSet, c
  <2>2. CASE i <= Len(a)
    <3>1. i \in 1..Len(a) /\ x = a[i]
      BY <1>1, <1>2, <2>1, <2>2 DEF c
    <3> QED BY <1>2, <3>1 DEF ToSet
  <2>3. CASE ~(i <= Len(a))
    <3>1. i - Len(a) \in 1..Len(b) /\ x = b[i - Len(a)]
      BY <1>1, <1>2, <2>1, <2>3 DEF c
    <3> QED BY <1>2, <3>1 DEF ToSet
  <2> QED BY <2>2, <2>3
<1>4. ASSUME NEW x \in ToSet(a) PROVE x \in ToSet(c)
  <2>1. PICK i \in 1..Len(a) : x = a[i]
    BY <1>2 DEF ToSet
  <2>2. i \in 1..Len(a)+Len(b) /\ c[i] = x
    BY <1>1, <1>2, <2>1 DEF c
  <2> QED BY <1>2, <2>2 DEF ToSet, c
<1>5. ASSUME NEW x \in ToSet(b) PROVE x \in ToSet(c)
  <2>1. PICK i \in 1..Len(b) : x = b[i]
    BY <1>2 DEF ToSet
  <2>2. Len(a) + i \in 1..Len(a)+Len(b) /\ ~(Len(a) + i <= Len(a))
        /\ (Len(a) + i) - Len(a) = i
    BY <1>2, <2>1
  <2>3. c[Len(a) + i] = x
    BY <1>1, <2>1, <2>2 DEF c
  <2> QED BY <1>2, <2>2, <2>3 DEF ToSet, c
<1> QED BY <1>1, <1>3, <1>4, <1>5 DEF c

(* What atomic() makes wait for a finalizer. *)
LEMMA SeparatedLemma ==
  ASSUME TypesOK, Linked, NEW m
  PROVE  /\ tmudata \o ToFinalize(m) \in Seq(Udata)
         /\ ToSet(tmudata \o ToFinalize(m)) =
              Waiting \cup (DeadUdata(m) \cap Finalizable)
         /\ ToSet(tmudata \o ToFinalize(m)) \subseteq Udata \cap live
         /\ DeadUdata(m) \subseteq ToSet(udlist)
<1>1. udlist \in Seq(Udata) /\ tmudata \in Seq(Udata)
  BY DEF TypesOK
<1>2. /\ ToFinalize(m) \in Seq(Udata)
      /\ ToSet(ToFinalize(m)) = ToSet(udlist) \cap (DeadUdata(m) \cap Finalizable)
  BY <1>1, OnlyLemma DEF ToFinalize
<1>3. DeadUdata(m) \subseteq ToSet(udlist)
  BY DEF DeadUdata
<1>4. /\ tmudata \o ToFinalize(m) \in Seq(Udata)
      /\ ToSet(tmudata \o ToFinalize(m)) = Waiting \cup ToSet(ToFinalize(m))
  BY <1>1, <1>2, ConcatSet DEF Waiting
<1> QED BY <1>2, <1>3, <1>4, WaitingLemma

(* The marking ends: what is still white is dead now, and nothing that     *)
(* will stay refers to it, because weak tables have lost it.               *)
LEMMA AtomicStep ==
  ASSUME IInv, Atomic
  PROVE  IInv'
<1> DEFINE m3 == MarkedAgain
           tm == tmudata \o ToFinalize(m3)
           T  == ToSet(tm)
           fin == finalized \cup DeadUdata(m3)
           m4 == PropagateAll(Mark(Paint(m3, T, "white"), T))
           W  == WhiteIn(m4)
           K  == StringsKept(m4, fin) \cap live
           C  == Cleared(m4, fin)
           m5 == Paint(m4, K, "gray")
           D  == {o \in live : m5.color[o] = "white"}
           m6 == Paint(m5, D, "dead")
<1>0. /\ TypesOK /\ Unborn /\ Linked /\ Whole /\ PhaseOK /\ Closed
      /\ live \subseteq Objects /\ live \subseteq pool \cup Roots
      /\ gcstate = "propagate" /\ gray = {} /\ running \in live
  BY ClosedLemma, LiveObjects DEF IInv, Atomic, TypesOK, Whole
<1>1. /\ pool' = pool /\ live' = live /\ full' = full /\ running' = running
      /\ stack' = stack /\ mode' = mode /\ env' = env /\ captures' = captures
      /\ location' = location /\ closedval' = closedval
  BY DEF Atomic, content
<1>2. /\ tmudata' = tm /\ finalized' = fin
      /\ udlist' = Only(udlist, Udata \ T)
      /\ entry' = [t \in Tables |-> IF t \in C THEN Empty ELSE entry[t]]
      /\ SetMarks(m6)
      /\ unswept' = live \ T
      /\ gcstate' = "sweepstring"
  BY DEF Atomic, atomic
<1>3. /\ tm \in Seq(Udata) /\ T = Waiting \cup (DeadUdata(m3) \cap Finalizable)
      /\ T \subseteq Udata \cap live /\ DeadUdata(m3) \subseteq ToSet(udlist)
  BY <1>0, SeparatedLemma
<1>4. /\ m4 \in Marks /\ m4.gray = {}
      /\ m4.again \cup m4.weak \subseteq (Queued \cap live) \ W
      /\ \A o \in Objects : m4.color[o] # "dead"
      /\ \A o \in Objects \ live : m4.color[o] = "white"
      /\ \A v \in OpenUpvals : m4.color[v] # "black"
      /\ \A o \in live \ W : Children(o) \cap W = {}
      /\ \A t \in (Tables \cap live) \ (W \cup m4.weak) : Refs(t) \cap W = {}
      /\ (T \cup Roots \cup {running}) \cap W = {}
  BY <1>0, <1>3, FinalMarksLemma
<1> HIDE DEF m3, tm, T, m4
<1>5. \A o \in live : o \in W <=> m4.color[o] = "white"
  BY <1>0, <1>4 DEF WhiteIn
<1>6. K \subseteq Strings /\ K \subseteq live
  BY DEF StringsKept
<1>7. \A t \in (m4.weak \cap Tables) \ C : \A x \in {entry[t].key, entry[t].val} :
        x \in live => x \notin W \/ x \in K
  <2> SUFFICES ASSUME NEW t \in (m4.weak \cap Tables) \ C
               PROVE  \A x \in {entry[t].key, entry[t].val} :
                         x \in live => x \notin W \/ x \in K
    OBVIOUS
  <2>1. /\ ~IsCleared(m4, entry[t].key, fin, TRUE)
        /\ ~IsCleared(m4, entry[t].val, fin, FALSE)
    BY DEF Cleared
  <2>2. ASSUME entry[t].key \in live PROVE entry[t].key \notin W \/ entry[t].key \in K
    <3>1. CASE entry[t].key \in Strings
      BY <2>2, <3>1 DEF StringsKept
    <3>2. CASE entry[t].key \notin Strings
      BY <1>0, <1>5, <2>1, <2>2, <3>2 DEF IsCleared
    <3> QED BY <3>1, <3>2
  <2>3. ASSUME entry[t].val \in live PROVE entry[t].val \notin W \/ entry[t].val \in K
    <3>1. CASE entry[t].val \in Strings
      BY <2>1, <2>3, <3>1 DEF StringsKept
    <3>2. CASE entry[t].val \notin Strings
      BY <1>0, <1>5, <2>1, <2>3, <3>2 DEF IsCleared
    <3> QED BY <3>1, <3>2
  <2> QED BY <2>2, <2>3
<1> HIDE DEF K, C, fin
<1>8. /\ m5 \in Marks /\ m5.gray = {} /\ m5.again = m4.again /\ m5.weak = m4.weak
      /\ \A o \in Objects : m5.color[o] = IF o \in K THEN "gray" ELSE m4.color[o]
  <2>1. "gray" \in Colors
    BY DEF Colors
  <2> QED BY <1>4, <2>1, PaintLemma
<1>9. D = (live \cap W) \ K
  BY <1>0, <1>5, <1>8
<1> HIDE DEF m5, D
<1>10. /\ m6 \in Marks /\ m6.gray = {} /\ m6.again = m4.again /\ m6.weak = m4.weak
       /\ \A o \in Objects : m6.color[o] = IF o \in D THEN "dead" ELSE m5.color[o]
  <2>1. "dead" \in Colors
    BY DEF Colors
  <2> QED BY <1>8, <2>1, PaintLemma
<1> HIDE DEF m6
<1>11. /\ marks' = m6 /\ color' = m6.color /\ gray' = {}
       /\ grayagain' = m4.again /\ weak' = m4.weak
  BY <1>2, <1>10, SetMarksLemma
<1>12. \A o \in Objects : color'[o] = "dead" <=> o \in D
  BY <1>4, <1>8, <1>10, <1>11
<1>13. /\ OpenUpvals' = OpenUpvals
       /\ \A o : o \notin Tables => Refs(o)' = Children(o)
       /\ \A t \in Tables : Refs(t)' =
            IF t \in C THEN {} ELSE {entry[t].key, entry[t].val} \ {Nil}
  <2>1. \A v : Open(v)' = Open(v) /\ ValueOf(v)' = ValueOf(v)
    BY <1>1 DEF Open, ValueOf
  <2>2. \A t : OpenOf(t)' = OpenOf(t)
    BY <1>1, <2>1 DEF OpenOf
  <2>3. OpenUpvals' = OpenUpvals
    BY <2>2 DEF OpenUpvals
  <2>4. ASSUME NEW o, o \notin Tables PROVE Refs(o)' = Children(o)
    BY <1>1, <2>1, <2>4 DEF Refs, Children
  <2>5. ASSUME NEW t \in Tables
        PROVE  Refs(t)' = {entry'[t].key, entry'[t].val} \ {Nil}
    <3>1. Children(t)' = ({entry'[t].key : k \in {"k"} \ mode'[t]}
                       \cup {entry'[t].val : k \in {"v"} \ mode'[t]}) \ {Nil}
      BY Sorts DEF Children
    <3> QED BY <3>1 DEF Refs
  <2>6. ASSUME NEW t \in Tables
        PROVE  Refs(t)' = IF t \in C THEN {} ELSE {entry[t].key, entry[t].val} \ {Nil}
    BY <1>2, <2>5 DEF Empty
  <2> QED BY <2>3, <2>4, <2>6
<1>14. TypesOK'
  <2>1. udlist' \in Seq(Udata)
    BY <1>0, <1>2, OnlyLemma DEF TypesOK
  <2>2. fin \subseteq Udata
    BY <1>0, <1>3, WaitingLemma DEF fin, TypesOK
  <2>3. entry' \in [Tables -> [key : Ref, val : Ref]]
    BY <1>0, <1>2 DEF TypesOK, Empty, Ref
  <2>4. gcstate' \in Phases /\ unswept' \subseteq live
    BY <1>2 DEF Phases
  <2> QED BY <1>0, <1>1, <1>2, <1>3, <1>10, <1>11, <2>1, <2>2, <2>3, <2>4 DEF TypesOK
<1>15. Unborn'
  <2>1. \A o \in Objects \ live : color'[o] = "white"
    BY <1>4, <1>6, <1>8, <1>9, <1>10, <1>11
  <2>2. \A o \in Objects \ live : o \in Tables => entry'[o] = Empty
    BY <1>0, <1>2 DEF Unborn
  <2> QED BY <1>0, <1>1, <2>1, <2>2 DEF Unborn
<1>16. Linked'
  <2>1. ToSet(udlist') = ToSet(udlist) \cap (Udata \ T)
    BY <1>0, <1>2, OnlyLemma DEF TypesOK
  <2>2. Waiting' = T
    BY <1>2 DEF Waiting, T
  <2>3. ToSet(udlist') \cup Waiting' = Udata \cap live'
    BY <1>0, <1>1, <1>3, <2>1, <2>2 DEF Linked
  <2>4. T \subseteq fin /\ fin \subseteq live
    BY <1>0, <1>3, WaitingLemma DEF Linked, fin
  <2> QED BY <1>0, <1>1, <1>2, <1>13, <2>2, <2>3, <2>4 DEF Linked
<1>17. Whole'
  <2>1. ASSUME NEW o \in live, color'[o] # "dead", NEW x \in Refs(o)'
        PROVE  x \in live /\ color'[x] # "dead"
    <3>1. o \in Objects /\ o \notin D
      BY <1>0, <1>12, <2>1
    <3>2. x \in Refs(o)
      <4>1. CASE o \in Tables
        <5>1. Refs(o) = {entry[o].key, entry[o].val} \ {Nil}
          BY <1>0, <4>1, ChildrenLemma
        <5> QED BY <1>13, <2>1, <4>1, <5>1
      <4>2. CASE o \notin Tables
        BY <1>0, <1>13, <2>1, <4>2, ChildrenLemma
      <4> QED BY <4>1, <4>2
    <3>3. x \in live
      BY <1>0, <2>1, <3>2 DEF Closed
    <3>4. x \notin W \/ x \in K
      <4>1. CASE o \in K
        <5>1. o \in Strings /\ o \notin Tables
          BY <1>6, <4>1, Sorts
        <5> QED BY <1>0, <1>13, <2>1, <5>1, ChildrenLemma
      <4>2. CASE o \notin K /\ o \notin Tables
        <5>1. o \in live \ W
          BY <1>9, <2>1, <3>1, <4>2
        <5> QED BY <1>4, <1>13, <2>1, <4>2, <5>1
      <4>3. CASE o \notin K /\ o \in Tables /\ o \in m4.weak
        <5>1. o \notin C /\ x \in {entry[o].key, entry[o].val}
          BY <1>13, <2>1, <4>3
        <5> QED BY <1>7, <3>3, <4>3, <5>1
      <4>4. CASE o \notin K /\ o \in Tables /\ o \notin m4.weak
        <5>1. o \in (Tables \cap live) \ (W \cup m4.weak)
          BY <1>9, <2>1, <3>1, <4>4
        <5> QED BY <1>4, <3>2, <5>1
      <4> QED BY <4>1, <4>2, <4>3, <4>4
    <3>5. x \notin D
      BY <1>9, <3>4
    <3> QED BY <1>0, <1>12, <3>3, <3>5
  <2>2. \A o \in Roots \cup {running} : color'[o] # "dead"
    BY <1>0, <1>4, <1>9, <1>12, Sorts
  <2>3. \A o \in grayagain' \cup weak' : o \in Queued \cap live /\ color'[o] # "dead"
    BY <1>0, <1>4, <1>9, <1>11, <1>12
  <2>4. Roots' = Roots
    BY DEF Roots
  <2> QED BY <1>0, <1>1, <1>11, <2>1, <2>2, <2>3, <2>4 DEF Whole
<1>18. PhaseOK'
  <2>1. Waiting' = T
    BY <1>2 DEF Waiting, T
  <2>2. \A v \in OpenUpvals : color'[v] # "black"
    <3>1. \A v \in OpenUpvals : v \in Objects
      BY Sorts DEF OpenUpvals, OpenOf
    <3> QED BY <1>4, <1>8, <1>10, <1>11, <3>1
  <2>3. \A v \in OpenUpvals : location'[v] \in unswept'
    <3>1. \A v \in OpenUpvals : location[v] \in live /\ location[v] \in Threads
      BY <1>0 DEF Linked, OpenUpvals, OpenOf
    <3> QED BY <1>1, <1>2, <1>3, <3>1, Sorts
  <2>4. \A o \in Objects : color'[o] = "dead" => o \in unswept'
    BY <1>2, <1>4, <1>9, <1>12
  <2>5. live' \ (unswept' \cup Waiting') = {}
    BY <1>1, <1>2, <2>1
  <2> QED BY <1>2, <1>11, <1>13, <2>1, <2>2, <2>3, <2>4, <2>5 DEF PhaseOK
<1>19. Marking'
  BY <1>2 DEF Marking
<1> QED BY <1>14, <1>15, <1>16, <1>17, <1>18, <1>19 DEF IInv

----------------------------------------------------------------------------
(* Sweeping.                                                               *)

(* sweeplist() frees what is dead and nothing else, and an upvalue that    *)
(* outlives its thread keeps the value it had.                             *)
LEMMA SweepLemma ==
  ASSUME IInv, NEW S \in SUBSET live, Sweep(S),
         gcstate \in {"sweepstring", "sweep"}, gcstate' = gcstate,
         \A t \in S \cap Threads : OpenOf(t) \subseteq S,
         UNCHANGED <<pool, lists, tmudata, full, running>>
  PROVE  IInv'
<1> DEFINE D == {o \in S : color[o] = "dead"}
           orphans == (UNION {OpenOf(t) : t \in D \cap Threads}) \ D
<1>0. /\ TypesOK /\ Unborn /\ Linked /\ Whole /\ PhaseOK
      /\ live \subseteq Objects
  BY LiveObjects DEF IInv
<1>1. /\ live' = live \ D
      /\ stack' = [t \in Threads |-> IF t \in D THEN Nil ELSE stack[t]]
      /\ entry' = [t \in Tables |-> IF t \in D THEN Empty ELSE entry[t]]
      /\ mode' = [t \in Tables |-> IF t \in D THEN {} ELSE mode[t]]
      /\ env' = [u \in Udata |-> IF u \in D THEN Registry ELSE env[u]]
      /\ captures' = [c \in Closures |-> IF c \in D THEN Nil ELSE captures[c]]
      /\ location' = [v \in Upvals |-> IF v \in D \cup orphans
                                       THEN Nil ELSE location[v]]
      /\ closedval' = [v \in Upvals |-> CASE v \in D       -> Nil
                                          [] v \in orphans -> ValueOf(v)
                                          [] OTHER         -> closedval[v]]
      /\ udlist' = Only(udlist, Udata \ D)
      /\ finalized' = finalized \ D
      /\ color' = [o \in Objects |-> IF o \in S THEN "white" ELSE color[o]]
      /\ unswept' = unswept \ S
  BY DEF Sweep, Free
<1>2. /\ pool' = pool /\ gray' = gray /\ grayagain' = grayagain
      /\ weak' = weak /\ tmudata' = tmudata /\ full' = full
      /\ running' = running /\ Waiting' = Waiting /\ Roots' = Roots
  BY DEF lists, Waiting, Roots
<1>3. /\ D \subseteq S /\ D \subseteq live /\ D \subseteq Objects
      /\ D \subseteq unswept
      /\ D \cap Waiting = {} /\ D \cap (Roots \cup {running}) = {}
      /\ D \cap (gray \cup grayagain \cup weak) = {}
  BY <1>0 DEF Whole, PhaseOK
<1>4. orphans \subseteq S \cap OpenUpvals /\ orphans \cap D = {}
  BY <1>3 DEF OpenUpvals
<1>5. \A v \in OpenUpvals \ (D \cup orphans) : location[v] \in live \ D
  <2> TAKE v \in OpenUpvals \ (D \cup orphans)
  <2>1. location[v] \in live /\ location[v] \in Threads /\ v \in OpenOf(location[v])
    BY <1>0 DEF Linked, OpenUpvals, OpenOf
  <2>2. location[v] \notin D
    BY <2>1
  <2> QED BY <2>1, <2>2
<1>6. \A o \in D : color[o] = "dead"
  OBVIOUS
<1>7. \A o \in S \ D : color[o] # "dead"
  OBVIOUS
<1>8. \A o \in live \ D : color'[o] = "dead" <=> color[o] = "dead"
  BY <1>0, <1>1, <1>7
<1>9. \A o \in live \ D : color'[o] = color[o] \/ color'[o] = "white"
  BY <1>0, <1>1
<1> HIDE DEF D, orphans
<1>10. OpenUpvals' = OpenUpvals \ (D \cup orphans)
  <2>1. \A v : v \in OpenUpvals <=> v \in Upvals /\ v \in live /\ location[v] # Nil
                                     /\ location[v] \in Threads
    BY <1>0 DEF OpenUpvals, OpenOf, Open
  <2>2. \A v : v \in OpenUpvals' <=> v \in Upvals /\ v \in live' /\ location'[v] # Nil
                                     /\ location'[v] \in Threads
    BY DEF OpenUpvals, OpenOf, Open
  <2>3. Nil \notin Threads
    BY Sorts
  <2> QED BY <1>1, <1>3, <1>4, <2>1, <2>2, <2>3
<1>11. ASSUME NEW v \in Upvals \cap (live \ D) PROVE ValueOf(v)' = ValueOf(v)
  <2>1. CASE v \in orphans
    <3>1. location'[v] = Nil /\ closedval'[v] = ValueOf(v)
      BY <1>1, <1>4, <2>1
    <3>2. ValueOf(v)' = closedval'[v]
      BY <3>1 DEF ValueOf, Open
    <3> QED BY <3>1, <3>2
  <2>2. CASE v \notin orphans /\ location[v] # Nil
    <3>1. v \in OpenUpvals /\ location[v] \in Threads
      BY <1>0, <2>2 DEF OpenUpvals, OpenOf, Open, TypesOK
    <3>2. location'[v] = location[v] /\ location[v] \notin D
      BY <1>1, <1>5, <2>2, <3>1
    <3>3. stack'[location[v]] = stack[location[v]]
      BY <1>1, <3>1, <3>2
    <3>4. ValueOf(v)' = stack'[location'[v]] /\ ValueOf(v) = stack[location[v]]
      BY <2>2, <3>2 DEF ValueOf, Open
    <3> QED BY <3>2, <3>3, <3>4
  <2>3. CASE v \notin orphans /\ location[v] = Nil
    <3>1. location'[v] = Nil /\ closedval'[v] = closedval[v]
      BY <1>1, <2>3
    <3>2. ValueOf(v)' = closedval'[v] /\ ValueOf(v) = closedval[v]
      BY <2>3, <3>1 DEF ValueOf, Open
    <3> QED BY <3>1, <3>2
  <2> QED BY <2>1, <2>2, <2>3
<1>12. ASSUME NEW o \in live \ D PROVE Refs(o)' = Refs(o)
  <2>1. CASE o \in Tables
    <3>1. entry'[o] = entry[o] /\ mode'[o] = mode[o]
      BY <1>1, <2>1
    <3> QED BY <2>1, <3>1, Sorts DEF Refs, Children
  <2>2. CASE o \in Closures
    <3>1. captures'[o] = captures[o]
      BY <1>1, <2>2
    <3> QED BY <2>2, <3>1, Sorts DEF Refs, Children
  <2>3. CASE o \in Threads
    <3>1. stack'[o] = stack[o]
      BY <1>1, <2>3
    <3> QED BY <2>3, <3>1, Sorts DEF Refs, Children
  <2>4. CASE o \in Udata
    <3>1. env'[o] = env[o]
      BY <1>1, <2>4
    <3> QED BY <2>4, <3>1, Sorts DEF Refs, Children
  <2>5. CASE o \in Upvals
    <3>1. ValueOf(o)' = ValueOf(o)
      BY <1>11, <2>5
    <3> QED BY <2>5, <3>1, Sorts DEF Refs, Children
  <2>6. CASE o \in Strings
    BY <2>6, Sorts DEF Refs, Children
  <2> QED BY <1>0, <2>1, <2>2, <2>3, <2>4, <2>5, <2>6, Sorts
<1>13. TypesOK'
  <2>1. udlist' \in Seq(Udata)
    BY <1>0, <1>1, OnlyLemma DEF TypesOK
  <2>2. marks' \in Marks
    BY <1>0, <1>1, <1>2 DEF TypesOK, marks, Marks, Colors
  <2>3. \A v \in Upvals : ValueOf(v) \in Ref
    <3> TAKE v \in Upvals
    <3>1. CASE location[v] = Nil
      BY <1>0, <3>1 DEF ValueOf, Open, TypesOK
    <3>2. CASE location[v] # Nil
      BY <1>0, <3>2 DEF ValueOf, Open, TypesOK
    <3> QED BY <3>1, <3>2
  <2>4. closedval' \in [Upvals -> Ref]
    BY <1>0, <1>1, <2>3 DEF TypesOK, Ref
  <2>5. Registry \in Ref /\ Nil \in Ref /\ Empty \in [key : Ref, val : Ref]
    BY Sorts DEF Ref, Empty
  <2>6. /\ stack' \in [Threads -> Ref]
        /\ entry' \in [Tables -> [key : Ref, val : Ref]]
        /\ mode' \in [Tables -> SUBSET {"k", "v"}]
        /\ env' \in [Udata -> Ref]
        /\ captures' \in [Closures -> Upvals \cup {Nil}]
        /\ location' \in [Upvals -> Threads \cup {Nil}]
    BY <1>0, <1>1, <2>5 DEF TypesOK
  <2>7. /\ live' \subseteq pool \cup Roots /\ Roots \subseteq live'
        /\ unswept' \subseteq live' /\ finalized' \subseteq Udata
    BY <1>0, <1>1, <1>3 DEF TypesOK
  <2> QED BY <1>0, <1>2, <2>1, <2>2, <2>4, <2>6, <2>7 DEF TypesOK
<1>14. Unborn'
  <2> SUFFICES ASSUME NEW o \in Objects \ live'
               PROVE  /\ color'[o] = "white"
                      /\ o \in Tables => entry'[o] = Empty
                      /\ o \in Threads => stack'[o] = Nil
                      /\ o \in Udata => env'[o] = Registry
                      /\ o \in Upvals => location'[o] = Nil /\ closedval'[o] = Nil
    BY DEF Unborn
  <2>1. CASE o \in D
    <3>1. color'[o] = "white"
      BY <1>1, <1>3, <2>1
    <3>2. o \in Tables => entry'[o] = Empty
      BY <1>1, <2>1
    <3>3. o \in Threads => stack'[o] = Nil
      BY <1>1, <2>1
    <3>4. o \in Udata => env'[o] = Registry
      BY <1>1, <2>1
    <3>5. o \in Upvals => location'[o] = Nil
      BY <1>1, <2>1
    <3>6. o \in Upvals => closedval'[o] = Nil
      BY <1>1, <1>4, <2>1
    <3> QED BY <3>1, <3>2, <3>3, <3>4, <3>5, <3>6
  <2>2. CASE o \notin D
    <3>1. o \notin live /\ o \notin orphans /\ o \notin S
      BY <1>1, <1>4, <2>2 DEF OpenUpvals, OpenOf
    <3>2. /\ color[o] = "white"
          /\ o \in Tables => entry[o] = Empty
          /\ o \in Threads => stack[o] = Nil
          /\ o \in Udata => env[o] = Registry
          /\ o \in Upvals => location[o] = Nil /\ closedval[o] = Nil
      BY <1>0, <3>1 DEF Unborn
    <3> QED BY <1>1, <2>2, <3>1, <3>2
  <2> QED BY <2>1, <2>2
<1>15. Linked'
  <2>1. ToSet(udlist') = ToSet(udlist) \cap (Udata \ D)
    BY <1>0, <1>1, OnlyLemma DEF TypesOK
  <2>2. ToSet(udlist') \cup Waiting' = Udata \cap live'
    BY <1>0, <1>1, <1>2, <1>3, <2>1 DEF Linked
  <2>3. Waiting' \subseteq finalized' /\ finalized' \subseteq live'
    BY <1>0, <1>1, <1>2, <1>3 DEF Linked
  <2>4. \A v \in OpenUpvals' : location'[v] \in live'
    <3> TAKE v \in OpenUpvals'
    <3>1. v \in OpenUpvals \ (D \cup orphans) /\ v \in Upvals
      BY <1>10 DEF OpenUpvals, OpenOf
    <3> QED BY <1>1, <1>5, <3>1
  <2>5. \A c \in Closures \cap live' : captures'[c] \in Upvals
    BY <1>0, <1>1 DEF Linked
  <2> QED BY <2>2, <2>3, <2>4, <2>5 DEF Linked
<1>16. Whole'
  <2>1. ASSUME NEW o \in live', color'[o] # "dead", NEW x \in Refs(o)'
        PROVE  x \in live' /\ color'[x] # "dead"
    <3>1. o \in live \ D /\ color[o] # "dead" /\ x \in Refs(o)
      BY <1>1, <1>8, <1>12, <2>1
    <3>2. x \in live /\ color[x] # "dead"
      BY <1>0, <3>1 DEF Whole
    <3>3. x \notin D
      BY <1>6, <3>2
    <3> QED BY <1>1, <1>8, <3>2, <3>3
  <2>2. \A o \in Roots \cup {running} : color'[o] # "dead"
    <3>1. \A o \in Roots \cup {running} : o \in live \ D /\ color[o] # "dead"
      BY <1>0, <1>3 DEF Whole, TypesOK
    <3> QED BY <1>8, <3>1
  <2>3. \A o \in gray \cup grayagain \cup weak :
           o \in Queued \cap live' /\ color'[o] # "dead"
    <3>1. \A o \in gray \cup grayagain \cup weak :
             o \in Queued /\ o \in live \ D /\ color[o] # "dead"
      BY <1>0, <1>3 DEF Whole
    <3> QED BY <1>1, <1>8, <3>1
  <2>4. gray = {}
    BY <1>0 DEF PhaseOK
  <2>5. running' \in live'
    BY <1>0, <1>1, <1>2, <1>3 DEF Whole
  <2> QED BY <1>2, <2>1, <2>2, <2>3, <2>4, <2>5 DEF Whole
<1>17. PhaseOK'
  <2>1. \A v \in OpenUpvals' : color'[v] # "black"
    <3> TAKE v \in OpenUpvals'
    <3>1. v \in OpenUpvals /\ v \in live \ D
      BY <1>1, <1>10 DEF OpenUpvals, OpenOf
    <3> QED BY <1>0, <1>9, <3>1 DEF PhaseOK
  <2>2. \A v \in OpenUpvals' \cap unswept' : location'[v] \in unswept'
    <3> TAKE v \in OpenUpvals' \cap unswept'
    <3>1. /\ v \in OpenUpvals \ (D \cup orphans) /\ v \in unswept \ S
          /\ v \in Upvals
      BY <1>1, <1>10 DEF OpenUpvals, OpenOf
    <3>2. location[v] \in unswept /\ location[v] \in Threads
          /\ v \in OpenOf(location[v])
      BY <1>0, <3>1 DEF PhaseOK, OpenUpvals, OpenOf
    <3>3. location[v] \notin S
      BY <3>1, <3>2
    <3> QED BY <1>1, <3>1, <3>2, <3>3
  <2>3. \A o \in Objects : color'[o] = "dead" => o \in unswept'
    BY <1>0, <1>1 DEF PhaseOK
  <2>4. \A o \in live' \ (unswept' \cup Waiting') : color'[o] = "white"
    <3> TAKE o \in live' \ (unswept' \cup Waiting')
    <3>1. o \in live /\ o \in Objects /\ o \notin Waiting
          /\ (o \in S \/ o \notin unswept)
      BY <1>0, <1>1, <1>2
    <3>2. color[o] = "white" \/ o \in S
      BY <1>0, <3>1 DEF PhaseOK
    <3> QED BY <1>1, <3>1, <3>2
  <2> QED BY <1>0, <1>1, <1>2, <2>1, <2>2, <2>3, <2>4 DEF PhaseOK
<1>18. Marking'
  BY DEF Marking
<1> QED BY <1>13, <1>14, <1>15, <1>16, <1>17, <1>18 DEF IInv

LEMMA SweepStringsStep ==
  ASSUME IInv, SweepStrings
  PROVE  IInv'
<1>0. TypesOK
  BY DEF IInv
<1>1. CASE /\ \E s \in unswept \cap Strings : Sweep({s})
           /\ UNCHANGED gcstate
  <2>1. PICK s \in unswept \cap Strings : Sweep({s})
    BY <1>1
  <2>2. {s} \in SUBSET live /\ {s} \cap Threads = {}
    BY <1>0, Sorts DEF TypesOK
  <2>3. gcstate = "sweepstring" /\ UNCHANGED <<pool, lists, tmudata, full, running>>
    BY DEF SweepStrings
  <2> QED BY <1>1, <2>1, <2>2, <2>3, SweepLemma
<1>2. CASE /\ unswept \cap Strings = {} /\ gcstate' = "sweep"
           /\ UNCHANGED <<live, color, unswept, udlist, finalized, stack,
                          entry, content>>
  <2>1. gcstate = "sweepstring" /\ UNCHANGED <<pool, lists, tmudata, full, running>>
    BY DEF SweepStrings
  <2>2. full' \in {"no", "sweep", "mark"}
    BY <1>0, <2>1 DEF TypesOK
  <2> QED BY <1>2, <2>1, <2>2, PhaseStep
<1> QED BY <1>1, <1>2 DEF SweepStrings

LEMMA SweepOneStep ==
  ASSUME IInv, SweepOne
  PROVE  IInv'
<1>0. TypesOK
  BY DEF IInv
<1>1. CASE /\ \E S \in NextSwept : Sweep(S)
           /\ UNCHANGED gcstate
  <2>1. PICK S \in NextSwept : Sweep(S)
    BY <1>1
  <2> DEFINE young == unswept \ (Roots \cup Udata \cup OpenUpvals)
  <2>2. S \in SUBSET live /\ \A t \in S \cap Threads : OpenOf(t) \subseteq S
    <3>1. CASE young # {}
      <4>1. PICK o \in young : S = SweepSet(o)
        BY <2>1, <3>1, SMTT(30) DEF NextSwept, SweepSet
      <4>2. \A t : OpenOf(t) \subseteq Upvals \cap live
        BY DEF OpenOf
      <4>3. o \in live /\ OpenOf(o) \cap Threads = {}
        BY <1>0, <4>2, Sorts DEF TypesOK
      <4>4. CASE o \in Threads
        <5>1. S = {o} \cup OpenOf(o)
          BY <4>1, <4>4 DEF SweepSet
        <5> QED BY <4>2, <4>3, <5>1
      <4>5. CASE o \notin Threads
        <5>1. S = {o}
          BY <4>1, <4>5 DEF SweepSet
        <5> QED BY <4>3, <4>5, <5>1
      <4> QED BY <4>4, <4>5
    <3>2. CASE young = {} /\ Roots \subseteq unswept
      <4>1. S = Roots \cup OpenOf(MainThread)
        BY <2>1, <3>2 DEF NextSwept
      <4>2. OpenOf(MainThread) \subseteq Upvals \cap live
        BY DEF OpenOf
      <4>3. S \cap Threads = {MainThread}
        BY <4>1, <4>2, Sorts DEF Roots
      <4> QED BY <1>0, <4>1, <4>2, <4>3 DEF TypesOK
    <3>3. CASE young = {} /\ ~(Roots \subseteq unswept)
      <4>1. PICK u \in unswept \cap Udata : S = {u}
        BY <2>1, <3>3 DEF NextSwept
      <4> QED BY <1>0, <4>1, Sorts DEF TypesOK
    <3> QED BY <3>1, <3>2, <3>3
  <2>3. gcstate = "sweep" /\ UNCHANGED <<pool, lists, tmudata, full, running>>
    BY DEF SweepOne
  <2> QED BY <1>1, <2>1, <2>2, <2>3, SweepLemma
<1>2. CASE /\ unswept \subseteq OpenUpvals /\ gcstate' = "finalize"
           /\ UNCHANGED <<live, color, unswept, udlist, finalized, stack,
                          entry, content>>
  <2>1. gcstate = "sweep" /\ UNCHANGED <<pool, lists, tmudata, full, running>>
    BY DEF SweepOne
  <2>2. full' \in {"no", "sweep", "mark"}
    BY <1>0, <2>1 DEF TypesOK
  <2> QED BY <1>2, <2>1, <2>2, PhaseStep
<1> QED BY <1>1, <1>2 DEF SweepOne

----------------------------------------------------------------------------
(* Steps of the script and of the finalizers.                              *)

(* What the collector will not take from the program. *)
Safe(x) == x = Nil \/ (x \in live /\ color[x] # "dead")

LEMMA HereLemma ==
  ASSUME IInv
  PROVE  \A x \in Here : Safe(x) /\ x \in Ref
<1>0. TypesOK /\ Whole
  BY DEF IInv
<1>1. Registry \in live /\ color[Registry] # "dead"
      /\ running \in live /\ color[running] # "dead"
  BY <1>0 DEF Whole, TypesOK, Roots
<1>2. Refs(Registry) = {entry[Registry].key, entry[Registry].val} \ {Nil}
  BY <1>0, Sorts, ChildrenLemma
<1>3. Refs(running) = {stack[running], Registry} \ {Nil}
  <2>1. running \in Threads
    BY <1>0 DEF TypesOK
  <2> QED BY <1>0, <2>1, ChildrenLemma
<1>4. \A x \in Refs(Registry) \cup Refs(running) : x \in live /\ color[x] # "dead"
  BY <1>0, <1>1 DEF Whole
<1>5. stack[running] \in Ref /\ entry[Registry].val \in Ref /\ Nil \in Ref
  BY <1>0, Sorts DEF TypesOK, Ref
<1> QED BY <1>2, <1>3, <1>4, <1>5 DEF Here, Safe

(* What an object that is safe names is safe. *)
LEMMA SafeRefs ==
  ASSUME IInv, NEW o, Safe(o), o # Nil
  PROVE  \A x \in Refs(o) : Safe(x)
BY DEF IInv, Whole, Safe

(* What each sort of object names after a step. *)
LEMMA RefsPrimed ==
  ASSUME NEW o
  PROVE  /\ o \in Tables => Refs(o)' = {entry'[o].key, entry'[o].val} \ {Nil}
         /\ o \in Closures => Refs(o)' = {captures'[o], Registry} \ {Nil}
         /\ o \in Threads => Refs(o)' = {stack'[o], Registry} \ {Nil}
         /\ o \in Udata => Refs(o)' = {env'[o]} \ {Nil}
         /\ o \in Strings => Refs(o)' = {}
         /\ o \in Upvals => Refs(o)' = {ValueOf(o)'} \ {Nil}
<1>1. CASE o \in Tables
  <2>1. Children(o)' = ({entry'[o].key : k \in {"k"} \ mode'[o]}
                       \cup {entry'[o].val : k \in {"v"} \ mode'[o]}) \ {Nil}
    BY <1>1, Sorts DEF Children
  <2>2. Refs(o)' = {entry'[o].key, entry'[o].val} \ {Nil}
    BY <1>1, <2>1 DEF Refs
  <2>3. o \notin Closures \cup Threads \cup Udata \cup Strings \cup Upvals
    BY <1>1, Sorts
  <2> QED BY <1>1, <2>2, <2>3
<1>2. CASE o \in Closures
  BY <1>2, Sorts DEF Refs, Children
<1>3. CASE o \in Threads
  BY <1>3, Sorts DEF Refs, Children
<1>4. CASE o \in Udata
  BY <1>4, Sorts DEF Refs, Children
<1>5. CASE o \in Strings
  BY <1>5, Sorts DEF Refs, Children
<1>6. CASE o \in Upvals
  BY <1>6, Sorts DEF Refs, Children
<1> QED BY <1>1, <1>2, <1>3, <1>4, <1>5, <1>6

LEMMA RefsNow ==
  ASSUME TypesOK, NEW o
  PROVE  /\ o \in Tables => Refs(o) = {entry[o].key, entry[o].val} \ {Nil}
         /\ o \in Closures => Refs(o) = {captures[o], Registry} \ {Nil}
         /\ o \in Threads => Refs(o) = {stack[o], Registry} \ {Nil}
         /\ o \in Udata => Refs(o) = {env[o]} \ {Nil}
         /\ o \in Strings => Refs(o) = {}
         /\ o \in Upvals => Refs(o) = {ValueOf(o)} \ {Nil}
<1>1. o \in Leafs \cup Closures \cup Threads => Refs(o) = Children(o)
  BY ChildrenLemma
<1>2. /\ o \in Upvals => Children(o) = {ValueOf(o)} \ {Nil}
      /\ o \in Tables => Refs(o) = {entry[o].key, entry[o].val} \ {Nil}
      /\ o \in Closures => Children(o) = {captures[o], Registry} \ {Nil}
      /\ o \in Threads => Children(o) = {stack[o], Registry} \ {Nil}
  BY ChildrenLemma
<1>3. /\ o \in Udata => Children(o) = {env[o]} \ {Nil}
      /\ o \in Strings => Children(o) = {}
  BY ChildrenLemma
<1> QED BY <1>1, <1>2, <1>3, Sorts

(* An object whose contents stay names what it named. *)
LEMMA SameRefsOf ==
  ASSUME TypesOK, NEW o \in Objects,
         o \in Tables => entry'[o] = entry[o],
         o \in Closures => captures'[o] = captures[o],
         o \in Threads => stack'[o] = stack[o],
         o \in Udata => env'[o] = env[o],
         o \in Upvals => ValueOf(o)' = ValueOf(o)
  PROVE  Refs(o)' = Refs(o)
<1>1. CASE o \in Tables
  BY <1>1, RefsNow, RefsPrimed
<1>2. CASE o \in Closures
  BY <1>2, RefsNow, RefsPrimed
<1>3. CASE o \in Threads
  BY <1>3, RefsNow, RefsPrimed
<1>4. CASE o \in Udata
  BY <1>4, RefsNow, RefsPrimed
<1>5. CASE o \in Strings
  BY <1>5, RefsNow, RefsPrimed
<1>6. CASE o \in Upvals
  BY <1>6, RefsNow, RefsPrimed
<1> QED BY <1>1, <1>2, <1>3, <1>4, <1>5, <1>6, Sorts

LEMMA SameValue ==
  ASSUME NEW v, location'[v] = location[v], closedval'[v] = closedval[v],
         location[v] # Nil => stack'[location[v]] = stack[location[v]]
  PROVE  ValueOf(v)' = ValueOf(v)
BY DEF ValueOf, Open

(* Which upvalues are open, before and after a step. *)
LEMMA OpenNow ==
  ASSUME TypesOK, NEW v
  PROVE  /\ v \in OpenUpvals <=> v \in Upvals /\ v \in live /\ location[v] # Nil
         /\ \A t \in Threads : v \in OpenOf(t) <=>
              v \in Upvals /\ v \in live /\ location[v] = t
         /\ v \in Upvals => location[v] \in Threads \cup {Nil}
<1>1. Nil \notin Threads
  BY Sorts
<1>2. location \in [Upvals -> Threads \cup {Nil}]
  BY DEF TypesOK
<1> QED BY <1>1, <1>2 DEF OpenUpvals, OpenOf, Open

LEMMA OpenNext ==
  ASSUME TypesOK', NEW v
  PROVE  v \in OpenUpvals' <=> v \in Upvals /\ v \in live' /\ location'[v] # Nil
<1>1. Nil \notin Threads
  BY Sorts
<1>2. location' \in [Upvals -> Threads \cup {Nil}]
  BY DEF TypesOK
<1> QED BY <1>1, <1>2 DEF OpenUpvals, OpenOf, Open

(* A step of the script from marks that satisfy the invariant of marking   *)
(* (q) to m, which differ in the objects C whose contents change too.      *)
Changes(m, C) ==
  /\ pool' = pool /\ gcstate' = gcstate /\ live \subseteq live'
  /\ SetMarks(m)
  /\ \A o \in live' \ C : o \in live /\ Refs(o)' = Refs(o)
  /\ \A o \in C : \A x \in Refs(o)' : x \in live' /\ m.color[x] # "dead"
  /\ \A o \in Objects : m.color[o] = "dead" => color[o] = "dead"
  /\ \A o \in live \ C : m.color[o] # "dead" => color[o] # "dead"
  /\ running' \in live' /\ m.color[running'] # "dead"

Keeps(m) ==
  /\ m.gray \cup m.again \cup m.weak \subseteq Queued \cap live'
  /\ \A o \in m.gray \cup m.again \cup m.weak : m.color[o] # "dead"
  /\ \A o \in m.gray : m.color[o] = "gray"
  /\ unswept' \subseteq unswept
  /\ \A o \in unswept \ unswept' : m.color[o] # "dead"
  /\ Waiting' \subseteq Waiting
  /\ \A v \in OpenUpvals' : m.color[v] # "black"
  /\ \A v \in OpenUpvals' \cap unswept' : location'[v] \in unswept'
  /\ gcstate # "propagate" =>
       /\ m.gray = {}
       /\ \A o \in live' \ (unswept' \cup Waiting') : m.color[o] = "white"

MarksOn(q, m, C) ==
  /\ Incremental(q, Waiting) /\ Waiting' = Waiting
  /\ m.gray \cup m.again \cup m.weak = q.gray \cup q.again \cup q.weak
  /\ WhiteIn(m) = WhiteIn(q)
  /\ \A o \in Objects \ C : m.color[o] = q.color[o]
  /\ \A o \in OpenUpvals \ OpenUpvals' : o \in C
  /\ \A o \in C : m.color[o] = "black" => o \notin Threads
  /\ \A o \in C \ Waiting : m.color[o] = "black" => Refs(o)' \cap WhiteIn(m) = {}
  /\ \A o \in C \ Waiting : m.color[o] = "gray" =>
       o \in m.gray \cup m.again \cup m.weak \cup Strings \cup OpenUpvals'

LEMMA ChangeStep ==
  ASSUME IInv, TypesOK', Unborn', Linked', NEW m \in Marks, NEW q \in Marks,
         NEW C, Changes(m, C), Keeps(m),
         gcstate = "propagate" => MarksOn(q, m, C)
  PROVE  IInv'
<1>0. /\ TypesOK /\ Unborn /\ Linked /\ Whole /\ PhaseOK /\ Marking
      /\ live \subseteq Objects
  BY LiveObjects DEF IInv
<1>1. /\ marks' = m /\ color' = m.color /\ gray' = m.gray
      /\ grayagain' = m.again /\ weak' = m.weak
  BY SetMarksLemma DEF Changes
<1>2. live' \subseteq Objects
  BY HeapAssumption, Sorts DEF TypesOK, Roots
<1>3. Whole'
  <2>1. ASSUME NEW o \in live', color'[o] # "dead", NEW x \in Refs(o)'
        PROVE  x \in live' /\ color'[x] # "dead"
    <3>1. CASE o \in C
      BY <1>1, <2>1, <3>1 DEF Changes
    <3>2. CASE o \notin C
      <4>1. o \in live /\ x \in Refs(o) /\ color[o] # "dead"
        BY <1>1, <2>1, <3>2 DEF Changes
      <4>2. x \in live /\ color[x] # "dead"
        BY <1>0, <4>1 DEF Whole
      <4> QED BY <1>0, <1>1, <4>2 DEF Changes
    <3> QED BY <3>1, <3>2
  <2>2. \A o \in (Roots \cup {running})' : color'[o] # "dead"
    <3>1. \A o \in Roots : color[o] # "dead" /\ o \in Objects
      BY <1>0, Sorts DEF Whole
    <3> QED BY <1>1, <3>1 DEF Changes, Roots
  <2> QED BY <1>1, <2>1, <2>2 DEF Whole, Changes, Keeps
<1>4. PhaseOK'
  <2>1. gcstate' # "propagate" => gray' = {}
    BY <1>1 DEF Keeps, Changes
  <2>2. /\ gcstate' \notin {"sweepstring", "sweep"} => unswept' = {}
        /\ gcstate' = "sweep" => unswept' \cap Strings = {}
        /\ Waiting' \cap unswept' = {}
    BY <1>0 DEF PhaseOK, Keeps, Changes
  <2>3. \A o \in Objects : color'[o] = "dead" => o \in unswept'
    BY <1>0, <1>1 DEF PhaseOK, Keeps, Changes
  <2> QED BY <1>1, <2>1, <2>2, <2>3 DEF PhaseOK, Keeps, Changes
<1>5. Marking'
  <2> SUFFICES ASSUME gcstate = "propagate" PROVE Incremental(marks, Waiting)'
    BY DEF Marking, Changes
  <2>1. /\ Incremental(q, Waiting) /\ Waiting' = Waiting
        /\ m.gray \cup m.again \cup m.weak = q.gray \cup q.again \cup q.weak
        /\ WhiteIn(m) = WhiteIn(q)
        /\ \A o \in Objects \ C : m.color[o] = q.color[o]
        /\ \A o \in OpenUpvals \ OpenUpvals' : o \in C
        /\ \A o \in C : m.color[o] = "black" => o \notin Threads
        /\ \A o \in C \ Waiting : m.color[o] = "black" => Refs(o)' \cap WhiteIn(m) = {}
        /\ \A o \in C \ Waiting : m.color[o] = "gray" =>
             o \in m.gray \cup m.again \cup m.weak \cup Strings \cup OpenUpvals'
    BY DEF MarksOn
  <2>2. WhiteIn(m)' = WhiteIn(m) /\ Roots' = Roots
    BY DEF WhiteIn, Roots, Changes
  <2>3. \A o \in Objects : m.color[o] # "dead"
    BY <1>0, ClosedLemma DEF Changes
  <2>4. \A o \in Objects \ live' : m.color[o] = "white"
    BY <1>1 DEF Unborn
  <2>5. /\ Roots \cap WhiteIn(q) = {}
        /\ q.gray \cup q.again \cup q.weak \subseteq (Queued \cap live) \ WhiteIn(q)
        /\ \A o \in live : q.color[o] = "black" => o \notin Threads \cup OpenUpvals
        /\ \A o \in live \ Waiting : q.color[o] = "black" => Refs(o) \cap WhiteIn(q) = {}
        /\ \A o \in live \ Waiting : q.color[o] = "gray" =>
             o \in q.gray \cup q.again \cup q.weak \cup Strings \cup OpenUpvals
    BY <2>1 DEF Incremental
  <2>6. \A o \in live' \ C : o \in live /\ Refs(o)' = Refs(o) /\ m.color[o] = q.color[o]
    BY <1>2, <2>1 DEF Changes
  <2>7. \A o \in live' : m.color[o] = "black" => o \notin Threads \cup OpenUpvals'
    <3> SUFFICES ASSUME NEW o \in live', m.color[o] = "black"
                 PROVE  o \notin Threads /\ o \notin OpenUpvals'
      OBVIOUS
    <3>1. o \notin OpenUpvals'
      BY DEF Keeps
    <3>2. o \notin Threads
      BY <2>1, <2>5, <2>6
    <3> QED BY <3>1, <3>2
  <2>8. \A o \in live' \ Waiting : m.color[o] = "black" => Refs(o)' \cap WhiteIn(m) = {}
    <3> SUFFICES ASSUME NEW o \in live' \ Waiting, m.color[o] = "black"
                 PROVE  Refs(o)' \cap WhiteIn(m) = {}
      OBVIOUS
    <3>1. CASE o \in C
      BY <2>1, <3>1
    <3>2. CASE o \notin C
      <4>1. o \in live \ Waiting /\ Refs(o)' = Refs(o) /\ q.color[o] = "black"
        BY <2>6, <3>2
      <4> QED BY <2>1, <2>5, <4>1
    <3> QED BY <3>1, <3>2
  <2>9. \A o \in live' \ Waiting : m.color[o] = "gray" =>
          o \in m.gray \cup m.again \cup m.weak \cup Strings \cup OpenUpvals'
    <3> SUFFICES ASSUME NEW o \in live' \ Waiting, m.color[o] = "gray"
                 PROVE  o \in m.gray \cup m.again \cup m.weak \cup Strings \cup OpenUpvals'
      OBVIOUS
    <3>1. CASE o \in C
      BY <2>1, <3>1
    <3>2. CASE o \notin C
      <4>1. o \in live \ Waiting /\ q.color[o] = "gray"
        BY <2>6, <3>2
      <4> QED BY <2>1, <2>5, <3>2, <4>1
    <3> QED BY <3>1, <3>2
  <2>10. m.gray \cup m.again \cup m.weak \subseteq (Queued \cap live') \ WhiteIn(m)
    BY <2>1, <2>5 DEF Keeps
  <2>11. /\ Roots' \cap WhiteIn(m)' = {}
         /\ m.gray \cup m.again \cup m.weak \subseteq (Queued \cap live') \ WhiteIn(m)'
         /\ \A o \in live' \ Waiting' : m.color[o] = "black" =>
              Refs(o)' \cap WhiteIn(m)' = {}
    BY <2>1, <2>2, <2>5, <2>8, <2>10
  <2>12. \A o \in live' \ Waiting' : m.color[o] = "gray" =>
          o \in m.gray \cup m.again \cup m.weak \cup Strings \cup OpenUpvals'
    BY <2>1, <2>9
  <2>13. Incremental(m, Waiting)'
    BY <2>3, <2>4, <2>7, <2>11, <2>12 DEF Incremental
  <2> QED BY <1>1, <2>13
<1> QED BY <1>3, <1>4, <1>5 DEF IInv

LEMMA SameMarks ==
  ASSUME IInv
  PROVE  /\ marks \in Marks /\ marks.color = color /\ marks.gray = gray
         /\ marks.again = grayagain /\ marks.weak = weak
         /\ UNCHANGED <<color, lists>> => SetMarks(marks)
         /\ gcstate = "propagate" => Incremental(marks, Waiting)
BY DEF IInv, TypesOK, Marking, marks, SetMarks, lists

(* An instruction that only changes what a slot holds. *)
LEMMA StackStep ==
  ASSUME IInv, NEW t \in Threads, t \in live, NEW x \in Ref, Safe(x), Put(t, x),
         UNCHANGED <<pool, live, color, lists, cycle, running, entry, content>>
  PROVE  IInv'
<1> DEFINE C == {t} \cup OpenOf(t)
           m == marks
<1>0. TypesOK /\ Unborn /\ Linked /\ Whole /\ PhaseOK /\ live \subseteq Objects
  BY LiveObjects DEF IInv
<1>1. /\ m \in Marks /\ m.color = color /\ m.gray = gray
      /\ m.again = grayagain /\ m.weak = weak /\ SetMarks(m)
      /\ gcstate = "propagate" => Incremental(m, Waiting)
  BY SameMarks
<1> HIDE DEF m
<1>2. /\ stack' = [stack EXCEPT ![t] = x]
      /\ pool' = pool /\ live' = live /\ gcstate' = gcstate /\ unswept' = unswept
      /\ udlist' = udlist /\ tmudata' = tmudata /\ finalized' = finalized
      /\ full' = full /\ running' = running /\ entry' = entry /\ mode' = mode
      /\ env' = env /\ captures' = captures /\ location' = location
      /\ closedval' = closedval /\ Waiting' = Waiting /\ color' = color
  BY DEF Put, cycle, content, Waiting
<1>3. OpenUpvals' = OpenUpvals
  BY <1>2 DEF OpenUpvals, OpenOf, Open
<1>4. TypesOK'
  <2>1. stack' \in [Threads -> Ref]
    BY <1>0, <1>2 DEF TypesOK
  <2>2. marks' \in Marks
    BY <1>1, SetMarksLemma
  <2> QED BY <1>0, <1>2, <2>1, <2>2 DEF TypesOK
<1>5. Unborn'
  BY <1>0, <1>2 DEF Unborn, TypesOK
<1>6. Linked'
  BY <1>0, <1>2, <1>3 DEF Linked
<1>7. \A o \in live \ C : Refs(o)' = Refs(o)
  <2> TAKE o \in live \ C
  <2>1. o \in Threads => stack'[o] = stack[o]
    BY <1>0, <1>2 DEF TypesOK
  <2>2. ASSUME o \in Upvals PROVE ValueOf(o)' = ValueOf(o)
    <3>1. location[o] # Nil => location[o] \in Threads /\ location[o] # t
      BY <1>0, <2>2, OpenNow
    <3>2. location[o] # Nil => stack'[location[o]] = stack[location[o]]
      BY <1>0, <1>2, <3>1 DEF TypesOK
    <3> QED BY <1>2, <3>2, SameValue
  <2> QED BY <1>0, <1>2, <2>1, <2>2, SameRefsOf
<1>8. \A o \in C : Refs(o)' \subseteq {x, Registry} \ {Nil}
  <2>1. Refs(t)' = {x, Registry} \ {Nil}
    <3>1. stack'[t] = x
      BY <1>0, <1>2 DEF TypesOK
    <3> QED BY <3>1, RefsPrimed
  <2>2. ASSUME NEW o \in OpenOf(t) PROVE Refs(o)' = {x} \ {Nil}
    <3>1. o \in Upvals /\ location[o] = t /\ t # Nil
      BY <1>0, OpenNow, Sorts
    <3>2. stack'[location'[o]] = x /\ location'[o] # Nil
      BY <1>0, <1>2, <3>1 DEF TypesOK
    <3>3. ValueOf(o)' = x
      BY <3>2 DEF ValueOf, Open
    <3> QED BY <3>1, <3>3, RefsPrimed
  <2> QED BY <2>1, <2>2
<1>9. /\ Registry \in live /\ color[Registry] # "dead"
      /\ C \subseteq live /\ C \cap (Objects \ (Threads \cup OpenUpvals)) = {}
  BY <1>0, Sorts DEF TypesOK, Whole, Roots, OpenUpvals, OpenOf
<1> HIDE DEF C
<1>10. Changes(m, C)
  <2>1. \A o \in C : \A y \in Refs(o)' : y \in live' /\ m.color[y] # "dead"
    BY <1>1, <1>2, <1>8, <1>9 DEF Safe
  <2> QED BY <1>0, <1>1, <1>2, <1>7, <2>1 DEF Changes, Whole
<1>11. Keeps(m)
  BY <1>0, <1>1, <1>2, <1>3 DEF Keeps, Whole, PhaseOK
<1>12. gcstate = "propagate" => MarksOn(m, m, C)
  <2> SUFFICES ASSUME gcstate = "propagate" PROVE MarksOn(m, m, C)
    OBVIOUS
  <2>1. \A o \in live : color[o] = "black" => o \notin Threads \cup OpenUpvals
    BY <1>1 DEF Incremental
  <2>2. \A o \in C : o \in live /\ o \in Threads \cup OpenUpvals
    BY <1>0, <1>9
  <2>3. \A o \in live \ Waiting : color[o] = "gray" =>
          o \in gray \cup grayagain \cup weak \cup Strings \cup OpenUpvals
    BY <1>1 DEF Incremental
  <2> QED BY <1>1, <1>2, <1>3, <2>1, <2>2, <2>3 DEF MarksOn
<1> QED BY <1>1, <1>4, <1>5, <1>6, <1>10, <1>11, <1>12, ChangeStep

LEMMA RunningOK ==
  ASSUME IInv
  PROVE  running \in Threads /\ running \in live /\ color[running] # "dead"
BY DEF IInv, TypesOK, Whole

LEMMA NilSafe == Safe(Nil) /\ Nil \in Ref
BY DEF Safe, Ref

LEMMA DropStep ==
  ASSUME IInv, Drop
  PROVE  IInv'
<1>1. Put(running, Nil) /\ UNCHANGED <<pool, cycle>>
      /\ UNCHANGED <<live, color, lists, running, entry, content>>
  BY DEF Drop, ScriptRuns
<1> QED BY <1>1, StackStep, RunningOK, NilSafe

(* Of what a script can name, an object is alive. *)
LEMMA UsableLemma ==
  ASSUME IInv, NEW S \in SUBSET Objects
  PROVE  \A o \in Usable(S) \cup {Registry} :
           o \in live /\ color[o] # "dead" /\ Safe(o) /\ o # Nil
<1>1. Registry \in live /\ color[Registry] # "dead" /\ Nil \notin Objects
      /\ Registry \in Objects
  BY Sorts DEF IInv, Whole, TypesOK, Roots
<1>2. \A o \in Usable(S) : Safe(o) /\ o \in Objects
  BY HereLemma DEF Usable
<1> QED BY <1>1, <1>2 DEF Safe

LEMMA GetTableStep ==
  ASSUME IInv, NEW t \in Tables, GetTable(t)
  PROVE  IInv'
<1>0. TypesOK /\ Tables \in SUBSET Objects
  BY Sorts DEF IInv
<1>1. PICK x \in {entry[t].key, entry[t].val} : Put(running, x)
  BY DEF GetTable
<1>2. Safe(t) /\ t # Nil
  BY <1>0, UsableLemma DEF GetTable
<1>3. x \in Ref
  BY <1>0 DEF TypesOK
<1>4. x = Nil \/ x \in Refs(t)
  BY <1>0, RefsNow
<1>5. Safe(x)
  BY <1>2, <1>4, SafeRefs, NilSafe
<1>6. UNCHANGED <<pool, cycle>>
      /\ UNCHANGED <<live, color, lists, running, entry, content>>
  BY DEF GetTable, ScriptRuns
<1> QED BY <1>1, <1>3, <1>5, <1>6, StackStep, RunningOK

(* The value of an upvalue that is safe. *)
LEMMA UpvalLemma ==
  ASSUME IInv, NEW c \in Closures, c \in Usable(Closures)
  PROVE  /\ captures[c] \in Upvals /\ Safe(captures[c]) /\ captures[c] \in live
         /\ Safe(ValueOf(captures[c])) /\ ValueOf(captures[c]) \in Ref
<1>0. TypesOK /\ Linked /\ Closures \in SUBSET Objects
  BY Sorts DEF IInv
<1>1. Safe(c) /\ c # Nil /\ c \in live
  BY <1>0, UsableLemma
<1> DEFINE v == captures[c]
<1>2. v \in Upvals /\ v # Nil
  BY <1>0, <1>1, Sorts DEF Linked
<1>3. v \in Refs(c)
  BY <1>0, <1>2, RefsNow
<1>4. Safe(v)
  BY <1>1, <1>3, SafeRefs
<1>5. ValueOf(v) = Nil \/ ValueOf(v) \in Refs(v)
  BY <1>0, <1>2, RefsNow DEF ValueOf, Open
<1>6. Safe(ValueOf(v))
  BY <1>2, <1>4, <1>5, SafeRefs, NilSafe
<1>7. ValueOf(v) \in Ref
  <2>1. CASE Open(v)
    BY <1>0, <1>2, <2>1 DEF ValueOf, Open, TypesOK
  <2>2. CASE ~Open(v)
    BY <1>0, <1>2, <2>2 DEF ValueOf, Open, TypesOK
  <2> QED BY <2>1, <2>2
<1> QED BY <1>2, <1>4, <1>6, <1>7 DEF Safe

LEMMA GetUpvalStep ==
  ASSUME IInv, NEW c \in Closures, GetUpval(c)
  PROVE  IInv'
<1>1. /\ Put(running, ValueOf(captures[c])) /\ UNCHANGED <<pool, cycle>>
      /\ UNCHANGED <<live, color, lists, running, entry, content>>
      /\ c \in Usable(Closures)
  BY DEF GetUpval, ScriptRuns
<1>2. Safe(ValueOf(captures[c])) /\ ValueOf(captures[c]) \in Ref
  BY <1>1, UpvalLemma
<1> QED BY <1>1, <1>2, StackStep, RunningOK

(* What a barrier leaves is as good as the marks before it. *)
Remarked(m) ==
  /\ \A o \in Objects : m.color[o] = "dead" <=> color[o] = "dead"
  /\ m.gray \cup m.again \cup m.weak \subseteq Queued \cap live
  /\ \A o \in m.gray \cup m.again \cup m.weak : m.color[o] # "dead"
  /\ \A o \in m.gray : m.color[o] = "gray"
  /\ \A v \in OpenUpvals : m.color[v] # "black"
  /\ gcstate # "propagate" =>
       /\ m.gray = {}
       /\ \A o \in Objects :
            m.color[o] = color[o] \/ m.color[o] = "white" \/ o \in unswept
  /\ gcstate = "propagate" => Incremental(m, Waiting)

LEMMA RemarkedSame ==
  ASSUME IInv
  PROVE  Remarked(marks)
<1>1. /\ marks \in Marks /\ marks.color = color /\ marks.gray = gray
      /\ marks.again = grayagain /\ marks.weak = weak
      /\ gcstate = "propagate" => Incremental(marks, Waiting)
  BY SameMarks
<1> QED BY <1>1 DEF IInv, Remarked, Whole, PhaseOK

(* An instruction that changes one object, which is no thread and no open  *)
(* upvalue, and the marks as its barrier does.                             *)
LEMMA WriteStep ==
  ASSUME IInv, UNCHANGED <<pool, live, cycle, captures, location>>,
         TypesOK', Unborn', running' \in live, color[running'] # "dead",
         NEW m \in Marks, SetMarks(m), Remarked(m),
         NEW o, o \in live, o \notin Threads \cup OpenUpvals,
         \A x \in live \ {o} : Refs(x)' = Refs(x),
         \A x \in Refs(o)' : Safe(x),
         gcstate = "propagate" /\ o \notin Waiting /\ m.color[o] = "black" =>
           Refs(o)' \cap WhiteIn(m) = {}
  PROVE  IInv'
<1>0. TypesOK /\ Unborn /\ Linked /\ Whole /\ PhaseOK /\ live \subseteq Objects
  BY LiveObjects DEF IInv
<1>1. /\ pool' = pool /\ live' = live /\ gcstate' = gcstate /\ unswept' = unswept
      /\ udlist' = udlist /\ tmudata' = tmudata /\ finalized' = finalized
      /\ full' = full /\ location' = location /\ captures' = captures
      /\ Waiting' = Waiting
  BY DEF cycle, Waiting
<1>2. OpenUpvals' = OpenUpvals
  BY <1>1 DEF OpenUpvals, OpenOf, Open
<1>3. Linked'
  BY <1>0, <1>1, <1>2 DEF Linked
<1> DEFINE C == {o}
<1>4. Changes(m, C)
  <2>1. \A x \in Refs(o)' : x \in live' /\ m.color[x] # "dead"
    <3>1. Nil \notin Refs(o)'
      BY DEF Refs, Children
    <3>2. \A x \in Refs(o)' : x \in live /\ color[x] # "dead"
      BY <3>1 DEF Safe
    <3> QED BY <1>0, <1>1, <3>2 DEF Remarked
  <2>2. m.color[running'] # "dead"
    BY <1>0 DEF Remarked
  <2> QED BY <1>0, <1>1, <2>1, <2>2 DEF Changes, Remarked
<1>5. Keeps(m)
  <2>1. gcstate # "propagate" =>
          \A x \in live \ (unswept \cup Waiting) : m.color[x] = "white"
    BY <1>0 DEF Remarked, PhaseOK
  <2>2. \A v \in OpenUpvals' \cap unswept' : location'[v] \in unswept'
    BY <1>0, <1>1, <1>2 DEF PhaseOK
  <2> QED BY <1>1, <1>2, <2>1, <2>2 DEF Keeps, Remarked
<1>6. gcstate = "propagate" => MarksOn(m, m, C)
  <2> SUFFICES ASSUME gcstate = "propagate" PROVE MarksOn(m, m, C)
    OBVIOUS
  <2>1. Incremental(m, Waiting)
    BY DEF Remarked
  <2>2. o \notin Waiting /\ m.color[o] = "gray" =>
          o \in m.gray \cup m.again \cup m.weak \cup Strings \cup OpenUpvals
    BY <2>1 DEF Incremental
  <2> QED BY <1>1, <1>2, <2>1, <2>2 DEF MarksOn
<1> QED BY <1>3, <1>4, <1>5, <1>6, ChangeStep

(* An instruction that changes nothing an object names. *)
LEMMA QuietStep ==
  ASSUME IInv, UNCHANGED <<pool, live, cycle, captures, location, color, lists>>,
         TypesOK', Unborn', running' \in live, color[running'] # "dead",
         \A x \in live : Refs(x)' = Refs(x)
  PROVE  IInv'
<1>0. TypesOK /\ Whole /\ PhaseOK
  BY DEF IInv
<1>1. /\ marks \in Marks /\ marks.color = color /\ SetMarks(marks)
      /\ gcstate = "propagate" => Incremental(marks, Waiting)
  BY SameMarks
<1>2. Registry \in live /\ Registry \notin Threads \cup OpenUpvals
      /\ color[Registry] # "dead"
  BY <1>0, Sorts DEF Whole, TypesOK, Roots, OpenUpvals, OpenOf
<1>3. \A x \in Refs(Registry)' : Safe(x)
  BY <1>0, <1>2 DEF Whole, Safe
<1>4. gcstate = "propagate" /\ Registry \notin Waiting
        /\ marks.color[Registry] = "black" =>
        Refs(Registry)' \cap WhiteIn(marks) = {}
  BY <1>1, <1>2 DEF Incremental
<1> QED BY <1>1, <1>2, <1>3, <1>4, RemarkedSame, WriteStep

LEMMA SwitchStep ==
  ASSUME IInv, NEW t \in Threads, Switch(t)
  PROVE  IInv'
<1>0. TypesOK /\ Unborn /\ Threads \in SUBSET Objects
  BY Sorts DEF IInv
<1>1. /\ UNCHANGED <<pool, cycle>> /\ running' = t
      /\ UNCHANGED <<live, color, lists, stack, entry, content>>
  BY DEF Switch, ScriptRuns
<1>2. t \in live /\ color[t] # "dead"
  <2>1. CASE running = MainThread
    <3>1. t \in Usable(Threads)
      BY <2>1 DEF Switch
    <3> QED BY <1>0, <3>1, UsableLemma
  <2>2. CASE running # MainThread
    <3>1. t = MainThread
      BY <2>2 DEF Switch
    <3> QED BY <1>0, <3>1 DEF IInv, Whole, TypesOK, Roots
  <2> QED BY <2>1, <2>2
<1>3. /\ stack' = stack /\ entry' = entry /\ mode' = mode /\ env' = env
      /\ captures' = captures /\ location' = location /\ closedval' = closedval
      /\ color' = color /\ gray' = gray /\ grayagain' = grayagain /\ weak' = weak
  BY <1>1 DEF content, lists
<1>4. TypesOK'
  <2>1. marks' = marks
    BY <1>3 DEF marks
  <2> QED BY <1>0, <1>1, <1>3, <2>1 DEF TypesOK, cycle
<1>5. Unborn'
  BY <1>0, <1>1, <1>3 DEF Unborn
<1>6. \A x \in live : Refs(x)' = Refs(x)
  BY <1>1, <1>3, SameRefs DEF SameContent
<1> QED BY <1>1, <1>2, <1>3, <1>4, <1>5, <1>6, QuietStep

LEMMA SetModeStep ==
  ASSUME IInv, NEW t \in Tables, NEW md \in SUBSET {"k", "v"}, SetMode(t, md)
  PROVE  IInv'
<1>0. TypesOK /\ Unborn /\ live \subseteq Objects
  BY LiveObjects DEF IInv
<1>1. /\ UNCHANGED <<pool, cycle>> /\ mode' = [mode EXCEPT ![t] = md]
      /\ UNCHANGED <<live, color, lists, running, stack, entry, env, captures,
                     location, closedval>>
  BY DEF SetMode, ScriptRuns
<1>2. TypesOK'
  <2>1. marks' = marks
    BY <1>1 DEF marks, lists
  <2>2. mode' \in [Tables -> SUBSET {"k", "v"}]
    BY <1>0, <1>1 DEF TypesOK
  <2> QED BY <1>0, <1>1, <2>1, <2>2 DEF TypesOK, cycle
<1>3. Unborn'
  BY <1>0, <1>1 DEF Unborn
<1>4. \A x \in live : Refs(x)' = Refs(x)
  <2> TAKE x \in live
  <2>1. ValueOf(x)' = ValueOf(x)
    BY <1>1, SameValue
  <2> QED BY <1>0, <1>1, <2>1, SameRefsOf
<1> QED BY <1>1, <1>2, <1>3, <1>4, RunningOK, QuietStep

(* luaC_barriert(): a table that is black still has got nothing white.     *)
LEMMA BarrierTLemma ==
  ASSUME TypesOK, NEW m \in Marks, NEW t \in Tables, NEW S
  PROVE  LET n == BarrierT(m, t, S)
         IN  /\ n \in Marks /\ n.gray = m.gray /\ n.weak = m.weak
             /\ n.again = m.again \/ n.again = m.again \cup {t}
             /\ \A o \in Objects \ {t} : n.color[o] = m.color[o]
             /\ \/ n.again = m.again /\ n.color[t] = m.color[t]
                \/ n.color[t] = "gray" /\ m.color[t] = "black" /\ t \in n.again
             /\ n.color[t] = "black" => S \cap WhiteIn(m) = {}
             /\ WhiteIn(n) = WhiteIn(m)
<1> DEFINE n == BarrierT(m, t, S)
<1>0. t \in Objects
  BY Sorts
<1>1. CASE ~(m.color[t] = "black" /\ S \cap WhiteIn(m) # {})
  <2>1. n = m
    BY <1>1 DEF BarrierT
  <2> QED BY <1>1, <2>1
<1>2. CASE m.color[t] = "black" /\ S \cap WhiteIn(m) # {}
  <2> DEFINE p == Paint(m, {t}, "gray")
  <2>1. /\ p \in Marks /\ p.gray = m.gray /\ p.again = m.again /\ p.weak = m.weak
        /\ \A o \in Objects : p.color[o] = IF o \in {t} THEN "gray" ELSE m.color[o]
    <3>1. "gray" \in Colors
      BY DEF Colors
    <3> QED BY <3>1, PaintLemma
  <2>2. n = [p EXCEPT !.again = @ \cup {t}]
    BY <1>2 DEF BarrierT
  <2> HIDE DEF p
  <2>3. /\ n.gray = m.gray /\ n.weak = m.weak /\ n.again = m.again \cup {t}
        /\ n.color = p.color
    BY <2>1, <2>2 DEF Marks
  <2>4. n \in Marks
    BY <1>0, <2>1, <2>2 DEF Marks
  <2> HIDE DEF n
  <2>5. /\ \A o \in Objects \ {t} : n.color[o] = m.color[o]
        /\ n.color[t] = "gray"
    BY <1>0, <2>1, <2>3
  <2>6. WhiteIn(n) = WhiteIn(m)
    <3>1. pool \cup Roots \subseteq Objects
      BY HeapAssumption, Sorts DEF TypesOK
    <3> QED BY <1>2, <2>5, <3>1 DEF WhiteIn
  <2> QED BY <1>2, <2>3, <2>4, <2>5, <2>6 DEF n
<1> QED BY <1>1, <1>2

LEMMA BarrierTRemarked ==
  ASSUME IInv, NEW t \in Tables, t \in live, color[t] # "dead", NEW S
  PROVE  Remarked(BarrierT(marks, t, S))
<1> DEFINE m == marks
           n == BarrierT(m, t, S)
<1>0. TypesOK /\ Unborn /\ Whole /\ PhaseOK /\ live \subseteq Objects
      /\ Waiting \subseteq Udata
  BY LiveObjects, WaitingLemma DEF IInv
<1>1. /\ m \in Marks /\ m.color = color /\ m.gray = gray
      /\ m.again = grayagain /\ m.weak = weak
      /\ gcstate = "propagate" => Incremental(m, Waiting)
  BY SameMarks
<1> HIDE DEF m
<1>2. /\ n \in Marks /\ n.gray = m.gray /\ n.weak = m.weak
      /\ n.again = m.again \/ n.again = m.again \cup {t}
      /\ \A o \in Objects \ {t} : n.color[o] = m.color[o]
      /\ \/ n.again = m.again /\ n.color[t] = m.color[t]
         \/ n.color[t] = "gray" /\ m.color[t] = "black" /\ t \in n.again
      /\ WhiteIn(n) = WhiteIn(m)
  BY <1>0, <1>1, BarrierTLemma
<1> HIDE DEF n
<1>3. \A o \in Objects : \/ n.color[o] = color[o]
                         \/ o = t /\ n.color[o] = "gray" /\ color[o] = "black"
  BY <1>1, <1>2
<1>4. t \in Queued /\ t \notin Threads \cup OpenUpvals /\ t \notin Waiting
      /\ t \notin Udata
  BY <1>0, Sorts DEF OpenUpvals, OpenOf
<1>5. /\ n.gray \cup n.again \cup n.weak \subseteq Queued \cap live
      /\ \A o \in n.gray \cup n.again \cup n.weak : n.color[o] # "dead"
      /\ \A o \in n.gray : n.color[o] = "gray"
  <2>1. gray \cup grayagain \cup weak \subseteq Queued \cap live
    BY <1>0 DEF Whole
  <2>2. \A o \in gray \cup grayagain \cup weak \cup {t} : o \in Objects /\ color[o] # "dead"
    BY <1>0 DEF Whole
  <2>3. \A o \in gray : color[o] = "gray" /\ o \in Objects
    BY <1>0, <2>2 DEF Whole
  <2> QED BY <1>1, <1>2, <1>3, <1>4, <2>1, <2>2, <2>3
<1>6. gcstate # "propagate" =>
       /\ n.gray = {}
       /\ \A o \in Objects : n.color[o] = color[o] \/ o \in unswept
  <2> SUFFICES ASSUME gcstate # "propagate"
               PROVE  /\ n.gray = {}
                      /\ \A o \in Objects : n.color[o] = color[o] \/ o \in unswept
    OBVIOUS
  <2>1. color[t] = "white" \/ t \in unswept
    BY <1>0, <1>4 DEF PhaseOK
  <2> QED BY <1>0, <1>1, <1>2, <1>3, <2>1 DEF PhaseOK
<1>7. gcstate = "propagate" => Incremental(n, Waiting)
  <2> SUFFICES ASSUME gcstate = "propagate" PROVE Incremental(n, Waiting)
    OBVIOUS
  <2>1. /\ Roots \cap WhiteIn(m) = {}
        /\ m.gray \cup m.again \cup m.weak \subseteq (Queued \cap live) \ WhiteIn(m)
        /\ \A o \in Objects : m.color[o] # "dead"
        /\ \A o \in Objects \ live : m.color[o] = "white"
        /\ \A o \in live : m.color[o] = "black" => o \notin Threads \cup OpenUpvals
        /\ \A o \in live \ Waiting : m.color[o] = "black" => Refs(o) \cap WhiteIn(m) = {}
        /\ \A o \in live \ Waiting : m.color[o] = "gray" =>
             o \in m.gray \cup m.again \cup m.weak \cup Strings \cup OpenUpvals
    BY <1>1 DEF Incremental
  <2>2. m.color[t] = "black" => t \notin WhiteIn(m)
    BY DEF WhiteIn
  <2>3. /\ \A o \in Objects : n.color[o] # "dead"
        /\ \A o \in Objects \ live : n.color[o] = "white"
    BY <1>1, <1>3, <2>1
  <2>4. n.gray \cup n.again \cup n.weak \subseteq (Queued \cap live) \ WhiteIn(n)
    BY <1>2, <1>4, <2>1, <2>2
  <2>5. /\ \A o \in live : n.color[o] = "black" => o \notin Threads \cup OpenUpvals
        /\ \A o \in live \ Waiting : n.color[o] = "black" => Refs(o) \cap WhiteIn(n) = {}
    BY <1>0, <1>1, <1>2, <1>3, <2>1
  <2>6. \A o \in live \ Waiting : n.color[o] = "gray" =>
             o \in n.gray \cup n.again \cup n.weak \cup Strings \cup OpenUpvals
    BY <1>0, <1>1, <1>2, <1>3, <2>1
  <2> QED BY <1>2, <2>1, <2>3, <2>4, <2>5, <2>6 DEF Incremental
<1>8. /\ \A o \in Objects : n.color[o] = "dead" <=> color[o] = "dead"
      /\ \A v \in OpenUpvals : n.color[v] # "black"
  <2>1. \A v \in OpenUpvals : v \in Objects /\ color[v] # "black"
    BY <1>0 DEF PhaseOK, OpenUpvals, OpenOf
  <2> QED BY <1>3, <2>1
<1>9. Remarked(n)
  BY <1>5, <1>6, <1>7, <1>8 DEF Remarked
<1> QED BY <1>9 DEF n, m

LEMMA SetTableStep ==
  ASSUME IInv, NEW t \in Tables, NEW k \in Here, NEW v \in Here, SetTable(t, k, v)
  PROVE  IInv'
<1> DEFINE S == IF v = Nil THEN {} ELSE {k, v}
           m == BarrierT(marks, t, S)
           e == IF v = Nil THEN Empty ELSE [key |-> k, val |-> v]
<1>0. TypesOK /\ Unborn /\ Whole /\ PhaseOK /\ live \subseteq Objects
      /\ Tables \in SUBSET Objects
  BY LiveObjects, Sorts DEF IInv
<1>1. /\ UNCHANGED <<pool, cycle>> /\ SetMarks(m)
      /\ entry' = [entry EXCEPT ![t] = e]
      /\ UNCHANGED <<live, running, stack, content>>
      /\ t \in Usable(Tables) \cup {Registry}
  BY DEF SetTable, Assign, ScriptRuns
<1>2. t \in live /\ color[t] # "dead"
  BY <1>0, <1>1, UsableLemma
<1>3. Safe(k) /\ Safe(v) /\ k \in Ref /\ v \in Ref
  BY HereLemma
<1>4. e \in [key : Ref, val : Ref] /\ {e.key, e.val} \ {Nil} = S \ {Nil}
      /\ \A x \in S : Safe(x)
  BY <1>3, NilSafe DEF Empty
<1>5. marks \in Marks
  BY SameMarks
<1>6. /\ m \in Marks /\ Remarked(m)
      /\ m.color[t] = "black" => S \cap WhiteIn(marks) = {}
      /\ WhiteIn(m) = WhiteIn(marks)
  BY <1>0, <1>2, <1>5, BarrierTLemma, BarrierTRemarked
<1> HIDE DEF m, e, S
<1>7. /\ running' = running /\ stack' = stack /\ mode' = mode /\ env' = env
      /\ captures' = captures /\ location' = location /\ closedval' = closedval
      /\ live' = live
  BY <1>1 DEF content
<1>8. marks' = m /\ color' = m.color
  BY <1>1, <1>6, SetMarksLemma
<1>9. TypesOK'
  <2>1. entry' \in [Tables -> [key : Ref, val : Ref]]
    BY <1>0, <1>1, <1>4 DEF TypesOK
  <2> QED BY <1>0, <1>1, <1>6, <1>7, <1>8, <2>1 DEF TypesOK, cycle
<1>10. \A o \in Objects \ live : color'[o] = "white"
  <2>1. \A o \in Objects : m.color[o] = color[o] \/ m.color[o] = "white" \/ o \in live
    BY <1>0, <1>6 DEF Remarked, TypesOK, Incremental, Unborn
  <2> QED BY <1>0, <1>8, <2>1 DEF Unborn
<1>11. Unborn'
  BY <1>0, <1>1, <1>2, <1>7, <1>10 DEF Unborn, TypesOK
<1>12. Refs(t)' = S \ {Nil}
  <2>1. entry'[t] = e
    BY <1>0, <1>1 DEF TypesOK
  <2>2. Refs(t)' = {entry'[t].key, entry'[t].val} \ {Nil}
    BY RefsPrimed
  <2> QED BY <1>4, <2>1, <2>2
<1>13. \A x \in live \ {t} : Refs(x)' = Refs(x)
  <2> TAKE x \in live \ {t}
  <2>1. ValueOf(x)' = ValueOf(x)
    BY <1>7, SameValue
  <2>2. x \in Tables => entry'[x] = entry[x]
    BY <1>0, <1>1 DEF TypesOK
  <2> QED BY <1>0, <1>7, <2>1, <2>2, SameRefsOf
<1>14. t \notin Threads \cup OpenUpvals
  BY <1>0, Sorts DEF OpenUpvals, OpenOf
<1>15. /\ running' \in live /\ color[running'] # "dead"
       /\ UNCHANGED <<pool, live, cycle, captures, location>>
  BY <1>1, <1>7, RunningOK
<1> QED BY <1>1, <1>2, <1>4, <1>6, <1>9, <1>11, <1>12, <1>13, <1>14, <1>15,
           WriteStep

(* luaC_barrierf(): while marking, what a black object gets is marked.     *)
LEMMA BarrierLemma ==
  ASSUME IInv, NEW o, o \in live, NEW x \in live, color[x] # "dead"
  PROVE  LET n == Barrier(marks, o, x)
         IN  /\ n \in Marks /\ Remarked(n)
             /\ gcstate = "propagate" /\ n.color[o] = "black" => x \notin WhiteIn(n)
             /\ \A y \in Objects \ live : n.color[y] = "white"
<1> DEFINE m == marks
           n == Barrier(m, o, x)
<1>0. TypesOK /\ Unborn /\ Whole /\ PhaseOK /\ live \subseteq Objects
  BY LiveObjects DEF IInv
<1>1. /\ m \in Marks /\ m.color = color /\ m.gray = gray
      /\ m.again = grayagain /\ m.weak = weak
      /\ gcstate = "propagate" => Incremental(m, Waiting)
  BY SameMarks
<1> HIDE DEF m
<1>2. CASE ~(m.color[o] = "black" /\ x \in WhiteIn(m))
  <2>1. n = m
    BY <1>2 DEF Barrier
  <2>2. Remarked(m)
    BY RemarkedSame DEF m
  <2> QED BY <1>0, <1>1, <1>2, <2>1, <2>2 DEF Unborn, m
<1>3. CASE m.color[o] = "black" /\ x \in WhiteIn(m) /\ gcstate # "propagate"
  <2>1. n = Paint(m, {o}, "white")
    BY <1>3 DEF Barrier
  <2>2. /\ n \in Marks /\ n.gray = m.gray /\ n.again = m.again /\ n.weak = m.weak
        /\ \A y \in Objects : n.color[y] = IF y \in {o} THEN "white" ELSE m.color[y]
    <3>1. "white" \in Colors
      BY DEF Colors
    <3> QED BY <1>1, <2>1, <3>1, PaintLemma
  <2> HIDE DEF n
  <2>3. \A y \in Objects : \/ n.color[y] = color[y]
                           \/ n.color[y] = "white" /\ color[y] = "black"
    BY <1>1, <1>3, <2>2
  <2>4. Remarked(n)
    <3>1. \A y \in gray \cup grayagain \cup weak : y \in Objects /\ color[y] # "dead"
      BY <1>0 DEF Whole
    <3>2. gray = {}
      BY <1>0, <1>3 DEF PhaseOK
    <3>3. \A y \in OpenUpvals : y \in Objects /\ color[y] # "black"
      BY <1>0 DEF PhaseOK, OpenUpvals, OpenOf
    <3>4. gray \cup grayagain \cup weak \subseteq Queued \cap live
      BY <1>0 DEF Whole
    <3> QED BY <1>1, <1>3, <2>2, <2>3, <3>1, <3>2, <3>3, <3>4 DEF Remarked
  <2> QED BY <1>0, <1>3, <2>2, <2>3, <2>4 DEF Unborn, n, m
<1>4. CASE m.color[o] = "black" /\ x \in WhiteIn(m) /\ gcstate = "propagate"
  <2> DEFINE S == Fresh1(m, {x})
  <2>1. n = Mark(m, {x})
    BY <1>4 DEF Barrier
  <2>2. /\ n \in Marks
        /\ n.gray = m.gray \cup (S \cap Queued)
        /\ n.again = m.again /\ n.weak = m.weak
        /\ {x} \cap WhiteIn(m) \subseteq S
        /\ WhiteIn(n) = WhiteIn(m) \ S
        /\ \A y \in S \cap Queued : n.color[y] = "gray"
        /\ \A y \in Objects \ S : n.color[y] = m.color[y]
    BY <1>0, <1>1, <2>1, MarkLemma
  <2>3. Incremental(n, Waiting) /\ S \subseteq live
    <3>1. Closed /\ Incremental(m, Waiting) /\ {x} \in SUBSET (live \cup {Nil})
      BY <1>1, <1>4, ClosedLemma
    <3> QED BY <1>0, <1>1, <2>1, <3>1, MarkIncremental
  <2> HIDE DEF n, S
  <2>4. /\ n.gray \cup n.again \cup n.weak \subseteq (Queued \cap live) \ WhiteIn(n)
        /\ \A y \in Objects : n.color[y] # "dead"
        /\ \A y \in Objects \ live : n.color[y] = "white"
        /\ \A y \in live : n.color[y] = "black" => y \notin Threads \cup OpenUpvals
    BY <2>3 DEF Incremental
  <2>5. \A y \in n.gray : n.color[y] = "gray"
    <3> TAKE y \in n.gray
    <3>1. CASE y \in S
      BY <1>0, <2>2, <2>4, <3>1
    <3>2. CASE y \notin S
      <4>1. y \in gray /\ y \in Objects
        BY <1>0, <1>1, <2>2, <2>4, <3>2
      <4> QED BY <1>0, <1>1, <2>2, <3>2, <4>1 DEF Whole
    <3> QED BY <3>1, <3>2
  <2>6. Remarked(n)
    <3>1. \A y \in Objects : color[y] # "dead"
      BY <1>4, ClosedLemma
    <3>2. OpenUpvals \subseteq live
      BY DEF OpenUpvals, OpenOf
    <3> QED BY <1>0, <1>4, <2>3, <2>4, <2>5, <3>1, <3>2 DEF Remarked
  <2> QED BY <1>4, <2>2, <2>4, <2>6 DEF n, m
<1> QED BY <1>2, <1>3, <1>4

LEMMA SetEnvStep ==
  ASSUME IInv, NEW u \in Udata, NEW t \in Tables, SetEnv(u, t)
  PROVE  IInv'
<1> DEFINE m == Barrier(marks, u, t)
<1>0. /\ TypesOK /\ Unborn /\ Whole /\ PhaseOK /\ live \subseteq Objects
      /\ Tables \in SUBSET Objects /\ Udata \in SUBSET Objects
  BY LiveObjects, Sorts DEF IInv
<1>1. /\ UNCHANGED <<pool, cycle>> /\ SetMarks(m)
      /\ env' = [env EXCEPT ![u] = t]
      /\ UNCHANGED <<live, running, stack, entry, mode, captures, location,
                     closedval>>
      /\ u \in Usable(Udata) /\ t \in Usable(Tables)
  BY DEF SetEnv, ScriptRuns
<1>2. t \in live /\ color[t] # "dead" /\ Safe(t) /\ u \in live
  BY <1>0, <1>1, UsableLemma
<1>3. /\ m \in Marks /\ Remarked(m)
      /\ gcstate = "propagate" /\ m.color[u] = "black" => t \notin WhiteIn(m)
      /\ \A y \in Objects \ live : m.color[y] = "white"
  BY <1>2, BarrierLemma
<1> HIDE DEF m
<1>4. marks' = m /\ color' = m.color
  BY <1>1, <1>3, SetMarksLemma
<1>5. TypesOK'
  <2>1. env' \in [Udata -> Ref]
    BY <1>0, <1>1 DEF TypesOK, Ref
  <2> QED BY <1>0, <1>1, <1>3, <1>4, <2>1 DEF TypesOK, cycle
<1>6. Unborn'
  BY <1>0, <1>1, <1>2, <1>3, <1>4 DEF Unborn, TypesOK
<1>7. Refs(u)' = {t} \ {Nil}
  <2>1. env'[u] = t
    BY <1>0, <1>1 DEF TypesOK
  <2> QED BY <2>1, RefsPrimed
<1>8. \A x \in live \ {u} : Refs(x)' = Refs(x)
  <2> TAKE x \in live \ {u}
  <2>1. ValueOf(x)' = ValueOf(x)
    BY <1>1, SameValue
  <2>2. x \in Udata => env'[x] = env[x]
    BY <1>0, <1>1 DEF TypesOK
  <2> QED BY <1>0, <1>1, <2>1, <2>2, SameRefsOf
<1>9. u \notin Threads \cup OpenUpvals
  BY Sorts DEF OpenUpvals, OpenOf
<1>10. /\ running' \in live /\ color[running'] # "dead"
       /\ UNCHANGED <<pool, live, cycle, captures, location>>
  BY <1>1, RunningOK
<1> QED BY <1>1, <1>2, <1>3, <1>5, <1>6, <1>7, <1>8, <1>9, <1>10, WriteStep

(* An upvalue that is open is not black, and needs no barrier.             *)
LEMMA SetUpvalStep ==
  ASSUME IInv, NEW c \in Closures, NEW x \in Here, SetUpval(c, x)
  PROVE  IInv'
<1>0. /\ TypesOK /\ Unborn /\ Whole /\ PhaseOK /\ Linked /\ live \subseteq Objects
  BY LiveObjects DEF IInv
<1>v. PICK v \in Upvals : v = captures[c]
  BY UpvalLemma DEF SetUpval
<1> DEFINE m == Barrier(marks, v, x)
<1>1. /\ UNCHANGED <<pool, cycle>> /\ SetMarks(m) /\ c \in Usable(Closures)
      /\ IF Open(v)
         THEN Put(location[v], x) /\ UNCHANGED closedval
         ELSE closedval' = [closedval EXCEPT ![v] = x] /\ UNCHANGED stack
      /\ UNCHANGED <<live, running, entry, mode, env, captures, location>>
  BY <1>v DEF SetUpval, ScriptRuns
<1>2. v \in Upvals /\ v \in live /\ Safe(x) /\ x \in Ref
  BY <1>1, <1>v, UpvalLemma, HereLemma
<1>3. CASE Open(v)
  <2>1. v \in OpenUpvals /\ location[v] \in Threads /\ location[v] \in live
    <3>1. location[v] # Nil
      BY <1>3 DEF Open
    <3> QED BY <1>0, <1>2, <3>1, OpenNow DEF Linked
  <2>2. m = marks
    BY <1>0, <2>1, SameMarks DEF Barrier, PhaseOK
  <2>3. UNCHANGED <<color, lists>>
    BY <1>1, <2>2, SameMarks, SetMarksLemma DEF lists
  <2>4. UNCHANGED content
    BY <1>1, <1>3 DEF content
  <2> QED BY <1>1, <1>2, <1>3, <2>1, <2>3, <2>4, StackStep
<1>4. CASE ~Open(v)
  <2>1. location[v] = Nil /\ v \notin OpenUpvals
    BY <1>0, <1>4, OpenNow DEF Open
  <2>2. /\ m \in Marks /\ Remarked(m)
        /\ gcstate = "propagate" /\ m.color[v] = "black" => x \notin WhiteIn(m)
        /\ \A y \in Objects \ live : m.color[y] = "white"
    <3>1. CASE x = Nil
      <4>1. WhiteIn(marks) \subseteq Objects /\ x \notin Objects
        BY <1>0, <3>1, WhiteObjects, Sorts
      <4>2. m = marks
        BY <4>1 DEF Barrier
      <4>3. marks \in Marks /\ Remarked(marks) /\ marks.color = color
        BY SameMarks, RemarkedSame
      <4> QED BY <1>0, <4>1, <4>2, <4>3 DEF Unborn
    <3>2. CASE x # Nil
      <4>1. x \in live /\ color[x] # "dead"
        BY <1>2, <3>2 DEF Safe
      <4> QED BY <1>2, <4>1, BarrierLemma
    <3> QED BY <3>1, <3>2
  <2> HIDE DEF m
  <2>3. marks' = m /\ color' = m.color
    BY <1>1, <2>2, SetMarksLemma
  <2>4. closedval' = [closedval EXCEPT ![v] = x] /\ stack' = stack
    BY <1>1, <1>4
  <2>5. TypesOK'
    <3>1. closedval' \in [Upvals -> Ref]
      BY <1>0, <1>2, <2>4 DEF TypesOK
    <3> QED BY <1>0, <1>1, <2>2, <2>3, <2>4, <3>1 DEF TypesOK, cycle
  <2>6. Unborn'
    BY <1>0, <1>1, <1>2, <2>2, <2>3, <2>4 DEF Unborn, TypesOK
  <2>7. Refs(v)' = {x} \ {Nil}
    <3>1. closedval'[v] = x /\ location'[v] = Nil
      BY <1>0, <1>1, <1>2, <2>1, <2>4 DEF TypesOK
    <3>2. ValueOf(v)' = x
      BY <3>1 DEF ValueOf, Open
    <3> QED BY <1>2, <3>2, RefsPrimed
  <2>8. \A y \in live \ {v} : Refs(y)' = Refs(y)
    <3> TAKE y \in live \ {v}
    <3>1. ASSUME y \in Upvals PROVE ValueOf(y)' = ValueOf(y)
      <4>1. closedval'[y] = closedval[y]
        BY <1>0, <2>4, <3>1 DEF TypesOK
      <4> QED BY <1>1, <2>4, <4>1, SameValue
    <3> QED BY <1>0, <1>1, <2>4, <3>1, SameRefsOf
  <2>9. v \notin Threads \cup OpenUpvals
    BY <1>2, <2>1, Sorts
  <2>10. /\ running' \in live /\ color[running'] # "dead"
         /\ UNCHANGED <<pool, live, cycle, captures, location>>
    BY <1>1, RunningOK
  <2> QED BY <1>1, <1>2, <2>2, <2>5, <2>6, <2>7, <2>8, <2>9, <2>10, WriteStep
<1> QED BY <1>3, <1>4

(* luaF_findupval(): an upvalue that was to be freed is white again.       *)
LEMMA FoundLemma ==
  ASSUME IInv, NEW v \in Upvals
  PROVE  /\ Found(v) \in Marks /\ Found(v).gray = gray
         /\ Found(v).again = grayagain /\ Found(v).weak = weak
         /\ \A o \in Objects : Found(v).color[o] =
              IF o = v /\ color[v] = "dead" THEN "white" ELSE color[o]
         /\ gcstate = "propagate" => Found(v) = marks
<1>1. /\ marks \in Marks /\ marks.color = color /\ marks.gray = gray
      /\ marks.again = grayagain /\ marks.weak = weak
  BY SameMarks
<1>2. CASE color[v] = "dead"
  <2>1. Found(v) = Paint(marks, {v}, "white")
    BY <1>2 DEF Found
  <2>2. v \in Objects /\ "white" \in Colors
    BY Sorts DEF Colors
  <2>3. gcstate # "propagate"
    BY <1>2, <2>2, ClosedLemma
  <2> QED BY <1>1, <1>2, <2>1, <2>2, <2>3, PaintLemma
<1>3. CASE color[v] # "dead"
  <2>1. Found(v) = marks
    BY <1>3 DEF Found
  <2> QED BY <1>1, <1>3, <2>1
<1> QED BY <1>2, <1>3

LEMMA ClosureStep ==
  ASSUME IInv, NEW c \in pool, NEW v \in pool, Closure(c, v)
  PROVE  IInv'
<1> DEFINE f == Found(v)
           m == BarrierT(f, Registry, {c})
           C == {c, v, Registry}
<1>0. /\ TypesOK /\ Unborn /\ Whole /\ PhaseOK /\ Linked /\ live \subseteq Objects
      /\ Registry \in Tables /\ Registry \in Objects /\ Registry \in live
  BY LiveObjects, Sorts DEF IInv, TypesOK, Roots
<1>1. /\ c \in Closures /\ c \notin live /\ v \in Upvals
      /\ v \in live => location[v] = running
      /\ live' = live \cup {c, v}
      /\ captures' = [captures EXCEPT ![c] = v]
      /\ location' = [location EXCEPT ![v] = running]
      /\ SetMarks(m)
      /\ entry' = [entry EXCEPT ![Registry] = [key |-> Nil, val |-> c]]
      /\ UNCHANGED <<running, stack, mode, env, closedval, pool, cycle>>
  BY DEF Closure, ScriptRuns
<1>2. /\ gcstate' = gcstate /\ unswept' = unswept /\ udlist' = udlist
      /\ tmudata' = tmudata /\ finalized' = finalized /\ full' = full
      /\ Waiting' = Waiting
  BY <1>1 DEF cycle, Waiting
<1>3. /\ f \in Marks /\ f.gray = gray /\ f.again = grayagain /\ f.weak = weak
      /\ \A o \in Objects : f.color[o] =
           IF o = v /\ color[v] = "dead" THEN "white" ELSE color[o]
      /\ gcstate = "propagate" => f = marks
  BY <1>1, FoundLemma
<1>4. /\ m \in Marks /\ m.gray = f.gray /\ m.weak = f.weak
      /\ m.again = f.again \/ m.again = f.again \cup {Registry}
      /\ \A o \in Objects \ {Registry} : m.color[o] = f.color[o]
      /\ \/ m.again = f.again /\ m.color[Registry] = f.color[Registry]
         \/ /\ m.color[Registry] = "gray" /\ f.color[Registry] = "black"
            /\ Registry \in m.again
      /\ m.color[Registry] = "black" => {c} \cap WhiteIn(f) = {}
      /\ WhiteIn(m) = WhiteIn(f)
  BY <1>0, <1>3, BarrierTLemma
<1>5. gcstate = "propagate" => Incremental(m, Waiting)
  <2>1. Remarked(BarrierT(marks, Registry, {c}))
    BY <1>0, BarrierTRemarked DEF Whole, Roots
  <2> QED BY <1>3, <2>1 DEF Remarked
<1> HIDE DEF f, m, C
<1>6. marks' = m /\ color' = m.color
  BY <1>1, <1>4, SetMarksLemma
<1>7. c \in Objects /\ v \in Objects /\ c # v /\ c # Registry /\ v # Registry
      /\ c # Nil /\ v # Nil /\ Registry # Nil
  BY <1>0, <1>1, Sorts
<1>8. color[c] = "white" /\ m.color[c] = "white" /\ c \in WhiteIn(f)
  <2>1. color[c] = "white"
    BY <1>0, <1>1, <1>7 DEF Unborn
  <2> QED BY <1>3, <1>4, <1>7, <2>1 DEF WhiteIn
<1>9. /\ running \in Threads /\ running \in live /\ color[running] # "dead"
      /\ running \in Objects /\ running # v /\ running # Registry /\ running # Nil
  BY <1>0, <1>1, RunningOK, Sorts
<1>10. m.color[v] # "dead" /\ m.color[v] # "black" /\ m.color[Registry] # "black"
  <2>1. color[v] # "black"
    <3>1. CASE v \in live
      <4>1. v \in OpenUpvals
        BY <1>0, <1>1, <1>9, <3>1, OpenNow
      <4> QED BY <1>0, <4>1 DEF PhaseOK
    <3>2. CASE v \notin live
      BY <1>0, <1>7, <3>2 DEF Unborn
    <3> QED BY <3>1, <3>2
  <2> QED BY <1>3, <1>4, <1>7, <1>8, <2>1
<1>11. TypesOK'
  <2>1. entry' \in [Tables -> [key : Ref, val : Ref]]
    BY <1>0, <1>1, <1>7, NilSafe DEF TypesOK, Ref
  <2>2. captures' \in [Closures -> Upvals \cup {Nil}]
        /\ location' \in [Upvals -> Threads \cup {Nil}]
    BY <1>0, <1>1, <1>9 DEF TypesOK
  <2>3. live' \subseteq pool \cup Roots /\ Roots \subseteq live' /\ unswept \subseteq live'
    BY <1>0, <1>1 DEF TypesOK
  <2> QED BY <1>0, <1>1, <1>2, <1>4, <1>6, <2>1, <2>2, <2>3 DEF TypesOK
<1>12. \A o \in Objects \ live' : o \notin live /\ o # c /\ o # v /\ o # Registry
  BY <1>0, <1>1
<1>13. Unborn'
  <2>1. \A o \in Objects \ live' : color'[o] = "white"
    BY <1>0, <1>3, <1>4, <1>6, <1>12 DEF Unborn
  <2> QED BY <1>0, <1>1, <1>12, <2>1 DEF Unborn, TypesOK
<1>14. \A u \in Upvals : location'[u] = IF u = v THEN running ELSE location[u]
  BY <1>0, <1>1 DEF TypesOK
<1>15. /\ \A u \in OpenUpvals' : u \in Upvals /\ (u = v \/ u \in OpenUpvals)
       /\ v \in OpenUpvals' /\ OpenUpvals \subseteq OpenUpvals'
  <2>1. \A u : u \in OpenUpvals' <=> u \in Upvals /\ u \in live' /\ location'[u] # Nil
    BY <1>11, OpenNext
  <2>2. \A u : u \in OpenUpvals <=> u \in Upvals /\ u \in live /\ location[u] # Nil
    BY <1>0, OpenNow
  <2> QED BY <1>1, <1>7, <1>9, <1>14, <2>1, <2>2, Sorts
<1>16. Linked'
  <2>1. Udata \cap live' = Udata \cap live
    BY <1>1, Sorts
  <2>2. \A u \in OpenUpvals' : location'[u] \in live'
    BY <1>0, <1>1, <1>9, <1>14, <1>15 DEF Linked
  <2>3. \A d \in Closures \cap live' : captures'[d] \in Upvals
    BY <1>0, <1>1, <1>7, Sorts DEF Linked, TypesOK
  <2> QED BY <1>0, <1>1, <1>2, <2>1, <2>2, <2>3 DEF Linked
<1>17. \A o \in live' \ C : o \in live /\ Refs(o)' = Refs(o)
  <2> TAKE o \in live' \ C
  <2>0. o \in live /\ o # c /\ o # v /\ o # Registry
    BY <1>1 DEF C
  <2>1. ASSUME o \in Upvals PROVE ValueOf(o)' = ValueOf(o)
    <3>1. location'[o] = location[o]
      BY <1>14, <2>0, <2>1
    <3> QED BY <1>1, <3>1, SameValue
  <2>2. (o \in Closures => captures'[o] = captures[o])
        /\ (o \in Tables => entry'[o] = entry[o])
    BY <1>0, <1>1, <2>0 DEF TypesOK
  <2> QED BY <1>0, <1>1, <2>0, <2>1, <2>2, SameRefsOf
<1>18. /\ Refs(c)' = {v, Registry} \ {Nil} /\ Refs(Registry)' = {c} \ {Nil}
       /\ Refs(v)' = {stack[running]} \ {Nil}
  <2>1. captures'[c] = v
    BY <1>0, <1>1 DEF TypesOK
  <2>2. Refs(c)' = {v, Registry} \ {Nil}
    BY <1>1, <2>1, RefsPrimed
  <2>3. entry'[Registry] = [key |-> Nil, val |-> c]
    BY <1>0, <1>1 DEF TypesOK
  <2>4. Refs(Registry)' = {entry'[Registry].key, entry'[Registry].val} \ {Nil}
    BY <1>0, RefsPrimed
  <2>5. ValueOf(v)' = stack[running]
    BY <1>1, <1>9, <1>14 DEF ValueOf, Open
  <2>6. Refs(v)' = {stack[running]} \ {Nil}
    BY <1>1, <2>5, RefsPrimed
  <2> QED BY <2>2, <2>3, <2>4, <2>6
<1>19. \A o \in Objects : m.color[o] = "dead" => color[o] = "dead"
  BY <1>3, <1>4
<1>20. Safe(stack[running])
  BY HereLemma DEF Here
<1>21. Changes(m, C)
  <2>1. \A o \in C : \A x \in Refs(o)' : x \in live' /\ m.color[x] # "dead"
    <3>1. \A x \in {v, Registry, c} : x \in live' /\ m.color[x] # "dead"
      BY <1>0, <1>1, <1>8, <1>10, <1>19 DEF Whole, Roots
    <3>2. \A x \in {stack[running]} \ {Nil} : x \in live' /\ m.color[x] # "dead"
      BY <1>0, <1>1, <1>19, <1>20 DEF Safe
    <3>3. \A o \in C : o = c \/ o = v \/ o = Registry
      BY DEF C
    <3> QED BY <1>18, <3>1, <3>2, <3>3
  <2>2. \A o \in live \ C : m.color[o] # "dead" => color[o] # "dead"
    BY <1>0, <1>3, <1>4 DEF C
  <2>3. running' \in live' /\ m.color[running'] # "dead"
    BY <1>1, <1>9, <1>19
  <2> QED BY <1>1, <1>2, <1>17, <1>19, <2>1, <2>2, <2>3 DEF Changes
<1>22. Keeps(m)
  <2>1. m.gray \cup m.again \cup m.weak \subseteq Queued \cap live'
    BY <1>0, <1>1, <1>3, <1>4, Sorts DEF Whole
  <2>2. \A o \in gray \cup grayagain \cup weak \cup {Registry} :
          o \in Objects /\ color[o] # "dead"
    BY <1>0 DEF Whole, Roots
  <2>3. \A o \in m.gray \cup m.again \cup m.weak : m.color[o] # "dead"
    BY <1>3, <1>4, <1>19, <2>2
  <2>4. \A o \in m.gray : m.color[o] = "gray"
    <3>1. \A o \in gray : color[o] = "gray" /\ o \in Objects
      BY <1>0, <2>2 DEF Whole
    <3> QED BY <1>3, <1>4, <3>1
  <2>5. \A u \in OpenUpvals' : m.color[u] # "black"
    <3>1. \A u \in OpenUpvals : color[u] # "black" /\ u \in Objects /\ u # Registry
      BY <1>0, Sorts DEF PhaseOK, OpenUpvals, OpenOf
    <3> QED BY <1>3, <1>4, <1>10, <1>15, <3>1
  <2>6. \A u \in OpenUpvals' \cap unswept' : location'[u] \in unswept'
    <3> TAKE u \in OpenUpvals' \cap unswept'
    <3>1. u \in live /\ u \in Upvals
      BY <1>0, <1>2, <1>15 DEF TypesOK
    <3>2. u \in OpenUpvals /\ location'[u] = location[u]
      BY <1>0, <1>1, <1>14, <1>9, <1>15, <3>1, OpenNow
    <3> QED BY <1>0, <1>2, <3>2 DEF PhaseOK
  <2>7. ASSUME gcstate # "propagate"
        PROVE  /\ m.gray = {}
               /\ \A o \in live' \ (unswept' \cup Waiting') : m.color[o] = "white"
    <3>1. \A o \in live' \ (unswept \cup Waiting) : color[o] = "white" /\ o \in Objects
      BY <1>0, <1>1, <1>7, <2>7 DEF PhaseOK, Unborn
    <3>2. \A o \in live' \ (unswept \cup Waiting) : m.color[o] = "white"
      <4> TAKE o \in live' \ (unswept \cup Waiting)
      <4>1. f.color[o] = "white"
        BY <1>3, <3>1
      <4> QED BY <1>4, <3>1, <4>1
    <3> QED BY <1>0, <1>2, <1>3, <1>4, <2>7, <3>2 DEF PhaseOK
  <2> QED BY <1>2, <2>1, <2>3, <2>4, <2>5, <2>6, <2>7 DEF Keeps
<1>23. gcstate = "propagate" => MarksOn(m, m, C)
  <2> SUFFICES ASSUME gcstate = "propagate" PROVE MarksOn(m, m, C)
    OBVIOUS
  <2>1. Incremental(m, Waiting)
    BY <1>5
  <2>2. \A o \in C : m.color[o] # "black"
    BY <1>8, <1>10 DEF C
  <2>3. \A o \in C \ Waiting : m.color[o] = "gray" =>
          o \in m.gray \cup m.again \cup m.weak \cup Strings \cup OpenUpvals'
    <3>1. (Registry \notin Waiting /\ m.color[Registry] = "gray") =>
            Registry \in m.gray \cup m.again \cup m.weak
      <4>1. Registry \notin Strings \cup OpenUpvals
        BY <1>0, Sorts DEF OpenUpvals, OpenOf
      <4> QED BY <1>0, <2>1, <4>1 DEF Incremental
    <3> QED BY <1>8, <1>15, <3>1 DEF C
  <2> QED BY <1>2, <1>15, <2>1, <2>2, <2>3 DEF MarksOn
<1> QED BY <1>4, <1>11, <1>13, <1>16, <1>21, <1>22, <1>23, ChangeStep

(* A userdata that becomes an ordinary one, the newest of the list.        *)
LEMMA NewestLemma ==
  ASSUME NEW u \in Udata, NEW s \in Seq(Udata)
  PROVE  <<u>> \o s \in Seq(Udata) /\ ToSet(<<u>> \o s) = {u} \cup ToSet(s)
<1> DEFINE a == <<u>>
<1>1. a \in Seq(Udata) /\ ToSet(a) = {u}
  BY DEF ToSet
<1> HIDE DEF a
<1>2. a \o s \in Seq(Udata) /\ ToSet(a \o s) = ToSet(a) \cup ToSet(s)
  BY <1>1, ConcatSet
<1> QED BY <1>1, <1>2 DEF a

LEMMA CreateStep ==
  ASSUME IInv, NEW o \in pool, Create(o)
  PROVE  IInv'
<1> DEFINE m == [marks EXCEPT !.color =
                   [color EXCEPT ![o] = IF @ = "dead" THEN "white" ELSE @]]
           C == {o, running} \cup OpenOf(running)
<1>0. /\ TypesOK /\ Unborn /\ Whole /\ PhaseOK /\ Linked /\ live \subseteq Objects
      /\ Registry \in Tables /\ Registry \in Objects /\ Registry \in live
  BY LiveObjects, Sorts DEF IInv, TypesOK, Roots
<1>1. /\ o \notin Closures \cup Upvals /\ (o \in Strings \/ o \notin live)
      /\ live' = live \cup {o}
      /\ color' = [color EXCEPT ![o] = IF @ = "dead" THEN "white" ELSE @]
      /\ udlist' = IF o \in Udata THEN <<o>> \o udlist ELSE udlist
      /\ stack' = [stack EXCEPT ![running] = o]
      /\ pool' = pool /\ gray' = gray /\ grayagain' = grayagain /\ weak' = weak
      /\ gcstate' = gcstate /\ unswept' = unswept /\ tmudata' = tmudata
      /\ finalized' = finalized /\ full' = full /\ running' = running
      /\ entry' = entry /\ mode' = mode /\ env' = env /\ captures' = captures
      /\ location' = location /\ closedval' = closedval /\ Waiting' = Waiting
  BY DEF Create, Put, lists, content, Waiting
<1>2. o \in Objects /\ o # Nil
  BY <1>0, HeapAssumption, Sorts DEF TypesOK
<1>3. /\ marks \in Marks /\ marks.color = color /\ marks.gray = gray
      /\ marks.again = grayagain /\ marks.weak = weak
      /\ gcstate = "propagate" => Incremental(marks, Waiting)
  BY SameMarks
<1>4. /\ m \in Marks /\ m.color = color' /\ m.gray = gray
      /\ m.again = grayagain /\ m.weak = weak
  BY <1>1, <1>2, <1>3 DEF Marks, Colors
<1>5. \A x \in Objects : m.color[x] = IF x = o /\ color[o] = "dead"
                                      THEN "white" ELSE color[x]
  BY <1>0, <1>1, <1>2, <1>4 DEF TypesOK, marks, Marks
<1>6. SetMarks(m)
  BY <1>1, <1>4 DEF SetMarks
<1>7. gcstate = "propagate" => m = marks
  <2> SUFFICES ASSUME gcstate = "propagate" PROVE m = marks
    OBVIOUS
  <2>1. \A x \in Objects : color[x] # "dead"
    BY ClosedLemma
  <2>2. color \in [Objects -> Colors]
    BY <1>3 DEF Marks
  <2>3. [color EXCEPT ![o] = IF @ = "dead" THEN "white" ELSE @] = color
    BY <1>2, <2>1, <2>2
  <2> QED BY <1>3, <2>3 DEF marks
<1> HIDE DEF m
<1>8. /\ running \in Threads /\ running \in live /\ color[running] # "dead"
      /\ running \in Objects /\ running # Nil
  BY <1>0, RunningOK, Sorts
<1>9. o # running
  BY <1>1, <1>8, Sorts
<1>10. o \notin live => color[o] = "white" /\ m.color[o] = "white"
  BY <1>0, <1>2, <1>5 DEF Unborn
<1>11. m.color[o] # "dead"
  BY <1>2, <1>5
<1>12. TypesOK'
  <2>1. udlist' \in Seq(Udata)
    BY <1>0, <1>1, NewestLemma DEF TypesOK
  <2>2. stack' \in [Threads -> Ref]
    BY <1>0, <1>1, <1>2 DEF TypesOK, Ref
  <2>3. live' \subseteq pool \cup Roots /\ Roots \subseteq live' /\ unswept \subseteq live'
    BY <1>0, <1>1 DEF TypesOK
  <2>4. marks' \in Marks
    BY <1>4, <1>6, SetMarksLemma
  <2> QED BY <1>0, <1>1, <2>1, <2>2, <2>3, <2>4 DEF TypesOK
<1>13. Unborn'
  <2>1. \A x \in Objects \ live' : x \in Objects \ live /\ x # o /\ x # running
    BY <1>1, <1>8
  <2>2. \A x \in Objects \ live' : color'[x] = "white"
    BY <1>0, <1>4, <1>5, <2>1 DEF Unborn
  <2>3. \A x \in Objects \ live' : x \in Threads => stack'[x] = Nil
    BY <1>0, <1>1, <2>1 DEF Unborn, TypesOK
  <2> QED BY <1>0, <1>1, <2>1, <2>2, <2>3 DEF Unborn
<1>14. OpenUpvals' = OpenUpvals
  <2>1. \A v : v \in OpenUpvals' <=> v \in Upvals /\ v \in live' /\ location'[v] # Nil
    BY <1>12, OpenNext
  <2>2. \A v : v \in OpenUpvals <=> v \in Upvals /\ v \in live /\ location[v] # Nil
    BY <1>0, OpenNow
  <2> QED BY <1>1, <2>1, <2>2
<1>15. Linked'
  <2>1. ToSet(udlist') \cup Waiting' = Udata \cap live'
    <3>1. CASE o \in Udata
      <4>1. ToSet(udlist') = {o} \cup ToSet(udlist)
        BY <1>0, <1>1, <3>1, NewestLemma DEF TypesOK
      <4> QED BY <1>0, <1>1, <3>1, <4>1 DEF Linked
    <3>2. CASE o \notin Udata
      BY <1>0, <1>1, <3>2 DEF Linked
    <3> QED BY <3>1, <3>2
  <2>2. \A v \in OpenUpvals' : location'[v] \in live'
    BY <1>0, <1>1, <1>14 DEF Linked
  <2>3. \A c \in Closures \cap live' : captures'[c] \in Upvals
    BY <1>0, <1>1 DEF Linked
  <2> QED BY <1>0, <1>1, <2>1, <2>2, <2>3 DEF Linked
<1>16. \A x \in live' \ C : x \in live /\ Refs(x)' = Refs(x)
  <2> TAKE x \in live' \ C
  <2>0. x \in live /\ x # o /\ x # running /\ x \notin OpenOf(running)
    BY <1>1
  <2>1. x \in Threads => stack'[x] = stack[x]
    BY <1>0, <1>1, <2>0 DEF TypesOK
  <2>2. ASSUME x \in Upvals PROVE ValueOf(x)' = ValueOf(x)
    <3>1. location[x] # Nil => location[x] \in Threads /\ location[x] # running
      BY <1>0, <1>8, <2>0, <2>2, OpenNow
    <3>2. location[x] # Nil => stack'[location[x]] = stack[location[x]]
      BY <1>0, <1>1, <3>1 DEF TypesOK
    <3> QED BY <1>1, <3>2, SameValue
  <2> QED BY <1>0, <1>1, <2>0, <2>1, <2>2, SameRefsOf
<1>17. \A x \in C : Refs(x)' \subseteq {o, Registry} \ {Nil}
  <2>1. ASSUME NEW x, x = running PROVE Refs(x)' \subseteq {o, Registry} \ {Nil}
    <3>1. x \in Threads /\ stack'[x] = o
      BY <1>0, <1>1, <1>8, <2>1 DEF TypesOK
    <3> QED BY <3>1, RefsPrimed
  <2>2. ASSUME NEW x \in OpenOf(running) PROVE Refs(x)' \subseteq {o, Registry} \ {Nil}
    <3>1. x \in Upvals /\ location[x] = running
      BY <1>0, <1>8, OpenNow
    <3>2. stack'[location'[x]] = o /\ location'[x] # Nil
      BY <1>0, <1>1, <1>8, <3>1 DEF TypesOK
    <3>3. ValueOf(x)' = o
      BY <3>2 DEF ValueOf, Open
    <3> QED BY <3>1, <3>3, RefsPrimed
  <2>3. Refs(o)' \subseteq {o, Registry} \ {Nil}
    <3>1. CASE o \in Tables
      <4>1. entry'[o] = Empty
        BY <1>0, <1>1, <1>2, <3>1, Sorts DEF Unborn
      <4> QED BY <3>1, <4>1, RefsPrimed DEF Empty
    <3>2. CASE o \in Threads
      <4>1. stack'[o] = Nil
        BY <1>0, <1>1, <1>2, <1>9, <3>2, Sorts DEF Unborn, TypesOK
      <4> QED BY <3>2, <4>1, RefsPrimed
    <3>3. CASE o \in Udata
      <4>1. env'[o] = Registry
        BY <1>0, <1>1, <1>2, <3>3, Sorts DEF Unborn
      <4> QED BY <3>3, <4>1, RefsPrimed
    <3>4. CASE o \in Strings
      BY <3>4, RefsPrimed
    <3> QED BY <1>1, <1>2, <3>1, <3>2, <3>3, <3>4, Sorts
  <2> QED BY <2>1, <2>2, <2>3
<1>18. C \subseteq live' /\ \A x \in C : x = o \/ (x \in live /\ x \in Threads \cup OpenUpvals)
  BY <1>0, <1>1, <1>8 DEF OpenUpvals, OpenOf
<1> HIDE DEF C
<1>19. \A x \in Objects : m.color[x] = "dead" => color[x] = "dead"
  BY <1>5
<1>20. Changes(m, C)
  <2>1. \A x \in C : \A y \in Refs(x)' : y \in live' /\ m.color[y] # "dead"
    <3>1. \A y \in {o, Registry} : y \in live' /\ m.color[y] # "dead"
      BY <1>0, <1>1, <1>11, <1>19 DEF Whole, Roots
    <3> QED BY <1>17, <3>1
  <2>2. \A x \in live \ C : m.color[x] # "dead" => color[x] # "dead"
    BY <1>0, <1>5 DEF C
  <2>3. running' \in live' /\ m.color[running'] # "dead"
    BY <1>1, <1>8, <1>19
  <2> QED BY <1>1, <1>6, <1>16, <1>19, <2>1, <2>2, <2>3 DEF Changes
<1>21. Keeps(m)
  <2>1. \A x \in gray \cup grayagain \cup weak : x \in Objects /\ color[x] # "dead"
    BY <1>0 DEF Whole
  <2>2. \A x \in gray : m.color[x] = "gray"
    BY <1>0, <1>5, <2>1 DEF Whole
  <2>3. \A v \in OpenUpvals : m.color[v] # "black"
    BY <1>0, <1>5 DEF PhaseOK, OpenUpvals, OpenOf
  <2>4. ASSUME gcstate # "propagate"
        PROVE  \A x \in live' \ (unswept' \cup Waiting') : m.color[x] = "white"
    <3>1. \A x \in live \ (unswept \cup Waiting) : color[x] = "white"
      BY <1>0, <2>4 DEF PhaseOK
    <3> QED BY <1>0, <1>1, <1>5, <1>10, <3>1
  <2>5. \A v \in OpenUpvals' \cap unswept' : location'[v] \in unswept'
    BY <1>0, <1>1, <1>14 DEF PhaseOK
  <2> QED BY <1>0, <1>1, <1>4, <1>14, <1>19, <2>1, <2>2, <2>3, <2>4, <2>5
          DEF Keeps, Whole, PhaseOK
<1>22. gcstate = "propagate" => MarksOn(marks, m, C)
  <2> SUFFICES ASSUME gcstate = "propagate" PROVE MarksOn(marks, m, C)
    OBVIOUS
  <2>1. Incremental(marks, Waiting) /\ m = marks
    BY <1>3, <1>7
  <2>2. /\ \A x \in live : color[x] = "black" => x \notin Threads \cup OpenUpvals
        /\ \A x \in live \ Waiting : color[x] = "gray" =>
             x \in gray \cup grayagain \cup weak \cup Strings \cup OpenUpvals
    BY <1>3, <2>1 DEF Incremental
  <2>3. \A x \in C : color[x] = "black" => x \notin Threads /\ Refs(x)' = {}
    <3> SUFFICES ASSUME NEW x \in C, color[x] = "black"
                 PROVE x \notin Threads /\ Refs(x)' = {}
      OBVIOUS
    <3>1. x = o /\ o \in live
      BY <1>10, <1>18, <2>2
    <3>2. o \in Strings
      BY <1>1, <3>1
    <3> QED BY <3>1, <3>2, RefsPrimed, Sorts
  <2>4. \A x \in C \ Waiting : color[x] = "gray" =>
             x \in gray \cup grayagain \cup weak \cup Strings \cup OpenUpvals
    BY <1>10, <1>18, <2>2
  <2> QED BY <1>1, <1>3, <1>4, <1>14, <2>1, <2>3, <2>4 DEF MarksOn
<1> QED BY <1>3, <1>4, <1>12, <1>13, <1>15, <1>20, <1>21, <1>22, ChangeStep

LEMMA TailLemma ==
  ASSUME NEW T, NEW s \in Seq(T), s # <<>>
  PROVE  /\ Tail(s) \in Seq(T) /\ Head(s) \in T
         /\ ToSet(s) = {Head(s)} \cup ToSet(Tail(s))
<1>1. /\ Tail(s) \in Seq(T) /\ Head(s) \in T /\ Head(s) = s[1]
      /\ Len(s) \in Nat \ {0} /\ Len(Tail(s)) = Len(s) - 1
      /\ \A i \in 1..Len(Tail(s)) : Tail(s)[i] = s[i+1]
      /\ DOMAIN s = 1..Len(s)
      /\ DOMAIN Tail(s) = 1..Len(Tail(s))
  OBVIOUS
<1>2. ToSet(s) = {s[i] : i \in 1..Len(s)}
      /\ ToSet(Tail(s)) = {Tail(s)[i] : i \in 1..Len(Tail(s))}
  BY <1>1 DEF ToSet
<1>3. ASSUME NEW x \in ToSet(s) PROVE x \in {Head(s)} \cup ToSet(Tail(s))
  <2>1. PICK i \in 1..Len(s) : x = s[i]
    BY <1>2, <1>3
  <2>2. CASE i = 1
    BY <1>1, <2>1, <2>2
  <2>3. CASE i # 1
    <3>1. i - 1 \in 1..Len(Tail(s)) /\ (i - 1) + 1 = i
      BY <1>1, <2>1, <2>3
    <3>2. Tail(s)[i-1] = x
      BY <1>1, <2>1, <3>1
    <3> QED BY <1>2, <3>1, <3>2
  <2> QED BY <2>2, <2>3
<1>4. ASSUME NEW x \in {Head(s)} \cup ToSet(Tail(s)) PROVE x \in ToSet(s)
  <2>1. CASE x = Head(s)
    <3>1. 1 \in 1..Len(s)
      BY <1>1
    <3> QED BY <1>1, <1>2, <2>1, <3>1
  <2>2. CASE x \in ToSet(Tail(s))
    <3>1. PICK i \in 1..Len(Tail(s)) : x = Tail(s)[i]
      BY <1>2, <2>2
    <3>2. i + 1 \in 1..Len(s) /\ x = s[i+1]
      BY <1>1, <3>1
    <3> QED BY <1>2, <3>2
  <2> QED BY <1>4, <2>1, <2>2
<1> QED BY <1>1, <1>3, <1>4

(* GCTM(): outside a cycle the registry is white, and needs no barrier.    *)
LEMMA GCTMStep ==
  ASSUME IInv, GCTM, gcstate = "finalize",
         UNCHANGED <<gcstate, full, pool, live, unswept, finalized, running,
                     stack, content>>
  PROVE  IInv'
<1>0. /\ TypesOK /\ Unborn /\ Whole /\ PhaseOK /\ Linked /\ live \subseteq Objects
      /\ Registry \in Tables /\ Registry \in Objects /\ Registry \in live
  BY LiveObjects, Sorts DEF IInv, TypesOK, Roots
<1>1. PICK u \in Udata : u = Head(tmudata)
  BY <1>0, TailLemma DEF GCTM, TypesOK
<1> DEFINE m == Released(u)
           C == {Registry}
<1>2. /\ tmudata # <<>> /\ tmudata' = Tail(tmudata) /\ udlist' = <<u>> \o udlist
      /\ \/ SetMarks(m) /\ UNCHANGED entry
         \/ /\ SetMarks(BarrierT(m, Registry, {u}))
            /\ entry' = [entry EXCEPT ![Registry] = [key |-> Nil, val |-> u]]
  BY <1>1 DEF GCTM
<1>3. /\ Waiting' = ToSet(Tail(tmudata)) /\ Waiting = {u} \cup Waiting'
      /\ tmudata' \in Seq(Udata)
  BY <1>0, <1>1, <1>2, TailLemma DEF TypesOK, Waiting
<1>4. /\ u \in live /\ u \in Objects /\ u # Registry /\ u # Nil
      /\ Waiting \subseteq Udata \cap live
  BY <1>0, <1>3, WaitingLemma, Sorts
<1>5. /\ marks \in Marks /\ marks.color = color /\ marks.gray = gray
      /\ marks.again = grayagain /\ marks.weak = weak
  BY SameMarks
<1>6. /\ m \in Marks /\ m.gray = gray /\ m.again = grayagain /\ m.weak = weak
      /\ \A o \in Objects : m.color[o] = IF o = u THEN "white" ELSE color[o]
  <2>1. "white" \in Colors
    BY DEF Colors
  <2> QED BY <1>5, <2>1, PaintLemma DEF Released
<1> HIDE DEF m
<1>7. /\ gray = {} /\ unswept = {} /\ (\A o \in Objects : color[o] # "dead")
      /\ \A o \in live \ Waiting : color[o] = "white"
  BY Unmarked
<1>8. m.color[Registry] = "white"
  BY <1>0, <1>4, <1>6, <1>7, Sorts
<1>9. SetMarks(m)
  BY <1>2, <1>8 DEF BarrierT
<1>10. marks' = m /\ color' = m.color
  BY <1>6, <1>9, SetMarksLemma
<1>11. /\ stack' = stack /\ mode' = mode /\ env' = env /\ captures' = captures
       /\ location' = location /\ closedval' = closedval /\ live' = live
       /\ OpenUpvals' = OpenUpvals
  BY DEF content, OpenUpvals, OpenOf, Open
<1>12. /\ \A t \in Tables : t # Registry => entry'[t] = entry[t]
       /\ {entry'[Registry].key, entry'[Registry].val} \subseteq
            {entry[Registry].key, entry[Registry].val, u, Nil}
       /\ entry' \in [Tables -> [key : Ref, val : Ref]]
  <2>1. CASE entry' = entry
    BY <1>0, <2>1 DEF TypesOK
  <2>2. CASE entry' = [entry EXCEPT ![Registry] = [key |-> Nil, val |-> u]]
    BY <1>0, <1>4, <2>2, NilSafe DEF TypesOK, Ref
  <2> QED BY <1>2, <2>1, <2>2
<1>13. udlist' \in Seq(Udata) /\ ToSet(udlist') = {u} \cup ToSet(udlist)
  BY <1>0, <1>2, NewestLemma DEF TypesOK
<1>14. TypesOK'
  BY <1>0, <1>3, <1>6, <1>10, <1>11, <1>12, <1>13 DEF TypesOK
<1>15. Unborn'
  BY <1>0, <1>6, <1>10, <1>11, <1>12 DEF Unborn
<1>16. Linked'
  BY <1>0, <1>3, <1>4, <1>11, <1>13 DEF Linked
<1>17. \A o \in live \ C : Refs(o)' = Refs(o)
  <2> TAKE o \in live \ C
  <2>1. ValueOf(o)' = ValueOf(o)
    BY <1>11, SameValue
  <2> QED BY <1>0, <1>11, <1>12, <2>1, SameRefsOf
<1>18. \A x \in Refs(Registry)' : x \in live /\ x \in Objects
  <2>1. Refs(Registry)' = {entry'[Registry].key, entry'[Registry].val} \ {Nil}
    BY <1>0, RefsPrimed
  <2>2. Refs(Registry) = {entry[Registry].key, entry[Registry].val} \ {Nil}
    BY <1>0, RefsNow
  <2>3. \A x \in Refs(Registry) : x \in live
    BY <1>0, <1>7 DEF Whole
  <2>4. Refs(Registry)' \subseteq Refs(Registry) \cup {u}
    BY <1>12, <2>1, <2>2
  <2> QED BY <1>0, <1>4, <2>3, <2>4
<1>19. \A o \in Objects : m.color[o] # "dead"
  BY <1>6, <1>7
<1>20. Changes(m, C)
  BY <1>0, <1>7, <1>9, <1>11, <1>17, <1>18, <1>19, RunningOK DEF Changes
<1>21. Keeps(m)
  <2>1. /\ \A v \in OpenUpvals : m.color[v] # "black"
        /\ grayagain \cup weak \subseteq Queued \cap live
    BY <1>0, <1>6 DEF PhaseOK, OpenUpvals, OpenOf, Whole
  <2>2. \A o \in live' \ (unswept' \cup Waiting') : m.color[o] = "white"
    BY <1>0, <1>3, <1>6, <1>7, <1>11
  <2> QED BY <1>0, <1>3, <1>6, <1>7, <1>11, <1>19, <2>1, <2>2 DEF Keeps
<1> QED BY <1>6, <1>14, <1>15, <1>16, <1>20, <1>21, ChangeStep

LEMMA FinalizeStep ==
  ASSUME IInv, Finalize
  PROVE  IInv'
<1>1. CASE GCTM /\ UNCHANGED <<gcstate, full>>
  BY <1>1, GCTMStep DEF Finalize
<1>2. CASE /\ tmudata = <<>> /\ gcstate' = "pause" /\ full' = "no"
           /\ UNCHANGED <<color, lists, udlist, tmudata, entry>>
  <2>1. gcstate = "finalize" /\ full' \in {"no", "sweep", "mark"}
        /\ UNCHANGED <<pool, live, unswept, finalized, running, stack, content>>
    BY <1>2 DEF Finalize
  <2> QED BY <1>2, <2>1, PhaseStep
<1> QED BY <1>1, <1>2 DEF Finalize

LEMMA CloseStep ==
  ASSUME IInv, NEW v \in Upvals, Close(v)
  PROVE  IInv'
<1> DEFINE m == LinkUpval(marks, v)
           x == ValueOf(v)
           C == {v}
<1>0. /\ TypesOK /\ Unborn /\ Whole /\ PhaseOK /\ Linked /\ live \subseteq Objects
  BY LiveObjects DEF IInv
<1>1. v \in OpenUpvals /\ v \in live /\ location[v] = running /\ v \in Objects
      /\ location[v] # Nil /\ v \notin Threads
  BY <1>0, RunningOK, OpenNow, Sorts DEF Close
<1>2. CASE color[v] = "dead"
  <2>1. v \in unswept /\ gcstate \in {"sweepstring", "sweep"}
    BY <1>0, <1>1, <1>2 DEF PhaseOK
  <2>2. /\ Sweep({v}) /\ gcstate' = gcstate
        /\ UNCHANGED <<pool, lists, tmudata, full, running>>
    BY <1>2 DEF Close
  <2>3. {v} \in SUBSET live /\ {v} \cap Threads = {}
    BY <1>1
  <2> QED BY <2>1, <2>2, <2>3, SweepLemma
<1>3. CASE color[v] # "dead"
  <2>1. /\ location' = [location EXCEPT ![v] = Nil]
        /\ closedval' = [closedval EXCEPT ![v] = x]
        /\ unswept' = unswept \ {v} /\ SetMarks(m)
        /\ live' = live /\ udlist' = udlist /\ finalized' = finalized
        /\ stack' = stack /\ entry' = entry /\ mode' = mode /\ env' = env
        /\ captures' = captures /\ pool' = pool /\ gcstate' = gcstate
        /\ tmudata' = tmudata /\ full' = full /\ running' = running
        /\ Waiting' = Waiting
    BY <1>3 DEF Close, Waiting
  <2>2. color[v] \in {"white", "gray"}
    BY <1>0, <1>1, <1>3 DEF PhaseOK, TypesOK, marks, Marks, Colors
  <2>3. PICK y \in Ref : y = x
    <3>1. x = stack[location[v]] /\ location[v] \in Threads
      BY <1>1, RunningOK DEF ValueOf, Open
    <3> QED BY <1>0, <3>1 DEF TypesOK
  <2> HIDE DEF x
  <2>4. Refs(v) = {y} \ {Nil} /\ Safe(y)
    <3>1. Refs(v) = {y} \ {Nil}
      BY <1>0, <2>3, RefsNow DEF x
    <3> QED BY <1>0, <1>1, <1>3, <3>1 DEF Whole, Safe
  <2>5. \A u \in Upvals : u # v => location'[u] = location[u] /\ closedval'[u] = closedval[u]
    BY <1>0, <2>1 DEF TypesOK
  <2>6. location'[v] = Nil /\ closedval'[v] = y
    BY <1>0, <2>1, <2>3 DEF TypesOK
  <2>7. Refs(v)' = {y} \ {Nil}
    <3>1. ValueOf(v)' = y
      BY <2>6 DEF ValueOf, Open
    <3> QED BY <3>1, RefsPrimed
  <2>8. \A o \in live \ {v} : Refs(o)' = Refs(o)
    <3> TAKE o \in live \ {v}
    <3>1. ASSUME o \in Upvals PROVE ValueOf(o)' = ValueOf(o)
      BY <2>1, <2>5, <3>1, SameValue
    <3> QED BY <1>0, <2>1, <3>1, SameRefsOf
  <2>9. /\ marks \in Marks /\ marks.color = color /\ marks.gray = gray
        /\ marks.again = grayagain /\ marks.weak = weak
        /\ gcstate = "propagate" => Incremental(marks, Waiting)
    BY SameMarks
  <2> DEFINE q == IF color[v] = "gray" /\ gcstate = "propagate"
                    /\ y \in WhiteIn(marks)
                  THEN Mark(marks, {y}) ELSE marks
  <2>10. /\ q \in Marks /\ (gcstate = "propagate" => Incremental(q, Waiting))
         /\ q.gray = gray \/ gcstate = "propagate"
         /\ \A o \in q.gray : q.color[o] = "gray"
         /\ gcstate # "propagate" => q = marks
         /\ q.color[v] = color[v]
         /\ color[v] = "gray" /\ gcstate = "propagate" => y \notin WhiteIn(q)
    <3>1. CASE ~(color[v] = "gray" /\ gcstate = "propagate" /\ y \in WhiteIn(marks))
      <4>1. q = marks
        BY <3>1
      <4> QED BY <1>0, <2>9, <3>1, <4>1 DEF Whole
    <3>2. CASE color[v] = "gray" /\ gcstate = "propagate" /\ y \in WhiteIn(marks)
      <4> DEFINE S == Fresh1(marks, {y})
      <4>1. q = Mark(marks, {y})
        BY <3>2
      <4> HIDE DEF q
      <4>2. /\ q \in Marks /\ q.gray = gray \cup (S \cap Queued)
            /\ {y} \cap WhiteIn(marks) \subseteq S /\ S \subseteq WhiteIn(marks)
            /\ WhiteIn(q) = WhiteIn(marks) \ S
            /\ \A o \in S \cap Queued : q.color[o] = "gray"
            /\ \A o \in Objects \ S : q.color[o] = color[o]
        BY <1>0, <2>9, <4>1, MarkLemma
      <4>3. y \in live
        <5>1. y \in Objects
          BY <1>0, <3>2, WhiteObjects
        <5> QED BY <2>4, <5>1, Sorts DEF Safe
      <4>4. Incremental(q, Waiting)
        <5>1. Closed /\ Incremental(marks, Waiting) /\ {y} \in SUBSET (live \cup {Nil})
          BY <2>9, <3>2, <4>3, ClosedLemma
        <5> QED BY <1>0, <2>9, <4>1, <5>1, MarkIncremental
      <4>5. v \notin S
        BY <2>9, <3>2, <4>2 DEF WhiteIn
      <4> HIDE DEF S
      <4>6. \A o \in q.gray : q.color[o] = "gray"
        <5>1. \A o \in gray : o \in Objects /\ color[o] = "gray"
          BY <1>0 DEF Whole
        <5>2. \A o \in gray : o \notin S
          BY <2>9, <4>2, <5>1 DEF WhiteIn
        <5> QED BY <4>2, <5>1, <5>2
      <4> QED BY <1>1, <3>2, <4>2, <4>4, <4>5, <4>6
    <3> QED BY <3>1, <3>2
  <2>11. /\ m \in Marks /\ m.gray = q.gray /\ m.again = q.again /\ m.weak = q.weak
         /\ \A o \in Objects \ {v} : m.color[o] = q.color[o]
         /\ color[v] = "white" => m.color[v] = "white"
         /\ color[v] = "gray" => m.color[v] = IF gcstate = "propagate"
                                              THEN "black" ELSE "white"
    <3>0. "white" \in Colors /\ "black" \in Colors
      BY DEF Colors
    <3>1. CASE color[v] = "white"
      <4>1. m = marks /\ q = marks
        BY <2>9, <3>1 DEF LinkUpval
      <4> QED BY <2>9, <3>1, <4>1
    <3>2. CASE color[v] = "gray" /\ gcstate # "propagate"
      <4>1. m = Paint(marks, {v}, "white") /\ q = marks
        BY <2>9, <3>2 DEF LinkUpval
      <4> HIDE DEF m, q
      <4> QED BY <1>1, <2>9, <3>0, <3>2, <4>1, PaintLemma
    <3>3. CASE color[v] = "gray" /\ gcstate = "propagate"
      <4> DEFINE p == Paint(marks, {v}, "black")
      <4>1. m = Barrier(p, v, y)
        BY <2>3, <2>9, <3>3 DEF LinkUpval, x
      <4>2. /\ p \in Marks /\ p.gray = gray /\ p.again = grayagain /\ p.weak = weak
            /\ \A o \in Objects : p.color[o] = IF o \in {v} THEN "black" ELSE color[o]
        BY <2>9, <3>0, PaintLemma
      <4> HIDE DEF p
      <4>3. WhiteIn(p) = WhiteIn(marks) /\ p.color[v] = "black" /\ v \notin WhiteIn(marks)
        <5>1. pool \cup Roots \subseteq Objects
          BY <1>0, HeapAssumption, Sorts DEF TypesOK
        <5> QED BY <1>1, <2>9, <3>3, <4>2, <5>1 DEF WhiteIn
      <4>4. CASE y \notin WhiteIn(marks)
        <5>1. m = p /\ q = marks
          BY <4>1, <4>3, <4>4 DEF Barrier
        <5> HIDE DEF m, q
        <5> QED BY <1>1, <2>9, <3>3, <4>2, <5>1
      <4>5. CASE y \in WhiteIn(marks)
        <5>1. m = Mark(p, {y}) /\ q = Mark(marks, {y})
          BY <3>3, <4>1, <4>3, <4>5 DEF Barrier
        <5> DEFINE S == Fresh1(marks, {y})
        <5>2. Fresh1(p, {y}) = S
          BY <4>3 DEF Fresh1
        <5> HIDE DEF m, q, S
        <5> DEFINE T == Fresh1(p, {y})
        <5>3. /\ m \in Marks /\ m.gray = p.gray \cup (T \cap Queued)
              /\ m.again = p.again /\ m.weak = p.weak
              /\ \A o \in T \cap Queued : m.color[o] = "gray"
              /\ \A o \in T \cap Leafs :
                   m.color[o] = IF o \in StaysGray THEN "gray" ELSE "black"
              /\ \A o \in Objects \ T : m.color[o] = p.color[o]
              /\ T \subseteq WhiteIn(p)
          BY <1>0, <4>2, <5>1, MarkLemma
        <5> HIDE DEF T
        <5>4. T = S
          BY <5>2 DEF T
        <5>5. /\ m \in Marks /\ m.gray = gray \cup (S \cap Queued)
              /\ m.again = grayagain /\ m.weak = weak
              /\ \A o \in S \cap Queued : m.color[o] = "gray"
              /\ \A o \in S \cap Leafs :
                   m.color[o] = IF o \in StaysGray THEN "gray" ELSE "black"
              /\ \A o \in Objects \ S : m.color[o] = p.color[o]
              /\ S \subseteq WhiteIn(marks)
          BY <4>2, <4>3, <5>3, <5>4
        <5>6. /\ q.gray = gray \cup (S \cap Queued)
              /\ q.again = grayagain /\ q.weak = weak
              /\ \A o \in S \cap Queued : q.color[o] = "gray"
              /\ \A o \in S \cap Leafs :
                   q.color[o] = IF o \in StaysGray THEN "gray" ELSE "black"
              /\ \A o \in Objects \ S : q.color[o] = color[o]
          BY <1>0, <2>9, <5>1, MarkLemma DEF S
        <5>7. \A o \in Objects \ {v} : m.color[o] = q.color[o]
          <6> TAKE o \in Objects \ {v}
          <6>1. CASE o \notin S
            BY <4>2, <5>5, <5>6, <6>1
          <6>2. CASE o \in S
            BY <5>5, <5>6, <6>2, Sorts
          <6> QED BY <6>1, <6>2
        <5> QED BY <1>1, <3>3, <4>3, <5>5, <5>6, <5>7
      <4> QED BY <4>4, <4>5
    <3> QED BY <2>2, <3>1, <3>2, <3>3
  <2> HIDE DEF m, q
  <2>12. marks' = m /\ color' = m.color
    BY <2>1, <2>11, SetMarksLemma
  <2>13. TypesOK'
    <3>1. /\ location' \in [Upvals -> Threads \cup {Nil}]
          /\ closedval' \in [Upvals -> Ref]
      BY <1>0, <2>1, <2>3 DEF TypesOK
    <3> QED BY <1>0, <2>1, <2>11, <2>12, <3>1 DEF TypesOK
  <2>14. \A u : u \in OpenUpvals' <=> u \in OpenUpvals /\ u # v
    <3>1. \A u : u \in OpenUpvals' <=> u \in Upvals /\ u \in live' /\ location'[u] # Nil
      BY <2>13, OpenNext
    <3>2. \A u : u \in OpenUpvals <=> u \in Upvals /\ u \in live /\ location[u] # Nil
      BY <1>0, OpenNow
    <3> QED BY <2>1, <2>5, <2>6, <3>1, <3>2
  <2>15. \A o \in Objects : /\ m.color[o] = "dead" <=> color[o] = "dead"
                            /\ o \notin live => m.color[o] = "white"
    <3>1. CASE gcstate = "propagate"
      <4>1. \A o \in Objects : q.color[o] # "dead" /\ color[o] # "dead"
                               /\ (o \notin live => q.color[o] = "white")
        BY <2>10, <3>1, ClosedLemma DEF Incremental
      <4> QED BY <1>1, <2>2, <2>11, <3>1, <4>1
    <3>2. CASE gcstate # "propagate"
      BY <1>0, <1>1, <2>2, <2>9, <2>10, <2>11, <3>2 DEF Unborn
    <3> QED BY <3>1, <3>2
  <2>16. Unborn'
    BY <1>0, <1>1, <2>1, <2>5, <2>12, <2>15 DEF Unborn
  <2>17. Linked'
    <3>1. \A u \in OpenUpvals' : location'[u] \in live'
      BY <1>0, <2>1, <2>5, <2>14 DEF Linked, OpenUpvals, OpenOf
    <3> QED BY <1>0, <2>1, <3>1 DEF Linked
  <2>18. Changes(m, C)
    <3>1. \A z \in Refs(v)' : z \in live' /\ m.color[z] # "dead"
      BY <1>0, <2>1, <2>4, <2>7, <2>15 DEF Safe
    <3>2. running' \in live' /\ m.color[running'] # "dead"
      BY <1>0, <2>1, <2>15, RunningOK
    <3> QED BY <1>0, <2>1, <2>8, <2>15, <3>1, <3>2 DEF Changes
  <2>19. Keeps(m)
    <3>1. /\ q.gray \cup q.again \cup q.weak \subseteq Queued \cap live
          /\ v \notin Queued
      BY <1>0, <2>9, <2>10, Sorts DEF Incremental, Whole
    <3>2. \A o \in q.gray \cup q.again \cup q.weak : m.color[o] # "dead"
      <4>1. CASE gcstate = "propagate"
        BY <1>0, <2>15, <3>1, <4>1, ClosedLemma
      <4>2. CASE gcstate # "propagate"
        BY <1>0, <2>9, <2>10, <2>15, <3>1, <4>2 DEF Whole
      <4> QED BY <4>1, <4>2
    <3>3. \A o \in m.gray : m.color[o] = "gray"
      BY <1>0, <2>10, <2>11, <3>1
    <3>4. \A u \in OpenUpvals' : m.color[u] # "black"
      <4> TAKE u \in OpenUpvals'
      <4>1. u \in OpenUpvals /\ u # v /\ u \in Objects /\ u \in live
        BY <1>0, <2>14 DEF OpenUpvals, OpenOf
      <4>2. CASE gcstate = "propagate"
        BY <2>10, <2>11, <4>1, <4>2 DEF Incremental
      <4>3. CASE gcstate # "propagate"
        BY <1>0, <2>9, <2>10, <2>11, <4>1, <4>3 DEF PhaseOK
      <4> QED BY <4>2, <4>3
    <3>5. \A u \in OpenUpvals' \cap unswept' : location'[u] \in unswept'
      <4> TAKE u \in OpenUpvals' \cap unswept'
      <4>1. u \in OpenUpvals /\ u # v /\ u \in Upvals /\ u \in unswept
        BY <2>1, <2>14 DEF OpenUpvals, OpenOf
      <4>2. location[u] \in unswept /\ location[u] \in Threads
        BY <1>0, <4>1, OpenNow DEF PhaseOK
      <4> QED BY <1>1, <2>1, <2>5, <4>1, <4>2
    <3>6. ASSUME gcstate # "propagate"
          PROVE  /\ m.gray = {}
                 /\ \A o \in live' \ (unswept' \cup Waiting') : m.color[o] = "white"
      <4>1. m.gray = {}
        BY <1>0, <2>9, <2>10, <2>11, <3>6 DEF PhaseOK
      <4>2. m.color[v] = "white"
        BY <2>2, <2>11, <3>6
      <4>3. \A o \in live \ (unswept \cup Waiting) : color[o] = "white" /\ o \in Objects
        BY <1>0, <3>6 DEF PhaseOK
      <4> QED BY <2>1, <2>9, <2>10, <2>11, <3>6, <4>1, <4>2, <4>3
    <3>7. \A o \in unswept \ unswept' : m.color[o] # "dead"
      BY <1>1, <1>3, <2>1, <2>15
    <3> QED BY <2>1, <2>11, <3>1, <3>2, <3>3, <3>4, <3>5, <3>6, <3>7 DEF Keeps
  <2>20. gcstate = "propagate" => MarksOn(q, m, C)
    <3> SUFFICES ASSUME gcstate = "propagate" PROVE MarksOn(q, m, C)
      OBVIOUS
    <3>1. Incremental(q, Waiting)
      BY <2>10
    <3>2. \/ m.color[v] = "white" /\ q.color[v] = "white"
          \/ m.color[v] = "black" /\ q.color[v] = "gray"
      BY <2>2, <2>10, <2>11
    <3>3. WhiteIn(m) = WhiteIn(q)
      <4>1. pool \cup Roots \subseteq Objects
        BY <1>0, HeapAssumption, Sorts DEF TypesOK
      <4> QED BY <2>11, <3>2, <4>1 DEF WhiteIn
    <3>4. m.color[v] = "black" => Refs(v)' \cap WhiteIn(m) = {}
      BY <2>2, <2>7, <2>10, <2>11, <3>3
    <3> QED BY <1>1, <2>1, <2>11, <2>14, <3>1, <3>2, <3>3, <3>4 DEF MarksOn
  <2> QED BY <2>10, <2>11, <2>13, <2>16, <2>17, <2>18, <2>19, <2>20, ChangeStep
<1> QED BY <1>2, <1>3

----------------------------------------------------------------------------
(* The theorems.                                                           *)

LEMMA CollectorStep ==
  ASSUME IInv, Collector
  PROVE  IInv'
<1>1. CASE StartCycle
  <2>1. full' \in {"no", "sweep", "mark"} /\ gcstate \in {"pause", "finalize"}
        /\ markroot
        /\ UNCHANGED <<pool, live, unswept, udlist, tmudata, finalized,
                       running, stack, entry, content>>
    BY <1>1 DEF StartCycle, IInv, TypesOK
  <2> QED BY <2>1, MarkrootStep
<1>2. CASE Propagate
  BY <1>2, PropagateStep
<1>3. CASE Atomic
  BY <1>3, AtomicStep
<1>4. CASE SweepStrings
  BY <1>4, SweepStringsStep
<1>5. CASE SweepOne
  BY <1>5, SweepOneStep
<1>6. CASE Finalize
  BY <1>6, FinalizeStep
<1>7. CASE FullGCMarks
  <2>1. full' \in {"no", "sweep", "mark"} /\ gcstate \in {"pause", "finalize"}
        /\ markroot
        /\ UNCHANGED <<pool, live, unswept, udlist, tmudata, finalized,
                       running, stack, entry, content>>
    BY <1>7 DEF FullGCMarks
  <2> QED BY <2>1, MarkrootStep
<1> QED BY <1>1, <1>2, <1>3, <1>4, <1>5, <1>6, <1>7 DEF Collector

LEMMA ScriptStep ==
  ASSUME IInv, Script
  PROVE  IInv'
<1>1. CASE \E o \in pool : Create(o)
  BY <1>1, CreateStep
<1>2. CASE \E c \in pool, v \in pool : Closure(c, v)
  BY <1>2, ClosureStep
<1>3. CASE Drop
  BY <1>3, DropStep
<1>4. CASE \E t \in Tables, k \in Here, v \in Here : SetTable(t, k, v)
  BY <1>4, SetTableStep
<1>5. CASE \E t \in Tables : GetTable(t)
  BY <1>5, GetTableStep
<1>6. CASE \E t \in Tables, md \in SUBSET {"k", "v"} : SetMode(t, md)
  BY <1>6, SetModeStep
<1>7. CASE \E u \in Udata, t \in Tables : SetEnv(u, t)
  BY <1>7, SetEnvStep
<1>8. CASE \E c \in Closures : GetUpval(c)
  BY <1>8, GetUpvalStep
<1>9. CASE \E c \in Closures, x \in Here : SetUpval(c, x)
  BY <1>9, SetUpvalStep
<1>10. CASE \E v \in Upvals : Close(v)
  BY <1>10, CloseStep
<1>11. CASE \E t \in Threads : Switch(t)
  BY <1>11, SwitchStep
<1>12. CASE FullGC
  BY <1>12, FullGCStep
<1> QED BY <1>1, <1>2, <1>3, <1>4, <1>5, <1>6, <1>7, <1>8, <1>9, <1>10, <1>11,
           <1>12 DEF Script

(* Every step of a script, of a finalizer and of the collector keeps the   *)
(* inductive invariant.                                                    *)
THEOREM NextIInv == IInv /\ [GcNext]_heap => IInv'
<1> SUFFICES ASSUME IInv, [GcNext]_heap PROVE IInv'
  OBVIOUS
<1>1. CASE Collector
  BY <1>1, CollectorStep
<1>2. CASE Script
  BY <1>2, ScriptStep
<1>3. CASE UNCHANGED heap
  <2>1. UNCHANGED <<pool, live, color, lists, udlist, tmudata, finalized,
                    running, stack, entry, content, unswept>>
        /\ full' = full /\ gcstate' = gcstate
    BY <1>3 DEF heap, cycle
  <2>2. full' \in {"no", "sweep", "mark"}
    BY <2>1 DEF IInv, TypesOK
  <2> QED BY <2>1, <2>2, PhaseStep
<1> QED BY <1>1, <1>2, <1>3 DEF GcNext

THEOREM Inductive == GcSpec => []IInv
<1> QED BY InitIInv, NextIInv, PTL DEF GcSpec

(* In every heap the collector's lists hold what their names say           *)
(* (GcTypeOK): what waits to be traversed is gray, what waits for a        *)
(* finalizer is marked so, and nothing is dead but what a sweep will meet. *)
THEOREM TypeCorrect == GcSpec => []GcTypeOK
<1>1. IInv => GcTypeOK
  <2> SUFFICES ASSUME IInv PROVE GcTypeOK
    OBVIOUS
  <2>1. /\ TypesOK /\ Linked /\ Whole /\ PhaseOK
    BY DEF IInv
  <2>2. color \in [Objects -> {"white", "dead", "gray", "black"}]
    BY <2>1 DEF TypesOK, marks, Marks, Colors
  <2>3. \A o \in Objects : color[o] = "dead" =>
          o \in unswept /\ gcstate \in {"sweepstring", "sweep"}
    BY <2>1 DEF PhaseOK
  <2> QED BY <2>1, <2>2, <2>3
          DEF GcTypeOK, TypesOK, Linked, Whole, Waiting, Phases
<1> QED BY <1>1, Inductive, PTL

(* No pointer dangles (NoDangling): whatever the program or a finalizer    *)
(* can still reach is allocated, however scripts, barriers and sweeps      *)
(* interleave, and nothing it holds strongly is to be freed.               *)
THEOREM NoDanglingAlways == GcSpec => []NoDangling
<1>1. IInv => NoDangling
  <2> SUFFICES ASSUME IInv PROVE NoDangling
    OBVIOUS
  <2> DEFINE base == Roots \cup {running} \cup ToSet(tmudata)
             T == {o \in live : color[o] # "dead"}
             found == Reach(base, live, live)
  <2>1. /\ TypesOK /\ Linked /\ Whole /\ PhaseOK
    BY DEF IInv
  <2>2. base \cap live \subseteq T
    <3>1. \A o \in Waiting : o \in Objects /\ o \notin unswept
      BY <2>1, WaitingLemma, Sorts DEF PhaseOK
    <3> QED BY <2>1, <3>1 DEF Whole, PhaseOK, Waiting
  <2>3. \A o \in T : Refs(o) \subseteq T
    BY <2>1 DEF Whole
  <2>4. \A o \in T : Children(o) \subseteq T
    BY <2>1, <2>3, ChildrenLemma
  <2>5. found \subseteq T
    <3>1. T \in SUBSET live
      OBVIOUS
    <3> HIDE DEF T, base
    <3> QED BY <2>2, <2>4, <3>1, ReachLeast
  <2>6. \A o \in found : Children(o) \subseteq live /\ color[o] # "dead"
    BY <2>4, <2>5
  <2>7. \A t \in found \cap Tables : {entry[t].key, entry[t].val} \ {Nil} \subseteq live
    <3> TAKE t \in found \cap Tables
    <3>1. Refs(t) = {entry[t].key, entry[t].val} \ {Nil}
      BY <2>1, RefsNow
    <3> QED BY <2>3, <2>5, <3>1
  <2> QED BY <2>6, <2>7 DEF NoDangling
<1> QED BY <1>1, Inductive, PTL

(* The invariant of incremental marking (TriColor), which every barrier is *)
(* there to keep: no black object names a white one while marking, and     *)
(* only userdata that waits for its finalizer is black between two cycles. *)
THEOREM TriColorAlways == GcSpec => []TriColor
<1>1. IInv => TriColor
  <2> SUFFICES ASSUME IInv PROVE TriColor
    OBVIOUS
  <2>1. TypesOK /\ live \subseteq pool \cup Roots
    BY DEF IInv, TypesOK
  <2>2. ASSUME gcstate = "propagate", NEW o \in live \ ToSet(tmudata),
               color[o] = "black", NEW x \in Children(o)
        PROVE  color[x] \notin {"white", "dead"}
    <3>1. Incremental(marks, Waiting) /\ marks.color = color /\ Closed
      BY <2>2, SameMarks, ClosedLemma
    <3>2. x \in Refs(o) /\ x \in live
      BY <2>1, <2>2, <3>1, ChildrenLemma DEF Closed
    <3>3. Refs(o) \cap WhiteIn(marks) = {}
      BY <2>2, <3>1 DEF Incremental, Waiting
    <3> QED BY <2>1, <3>1, <3>2, <3>3 DEF WhiteIn
  <2>3. ASSUME gcstate \in {"pause", "finalize"}, NEW o \in live, color[o] = "black"
        PROVE  o \in ToSet(tmudata)
    BY <2>3, Unmarked DEF Waiting
  <2> QED BY <2>2, <2>3 DEF TriColor
<1> QED BY <1>1, Inductive, PTL

(* What the collector has not marked when it chooses userdata to finalize  *)
(* is unknown to the program.                                              *)
LEMMA KnownLemma ==
  ASSUME IInv, gcstate = "propagate", gray = {}
  PROVE  Known \cap WhiteIn(MarkedAgain) = {}
<1> DEFINE m == MarkedAgain
           T == live \ WhiteIn(m)
           base == Roots \cup {running}
<1>1. Incremental(m, Waiting) /\ m.gray = {} /\ running \notin WhiteIn(m)
      /\ Half(m, Waiting)
  BY MarkedAgainLemma
<1> HIDE DEF m
<1>2. base \cap live \subseteq T
  BY <1>1 DEF Incremental
<1>3. \A o \in T \cap (live \ ToSet(tmudata)) : Children(o) \cap live \subseteq T
  BY <1>1 DEF Half, Waiting
<1>4. T \in SUBSET live
  OBVIOUS
<1>5. Known = Reach(base, live, live \ ToSet(tmudata))
  BY DEF Known
<1> HIDE DEF T, base
<1>6. Known \subseteq T
  BY <1>2, <1>3, <1>4, <1>5, ReachLeast
<1> QED BY <1>6 DEF T, m

(* A finalizer is only ever chosen for userdata the program has lost, and  *)
(* never twice (FinalizeOnlyLost).                                         *)
THEOREM FinalizeOnlyLostAlways == GcSpec => FinalizeOnlyLost
<1> DEFINE Step == \A u \in ToSet(tmudata') \ ToSet(tmudata) :
                     u \in Finalizable \ (Known \cup finalized)
<1>1. IInv /\ [GcNext]_heap => [Step]_heap
  <2> SUFFICES ASSUME IInv, GcNext PROVE Step
    OBVIOUS
  <2>0. TypesOK /\ Linked
    BY DEF IInv
  <2>1. CASE Atomic
    <3>1. tmudata' = tmudata \o ToFinalize(MarkedAgain)
          /\ gcstate = "propagate" /\ gray = {}
      BY <2>1 DEF Atomic, atomic
    <3>2. ToSet(tmudata') = Waiting \cup (DeadUdata(MarkedAgain) \cap Finalizable)
      BY <2>0, <3>1, SeparatedLemma
    <3>3. Known \cap WhiteIn(MarkedAgain) = {}
      BY <3>1, KnownLemma
    <3> QED BY <3>2, <3>3 DEF DeadUdata, Waiting
  <2>2. CASE GCTM
    <3>1. tmudata # <<>> /\ tmudata' = Tail(tmudata) /\ tmudata \in Seq(Udata)
      BY <2>0, <2>2 DEF GCTM, TypesOK
    <3>2. ToSet(tmudata') \subseteq ToSet(tmudata)
      BY <3>1, TailLemma
    <3> QED BY <3>2
  <2>3. CASE tmudata' = tmudata
    BY <2>3
  <2>4. CASE Collector
    <3>1. Atomic \/ GCTM \/ tmudata' = tmudata
      BY <2>4 DEF Collector, StartCycle, Propagate, SweepStrings, SweepOne,
                  Finalize, FullGCMarks, cycle
    <3> QED BY <2>1, <2>2, <2>3, <3>1
  <2>5. CASE Script
    <3>1. tmudata' = tmudata
      BY <2>5 DEF Script, Create, Closure, Drop, SetTable, GetTable, SetMode,
                  SetEnv, GetUpval, SetUpval, Close, Switch, FullGC, ScriptRuns,
                  cycle
    <3> QED BY <2>3, <3>1
  <2> QED BY <2>4, <2>5 DEF GcNext
<1> QED BY <1>1, Inductive, PTL DEF GcSpec, FinalizeOnlyLost
=============================================================================
