--------------------------- MODULE LuaTableProofs ---------------------------
(***************************************************************************)
(* Proof that a table of LuaTable is the map the program made of it, for   *)
(* any strings with any hashes and any integers.                           *)
(***************************************************************************)
EXTENDS LuaParts, SequenceTheorems, FiniteSetTheorems,
        WellFoundedInduction, TLAPS

-----------------------------------------------------------------------------
(* The nodes nd of a hash part, when mp gives the main position of a key.  *)

Node == [key : T!Stored, dead : BOOLEAN, val : T!Stored, next : Int]
NodesOf(n) == [0 .. n - 1 -> Node]

(* What can be reached from p: what is in every set that holds p and the   *)
(* successor of each of its nodes.                                         *)
Closed(nd, A) == \A p \in A : nd[p].next # -1 => nd[p].next \in A
Reach(nd, p) ==
  {q \in DOMAIN nd :
     \A A \in SUBSET (DOMAIN nd) : p \in A /\ Closed(nd, A) => q \in A}

(* r grows along every chain, so that no chain has a cycle.                *)
Ranked(nd, r) ==
  /\ r \in [DOMAIN nd -> Nat]
  /\ \A p \in DOMAIN nd : nd[p].next # -1 => r[p] < r[nd[p].next]

(* A key has one node that is not dead, before all dead ones.              *)
Newest(nd, r) ==
  \A p, q \in DOMAIN nd :
    /\ nd[p].key = nd[q].key /\ nd[p].key # Nil
    /\ ~nd[p].dead /\ p # q
    => nd[q].dead /\ r[p] < r[q]

Linked(nd) ==
  /\ \A p \in DOMAIN nd : nd[p].next \in DOMAIN nd \cup {-1}
  /\ \A p \in DOMAIN nd : nd[p].next # -1 => nd[nd[p].next].key # Nil
  /\ \A p, q \in DOMAIN nd :
       nd[p].next = nd[q].next /\ nd[p].next # -1 => p = q
Kept(nd) ==
  \A p \in DOMAIN nd :
    /\ nd[p].key = Nil => nd[p].val = Nil /\ nd[p].next = -1
    /\ nd[p].val # Nil => nd[p].val = nd[p].key /\ ~nd[p].dead

(* A node lies on the chain of its key, which starts with a key of that    *)
(* chain.                                                                  *)
Placed(nd, mp) ==
  \A q \in DOMAIN nd : nd[q].key # Nil =>
    /\ q \in Reach(nd, mp[nd[q].key])
    /\ nd[mp[nd[q].key]].key # Nil
    /\ mp[nd[mp[nd[q].key]].key] = mp[nd[q].key]

Nodes(nd, mp) ==
  /\ Linked(nd) /\ Kept(nd) /\ Placed(nd, mp)
  /\ \E r : Ranked(nd, r) /\ Newest(nd, r)

-----------------------------------------------------------------------------
(* Numbers.                                                                *)

LEMMA SmallestLemma ==
  ASSUME NEW A \in SUBSET Nat, A # {}
  PROVE  \E m \in A : \A k \in A : m <= k
<1> DEFINE R == OpToRel(<, Nat)
<1>1. IsWellFoundedOn(R, Nat) BY NatLessThanWellFounded
<1>2. \A a, b \in Nat : a < b => <<a, b>> \in R BY DEF OpToRel
<1> HIDE DEF R
<1>3. PICK m \in A : \A k \in A : ~(<<k, m>> \in R) BY <1>1, WFMin
<1>4. \A k \in A : ~(k < m) BY <1>2, <1>3
<1> QED BY <1>4

LEMMA MinLemma ==
  ASSUME NEW A \in SUBSET Nat, A # {}
  PROVE  T!Min(A) \in A /\ \A k \in A : T!Min(A) <= k
<1>1. \E m \in A : \A k \in A : m <= k BY SmallestLemma
<1> QED BY <1>1 DEF T!Min

LEMMA MaxLemma ==
  ASSUME NEW n \in Nat, NEW A \in SUBSET (0 .. n), A # {}
  PROVE  T!Max(A) \in A /\ \A k \in A : k <= T!Max(A)
<1> DEFINE B == {n - k : k \in A}
<1>1. B \subseteq Nat /\ B # {}
  <2>1. \A k \in A : n - k \in Nat OBVIOUS
  <2>2. B \subseteq Nat BY ONLY <2>1
  <2>3. PICK k \in A : TRUE OBVIOUS
  <2>4. n - k \in B BY ONLY <2>3
  <2> QED BY ONLY <2>2, <2>4
<1>2. PICK b \in B : \A k \in B : b <= k
  <2> HIDE DEF B
  <2> QED BY <1>1, SmallestLemma
<1>3. PICK m \in A : b = n - m OBVIOUS
<1>4. ASSUME NEW k \in A PROVE m >= k
  <2>1. n - k \in B OBVIOUS
  <2>2. n - m <= n - k BY <1>2, <1>3, <2>1
  <2>3. n \in Int /\ m \in Int /\ k \in Int OBVIOUS
  <2> QED BY ONLY <2>2, <2>3
<1>5. T!Max(A) \in A /\ \A k \in A : T!Max(A) >= k BY <1>4 DEF T!Max
<1> QED BY <1>5

(* What holds of 0 and of the next number, holds of all.                   *)
LEMMA UpLemma ==
  ASSUME NEW n \in Nat, NEW A, 0 \in A,
         \A i \in 1 .. n : i - 1 \in A => i \in A
  PROVE  0 .. n \subseteq A
<1>1. SUFFICES ASSUME NEW j \in 0 .. n, j \notin A PROVE FALSE OBVIOUS
<1> DEFINE B == (0 .. n) \ A
<1>2. B \in SUBSET Nat /\ B # {} BY <1>1
<1>3. PICK m \in B : \A k \in B : m <= k
  <2> HIDE DEF B
  <2> QED BY <1>2, SmallestLemma
<1>4. m \in 1 .. n BY <1>3
<1>5. m - 1 \notin B BY <1>3, <1>4
<1> QED BY <1>3, <1>4, <1>5

(* A function that is defined step by step exists.                         *)
Steps(n, R, a, step) == n \in Nat /\ a \in R /\ step \in [1 .. n -> [R -> R]]
Stepwise(f, n, R, a, step) ==
  /\ f \in [0 .. n -> R] /\ f[0] = a
  /\ \A i \in 1 .. n : f[i] = step[i][f[i - 1]]
LEMMA StepsLemma ==
  ASSUME NEW n, NEW R, NEW a, NEW step, Steps(n, R, a, step)
  PROVE  \E f : Stepwise(f, n, R, a, step)
<1> USE DEF Steps
<1> DEFINE Upto(j) == \E f \in [0 .. n -> R] :
             f[0] = a /\ \A i \in 1 .. j : f[i] = step[i][f[i - 1]]
           A == {j \in 0 .. n : Upto(j)}
<1>1. 0 \in A
  <2> DEFINE f == [i \in 0 .. n |-> a]
  <2>1. f \in [0 .. n -> R] /\ f[0] = a OBVIOUS
  <2>2. \A i \in 1 .. 0 : f[i] = step[i][f[i - 1]] OBVIOUS
  <2> HIDE DEF f
  <2>3. Upto(0) BY <2>1, <2>2
  <2> HIDE DEF Upto
  <2> QED BY <2>3
<1>2. ASSUME NEW i \in 1 .. n, i - 1 \in A PROVE i \in A
  <2>1. PICK f \in [0 .. n -> R] :
          f[0] = a /\ \A j \in 1 .. i - 1 : f[j] = step[j][f[j - 1]]
    BY <1>2
  <2> DEFINE g == [j \in 0 .. n |-> IF j = i THEN step[i][f[i - 1]] ELSE f[j]]
  <2>2. step[i][f[i - 1]] \in R BY <2>1
  <2>3. g \in [0 .. n -> R] /\ g[0] = a BY <2>1, <2>2
  <2>4. ASSUME NEW j \in 1 .. i PROVE g[j] = step[j][g[j - 1]]
    <3>1. j \in 0 .. n /\ j - 1 \in 0 .. n /\ j - 1 # i OBVIOUS
    <3>2. g[j - 1] = f[j - 1] BY <3>1
    <3>3. CASE j = i BY <3>1, <3>2, <3>3
    <3>4. CASE j # i
      <4>1. j \in 1 .. i - 1 BY <3>4
      <4>2. g[j] = f[j] BY <3>1, <3>4
      <4> QED BY <2>1, <3>2, <4>1, <4>2
    <3> QED BY <3>3, <3>4
  <2> HIDE DEF g
  <2> QED BY <2>3, <2>4
<1> HIDE DEF A
<1>3. 0 .. n \subseteq A BY <1>1, <1>2, UpLemma
<1>4. n \in A BY <1>3
<1> QED BY <1>4 DEF A, Stepwise

-----------------------------------------------------------------------------
(* What can be reached.                                                    *)

LEMMA ReachSelf ==
  ASSUME NEW nd, NEW p \in DOMAIN nd
  PROVE  p \in Reach(nd, p)
BY DEF Reach

LEMMA ReachNext ==
  ASSUME NEW nd, NEW p \in DOMAIN nd, Linked(nd),
         NEW q \in Reach(nd, p), nd[q].next # -1
  PROVE  nd[q].next \in Reach(nd, p)
<1>1. q \in DOMAIN nd BY DEF Reach
<1>2. nd[q].next \in DOMAIN nd BY <1>1 DEF Linked
<1>3. ASSUME NEW A \in SUBSET (DOMAIN nd), p \in A, Closed(nd, A)
      PROVE  nd[q].next \in A
  <2>1. q \in A BY <1>3 DEF Reach
  <2> QED BY <1>3, <2>1 DEF Closed
<1> QED BY <1>2, <1>3 DEF Reach

(* What is closed and holds p holds all that p reaches.                    *)
LEMMA ReachLeast ==
  ASSUME NEW nd, NEW p \in DOMAIN nd, NEW A \in SUBSET (DOMAIN nd),
         p \in A, Closed(nd, A)
  PROVE  Reach(nd, p) \subseteq A
BY DEF Reach

LEMMA ReachRank ==
  ASSUME NEW nd, NEW p \in DOMAIN nd, Linked(nd), NEW r, Ranked(nd, r),
         NEW q \in Reach(nd, p)
  PROVE  q \in DOMAIN nd /\ (q = p \/ r[p] < r[q])
<1> DEFINE A == {z \in DOMAIN nd : z = p \/ r[p] < r[z]}
<1>1. ASSUME NEW z \in A, nd[z].next # -1 PROVE nd[z].next \in A
  <2>1. nd[z].next \in DOMAIN nd /\ r[z] < r[nd[z].next]
    BY <1>1 DEF Linked, Ranked
  <2>2. {r[p], r[z], r[nd[z].next]} \subseteq Nat BY <2>1 DEF Ranked
  <2>3. z = p \/ r[p] < r[z] OBVIOUS
  <2>4. r[p] < r[nd[z].next] BY <2>1, <2>2, <2>3
  <2> QED BY <2>1, <2>4
<1>2. p \in A /\ A \in SUBSET (DOMAIN nd) OBVIOUS
<1>3. Closed(nd, A) BY <1>1 DEF Closed
<1> HIDE DEF A
<1>4. q \in A BY <1>2, <1>3, ReachLeast
<1> QED BY <1>4 DEF A

LEMMA ReachBefore ==
  ASSUME NEW nd, NEW p \in DOMAIN nd, Linked(nd),
         NEW q \in Reach(nd, p), q # p
  PROVE  \E b \in Reach(nd, p) : nd[b].next = q
<1> SUFFICES ASSUME \A b \in Reach(nd, p) : nd[b].next # q PROVE FALSE
  OBVIOUS
<1> DEFINE A == Reach(nd, p) \ {q}
<1>1. p \in A /\ A \in SUBSET (DOMAIN nd) BY ReachSelf DEF Reach
<1>2. \A z \in A : nd[z].next # -1 => nd[z].next \in A BY ReachNext
<1> HIDE DEF A
<1>3. Closed(nd, A) BY <1>2 DEF Closed
<1>4. q \in A BY <1>1, <1>3, ReachLeast
<1> QED BY <1>4 DEF A

LEMMA ReachSame ==
  ASSUME NEW nd, NEW nf, NEW p, DOMAIN nf = DOMAIN nd,
         \A q \in DOMAIN nd : nf[q].next = nd[q].next
  PROVE  Reach(nf, p) = Reach(nd, p)
<1>1. \A A \in SUBSET (DOMAIN nd) : Closed(nf, A) <=> Closed(nd, A)
  BY DEF Closed
<1> QED BY <1>1 DEF Reach

-----------------------------------------------------------------------------
(* Insertion of a key k that no node holds alive.                          *)

Inserting(n, nd, mp, k) ==
  /\ nd \in NodesOf(n) /\ mp \in [T!Key -> 0 .. n - 1] /\ k \in T!Key
  /\ Nodes(nd, mp)
Took(k, v, next) == [key |-> k, dead |-> FALSE, val |-> v, next |-> next]
Absent(nd, k) == \A p \in DOMAIN nd : nd[p].key = k => nd[p].dead

LEMMA NilLemma == Nil \notin T!Key
BY PartsAssumption DEF T!TableAssumption

(* Into the main position, which holds no value.                           *)
LEMMA OverwriteLemma ==
  ASSUME NEW n \in Nat, NEW nd, NEW mp, NEW k, Inserting(n, nd, mp, k),
         Absent(nd, k), NEW m, m = mp[k], nd[m].val = Nil,
         NEW v \in {k, Nil}, NEW nf \in NodesOf(n),
         \A p \in (0 .. n - 1) \ {m} : nf[p] = nd[p],
         nf[m] = Took(k, v, nd[m].next)
  PROVE  Nodes(nf, mp)
<1>1. /\ DOMAIN nd = 0 .. n - 1 /\ DOMAIN nf = 0 .. n - 1 /\ m \in 0 .. n - 1
      /\ k # Nil /\ k \in T!Key
      /\ \A p \in 0 .. n - 1 : nd[p].key \in T!Key \cup {Nil}
  BY NilLemma DEF Inserting, NodesOf, Node, T!Stored
<1>2. /\ nf[m].key = k /\ ~nf[m].dead /\ nf[m].val = v
      /\ nf[m].next = nd[m].next
  BY DEF Took
<1>3. \A p \in 0 .. n - 1 : nf[p].next = nd[p].next BY <1>2
<1>4. Linked(nd) /\ Kept(nd) /\ Placed(nd, mp) BY DEF Inserting, Nodes
<1>5. Linked(nf)
  <2>1. \A p \in 0 .. n - 1 : nf[p].next \in 0 .. n - 1 \cup {-1}
    BY <1>1, <1>3, <1>4 DEF Linked
  <2>2. ASSUME NEW p \in 0 .. n - 1, nf[p].next # -1
        PROVE  nf[nf[p].next].key # Nil
    <3>1. nf[p].next = nd[p].next /\ nd[p].next \in 0 .. n - 1
      BY <1>1, <1>3, <1>4, <2>2 DEF Linked
    <3>2. nd[nd[p].next].key # Nil BY <1>1, <1>4, <2>2, <3>1 DEF Linked
    <3> QED BY <1>1, <1>2, <3>1, <3>2
  <2>3. \A p, q \in 0 .. n - 1 :
          nf[p].next = nf[q].next /\ nf[p].next # -1 => p = q
    BY <1>1, <1>3, <1>4 DEF Linked
  <2> QED BY <1>1, <2>1, <2>2, <2>3 DEF Linked
<1>6. Kept(nf)
  <2> SUFFICES ASSUME NEW p \in 0 .. n - 1
               PROVE  /\ nf[p].key = Nil => nf[p].val = Nil /\ nf[p].next = -1
                      /\ nf[p].val # Nil => nf[p].val = nf[p].key /\ ~nf[p].dead
    BY <1>1 DEF Kept
  <2>1. CASE p = m BY <1>1, <1>2, <2>1
  <2>2. CASE p # m BY <1>1, <1>4, <2>2 DEF Kept
  <2> QED BY <2>1, <2>2
<1>7. \A p \in 0 .. n - 1 : Reach(nf, p) = Reach(nd, p)
  BY <1>1, <1>3, ReachSame
<1>8. Placed(nf, mp)
  <2> SUFFICES ASSUME NEW q \in 0 .. n - 1, nf[q].key # Nil
               PROVE  /\ q \in Reach(nf, mp[nf[q].key])
                      /\ nf[mp[nf[q].key]].key # Nil
                      /\ mp[nf[mp[nf[q].key]].key] = mp[nf[q].key]
    BY <1>1 DEF Placed
  <2>1. CASE q = m
    <3>1. mp[nf[q].key] = m BY <1>2, <2>1
    <3>2. m \in Reach(nf, m) BY <1>1, ReachSelf
    <3> QED BY <1>1, <1>2, <2>1, <3>1, <3>2
  <2>2. CASE q # m
    <3> DEFINE h == mp[nd[q].key]
    <3>1. nf[q] = nd[q] BY <2>2
    <3>2. /\ q \in Reach(nd, h) /\ nd[h].key # Nil /\ mp[nd[h].key] = h
          /\ h \in 0 .. n - 1
      BY <1>1, <1>4, <3>1 DEF Placed, Inserting
    <3>3. q \in Reach(nf, h) BY <1>7, <3>2
    <3>4. nf[h].key # Nil /\ mp[nf[h].key] = h BY <1>1, <1>2, <3>2
    <3> QED BY <3>1, <3>3, <3>4
  <2> QED BY <2>1, <2>2
<1>9. \E r : Ranked(nf, r) /\ Newest(nf, r)
  <2>1. PICK r : Ranked(nd, r) /\ Newest(nd, r) BY DEF Inserting, Nodes
  <2>2. Ranked(nf, r) BY <1>1, <1>3, <2>1 DEF Ranked
  <2>3. ASSUME NEW p \in 0 .. n - 1, NEW q \in 0 .. n - 1,
               nf[p].key = nf[q].key, nf[p].key # Nil, ~nf[p].dead, p # q
        PROVE  nf[q].dead /\ r[p] < r[q]
    <3>1. CASE p = m
      <4>1. nf[q] = nd[q] /\ nd[q].key = k BY <1>2, <2>3, <3>1
      <4>2. q \in Reach(nd, m) BY <1>1, <1>4, <4>1 DEF Placed
      <4>3. r[m] < r[q] BY <1>1, <1>4, <2>1, <2>3, <3>1, <4>2, ReachRank
      <4> QED BY <1>1, <3>1, <4>1, <4>3 DEF Absent
    <3>2. CASE q = m
      <4>1. nf[p] = nd[p] /\ nd[p].key = k BY <1>2, <2>3, <3>2
      <4> QED BY <1>1, <2>3, <4>1 DEF Absent
    <3>3. CASE p # m /\ q # m BY <1>1, <2>1, <2>3, <3>3 DEF Newest
    <3> QED BY <3>1, <3>2, <3>3
  <2>4. Newest(nf, r) BY <1>1, <2>3 DEF Newest
  <2> QED BY <2>2, <2>4
<1> QED BY <1>5, <1>6, <1>8, <1>9 DEF Nodes

(* Into a free node f, which is put behind the main position.              *)
LEMMA ChainLemma ==
  ASSUME NEW n \in Nat, NEW nd, NEW mp, NEW k, Inserting(n, nd, mp, k),
         Absent(nd, k), NEW m, m = mp[k], nd[m].val # Nil,
         mp[nd[m].key] = m, NEW f \in 0 .. n - 1, nd[f].key = Nil,
         NEW v \in {k, Nil}, NEW nf \in NodesOf(n),
         \A p \in (0 .. n - 1) \ {m, f} : nf[p] = nd[p],
         nf[f] = Took(k, v, nd[m].next), nf[m] = [nd[m] EXCEPT !.next = f]
  PROVE  Nodes(nf, mp)
<1>1. /\ DOMAIN nd = 0 .. n - 1 /\ DOMAIN nf = 0 .. n - 1 /\ m \in 0 .. n - 1
      /\ k # Nil /\ k \in T!Key
      /\ \A p \in 0 .. n - 1 : nd[p].key \in T!Key \cup {Nil}
      /\ nd[m] \in Node
  BY NilLemma DEF Inserting, NodesOf, Node, T!Stored
<1>2. /\ nf[f].key = k /\ ~nf[f].dead /\ nf[f].val = v
      /\ nf[f].next = nd[m].next
  BY DEF Took
<1>3. /\ nf[m].key = nd[m].key /\ nf[m].dead = nd[m].dead
      /\ nf[m].val = nd[m].val /\ nf[m].next = f
  BY <1>1 DEF Node
<1>4. Linked(nd) /\ Kept(nd) /\ Placed(nd, mp) BY DEF Inserting, Nodes
<1>5. nd[m].key # Nil /\ ~nd[m].dead /\ f # m /\ f # -1 BY <1>1, <1>4 DEF Kept
<1>6. \A p \in 0 .. n - 1 : nd[p].next # f
  <2>1. f # -1 OBVIOUS
  <2> QED BY <1>1, <1>4, <2>1 DEF Linked
<1>7. \A p \in 0 .. n - 1 : p # f => nf[p].key = nd[p].key
  BY <1>3
<1>8. nd[f].next = -1 BY <1>1, <1>4 DEF Kept
<1>9. Linked(nf)
  <2>1. ASSUME NEW p \in 0 .. n - 1
        PROVE  nf[p].next \in 0 .. n - 1 \cup {-1}
    <3>1. CASE p = m BY <1>3, <3>1
    <3>2. CASE p = f BY <1>1, <1>2, <1>4, <3>2 DEF Linked
    <3>3. CASE p \notin {m, f} BY <1>1, <1>4, <3>3 DEF Linked
    <3> QED BY <3>1, <3>2, <3>3
  <2>2. ASSUME NEW p \in 0 .. n - 1, nf[p].next # -1
        PROVE  nf[nf[p].next].key # Nil
    <3>1. CASE p = m BY <1>1, <1>2, <1>3, <3>1
    <3>2. CASE p # m
      <4> DEFINE b == IF p = f THEN m ELSE p
      <4>1. b \in 0 .. n - 1 /\ nf[p].next = nd[b].next
        BY <1>1, <1>2, <3>2
      <4>2. nd[b].next \in 0 .. n - 1 /\ nd[nd[b].next].key # Nil
        BY <1>1, <1>4, <2>2, <4>1 DEF Linked
      <4> QED BY <1>6, <1>7, <4>1, <4>2
    <3> QED BY <3>1, <3>2
  <2>3. ASSUME NEW p \in 0 .. n - 1, NEW q \in 0 .. n - 1,
               nf[p].next = nf[q].next, nf[p].next # -1, p # q
        PROVE  FALSE
    <3>1. CASE p = m
      <4>1. nf[q].next = nd[IF q = f THEN m ELSE q].next
        BY <1>2, <2>3, <3>1
      <4> QED BY <1>1, <1>3, <1>6, <2>3, <3>1, <4>1
    <3>2. CASE q = m
      <4>1. nf[p].next = nd[IF p = f THEN m ELSE p].next
        BY <1>2, <2>3, <3>2
      <4> QED BY <1>1, <1>3, <1>6, <2>3, <3>2, <4>1
    <3>3. CASE p # m /\ q # m
      <4> DEFINE a == IF p = f THEN m ELSE p
                 b == IF q = f THEN m ELSE q
      <4>1. /\ nf[p].next = nd[a].next /\ nf[q].next = nd[b].next
            /\ a \in 0 .. n - 1 /\ b \in 0 .. n - 1 /\ a # b
        BY <1>1, <1>2, <2>3, <3>3
      <4> HIDE DEF a, b
      <4>2. nd[a].next = nd[b].next /\ nd[a].next # -1 BY <2>3, <4>1
      <4> QED BY ONLY <1>1, <1>4, <4>1, <4>2 DEF Linked
    <3> QED BY <3>1, <3>2, <3>3
  <2> QED BY <1>1, <2>1, <2>2, <2>3 DEF Linked
<1>10. Kept(nf)
  <2> SUFFICES ASSUME NEW p \in 0 .. n - 1
               PROVE  /\ nf[p].key = Nil => nf[p].val = Nil /\ nf[p].next = -1
                      /\ nf[p].val # Nil => nf[p].val = nf[p].key /\ ~nf[p].dead
    BY <1>1 DEF Kept
  <2>1. CASE p = f BY <1>1, <1>2, <2>1
  <2>2. CASE p = m BY <1>1, <1>3, <1>4, <1>5, <2>2 DEF Kept
  <2>3. CASE p \notin {f, m} BY <1>1, <1>4, <2>3 DEF Kept
  <2> QED BY <2>1, <2>2, <2>3
<1>11. ASSUME NEW p \in 0 .. n - 1, NEW q \in Reach(nd, p)
       PROVE  q \in Reach(nf, p)
  <2>1. q \in 0 .. n - 1 BY <1>1 DEF Reach
  <2>2. ASSUME NEW A \in SUBSET (0 .. n - 1), p \in A, Closed(nf, A)
        PROVE  q \in A
    <3>1. ASSUME NEW z \in A, nd[z].next # -1 PROVE nd[z].next \in A
      <4>1. CASE z = m
        <5>1. f \in A BY <1>3, <1>5, <2>2, <4>1 DEF Closed
        <5> QED BY <1>2, <2>2, <3>1, <4>1, <5>1 DEF Closed
      <4>2. CASE z # m
        <5>1. z # f BY <1>8, <3>1
        <5>2. nf[z] = nd[z] BY <4>2, <5>1
        <5> QED BY <2>2, <3>1, <5>2 DEF Closed
      <4> QED BY <4>1, <4>2
    <3>2. Closed(nd, A) BY <3>1 DEF Closed
    <3> QED BY <1>1, <2>2, <3>2, ReachLeast
  <2> QED BY <1>1, <2>1, <2>2 DEF Reach
<1>12. Placed(nf, mp)
  <2> SUFFICES ASSUME NEW q \in 0 .. n - 1, nf[q].key # Nil
               PROVE  /\ q \in Reach(nf, mp[nf[q].key])
                      /\ nf[mp[nf[q].key]].key # Nil
                      /\ mp[nf[mp[nf[q].key]].key] = mp[nf[q].key]
    BY <1>1 DEF Placed
  <2>1. CASE q = f
    <3>1. mp[nf[q].key] = m BY <1>2, <2>1
    <3>2. m \in Reach(nf, m) BY <1>1, ReachSelf
    <3>3. nf[m].next # -1 BY <1>3
    <3>4. f \in Reach(nf, m) BY <1>1, <1>3, <1>9, <3>2, <3>3, ReachNext
    <3>5. nf[m].key # Nil /\ mp[nf[m].key] = m BY <1>3, <1>5
    <3> QED BY ONLY <2>1, <3>1, <3>4, <3>5
  <2>2. CASE q # f
    <3> DEFINE h == mp[nd[q].key]
    <3>1. nf[q].key = nd[q].key BY <1>7, <2>2
    <3>2. /\ q \in Reach(nd, h) /\ nd[h].key # Nil /\ mp[nd[h].key] = h
          /\ h \in 0 .. n - 1
      BY <1>1, <1>4, <3>1 DEF Placed, Inserting
    <3>3. q \in Reach(nf, h) BY <1>11, <3>2
    <3>4. h # f BY <3>2
    <3>5. nf[h].key = nd[h].key BY <1>7, <3>2, <3>4
    <3> QED BY <3>1, <3>2, <3>3, <3>5
  <2> QED BY <2>1, <2>2
<1>13. \E r : Ranked(nf, r) /\ Newest(nf, r)
  <2>1. PICK r : Ranked(nd, r) /\ Newest(nd, r) BY DEF Inserting, Nodes
  <2> DEFINE t == [p \in 0 .. n - 1 |->
                     IF p = f THEN 2 * r[m] + 1 ELSE 2 * r[p]]
  <2>2. \A p \in 0 .. n - 1 : r[p] \in Nat BY <1>1, <2>1 DEF Ranked
  <2>3. t \in [0 .. n - 1 -> Nat] BY <1>1, <2>2
  <2>4. /\ t[f] = 2 * r[m] + 1
        /\ \A p \in 0 .. n - 1 : p # f => t[p] = 2 * r[p]
    OBVIOUS
  <2> HIDE DEF t
  <2>5. ASSUME NEW p \in 0 .. n - 1, nf[p].next # -1
        PROVE  t[p] < t[nf[p].next]
    <3>1. CASE p = m
      <4>1. t[p] = 2 * r[m] /\ nf[p].next = f /\ r[m] \in Nat
        BY <1>1, <1>3, <1>5, <2>2, <2>4, <3>1
      <4> QED BY ONLY <2>4, <4>1
    <3>2. CASE p = f
      <4>1. /\ nd[m].next \in 0 .. n - 1 /\ nd[m].next # f
            /\ r[m] < r[nd[m].next]
        BY <1>1, <1>2, <1>4, <1>6, <2>1, <2>5, <3>2 DEF Linked, Ranked
      <4> QED BY <1>1, <1>2, <2>2, <2>4, <3>2, <4>1
    <3>3. CASE p \notin {m, f}
      <4>1. /\ nf[p].next = nd[p].next
            /\ nd[p].next \in 0 .. n - 1 /\ nd[p].next # f
            /\ r[p] < r[nd[p].next]
        BY <1>1, <1>4, <1>6, <2>1, <2>5, <3>3 DEF Linked, Ranked
      <4> QED BY <2>2, <2>4, <3>3, <4>1
    <3> QED BY <3>1, <3>2, <3>3
  <2>6. Ranked(nf, t) BY <1>1, <2>3, <2>5 DEF Ranked
  <2>7. ASSUME NEW p \in 0 .. n - 1, NEW q \in 0 .. n - 1,
               nf[p].key = nf[q].key, nf[p].key # Nil, ~nf[p].dead, p # q
        PROVE  nf[q].dead /\ t[p] < t[q]
    <3>1. CASE p = f
      <4>1. nf[q].key = k /\ nd[q].key = k BY <1>2, <1>7, <2>7, <3>1
      <4>2. nd[q].dead /\ q # m BY <1>1, <1>5, <4>1 DEF Absent
      <4>3. nf[q] = nd[q] BY <2>7, <3>1, <4>2
      <4>4. q \in Reach(nd, m) BY <1>1, <1>4, <4>1 DEF Placed
      <4>5. r[m] < r[q] BY <1>1, <1>4, <2>1, <4>2, <4>4, ReachRank
      <4>6. t[p] = 2 * r[m] + 1 /\ t[q] = 2 * r[q] BY <2>4, <2>7, <3>1
      <4>7. t[p] < t[q] BY <1>1, <2>2, <4>5, <4>6
      <4> QED BY <4>2, <4>3, <4>7
    <3>2. CASE q = f
      <4>1. nd[p].key = k BY <1>2, <1>7, <2>7, <3>2
      <4>2. nf[p].dead = nd[p].dead BY <1>3, <2>7, <3>2
      <4> QED BY <1>1, <2>7, <4>1, <4>2 DEF Absent
    <3>3. CASE p # f /\ q # f
      <4>1. /\ nf[p].dead = nd[p].dead /\ nf[q].dead = nd[q].dead
            /\ nf[p].key = nd[p].key /\ nf[q].key = nd[q].key
        BY <1>3, <3>3
      <4>2. nd[q].dead /\ r[p] < r[q]
        BY <1>1, <2>1, <2>7, <4>1 DEF Newest
      <4> QED BY <2>2, <2>4, <3>3, <4>1, <4>2
    <3> QED BY <3>1, <3>2, <3>3
  <2>8. Newest(nf, t) BY <1>1, <2>7 DEF Newest
  <2> QED BY <2>6, <2>8
<1> QED BY <1>9, <1>10, <1>12, <1>13 DEF Nodes

(* Into the main position m, whose key is on the chain of another and goes *)
(* to a free node f.                                                       *)
Moving(n, nd, mp, k, m, f, b, v, nf) ==
  /\ n \in Nat /\ Inserting(n, nd, mp, k) /\ Absent(nd, k)
  /\ m = mp[k] /\ nd[m].val # Nil /\ mp[nd[m].key] # m
  /\ f \in 0 .. n - 1 /\ nd[f].key = Nil
  /\ b \in 0 .. n - 1 /\ nd[b].next = m
  /\ v \in {k, Nil} /\ nf \in NodesOf(n)
  /\ \A p \in (0 .. n - 1) \ {m, f, b} : nf[p] = nd[p]
  /\ nf[f] = nd[m] /\ nf[b] = [nd[b] EXCEPT !.next = f]
  /\ nf[m] = Took(k, v, -1)
LEMMA MoveLemma ==
  ASSUME NEW n, NEW nd, NEW mp, NEW k, NEW m, NEW f, NEW b, NEW v, NEW nf,
         Moving(n, nd, mp, k, m, f, b, v, nf)
  PROVE  Nodes(nf, mp)
<1> USE DEF Moving
<1>1. /\ DOMAIN nd = 0 .. n - 1 /\ DOMAIN nf = 0 .. n - 1 /\ m \in 0 .. n - 1
      /\ k # Nil /\ k \in T!Key /\ m # -1 /\ f # -1 /\ b # -1
      /\ \A p \in 0 .. n - 1 : nd[p].key \in T!Key \cup {Nil}
      /\ nd[b] \in Node
  <2>1. /\ nd \in NodesOf(n) /\ nf \in NodesOf(n) /\ k \in T!Key
        /\ m \in 0 .. n - 1 /\ f \in 0 .. n - 1 /\ b \in 0 .. n - 1
    BY DEF Inserting
  <2>2. DOMAIN nd = 0 .. n - 1 /\ DOMAIN nf = 0 .. n - 1
    BY ONLY <2>1 DEF NodesOf
  <2>3. \A p \in 0 .. n - 1 : nd[p] \in Node BY ONLY <2>1 DEF NodesOf
  <2>4. \A p \in 0 .. n - 1 : nd[p].key \in T!Key \cup {Nil}
    BY <2>3 DEF Node, T!Stored
  <2>5. k # Nil BY <2>1, NilLemma
  <2>6. m # -1 /\ f # -1 /\ b # -1
    BY <2>1 DEF Inserting
  <2> QED BY <2>1, <2>2, <2>3, <2>4, <2>5, <2>6
<1>2. nf[m].key = k /\ ~nf[m].dead /\ nf[m].val = v /\ nf[m].next = -1
  BY DEF Took
<1>3. /\ nf[b].key = nd[b].key /\ nf[b].dead = nd[b].dead
      /\ nf[b].val = nd[b].val /\ nf[b].next = f
  BY <1>1 DEF Node
<1>4. Linked(nd) /\ Kept(nd) /\ Placed(nd, mp) BY DEF Inserting, Nodes
<1>5. PICK r : Ranked(nd, r) /\ Newest(nd, r) BY DEF Inserting, Nodes
<1>6. \A p \in 0 .. n - 1 : r[p] \in Nat BY <1>1, <1>5 DEF Ranked
<1>7. /\ nd[m].key # Nil /\ ~nd[m].dead /\ f # m /\ nd[f].next = -1
      /\ b # f /\ b # m
  <2>1. nd[m].key # Nil /\ ~nd[m].dead /\ f # m /\ nd[f].next = -1
    BY <1>1, <1>4 DEF Kept
  <2>2. b # f BY <1>1, <2>1
  <2>3. r[b] < r[m] BY <1>1, <1>5 DEF Ranked
  <2> QED BY <1>1, <1>6, <2>1, <2>2, <2>3
<1>8. \A p \in 0 .. n - 1 : nd[p].next # f BY <1>1, <1>4 DEF Linked
<1>9. \A p \in 0 .. n - 1 : p # b => nd[p].next # m
  BY <1>1, <1>4 DEF Linked
<1>10. \A p \in 0 .. n - 1 : p \notin {f, m} =>
         nf[p].key = nd[p].key /\ nf[p].dead = nd[p].dead
         /\ nf[p].val = nd[p].val
  BY <1>3
<1> DEFINE From(p) == IF p = f THEN m ELSE p
<1>11. \A p \in 0 .. n - 1 : p \notin {b, m} => nf[p].next = nd[From(p)].next
  OBVIOUS
<1>12. \A p \in 0 .. n - 1 : p # m =>
         /\ nf[p].key = nd[From(p)].key /\ nf[p].dead = nd[From(p)].dead
         /\ From(p) \in 0 .. n - 1 /\ From(p) # f
  BY <1>1, <1>7, <1>10
<1>13. Linked(nf)
  <2>1. ASSUME NEW p \in 0 .. n - 1, nf[p].next # -1
        PROVE  /\ nf[p].next \in 0 .. n - 1
               /\ nf[nf[p].next].key # Nil
    <3>1. CASE p = m BY <1>2, <2>1, <3>1
    <3>2. CASE p = b BY <1>3, <1>7, <3>2
    <3>3. CASE p \notin {b, m}
      <4> DEFINE a == From(p)
      <4>1. nf[p].next = nd[a].next /\ a \in 0 .. n - 1 /\ a # b
        BY <1>1, <1>7, <1>11, <3>3
      <4> HIDE DEF a
      <4>2. /\ nd[a].next \in 0 .. n - 1 /\ nd[nd[a].next].key # Nil
            /\ nd[a].next \notin {f, m}
        BY <1>1, <1>4, <1>8, <1>9, <2>1, <4>1 DEF Linked
      <4> QED BY <1>10, <4>1, <4>2
    <3> QED BY <3>1, <3>2, <3>3
  <2>2. ASSUME NEW p \in 0 .. n - 1, NEW q \in 0 .. n - 1,
               nf[p].next = nf[q].next, nf[p].next # -1, p # q
        PROVE  FALSE
    <3>1. p # m /\ q # m BY <1>2, <2>2
    <3>2. ASSUME NEW a \in 0 .. n - 1, a \notin {b, m} PROVE nf[a].next # f
      <4>1. nf[a].next = nd[From(a)].next /\ From(a) \in 0 .. n - 1
        BY <1>1, <1>11, <3>2
      <4> QED BY <1>8, <4>1
    <3>3. p # b /\ q # b BY <1>3, <2>2, <3>1, <3>2
    <3> DEFINE a == From(p)
               c == From(q)
    <3>4. /\ nf[p].next = nd[a].next /\ nf[q].next = nd[c].next
          /\ a \in 0 .. n - 1 /\ c \in 0 .. n - 1 /\ a # c
      BY <1>1, <1>11, <2>2, <3>1, <3>3
    <3> HIDE DEF a, c
    <3>5. nd[a].next = nd[c].next /\ nd[a].next # -1 BY <2>2, <3>4
    <3> QED BY ONLY <1>1, <1>4, <3>4, <3>5 DEF Linked
  <2> QED BY <1>1, <2>1, <2>2 DEF Linked
<1>14. Kept(nf)
  <2> SUFFICES ASSUME NEW p \in 0 .. n - 1
               PROVE  /\ nf[p].key = Nil => nf[p].val = Nil /\ nf[p].next = -1
                      /\ nf[p].val # Nil => nf[p].val = nf[p].key /\ ~nf[p].dead
    BY <1>1 DEF Kept
  <2>1. CASE p = m BY <1>1, <1>2, <2>1
  <2>2. CASE p = f BY <1>1, <1>4, <2>2 DEF Kept
  <2>3. CASE p = b BY <1>1, <1>3, <1>4, <2>3 DEF Kept
  <2>4. CASE p \notin {f, m, b} BY <1>1, <1>4, <2>4 DEF Kept
  <2> QED BY <2>1, <2>2, <2>3, <2>4
<1>15. ASSUME NEW p \in 0 .. n - 1, p # m, NEW q \in Reach(nd, p)
       PROVE  (IF q = m THEN f ELSE q) \in Reach(nf, p)
  <2>1. q \in 0 .. n - 1 BY <1>1 DEF Reach
  <2>2. ASSUME NEW A \in SUBSET (0 .. n - 1), p \in A, Closed(nf, A)
        PROVE  (IF q = m THEN f ELSE q) \in A
    <3> DEFINE B == {z \in 0 .. n - 1 : IF z = m THEN f \in A ELSE z \in A}
    <3>1. ASSUME NEW z \in B, nd[z].next # -1 PROVE nd[z].next \in B
      <4>1. nd[z].next \in 0 .. n - 1 /\ z \in 0 .. n - 1
        BY <1>1, <1>4, <3>1 DEF Linked
      <4>2. CASE z = b
        <5>1. b \in A BY <1>7, <4>2
        <5>2. f \in A BY <1>1, <1>3, <2>2, <5>1 DEF Closed
        <5> QED BY <1>1, <4>2, <5>2
      <4>3. CASE z = m
        <5>1. f \in A BY <4>3
        <5>2. nf[f].next = nd[m].next OBVIOUS
        <5>3. nd[m].next \in A BY <2>2, <3>1, <4>3, <5>1, <5>2 DEF Closed
        <5>4. nd[m].next # m BY <1>1, <1>7, <1>9
        <5> QED BY <4>1, <4>3, <5>3, <5>4
      <4>4. CASE z \notin {b, m}
        <5>1. z # f /\ z \in A BY <1>7, <3>1, <4>4
        <5>2. nf[z] = nd[z] BY <4>1, <4>4, <5>1
        <5>3. nd[z].next \in A BY <2>2, <3>1, <5>1, <5>2 DEF Closed
        <5>4. nd[z].next # m BY <1>9, <4>1, <4>4
        <5> QED BY <4>1, <5>3, <5>4
      <4> QED BY <4>2, <4>3, <4>4
    <3>2. p \in B BY <1>15, <2>2
    <3>3. B \in SUBSET (DOMAIN nd) BY <1>1
    <3>4. \A z \in B : z = m => f \in A OBVIOUS
    <3>5. \A z \in B : z # m => z \in A OBVIOUS
    <3> HIDE DEF B
    <3>6. Closed(nd, B) BY <3>1 DEF Closed
    <3>7. q \in B BY <1>1, <3>2, <3>3, <3>6, ReachLeast
    <3> QED BY <3>4, <3>5, <3>7
  <2> QED BY <1>1, <2>1, <2>2 DEF Reach
<1>16. ASSUME NEW q \in 0 .. n - 1, nd[q].key # Nil
       PROVE  /\ mp[nd[q].key] \in 0 .. n - 1
              /\ mp[nd[q].key] # m /\ mp[nd[q].key] # f
              /\ nf[mp[nd[q].key]].key = nd[mp[nd[q].key]].key
  <2> DEFINE h == mp[nd[q].key]
  <2>1. h \in 0 .. n - 1 BY <1>1, <1>16 DEF Inserting
  <2>2. nd[h].key # Nil /\ mp[nd[h].key] = h BY <1>1, <1>4, <1>16 DEF Placed
  <2> HIDE DEF h
  <2>3. h # m /\ h # f BY <2>2
  <2>4. nf[h].key = nd[h].key BY <1>10, <2>1, <2>3
  <2> QED BY <2>1, <2>3, <2>4 DEF h
<1>17. Placed(nf, mp)
  <2> SUFFICES ASSUME NEW q \in 0 .. n - 1, nf[q].key # Nil
               PROVE  /\ q \in Reach(nf, mp[nf[q].key])
                      /\ nf[mp[nf[q].key]].key # Nil
                      /\ mp[nf[mp[nf[q].key]].key] = mp[nf[q].key]
    BY <1>1 DEF Placed
  <2>1. CASE q = m
    <3>1. mp[nf[q].key] = m BY <1>2, <2>1
    <3>2. m \in Reach(nf, m) BY <1>1, ReachSelf
    <3>3. nf[m].key # Nil /\ mp[nf[m].key] = m BY <1>1, <1>2
    <3> QED BY ONLY <2>1, <3>1, <3>2, <3>3
  <2>2. CASE q # m
    <3> DEFINE a == From(q)
               h == mp[nd[a].key]
    <3>1. nf[q].key = nd[a].key /\ a \in 0 .. n - 1 /\ a # f
      BY <1>12, <2>2
    <3>2. q = (IF a = m THEN f ELSE a) BY <2>2
    <3> HIDE DEF a
    <3>3. h \in 0 .. n - 1 /\ h # m /\ nf[h].key = nd[h].key
      BY <1>16, <3>1
    <3>4. a \in Reach(nd, h) /\ nd[h].key # Nil /\ mp[nd[h].key] = h
      BY <1>1, <1>4, <3>1 DEF Placed
    <3>5. mp[nf[q].key] = h BY <3>1
    <3> HIDE DEF h
    <3>6. q \in Reach(nf, h) BY <1>15, <3>2, <3>3, <3>4
    <3> QED BY <3>3, <3>4, <3>5, <3>6
  <2> QED BY <2>1, <2>2
<1>18. \E t : Ranked(nf, t) /\ Newest(nf, t)
  <2> DEFINE t == [p \in 0 .. n - 1 |-> r[From(p)]]
  <2>1. t \in [0 .. n - 1 -> Nat] BY <1>1, <1>6
  <2>2. \A p \in 0 .. n - 1 : t[p] = r[From(p)] OBVIOUS
  <2> HIDE DEF t
  <2>3. ASSUME NEW p \in 0 .. n - 1, nf[p].next # -1
        PROVE  t[p] < t[nf[p].next]
    <3>1. CASE p = m BY <1>2, <2>3, <3>1
    <3>2. CASE p = b
      <4>1. t[p] = r[b] /\ t[f] = r[m] /\ nf[p].next = f
        BY <1>3, <1>7, <2>2, <3>2
      <4>2. r[b] < r[m] BY <1>1, <1>5 DEF Ranked
      <4> QED BY <4>1, <4>2
    <3>3. CASE p \notin {b, m}
      <4> DEFINE a == From(p)
      <4>1. /\ nf[p].next = nd[a].next /\ a \in 0 .. n - 1 /\ a # b
            /\ t[p] = r[a]
        BY <1>1, <1>7, <1>11, <2>2, <3>3
      <4> HIDE DEF a
      <4>2. /\ nd[a].next \in 0 .. n - 1 /\ r[a] < r[nd[a].next]
            /\ nd[a].next \notin {f, m}
        BY <1>1, <1>4, <1>5, <1>8, <1>9, <2>3, <4>1 DEF Linked, Ranked
      <4>3. t[nd[a].next] = r[nd[a].next] BY <2>2, <4>2
      <4> QED BY <4>1, <4>2, <4>3
    <3> QED BY <3>1, <3>2, <3>3
  <2>4. Ranked(nf, t) BY <1>1, <2>1, <2>3 DEF Ranked
  <2>5. ASSUME NEW q \in 0 .. n - 1, q # m PROVE nf[q].key # k
    <3>1. nf[q].key = nd[From(q)].key /\ From(q) \in 0 .. n - 1
      BY <1>12, <2>5
    <3> QED BY <1>1, <1>16, <3>1
  <2>6. ASSUME NEW p \in 0 .. n - 1, NEW q \in 0 .. n - 1,
               nf[p].key = nf[q].key, nf[p].key # Nil, ~nf[p].dead, p # q
        PROVE  nf[q].dead /\ t[p] < t[q]
    <3>1. p # m /\ q # m BY <1>2, <2>5, <2>6
    <3> DEFINE a == From(p)
               c == From(q)
    <3>2. /\ a \in 0 .. n - 1 /\ c \in 0 .. n - 1 /\ a # c
          /\ nf[p].key = nd[a].key /\ nf[q].key = nd[c].key
          /\ nf[p].dead = nd[a].dead /\ nf[q].dead = nd[c].dead
          /\ t[p] = r[a] /\ t[q] = r[c]
      BY <1>12, <2>2, <2>6, <3>1
    <3> HIDE DEF a, c
    <3> QED BY <1>1, <1>5, <2>6, <3>2 DEF Newest
  <2>7. Newest(nf, t) BY <1>1, <2>6 DEF Newest
  <2> QED BY <2>4, <2>7
<1> QED BY <1>13, <1>14, <1>17, <1>18 DEF Nodes

(* A value is stored in, or taken from, a node, or its key becomes dead.   *)
LEMMA SameKeysLemma ==
  ASSUME NEW n \in Nat, NEW nd \in NodesOf(n),
         NEW mp \in [T!Key -> 0 .. n - 1], Nodes(nd, mp),
         NEW nf \in NodesOf(n), Kept(nf),
         \A p \in 0 .. n - 1 :
           /\ nf[p].key = nd[p].key /\ nf[p].next = nd[p].next
           /\ nd[p].dead => nf[p].dead
  PROVE  Nodes(nf, mp)
<1>1. DOMAIN nd = 0 .. n - 1 /\ DOMAIN nf = 0 .. n - 1 BY DEF NodesOf
<1>2. Linked(nd) /\ Placed(nd, mp) BY DEF Nodes
<1>3. Linked(nf)
  <2>1. ASSUME NEW p \in 0 .. n - 1
        PROVE  /\ nf[p].next \in 0 .. n - 1 \cup {-1}
               /\ nf[p].next # -1 => nf[nf[p].next].key # Nil
    <3>1. nf[p].next = nd[p].next /\ nd[p].next \in 0 .. n - 1 \cup {-1}
      BY <1>1, <1>2 DEF Linked
    <3>2. nd[p].next # -1 => nd[nd[p].next].key # Nil
      BY <1>1, <1>2 DEF Linked
    <3> QED BY <3>1, <3>2
  <2>2. \A p, q \in 0 .. n - 1 :
          nf[p].next = nf[q].next /\ nf[p].next # -1 => p = q
    BY <1>1, <1>2 DEF Linked
  <2> QED BY <1>1, <2>1, <2>2 DEF Linked
<1>4. ASSUME NEW q \in 0 .. n - 1, nf[q].key # Nil
      PROVE  /\ q \in Reach(nf, mp[nf[q].key])
             /\ nf[mp[nf[q].key]].key # Nil
             /\ mp[nf[mp[nf[q].key]].key] = mp[nf[q].key]
  <2> DEFINE h == mp[nd[q].key]
  <2>1. nf[q].key = nd[q].key BY <1>4
  <2>2. q \in Reach(nd, h) /\ nd[h].key # Nil /\ mp[nd[h].key] = h
    BY <1>1, <1>2, <1>4, <2>1 DEF Placed
  <2>3. Reach(nf, h) = Reach(nd, h) BY <1>1, ReachSame
  <2>4. nf[q].key \in T!Key BY <1>4 DEF NodesOf, Node, T!Stored
  <2>5. h \in 0 .. n - 1 BY <2>1, <2>4
  <2>6. nf[h].key = nd[h].key BY <2>5
  <2> QED BY <2>1, <2>2, <2>3, <2>6
<1>5. PICK r : Ranked(nd, r) /\ Newest(nd, r) BY DEF Nodes
<1>6. Ranked(nf, r) BY <1>1, <1>5 DEF Ranked
<1>7. Newest(nf, r) BY <1>1, <1>5 DEF Newest
<1>8. Placed(nf, mp) BY <1>1, <1>4 DEF Placed
<1> QED BY <1>3, <1>6, <1>7, <1>8 DEF Nodes

-----------------------------------------------------------------------------
(* The chains of LuaTable.                                                 *)

Positions(tab) == [k \in T!Key |-> T!mainposition(tab, k)]

LEMMA CardLemma ==
  ASSUME NEW A
  PROVE  T!Cardinality(A) = Cardinality(A)
BY DEF T!Cardinality, Cardinality

LEMMA SizeLemma ==
  ASSUME NEW tab, NEW n \in Nat, DOMAIN tab.node = 0 .. n - 1
  PROVE  T!Size(tab) = n
<1>1. n \in Int /\ 0 \in Int /\ n - 1 \in Int /\ n >= 0 OBVIOUS
<1>2. Cardinality(0 .. n - 1) = IF 0 > n - 1 THEN 0 ELSE n - 1 - 0 + 1
  BY <1>1, FS_Interval, ZenonT(30)
<1>3. Cardinality(0 .. n - 1) = n BY <1>1, <1>2
<1> QED BY <1>3, CardLemma DEF T!Size

LEMMA PositionLemma ==
  ASSUME NEW tab, NEW n \in Nat \ {0}, T!Size(tab) = n, NEW k \in T!Key,
         hash \in [Strings -> HashValues]
  PROVE  T!mainposition(tab, k) \in 0 .. n - 1
<1>1. CASE k \in T!Integer
  <2>1. k \in Nat BY <1>1, PartsAssumption DEF T!Integer, T!TableAssumption
  <2> QED BY <1>1, <2>1 DEF T!mainposition
<1>2. CASE k \notin T!Integer
  <2>1. hash[k] \in Nat
    BY <1>2, PartsAssumption DEF T!Key, T!TableAssumption
  <2> QED BY <1>2, <2>1 DEF T!mainposition
<1> QED BY <1>1, <1>2

LEMMA PathLemma ==
  ASSUME NEW tab, NEW n \in Nat, T!Size(tab) = n, tab.node \in NodesOf(n),
         Linked(tab.node), NEW p \in 0 .. n - 1
  PROVE  /\ T!Chain(tab, p) \in [0 .. n -> 0 .. n - 1 \cup {-1}]
         /\ T!Chain(tab, p)[0] = p
         /\ \A i \in 1 .. n : T!Chain(tab, p)[i] =
              IF T!Chain(tab, p)[i - 1] = -1 THEN -1
              ELSE tab.node[T!Chain(tab, p)[i - 1]].next
<1> DEFINE nd == tab.node
           R == 0 .. n - 1 \cup {-1}
           step == [i \in 1 .. n |->
                      [q \in R |-> IF q = -1 THEN -1 ELSE nd[q].next]]
           c == T!Chain(tab, p)
<1>1. DOMAIN nd = 0 .. n - 1 BY DEF NodesOf
<1>2. \A q \in 0 .. n - 1 : nd[q].next \in R BY <1>1 DEF Linked
<1> HIDE DEF nd
<1>3. step \in [1 .. n -> [R -> R]] BY <1>2
<1>4. p \in R OBVIOUS
<1>5. \A i \in 1 .. n, q \in R :
        step[i][q] = IF q = -1 THEN -1 ELSE nd[q].next
  OBVIOUS
<1> HIDE DEF step, R
<1>6. PICK f \in [0 .. n -> R] :
        f[0] = p /\ \A i \in 1 .. n : f[i] = step[i][f[i - 1]]
  <2>1. Steps(n, R, p, step) BY <1>3, <1>4 DEF Steps
  <2> QED BY <2>1, StepsLemma DEF Stepwise
<1>7. ASSUME NEW i \in 1 .. n
      PROVE  f[i] = IF f[i - 1] = -1 THEN -1 ELSE nd[f[i - 1]].next
  <2>1. f[i - 1] \in R BY <1>6
  <2> QED BY <1>5, <1>6, <2>1
<1>8. f = [i \in 0 .. n |-> IF i = 0 THEN p
                            ELSE IF f[i - 1] = -1 THEN -1
                            ELSE nd[f[i - 1]].next]
  BY <1>6, <1>7
<1>9. c = CHOOSE at : at = [i \in 0 .. n |-> IF i = 0 THEN p
                            ELSE IF at[i - 1] = -1 THEN -1
                            ELSE nd[at[i - 1]].next]
  BY DEF T!Chain, T!End, nd
<1>10. c = [i \in 0 .. n |-> IF i = 0 THEN p ELSE IF c[i - 1] = -1 THEN -1
                             ELSE nd[c[i - 1]].next]
  <2> HIDE DEF c
  <2> QED BY <1>8, <1>9
<1> HIDE DEF c
<1>11. c[0] = p BY <1>10
<1>12. ASSUME NEW i \in 1 .. n
       PROVE  c[i] = IF c[i - 1] = -1 THEN -1 ELSE nd[c[i - 1]].next
  BY <1>10
<1> DEFINE A == {i \in 0 .. n : c[i] \in R}
<1>13. 0 \in A BY <1>4, <1>11
<1>14. ASSUME NEW i \in 1 .. n, i - 1 \in A PROVE i \in A
  BY <1>2, <1>12, <1>14 DEF R
<1> HIDE DEF A
<1>15. 0 .. n \subseteq A BY <1>13, <1>14, UpLemma
<1>16. \A i \in 0 .. n : c[i] \in R BY <1>15 DEF A
<1>17. c \in [0 .. n -> R] BY <1>10, <1>16
<1> QED BY <1>11, <1>12, <1>17 DEF c, R, nd

(* The chain from p goes through what p reaches, in the order of r, and    *)
(* ends within n steps.                                                    *)
Sized(tab, n, r) ==
  /\ n \in Nat /\ T!Size(tab) = n /\ tab.node \in NodesOf(n)
  /\ Linked(tab.node) /\ Ranked(tab.node, r)
Follows(c, nd, n, r, p) ==
  /\ \A i \in 0 .. n : c[i] # -1 => c[i] \in Reach(nd, p)
  /\ \A j \in 0 .. n : \A i \in 0 .. j - 1 :
       c[j] # -1 => c[i] # -1 /\ r[c[i]] < r[c[j]]
  /\ \A q \in Reach(nd, p) : \E i \in 0 .. n : c[i] = q
LEMMA PathReach ==
  ASSUME NEW tab, NEW n, NEW r, Sized(tab, n, r), NEW p \in 0 .. n - 1
  PROVE  Follows(T!Chain(tab, p), tab.node, n, r, p)
<1> USE DEF Sized
<1> DEFINE nd == tab.node
           c  == T!Chain(tab, p)
<1>1. /\ DOMAIN nd = 0 .. n - 1 /\ Linked(nd) /\ Ranked(nd, r)
  BY DEF NodesOf
<1>2. /\ c \in [0 .. n -> 0 .. n - 1 \cup {-1}] /\ c[0] = p
      /\ \A i \in 1 .. n : c[i] = IF c[i - 1] = -1 THEN -1
                                  ELSE nd[c[i - 1]].next
  BY PathLemma
<1> HIDE DEF nd, c
<1>3. \A i \in 0 .. n : c[i] # -1 => c[i] \in 0 .. n - 1 BY <1>2
<1>4. \A i \in 0 .. n : c[i] # -1 => c[i] \in Reach(nd, p)
  <2> DEFINE A == {i \in 0 .. n : c[i] # -1 => c[i] \in Reach(nd, p)}
  <2>1. 0 \in A BY <1>1, <1>2, ReachSelf
  <2>2. ASSUME NEW i \in 1 .. n, i - 1 \in A PROVE i \in A
    <3>1. SUFFICES ASSUME c[i] # -1 PROVE c[i] \in Reach(nd, p) OBVIOUS
    <3>2. c[i - 1] # -1 /\ c[i] = nd[c[i - 1]].next BY <1>2, <3>1
    <3>3. c[i - 1] \in Reach(nd, p) BY <2>2, <3>2
    <3> QED BY <1>1, <3>1, <3>2, <3>3, ReachNext
  <2> HIDE DEF A
  <2>3. 0 .. n \subseteq A BY <2>1, <2>2, UpLemma
  <2> QED BY <2>3 DEF A
<1>5. \A j \in 0 .. n : \A i \in 0 .. j - 1 :
        c[j] # -1 => c[i] # -1 /\ r[c[i]] < r[c[j]]
  <2> DEFINE A == {j \in 0 .. n : \A i \in 0 .. j - 1 :
                     c[j] # -1 => c[i] # -1 /\ r[c[i]] < r[c[j]]}
  <2>1. 0 \in A OBVIOUS
  <2>2. ASSUME NEW j \in 1 .. n, j - 1 \in A PROVE j \in A
    <3>1. SUFFICES ASSUME NEW i \in 0 .. j - 1, c[j] # -1
                   PROVE  c[i] # -1 /\ r[c[i]] < r[c[j]]
      OBVIOUS
    <3>2. c[j - 1] # -1 /\ c[j] = nd[c[j - 1]].next BY <1>2, <3>1
    <3>3. r[c[j - 1]] < r[c[j]] BY <1>1, <1>3, <3>1, <3>2 DEF Ranked
    <3>4. CASE i = j - 1 BY <3>2, <3>3, <3>4
    <3>5. CASE i # j - 1
      <4>1. c[i] # -1 /\ r[c[i]] < r[c[j - 1]] BY <2>2, <3>2, <3>5
      <4>2. {r[c[i]], r[c[j - 1]], r[c[j]]} \subseteq Nat
        <5>1. r \in [0 .. n - 1 -> Nat] BY <1>1 DEF Ranked
        <5>2. {c[i], c[j - 1], c[j]} \subseteq 0 .. n - 1
          BY <1>3, <3>1, <3>2, <4>1
        <5> QED BY ONLY <5>1, <5>2
      <4> QED BY <3>3, <4>1, <4>2
    <3> QED BY <3>4, <3>5
  <2> HIDE DEF A
  <2>3. 0 .. n \subseteq A BY <2>1, <2>2, UpLemma
  <2> QED BY <2>3 DEF A
<1>6. c[n] = -1
  <2> SUFFICES ASSUME c[n] # -1 PROVE FALSE OBVIOUS
  <2>1. \A i \in 0 .. n : c[i] # -1 BY <1>5
  <2>2. c \in [0 .. n -> 0 .. n - 1] BY <1>2, <2>1
  <2>3. /\ IsFiniteSet(0 .. n) /\ IsFiniteSet(0 .. n - 1)
        /\ Cardinality(0 .. n) = n + 1 /\ Cardinality(0 .. n - 1) = n
    <3>1. n \in Int /\ n - 1 \in Int /\ 0 \in Int OBVIOUS
    <3> QED BY ONLY n \in Nat, <3>1, FS_Interval
  <2>4. Cardinality(0 .. n - 1) < Cardinality(0 .. n) BY <2>3
  <2>5. PICK i, j \in 0 .. n : i # j /\ c[i] = c[j]
    BY ONLY <2>2, <2>3, <2>4, FS_PigeonHole
  <2>6. r[c[i]] \in Nat BY <1>1, <2>2 DEF Ranked
  <2>7. i \in 0 .. j - 1 \/ j \in 0 .. i - 1 BY <2>5
  <2> QED BY <1>5, <2>1, <2>5, <2>6, <2>7
<1>7. ASSUME NEW q \in Reach(nd, p) PROVE \E i \in 0 .. n : c[i] = q
  <2> DEFINE A == {z \in DOMAIN nd : \E i \in 0 .. n : c[i] = z}
  <2>1. ASSUME NEW z \in A, nd[z].next # -1 PROVE nd[z].next \in A
    <3>1. PICK i \in 0 .. n : c[i] = z OBVIOUS
    <3>2. z # -1 /\ i # n BY <1>1, <1>6, <3>1
    <3>3. i + 1 \in 1 .. n BY <3>2
    <3>4. c[i + 1] = nd[z].next BY <1>2, <3>1, <3>2, <3>3
    <3>5. nd[z].next \in DOMAIN nd BY <1>1, <2>1 DEF Linked
    <3> QED BY <3>3, <3>4, <3>5
  <2>2. p \in A BY <1>1, <1>2
  <2>3. A \in SUBSET (DOMAIN nd) OBVIOUS
  <2> HIDE DEF A
  <2>4. Closed(nd, A) BY <2>1 DEF Closed
  <2>5. q \in A BY <1>1, <2>2, <2>3, <2>4, ReachLeast
  <2> QED BY <2>5 DEF A
<1> QED BY <1>4, <1>5, <1>7 DEF nd, c, Follows

(* The first node of the chain of k that is one of some.                   *)
LEMMA FirstLemma ==
  ASSUME NEW tab, NEW n, NEW r, Sized(tab, n, r), NEW k,
         NEW p \in 0 .. n - 1, p = T!mainposition(tab, k),
         NEW some \in SUBSET (0 .. n - 1)
  PROVE  /\ some \cap Reach(tab.node, p) = {} => T!First(tab, k, some) = -1
         /\ \A q \in some \cap Reach(tab.node, p) :
              (\A z \in some \cap Reach(tab.node, p) : r[q] <= r[z])
              => T!First(tab, k, some) = q
<1> DEFINE c == T!Chain(tab, p)
           hits == {i \in 0 .. n : c[i] \in some}
           W == some \cap Reach(tab.node, p)
<1>0. n \in Nat BY DEF Sized
<1>1. T!First(tab, k, some) = IF hits = {} THEN -1 ELSE c[T!Min(hits)]
  BY DEF T!First, T!End, Sized
<1>2. /\ \A i \in 0 .. n : c[i] # -1 => c[i] \in Reach(tab.node, p)
      /\ \A j \in 0 .. n : \A i \in 0 .. j - 1 :
           c[j] # -1 => c[i] # -1 /\ r[c[i]] < r[c[j]]
      /\ \A q \in Reach(tab.node, p) : \E i \in 0 .. n : c[i] = q
  BY PathReach DEF Follows
<1> HIDE DEF c
<1>3. \A i \in hits : c[i] \in W /\ c[i] # -1 BY <1>2
<1>4. W = {} => hits = {} BY <1>3
<1>5. ASSUME NEW q \in W, \A z \in W : r[q] <= r[z]
      PROVE  hits # {} /\ c[T!Min(hits)] = q
  <2>1. PICK j \in 0 .. n : c[j] = q BY <1>2
  <2>2. j \in hits BY <2>1
  <2>3. hits \in SUBSET Nat OBVIOUS
  <2> HIDE DEF hits, W
  <2> DEFINE i == T!Min(hits)
  <2>4. i \in hits /\ i <= j BY <2>2, <2>3, MinLemma
  <2> HIDE DEF i
  <2>5. c[i] \in W /\ i \in Nat BY <1>3, <2>3, <2>4
  <2>6. r[q] <= r[c[i]] BY <1>5, <2>5
  <2>7. c[j] # -1 BY <1>3, <2>2
  <2>8. i < j => r[c[i]] < r[q] BY <1>2, <2>1, <2>5, <2>7
  <2>9. W \subseteq DOMAIN tab.node BY DEF W, Reach
  <2>10. r[q] \in Nat /\ r[c[i]] \in Nat BY <2>5, <2>9 DEF Ranked, Sized
  <2>11. i = j BY <2>4, <2>5, <2>6, <2>8, <2>10
  <2> QED BY <2>1, <2>2, <2>11 DEF i
<1> QED BY <1>1, <1>4, <1>5

-----------------------------------------------------------------------------
(* Looking up a key.                                                       *)

Tab == [array : Seq(T!Stored), node : UNION {NodesOf(n) : n \in Nat},
        free : Nat]
ArrayOK(tab) ==
  /\ Len(tab.array) <= 2 * MaxIndex
  /\ \A i \in 1 .. Len(tab.array) :
       tab.array[i] \in (IF i \in T!Integer THEN {i, Nil} ELSE {Nil})

(* What is true of every table of a program.                               *)
Good(tab) ==
  /\ tab \in Tab /\ ArrayOK(tab)
  /\ tab.node \in NodesOf(T!Size(tab)) /\ T!Size(tab) \in Nat
  /\ tab.free <= T!Size(tab)
  /\ \A p \in DOMAIN tab.node :
       /\ tab.node[p].key # Nil => ~T!InArray(tab, tab.node[p].key)
       /\ p >= tab.free => tab.node[p].key # Nil
  /\ Nodes(tab.node, Positions(tab))
Hashed == hash \in [Strings -> HashValues]

Live(tab, k) == {p \in T!Holding(tab, k) : ~tab.node[p].dead}

LEMMA PositionsLemma ==
  ASSUME NEW tab, T!Size(tab) \in Nat \ {0}, Hashed
  PROVE  Positions(tab) \in [T!Key -> 0 .. T!Size(tab) - 1]
BY PositionLemma DEF Positions, Hashed

LEMMA NodeLemma ==
  ASSUME NEW tab, Good(tab), Hashed, NEW k \in T!Key
  PROVE  /\ Live(tab, k) = {} => T!NodeOf(tab, k) = -1
         /\ \A p \in Live(tab, k) :
              /\ T!NodeOf(tab, k) = p /\ Live(tab, k) = {p}
              /\ p \in DOMAIN tab.node /\ tab.node[p].key = k
<1> DEFINE n == T!Size(tab)
           nd == tab.node
           A == Live(tab, k)
           h == T!mainposition(tab, k)
<1>1. DOMAIN nd = 0 .. n - 1 /\ n \in Nat BY DEF Good, NodesOf
<1>2. A \in SUBSET (0 .. n - 1) BY <1>1 DEF Live, T!Holding
<1>3. T!NodeOf(tab, k) = T!First(tab, k, A)
  BY DEF T!NodeOf, Live
<1>4. CASE n = 0
  <2>1. A = {} BY <1>2, <1>4
  <2>2. T!First(tab, k, A) = -1 BY <1>4 DEF T!First, T!End
  <2> QED BY <1>3, <2>1, <2>2
<1>5. CASE n # 0
  <2>1. PICK r : Ranked(nd, r) /\ Newest(nd, r) BY DEF Good, Nodes
  <2>2. Sized(tab, n, r) BY <2>1 DEF Sized, Good, Nodes
  <2>3. h \in 0 .. n - 1 BY <1>1, <1>5, PositionLemma DEF Hashed
  <2>4. Positions(tab)[k] = h BY DEF Positions
  <2>5. ASSUME NEW p \in A
        PROVE  /\ p \in Reach(nd, h) /\ A = {p}
               /\ p \in DOMAIN nd /\ nd[p].key = k
    <3>1. p \in DOMAIN nd /\ nd[p].key = k /\ k # Nil
      BY NilLemma DEF Live, T!Holding
    <3>2. p \in Reach(nd, h)
      BY <2>4, <3>1 DEF Good, Nodes, Placed
    <3>3. \A q \in A : q = p
      BY <2>1, <3>1 DEF Live, T!Holding, Newest
    <3> QED BY <3>1, <3>2, <3>3
  <2> HIDE DEF A, h, n, nd
  <2>6. A = {} => T!First(tab, k, A) = -1
    <3>1. A \cap Reach(tab.node, h) \subseteq A OBVIOUS
    <3>2. A = {} => A \cap Reach(tab.node, h) = {} BY <3>1
    <3> QED BY <1>2, <2>2, <2>3, <3>2, FirstLemma DEF h
  <2>7. ASSUME NEW p \in A PROVE T!First(tab, k, A) = p
    <3>1. A \cap Reach(tab.node, h) = {p} BY <2>5 DEF nd
    <3>2. r[p] <= r[p] BY <1>1, <2>1, <2>5 DEF Ranked
    <3> QED BY <1>2, <2>2, <2>3, <3>1, <3>2, FirstLemma DEF h
  <2> QED BY <1>3, <2>5, <2>6, <2>7 DEF A, nd
<1> QED BY <1>4, <1>5

(* luaH_get() finds what the array or the one live node of k holds.        *)
LEMMA GetLemma ==
  ASSUME NEW tab, Good(tab), Hashed, NEW k \in T!Key
  PROVE  /\ T!InArray(tab, k) => T!luaH_get(tab, k) = tab.array[k]
         /\ T!HasNode(tab, k) <=> Live(tab, k) # {}
         /\ ~T!InArray(tab, k) /\ Live(tab, k) = {} =>
              T!luaH_get(tab, k) = Nil
         /\ ~T!InArray(tab, k) => \A p \in Live(tab, k) :
              T!luaH_get(tab, k) = tab.node[p].val
<1>1. \A p \in DOMAIN tab.node : p # -1 BY DEF Good, NodesOf
<1>2. \A p \in Live(tab, k) : p # -1 BY <1>1 DEF Live, T!Holding
<1>3. T!HasNode(tab, k) <=> Live(tab, k) # {}
  BY <1>2, NodeLemma DEF T!HasNode, T!End
<1> QED BY <1>3, NodeLemma DEF T!luaH_get

(* The values that nodes hold, and the keys they have.                     *)
Vals(nd) == {nd[p].val : p \in DOMAIN nd} \ {Nil}
Keys(nd) == {nd[p].key : p \in DOMAIN nd} \ {Nil}
Packed(nd) == \A p \in DOMAIN nd : nd[p].key # Nil => nd[p].val # Nil

(* A value is its key: a key that is not in the array has itself or nil.   *)
LEMMA ValueLemma ==
  ASSUME NEW tab, Good(tab), Hashed, NEW k \in T!Key, ~T!InArray(tab, k)
  PROVE  T!luaH_get(tab, k) = IF k \in Vals(tab.node) THEN k ELSE Nil
<1>1. Kept(tab.node) BY DEF Good, Nodes
<1>2. k # Nil BY NilLemma
<1>3. CASE k \in Vals(tab.node)
  <2>1. PICK p \in DOMAIN tab.node : tab.node[p].val = k
    BY <1>3 DEF Vals
  <2>2. p \in Live(tab, k) BY <1>1, <1>2, <2>1 DEF Kept, Live, T!Holding
  <2> QED BY <1>3, <2>1, <2>2, GetLemma
<1>4. CASE k \notin Vals(tab.node)
  <2>1. CASE Live(tab, k) = {} BY <1>4, <2>1, GetLemma
  <2>2. ASSUME NEW p \in Live(tab, k) PROVE T!luaH_get(tab, k) = Nil
    <3>1. p \in DOMAIN tab.node /\ tab.node[p].key = k
      BY DEF Live, T!Holding
    <3>2. tab.node[p].val # Nil => tab.node[p].val \in Vals(tab.node)
      BY <3>1 DEF Vals
    <3>3. tab.node[p].val = Nil BY <1>1, <1>4, <3>1, <3>2 DEF Kept
    <3> QED BY <3>3, GetLemma
  <2> QED BY <1>4, <2>1, <2>2
<1> QED BY <1>3, <1>4

(* What storing v under k promises.                                        *)
Changed(nd, nf, k, v) ==
  /\ DOMAIN nf = DOMAIN nd
  /\ Vals(nf) = (Vals(nd) \ {k}) \cup ({v} \ {Nil})
  /\ Keys(nf) \subseteq Keys(nd) \cup {k}
  /\ v # Nil /\ Packed(nd) => Packed(nf)
Outcome(tab, u, k, v) ==
  /\ Good(u) /\ Len(u.array) = Len(tab.array)
  /\ DOMAIN u.node = DOMAIN tab.node
  /\ \A j \in T!Key :
       T!luaH_get(u, j) = IF j = k THEN v ELSE T!luaH_get(tab, j)
  /\ Keys(u.node) \subseteq Keys(tab.node) \cup {k}
  /\ v # Nil /\ Packed(tab.node) => Packed(u.node)

(* A change of nodes is such an outcome.                                   *)
LEMMA NodesChange ==
  ASSUME NEW tab, Good(tab), Hashed, NEW k \in T!Key, ~T!InArray(tab, k),
         NEW v \in {k, Nil}, NEW nf \in NodesOf(T!Size(tab)),
         NEW g \in Nat, g <= tab.free,
         \A p \in DOMAIN tab.node : p >= g => nf[p].key # Nil,
         Nodes(nf, Positions(tab)), Changed(tab.node, nf, k, v),
         NEW u, u = [array |-> tab.array, node |-> nf, free |-> g]
  PROVE  Outcome(tab, u, k, v)
<1> DEFINE n == T!Size(tab)
<1>1. /\ n \in Nat /\ tab \in Tab /\ DOMAIN tab.node = 0 .. n - 1
      /\ tab.free <= n
  BY DEF Good, NodesOf
<1>2. u.array = tab.array /\ u.node = nf /\ u.free = g OBVIOUS
<1>3. DOMAIN nf = 0 .. n - 1 BY DEF NodesOf
<1>4. T!Size(u) = n BY <1>1, <1>2, <1>3, SizeLemma
<1>5. Positions(u) = Positions(tab)
  BY <1>4 DEF Positions, T!mainposition
<1>6. \A j : T!InArray(u, j) <=> T!InArray(tab, j)
  BY <1>2 DEF T!InArray
<1>7. u \in Tab BY <1>1 DEF Tab
<1>8. ASSUME NEW p \in 0 .. n - 1, nf[p].key # Nil
      PROVE  ~T!InArray(u, nf[p].key)
  <2>1. nf[p].key \in Keys(nf) BY <1>3, <1>8 DEF Keys
  <2>2. nf[p].key \in Keys(tab.node) \cup {k} BY <2>1 DEF Changed
  <2>3. CASE nf[p].key \in Keys(tab.node)
    <3>1. PICK q \in DOMAIN tab.node : tab.node[q].key = nf[p].key
      BY <2>3 DEF Keys
    <3> QED BY <1>6, <1>8, <3>1 DEF Good
  <2> QED BY <1>6, <2>2, <2>3
<1>9. ArrayOK(u) BY <1>2 DEF Good, ArrayOK
<1>10. \A p \in 0 .. n - 1 : p >= g => nf[p].key # Nil BY <1>1
<1>11. g <= n BY <1>1 DEF Tab
<1>12. Good(u)
  BY <1>1, <1>2, <1>3, <1>4, <1>5, <1>7, <1>8, <1>9, <1>10, <1>11 DEF Good
<1>13. ASSUME NEW j \in T!Key
       PROVE  T!luaH_get(u, j) = IF j = k THEN v ELSE T!luaH_get(tab, j)
  <2>1. CASE T!InArray(tab, j)
    <3>1. T!luaH_get(u, j) = tab.array[j]
      BY <1>2, <1>6, <1>12, <2>1, GetLemma
    <3>2. T!luaH_get(tab, j) = tab.array[j] BY <2>1, GetLemma
    <3> QED BY <2>1, <3>1, <3>2
  <2>2. CASE ~T!InArray(tab, j)
    <3>1. T!luaH_get(u, j) = IF j \in Vals(nf) THEN j ELSE Nil
      BY <1>2, <1>6, <1>12, <2>2, ValueLemma
    <3>2. T!luaH_get(tab, j) = IF j \in Vals(tab.node) THEN j ELSE Nil
      BY <2>2, ValueLemma
    <3>3. Vals(nf) = (Vals(tab.node) \ {k}) \cup ({v} \ {Nil})
      BY DEF Changed
    <3>4. j # Nil /\ k # Nil BY NilLemma
    <3> QED BY <3>1, <3>2, <3>3, <3>4
  <2> QED BY <2>1, <2>2
<1> QED BY <1>2, <1>3, <1>12, <1>13 DEF Outcome, Changed

-----------------------------------------------------------------------------
(* newkey() and the assignment.                                            *)

(* What a node w that takes k, among nodes that only move, changes.        *)
Moved(D, nd, nf, k, v, w) ==
  /\ DOMAIN nd = D /\ DOMAIN nf = D /\ Kept(nd)
  /\ k # Nil /\ Absent(nd, k) /\ v \in {k, Nil}
  /\ w \in D /\ nf[w].key = k /\ nf[w].val = v
  /\ \A p \in D \ {w} : \E q \in D :
       nf[p].key = nd[q].key /\ nf[p].val = nd[q].val
  /\ \A q \in D : nd[q].val = Nil
                  \/ \E p \in D \ {w} : nf[p].val = nd[q].val
LEMMA ChangedLemma ==
  ASSUME NEW D, NEW nd, NEW nf, NEW k, NEW v, NEW w,
         Moved(D, nd, nf, k, v, w)
  PROVE  Changed(nd, nf, k, v)
<1> USE DEF Moved
<1>1. k \notin Vals(nd) BY DEF Vals, Kept, Absent
<1>2. ASSUME NEW y, y # Nil
      PROVE  y \in Vals(nf) <=> y \in Vals(nd) \/ y = v
  <2>1. CASE y \in Vals(nf)
    <3>1. PICK p \in D : nf[p].val = y BY <2>1 DEF Vals
    <3>2. CASE p = w BY <2>1, <3>1, <3>2
    <3>3. CASE p # w
      <4>1. PICK q \in D : nf[p].val = nd[q].val BY <3>3
      <4>2. y \in Vals(nd) BY <1>2, <3>1, <4>1 DEF Vals
      <4> QED BY <2>1, <4>2
    <3> QED BY <3>2, <3>3
  <2>2. CASE y = v
    <3>1. y \in Vals(nf) BY <1>2, <2>2 DEF Vals
    <3> QED BY <2>2, <3>1
  <2>3. CASE y \in Vals(nd)
    <3>1. PICK q \in D : nd[q].val = y BY <2>3 DEF Vals
    <3>2. PICK p \in D : nf[p].val = nd[q].val BY <1>2, <3>1
    <3>3. y \in Vals(nf) BY <1>2, <3>1, <3>2 DEF Vals
    <3> QED BY <2>3, <3>3
  <2> QED BY <2>1, <2>2, <2>3
<1>3. Vals(nf) = (Vals(nd) \ {k}) \cup ({v} \ {Nil})
  <2>1. Nil \notin Vals(nd) /\ Nil \notin Vals(nf) BY DEF Vals
  <2> QED BY <1>1, <1>2, <2>1
<1>4. ASSUME NEW y \in Keys(nf) PROVE y \in Keys(nd) \cup {k}
  <2>1. PICK p \in D : nf[p].key = y /\ y # Nil BY <1>4 DEF Keys
  <2>2. CASE p = w BY <2>1, <2>2
  <2>3. CASE p # w
    <3>1. PICK q \in D : nf[p].key = nd[q].key BY <2>3
    <3>2. y \in Keys(nd) BY <2>1, <3>1 DEF Keys
    <3> QED BY <3>2
  <2> QED BY <2>2, <2>3
<1>5. ASSUME v # Nil, Packed(nd), NEW p \in D, nf[p].key # Nil
      PROVE  nf[p].val # Nil
  <2>1. CASE p = w BY <1>5, <2>1
  <2>2. CASE p # w
    <3>1. PICK q \in D : nf[p].key = nd[q].key /\ nf[p].val = nd[q].val
      BY <2>2
    <3> QED BY <1>5, <3>1 DEF Packed
  <2> QED BY <2>1, <2>2
<1> QED BY <1>3, <1>4, <1>5 DEF Changed, Packed

(* A table into which k can be inserted.                                   *)
Inserts(tab, k, v) ==
  /\ Good(tab) /\ Hashed /\ k \in T!Key /\ v \in {k, Nil}
  /\ ~T!InArray(tab, k) /\ Live(tab, k) = {} /\ T!Size(tab) > 0

LEMMA InsertsLemma ==
  ASSUME NEW tab, NEW k, NEW v, Inserts(tab, k, v),
         NEW n, n = T!Size(tab), NEW nd, nd = tab.node,
         NEW mp, mp = Positions(tab), NEW m, m = T!mainposition(tab, k)
  PROVE  /\ n \in Nat /\ n > 0 /\ nd \in NodesOf(n) /\ DOMAIN nd = 0 .. n - 1
         /\ m \in 0 .. n - 1 /\ m = mp[k] /\ k # Nil
         /\ Inserting(n, nd, mp, k) /\ Absent(nd, k) /\ Kept(nd) /\ Linked(nd)
         /\ \A p \in 0 .. n - 1 : nd[p] \in Node
         /\ v \in T!Stored /\ k \in T!Key
         /\ tab = [array |-> tab.array, node |-> nd, free |-> tab.free]
         /\ tab.free \in Nat /\ tab.free <= n
<1> USE DEF Inserts
<1>1. n \in Nat /\ nd \in NodesOf(n) /\ DOMAIN nd = 0 .. n - 1 /\ n > 0
  BY DEF Good, NodesOf
<1>2. m \in 0 .. n - 1 BY <1>1, PositionLemma DEF Hashed
<1>3. mp \in [T!Key -> 0 .. n - 1] BY <1>1, PositionsLemma
<1>4. m = mp[k] BY DEF Positions
<1>5. k # Nil /\ v \in T!Stored BY NilLemma DEF T!Stored
<1>6. Nodes(nd, mp) BY DEF Good
<1>7. Absent(nd, k) BY DEF Live, T!Holding, Absent
<1>8. tab = [array |-> tab.array, node |-> nd, free |-> tab.free]
      /\ tab.free \in Nat /\ tab.free <= n
  BY DEF Good, Tab
<1> QED BY <1>1, <1>2, <1>3, <1>4, <1>5, <1>6, <1>7, <1>8
        DEF Inserting, NodesOf, Nodes

LEMMA TakesOver ==
  ASSUME NEW tab, NEW k, NEW v, Inserts(tab, k, v),
         tab.node[T!mainposition(tab, k)].val = Nil
  PROVE  Outcome(tab, T!newkey(tab, k, v), k, v)
<1> DEFINE n == T!Size(tab)
           nd == tab.node
           mp == Positions(tab)
           m == T!mainposition(tab, k)
           new == Took(k, v, nd[m].next)
           nf == [nd EXCEPT ![m] = new]
<1>1. /\ n \in Nat /\ n > 0 /\ nd \in NodesOf(n) /\ DOMAIN nd = 0 .. n - 1
      /\ m \in 0 .. n - 1 /\ m = mp[k] /\ k # Nil
      /\ Inserting(n, nd, mp, k) /\ Absent(nd, k) /\ Kept(nd) /\ Linked(nd)
      /\ \A p \in 0 .. n - 1 : nd[p] \in Node
      /\ v \in T!Stored /\ k \in T!Key
      /\ tab = [array |-> tab.array, node |-> nd, free |-> tab.free]
      /\ tab.free \in Nat /\ tab.free <= n
  BY InsertsLemma
<1>2. T!newkey(tab, k, v) = [tab EXCEPT !.node[m] = new]
  BY <1>1 DEF T!newkey, Took
<1> HIDE DEF new
<1>3. [tab EXCEPT !.node[m] = new] =
        [array |-> tab.array, node |-> nf, free |-> tab.free]
  BY <1>1
<1>4. new \in Node
  <2>1. nd[m].next \in Int BY <1>1 DEF Node
  <2> QED BY <1>1, <2>1 DEF new, Took, Node, T!Stored
<1>5. /\ nf \in NodesOf(n) /\ nf[m] = new /\ DOMAIN nf = 0 .. n - 1
      /\ \A p \in (0 .. n - 1) \ {m} : nf[p] = nd[p]
  BY <1>1, <1>4 DEF NodesOf
<1>6. new.key = k /\ new.val = v BY DEF new, Took
<1>7. v \in {k, Nil} BY DEF Inserts
<1>8. nd[m].val = Nil OBVIOUS
<1> HIDE DEF nf, nd, mp, m, n
<1>9. new = Took(k, v, nd[m].next) BY DEF new
<1>10. Nodes(nf, mp)
  BY ONLY <1>1, <1>5, <1>7, <1>8, <1>9, OverwriteLemma
<1>11. Changed(nd, nf, k, v)
  <2>1. \A p \in (0 .. n - 1) \ {m} : \E q \in 0 .. n - 1 :
           nf[p].key = nd[q].key /\ nf[p].val = nd[q].val BY <1>5
  <2>2. \A q \in 0 .. n - 1 : nd[q].val = Nil
                      \/ \E p \in (0 .. n - 1) \ {m} : nf[p].val = nd[q].val
    BY <1>5, <1>8
  <2>3. nf[m].key = k /\ nf[m].val = v BY <1>5, <1>6
  <2>4. Moved(0 .. n - 1, nd, nf, k, v, m)
    BY <1>1, <1>5, <1>7, <2>1, <2>2, <2>3 DEF Moved
  <2> QED BY <2>4, ChangedLemma
<1>12. \A p \in DOMAIN tab.node : p >= tab.free => nf[p].key # Nil
  <2>1. \A p \in DOMAIN tab.node : p >= tab.free => nd[p].key # Nil
    BY DEF Inserts, Good, nd
  <2> QED BY <1>1, <1>5, <1>6, <2>1 DEF nd
<1> DEFINE u == T!newkey(tab, k, v)
<1> HIDE DEF u
<1>13. u = [array |-> tab.array, node |-> nf, free |-> tab.free]
  BY <1>2, <1>3 DEF u, nf, nd
<1>14. /\ Good(tab) /\ Hashed /\ k \in T!Key /\ ~T!InArray(tab, k)
       /\ nf \in NodesOf(T!Size(tab)) /\ tab.free <= tab.free
       /\ Nodes(nf, Positions(tab)) /\ Changed(tab.node, nf, k, v)
  BY <1>1, <1>5, <1>10, <1>11 DEF Inserts, nd, mp, n
<1>15. Outcome(tab, u, k, v)
  BY ONLY <1>1, <1>7, <1>12, <1>13, <1>14, NodesChange
<1> QED BY <1>15 DEF u

LEMMA FreeLemma ==
  ASSUME NEW tab, NEW k, NEW v, Inserts(tab, k, v), T!FreePos(tab) # {},
         NEW f, f = T!Max(T!FreePos(tab))
  PROVE  /\ f \in 0 .. T!Size(tab) - 1 /\ f <= tab.free /\ f \in Nat
         /\ tab.node[f].key = Nil
         /\ \A p \in DOMAIN tab.node : p > f => tab.node[p].key # Nil
<1> DEFINE n == T!Size(tab)
           A == T!FreePos(tab)
<1>1. /\ n \in Nat /\ DOMAIN tab.node = 0 .. n - 1
      /\ tab.free \in Nat /\ tab.free <= n
  BY InsertsLemma
<1>2. A \in SUBSET (0 .. n) BY <1>1 DEF T!FreePos
<1> HIDE DEF A
<1>3. f \in A /\ \A p \in A : p <= f BY <1>1, <1>2, MaxLemma DEF A
<1>4. f \in 0 .. tab.free - 1 /\ tab.node[f].key = Nil
  BY <1>3 DEF A, T!FreePos
<1>5. \A p \in 0 .. n - 1 : p >= tab.free => tab.node[p].key # Nil
  BY <1>1 DEF Inserts, Good
<1>6. ASSUME NEW p \in 0 .. tab.free - 1, p > f
      PROVE  tab.node[p].key # Nil
  <2>1. p \notin A BY <1>1, <1>3, <1>4, <1>6
  <2> QED BY <2>1 DEF A, T!FreePos
<1> QED BY <1>1, <1>4, <1>5, <1>6

LEMMA TakesFree ==
  ASSUME NEW tab, NEW k, NEW v, Inserts(tab, k, v),
         NEW m, m = T!mainposition(tab, k),
         tab.node[m].val # Nil, T!FreePos(tab) # {},
         T!mainposition(tab, tab.node[m].key) = m
  PROVE  Outcome(tab, T!newkey(tab, k, v), k, v)
<1> DEFINE n == T!Size(tab)
           nd == tab.node
           mp == Positions(tab)
           f == T!Max(T!FreePos(tab))
           new == Took(k, v, nd[m].next)
           at == [nd[m] EXCEPT !.next = f]
           nf == [p \in 0 .. n - 1 |-> IF p = f THEN new
                                       ELSE IF p = m THEN at ELSE nd[p]]
<1>1. /\ n \in Nat /\ n > 0 /\ nd \in NodesOf(n) /\ DOMAIN nd = 0 .. n - 1
      /\ m \in 0 .. n - 1 /\ m = mp[k] /\ k # Nil
      /\ Inserting(n, nd, mp, k) /\ Absent(nd, k) /\ Kept(nd) /\ Linked(nd)
      /\ \A p \in 0 .. n - 1 : nd[p] \in Node
      /\ v \in T!Stored /\ k \in T!Key
      /\ tab = [array |-> tab.array, node |-> nd, free |-> tab.free]
      /\ tab.free \in Nat /\ tab.free <= n
  BY InsertsLemma
<1>2. /\ f \in 0 .. n - 1 /\ f <= tab.free /\ f \in Nat /\ nd[f].key = Nil
      /\ \A p \in DOMAIN nd : p > f => nd[p].key # Nil
  BY FreeLemma
<1>3. nd[m].key # Nil /\ f # m BY <1>1, <1>2 DEF Kept
<1>4. T!newkey(tab, k, v) =
        [tab EXCEPT !.free = f,
                    !.node = [nd EXCEPT ![f] = new, ![m].next = f]]
  <2>1. ~(T!Size(tab) > 0 /\ tab.node[m].val = Nil) BY <1>1
  <2> HIDE DEF f
  <2> QED BY <2>1 DEF T!newkey, Took, f
<1> HIDE DEF new, f
<1>5. [nd EXCEPT ![f] = new, ![m].next = f] = nf BY <1>1, <1>2, <1>3
<1> HIDE DEF at
<1>6. new \in Node /\ at \in Node
  <2>1. nd[m].next \in Int /\ nd[m] \in Node /\ f \in Int
    BY <1>1, <1>2 DEF Node
  <2> QED BY <1>1, <2>1 DEF new, at, Took, Node, T!Stored
<1>7. /\ nf \in NodesOf(n) /\ nf[f] = new /\ nf[m] = at
      /\ DOMAIN nf = 0 .. n - 1
      /\ \A p \in (0 .. n - 1) \ {m, f} : nf[p] = nd[p]
  BY <1>1, <1>2, <1>3, <1>6 DEF NodesOf
<1>8. /\ new.key = k /\ new.val = v
      /\ at.key = nd[m].key /\ at.val = nd[m].val
  BY <1>1 DEF new, Took, at, Node
<1>9. v \in {k, Nil} BY DEF Inserts
<1>10. T!newkey(tab, k, v) = [array |-> tab.array, node |-> nf, free |-> f]
  <2> HIDE DEF nf
  <2> QED BY <1>1, <1>4, <1>5
<1>11. mp[nd[m].key] = m /\ nd[m].val # Nil
  <2>1. nd[m].key \in T!Key BY <1>1, <1>3 DEF Node, T!Stored
  <2> QED BY <2>1 DEF Positions
<1> HIDE DEF nf, nd, mp, n
<1>12. nf[f] = Took(k, v, nd[m].next) /\ nf[m] = [nd[m] EXCEPT !.next = f]
  BY <1>7 DEF new, at
<1>13. Nodes(nf, mp)
  BY ONLY <1>1, <1>2, <1>7, <1>9, <1>11, <1>12, ChainLemma
<1>14. Changed(nd, nf, k, v)
  <2> DEFINE D == 0 .. n - 1
  <2>1. ASSUME NEW p \in D \ {f}
        PROVE  nf[p].key = nd[p].key /\ nf[p].val = nd[p].val
    <3>1. CASE p = m BY <1>7, <1>8, <3>1
    <3>2. CASE p # m BY <1>7, <3>2
    <3> QED BY <3>1, <3>2
  <2>2. nd[f].val = Nil BY <1>1, <1>2 DEF Kept
  <2>3. nf[f].key = k /\ nf[f].val = v BY <1>7, <1>8
  <2>4. \A p \in D \ {f} : \E q \in D :
           nf[p].key = nd[q].key /\ nf[p].val = nd[q].val BY <2>1
  <2>5. \A q \in D : nd[q].val = Nil
                     \/ \E p \in D \ {f} : nf[p].val = nd[q].val
    BY <2>1, <2>2
  <2>6. Moved(D, nd, nf, k, v, f)
    BY <1>1, <1>2, <1>7, <1>9, <2>3, <2>4, <2>5 DEF Moved
  <2> QED BY <2>6, ChangedLemma
<1>15. \A p \in DOMAIN tab.node : p >= f => nf[p].key # Nil
  <2>1. SUFFICES ASSUME NEW p \in 0 .. n - 1, p >= f PROVE nf[p].key # Nil
    BY <1>1 DEF nd
  <2>2. CASE p = f BY <1>1, <1>7, <1>8, <2>2
  <2>3. CASE p = m BY <1>3, <1>7, <1>8, <2>3
  <2>4. CASE p # f /\ p # m
    <3>1. nf[p] = nd[p] /\ p > f BY <1>2, <1>7, <2>1, <2>4
    <3> QED BY <1>1, <1>2, <3>1
  <2> QED BY <2>2, <2>3, <2>4
<1> DEFINE u == T!newkey(tab, k, v)
<1> HIDE DEF u
<1>16. /\ Good(tab) /\ Hashed /\ k \in T!Key /\ ~T!InArray(tab, k)
       /\ nf \in NodesOf(T!Size(tab)) /\ f \in Nat /\ f <= tab.free
       /\ Nodes(nf, Positions(tab)) /\ Changed(tab.node, nf, k, v)
       /\ u = [array |-> tab.array, node |-> nf, free |-> f]
  BY <1>1, <1>2, <1>7, <1>10, <1>13, <1>14 DEF Inserts, nd, mp, n, u
<1>17. Outcome(tab, u, k, v) BY ONLY <1>9, <1>15, <1>16, NodesChange
<1> QED BY <1>17 DEF u

LEMMA TakesPlace ==
  ASSUME NEW tab, NEW k, NEW v, Inserts(tab, k, v),
         NEW m, m = T!mainposition(tab, k),
         tab.node[m].val # Nil, T!FreePos(tab) # {},
         T!mainposition(tab, tab.node[m].key) # m
  PROVE  Outcome(tab, T!newkey(tab, k, v), k, v)
<1> DEFINE n == T!Size(tab)
           nd == tab.node
           mp == Positions(tab)
           f == T!Max(T!FreePos(tab))
           b == T!First(tab, nd[m].key, {p \in DOMAIN nd : nd[p].next = m})
           new == Took(k, v, -1)
           at == [nd[b] EXCEPT !.next = f]
           nf == [p \in 0 .. n - 1 |->
                    IF p = m THEN new ELSE IF p = f THEN nd[m]
                    ELSE IF p = b THEN at ELSE nd[p]]
<1>1. /\ n \in Nat /\ n > 0 /\ nd \in NodesOf(n) /\ DOMAIN nd = 0 .. n - 1
      /\ m \in 0 .. n - 1 /\ m = mp[k] /\ k # Nil
      /\ Inserting(n, nd, mp, k) /\ Absent(nd, k) /\ Kept(nd) /\ Linked(nd)
      /\ \A p \in 0 .. n - 1 : nd[p] \in Node
      /\ v \in T!Stored /\ k \in T!Key
      /\ tab = [array |-> tab.array, node |-> nd, free |-> tab.free]
      /\ tab.free \in Nat /\ tab.free <= n
  BY InsertsLemma
<1>2. /\ f \in 0 .. n - 1 /\ f <= tab.free /\ f \in Nat /\ nd[f].key = Nil
      /\ \A p \in DOMAIN nd : p > f => nd[p].key # Nil
  BY FreeLemma
<1>3. nd[m].key # Nil /\ f # m /\ nd[f].next = -1 /\ m # -1
  BY <1>1, <1>2 DEF Kept
<1>4. mp[nd[m].key] # m /\ nd[m].val # Nil /\ nd[m].key \in T!Key
  <2>1. nd[m].key \in T!Key BY <1>1, <1>3 DEF Node, T!Stored
  <2> QED BY <2>1 DEF Positions
<1>5. b \in 0 .. n - 1 /\ nd[b].next = m /\ b # m /\ b # f
  <2> DEFINE h == T!mainposition(tab, nd[m].key)
             some == {p \in DOMAIN nd : nd[p].next = m}
  <2>1. PICK r : Ranked(nd, r) BY DEF Inserts, Good, Nodes
  <2>2. Sized(tab, n, r) BY <1>1, <2>1 DEF Sized
  <2>3. h \in 0 .. n - 1 BY <1>1, <1>4, PositionLemma DEF Inserts, Hashed
  <2>4. mp[nd[m].key] = h BY <1>4 DEF Positions
  <2>5. m \in Reach(nd, h)
    BY <1>1, <1>3, <2>4 DEF Inserting, Nodes, Placed
  <2>6. PICK q \in Reach(nd, h) : nd[q].next = m
    BY <1>1, <1>4, <2>3, <2>4, <2>5, ReachBefore
  <2>7. q \in 0 .. n - 1 /\ some = {q}
    <3>1. q \in 0 .. n - 1 BY <1>1, <2>6 DEF Reach
    <3>2. \A p \in some : p = q BY <1>1, <1>3, <2>6, <3>1 DEF Linked
    <3> QED BY <1>1, <2>6, <3>1, <3>2
  <2>8. r[q] <= r[q] BY <1>1, <2>1, <2>7 DEF Ranked
  <2>9. /\ q \in some \cap Reach(tab.node, h)
        /\ \A z \in some \cap Reach(tab.node, h) : r[q] <= r[z]
    BY <2>6, <2>7, <2>8
  <2>10. some \in SUBSET (0 .. n - 1) BY <1>1
  <2>11. b = T!First(tab, nd[m].key, some) OBVIOUS
  <2> HIDE DEF some, h, b, n
  <2>12. T!First(tab, nd[m].key, some) = q
    BY <2>2, <2>3, <2>9, <2>10, FirstLemma DEF h
  <2>13. b = q /\ nd[b].next = m BY <2>6, <2>11, <2>12
  <2>14. q # m
    <3>1. r[q] \in Nat /\ r[q] < r[m]
      BY <1>1, <1>3, <2>1, <2>6, <2>7 DEF Ranked
    <3> QED BY <3>1
  <2> QED BY <1>3, <2>7, <2>13, <2>14
<1>6. T!newkey(tab, k, v) =
        [tab EXCEPT !.free = f,
           !.node = [[nd EXCEPT ![b].next = f] EXCEPT ![f] = nd[m],
                                                      ![m] = new]]
  <2>1. ~(T!Size(tab) > 0 /\ tab.node[m].val = Nil) BY <1>1
  <2>2. T!Relink(tab, m, f) = [nd EXCEPT ![b].next = f] BY DEF T!Relink
  <2> HIDE DEF f, b
  <2> QED BY <2>1, <2>2 DEF T!newkey, Took, T!End, f
<1> HIDE DEF new, f, b
<1>7. [[nd EXCEPT ![b].next = f] EXCEPT ![f] = nd[m], ![m] = new] = nf
  BY <1>1, <1>2, <1>3, <1>5
<1> HIDE DEF at
<1>8. new \in Node /\ at \in Node
  <2>1. nd[b] \in Node /\ f \in Int BY <1>1, <1>2, <1>5
  <2> QED BY <1>1, <2>1 DEF new, at, Took, Node, T!Stored
<1>9. /\ nf \in NodesOf(n) /\ nf[m] = new /\ nf[f] = nd[m] /\ nf[b] = at
      /\ DOMAIN nf = 0 .. n - 1
      /\ \A p \in (0 .. n - 1) \ {m, f, b} : nf[p] = nd[p]
  BY <1>1, <1>2, <1>3, <1>5, <1>8 DEF NodesOf
<1>10. /\ new.key = k /\ new.val = v
       /\ at.key = nd[b].key /\ at.val = nd[b].val
  BY <1>1, <1>5 DEF new, Took, at, Node
<1>11. v \in {k, Nil} BY DEF Inserts
<1>12. T!newkey(tab, k, v) = [array |-> tab.array, node |-> nf, free |-> f]
  <2> HIDE DEF nf
  <2> QED BY <1>1, <1>6, <1>7
<1> HIDE DEF nf, nd, mp, n
<1>13. nf[b] = [nd[b] EXCEPT !.next = f] /\ nf[m] = Took(k, v, -1)
  BY <1>9 DEF new, at
<1>14. Nodes(nf, mp)
  <2>1. Moving(n, nd, mp, k, m, f, b, v, nf)
    BY <1>1, <1>2, <1>4, <1>5, <1>9, <1>11, <1>13 DEF Moving
  <2> QED BY <2>1, MoveLemma
<1>15. Changed(nd, nf, k, v)
  <2> DEFINE D == 0 .. n - 1
  <2>1. ASSUME NEW p \in D \ {m}
        PROVE  \E q \in D : nf[p].key = nd[q].key /\ nf[p].val = nd[q].val
    <3>1. CASE p = f BY <1>1, <1>9, <3>1
    <3>2. CASE p = b BY <1>9, <1>10, <3>2
    <3>3. CASE p # f /\ p # b BY <1>9, <3>3
    <3> QED BY <3>1, <3>2, <3>3
  <2>2. ASSUME NEW q \in D
        PROVE  nd[q].val = Nil \/ \E p \in D \ {m} : nf[p].val = nd[q].val
    <3>1. CASE q = m BY <1>2, <1>3, <1>9, <3>1
    <3>2. CASE q = f BY <1>1, <1>2, <3>2 DEF Kept
    <3>3. CASE q = b BY <1>5, <1>9, <1>10, <3>3
    <3>4. CASE q # m /\ q # f /\ q # b BY <1>9, <3>4
    <3> QED BY <3>1, <3>2, <3>3, <3>4
  <2>3. nf[m].key = k /\ nf[m].val = v BY <1>9, <1>10
  <2>4. Moved(D, nd, nf, k, v, m)
    BY <1>1, <1>9, <1>11, <2>1, <2>2, <2>3 DEF Moved
  <2> QED BY <2>4, ChangedLemma
<1>16. \A p \in DOMAIN tab.node : p >= f => nf[p].key # Nil
  <2>1. SUFFICES ASSUME NEW p \in 0 .. n - 1, p >= f PROVE nf[p].key # Nil
    BY <1>1 DEF nd
  <2>2. CASE p = m BY <1>1, <1>9, <1>10, <2>2
  <2>3. CASE p = f BY <1>3, <1>9, <2>3
  <2>4. CASE p # f /\ p # m
    <3>1. p > f /\ nd[p].key # Nil BY <1>1, <1>2, <2>1, <2>4
    <3>2. CASE p = b BY <1>9, <1>10, <3>1, <3>2
    <3>3. CASE p # b BY <1>9, <2>4, <3>1, <3>3
    <3> QED BY <3>2, <3>3
  <2> QED BY <2>2, <2>3, <2>4
<1> DEFINE u == T!newkey(tab, k, v)
<1> HIDE DEF u
<1>17. /\ Good(tab) /\ Hashed /\ k \in T!Key /\ ~T!InArray(tab, k)
       /\ nf \in NodesOf(T!Size(tab)) /\ f \in Nat /\ f <= tab.free
       /\ Nodes(nf, Positions(tab)) /\ Changed(tab.node, nf, k, v)
       /\ u = [array |-> tab.array, node |-> nf, free |-> f]
  BY <1>1, <1>2, <1>9, <1>12, <1>14, <1>15 DEF Inserts, nd, mp, n, u
<1>18. Outcome(tab, u, k, v) BY ONLY <1>11, <1>16, <1>17, NodesChange
<1> QED BY <1>18 DEF u

(* newkey() stores v under k, or there is no free node: every one has a    *)
(* key.                                                                    *)
LEMMA NewkeyLemma ==
  ASSUME NEW tab, Good(tab), Hashed, NEW k \in T!Key, NEW v \in {k, Nil},
         ~T!InArray(tab, k), Live(tab, k) = {}
  PROVE  \/ Outcome(tab, T!newkey(tab, k, v), k, v)
         \/ /\ T!newkey(tab, k, v) = T!Full
            /\ \A p \in DOMAIN tab.node : tab.node[p].key # Nil
<1> DEFINE m == T!mainposition(tab, k)
<1>1. T!Size(tab) \in Nat /\ DOMAIN tab.node = 0 .. T!Size(tab) - 1
      /\ tab.free \in Nat /\ tab.free <= T!Size(tab)
  BY DEF Good, NodesOf, Tab
<1>2. CASE T!Size(tab) > 0 /\ tab.node[m].val = Nil
  <2>1. Inserts(tab, k, v) BY <1>2 DEF Inserts
  <2> QED BY <1>2, <2>1, TakesOver
<1>3. CASE ~(T!Size(tab) > 0 /\ tab.node[m].val = Nil) /\ T!FreePos(tab) = {}
  <2>1. T!newkey(tab, k, v) = T!Full BY <1>3 DEF T!newkey
  <2>2. \A p \in DOMAIN tab.node : p >= tab.free => tab.node[p].key # Nil
    BY DEF Good
  <2>3. \A p \in 0 .. tab.free - 1 : tab.node[p].key # Nil
    BY <1>3 DEF T!FreePos
  <2> QED BY <1>1, <2>1, <2>2, <2>3
<1>4. CASE ~(T!Size(tab) > 0 /\ tab.node[m].val = Nil) /\ T!FreePos(tab) # {}
  <2>1. T!Size(tab) > 0 BY <1>1, <1>4 DEF T!FreePos
  <2>2. Inserts(tab, k, v) BY <2>1 DEF Inserts
  <2>3. CASE T!mainposition(tab, tab.node[m].key) = m
    BY <1>4, <2>1, <2>2, <2>3, TakesFree
  <2>4. CASE T!mainposition(tab, tab.node[m].key) # m
    BY <1>4, <2>1, <2>2, <2>4, TakesPlace
  <2> QED BY <2>3, <2>4
<1> QED BY <1>2, <1>3, <1>4

(* An assignment to the array.                                             *)
LEMMA ArrayChange ==
  ASSUME NEW tab, Good(tab), Hashed, NEW k \in T!Key, T!InArray(tab, k),
         NEW v \in {k, Nil}, NEW u, u = [tab EXCEPT !.array[k] = v]
  PROVE  Outcome(tab, u, k, v)
<1> DEFINE n == T!Size(tab)
           arr == [tab.array EXCEPT ![k] = v]
<1>1. /\ n \in Nat /\ tab \in Tab /\ DOMAIN tab.node = 0 .. n - 1
      /\ tab.array \in Seq(T!Stored) /\ Len(tab.array) \in Nat
  BY DEF Good, NodesOf, Tab
<1>2. k \in T!Integer /\ k \in 1 .. Len(tab.array)
  <2>1. k \in T!Integer /\ k <= Len(tab.array) BY DEF T!InArray
  <2>2. k \in Nat /\ k >= 1
    BY <2>1, PartsAssumption DEF T!Integer, T!TableAssumption
  <2> QED BY <1>1, <2>1, <2>2
<1>3. v \in T!Stored BY DEF T!Stored
<1>4. /\ arr \in Seq(T!Stored) /\ Len(arr) = Len(tab.array)
      /\ arr[k] = v
      /\ \A i \in 1 .. Len(tab.array) : i # k => arr[i] = tab.array[i]
  BY <1>1, <1>2, <1>3
<1>5. u = [array |-> arr, node |-> tab.node, free |-> tab.free]
  BY <1>1 DEF Tab
<1> HIDE DEF arr
<1>6. u.array = arr /\ u.node = tab.node /\ u.free = tab.free BY <1>5
<1>7. T!Size(u) = n BY <1>6 DEF T!Size
<1>8. Positions(u) = Positions(tab)
  BY <1>7 DEF Positions, T!mainposition
<1>9. \A j : T!InArray(u, j) <=> T!InArray(tab, j)
  BY <1>4, <1>6 DEF T!InArray
<1>10. u \in Tab
  <2>1. tab.node \in UNION {NodesOf(i) : i \in Nat} /\ tab.free \in Nat
    BY <1>1 DEF Tab
  <2> QED BY ONLY <1>4, <1>5, <2>1 DEF Tab
<1>11. ArrayOK(u)
  <2>1. ASSUME NEW i \in 1 .. Len(tab.array)
        PROVE  arr[i] \in (IF i \in T!Integer THEN {i, Nil} ELSE {Nil})
    <3>1. CASE i = k BY <1>2, <1>4, <3>1
    <3>2. CASE i # k BY <1>4, <3>2 DEF Good, ArrayOK
    <3> QED BY <3>1, <3>2
  <2>2. Len(tab.array) <= 2 * MaxIndex BY DEF Good, ArrayOK
  <2> QED BY <1>4, <1>6, <2>1, <2>2 DEF ArrayOK
<1>12. Good(u)
  BY <1>6, <1>7, <1>8, <1>9, <1>10, <1>11 DEF Good
<1>13. ASSUME NEW j \in T!Key
       PROVE  T!luaH_get(u, j) = IF j = k THEN v ELSE T!luaH_get(tab, j)
  <2>1. CASE T!InArray(tab, j)
    <3>1. T!luaH_get(u, j) = arr[j] BY <1>6, <1>9, <1>12, <2>1, GetLemma
    <3>2. T!luaH_get(tab, j) = tab.array[j] BY <2>1, GetLemma
    <3>3. j \in 1 .. Len(tab.array)
      <4>1. j \in T!Integer /\ j <= Len(tab.array) BY <2>1 DEF T!InArray
      <4>2. j \in Nat /\ j >= 1
        BY <4>1, PartsAssumption DEF T!Integer, T!TableAssumption
      <4> QED BY <1>1, <4>1, <4>2
    <3> QED BY <1>4, <3>1, <3>2, <3>3
  <2>2. CASE ~T!InArray(tab, j)
    <3>1. T!luaH_get(u, j) = IF j \in Vals(tab.node) THEN j ELSE Nil
      BY <1>6, <1>9, <1>12, <2>2, ValueLemma
    <3>2. T!luaH_get(tab, j) = IF j \in Vals(tab.node) THEN j ELSE Nil
      BY <2>2, ValueLemma
    <3>3. j # k BY <2>2
    <3> QED BY <3>1, <3>2, <3>3
  <2> QED BY <2>1, <2>2
<1> QED BY <1>4, <1>6, <1>12, <1>13 DEF Outcome

(* An assignment to a key that has a node.                                 *)
LEMMA NodeChange ==
  ASSUME NEW tab, Good(tab), Hashed, NEW k \in T!Key, ~T!InArray(tab, k),
         NEW w \in Live(tab, k), NEW v \in {k, Nil},
         NEW u, u = [tab EXCEPT !.node[w].val = v]
  PROVE  Outcome(tab, u, k, v)
<1> DEFINE n == T!Size(tab)
           nd == tab.node
           at == [nd[w] EXCEPT !.val = v]
           nf == [nd EXCEPT ![w] = at]
<1>1. /\ n \in Nat /\ tab \in Tab /\ DOMAIN nd = 0 .. n - 1
      /\ nd \in NodesOf(n) /\ \A p \in 0 .. n - 1 : nd[p] \in Node
      /\ Nodes(nd, Positions(tab)) /\ Kept(nd)
      /\ tab.free \in Nat /\ tab.free <= n
  BY DEF Good, NodesOf, Tab, Nodes
<1>2. w \in 0 .. n - 1 /\ nd[w].key = k /\ ~nd[w].dead
  BY <1>1 DEF Live, T!Holding
<1>3. v \in T!Stored /\ k # Nil BY NilLemma DEF T!Stored
<1>4. u = [array |-> tab.array, node |-> nf, free |-> tab.free]
  <2>1. tab = [array |-> tab.array, node |-> nd, free |-> tab.free]
    BY <1>1 DEF Tab
  <2>2. u = [tab EXCEPT !.node = nf] OBVIOUS
  <2> HIDE DEF nf, nd
  <2> QED BY <2>1, <2>2
<1>5. /\ at \in Node /\ at.key = k /\ at.val = v /\ ~at.dead
      /\ at.next = nd[w].next
  BY <1>1, <1>2, <1>3 DEF Node
<1> HIDE DEF at
<1>6. /\ nf \in NodesOf(n) /\ DOMAIN nf = 0 .. n - 1 /\ nf[w] = at
      /\ \A p \in (0 .. n - 1) \ {w} : nf[p] = nd[p]
  BY <1>1, <1>2, <1>5 DEF NodesOf
<1> HIDE DEF nf
<1>7. Kept(nf)
  <2>1. SUFFICES ASSUME NEW p \in 0 .. n - 1
                 PROVE  /\ nf[p].key = Nil => nf[p].val = Nil /\ nf[p].next = -1
                        /\ nf[p].val # Nil => nf[p].val = nf[p].key /\ ~nf[p].dead
    BY <1>6 DEF Kept
  <2>2. CASE p = w BY <1>3, <1>5, <1>6, <2>2
  <2>3. CASE p # w BY <1>1, <1>6, <2>3 DEF Kept
  <2> QED BY <2>2, <2>3
<1>8. ASSUME NEW p \in 0 .. n - 1
      PROVE  /\ nf[p].key = nd[p].key /\ nf[p].next = nd[p].next
             /\ nd[p].dead => nf[p].dead
  BY <1>2, <1>5, <1>6
<1>9. Nodes(nf, Positions(tab))
  <2>1. Positions(tab) \in [T!Key -> 0 .. n - 1] BY <1>1, <1>2, PositionsLemma
  <2> DEFINE mp == Positions(tab)
  <2> HIDE DEF mp, n, nd
  <2>2. Nodes(nf, mp)
    BY ONLY <1>1, <1>6, <1>7, <1>8, <2>1, SameKeysLemma DEF mp
  <2> QED BY <2>2 DEF mp
<1>10. Vals(nf) = (Vals(nd) \ {k}) \cup ({v} \ {Nil})
  <2>1. \A p \in 0 .. n - 1 : p # w => nd[p].val # k
    <3>1. SUFFICES ASSUME NEW p \in 0 .. n - 1, nd[p].val = k PROVE p = w
      OBVIOUS
    <3>2. p \in Live(tab, k)
      BY <1>1, <1>3, <3>1 DEF Live, T!Holding, Kept
    <3>3. Live(tab, k) = {w} BY NodeLemma
    <3> QED BY <3>2, <3>3
  <2>2. nd[w].val \in {k, Nil} BY <1>1, <1>2 DEF Kept
  <2>3. ASSUME NEW y
        PROVE  y \in Vals(nf) <=> y \in (Vals(nd) \ {k}) \cup ({v} \ {Nil})
    <3>1. y \in Vals(nf) <=> y # Nil /\ \E p \in 0 .. n - 1 : nf[p].val = y
      BY <1>6 DEF Vals
    <3>2. y \in Vals(nd) <=> y # Nil /\ \E p \in 0 .. n - 1 : nd[p].val = y
      BY <1>1 DEF Vals
    <3>3. \A p \in 0 .. n - 1 : p # w => nf[p].val = nd[p].val BY <1>6
    <3>4. nf[w].val = v BY <1>5, <1>6
    <3>5. CASE y \in Vals(nf)
      BY <1>2, <2>1, <3>1, <3>2, <3>3, <3>4, <3>5
    <3>6. CASE y = v /\ v # Nil
      BY <1>2, <3>1, <3>4, <3>6
    <3>7. CASE y \in Vals(nd) /\ y # k
      BY <1>2, <2>2, <3>1, <3>2, <3>3, <3>7
    <3> QED BY <3>5, <3>6, <3>7
  <2> QED BY <2>3
<1>11. Keys(nf) \subseteq Keys(nd) \cup {k} BY <1>1, <1>6, <1>8 DEF Keys
<1>12. v # Nil /\ Packed(nd) => Packed(nf)
  <2>1. SUFFICES ASSUME v # Nil, Packed(nd), NEW p \in 0 .. n - 1,
                        nf[p].key # Nil
                 PROVE  nf[p].val # Nil
    BY <1>6 DEF Packed
  <2>2. CASE p = w BY <1>5, <1>6, <2>1, <2>2
  <2>3. CASE p # w BY <1>1, <1>6, <2>1, <2>3 DEF Packed
  <2> QED BY <2>2, <2>3
<1>13. Changed(nd, nf, k, v) BY <1>1, <1>6, <1>10, <1>11, <1>12 DEF Changed
<1>14. \A p \in DOMAIN tab.node : p >= tab.free => nf[p].key # Nil
  BY <1>1, <1>8 DEF Good
<1> HIDE DEF nd, n
<1>15. /\ v \in {k, Nil}
       /\ Good(tab) /\ Hashed /\ k \in T!Key /\ ~T!InArray(tab, k)
       /\ nf \in NodesOf(T!Size(tab)) /\ tab.free \in Nat
       /\ tab.free <= tab.free
       /\ Nodes(nf, Positions(tab)) /\ Changed(tab.node, nf, k, v)
       /\ u = [array |-> tab.array, node |-> nf, free |-> tab.free]
  BY ONLY Good(tab), Hashed, k \in T!Key, ~T!InArray(tab, k),
          v \in {k, Nil}, <1>1, <1>4, <1>6, <1>9, <1>13 DEF nd, n
<1> QED BY ONLY <1>14, <1>15, NodesChange

(* An assignment stores v under k, or there is no room: k has no place and *)
(* every node has a key.                                                   *)
LEMMA AssignLemma ==
  ASSUME NEW tab, Good(tab), Hashed, NEW k \in T!Key, NEW v \in {k, Nil}
  PROVE  \/ Outcome(tab, T!Assign(tab, k, v), k, v)
         \/ /\ T!Assign(tab, k, v) = T!Full
            /\ ~T!InArray(tab, k) /\ Live(tab, k) = {}
            /\ \A p \in DOMAIN tab.node : tab.node[p].key # Nil
<1> DEFINE u == T!Assign(tab, k, v)
<1>1. tab # T!Full
  <2>1. tab.free \in Nat BY DEF Good, Tab
  <2>2. T!Full.free = -1 BY DEF T!Full, T!End
  <2> QED BY <2>1, <2>2
<1>2. CASE T!InArray(tab, k)
  <2>1. u = [tab EXCEPT !.array[k] = v]
    BY <1>1, <1>2 DEF T!Assign
  <2> HIDE DEF u
  <2>2. Outcome(tab, u, k, v) BY <1>2, <2>1, ArrayChange
  <2> QED BY <2>2 DEF u
<1>3. CASE ~T!InArray(tab, k) /\ Live(tab, k) # {}
  <2>1. PICK w : w \in Live(tab, k) BY <1>3
  <2>2. T!HasNode(tab, k) /\ T!NodeOf(tab, k) = w
    BY <1>3, <2>1, GetLemma, NodeLemma
  <2>3. u = [tab EXCEPT !.node[w].val = v]
    BY <1>1, <1>3, <2>2 DEF T!Assign
  <2> HIDE DEF u
  <2>4. Outcome(tab, u, k, v) BY <1>3, <2>1, <2>3, NodeChange
  <2> QED BY <2>4 DEF u
<1>4. CASE ~T!InArray(tab, k) /\ Live(tab, k) = {}
  <2>1. ~T!HasNode(tab, k) BY <1>4, GetLemma
  <2>2. u = T!newkey(tab, k, v)
    BY <1>1, <1>4, <2>1 DEF T!Assign
  <2> QED BY <1>4, <2>2, NewkeyLemma
<1> QED BY <1>2, <1>3, <1>4

-----------------------------------------------------------------------------
(* rehash() makes room.                                                    *)

LEMMA CountLemma ==
  ASSUME NEW n \in Nat
  PROVE  IsFiniteSet(0 .. n - 1) /\ Cardinality(0 .. n - 1) = n
<1>1. n \in Int /\ n - 1 \in Int /\ 0 \in Int OBVIOUS
<1> QED BY <1>1, FS_Interval

(* Nodes of which each holds a value, for keys of which there are no more  *)
(* than nodes, have room for one more of these keys.                       *)
Fits(tab, B) ==
  /\ Good(tab) /\ Hashed /\ Packed(tab.node)
  /\ IsFiniteSet(B) /\ Cardinality(B) <= T!Size(tab) /\ Keys(tab.node) \subseteq B
LEMMA RoomLemma ==
  ASSUME NEW tab, NEW B, Fits(tab, B), NEW k \in T!Key, NEW v \in {k, Nil},
         T!InArray(tab, k) \/ k \in B
  PROVE  Outcome(tab, T!Assign(tab, k, v), k, v)
<1> USE DEF Fits
<1> SUFFICES ASSUME ~T!InArray(tab, k), Live(tab, k) = {},
                    \A p \in DOMAIN tab.node : tab.node[p].key # Nil
             PROVE  FALSE
  BY AssignLemma
<1> DEFINE n == T!Size(tab)
           nd == tab.node
           D == 0 .. n - 1
           key == [p \in D |-> nd[p].key]
           J == B \ {k}
<1>1. n \in Nat /\ DOMAIN nd = D /\ Kept(nd) /\ k \in B
  BY DEF Good, NodesOf, Nodes
<1>2. PICK r : Newest(nd, r) BY DEF Good, Nodes
<1>3. \A p \in D : nd[p].key # Nil /\ ~nd[p].dead
  BY <1>1 DEF Packed, Kept
<1>4. \A p \in D : nd[p].key \in J
  <2>1. SUFFICES ASSUME NEW p \in D PROVE nd[p].key \in J OBVIOUS
  <2>2. nd[p].key \in B BY <1>1, <1>3 DEF Keys
  <2>3. nd[p].key = k => p \in Live(tab, k)
    BY <1>1, <1>3 DEF Live, T!Holding
  <2> QED BY <2>2, <2>3
<1>5. \A p, q \in D : nd[p].key = nd[q].key => p = q
  BY <1>1, <1>2, <1>3 DEF Newest
<1>6. /\ IsFiniteSet(J) /\ Cardinality(J) = Cardinality(B) - 1
      /\ Cardinality(B) \in Nat
  BY <1>1, FS_RemoveElement, FS_CardinalityType
<1>7. Cardinality(D) = n /\ IsFiniteSet(D) /\ n <= Cardinality(D)
  <2> HIDE DEF n
  <2> QED BY <1>1, CountLemma
<1>8. key \in [D -> J] BY <1>4
<1>9. \A p, q \in D : key[p] = key[q] => p = q BY <1>5
<1>10. Cardinality(B) <= n OBVIOUS
<1> HIDE DEF key, J, D, n
<1>11. key \in Injection(D, J) BY ONLY <1>8, <1>9 DEF Injection, IsInjective
<1>12. Cardinality(D) <= Cardinality(J)
  BY ONLY <1>6, <1>7, <1>11, FS_Injection
<1> QED BY <1>1, <1>6, <1>7, <1>10, <1>12

(* The powers of 2 up to the n-th: numbers of which one is not below n.    *)
LEMMA PowersLemma ==
  ASSUME NEW n \in Nat
  PROVE  T!Powers(n) \in SUBSET Nat /\ \E y \in T!Powers(n) : y >= n
<1> DEFINE step == [i \in 1 .. n |-> [q \in Nat |-> 2 * q]]
           c == CHOOSE twoto : twoto =
                  [i \in 0 .. n |-> IF i = 0 THEN 1 ELSE 2 * twoto[i - 1]]
<1>1. T!Powers(n) = {c[i] : i \in 0 .. n} BY DEF T!Powers
<1>2. step \in [1 .. n -> [Nat -> Nat]] OBVIOUS
<1>3. \A i \in 1 .. n, q \in Nat : step[i][q] = 2 * q OBVIOUS
<1> HIDE DEF step
<1>4. PICK h : h \in [0 .. n -> Nat] /\ h[0] = 1
               /\ \A i \in 1 .. n : h[i] = step[i][h[i - 1]]
  <2>1. Steps(n, Nat, 1, step) BY <1>2 DEF Steps
  <2>2. PICK h : Stepwise(h, n, Nat, 1, step) BY <2>1, StepsLemma
  <2> QED BY <2>2 DEF Stepwise
<1>5. h = [i \in 0 .. n |-> IF i = 0 THEN 1 ELSE 2 * h[i - 1]]
  <2>1. ASSUME NEW i \in 1 .. n PROVE h[i] = 2 * h[i - 1]
    <3>1. h[i - 1] \in Nat BY <1>4
    <3> QED BY <1>3, <1>4, <3>1
  <2> QED BY <1>4, <2>1
<1>6. c = [i \in 0 .. n |-> IF i = 0 THEN 1 ELSE 2 * c[i - 1]] BY <1>5
<1> HIDE DEF c
<1> DEFINE A == {i \in 0 .. n : c[i] \in Nat /\ c[i] > i}
<1>7. 0 \in A BY <1>6
<1>8. ASSUME NEW i \in 1 .. n, i - 1 \in A PROVE i \in A
  <2>1. c[i] = 2 * c[i - 1] BY <1>6
  <2> QED BY <1>8, <2>1
<1> HIDE DEF A
<1>9. 0 .. n \subseteq A BY <1>7, <1>8, UpLemma
<1>10. \A i \in 0 .. n : c[i] \in Nat /\ c[i] > i BY <1>9 DEF A
<1>11. c[n] >= n /\ n \in 0 .. n BY <1>10
<1> QED BY <1>1, <1>10, <1>11

LEMMA TwotoLemma ==
  ASSUME NEW n \in Nat
  PROVE  T!Twoto(n) \in Nat /\ T!Twoto(n) >= n
<1> DEFINE A == {y \in T!Powers(n) : y >= n}
<1>1. A \in SUBSET Nat /\ A # {} BY PowersLemma
<1>2. n # 0 => T!Twoto(n) = T!Min(A) BY DEF T!Twoto
<1> HIDE DEF A
<1>3. T!Min(A) \in A BY <1>1, MinLemma
<1>4. T!Min(A) \in Nat /\ T!Min(A) >= n BY <1>1, <1>3 DEF A
<1> QED BY <1>2, <1>4 DEF T!Twoto

(* computesizes() chooses an array of less than twice the integer keys.    *)
LEMMA SizesLemma ==
  ASSUME NEW ints \in SUBSET T!Integer
  PROVE  T!computesizes(ints) \in 0 .. 2 * MaxIndex
<1> DEFINE A == {0} \cup {n \in T!Powers(MaxIndex) :
                    /\ n \div 2 < T!Cardinality(ints)
                    /\ T!Cardinality(ints \cap 1 .. n) > n \div 2}
<1>1. MaxIndex \in Nat /\ MaxIndex > 0 BY PartsAssumption DEF T!TableAssumption
<1>2. T!Cardinality(ints) <= MaxIndex /\ T!Cardinality(ints) \in Nat
  <2>1. IsFiniteSet(1 .. MaxIndex) /\ Cardinality(1 .. MaxIndex) = MaxIndex
    BY <1>1, FS_Interval
  <2>2. ints \subseteq 1 .. MaxIndex BY DEF T!Integer
  <2>3. /\ Cardinality(ints) <= Cardinality(1 .. MaxIndex)
        /\ IsFiniteSet(ints)
    BY <2>1, <2>2, FS_Subset
  <2>4. Cardinality(ints) \in Nat BY <2>3, FS_CardinalityType
  <2> QED BY <2>1, <2>3, <2>4, CardLemma
<1>3. ASSUME NEW n \in A PROVE n \in 0 .. 2 * MaxIndex
  <2>1. CASE n = 0 BY <1>1, <2>1
  <2>2. CASE n # 0
    <3>1. n \in Nat /\ n \div 2 < T!Cardinality(ints)
      BY <1>1, <2>2, PowersLemma
    <3>2. n \div 2 < MaxIndex BY <1>1, <1>2, <3>1
    <3> QED BY <1>1, <3>1, <3>2
  <2> QED BY <2>1, <2>2
<1>4. A \in SUBSET (0 .. 2 * MaxIndex) BY <1>3
<1>5. A # {} OBVIOUS
<1>6. T!computesizes(ints) = T!Max(A) BY DEF T!computesizes
<1> HIDE DEF A
<1>7. 2 * MaxIndex \in Nat BY <1>1
<1>8. T!Max(A) \in A BY <1>4, <1>5, <1>7, MaxLemma
<1> QED BY <1>4, <1>6, <1>8

(* Storing values again: a table whose nodes hold keys of B.               *)
Holds(u, l, n, B) ==
  /\ Good(u) /\ Packed(u.node) /\ Len(u.array) = l /\ T!Size(u) = n
  /\ Keys(u.node) \subseteq B
Bounded(n, B) == Hashed /\ n \in Nat /\ IsFiniteSet(B) /\ Cardinality(B) <= n
Fitting(k, l, B) == (k \in T!Integer /\ k <= l) \/ k \in B

LEMMA AgainStep ==
  ASSUME NEW u, NEW l, NEW n, NEW B, Holds(u, l, n, B), Bounded(n, B),
         NEW k \in T!Stored, k # Nil => Fitting(k, l, B),
         NEW w, w = IF k = Nil THEN u ELSE T!Assign(u, k, k)
  PROVE  /\ Holds(w, l, n, B)
         /\ \A j \in T!Key : T!luaH_get(w, j) =
              IF j = k THEN j ELSE T!luaH_get(u, j)
<1>1. CASE k = Nil BY <1>1, NilLemma
<1>2. CASE k # Nil
  <2>1. k \in T!Key /\ w = T!Assign(u, k, k) BY <1>2 DEF T!Stored
  <2>2. Fits(u, B) BY DEF Holds, Bounded, Fits
  <2>3. T!InArray(u, k) \/ k \in B
    BY <1>2 DEF Fitting, T!InArray, Holds
  <2>4. k \in {k, Nil} OBVIOUS
  <2>5. Outcome(u, w, k, k) BY <2>1, <2>2, <2>3, <2>4, RoomLemma
  <2>6. T!Size(w) = n BY <2>5 DEF Outcome, T!Size, Holds
  <2>7. Len(w.array) = l /\ Good(w) BY <2>5 DEF Outcome, Holds
  <2>8. T!InArray(u, k) => k \notin Keys(w.node)
    <3>1. SUFFICES ASSUME T!InArray(u, k), k \in Keys(w.node) PROVE FALSE
      OBVIOUS
    <3>2. T!InArray(w, k) BY <2>7, <3>1 DEF T!InArray, Holds
    <3>3. PICK p \in DOMAIN w.node : w.node[p].key = k
      BY <3>1 DEF Keys
    <3> QED BY <1>2, <2>7, <3>2, <3>3 DEF Good
  <2>9. Keys(w.node) \subseteq B BY <2>3, <2>5, <2>8 DEF Outcome, Holds
  <2>10. Packed(w.node) BY <1>2, <2>5 DEF Outcome, Holds
  <2> QED BY <2>5, <2>6, <2>7, <2>9, <2>10 DEF Holds, Outcome
<1> QED BY <1>1, <1>2

LEMMA AgainLemma ==
  ASSUME NEW into, NEW l, NEW n, NEW B, Holds(into, l, n, B), Bounded(n, B),
         NEW s \in Seq(T!Stored),
         \A i \in 1 .. Len(s) : s[i] # Nil => Fitting(s[i], l, B)
  PROVE  /\ Holds(T!Again(s, into), l, n, B)
         /\ \A j \in T!Key : T!luaH_get(T!Again(s, into), j) =
              IF j \in {s[i] : i \in 1 .. Len(s)} THEN j
              ELSE T!luaH_get(into, j)
<1> DEFINE z == Len(s)
           R == {u \in Tab : Holds(u, l, n, B)}
           Next(i, u) == IF s[i] = Nil THEN u ELSE T!Assign(u, s[i], s[i])
           step == [i \in 1 .. z |-> [u \in R |-> Next(i, u)]]
           c == CHOOSE upto : upto = [i \in 0 .. z |->
                  IF i = 0 THEN into ELSE Next(i, upto[i - 1])]
<1>1. T!Again(s, into) = c[z] BY DEF T!Again
<1>2. z \in Nat /\ \A i \in 1 .. z : s[i] \in T!Stored OBVIOUS
<1>3. ASSUME NEW i \in 1 .. z, NEW u \in R
      PROVE  /\ Next(i, u) \in R
             /\ \A j \in T!Key : T!luaH_get(Next(i, u), j) =
                  IF j = s[i] THEN j ELSE T!luaH_get(u, j)
  <2> DEFINE w == Next(i, u)
  <2>1. Holds(u, l, n, B) /\ s[i] \in T!Stored
        /\ (s[i] # Nil => Fitting(s[i], l, B))
    BY <1>2
  <2>2. w = IF s[i] = Nil THEN u ELSE T!Assign(u, s[i], s[i]) OBVIOUS
  <2> HIDE DEF w
  <2>3. /\ Holds(w, l, n, B)
        /\ \A j \in T!Key : T!luaH_get(w, j) =
             IF j = s[i] THEN j ELSE T!luaH_get(u, j)
    BY <2>1, <2>2, AgainStep
  <2>4. w \in Tab BY <2>3 DEF Holds, Good
  <2> QED BY <2>3, <2>4 DEF w
<1> HIDE DEF Next
<1>4. step \in [1 .. z -> [R -> R]]
  <2>1. \A i \in 1 .. z, u \in R : Next(i, u) \in R BY <1>3
  <2> HIDE DEF R
  <2> QED BY <2>1
<1>5. \A i \in 1 .. z, u \in R : step[i][u] = Next(i, u) OBVIOUS
<1>6. into \in R BY DEF Holds, Good
<1> HIDE DEF R, step
<1>7. PICK h : h \in [0 .. z -> R] /\ h[0] = into
               /\ \A i \in 1 .. z : h[i] = step[i][h[i - 1]]
  <2>1. Steps(z, R, into, step) BY <1>2, <1>4, <1>6 DEF Steps
  <2> QED BY <2>1, StepsLemma DEF Stepwise
<1>8. h = [i \in 0 .. z |-> IF i = 0 THEN into ELSE Next(i, h[i - 1])]
  <2>1. ASSUME NEW i \in 1 .. z PROVE h[i] = Next(i, h[i - 1])
    <3>1. h[i - 1] \in R BY <1>7
    <3> QED BY <1>5, <1>7, <3>1
  <2> QED BY <1>7, <2>1
<1>9. c = [i \in 0 .. z |-> IF i = 0 THEN into ELSE Next(i, c[i - 1])]
  BY <1>8
<1> HIDE DEF c, z
<1> DEFINE Good0(i) == /\ c[i] \in R
                    /\ \A j \in T!Key : T!luaH_get(c[i], j) =
                         IF \E y \in 1 .. i : j = s[y] THEN j
                         ELSE T!luaH_get(into, j)
           A == {i \in 0 .. z : Good0(i)}
<1>10. 0 \in A
  <2>1. c[0] = into BY <1>2, <1>9
  <2>2. 0 \in 0 .. z BY <1>2
  <2> QED BY <1>6, <2>1, <2>2
<1>11. ASSUME NEW i \in 1 .. z, i - 1 \in A PROVE i \in A
  <2>1. c[i] = Next(i, c[i - 1]) /\ c[i - 1] \in R BY <1>9, <1>11
  <2>2. /\ c[i] \in R
        /\ \A j \in T!Key : T!luaH_get(c[i], j) =
             IF j = s[i] THEN j ELSE T!luaH_get(c[i - 1], j)
    BY <1>3, <2>1
  <2>3. ASSUME NEW j \in T!Key
        PROVE  T!luaH_get(c[i], j) = IF \E y \in 1 .. i : j = s[y] THEN j
                                     ELSE T!luaH_get(into, j)
    <3>1. T!luaH_get(c[i - 1], j) =
            IF \E y \in 1 .. i - 1 : j = s[y] THEN j ELSE T!luaH_get(into, j)
      BY <1>11
    <3>2. (\E y \in 1 .. i : j = s[y]) <=>
            (\E y \in 1 .. i - 1 : j = s[y]) \/ j = s[i]
      OBVIOUS
    <3> QED BY <2>2, <3>1, <3>2
  <2> QED BY <2>2, <2>3
<1> HIDE DEF A
<1>12. 0 .. z \subseteq A BY <1>2, <1>10, <1>11, UpLemma
<1>13. z \in A BY <1>2, <1>12
<1> QED BY <1>1, <1>13 DEF A, R, z

LEMMA SliceLemma ==
  ASSUME NEW E, NEW s \in Seq(E), NEW n \in Nat
  PROVE  /\ SubSeq(s, n + 1, Len(s)) \in Seq(E)
         /\ Len(SubSeq(s, n + 1, Len(s))) =
              IF n + 1 <= Len(s) THEN Len(s) - n ELSE 0
         /\ \A i \in 1 .. Len(SubSeq(s, n + 1, Len(s))) :
              SubSeq(s, n + 1, Len(s))[i] = s[n + i]
<1> DEFINE m == n + 1
           l == Len(s)
           sub == SubSeq(s, m, l)
<1>1. m \in Int /\ l \in Int /\ n \in Nat /\ l \in Nat OBVIOUS
<1>2. \A i \in m .. l : s[i] \in E OBVIOUS
<1>3. \A i \in Nat : m + i - 1 = n + i OBVIOUS
<1>4. (IF m <= l THEN l - m + 1 ELSE 0) = IF m <= l THEN l - n ELSE 0
  OBVIOUS
<1> HIDE DEF m, l
<1>5. /\ sub \in Seq(E) /\ Len(sub) = IF m <= l THEN l - m + 1 ELSE 0
      /\ \A i \in 1 .. l - m + 1 : sub[i] = s[m + i - 1]
  BY ONLY <1>1, <1>2, SubSeqProperties
<1>6. \A i \in 1 .. Len(sub) : sub[i] = s[n + i]
  <2>1. SUFFICES ASSUME NEW i \in 1 .. Len(sub) PROVE sub[i] = s[n + i]
    OBVIOUS
  <2>2. i \in 1 .. l - m + 1 /\ i \in Nat BY <1>1, <1>5
  <2> QED BY <1>3, <1>5, <2>2
<1> QED BY <1>4, <1>5, <1>6 DEF m, l

LEMMA GoodLemma ==
  ASSUME NEW tab, Good(tab)
  PROVE  /\ tab.array \in Seq(T!Stored) /\ Len(tab.array) \in Nat
         /\ \A i \in 1 .. Len(tab.array) :
              tab.array[i] \in (IF i \in T!Integer THEN {i, Nil} ELSE {Nil})
         /\ T!Size(tab) \in Nat /\ tab.node \in NodesOf(T!Size(tab))
         /\ DOMAIN tab.node = 0 .. T!Size(tab) - 1 /\ Kept(tab.node)
<1>1. tab.array \in Seq(T!Stored) BY DEF Good, Tab
<1>2. Len(tab.array) \in Nat BY <1>1
<1>3. \A i \in 1 .. Len(tab.array) :
        tab.array[i] \in (IF i \in T!Integer THEN {i, Nil} ELSE {Nil})
  BY DEF Good, ArrayOK
<1>4. /\ T!Size(tab) \in Nat /\ tab.node \in NodesOf(T!Size(tab))
      /\ Kept(tab.node)
  BY DEF Good, Nodes
<1>5. DOMAIN tab.node = 0 .. T!Size(tab) - 1 BY <1>4 DEF NodesOf
<1> QED BY <1>1, <1>2, <1>3, <1>4, <1>5

(* The tables that resize() starts from.                                   *)
Fresh(tab, na, n) ==
  [array |-> [i \in 1 .. na |->
                IF i <= Len(tab.array) THEN tab.array[i] ELSE Nil],
   node |-> T!Nodes(n), free |-> n]

LEMMA FreshLemma ==
  ASSUME NEW tab, tab.array \in Seq(T!Stored),
         \A i \in 1 .. Len(tab.array) :
           tab.array[i] \in (IF i \in T!Integer THEN {i, Nil} ELSE {Nil}),
         Hashed, NEW na \in 0 .. 2 * MaxIndex,
         NEW n \in Nat, NEW B, NEW u, u = Fresh(tab, na, n)
  PROVE  /\ Holds(u, na, n, B)
         /\ \A j \in T!Key : T!luaH_get(u, j) =
              IF T!InArray(tab, j) /\ j <= na THEN tab.array[j] ELSE Nil
<1>0. MaxIndex \in Nat BY PartsAssumption DEF T!TableAssumption
<1> DEFINE arr == [i \in 1 .. na |->
                     IF i <= Len(tab.array) THEN tab.array[i] ELSE Nil]
           nd == T!Nodes(n)
           l == Len(tab.array)
<1>1. u.array = arr /\ u.node = nd /\ u.free = n BY DEF Fresh
<1>2. /\ na \in Nat /\ na <= 2 * MaxIndex
      /\ tab.array \in Seq(T!Stored) /\ l \in Nat
      /\ \A i \in 1 .. l :
           tab.array[i] \in (IF i \in T!Integer THEN {i, Nil} ELSE {Nil})
  <2>1. na \in Nat /\ na <= 2 * MaxIndex BY <1>0
  <2>2. l \in Nat OBVIOUS
  <2> QED BY <2>1, <2>2
<1>3. arr \in Seq(T!Stored) /\ Len(arr) = na
  <2>1. \A i \in 1 .. na : arr[i] \in T!Stored BY <1>2 DEF T!Stored
  <2>2. arr \in [1 .. na -> T!Stored] BY <2>1
  <2> HIDE DEF arr
  <2> QED BY <1>2, <2>2
<1>4. DOMAIN nd = 0 .. n - 1 /\ nd \in NodesOf(n)
      /\ \A p \in 0 .. n - 1 : /\ nd[p].key = Nil /\ nd[p].val = Nil
                               /\ nd[p].next = -1
  BY DEF T!Nodes, NodesOf, Node, T!Empty, T!End, T!Stored
<1>5. ArrayOK(u)
  <2>1. ASSUME NEW i \in 1 .. na
        PROVE  arr[i] \in (IF i \in T!Integer THEN {i, Nil} ELSE {Nil})
    <3>1. arr[i] = IF i <= l THEN tab.array[i] ELSE Nil OBVIOUS
    <3> HIDE DEF arr, l
    <3>2. CASE i <= l
      <4>1. i \in 1 .. l BY <1>2, <3>2
      <4> QED BY <1>2, <3>1, <3>2, <4>1 DEF l
    <3>3. CASE ~(i <= l) BY <3>1, <3>3
    <3> QED BY <3>2, <3>3
  <2> HIDE DEF arr
  <2> QED BY <1>1, <1>2, <1>3, <2>1 DEF ArrayOK
<1>6. \A i \in 1 .. na : arr[i] = IF i <= l THEN tab.array[i] ELSE Nil
  OBVIOUS
<1> HIDE DEF arr, nd
<1>7. T!Size(u) = n BY <1>1, <1>4, SizeLemma
<1>8. u = [array |-> arr, node |-> nd, free |-> n] BY DEF Fresh, arr, nd
<1>9. u \in Tab
  <2>1. nd \in UNION {NodesOf(i) : i \in Nat} BY <1>4
  <2> QED BY ONLY <1>3, <1>8, <2>1, n \in Nat DEF Tab
<1>10. Nodes(nd, Positions(u))
  <2> DEFINE r == [p \in 0 .. n - 1 |-> 0]
  <2>1. Ranked(nd, r) /\ Newest(nd, r) BY <1>4 DEF Ranked, Newest
  <2>2. Linked(nd) /\ Kept(nd) /\ Placed(nd, Positions(u))
    BY <1>4 DEF Linked, Kept, Placed
  <2> QED BY <2>1, <2>2 DEF Nodes
<1>11. Good(u)
  BY <1>1, <1>4, <1>5, <1>7, <1>9, <1>10 DEF Good
<1>12. Keys(nd) = {} /\ Packed(nd) /\ Vals(nd) = {}
  BY <1>4 DEF Keys, Packed, Vals
<1>13. ASSUME NEW j \in T!Key
       PROVE  T!luaH_get(u, j) =
                IF T!InArray(tab, j) /\ j <= na THEN tab.array[j] ELSE Nil
  <2>1. j \in T!Integer => j \in Nat /\ j >= 1
    BY <1>0 DEF T!Integer
  <2>2. CASE T!InArray(u, j)
    <3>1. j \in T!Integer /\ j \in 1 .. na
      BY <1>1, <1>3, <2>1, <2>2 DEF T!InArray
    <3>2. T!luaH_get(u, j) = arr[j] BY <1>1, <1>11, <2>2, GetLemma
    <3>3. T!InArray(tab, j) <=> j <= l BY <3>1 DEF T!InArray
    <3> QED BY <1>6, <3>1, <3>2, <3>3
  <2>3. CASE ~T!InArray(u, j)
    <3>1. T!luaH_get(u, j) = Nil BY <1>1, <1>11, <1>12, <2>3, ValueLemma
    <3>2. ~(T!InArray(tab, j) /\ j <= na)
      BY <1>1, <1>3, <2>3 DEF T!InArray
    <3> QED BY <3>1, <3>2
  <2> QED BY <2>2, <2>3
<1> QED BY <1>1, <1>3, <1>7, <1>11, <1>12, <1>13 DEF Holds

(* resize() keeps every value, when there are nodes enough for the keys B  *)
(* that do not go to the array.                                            *)
Resizing(tab, na, nh, B) ==
  /\ Good(tab) /\ na \in 0 .. 2 * MaxIndex /\ nh \in Nat
  /\ Bounded(T!Twoto(nh), B)
  /\ \A j \in T!Key : T!luaH_get(tab, j) # Nil => Fitting(j, na, B)
LEMMA ResizeLemma ==
  ASSUME NEW tab, NEW na, NEW nh, NEW B, Resizing(tab, na, nh, B),
         NEW u, u = T!resize(tab, na, nh)
  PROVE  /\ Holds(u, na, T!Twoto(nh), B)
         /\ \A j \in T!Key : T!luaH_get(u, j) = T!luaH_get(tab, j)
<1> USE DEF Resizing
<1> DEFINE n == T!Twoto(nh)
           l == Len(tab.array)
           z == T!Size(tab)
           fresh == Fresh(tab, na, n)
           slice == SubSeq(tab.array, na + 1, l)
           nodes == [i \in 1 .. z |-> tab.node[z - i].val]
           mid == T!Again(slice, fresh)
<1>1. /\ MaxIndex \in Nat /\ n \in Nat /\ na \in Nat /\ Hashed
      /\ tab.array \in Seq(T!Stored) /\ l \in Nat /\ z \in Nat
      /\ tab.node \in NodesOf(z) /\ DOMAIN tab.node = 0 .. z - 1
      /\ Kept(tab.node)
      /\ \A i \in 1 .. l :
           tab.array[i] \in (IF i \in T!Integer THEN {i, Nil} ELSE {Nil})
      /\ Good(tab) /\ Bounded(n, B)
  <2>1. MaxIndex \in Nat BY PartsAssumption DEF T!TableAssumption
  <2>2. na \in Nat BY <2>1
  <2>3. n \in Nat /\ Hashed BY DEF Bounded
  <2> HIDE DEF n, l, z
  <2> QED BY <2>1, <2>2, <2>3, GoodLemma DEF n, l, z
<1>2. u = T!Again(nodes, mid) BY DEF T!resize, Fresh
<1>3. /\ Holds(fresh, na, n, B)
      /\ \A j \in T!Key : T!luaH_get(fresh, j) =
           IF T!InArray(tab, j) /\ j <= na THEN tab.array[j] ELSE Nil
  <2> HIDE DEF n
  <2> QED BY <1>1, FreshLemma
<1>4. ASSUME NEW i \in 1 .. l, tab.array[i] # Nil
      PROVE  /\ tab.array[i] = i /\ i \in T!Integer /\ Fitting(i, na, B)
             /\ T!InArray(tab, i)
  <2>1. tab.array[i] = i /\ i \in T!Integer BY <1>1, <1>4
  <2>2. T!InArray(tab, i) BY <2>1 DEF T!InArray
  <2>3. i \in T!Key /\ T!luaH_get(tab, i) = tab.array[i]
    BY <1>1, <2>1, <2>2, GetLemma DEF T!Key
  <2> QED BY <1>1, <1>4, <2>1, <2>2, <2>3
<1>5. ASSUME NEW p \in 0 .. z - 1, tab.node[p].val # Nil
      PROVE  /\ tab.node[p].val \in T!Key /\ Fitting(tab.node[p].val, na, B)
             /\ ~T!InArray(tab, tab.node[p].val)
  <2> DEFINE k == tab.node[p].val
  <2>1. k = tab.node[p].key BY <1>1, <1>5 DEF Kept
  <2>2. k \in T!Key BY <1>1, <1>5 DEF NodesOf, Node, T!Stored
  <2>3. ~T!InArray(tab, k) BY <1>1, <1>5, <2>1 DEF Good
  <2>4. k \in Vals(tab.node) BY <1>1, <1>5 DEF Vals
  <2>5. T!luaH_get(tab, k) = k BY <1>1, <2>2, <2>3, <2>4, ValueLemma
  <2> QED BY <1>1, <1>5, <2>2, <2>3, <2>5
<1>6. /\ slice \in Seq(T!Stored)
      /\ \A i \in 1 .. Len(slice) : slice[i] # Nil => Fitting(slice[i], na, B)
      /\ \A j \in T!Key : j \in {slice[i] : i \in 1 .. Len(slice)} <=>
           T!InArray(tab, j) /\ j > na /\ tab.array[j] = j
  <2>1. /\ slice \in Seq(T!Stored)
        /\ Len(slice) = IF na + 1 <= l THEN l - na ELSE 0
        /\ \A i \in 1 .. Len(slice) : slice[i] = tab.array[na + i]
    BY <1>1, SliceLemma
  <2>2. \A i \in 1 .. Len(slice) : na + i \in 1 .. l BY <1>1, <2>1
  <2> HIDE DEF slice
  <2>3. \A i \in 1 .. Len(slice) : slice[i] # Nil => Fitting(slice[i], na, B)
    BY <1>4, <2>1, <2>2
  <2>4. ASSUME NEW j \in T!Key, NEW i \in 1 .. Len(slice), j = slice[i]
        PROVE  T!InArray(tab, j) /\ j > na /\ tab.array[j] = j
    <3>1. tab.array[na + i] = j /\ j # Nil BY <2>1, <2>4, NilLemma
    <3>2. tab.array[na + i] = na + i /\ T!InArray(tab, na + i)
      BY <1>4, <2>2, <3>1
    <3>3. j = na + i BY <3>1, <3>2
    <3>4. i \in Nat /\ i > 0 BY <2>1, <1>1
    <3> QED BY <1>1, <3>1, <3>2, <3>3, <3>4
  <2>5. ASSUME NEW j \in T!Key,
               T!InArray(tab, j), j > na, tab.array[j] = j
        PROVE  \E i \in 1 .. Len(slice) : j = slice[i]
    <3>1. j \in Nat /\ j <= l BY <1>1, <2>5 DEF T!InArray, T!Integer
    <3>2. j - na \in 1 .. Len(slice) BY <1>1, <2>1, <2>5, <3>1
    <3>3. slice[j - na] = tab.array[na + (j - na)] BY <2>1, <3>2
    <3>4. na + (j - na) = j BY <1>1, <3>1
    <3> QED BY <2>5, <3>2, <3>3, <3>4
  <2> QED BY <2>1, <2>3, <2>4, <2>5
<1>7. /\ Holds(mid, na, n, B)
      /\ \A j \in T!Key : T!luaH_get(mid, j) =
           IF j \in {slice[i] : i \in 1 .. Len(slice)} THEN j
           ELSE T!luaH_get(fresh, j)
  <2> HIDE DEF slice, fresh, n
  <2> QED BY <1>1, <1>3, <1>6, AgainLemma
<1>8. /\ nodes \in Seq(T!Stored) /\ Len(nodes) = z
      /\ \A i \in 1 .. Len(nodes) : nodes[i] # Nil => Fitting(nodes[i], na, B)
      /\ \A j \in T!Key : j \in {nodes[i] : i \in 1 .. Len(nodes)} <=>
           j \in Vals(tab.node)
  <2>1. \A i \in 1 .. z : z - i \in 0 .. z - 1 BY <1>1
  <2>2. nodes \in [1 .. z -> T!Stored] BY <1>1, <2>1 DEF NodesOf, Node
  <2>3. \A i \in 1 .. z : nodes[i] = tab.node[z - i].val OBVIOUS
  <2> HIDE DEF nodes, z
  <2>4. nodes \in Seq(T!Stored) /\ Len(nodes) = z BY <1>1, <2>2
  <2>5. \A i \in 1 .. z : nodes[i] # Nil => Fitting(nodes[i], na, B)
    BY <1>5, <2>1, <2>3
  <2>6. ASSUME NEW j \in T!Key
        PROVE  (\E i \in 1 .. z : j = nodes[i]) <=> j \in Vals(tab.node)
    <3>1. j # Nil BY NilLemma
    <3>2. j \in Vals(tab.node) <=> \E p \in 0 .. z - 1 : tab.node[p].val = j
      BY <1>1, <3>1 DEF Vals
    <3>3. ASSUME NEW p \in 0 .. z - 1
          PROVE  z - p \in 1 .. z /\ nodes[z - p] = tab.node[p].val
      <4>1. z - p \in 1 .. z /\ z - (z - p) = p BY <1>1
      <4> QED BY <2>3, <4>1
    <3> QED BY <2>1, <2>3, <3>2, <3>3
  <2> QED BY <2>4, <2>5, <2>6
<1>9. /\ Holds(u, na, n, B)
      /\ \A j \in T!Key : T!luaH_get(u, j) =
           IF j \in {nodes[i] : i \in 1 .. Len(nodes)} THEN j
           ELSE T!luaH_get(mid, j)
  <2> HIDE DEF mid, nodes, n
  <2> QED BY <1>1, <1>2, <1>7, <1>8, AgainLemma
<1>10. ASSUME NEW j \in T!Key
       PROVE  T!luaH_get(u, j) = T!luaH_get(tab, j)
  <2> HIDE DEF mid, nodes, n, fresh, slice
  <2>1. T!luaH_get(u, j) =
          IF j \in Vals(tab.node) THEN j
          ELSE IF T!InArray(tab, j) /\ j > na /\ tab.array[j] = j THEN j
          ELSE IF T!InArray(tab, j) /\ j <= na THEN tab.array[j] ELSE Nil
    BY <1>3, <1>6, <1>7, <1>8, <1>9
  <2>2. CASE T!InArray(tab, j)
    <3>1. j \notin Vals(tab.node)
      <4>1. SUFFICES ASSUME j \in Vals(tab.node) PROVE FALSE OBVIOUS
      <4>2. PICK p \in 0 .. z - 1 : tab.node[p].val = j /\ j # Nil
        BY <1>1, <4>1 DEF Vals
      <4> QED BY <1>5, <2>2, <4>2
    <3>2. T!luaH_get(tab, j) = tab.array[j] BY <1>1, <2>2, GetLemma
    <3>3. j \in 1 .. l BY <1>1, <2>2 DEF T!InArray, T!Integer
    <3>4. tab.array[j] \in {j, Nil} BY <1>4, <3>3
    <3>5. j <= na \/ j > na BY <1>1, <3>3
    <3> QED BY <2>1, <2>2, <3>1, <3>2, <3>4, <3>5
  <2>3. CASE ~T!InArray(tab, j)
    <3>1. T!luaH_get(tab, j) = IF j \in Vals(tab.node) THEN j ELSE Nil
      BY <1>1, <2>3, ValueLemma
    <3> QED BY <2>1, <2>3, <3>1
  <2> QED BY <2>2, <2>3
<1> QED BY <1>9, <1>10

LEMMA FiniteLemma ==
  ASSUME NEW tab, Good(tab), Hashed
  PROVE  IsFiniteSet({j \in T!Key : T!luaH_get(tab, j) # Nil})
<1> DEFINE l == Len(tab.array)
           z == T!Size(tab)
           A == {tab.array[i] : i \in 1 .. l}
           B == {tab.node[p].val : p \in 0 .. z - 1}
           J == {j \in T!Key : T!luaH_get(tab, j) # Nil}
<1>1. /\ l \in Nat /\ z \in Nat /\ DOMAIN tab.node = 0 .. z - 1
      /\ \A i \in 1 .. l :
           tab.array[i] \in (IF i \in T!Integer THEN {i, Nil} ELSE {Nil})
  <2> HIDE DEF l, z
  <2> QED BY GoodLemma DEF l, z
<1>2. IsFiniteSet(A)
  <2>1. IsFiniteSet(1 .. l) BY <1>1, FS_Interval
  <2> DEFINE g == [i \in 1 .. l |-> tab.array[i]]
  <2>2. \A y \in A : \E i \in 1 .. l : g[i] = y OBVIOUS
  <2>3. g \in [1 .. l -> A] OBVIOUS
  <2> HIDE DEF A, g
  <2>4. g \in Surjection(1 .. l, A) BY <2>2, <2>3 DEF Surjection
  <2> QED BY <2>1, <2>4, FS_Surjection
<1>3. IsFiniteSet(B)
  <2>1. IsFiniteSet(0 .. z - 1) BY <1>1, CountLemma
  <2> DEFINE g == [p \in 0 .. z - 1 |-> tab.node[p].val]
  <2>2. \A y \in B : \E p \in 0 .. z - 1 : g[p] = y OBVIOUS
  <2>3. g \in [0 .. z - 1 -> B] OBVIOUS
  <2> HIDE DEF B, g
  <2>4. g \in Surjection(0 .. z - 1, B) BY <2>2, <2>3 DEF Surjection
  <2> QED BY <2>1, <2>4, FS_Surjection
<1>4. J \subseteq A \cup B
  <2>1. SUFFICES ASSUME NEW j \in T!Key, T!luaH_get(tab, j) # Nil
                 PROVE  j \in A \cup B
    OBVIOUS
  <2>2. CASE T!InArray(tab, j)
    <3>1. T!luaH_get(tab, j) = tab.array[j] BY <2>2, GetLemma
    <3>2. j \in 1 .. l
      BY <1>1, <2>2, PartsAssumption
      DEF T!InArray, T!Integer, T!TableAssumption
    <3>3. tab.array[j] = j BY <1>1, <2>1, <3>1, <3>2
    <3> QED BY <3>2, <3>3
  <2>3. CASE ~T!InArray(tab, j)
    <3>1. j \in Vals(tab.node) BY <2>1, <2>3, ValueLemma
    <3> QED BY <1>1, <3>1 DEF Vals
  <2> QED BY <2>2, <2>3
<1> HIDE DEF A, B, J
<1>5. IsFiniteSet(A \cup B) BY <1>2, <1>3, FS_Union
<1>6. IsFiniteSet(J) BY <1>4, <1>5, FS_Subset
<1> QED BY <1>6 DEF J

(* rehash() loses no value and makes room for the new key.                 *)
LEMMA RehashLemma ==
  ASSUME NEW tab, Good(tab), Hashed, NEW k \in T!Key,
         NEW u, u = T!rehash(tab, k)
  PROVE  /\ \E B : Fits(u, B) /\ (T!InArray(u, k) \/ k \in B)
         /\ \A j \in T!Key : T!luaH_get(u, j) = T!luaH_get(tab, j)
<1> DEFINE used == {j \in T!Key : T!luaH_get(tab, j) # Nil} \cup {k}
           ints == used \cap T!Integer
           n == T!computesizes(ints)
           some == ints \cap 1 .. n
           nh == T!Cardinality(used) - T!Cardinality(some)
           B == used \ some
<1>1. u = T!resize(tab, n, nh) BY DEF T!rehash
<1>2. n \in 0 .. 2 * MaxIndex /\ n \in Nat
  <2>1. ints \in SUBSET T!Integer OBVIOUS
  <2>2. MaxIndex \in Nat BY PartsAssumption DEF T!TableAssumption
  <2> HIDE DEF ints
  <2>3. n \in 0 .. 2 * MaxIndex BY <2>1, SizesLemma
  <2> QED BY <2>2, <2>3
<1>3. IsFiniteSet(used)
  <2> DEFINE J == {j \in T!Key : T!luaH_get(tab, j) # Nil}
  <2>1. IsFiniteSet(J) BY FiniteLemma
  <2>2. used = J \cup {k} OBVIOUS
  <2> HIDE DEF J, used
  <2> QED BY <2>1, <2>2, FS_AddElement
<1>4. \A j \in used : j \in T!Key /\ Fitting(j, n, B)
  <2>1. SUFFICES ASSUME NEW j \in used PROVE Fitting(j, n, B) OBVIOUS
  <2>2. CASE j \in some
    <3>1. j \in T!Integer /\ j <= n BY <2>2
    <3> QED BY <3>1 DEF Fitting
  <2>3. CASE j \notin some
    <3>1. j \in B BY <2>3
    <3> QED BY <3>1 DEF Fitting
  <2> QED BY <2>2, <2>3
<1>5. some \subseteq used /\ k \in used OBVIOUS
<1>6. \A j \in T!Key : T!luaH_get(tab, j) # Nil => j \in used OBVIOUS
<1> HIDE DEF n, some, used, ints
<1>7. /\ IsFiniteSet(B) /\ Cardinality(B) = nh /\ nh \in Nat
  <2>1. used \cap some = some BY <1>5
  <2>2. /\ IsFiniteSet(B)
        /\ Cardinality(B) = Cardinality(used) - Cardinality(used \cap some)
    BY <1>3, FS_Difference
  <2>3. Cardinality(B) \in Nat BY <2>2, FS_CardinalityType
  <2> QED BY <2>1, <2>2, <2>3, CardLemma
<1> HIDE DEF B, nh
<1>8. /\ T!Twoto(nh) \in Nat /\ T!Twoto(nh) >= nh BY <1>7, TwotoLemma
<1>9. Bounded(T!Twoto(nh), B) BY <1>7, <1>8 DEF Bounded
<1>10. Resizing(tab, n, nh, B)
  BY <1>2, <1>4, <1>6, <1>7, <1>9 DEF Resizing
<1>11. /\ Holds(u, n, T!Twoto(nh), B)
       /\ \A j \in T!Key : T!luaH_get(u, j) = T!luaH_get(tab, j)
  BY <1>1, <1>10, ResizeLemma
<1>12. Fits(u, B) BY <1>9, <1>11 DEF Fits, Holds, Bounded
<1>13. T!InArray(u, k) \/ k \in B
  BY <1>4, <1>5, <1>11 DEF Fitting, T!InArray, Holds
<1> QED BY <1>11, <1>12, <1>13

(* What luaH_set() leaves: k has v and no other key has changed.           *)
Assigned(tab, u, k, v) ==
  /\ Good(u)
  /\ \A j \in T!Key :
       T!luaH_get(u, j) = IF j = k THEN v ELSE T!luaH_get(tab, j)
LEMMA SetLemma ==
  ASSUME NEW tab, Good(tab), Hashed, NEW k \in T!Key, NEW v \in {k, Nil},
         NEW u, u = T!luaH_set(tab, k, v)
  PROVE  Assigned(tab, u, k, v)
<1> DEFINE a == T!Assign(tab, k, v)
<1>1. CASE a = T!Full
  <2> DEFINE t == T!rehash(tab, k)
  <2>1. u = T!Assign(t, k, v) BY <1>1 DEF T!luaH_set
  <2> HIDE DEF t
  <2>2. PICK B : Fits(t, B) /\ (T!InArray(t, k) \/ k \in B)
    BY RehashLemma DEF t
  <2>3. \A j \in T!Key : T!luaH_get(t, j) = T!luaH_get(tab, j)
    BY RehashLemma DEF t
  <2>4. Outcome(t, u, k, v) BY <2>1, <2>2, RoomLemma
  <2> QED BY <2>3, <2>4 DEF Outcome, Assigned
<1>2. CASE a # T!Full
  <2>1. u = a BY <1>2 DEF T!luaH_set
  <2>2. Outcome(tab, a, k, v) BY <1>2, AssignLemma
  <2> QED BY <2>1, <2>2 DEF Outcome, Assigned
<1> QED BY <1>1, <1>2

-----------------------------------------------------------------------------
(* The length.                                                             *)

Bounds == [i : Nat, j : Nat]
(* b.j is behind b.i, with a border between.                               *)
Around(tab, b) ==
  /\ b \in Bounds /\ b.i < b.j
  /\ b.i = 0 \/ T!HasValue(tab, b.i)
  /\ ~T!HasValue(tab, b.j)
Border(tab, n) ==
  /\ n \in Nat /\ (n = 0 \/ T!HasValue(tab, n)) /\ ~T!HasValue(tab, n + 1)

LEMMA HalfLemma ==
  ASSUME NEW tab, NEW b, Around(tab, b), NEW w, w = T!Half(tab, b)
  PROVE  /\ Around(tab, w)
         /\ b.j - b.i > 1 => w.j - w.i < b.j - b.i
         /\ b.j - b.i <= 1 => w = b
<1> DEFINE m == (b.i + b.j) \div 2
<1>1. b.i \in Nat /\ b.j \in Nat /\ b.i < b.j /\ b = [i |-> b.i, j |-> b.j]
  BY DEF Around, Bounds
<1>2. CASE b.j - b.i <= 1
  <2>1. w = b BY <1>2 DEF T!Half
  <2> QED BY <1>1, <1>2, <2>1
<1>3. CASE b.j - b.i > 1
  <2>1. m \in Nat /\ b.i < m /\ m < b.j BY <1>1, <1>3
  <2>2. w = IF T!HasValue(tab, m) THEN [b EXCEPT !.i = m]
            ELSE [b EXCEPT !.j = m]
    BY <1>1, <1>3 DEF T!Half
  <2> HIDE DEF m
  <2>3. CASE T!HasValue(tab, m)
    <3>1. w.i = m /\ w.j = b.j /\ w \in Bounds
      BY <1>1, <2>1, <2>2, <2>3 DEF Bounds
    <3> QED BY <1>1, <1>3, <2>1, <2>3, <3>1 DEF Around
  <2>4. CASE ~T!HasValue(tab, m)
    <3>1. w.i = b.i /\ w.j = m /\ w \in Bounds
      BY <1>1, <2>1, <2>2, <2>4 DEF Bounds
    <3> QED BY <1>1, <1>3, <2>1, <2>4, <3>1 DEF Around
  <2> QED BY <2>3, <2>4
<1> QED BY <1>1, <1>2, <1>3

LEMMA SearchLemma ==
  ASSUME NEW tab, NEW b, Around(tab, b), b.j <= 2 * MaxIndex + 1
  PROVE  Border(tab, T!Search(tab, b))
<1> DEFINE z == 2 * MaxIndex + 1
           R == {w \in Bounds : Around(tab, w)}
           step == [s \in 1 .. z |-> [w \in R |-> T!Half(tab, w)]]
           c == CHOOSE at : at = [s \in 0 .. z |->
                  IF s = 0 THEN b ELSE T!Half(tab, at[s - 1])]
<1>1. MaxIndex \in Nat /\ z \in Nat BY PartsAssumption DEF T!TableAssumption
<1>2. T!Search(tab, b) = c[z].i BY DEF T!Search
<1>3. \A w \in R : T!Half(tab, w) \in R BY HalfLemma DEF Around
<1>4. step \in [1 .. z -> [R -> R]]
  <2> HIDE DEF R
  <2> QED BY <1>3
<1>5. \A s \in 1 .. z, w \in R : step[s][w] = T!Half(tab, w) OBVIOUS
<1>6. b \in R BY DEF Around
<1> HIDE DEF R, step, z
<1>7. PICK h : h \in [0 .. z -> R] /\ h[0] = b
               /\ \A s \in 1 .. z : h[s] = step[s][h[s - 1]]
  <2>1. Steps(z, R, b, step) BY <1>1, <1>4, <1>6 DEF Steps
  <2> QED BY <2>1, StepsLemma DEF Stepwise
<1>8. h = [s \in 0 .. z |-> IF s = 0 THEN b ELSE T!Half(tab, h[s - 1])]
  <2>1. ASSUME NEW s \in 1 .. z PROVE h[s] = T!Half(tab, h[s - 1])
    <3>1. h[s - 1] \in R BY <1>1, <1>7
    <3> QED BY <1>5, <1>7, <3>1
  <2> QED BY <1>7, <2>1
<1>9. c = [s \in 0 .. z |-> IF s = 0 THEN b ELSE T!Half(tab, c[s - 1])]
  BY <1>8
<1> HIDE DEF c
<1> DEFINE Closer(s) == /\ Around(tab, c[s])
                        /\ c[s].j - c[s].i <= 1 \/ c[s].j - c[s].i + s <= z
           A == {s \in 0 .. z : Closer(s)}
<1>10. 0 \in A
  <2>1. c[0] = b BY <1>1, <1>9
  <2>2. 0 \in 0 .. z BY <1>1
  <2>3. b.i \in Nat /\ b.j \in Nat /\ b.j <= z BY DEF Around, Bounds, z
  <2>4. b.j - b.i + 0 <= z BY <1>1, <2>3
  <2> QED BY <2>1, <2>2, <2>4
<1>11. ASSUME NEW s \in 1 .. z, s - 1 \in A PROVE s \in A
  <2> DEFINE v == c[s - 1]
             w == c[s]
  <2>1. w = T!Half(tab, v) BY <1>1, <1>9
  <2>2. Around(tab, v) /\ (v.j - v.i <= 1 \/ v.j - v.i + (s - 1) <= z)
    BY <1>11
  <2> HIDE DEF v, w
  <2>3. /\ Around(tab, w)
        /\ v.j - v.i > 1 => w.j - w.i < v.j - v.i
        /\ v.j - v.i <= 1 => w = v
    BY <2>1, <2>2, HalfLemma
  <2>4. {v.i, v.j, w.i, w.j, s, z} \subseteq Int
    BY <1>1, <2>2, <2>3 DEF Around, Bounds
  <2>5. w.j - w.i <= 1 \/ w.j - w.i + s <= z BY <2>2, <2>3, <2>4
  <2> QED BY <2>3, <2>5 DEF w
<1> HIDE DEF A
<1>12. 0 .. z \subseteq A BY <1>1, <1>10, <1>11, UpLemma
<1>13. Closer(z) BY <1>1, <1>12 DEF A
<1> DEFINE e == c[z]
<1>14. Around(tab, e) /\ (e.j - e.i <= 1 \/ e.j - e.i + z <= z) BY <1>13
<1> HIDE DEF e
<1>15. e.i \in Nat /\ e.j \in Nat /\ e.i < e.j BY <1>14 DEF Around, Bounds
<1>16. e.j = e.i + 1 BY <1>1, <1>14, <1>15
<1> QED BY <1>2, <1>14, <1>15, <1>16 DEF e, Around, Border

(* unbound_search() finds a border behind n.                               *)
LEMMA UnboundLemma ==
  ASSUME NEW tab, NEW n \in Nat, n = Len(tab.array), n <= 2 * MaxIndex,
         n = 0 \/ T!HasValue(tab, n)
  PROVE  Border(tab, T!unbound_search(tab))
<1> DEFINE z == MaxIndex
           first == [i |-> n, j |-> n + 1]
           Fine(w) == /\ w.i < w.j /\ w.j <= 2 * z + 1
                      /\ w.i = 0 \/ T!HasValue(tab, w.i)
           R == {w \in Bounds : Fine(w)}
           step == [s \in 1 .. z |-> [w \in R |-> T!Twice(tab, w)]]
           c == CHOOSE at : at = [s \in 0 .. z |->
                  IF s = 0 THEN first ELSE T!Twice(tab, at[s - 1])]
<1>1. MaxIndex \in Nat /\ z \in Nat BY PartsAssumption DEF T!TableAssumption
<1>2. T!unbound_search(tab) = T!Search(tab, c[z]) BY DEF T!unbound_search
<1>3. \A i : T!HasValue(tab, i) => i \in 1 .. z
  BY DEF T!HasValue, T!Integer
<1>4. ASSUME NEW w \in R
      PROVE  /\ T!Twice(tab, w) \in R
             /\ \/ T!Twice(tab, w) = w /\ ~T!HasValue(tab, w.j)
                \/ T!Twice(tab, w).j > w.j
  <2> DEFINE v == T!Twice(tab, w)
  <2>1. w.i \in Nat /\ w.j \in Nat /\ w.i < w.j BY DEF Bounds
  <2>2. CASE T!HasValue(tab, w.j)
    <3>1. v = [i |-> w.j, j |-> 2 * w.j] BY <2>2 DEF T!Twice
    <3>2. w.j \in 1 .. z BY <1>3, <2>2
    <3> HIDE DEF v
    <3>3. v \in Bounds /\ v.i = w.j /\ v.j = 2 * w.j
      BY <2>1, <3>1 DEF Bounds
    <3>4. v.i < v.j /\ v.j <= 2 * z + 1 /\ v.j > w.j BY <1>1, <3>2, <3>3
    <3> QED BY <2>2, <3>3, <3>4 DEF v
  <2>3. CASE ~T!HasValue(tab, w.j) BY <2>3 DEF T!Twice
  <2> QED BY <2>2, <2>3
<1>5. step \in [1 .. z -> [R -> R]]
  <2> HIDE DEF R
  <2> QED BY <1>4
<1>6. \A s \in 1 .. z, w \in R : step[s][w] = T!Twice(tab, w) OBVIOUS
<1>7. first \in R BY <1>1 DEF Bounds
<1>8. \A w \in R : w.i \in Nat /\ w.j \in Nat /\ Fine(w) /\ w \in Bounds
  BY DEF Bounds
<1> HIDE DEF R, step, z, Fine, first
<1>9. PICK h : h \in [0 .. z -> R] /\ h[0] = first
               /\ \A s \in 1 .. z : h[s] = step[s][h[s - 1]]
  <2>1. Steps(z, R, first, step) BY <1>1, <1>5, <1>7 DEF Steps
  <2> QED BY <2>1, StepsLemma DEF Stepwise
<1>10. h = [s \in 0 .. z |-> IF s = 0 THEN first ELSE T!Twice(tab, h[s - 1])]
  <2>1. ASSUME NEW s \in 1 .. z PROVE h[s] = T!Twice(tab, h[s - 1])
    <3>1. h[s - 1] \in R BY <1>1, <1>9
    <3> QED BY <1>6, <1>9, <3>1
  <2> QED BY <1>9, <2>1
<1>11. c = [s \in 0 .. z |-> IF s = 0 THEN first ELSE T!Twice(tab, c[s - 1])]
  BY <1>10
<1> HIDE DEF c
<1> DEFINE A == {s \in 0 .. z : /\ c[s] \in R
                                /\ ~T!HasValue(tab, c[s].j) \/ c[s].j > s}
<1>12. 0 \in A
  <2>1. c[0] = first BY <1>1, <1>11
  <2>2. first.j = n + 1 BY DEF first
  <2> QED BY <1>1, <1>7, <2>1, <2>2
<1>13. ASSUME NEW s \in 1 .. z, s - 1 \in A PROVE s \in A
  <2> DEFINE v == c[s - 1]
             w == c[s]
  <2>1. w = T!Twice(tab, v) BY <1>1, <1>11
  <2>2. v \in R /\ (~T!HasValue(tab, v.j) \/ v.j > s - 1) BY <1>13
  <2> HIDE DEF v, w
  <2>3. w \in R /\ ((w = v /\ ~T!HasValue(tab, v.j)) \/ w.j > v.j)
    BY <1>4, <2>1, <2>2
  <2>4. v.j \in Nat /\ w.j \in Nat /\ s \in Nat BY <1>1, <1>8, <2>2, <2>3
  <2>5. CASE w = v /\ ~T!HasValue(tab, v.j) BY <2>3, <2>5 DEF w
  <2>6. CASE w.j > v.j /\ v.j > s - 1
    <3>1. w.j > s BY <2>4, <2>6
    <3> QED BY <2>3, <3>1 DEF w
  <2>7. CASE w.j > v.j /\ ~T!HasValue(tab, v.j)
    <3>1. w = v BY <2>1, <2>7 DEF T!Twice
    <3> QED BY <2>3, <2>7, <3>1 DEF w
  <2> QED BY <2>2, <2>3, <2>5, <2>6, <2>7
<1> HIDE DEF A
<1>14. 0 .. z \subseteq A BY <1>1, <1>12, <1>13, UpLemma
<1> DEFINE e == c[z]
<1>15. e \in R /\ (~T!HasValue(tab, e.j) \/ e.j > z) BY <1>1, <1>14 DEF A
<1> HIDE DEF e
<1>16. ~T!HasValue(tab, e.j)
  <2>1. T!HasValue(tab, e.j) => e.j <= z BY <1>1, <1>3
  <2>2. e.j \in Nat BY <1>8, <1>15
  <2> QED BY <1>1, <1>15, <2>1, <2>2
<1>17. Around(tab, e) /\ e.j <= 2 * MaxIndex + 1
  BY <1>8, <1>15, <1>16 DEF Around, Fine, z
<1>18. Border(tab, T!Search(tab, e)) BY <1>17, SearchLemma
<1> QED BY <1>2, <1>18 DEF e

(* luaH_getn() returns a border.                                           *)
LEMMA LengthLemma ==
  ASSUME NEW tab, Good(tab), Hashed
  PROVE  Border(tab, T!luaH_getn(tab))
<1> DEFINE n == Len(tab.array)
<1>1. /\ MaxIndex \in Nat /\ n \in Nat /\ n <= 2 * MaxIndex
      /\ \A i \in 1 .. n :
           tab.array[i] \in (IF i \in T!Integer THEN {i, Nil} ELSE {Nil})
  <2>1. MaxIndex \in Nat BY PartsAssumption DEF T!TableAssumption
  <2>2. n <= 2 * MaxIndex BY DEF Good, ArrayOK
  <2> HIDE DEF n
  <2> QED BY <2>1, <2>2, GoodLemma DEF n
<1>2. n > 0 => (T!HasValue(tab, n) <=> tab.array[n] # Nil)
  <2>1. SUFFICES ASSUME n > 0
                 PROVE  T!HasValue(tab, n) <=> tab.array[n] # Nil
    OBVIOUS
  <2>2. CASE n \in T!Integer
    <3>1. T!InArray(tab, n) /\ n \in T!Key
      BY <1>1, <2>2 DEF T!InArray, T!Key
    <3> QED BY <2>2, <3>1, GetLemma DEF T!HasValue
  <2>3. CASE n \notin T!Integer
    <3>1. tab.array[n] = Nil
      <4> HIDE DEF n
      <4>1. n \in 1 .. n BY <1>1, <2>1
      <4> QED BY <1>1, <2>3, <4>1 DEF n
    <3> QED BY <2>3, <3>1 DEF T!HasValue
  <2> QED BY <2>2, <2>3
<1>3. CASE n > 0 /\ tab.array[n] = Nil
  <2> DEFINE b == [i |-> 0, j |-> n]
  <2>1. Around(tab, b) BY <1>1, <1>2, <1>3 DEF Around, Bounds
  <2>2. T!luaH_getn(tab) = T!Search(tab, b) BY <1>3 DEF T!luaH_getn
  <2>3. b.j <= 2 * MaxIndex + 1 BY <1>1
  <2> HIDE DEF b
  <2> QED BY <2>1, <2>2, <2>3, SearchLemma
<1>4. CASE ~(n > 0 /\ tab.array[n] = Nil) /\ T!Size(tab) = 0
  <2>1. T!luaH_getn(tab) = n BY <1>4 DEF T!luaH_getn
  <2>2. n = 0 \/ T!HasValue(tab, n) BY <1>1, <1>2, <1>4
  <2>3. ~T!HasValue(tab, n + 1)
    <3>1. SUFFICES ASSUME n + 1 \in T!Integer
                   PROVE  T!luaH_get(tab, n + 1) = Nil
      BY DEF T!HasValue
    <3>2. n + 1 \in T!Key /\ ~T!InArray(tab, n + 1)
      BY <1>1, <3>1 DEF T!Key, T!InArray
    <3>3. Vals(tab.node) = {} 
      <4>1. DOMAIN tab.node = {} BY <1>4, GoodLemma
      <4> QED BY <4>1 DEF Vals
    <3> QED BY <3>2, <3>3, ValueLemma
  <2> QED BY <1>1, <2>1, <2>2, <2>3 DEF Border
<1>5. CASE ~(n > 0 /\ tab.array[n] = Nil) /\ T!Size(tab) # 0
  <2>1. T!luaH_getn(tab) = T!unbound_search(tab) BY <1>5 DEF T!luaH_getn
  <2>2. n = 0 \/ T!HasValue(tab, n) BY <1>1, <1>2, <1>5
  <2> HIDE DEF n
  <2>3. Border(tab, T!unbound_search(tab))
    BY <1>1, <2>2, UnboundLemma DEF n
  <2> QED BY <2>1, <2>3
<1> QED BY <1>3, <1>4, <1>5

-----------------------------------------------------------------------------
(* Traversal.                                                              *)

Least(tab, k, r, q) == \A p \in T!Holding(tab, k) : r[q] <= r[p]

(* A key that nodes hold, dead or alive, has the place of the first of     *)
(* them on its chain, which is the live one if there is one.               *)
LEMMA FoundLemma ==
  ASSUME NEW tab, Good(tab), Hashed, NEW k \in T!Key,
         NEW found, found = T!First(tab, k, T!Holding(tab, k))
  PROVE  /\ T!Holding(tab, k) = {} => found = -1
         /\ T!Holding(tab, k) # {} => found \in T!Holding(tab, k)
         /\ \A p \in Live(tab, k) : found = p
         /\ T!Holding(tab, k) # {} => \A r : Ranked(tab.node, r) =>
              /\ \A q \in T!Holding(tab, k) : r[found] <= r[q]
              /\ \A q \in T!Holding(tab, k) : Least(tab, k, r, q) => found = q
<1> DEFINE n == T!Size(tab)
           nd == tab.node
           A == T!Holding(tab, k)
           h == T!mainposition(tab, k)
<1>1. /\ DOMAIN nd = 0 .. n - 1 /\ n \in Nat /\ Linked(nd)
      /\ nd \in NodesOf(n)
  BY DEF Good, NodesOf, Nodes
<1>2. A \in SUBSET (0 .. n - 1) /\ Live(tab, k) \subseteq A
  BY <1>1 DEF Live, T!Holding
<1>3. CASE n = 0
  <2>1. A = {} BY <1>2, <1>3
  <2>2. found = -1 BY <1>3 DEF T!First, T!End
  <2> QED BY <1>2, <2>1, <2>2
<1>4. CASE n # 0
  <2>1. PICK r : Ranked(nd, r) /\ Newest(nd, r) BY DEF Good, Nodes
  <2>2. h \in 0 .. n - 1 BY <1>1, <1>4, PositionLemma DEF Hashed
  <2>3. A \subseteq Reach(nd, h)
    <3>1. Positions(tab)[k] = h BY DEF Positions
    <3> QED BY <3>1, NilLemma DEF Good, Nodes, Placed, T!Holding
  <2>4. ASSUME NEW t, Ranked(nd, t)
        PROVE  /\ A = {} => found = -1
               /\ A # {} => /\ found \in A /\ \A q \in A : t[found] <= t[q]
                            /\ \A q \in A : Least(tab, k, t, q) => found = q
    <3>1. Sized(tab, n, t) BY <1>1, <2>4 DEF Sized
    <3>2. A \cap Reach(nd, h) = A BY <2>3
    <3>3. CASE A = {}
      <4> HIDE DEF A, h, n
      <4>1. A \cap Reach(tab.node, h) = {} BY <3>3
      <4> QED BY <1>2, <2>2, <3>1, <3>3, <4>1, FirstLemma DEF h, A
    <3>4. CASE A # {}
      <4> DEFINE ranks == {t[p] : p \in A}
      <4>1. \A p \in A : t[p] \in Nat BY <1>1, <1>2, <2>4 DEF Ranked
      <4>2. ranks \in SUBSET Nat /\ ranks # {} BY <3>4, <4>1
      <4> HIDE DEF A, h, n, nd
      <4>3. PICK y \in ranks : \A e \in ranks : y <= e
        <5> HIDE DEF ranks
        <5> QED BY <4>2, SmallestLemma
      <4>4. PICK q \in A : t[q] = y OBVIOUS
      <4>5. ASSUME NEW e \in A, \A j \in A : t[e] <= t[j] PROVE found = e
        <5>1. /\ e \in A \cap Reach(tab.node, h)
              /\ \A j \in A \cap Reach(tab.node, h) : t[e] <= t[j]
          BY <3>2, <4>5 DEF nd
        <5> DEFINE f == T!First(tab, k, A)
        <5>2. f = e
          BY ONLY <1>2, <2>2, <3>1, <5>1, k \in T!Key, FirstLemma DEF h
        <5> QED BY <5>2 DEF A
      <4>6. \A j \in A : t[q] <= t[j] BY <4>3, <4>4
      <4>7. found = q BY <4>5, <4>6
      <4>8. \A e \in A : Least(tab, k, t, e) => found = e
        BY <4>5 DEF Least, A
      <4> QED BY <3>4, <4>6, <4>7, <4>8
    <3> QED BY <3>3, <3>4
  <2>5. ASSUME NEW p \in Live(tab, k) PROVE found = p
    <3>1. found \in A /\ r[found] <= r[p] BY <1>2, <2>1, <2>4, <2>5
    <3>2. p # found => r[p] < r[found]
      BY <1>1, <1>2, <2>1, <3>1, NilLemma DEF Newest, Live, T!Holding
    <3>3. r[p] \in Nat /\ r[found] \in Nat
      BY <1>1, <1>2, <2>1, <3>1 DEF Ranked
    <3> QED BY <3>1, <3>2, <3>3
  <2>6. A = {} => found = -1 BY <2>1, <2>4
  <2>7. A # {} => found \in A BY <2>1, <2>4
  <2> HIDE DEF A, nd, n
  <2>8. A # {} => \A t : Ranked(nd, t) =>
               /\ \A q \in A : t[found] <= t[q]
               /\ \A q \in A : Least(tab, k, t, q) => found = q
    BY <2>4
  <2> QED BY <2>5, <2>6, <2>7, <2>8 DEF A, nd
<1> QED BY <1>3, <1>4

LEMMA IndexLemma ==
  ASSUME NEW tab, Good(tab), Hashed, NEW k \in T!Key
  PROVE  T!findindex(tab, k) \in Int
<1> DEFINE found == T!First(tab, k, T!Holding(tab, k))
<1>1. k # Nil BY NilLemma
<1>2. found \in Int
  <2>1. found = -1 \/ found \in T!Holding(tab, k) BY FoundLemma
  <2>2. T!Holding(tab, k) \subseteq Int BY GoodLemma DEF T!Holding
  <2> QED BY <2>1, <2>2
<1>3. T!InArray(tab, k) => k \in Int
  BY PartsAssumption DEF T!InArray, T!Integer, T!TableAssumption
<1>4. Len(tab.array) \in Nat BY GoodLemma
<1> HIDE DEF found
<1>5. T!findindex(tab, k) =
        IF T!InArray(tab, k) THEN k
        ELSE IF found # -1 THEN Len(tab.array) + 1 + found ELSE -1
  BY <1>1 DEF T!findindex, T!End, found
<1> QED BY <1>2, <1>3, <1>4, <1>5

(* Tables with the same keys in the same places.                           *)
Same(tab, u) ==
  /\ Len(u.array) = Len(tab.array) /\ DOMAIN u.node = DOMAIN tab.node
  /\ \A p \in DOMAIN tab.node : /\ u.node[p].key = tab.node[p].key
                                /\ u.node[p].next = tab.node[p].next

LEMMA SameLemma ==
  ASSUME NEW tab, Good(tab), Hashed, NEW u, Good(u), Same(tab, u),
         NEW k \in T!Stored
  PROVE  T!findindex(u, k) = T!findindex(tab, k)
<1> DEFINE f == T!First(tab, k, T!Holding(tab, k))
           g == T!First(u, k, T!Holding(u, k))
<1>1. T!InArray(u, k) <=> T!InArray(tab, k) BY DEF Same, T!InArray
<1>2. CASE k = Nil BY <1>2 DEF T!findindex
<1>3. CASE k \in T!Key
  <2>1. T!Holding(u, k) = T!Holding(tab, k) BY DEF Same, T!Holding
  <2>2. PICK r : Ranked(tab.node, r) BY DEF Good, Nodes
  <2>3. Ranked(u.node, r) BY <2>2 DEF Same, Ranked
  <2>4. f = g
    <3> DEFINE A == T!Holding(tab, k)
    <3>1. A \subseteq DOMAIN tab.node BY DEF T!Holding
    <3>2. CASE A = {}
      <4>1. f = -1 BY <1>3, <3>2, FoundLemma
      <4>2. g = -1 BY <1>3, <2>1, <3>2, FoundLemma
      <4> QED BY <4>1, <4>2
    <3>3. CASE A # {}
      <4>1. f \in A /\ \A q \in A : r[f] <= r[q]
        BY <1>3, <2>2, <3>3, FoundLemma
      <4>2. f \in T!Holding(u, k) /\ Least(u, k, r, f)
        BY <2>1, <4>1 DEF Least
      <4> HIDE DEF f
      <4> QED BY <1>3, <2>3, <4>2, FoundLemma
    <3> QED BY <3>2, <3>3
  <2> QED BY <1>1, <2>4 DEF T!findindex, Same
<1> QED BY <1>2, <1>3 DEF T!Stored

(* Every value is met at the place of its key, and every key with a value  *)
(* has such a place.                                                       *)
Place(tab, i) ==
  IF i <= Len(tab.array) THEN tab.array[i]
  ELSE tab.node[i - Len(tab.array) - 1].val
Places(tab) == 1 .. Len(tab.array) + T!Size(tab)

LEMMA PlaceLemma ==
  ASSUME NEW tab, Good(tab), Hashed
  PROVE  /\ \A i \in Places(tab) : Place(tab, i) # Nil =>
              /\ Place(tab, i) \in T!Key /\ T!findindex(tab, Place(tab, i)) = i
              /\ T!luaH_get(tab, Place(tab, i)) # Nil
         /\ \A j \in T!Key : T!luaH_get(tab, j) # Nil =>
              /\ T!findindex(tab, j) \in Places(tab)
              /\ Place(tab, T!findindex(tab, j)) = j
<1> DEFINE l == Len(tab.array)
           z == T!Size(tab)
           nd == tab.node
<1>1. /\ MaxIndex \in Nat /\ l \in Nat /\ z \in Nat /\ DOMAIN nd = 0 .. z - 1
      /\ nd \in NodesOf(z) /\ Kept(nd)
      /\ \A i \in 1 .. l :
           tab.array[i] \in (IF i \in T!Integer THEN {i, Nil} ELSE {Nil})
  <2>1. MaxIndex \in Nat BY PartsAssumption DEF T!TableAssumption
  <2> HIDE DEF l, z, nd
  <2> QED BY <2>1, GoodLemma DEF l, z, nd
<1>2. ASSUME NEW j \in T!Key, NEW p \in Live(tab, j), ~T!InArray(tab, j)
      PROVE  T!findindex(tab, j) = l + 1 + p /\ p \in 0 .. z - 1
  <2>1. p \in DOMAIN nd /\ p \in T!Holding(tab, j)
    BY DEF Live, T!Holding
  <2>2. T!First(tab, j, T!Holding(tab, j)) = p BY <1>2, FoundLemma
  <2>3. p # -1 /\ j # Nil BY <1>1, <2>1, NilLemma
  <2> QED BY <1>1, <1>2, <2>1, <2>2, <2>3 DEF T!findindex, T!End
<1>3. ASSUME NEW j \in T!Key, T!InArray(tab, j)
      PROVE  T!findindex(tab, j) = j /\ j \in 1 .. l
  <2>1. j # Nil BY NilLemma
  <2>2. j \in 1 .. l BY <1>1, <1>3 DEF T!InArray, T!Integer
  <2> QED BY <1>3, <2>1, <2>2 DEF T!findindex
<1>4. ASSUME NEW i \in Places(tab), Place(tab, i) # Nil
      PROVE  /\ Place(tab, i) \in T!Key
             /\ T!findindex(tab, Place(tab, i)) = i
             /\ T!luaH_get(tab, Place(tab, i)) # Nil
  <2>1. i \in 1 .. l + z BY DEF Places
  <2>2. CASE i <= l
    <3>1. i \in 1 .. l /\ Place(tab, i) = tab.array[i]
      BY <1>1, <2>1, <2>2 DEF Place
    <3>2. Place(tab, i) = i /\ i \in T!Integer BY <1>1, <1>4, <3>1
    <3>3. i \in T!Key /\ T!InArray(tab, i)
      BY <2>2, <3>2 DEF T!Key, T!InArray
    <3>4. T!luaH_get(tab, i) = i BY <3>1, <3>2, <3>3, GetLemma
    <3> QED BY <1>3, <1>4, <3>2, <3>3, <3>4
  <2>3. CASE ~(i <= l)
    <3> DEFINE p == i - l - 1
               k == Place(tab, i)
    <3>1. p \in 0 .. z - 1 /\ l + 1 + p = i
      <4>1. l \in Nat /\ z \in Nat /\ i \in 1 .. l + z BY <1>1, <2>1
      <4> HIDE DEF l, z, k
      <4> QED BY ONLY <2>3, <4>1
    <3>2. k = nd[p].val BY <2>3 DEF Place
    <3> HIDE DEF p
    <3>3. k = nd[p].key /\ ~nd[p].dead BY <1>1, <1>4, <3>1, <3>2 DEF Kept
    <3>4. k \in T!Key BY <1>1, <1>4, <3>1, <3>2 DEF NodesOf, Node, T!Stored
    <3>5. ~T!InArray(tab, k) BY <1>1, <1>4, <3>1, <3>3 DEF Good
    <3>6. p \in Live(tab, k) BY <1>1, <3>1, <3>3 DEF Live, T!Holding
    <3>7. T!luaH_get(tab, k) = k BY <3>2, <3>4, <3>5, <3>6, GetLemma
    <3> QED BY <1>2, <1>4, <3>1, <3>4, <3>5, <3>6, <3>7
  <2> QED BY <2>2, <2>3
<1>5. ASSUME NEW j \in T!Key, T!luaH_get(tab, j) # Nil
      PROVE  /\ T!findindex(tab, j) \in Places(tab)
             /\ Place(tab, T!findindex(tab, j)) = j
  <2>1. CASE T!InArray(tab, j)
    <3>1. T!findindex(tab, j) = j /\ j \in 1 .. l BY <1>3, <2>1
    <3>2. T!luaH_get(tab, j) = tab.array[j] BY <2>1, GetLemma
    <3>3. tab.array[j] = j BY <1>1, <1>5, <3>1, <3>2
    <3>4. j <= l /\ j \in 1 .. l + z BY <1>1, <3>1
    <3> QED BY <3>1, <3>3, <3>4 DEF Place, Places
  <2>2. CASE ~T!InArray(tab, j)
    <3>1. PICK p : p \in Live(tab, j) BY <1>5, <2>2, GetLemma
    <3>2. T!luaH_get(tab, j) = nd[p].val BY <2>2, <3>1, GetLemma
    <3>3. nd[p].val = j
      BY <1>1, <1>5, <3>1, <3>2 DEF Kept, Live, T!Holding
    <3>4. T!findindex(tab, j) = l + 1 + p /\ p \in 0 .. z - 1
      BY <1>2, <2>2, <3>1
    <3>5. /\ l + 1 + p \in 1 .. l + z /\ ~(l + 1 + p <= l)
          /\ (l + 1 + p) - l - 1 = p
      BY <1>1, <3>4
    <3> QED BY <3>3, <3>4, <3>5 DEF Place, Places
  <2> QED BY <2>1, <2>2
<1> QED BY <1>4, <1>5

(* luaH_next() gives the key with a value that comes next.                 *)
Follow(tab, from, k) ==
  \/ /\ k = Nil
     /\ \A j \in T!Key : T!luaH_get(tab, j) # Nil =>
          T!findindex(tab, j) <= from
  \/ /\ k \in T!Key /\ T!findindex(tab, k) \in Nat
     /\ T!findindex(tab, k) > from
     /\ \A j \in T!Key :
          /\ T!luaH_get(tab, j) # Nil /\ T!findindex(tab, j) > from /\ j # k
          => T!findindex(tab, j) > T!findindex(tab, k)
LEMMA NextLemma ==
  ASSUME NEW tab, Good(tab), Hashed, NEW at, NEW from,
         from = T!findindex(tab, at), from \in Nat
  PROVE  Follow(tab, from, T!luaH_next(tab, at))
<1> DEFINE l == Len(tab.array)
           z == T!Size(tab)
           rest == {i \in from + 1 .. l + z : Place(tab, i) # Nil}
           k == T!luaH_next(tab, at)
<1>1. l \in Nat /\ z \in Nat
  <2> HIDE DEF l, z
  <2> QED BY GoodLemma DEF l, z
<1>2. k = IF rest = {} THEN Nil ELSE Place(tab, T!Min(rest))
  BY DEF T!luaH_next, Place
<1>3. \A i \in rest : i \in Places(tab) /\ i \in Nat /\ i > from /\ Place(tab, i) # Nil
  BY <1>1 DEF Places
<1>4. \A j \in T!Key :
        T!luaH_get(tab, j) # Nil /\ T!findindex(tab, j) > from =>
          T!findindex(tab, j) \in rest
  <2>1. SUFFICES ASSUME NEW j \in T!Key, T!luaH_get(tab, j) # Nil,
                        T!findindex(tab, j) > from
                 PROVE  T!findindex(tab, j) \in rest
    OBVIOUS
  <2> DEFINE i == T!findindex(tab, j)
  <2>2. i \in Places(tab) /\ Place(tab, i) = j BY <2>1, PlaceLemma
  <2>3. i > from BY <2>1
  <2> HIDE DEF i
  <2>4. i \in rest BY <1>1, <2>2, <2>3, NilLemma DEF Places
  <2> QED BY <2>4 DEF i
<1>5. \A j \in T!Key : T!luaH_get(tab, j) # Nil =>
        T!findindex(tab, j) \in Nat /\ Place(tab, T!findindex(tab, j)) = j
  <2>1. Places(tab) \subseteq Nat BY <1>1 DEF Places
  <2> QED BY <2>1, PlaceLemma
<1> HIDE DEF rest, k
<1>6. CASE rest = {}
  <2>1. k = Nil BY <1>2, <1>6
  <2>2. \A j \in T!Key : T!luaH_get(tab, j) # Nil =>
          T!findindex(tab, j) <= from
    BY <1>4, <1>5, <1>6
  <2> QED BY <2>1, <2>2 DEF Follow, k
<1>7. CASE rest # {}
  <2> DEFINE m == T!Min(rest)
  <2>1. rest \in SUBSET Nat BY <1>3
  <2>2. m \in rest /\ \A i \in rest : m <= i BY <1>7, <2>1, MinLemma
  <2>3. k = Place(tab, m) BY <1>2, <1>7
  <2> HIDE DEF m
  <2>4. m \in Places(tab) /\ m \in Nat /\ m > from /\ k # Nil
    BY <1>3, <2>2, <2>3
  <2>5. k \in T!Key /\ T!findindex(tab, k) = m
    BY <2>3, <2>4, PlaceLemma
  <2>6. ASSUME NEW j \in T!Key, T!luaH_get(tab, j) # Nil,
               T!findindex(tab, j) > from, j # k
        PROVE  T!findindex(tab, j) > m
    <3>1. m <= T!findindex(tab, j) BY <1>4, <2>2, <2>6
    <3>2. T!findindex(tab, j) # m BY <1>5, <2>3, <2>6
    <3>3. T!findindex(tab, j) \in Nat BY <1>5, <2>6
    <3> QED BY <2>4, <3>1, <3>2, <3>3
  <2> QED BY <2>4, <2>5, <2>6 DEF Follow, k
<1> QED BY <1>6, <1>7

(* Storing under a key that has a value moves nothing.                     *)
LEMMA InPlaceLemma ==
  ASSUME NEW tab, Good(tab), Hashed, NEW k \in T!Key, NEW v \in {k, Nil},
         T!luaH_get(tab, k) # Nil, NEW u, u = T!luaH_set(tab, k, v)
  PROVE  Same(tab, u)
<1> DEFINE a == T!Assign(tab, k, v)
<1>1. T!InArray(tab, k) \/ Live(tab, k) # {} BY GetLemma
<1>2. Outcome(tab, a, k, v) BY <1>1, AssignLemma
<1>3. a # T!Full /\ tab # T!Full
  <2>1. a.free \in Nat /\ tab.free \in Nat BY <1>2 DEF Outcome, Good, Tab
  <2>2. T!Full.free = -1 BY DEF T!Full, T!End
  <2> HIDE DEF a
  <2> QED BY <2>1, <2>2
<1>4. u = a BY <1>3 DEF T!luaH_set
<1>5. CASE T!InArray(tab, k)
  <2>1. a = [tab EXCEPT !.array[k] = v] BY <1>3, <1>5 DEF T!Assign
  <2>2. a.node = tab.node BY <2>1, <1>2 DEF Good, Tab
  <2>3. Len(a.array) = Len(tab.array) BY <1>2 DEF Outcome
  <2> HIDE DEF a
  <2> QED BY <1>4, <2>2, <2>3 DEF Same
<1>6. CASE ~T!InArray(tab, k)
  <2>1. PICK w : w \in Live(tab, k) BY <1>1, <1>6
  <2>2. T!HasNode(tab, k) /\ T!NodeOf(tab, k) = w
    BY <2>1, GetLemma, NodeLemma
  <2>3. a = [tab EXCEPT !.node[w].val = v]
    BY <1>3, <1>6, <2>2 DEF T!Assign
  <2>4. Len(a.array) = Len(tab.array) /\ DOMAIN a.node = DOMAIN tab.node
    BY <1>2 DEF Outcome
  <2>5. w \in DOMAIN tab.node BY <2>1 DEF Live, T!Holding
  <2>6. a.node = [tab.node EXCEPT ![w].val = v]
    <3>1. tab = [array |-> tab.array, node |-> tab.node, free |-> tab.free]
      BY DEF Good, Tab
    <3> DEFINE nf == [tab.node EXCEPT ![w].val = v]
    <3>2. a = [tab EXCEPT !.node = nf] BY <2>3
    <3> HIDE DEF nf, a
    <3> QED BY <3>1, <3>2 DEF nf
  <2>7. \A p \in DOMAIN tab.node : tab.node[p] \in Node
    BY DEF Good, NodesOf
  <2>8. ASSUME NEW p \in DOMAIN tab.node
        PROVE  /\ a.node[p].key = tab.node[p].key
               /\ a.node[p].next = tab.node[p].next
    <3>1. CASE p = w
      <4>1. a.node[p] = [tab.node[p] EXCEPT !.val = v]
        BY <2>5, <2>6, <3>1
      <4> HIDE DEF a
      <4> QED BY <2>7, <4>1 DEF Node
    <3>2. CASE p # w
      <4>1. a.node[p] = tab.node[p] BY <2>5, <2>6, <3>2
      <4> QED BY <4>1
    <3> QED BY <3>1, <3>2
  <2> HIDE DEF a
  <2> QED BY <1>4, <2>4, <2>8 DEF Same
<1> QED BY <1>5, <1>6

(* The collector takes no value and moves nothing.                         *)
LEMMA CollectLemma ==
  ASSUME NEW tab, Good(tab), Hashed, NEW u,
         u = [tab EXCEPT !.node = [p \in DOMAIN tab.node |->
                [tab.node[p] EXCEPT !.dead =
                   \/ tab.node[p].dead
                   \/ tab.node[p].val = Nil /\ tab.node[p].key \in Strings]]]
  PROVE  /\ Good(u) /\ Same(tab, u)
         /\ \A j \in T!Key : T!luaH_get(u, j) = T!luaH_get(tab, j)
<1> DEFINE n == T!Size(tab)
           nd == tab.node
           Dead(p) == \/ nd[p].dead
                      \/ nd[p].val = Nil /\ nd[p].key \in Strings
           nf == [p \in DOMAIN nd |-> [nd[p] EXCEPT !.dead = Dead(p)]]
<1>1. /\ n \in Nat /\ tab \in Tab /\ DOMAIN nd = 0 .. n - 1
      /\ nd \in NodesOf(n) /\ \A p \in 0 .. n - 1 : nd[p] \in Node
      /\ Nodes(nd, Positions(tab)) /\ Kept(nd)
      /\ tab = [array |-> tab.array, node |-> nd, free |-> tab.free]
  BY DEF Good, NodesOf, Tab, Nodes
<1>2. u = [tab EXCEPT !.node = nf] OBVIOUS
<1>3. \A p \in 0 .. n - 1 : Dead(p) \in BOOLEAN OBVIOUS
<1>4. ASSUME NEW p \in 0 .. n - 1
      PROVE  /\ nf[p] \in Node /\ nf[p].key = nd[p].key
             /\ nf[p].val = nd[p].val /\ nf[p].next = nd[p].next
             /\ nf[p].dead = Dead(p)
  <2>1. nf[p] = [nd[p] EXCEPT !.dead = Dead(p)] BY <1>1
  <2> HIDE DEF Dead, nf
  <2> QED BY <1>1, <1>3, <2>1 DEF Node
<1>5. DOMAIN nf = 0 .. n - 1 BY <1>1
<1>6. nf \in NodesOf(n)
  <2>1. nf = [p \in 0 .. n - 1 |-> nf[p]] BY <1>1
  <2> HIDE DEF nf
  <2> QED BY <1>4, <2>1 DEF NodesOf
<1> HIDE DEF nf
<1>7. u = [array |-> tab.array, node |-> nf, free |-> tab.free]
  <2> HIDE DEF nd
  <2> QED BY <1>1, <1>2
<1>8. u.array = tab.array /\ u.node = nf /\ u.free = tab.free BY <1>7
<1>9. Kept(nf)
  <2>1. SUFFICES ASSUME NEW p \in 0 .. n - 1
                 PROVE  /\ nf[p].key = Nil => nf[p].val = Nil /\ nf[p].next = -1
                        /\ nf[p].val # Nil => nf[p].val = nf[p].key /\ ~nf[p].dead
    BY <1>5 DEF Kept
  <2>2. nd[p].val # Nil => ~Dead(p) BY <1>1 DEF Kept
  <2> HIDE DEF Dead
  <2> QED BY <1>1, <1>4, <2>2 DEF Kept
<1>10. \A p \in 0 .. n - 1 : nd[p].dead => nf[p].dead BY <1>4
<1> HIDE DEF Dead
<1>11. T!Size(u) = n BY <1>1, <1>5, <1>8, SizeLemma
<1>12. Positions(u) = Positions(tab)
  BY <1>11 DEF Positions, T!mainposition
<1>13. \A j : T!InArray(u, j) <=> T!InArray(tab, j) BY <1>8 DEF T!InArray
<1>14. Nodes(nf, Positions(tab))
  <2>1. CASE n = 0
    <3>1. /\ Linked(nf) /\ Placed(nf, Positions(tab))
          /\ \A r : Newest(nf, r)
      BY <1>5, <2>1 DEF Linked, Placed, Newest
    <3>2. PICK r : Ranked(nd, r) BY <1>1 DEF Nodes
    <3>3. Ranked(nf, r) BY <1>1, <1>5, <2>1, <3>2 DEF Ranked
    <3> QED BY <1>9, <3>1, <3>3 DEF Nodes
  <2>2. CASE n # 0
    <3> DEFINE mp == Positions(tab)
    <3>1. mp \in [T!Key -> 0 .. n - 1] BY <1>1, <2>2, PositionsLemma
    <3>2. \A p \in 0 .. n - 1 :
             /\ nf[p].key = nd[p].key /\ nf[p].next = nd[p].next
             /\ nd[p].dead => nf[p].dead
      BY <1>4, <1>10
    <3> HIDE DEF mp, n, nd
    <3>3. Nodes(nf, mp)
      BY ONLY <1>1, <1>6, <1>9, <3>1, <3>2, SameKeysLemma DEF mp
    <3> QED BY <3>3 DEF mp
  <2> QED BY <2>1, <2>2
<1>15. u \in Tab
  <2>1. nf \in UNION {NodesOf(i) : i \in Nat} BY <1>1, <1>6
  <2>2. tab.array \in Seq(T!Stored) /\ tab.free \in Nat BY <1>1 DEF Tab
  <2> QED BY ONLY <1>7, <2>1, <2>2 DEF Tab
<1>16. ArrayOK(u) BY <1>8 DEF Good, ArrayOK
<1>17. ASSUME NEW p \in 0 .. n - 1
       PROVE  /\ nf[p].key # Nil => ~T!InArray(u, nf[p].key)
              /\ p >= u.free => nf[p].key # Nil
  BY <1>1, <1>4, <1>8, <1>13 DEF Good
<1>18. u.free <= n BY <1>8 DEF Good
<1> HIDE DEF n
<1>19. Good(u)
  BY <1>1, <1>5, <1>6, <1>8, <1>11, <1>12, <1>14, <1>15, <1>16, <1>17, <1>18
  DEF Good
<1>20. Vals(nf) = Vals(nd) BY <1>1, <1>4, <1>5 DEF Vals
<1>21. ASSUME NEW j \in T!Key
       PROVE  T!luaH_get(u, j) = T!luaH_get(tab, j)
  <2>1. CASE T!InArray(tab, j)
    <3>1. T!luaH_get(u, j) = u.array[j] BY <1>13, <1>19, <2>1, GetLemma
    <3>2. T!luaH_get(tab, j) = tab.array[j] BY <2>1, GetLemma
    <3> QED BY <1>8, <3>1, <3>2
  <2>2. CASE ~T!InArray(tab, j)
    BY <1>8, <1>13, <1>19, <1>20, <2>2, ValueLemma
  <2> QED BY <2>1, <2>2
<1>22. Same(tab, u) BY <1>1, <1>4, <1>5, <1>8 DEF Same
<1> QED BY <1>19, <1>21, <1>22

-----------------------------------------------------------------------------
(* The inductive invariant.  All keys that the traversal has met are at or *)
(* before its place, and all that it must meet are behind it.              *)

Walks == [at : T!Stored, on : BOOLEAN, seen : SUBSET T!Key,
          must : SUBSET T!Key, bad : BOOLEAN]
Walking(tab, w) ==
  /\ T!findindex(tab, w.at) \in Nat
  /\ \A k \in w.seen : T!findindex(tab, k) <= T!findindex(tab, w.at)
  /\ \A k \in w.must : T!findindex(tab, k) > T!findindex(tab, w.at)
TableInv ==
  /\ Hashed /\ Good(table)
  /\ contents \in [T!Key -> T!Stored]
  /\ \A k \in T!Key : T!luaH_get(table, k) = contents[k]
  /\ walk \in Walks /\ ~walk.bad
  /\ walk.on => /\ Walking(table, walk)
                /\ \A k \in walk.must : contents[k] # Nil

LEMMA TableStart == T!TableInit => TableInv
<1> SUFFICES ASSUME T!TableInit PROVE TableInv OBVIOUS
<1>1. PICK na \in 0 .. 2, nh \in 0 .. 2 :
        table = [array |-> [i \in 1 .. na |-> Nil],
                 node |-> T!Nodes(T!Twoto(nh)), free |-> T!Twoto(nh)]
  BY DEF T!TableInit
<1> DEFINE none == [array |-> <<>>]
           n == T!Twoto(nh)
<1>2. Hashed BY DEF T!TableInit, Hashed
<1>3. n \in Nat BY TwotoLemma
<1>4. MaxIndex \in Nat /\ MaxIndex > 0 BY PartsAssumption DEF T!TableAssumption
<1>5. na \in 0 .. 2 * MaxIndex BY <1>4
<1> HIDE DEF n
<1>6. none.array \in Seq(T!Stored) /\ Len(none.array) = 0 OBVIOUS
<1>7. table = Fresh(none, na, n)
  <2>1. [i \in 1 .. na |-> Nil] =
          [i \in 1 .. na |-> IF i <= Len(none.array) THEN none.array[i]
                             ELSE Nil]
    BY <1>6
  <2> QED BY <1>1, <2>1 DEF Fresh, n
<1>8. \A i \in 1 .. Len(none.array) :
        none.array[i] \in (IF i \in T!Integer THEN {i, Nil} ELSE {Nil})
  BY <1>6
<1>9. \A j : ~T!InArray(none, j)
  <2>1. \A j \in T!Integer : j >= 1 /\ j \in Nat BY <1>4 DEF T!Integer
  <2> HIDE DEF none
  <2> QED BY <1>6, <2>1 DEF T!InArray
<1> HIDE DEF none
<1>10. /\ Holds(table, na, n, {})
       /\ \A j \in T!Key : T!luaH_get(table, j) =
            IF T!InArray(none, j) /\ j <= na THEN none.array[j] ELSE Nil
  BY <1>2, <1>3, <1>5, <1>6, <1>7, <1>8, FreshLemma
<1>11. \A j \in T!Key : T!luaH_get(table, j) = Nil BY <1>9, <1>10
<1>12. /\ contents = [k \in T!Key |-> Nil]
       /\ walk = [at |-> Nil, on |-> FALSE, seen |-> {}, must |-> {},
                  bad |-> FALSE]
  BY DEF T!TableInit, T!NoWalk
<1>13. contents \in [T!Key -> T!Stored] BY <1>12 DEF T!Stored
<1>14. walk \in Walks /\ ~walk.bad /\ ~walk.on BY <1>12 DEF Walks, T!Stored
<1> QED BY <1>2, <1>10, <1>11, <1>12, <1>13, <1>14 DEF TableInv, Holds

(* A traversal goes on in a table with the same keys in the same places.   *)
LEMMA WalkLemma ==
  ASSUME TableInv, walk.on, NEW u, Good(u), Same(table, u)
  PROVE  Walking(u, walk)
<1>1. /\ Good(table) /\ Hashed /\ walk.at \in T!Stored
      /\ walk.seen \subseteq T!Stored /\ walk.must \subseteq T!Stored
  BY DEF TableInv, Walks, T!Stored
<1>2. \A k \in T!Stored : T!findindex(u, k) = T!findindex(table, k)
  BY <1>1, SameLemma
<1>3. Walking(table, walk) BY DEF TableInv
<1> QED BY <1>1, <1>2, <1>3 DEF Walking

(* The hash of a string never changes.                                     *)
LEMMA HashLemma ==
  ASSUME hash' = hash
  PROVE  /\ Good(table)' <=> Good(table')
         /\ \A k : T!luaH_get(table, k)' = T!luaH_get(table', k)
         /\ \A k : T!findindex(table, k)' = T!findindex(table', k)
<1>1. \A k : T!mainposition(table, k)' = T!mainposition(table', k)
  BY DEF T!mainposition
<1>2. Positions(table)' = Positions(table') BY <1>1 DEF Positions
<1>3. Good(table)' <=> Good(table') BY <1>2 DEF Good
<1>4. \A k, some : T!First(table, k, some)' = T!First(table', k, some)
  BY <1>1 DEF T!First
<1>5. \A k : T!NodeOf(table, k)' = T!NodeOf(table', k)
  BY <1>4 DEF T!NodeOf
<1>6. \A k : T!luaH_get(table, k)' = T!luaH_get(table', k)
  BY <1>5 DEF T!luaH_get, T!HasNode
<1>7. \A k : T!findindex(table, k)' = T!findindex(table', k)
  BY <1>4 DEF T!findindex
<1> QED BY <1>3, <1>6, <1>7

(* What the next state must satisfy, said of its table.                    *)
LEMMA NextInv ==
  ASSUME hash' = hash, Hashed, Good(table'),
         contents' \in [T!Key -> T!Stored],
         \A k \in T!Key : T!luaH_get(table', k) = contents'[k],
         walk' \in Walks, ~walk'.bad,
         walk'.on => /\ Walking(table', walk')
                     /\ \A k \in walk'.must : contents'[k] # Nil
  PROVE  TableInv'
<1>1. Hashed' BY DEF Hashed
<1>2. Good(table)' BY HashLemma
<1>3. \A k \in T!Key : T!luaH_get(table, k)' = contents'[k] BY HashLemma
<1>4. (T!findindex(table, walk.at))' = T!findindex(table', walk'.at)
  <2>1. \A k, some : T!First(table, k, some)' = T!First(table', k, some)
    BY DEF T!First, T!mainposition
  <2>2. T!First(table, walk.at, T!Holding(table, walk.at))' =
          T!First(table', walk'.at, T!Holding(table', walk'.at))
    BY DEF T!First, T!mainposition
  <2> QED BY <2>2 DEF T!findindex
<1>5. \A k : T!findindex(table, k)' = T!findindex(table', k) BY HashLemma
<1>6. walk'.on => Walking(table, walk)' BY <1>4, <1>5 DEF Walking
<1> QED BY <1>1, <1>2, <1>3, <1>6 DEF TableInv

LEMMA StoreStep ==
  ASSUME TableInv, NEW k \in T!Key, NEW v \in {k, Nil}, T!Store(k, v)
  PROVE  TableInv'
<1>1. /\ walk.on => k \in T!Present
      /\ table' = T!luaH_set(table, k, v)
      /\ contents' = [contents EXCEPT ![k] = v]
      /\ walk' = IF v = Nil THEN [walk EXCEPT !.must = walk.must \ {k}]
                 ELSE walk
      /\ hash' = hash
  BY DEF T!Store
<1>2. /\ Hashed /\ Good(table) /\ contents \in [T!Key -> T!Stored]
      /\ \A j \in T!Key : T!luaH_get(table, j) = contents[j]
      /\ walk \in Walks /\ ~walk.bad
      /\ walk.on => /\ Walking(table, walk)
                    /\ \A j \in walk.must : contents[j] # Nil
  BY DEF TableInv
<1>3. Assigned(table, table', k, v) BY <1>1, <1>2, SetLemma
<1>4. v \in T!Stored BY DEF T!Stored
<1>5. contents' \in [T!Key -> T!Stored] BY <1>1, <1>2, <1>4
<1>6. \A j \in T!Key : T!luaH_get(table', j) = contents'[j]
  <2>1. \A j \in T!Key : contents'[j] = IF j = k THEN v ELSE contents[j]
    BY <1>1, <1>2
  <2> QED BY <1>2, <1>3, <2>1 DEF Assigned
<1>7. /\ walk' \in Walks /\ ~walk'.bad /\ walk'.on = walk.on
      /\ walk'.at = walk.at /\ walk'.seen = walk.seen
      /\ walk'.must \subseteq walk.must /\ (v = Nil => k \notin walk'.must)
  <2>1. CASE v = Nil
    <3>1. walk' = [walk EXCEPT !.must = walk.must \ {k}] BY <1>1, <2>1
    <3> QED BY <1>2, <3>1 DEF Walks
  <2>2. CASE v # Nil BY <1>1, <1>2, <2>2
  <2> QED BY <2>1, <2>2
<1>8. ASSUME walk.on
      PROVE  Walking(table', walk') /\ \A j \in walk'.must : contents'[j] # Nil
  <2>1. T!luaH_get(table, k) # Nil BY <1>1, <1>2, <1>8 DEF T!Present
  <2>2. Same(table, table') BY <1>1, <1>2, <2>1, InPlaceLemma
  <2>3. Good(table') BY <1>3 DEF Assigned
  <2>4. Walking(table', walk) BY <1>8, <2>2, <2>3, WalkLemma
  <2>5. Walking(table', walk') BY <1>7, <2>4 DEF Walking
  <2>6. ASSUME NEW j \in walk'.must PROVE contents'[j] # Nil
    <3>1. j \in T!Key /\ contents[j] # Nil BY <1>2, <1>7, <1>8 DEF Walks
    <3>2. contents'[j] = IF j = k THEN v ELSE contents[j]
      BY <1>1, <1>2, <3>1
    <3> QED BY <1>7, <3>1, <3>2
  <2> QED BY <2>5, <2>6
<1>9. Good(table') BY <1>3 DEF Assigned
<1> QED BY <1>1, <1>2, <1>5, <1>6, <1>7, <1>8, <1>9, NextInv

LEMMA ResizeStep ==
  ASSUME TableInv, NEW n \in 1 .. MaxIndex, T!Resize(n)
  PROVE  TableInv'
<1> DEFINE z == T!Size(table)
           B == Keys(table.node)
<1>1. /\ ~walk.on /\ table' = T!resize(table, n, z)
      /\ hash' = hash /\ contents' = contents /\ walk' = walk
      /\ n > Len(table.array)
  BY DEF T!Resize
<1>2. /\ Hashed /\ Good(table) /\ contents \in [T!Key -> T!Stored]
      /\ \A j \in T!Key : T!luaH_get(table, j) = contents[j]
      /\ walk \in Walks /\ ~walk.bad
  BY DEF TableInv
<1>3. z \in Nat /\ DOMAIN table.node = 0 .. z - 1 /\ Kept(table.node)
  BY <1>2, GoodLemma
<1>4. IsFiniteSet(B) /\ Cardinality(B) <= z
  <2> DEFINE D == {p \in 0 .. z - 1 : table.node[p].key # Nil}
             g == [p \in D |-> table.node[p].key]
  <2>1. IsFiniteSet(0 .. z - 1) /\ Cardinality(0 .. z - 1) = z
    BY <1>3, CountLemma
  <2>2. D \subseteq 0 .. z - 1 OBVIOUS
  <2>3. \A y \in B : \E p \in D : g[p] = y BY <1>3 DEF Keys
  <2>4. g \in [D -> B] BY <1>3 DEF Keys
  <2> HIDE DEF D, B, g, z
  <2>5. IsFiniteSet(D) /\ Cardinality(D) <= z BY <2>1, <2>2, FS_Subset
  <2>6. g \in Surjection(D, B) BY <2>3, <2>4 DEF Surjection
  <2>7. IsFiniteSet(B) /\ Cardinality(B) <= Cardinality(D)
    BY <2>5, <2>6, FS_Surjection
  <2>8. Cardinality(B) \in Nat /\ Cardinality(D) \in Nat
    BY <2>5, <2>7, FS_CardinalityType
  <2> QED BY <1>3, <2>5, <2>7, <2>8
<1>5. T!Twoto(z) \in Nat /\ T!Twoto(z) >= z BY <1>3, TwotoLemma
<1>6. Bounded(T!Twoto(z), B)
  <2>1. Cardinality(B) \in Nat BY <1>4, FS_CardinalityType
  <2> HIDE DEF B, z
  <2>2. Cardinality(B) <= T!Twoto(z) BY <1>3, <1>4, <1>5, <2>1
  <2> QED BY <1>2, <1>4, <1>5, <2>2 DEF Bounded
<1>7. ASSUME NEW j \in T!Key, T!luaH_get(table, j) # Nil
      PROVE  Fitting(j, n, B)
  <2>1. MaxIndex \in Nat BY PartsAssumption DEF T!TableAssumption
  <2>2. CASE T!InArray(table, j)
    <3>1. j \in T!Integer /\ j \in Nat /\ j <= Len(table.array)
      BY <2>1, <2>2 DEF T!InArray, T!Integer
    <3>2. Len(table.array) \in Nat BY <1>2, GoodLemma
    <3>3. j <= n BY <1>1, <2>1, <3>1, <3>2
    <3> QED BY <3>1, <3>3 DEF Fitting
  <2>3. CASE ~T!InArray(table, j)
    <3>1. j \in Vals(table.node) BY <1>2, <1>7, <2>3, ValueLemma
    <3>2. j \in B BY <1>3, <3>1 DEF Vals, Keys, Kept
    <3> QED BY <3>2 DEF Fitting
  <2> QED BY <2>2, <2>3
<1>8. n \in 0 .. 2 * MaxIndex
  BY PartsAssumption DEF T!TableAssumption
<1>9. Resizing(table, n, z, B)
  <2> HIDE DEF B, z
  <2> QED BY <1>2, <1>3, <1>6, <1>7, <1>8 DEF Resizing
<1> HIDE DEF B, z
<1>10. /\ Holds(table', n, T!Twoto(z), B)
       /\ \A j \in T!Key : T!luaH_get(table', j) = T!luaH_get(table, j)
  BY <1>1, <1>9, ResizeLemma
<1>11. Good(table') BY <1>10 DEF Holds
<1> QED BY <1>1, <1>2, <1>10, <1>11, NextInv

LEMMA CollectStep ==
  ASSUME TableInv, T!Collect
  PROVE  TableInv'
<1>1. /\ hash' = hash /\ contents' = contents /\ walk' = walk
      /\ table' = [table EXCEPT !.node = [p \in DOMAIN table.node |->
           [table.node[p] EXCEPT !.dead =
             \/ table.node[p].dead
             \/ table.node[p].val = Nil /\ table.node[p].key \in Strings]]]
  BY DEF T!Collect
<1>2. /\ Hashed /\ Good(table) /\ contents \in [T!Key -> T!Stored]
      /\ \A j \in T!Key : T!luaH_get(table, j) = contents[j]
      /\ walk \in Walks /\ ~walk.bad
      /\ walk.on => \A j \in walk.must : contents[j] # Nil
  BY DEF TableInv
<1>3. /\ Good(table') /\ Same(table, table')
      /\ \A j \in T!Key : T!luaH_get(table', j) = T!luaH_get(table, j)
  BY <1>1, <1>2, CollectLemma
<1>4. walk.on => Walking(table', walk) BY <1>3, WalkLemma
<1> QED BY <1>1, <1>2, <1>3, <1>4, NextInv

LEMMA NextStep ==
  ASSUME TableInv, T!NextKey
  PROVE  TableInv'
<1> DEFINE k == T!luaH_next(table, walk.at)
           from == T!findindex(table, walk.at)
           none == [at |-> Nil, on |-> FALSE, seen |-> {}, must |-> {},
                    bad |-> FALSE]
<1>1. /\ hash' = hash /\ contents' = contents /\ table' = table
      /\ walk' = CASE ~walk.on ->
                        [none EXCEPT !.on = TRUE, !.must = T!Present]
                   [] walk.on /\ k = Nil ->
                        [none EXCEPT !.bad = walk.must # {}]
                   [] OTHER ->
                        [walk EXCEPT !.at = k, !.seen = walk.seen \cup {k},
                           !.must = walk.must \ {k}, !.bad = k \in walk.seen]
  BY DEF T!NextKey, T!NoWalk
<1>2. /\ Hashed /\ Good(table) /\ contents \in [T!Key -> T!Stored]
      /\ \A j \in T!Key : T!luaH_get(table, j) = contents[j]
      /\ walk \in Walks /\ ~walk.bad
      /\ walk.on => /\ Walking(table, walk)
                    /\ \A j \in walk.must : contents[j] # Nil
  BY DEF TableInv
<1>3. ASSUME walk' \in Walks, ~walk'.bad,
             walk'.on => /\ Walking(table, walk')
                         /\ \A j \in walk'.must : contents[j] # Nil
      PROVE  TableInv'
  BY <1>1, <1>2, <1>3, NextInv
<1>4. CASE ~walk.on
  <2>1. /\ walk'.at = Nil /\ walk'.on /\ walk'.seen = {}
        /\ walk'.must = T!Present /\ ~walk'.bad
    BY <1>1, <1>4
  <2>2. walk' \in Walks BY <1>1, <1>4 DEF Walks, T!Stored, T!Present
  <2>3. T!findindex(table, Nil) = 0
    BY NilLemma DEF T!findindex, T!InArray, T!Key
  <2>4. ASSUME NEW j \in T!Present
        PROVE  T!findindex(table, j) > 0 /\ contents[j] # Nil
    <3>1. j \in T!Key /\ contents[j] # Nil BY DEF T!Present
    <3>2. T!findindex(table, j) \in Places(table)
      BY <1>2, <3>1, PlaceLemma
    <3>3. T!Size(table) \in Nat /\ Len(table.array) \in Nat
      BY <1>2, GoodLemma
    <3> QED BY <3>1, <3>2, <3>3 DEF Places
  <2>5. Walking(table, walk') BY <2>1, <2>3, <2>4 DEF Walking
  <2> QED BY <1>3, <2>1, <2>2, <2>4, <2>5
<1>5. CASE walk.on
  <2>1. from \in Nat /\ Walking(table, walk) BY <1>2, <1>5 DEF Walking
  <2>2. Follow(table, from, k) BY <1>2, <2>1, NextLemma
  <2> HIDE DEF k, from
  <2>3. ASSUME NEW j \in walk.must
        PROVE  /\ j \in T!Key /\ T!luaH_get(table, j) # Nil
               /\ T!findindex(table, j) > from /\ contents[j] # Nil
               /\ T!findindex(table, j) \in Nat
    <3>1. j \in T!Key /\ contents[j] # Nil BY <1>2, <1>5 DEF Walks
    <3>2. T!findindex(table, j) \in Places(table)
      BY <1>2, <3>1, PlaceLemma
    <3>3. T!Size(table) \in Nat /\ Len(table.array) \in Nat
      BY <1>2, GoodLemma
    <3>4. T!findindex(table, j) \in Nat BY <3>2, <3>3 DEF Places
    <3> QED BY <1>2, <2>1, <3>1, <3>4 DEF Walking, from
  <2>4. CASE k = Nil
    <3>1. ASSUME NEW j \in walk.must PROVE FALSE
      <4>1. \A i \in T!Key : T!luaH_get(table, i) # Nil =>
              T!findindex(table, i) <= from
        BY <2>2, <2>4, NilLemma DEF Follow
      <4> QED BY <2>1, <2>3, <4>1
    <3>2. walk.must = {} BY <3>1
    <3>3. walk' = [none EXCEPT !.bad = FALSE] BY <1>1, <1>5, <2>4, <3>2
    <3>4. walk' \in Walks /\ ~walk'.bad /\ ~walk'.on
      BY <3>3 DEF Walks, T!Stored
    <3> QED BY <1>3, <3>4
  <2>5. CASE k # Nil
    <3>1. /\ k \in T!Key /\ T!findindex(table, k) \in Nat
          /\ T!findindex(table, k) > from
          /\ \A j \in T!Key :
               /\ T!luaH_get(table, j) # Nil /\ T!findindex(table, j) > from
               /\ j # k
               => T!findindex(table, j) > T!findindex(table, k)
      BY <2>2, <2>5 DEF Follow
    <3>2. \A j \in walk.seen : T!findindex(table, j) <= from
      BY <2>1 DEF Walking, from
    <3>3. k \notin walk.seen BY <2>1, <3>1, <3>2
    <3> DEFINE again == k \in walk.seen
    <3>4. walk' = [walk EXCEPT !.at = k, !.seen = walk.seen \cup {k},
                     !.must = walk.must \ {k}, !.bad = again]
      BY <1>1, <1>5, <2>5
    <3> HIDE DEF again
    <3>5. /\ walk'.at = k /\ walk'.seen = walk.seen \cup {k}
          /\ walk'.must = walk.must \ {k} /\ ~walk'.bad /\ walk' \in Walks
      <4>1. again \in BOOLEAN /\ ~again BY <3>3 DEF again
      <4> QED BY <1>2, <3>1, <3>4, <4>1 DEF Walks, T!Stored
    <3>6. ASSUME NEW j \in walk'.seen
          PROVE  T!findindex(table, j) <= T!findindex(table, k)
      <4>1. CASE j = k BY <3>1, <4>1
      <4>2. CASE j \in walk.seen
        <5>1. T!findindex(table, j) <= from BY <3>2, <4>2
        <5>2. j \in T!Key BY <1>2, <4>2 DEF Walks
        <5>3. T!findindex(table, j) \in Int BY <1>2, <5>2, IndexLemma
        <5> QED BY <2>1, <3>1, <5>1, <5>3
      <4> QED BY <3>5, <4>1, <4>2
    <3>7. \A j \in walk'.must : T!findindex(table, j) > T!findindex(table, k)
      BY <2>3, <3>1, <3>5
    <3>8. Walking(table, walk') BY <3>1, <3>5, <3>6, <3>7 DEF Walking
    <3>9. \A j \in walk'.must : contents[j] # Nil BY <2>3, <3>5
    <3> QED BY <1>3, <3>5, <3>8, <3>9
  <2> QED BY <2>4, <2>5
<1> QED BY <1>4, <1>5

LEMMA TableStep == TableInv /\ T!TableNext => TableInv'
<1> SUFFICES ASSUME TableInv, T!TableNext PROVE TableInv' OBVIOUS
<1>1. ASSUME NEW k \in T!Key, T!Store(k, k) \/ T!Store(k, Nil)
      PROVE  TableInv'
  BY <1>1, StoreStep
<1>2. ASSUME NEW n \in 1 .. MaxIndex, T!Resize(n) PROVE TableInv'
  BY <1>2, ResizeStep
<1>3. CASE T!Collect BY <1>3, CollectStep
<1>4. CASE T!NextKey BY <1>4, NextStep
<1> QED BY <1>1, <1>2, <1>3, <1>4 DEF T!TableNext

LEMMA TableGoal == TableInv => T!TableIsMap
<1> SUFFICES ASSUME TableInv PROVE T!TableIsMap OBVIOUS
<1>1. /\ Hashed /\ Good(table)
      /\ \A k \in T!Key : T!luaH_get(table, k) = contents[k]
      /\ ~walk.bad /\ (walk.on => Walking(table, walk))
  BY DEF TableInv
<1>2. table # T!Full
  <2>1. table.free \in Nat BY <1>1 DEF Good, Tab
  <2>2. T!Full.free = -1 BY DEF T!Full, T!End
  <2> QED BY <2>1, <2>2
<1> DEFINE n == T!luaH_getn(table)
<1>3. Border(table, n) BY <1>1, LengthLemma
<1> HIDE DEF n
<1>4. n = 0 \/ contents[n] # Nil
  BY <1>1, <1>3 DEF Border, T!HasValue, T!Key
<1>5. n + 1 \in T!Integer => contents[n + 1] = Nil
  BY <1>1, <1>3 DEF Border, T!HasValue, T!Key
<1>6. walk.on => T!findindex(table, walk.at) # -1
  BY <1>1 DEF Walking
<1> QED BY <1>1, <1>2, <1>4, <1>5, <1>6 DEF T!TableIsMap, n

(* A table of Lua is a map in every behaviour, for any strings, hashes and *)
(* integer keys: luaH_get() gives what was stored last, rehash() always    *)
(* makes room, the length is a border, and a traversal meets every key     *)
(* that stays once (ltable.c).                                             *)
THEOREM TableIsMapAlways == PartsSpec => []TableIsMap
<1> DEFINE Inv == part = "table" => TableInv
<1>1. PartsInit => Inv BY TableStart DEF PartsInit
<1>2. Inv /\ [PartsNext]_parts => Inv'
  <2> SUFFICES ASSUME Inv, [PartsNext]_parts PROVE Inv' OBVIOUS
  <2>1. CASE PartsNext
    <3>1. part' = part /\ (part = "table" => T!TableNext)
      BY <2>1 DEF PartsNext, Only
    <3> QED BY <3>1, TableStep
  <2>2. CASE UNCHANGED parts
    <3>1. part' = part /\ UNCHANGED <<hash, table, contents, walk>>
      BY <2>2 DEF parts, tables
    <3> SUFFICES ASSUME part = "table" PROVE TableInv' BY <3>1
    <3>2. TableInv OBVIOUS
    <3> QED BY <3>1, <3>2, NextInv DEF TableInv
  <2> QED BY <2>1, <2>2
<1>3. Inv => TableIsMap BY TableGoal DEF TableIsMap
<1> QED BY <1>1, <1>2, <1>3, PTL DEF PartsSpec
=============================================================================
