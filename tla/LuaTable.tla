------------------------------ MODULE LuaTable ------------------------------
(***************************************************************************)
(* The tables of Lua (ltable.c): an array part and a hash part of chained  *)
(* nodes with Brent's variation, that together behave as one map.          *)
(*                                                                         *)
(* A value is the key it was stored under.  Where a key goes when it is    *)
(* hashed is a free choice: any strings may collide.                       *)
(***************************************************************************)
EXTENDS Integers, Sequences, FiniteSets, FiniteSetsExt

CONSTANTS
  Strings,     \* collectable keys
  MaxIndex,    \* bound: integer keys are 1..MaxIndex
  HashValues,  \* bound: the hashes a string may have
  Nil

Integer == 1..MaxIndex
Key     == Integer \cup Strings
Stored  == Key \cup {Nil}

TableAssumption ==
  /\ MaxIndex \in Nat \ {0} /\ HashValues \subseteq Nat
  /\ Strings \cap Integer = {} /\ Nil \notin Key

VARIABLES
  hash,      \* the hash of each string
  table,         \* the table: its array, its nodes, lastfree
  contents,  \* what the program stored and did not take away
  walk       \* a traversal: the key it is at, what it saw, what it must see

tables == <<hash, table, contents, walk>>

Size(tab) == Cardinality(DOMAIN tab.node)
End       == -1
Empty     == [key |-> Nil, dead |-> FALSE, val |-> Nil, next |-> End]
Nodes(n)  == [p \in 0..n-1 |-> Empty]

(* ceillog2() and twoto(): the size of a hash part for n nodes.            *)
Powers(n) ==
  LET twoto[i \in 0..n] == IF i = 0 THEN 1 ELSE 2 * twoto[i - 1]
  IN  {twoto[i] : i \in 0..n}
Twoto(n) == IF n = 0 THEN 0 ELSE Min({p \in Powers(n) : p >= n})

(* hashmod() keeps numbers off the last node, hashstr() uses every node.   *)
mainposition(tab, k) ==
  IF k \in Integer
  THEN k % (IF Size(tab) = 1 THEN 1 ELSE Size(tab) - 1)
  ELSE hash[k] % Size(tab)

(* Along a chain from node p, and the first node on the chain of k that is *)
(* one of some.                                                            *)
Chain(tab, p) ==
  LET at[i \in 0..Size(tab)] ==
        IF i = 0 THEN p ELSE IF at[i - 1] = End THEN End
        ELSE tab.node[at[i - 1]].next
  IN  at
First(tab, k, some) ==
  LET c    == Chain(tab, mainposition(tab, k))
      hits == {i \in 0..Size(tab) : c[i] \in some}
  IN  IF Size(tab) = 0 \/ hits = {} THEN End ELSE c[Min(hits)]

InArray(tab, k) == k \in Integer /\ k <= Len(tab.array)
Holding(tab, k) == {p \in DOMAIN tab.node : tab.node[p].key = k}
NodeOf(tab, k) ==
  First(tab, k, {p \in Holding(tab, k) : ~tab.node[p].dead})
HasNode(tab, k) == NodeOf(tab, k) # End

luaH_get(tab, k) ==
  IF InArray(tab, k) THEN tab.array[k]
  ELSE IF HasNode(tab, k) THEN tab.node[NodeOf(tab, k)].val ELSE Nil

----------------------------------------------------------------------------
(* Insertion.                                                              *)

Full == [array |-> <<>>, node |-> <<>>, free |-> End]

(* getfreepos(): downwards from lastfree, and a node is free only if it    *)
(* never had a key.                                                        *)
FreePos(tab) == {p \in 0..tab.free - 1 : tab.node[p].key = Nil}

(* Mutant: the node that is moved away is not taken out of its chain.      *)
RelinkNone(tab, mp, n) == tab.node
Relink(tab, mp, n) ==
  LET before == First(tab, tab.node[mp].key,
                      {p \in DOMAIN tab.node : tab.node[p].next = mp})
  IN  [tab.node EXCEPT ![before].next = n]

(* newkey() up to rehash(): into the main position if that holds no value, *)
(* or else into a free node, or that takes the key which is in the main    *)
(* position of another.                                                    *)
newkey(tab, k, v) ==
  LET mp   == mainposition(tab, k)
      at   == tab.node[mp]
      n    == Max(FreePos(tab))
      room == Size(tab) > 0 /\ at.val = Nil
      Took(next) == [key |-> k, dead |-> FALSE, val |-> v, next |-> next]
  IN  CASE room -> [tab EXCEPT !.node[mp] = Took(at.next)]
        [] ~room /\ FreePos(tab) = {} -> Full
        [] OTHER ->
             [tab EXCEPT !.free = n, !.node =
                IF mainposition(tab, at.key) # mp
                THEN [Relink(tab, mp, n) EXCEPT ![n] = at, ![mp] = Took(End)]
                ELSE [tab.node EXCEPT ![n] = Took(at.next),
                                      ![mp].next = n]]

(* luaH_set() and the assignment that follows it, without rehash().        *)
Assign(tab, k, v) ==
  CASE tab = Full -> Full
    [] InArray(tab, k) -> [tab EXCEPT !.array[k] = v]
    [] ~InArray(tab, k) /\ HasNode(tab, k) ->
         [tab EXCEPT !.node[NodeOf(tab, k)].val = v]
    [] OTHER -> newkey(tab, k, v)

(* The values s are stored again.                                          *)
Again(s, into) ==
  LET upto[n \in 0..Len(s)] ==
        IF n = 0 THEN into
        ELSE IF s[n] = Nil THEN upto[n - 1] ELSE Assign(upto[n - 1], s[n], s[n])
  IN  upto[Len(s)]

(* resize(): the vanishing slice of the array, then the old nodes, last    *)
(* first.                                                                  *)
resize(tab, na, nh) ==
  LET size  == Twoto(nh)
      fresh == [array |-> [i \in 1..na |-> IF i <= Len(tab.array)
                                           THEN tab.array[i] ELSE Nil],
                node |-> Nodes(size), free |-> size]
      slice == SubSeq(tab.array, na + 1, Len(tab.array))
      nodes == [i \in 1..Size(tab) |-> tab.node[Size(tab) - i].val]
  IN  Again(nodes, Again(slice, fresh))

(* numusearray(), numusehash() and countint(): the keys that have a value, *)
(* and the new one.  computesizes(): the largest n with more than half of  *)
(* 1..n in use.                                                            *)
computesizes(ints) ==
  Max({0} \cup {n \in Powers(MaxIndex) :
         n \div 2 < Cardinality(ints)
         /\ Cardinality(ints \cap 1..n) > n \div 2})

rehash(tab, k) ==
  LET used == {u \in Key : luaH_get(tab, u) # Nil} \cup {k}
      ints == used \cap Integer
      n    == computesizes(ints)
  IN  resize(tab, n, Cardinality(used) - Cardinality(ints \cap 1..n))

luaH_set(tab, k, v) ==
  LET set == Assign(tab, k, v)
  IN  IF set = Full THEN Assign(rehash(tab, k), k, v) ELSE set

----------------------------------------------------------------------------
(* Traversal and length.                                                   *)

(* findindex(): a key that is dead still has its place.                    *)
findindex(tab, k) ==
  LET found == First(tab, k, Holding(tab, k))
  IN  CASE k = Nil         -> 0
        [] InArray(tab, k) -> k
        [] k # Nil /\ ~InArray(tab, k) /\ found # End ->
             Len(tab.array) + 1 + found
        [] OTHER           -> -1

(* luaH_next(): the next place that holds a value.                         *)
luaH_next(tab, k) ==
  LET n    == Len(tab.array)
      V(i) == IF i <= n THEN tab.array[i] ELSE tab.node[i - n - 1].val
      from == findindex(tab, k)
      rest == {i \in from + 1..n + Size(tab) : V(i) # Nil}
  IN  IF rest = {} THEN Nil ELSE V(Min(rest))

(* A search between b.i, which holds a value or is 0, and b.j, which holds  *)
(* none: a loop is a function of how often its body has run.               *)
HasValue(tab, i) == i \in Integer /\ luaH_get(tab, i) # Nil
Half(tab, b) ==
  LET m == (b.i + b.j) \div 2
  IN  IF b.j - b.i <= 1 THEN b
      ELSE IF HasValue(tab, m) THEN [b EXCEPT !.i = m] ELSE [b EXCEPT !.j = m]
Search(tab, b) ==
  LET at[s \in 0..2 * MaxIndex + 1] ==
        IF s = 0 THEN b ELSE Half(tab, at[s - 1])
  IN  at[2 * MaxIndex + 1].i

Twice(tab, b) ==
  IF HasValue(tab, b.j) THEN [i |-> b.j, j |-> 2 * b.j] ELSE b
unbound_search(tab) ==
  LET n == Len(tab.array)
      at[s \in 0..MaxIndex] ==
        IF s = 0 THEN [i |-> n, j |-> n + 1] ELSE Twice(tab, at[s - 1])
  IN  Search(tab, at[MaxIndex])

(* luaH_getn(): a binary search in the array when its last place is empty, *)
(* else a search that doubles its steps over array and nodes.              *)
luaH_getn(tab) ==
  LET n == Len(tab.array)
  IN  IF n > 0 /\ tab.array[n] = Nil THEN Search(tab, [i |-> 0, j |-> n])
      ELSE IF Size(tab) = 0 THEN n ELSE unbound_search(tab)

----------------------------------------------------------------------------
(* The table in a program.                                                 *)

NoWalk == [at |-> Nil, on |-> FALSE, seen |-> {}, must |-> {}, bad |-> FALSE]
Present == {k \in Key : contents[k] # Nil}

TableInit ==
  /\ hash \in [Strings -> HashValues]
  /\ \E na, nh \in 0..2 :                                    \* luaH_new()
       table = [array |-> [i \in 1..na |-> Nil], node |-> Nodes(Twoto(nh)),
            free |-> Twoto(nh)]
  /\ contents = [k \in Key |-> Nil] /\ walk = NoWalk

(* While a traversal is on a program may only change fields that exist.    *)
Store(k, v) ==
  /\ walk.on => k \in Present
  /\ table' = luaH_set(table, k, v)
  /\ contents' = [contents EXCEPT ![k] = v]
  /\ walk' = IF v = Nil THEN [walk EXCEPT !.must = @ \ {k}] ELSE walk
  /\ UNCHANGED hash

(* luaH_resizearray(), for a constructor with many items.                  *)
Resize(n) ==
  /\ ~walk.on /\ n > Len(table.array)
  /\ table' = resize(table, n, Size(table))
  /\ UNCHANGED <<hash, contents, walk>>

(* The collector: the keys of empty nodes become dead.                     *)
Collect ==
  /\ table' = [table EXCEPT !.node = [p \in DOMAIN table.node |->
       [table.node[p] EXCEPT !.dead =
          \/ table.node[p].dead
          \/ table.node[p].val = Nil /\ table.node[p].key \in Strings]]]
  /\ UNCHANGED <<hash, contents, walk>>

NextKey ==
  LET k == luaH_next(table, walk.at)
  IN  /\ ~walk.bad
      /\ walk' =
           CASE ~walk.on ->
                  [NoWalk EXCEPT !.on = TRUE, !.must = Present]
             [] walk.on /\ k = Nil ->
                  [NoWalk EXCEPT !.bad = walk.must # {}]
             [] OTHER ->
                  [walk EXCEPT !.at = k, !.seen = @ \cup {k},
                     !.must = @ \ {k}, !.bad = k \in walk.seen]
      /\ UNCHANGED <<hash, table, contents>>

TableNext == \/ \E k \in Key : Store(k, k) \/ Store(k, Nil)
             \/ \E n \in 1..MaxIndex : Resize(n)
             \/ Collect \/ NextKey

TableSpec == TableInit /\ [][TableNext]_tables

----------------------------------------------------------------------------
(* Properties.                                                             *)

(* The table is the map the program made of it: every key gives what was   *)
(* last stored under it and no other does, rehash() makes room for all it  *)
(* has to insert again, the length is a border, and a traversal, in which  *)
(* fields may be cleared and the collector may run, meets every key that   *)
(* stays once and no key twice.                                            *)
TableIsMap ==
  /\ table # Full
  /\ \A k \in Key : luaH_get(table, k) = contents[k]
  /\ LET n == luaH_getn(table)
     IN  /\ n = 0 \/ contents[n] # Nil
         /\ n + 1 \in Integer => contents[n + 1] = Nil
  /\ ~walk.bad
  /\ walk.on => findindex(table, walk.at) # -1
=============================================================================
