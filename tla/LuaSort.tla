------------------------------ MODULE LuaSort ------------------------------
(***************************************************************************)
(* table.sort() (ltablib.c): a quicksort in place, that recurs on the      *)
(* smaller part of a range and goes round on the larger one.               *)
(*                                                                         *)
(* A step is what happens from the answer of one comparison to the call of *)
(* the next.  In between the order function runs: it may raise an error,   *)
(* and one that is not steady may answer anything.  The inner loops stop   *)
(* at the pivot and so, with such a function, past the end of a range.     *)
(***************************************************************************)
EXTENDS Integers, Sequences, FiniteSets

CONSTANTS
  Item,      \* what the table holds
  Nothing,   \* nil
  Sorts      \* bound: the lists that are sorted and their order functions

VARIABLES
  items,     \* the items to sort
  lt,        \* the order function: is it steady, and which pairs it orders
  cells,     \* the table, with places on either side of the items
  ranges,    \* the range of each auxsort() in progress, innermost last
  scan       \* the comparison that is next, i, j and the pivot P

sorting == <<items, lt, cells, ranges, scan>>

(* A strict weak order.                                                    *)
Alike(less, a, b) == <<a, b>> \notin less /\ <<b, a>> \notin less
IsOrder(less) ==
  /\ \A a \in Item : <<a, a>> \notin less
  /\ \A a, b, c \in Item :
       /\ <<a, b>> \in less /\ <<b, c>> \in less => <<a, c>> \in less
       /\ Alike(less, a, b) /\ Alike(less, b, c) => Alike(less, a, c)

SortAssumption ==
  /\ Nothing \notin Item
  /\ \A s \in Sorts :
       /\ s.items \in Seq(Item)
       /\ s.lt.steady \in BOOLEAN
       /\ s.lt.steady => IsOrder(s.lt.less)

Place(list) ==
  [p \in -1 .. Len(list) + 2 |->
     IF p \in DOMAIN list THEN list[p] ELSE Nothing]
At(pc) == [pc |-> pc, i |-> 0, j |-> 0, pivot |-> Nothing]

SortInit ==
  /\ \E s \in Sorts : items = s.items /\ lt = s.lt
  /\ cells = Place(items)
  /\ ranges = <<[l |-> 1, u |-> Len(items)]>> /\ scan = At("ends")

----------------------------------------------------------------------------
(* auxsort().                                                              *)

Top    == ranges[Len(ranges)]
Outer  == SubSeq(ranges, 1, Len(ranges) - 1)
Middle == (Top.l + Top.u) \div 2
Swap(c, i, j) == [c EXCEPT ![i] = c[j], ![j] = c[i]]

Comparing(pc) == ranges # <<>> /\ Top.l < Top.u /\ scan.pc = pc
sort_comp(yes, a, b) == lt.steady => (yes <=> <<a, b>> \in lt.less)

Goes(pc) == scan' = At(pc) /\ UNCHANGED ranges
Returns  == scan' = At("ends") /\ ranges' = Outer

Ends(yes) ==
  /\ Comparing("ends") /\ sort_comp(yes, cells[Top.u], cells[Top.l])
  /\ cells' = IF yes THEN Swap(cells, Top.l, Top.u) ELSE cells
  /\ IF Top.u - Top.l = 1 THEN Returns ELSE Goes("middle")

(* a[l], a[(l+u)/2] and a[u] are in order in c: all, or P is put at u-1.   *)
ThreeSorted(c) ==
  IF Top.u - Top.l = 2 THEN cells' = c /\ Returns
  ELSE /\ cells' = Swap(c, Middle, Top.u - 1)
       /\ scan' = [pc |-> "up", i |-> Top.l + 1, j |-> Top.u - 1,
                   pivot |-> c[Middle]]
       /\ UNCHANGED ranges

MiddleFirst(yes) ==
  /\ Comparing("middle") /\ sort_comp(yes, cells[Middle], cells[Top.l])
  /\ IF yes THEN ThreeSorted(Swap(cells, Middle, Top.l))
     ELSE Goes("last") /\ UNCHANGED cells
MiddleLast(yes) ==
  /\ Comparing("last") /\ sort_comp(yes, cells[Top.u], cells[Middle])
  /\ ThreeSorted(IF yes THEN Swap(cells, Middle, Top.u) ELSE cells)

(* Up to an item that is not below P.                                      *)
Up(yes) ==
  /\ Comparing("up") /\ sort_comp(yes, cells[scan.i], scan.pivot)
  /\ scan' = IF ~yes THEN [scan EXCEPT !.pc = "down", !.j = scan.j - 1]
             ELSE IF scan.i > Top.u THEN At("invalid")
             ELSE [scan EXCEPT !.i = scan.i + 1]
  /\ UNCHANGED <<cells, ranges>>

(* P comes between its parts; the smaller one is sorted by a call.         *)
Split ==
  LET left  == [l |-> Top.l, u |-> scan.i - 1]
      right == [l |-> scan.i + 1, u |-> Top.u]
  IN  /\ cells' = Swap(cells, Top.u - 1, scan.i)
      /\ scan' = At("ends")
      /\ ranges' = Outer \o (IF scan.i - Top.l < Top.u - scan.i
                             THEN <<right, left>> ELSE <<left, right>>)

(* Down to an item that P is not below: the two are exchanged, unless the  *)
(* loops have met.                                                         *)
Below(yes) ==
  /\ scan' = IF scan.j < Top.l THEN At("invalid")
             ELSE [scan EXCEPT !.j = scan.j - 1]
  /\ UNCHANGED <<cells, ranges>>
Exchange ==
  /\ cells' = Swap(cells, scan.i, scan.j)
  /\ scan' = [scan EXCEPT !.pc = "up", !.i = scan.i + 1]
  /\ UNCHANGED ranges
(* Mutant: the item and the pivot are compared the wrong way round.        *)
DownSwapped(yes) ==
  /\ Comparing("down") /\ sort_comp(yes, cells[scan.j], scan.pivot)
  /\ IF yes THEN Below(yes) ELSE IF scan.j < scan.i THEN Split ELSE Exchange
Down(yes) ==
  /\ Comparing("down") /\ sort_comp(yes, scan.pivot, cells[scan.j])
  /\ IF yes THEN Below(yes) ELSE IF scan.j < scan.i THEN Split ELSE Exchange

(* An auxsort() whose range has not two items returns.                     *)
Return ==
  /\ ranges # <<>> /\ Top.l >= Top.u /\ Returns /\ UNCHANGED cells

Raises ==
  /\ \E pc \in {"ends", "middle", "last", "up", "down"} : Comparing(pc)
  /\ Goes("raised") /\ UNCHANGED cells

SortNext ==
  /\ \/ \E yes \in BOOLEAN : Ends(yes) \/ MiddleFirst(yes) \/ MiddleLast(yes)
                             \/ Up(yes) \/ Down(yes)
     \/ Return \/ Raises
  /\ UNCHANGED <<items, lt>>
SortSpec == SortInit /\ [][SortNext]_sorting

----------------------------------------------------------------------------
(* Properties.                                                             *)

Count(c, v) == Cardinality({p \in DOMAIN c : c[p] = v})
Size(k) == ranges[k].u - ranges[k].l + 1

(* Whatever the order function answers, and wherever it raises an error,   *)
(* the table holds what it held before: nothing is lost or copied, nor is  *)
(* a place other than those of the items and the next one touched; and a   *)
(* range is larger than the two within it, so that few calls are nested.   *)
(* With an order the next place is not touched, there is no error but its  *)
(* own, and at the end the items are sorted.                               *)
Rearranged ==
  /\ \A v \in Item \cup {Nothing} : Count(cells, v) = Count(Place(items), v)
  /\ \A p \in DOMAIN cells : p \notin 1 .. Len(items) + 1 =>
       cells[p] = Nothing
  /\ \A k \in 1 .. Len(ranges) - 2 : Size(k) > Size(k + 1) + Size(k + 2)
  /\ lt.steady =>
       /\ scan.pc # "invalid" /\ cells[Len(items) + 1] = Nothing
       /\ ranges = <<>> => \A p, q \in DOMAIN items :
                             p < q => <<cells[q], cells[p]>> \notin lt.less

(* With an order the sort ends: each step leaves fewer items to be sorted, *)
(* fewer calls, or less of the innermost range to look at.                 *)
Unsorted ==
  {p \in DOMAIN items : \E k \in DOMAIN ranges :
                          p \in ranges[k].l .. ranges[k].u}
Calls == 2 * Cardinality(Unsorted) + Len(ranges)
Ahead == CASE scan.pc = "ends"   -> 2 * (Top.u - Top.l) + 1
           [] scan.pc = "middle" -> 2 * (Top.u - Top.l)
           [] scan.pc = "last"   -> 2 * (Top.u - Top.l) - 1
           [] OTHER -> (Top.u - scan.i) + (scan.j - Top.l)
Advances ==
  \/ Calls' < Calls
  \/ Calls' = Calls /\ ranges' # <<>> /\ Ahead' \in 0 .. Ahead - 1
SortEnds == lt.steady => scan'.pc = "raised" \/ Advances
=============================================================================
