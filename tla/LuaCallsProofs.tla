--------------------------- MODULE LuaCallsProofs ---------------------------
(* Theorems about LuaCalls for every set of threads and values and every   *)
(* bound.                                                                  *)
EXTENDS LuaCalls, SequenceTheorems, WellFoundedInduction, TLAPS

----------------------------------------------------------------------------
(* Sequence operations the C API is modelled by.                           *)

(* lua_settop to a lower index keeps the slots below it. *)
LEMMA PrefixLemma ==
  ASSUME NEW S, NEW s \in Seq(S), NEW n \in 0..Len(s)
  PROVE  /\ SubSeq(s, 1, n) \in Seq(S)
         /\ Len(SubSeq(s, 1, n)) = n
         /\ \A i \in 1..n : SubSeq(s, 1, n)[i] = s[i]
<1>1. \A i \in 1..n : s[i] \in S
  BY ElementOfSeq, LenProperties
<1> QED BY <1>1, SubSeqProperties, LenProperties

(* lua_pop of one value. *)
LEMMA FrontLemma ==
  ASSUME NEW S, NEW s \in Seq(S), Len(s) > 0
  PROVE  /\ Front(s) \in Seq(S)
         /\ Len(Front(s)) = Len(s) - 1
         /\ \A i \in 1..Len(s)-1 : Front(s)[i] = s[i]
<1>1. Len(s) - 1 \in 0..Len(s)
  BY LenProperties
<1> QED BY <1>1, PrefixLemma DEF Front

(* lua_insert adds one slot and keeps the slots below it. *)
LEMMA InsertAtLemma ==
  ASSUME NEW S, NEW s \in Seq(S), NEW k \in 1..Len(s), NEW x \in S
  PROVE  /\ InsertAt(s, k, x) \in Seq(S)
         /\ Len(InsertAt(s, k, x)) = Len(s) + 1
         /\ \A i \in 1..k-1 : InsertAt(s, k, x)[i] = s[i]
<1> DEFINE lo == SubSeq(s, 1, k-1)
           hi == SubSeq(s, k, Len(s))
<1>0. Len(s) \in Nat
  BY LenProperties
<1>1. lo \in Seq(S) /\ Len(lo) = k-1 /\ \A i \in 1..k-1 : lo[i] = s[i]
  BY <1>0, PrefixLemma
<1>2. \A i \in k..Len(s) : s[i] \in S
  BY <1>0, ElementOfSeq
<1>3. hi \in Seq(S) /\ Len(hi) = Len(s) - k + 1
  BY <1>0, <1>2, SubSeqProperties
<1>4. <<x>> \in Seq(S) /\ Len(<<x>>) = 1
  OBVIOUS
<1> HIDE DEF lo, hi
<1> DEFINE mid == lo \o <<x>>
<1>5. /\ mid \in Seq(S) /\ Len(mid) = k
      /\ \A i \in 1..k-1 : mid[i] = s[i]
  BY <1>0, <1>1, <1>4, ConcatProperties
<1> HIDE DEF mid
<1>6. /\ mid \o hi \in Seq(S)
      /\ Len(mid \o hi) = Len(mid) + Len(hi)
      /\ \A i \in 1..Len(mid)+Len(hi) : (mid \o hi)[i] =
            IF i <= Len(mid) THEN mid[i] ELSE hi[i - Len(mid)]
  BY <1>3, <1>5, ConcatProperties
<1>7. InsertAt(s, k, x) = mid \o hi
  BY DEF InsertAt, lo, mid, hi
<1> QED BY <1>0, <1>3, <1>5, <1>6, <1>7

(* lua_remove drops one slot and keeps the slots below it. *)
LEMMA RemoveAtLemma ==
  ASSUME NEW S, NEW s \in Seq(S), NEW k \in 1..Len(s)
  PROVE  /\ RemoveAt(s, k) \in Seq(S)
         /\ Len(RemoveAt(s, k)) = Len(s) - 1
         /\ \A i \in 1..k-1 : RemoveAt(s, k)[i] = s[i]
<1> DEFINE lo == SubSeq(s, 1, k-1)
           hi == SubSeq(s, k+1, Len(s))
<1>0. Len(s) \in Nat
  BY LenProperties
<1>1. lo \in Seq(S) /\ Len(lo) = k-1 /\ \A i \in 1..k-1 : lo[i] = s[i]
  BY <1>0, PrefixLemma
<1>2. \A i \in k+1..Len(s) : s[i] \in S
  BY <1>0, ElementOfSeq
<1>3. hi \in Seq(S) /\ Len(hi) = Len(s) - k
  BY <1>0, <1>2, SubSeqProperties
<1> HIDE DEF lo, hi
<1>4. /\ lo \o hi \in Seq(S) /\ Len(lo \o hi) = Len(lo) + Len(hi)
      /\ \A i \in 1..Len(lo)+Len(hi) : (lo \o hi)[i] =
            IF i <= Len(lo) THEN lo[i] ELSE hi[i - Len(lo)]
  BY <1>1, <1>3, ConcatProperties
<1>5. RemoveAt(s, k) = lo \o hi
  BY DEF RemoveAt, lo, hi
<1> QED BY <1>0, <1>1, <1>3, <1>4, <1>5

(* lua_replace to an index below the top drops one slot and changes one. *)
LEMMA ReplaceLemma ==
  ASSUME NEW S, NEW s \in Seq(S), NEW k \in 1..Len(s)-1
  PROVE  /\ lua_replace(s, k) \in Seq(S)
         /\ Len(lua_replace(s, k)) = Len(s) - 1
         /\ lua_replace(s, k)[k] = s[Len(s)]
         /\ \A i \in 1..Len(s)-1 : i # k => lua_replace(s, k)[i] = s[i]
<1>0. Len(s) \in Nat /\ Len(s) > 0
  BY LenProperties
<1>1. Last(s) = s[Len(s)] /\ Last(s) \in S
  BY <1>0, ElementOfSeq DEF Last
<1> DEFINE r == [s EXCEPT ![k] = Last(s)]
<1>2. /\ r \in Seq(S) /\ Len(r) = Len(s)
      /\ \A j \in 1..Len(s) : r[j] = IF j = k THEN Last(s) ELSE s[j]
  BY <1>0, <1>1, ExceptSeq
<1> HIDE DEF r
<1>3. /\ Front(r) \in Seq(S) /\ Len(Front(r)) = Len(s) - 1
      /\ \A i \in 1..Len(s)-1 : Front(r)[i] = r[i]
  BY <1>0, <1>2, FrontLemma
<1>4. lua_replace(s, k) = Front(r)
  BY DEF lua_replace, ReplaceAt, r
<1> QED BY <1>0, <1>1, <1>2, <1>3, <1>4

----------------------------------------------------------------------------
(* The operators of do_pcall_with_traceback and of the entry points.       *)

LEMMA PcallBeginLemma ==
  ASSUME NEW slots \in Seq(Slot), NEW narg \in Nat, Len(slots) >= narg + 2
  PROVE  /\ PcallBegin(slots, narg) \in Seq(Slot)
         /\ HandlerIndex(slots, narg) \in Nat
         /\ Len(PcallBegin(slots, narg)) = HandlerIndex(slots, narg) + 1
         /\ \A i \in 1..HandlerIndex(slots, narg)-1 :
               PcallBegin(slots, narg)[i] = slots[i]
<1> DEFINE full == InsertAt(slots, HandlerIndex(slots, narg), "handler")
<1>1. /\ Len(slots) \in Nat
      /\ HandlerIndex(slots, narg) \in 1..Len(slots)
      /\ HandlerIndex(slots, narg) = Len(slots) - (1 + narg)
  BY LenProperties DEF HandlerIndex
<1>2. "handler" \in Slot
  BY DEF Slot, Marker
<1>3. /\ full \in Seq(Slot) /\ Len(full) = Len(slots) + 1
      /\ \A i \in 1..HandlerIndex(slots, narg)-1 : full[i] = slots[i]
  BY <1>1, <1>2, InsertAtLemma
<1> HIDE DEF full
<1>4. /\ Len(slots) - narg \in 0..Len(full)
      /\ Len(slots) - narg = HandlerIndex(slots, narg) + 1
  BY <1>1, <1>3
<1>5. /\ SubSeq(full, 1, Len(slots) - narg) \in Seq(Slot)
      /\ Len(SubSeq(full, 1, Len(slots) - narg)) = Len(slots) - narg
      /\ \A i \in 1..Len(slots) - narg :
            SubSeq(full, 1, Len(slots) - narg)[i] = full[i]
  BY <1>3, <1>4, PrefixLemma
<1>6. PcallBegin(slots, narg) = SubSeq(full, 1, Len(slots) - narg)
  BY DEF PcallBegin, full
<1>7. ASSUME NEW i \in 1..HandlerIndex(slots, narg)-1
      PROVE  PcallBegin(slots, narg)[i] = slots[i]
  <2>1. i \in 1..Len(slots) - narg
    BY <1>1
  <2> QED BY <1>3, <1>5, <1>6, <2>1
<1>8. HandlerIndex(slots, narg) \in Nat
  BY <1>1
<1> QED BY <1>4, <1>5, <1>6, <1>7, <1>8

LEMMA PcallEndLemma ==
  ASSUME NEW slots \in Seq(Slot), NEW out \in Seq(Slot),
         NEW pbase \in 1..Len(slots)
  PROVE  /\ PcallEnd(slots, pbase, out) \in Seq(Slot)
         /\ Len(PcallEnd(slots, pbase, out)) = Len(slots) + Len(out) - 1
         /\ \A i \in 1..pbase-1 : PcallEnd(slots, pbase, out)[i] = slots[i]
<1> DEFINE all == slots \o out
<1>1. Len(slots) \in Nat /\ Len(out) \in Nat
  BY LenProperties
<1>2. /\ all \in Seq(Slot) /\ Len(all) = Len(slots) + Len(out)
      /\ \A i \in 1..Len(slots)+Len(out) :
            all[i] = IF i <= Len(slots) THEN slots[i] ELSE out[i - Len(slots)]
  BY ConcatProperties
<1> HIDE DEF all
<1>3. pbase \in 1..Len(all)
  BY <1>1, <1>2
<1>4. /\ RemoveAt(all, pbase) \in Seq(Slot)
      /\ Len(RemoveAt(all, pbase)) = Len(all) - 1
      /\ \A i \in 1..pbase-1 : RemoveAt(all, pbase)[i] = all[i]
  BY <1>2, <1>3, RemoveAtLemma
<1>5. PcallEnd(slots, pbase, out) = RemoveAt(all, pbase)
  BY DEF PcallEnd, all
<1> QED BY <1>1, <1>2, <1>4, <1>5

LEMMA StatusLemma ==
  ASSUME NEW slots \in Seq(Slot), Len(slots) > 0, NEW failed \in BOOLEAN
  PROVE  /\ Status(slots, failed) \in Seq(Slot)
         /\ Len(Status(slots, failed)) = Len(slots)
         /\ Status(slots, failed)[1] = IF failed THEN "false" ELSE slots[1]
         /\ \A i \in 2..Len(slots) : Status(slots, failed)[i] = slots[i]
<1>0. Len(slots) \in Nat
  BY LenProperties
<1>1. CASE ~failed
  BY <1>1 DEF Status
<1>2. CASE failed
  <2> DEFINE t == Append(slots, "false")
  <2>1. "false" \in Slot
    BY DEF Slot, Marker
  <2>2. /\ t \in Seq(Slot) /\ Len(t) = Len(slots) + 1
        /\ \A i \in 1..Len(slots) : t[i] = slots[i]
        /\ t[Len(slots) + 1] = "false"
    BY <2>1, AppendProperties
  <2> HIDE DEF t
  <2>3. 1 \in 1..Len(t)-1
    BY <1>0, <2>2
  <2>4. /\ lua_replace(t, 1) \in Seq(Slot)
        /\ Len(lua_replace(t, 1)) = Len(t) - 1
        /\ lua_replace(t, 1)[1] = t[Len(t)]
        /\ \A i \in 1..Len(t)-1 : i # 1 => lua_replace(t, 1)[i] = t[i]
    BY <2>2, <2>3, ReplaceLemma
  <2>5. Status(slots, failed) = lua_replace(t, 1)
    BY <1>2 DEF Status, t
  <2>6. \A i \in 2..Len(slots) : t[i] = slots[i] /\ i \in 1..Len(t)-1 /\ i # 1
    BY <1>0, <2>2
  <2>7. t[Len(t)] = "false" /\ Len(t) - 1 = Len(slots)
    BY <1>0, <2>2
  <2> QED BY <1>2, <2>4, <2>5, <2>6, <2>7
<1> QED BY <1>1, <1>2

(* Whatever an entry did, it leaves its frame as high as it found it, and  *)
(* changed at index 1 only.                                                *)
LEMMA LeftLemma ==
  ASSUME NEW e, NEW slots \in Seq(Slot), NEW failed \in BOOLEAN,
         e.base \in 0..Len(slots), Len(slots) > 0
  PROVE  /\ Left(e, slots, failed) \in Seq(Slot)
         /\ Len(Left(e, slots, failed)) = e.base
         /\ \A i \in 2..e.base : Left(e, slots, failed)[i] = slots[i]
<1> DEFINE t == IF e.kind = "callback" THEN slots ELSE Status(slots, failed)
<1>1. /\ t \in Seq(Slot) /\ Len(t) = Len(slots)
      /\ \A i \in 2..Len(slots) : t[i] = slots[i]
  BY StatusLemma
<1> HIDE DEF t
<1>2. /\ SubSeq(t, 1, e.base) \in Seq(Slot)
      /\ Len(SubSeq(t, 1, e.base)) = e.base
      /\ \A i \in 1..e.base : SubSeq(t, 1, e.base)[i] = t[i]
  BY <1>1, PrefixLemma
<1>3. Left(e, slots, failed) = SubSeq(t, 1, e.base)
  BY DEF Left, t
<1>4. Len(slots) \in Nat
  BY LenProperties
<1> QED BY <1>1, <1>2, <1>3, <1>4

LEMMA AnsweredLemma ==
  ASSUME NEW e, NEW slots \in Seq(Slot), NEW failed \in BOOLEAN,
         e.base \in Nat, Len(slots) > 0
  PROVE  Answered(e, slots, failed) \in Seq(Slot)
<1> DEFINE t == Status(slots, failed)
<1>0. Len(slots) \in Nat /\ e.base + 3 \in Int /\ e.base + 1 \in Int
  BY LenProperties
<1>1. t \in Seq(Slot) /\ Len(t) = Len(slots)
  BY StatusLemma
<1> HIDE DEF t
<1>2. /\ \A i \in e.base+3..Len(slots) : slots[i] \in Slot
      /\ \A i \in e.base+1..Len(t) : t[i] \in Slot
  BY <1>0, <1>1, ElementOfSeq
<1>3. SubSeq(slots, e.base+3, Len(slots)) \in Seq(Slot)
  BY <1>0, <1>2, SubSeqProperties
<1>4. SubSeq(t, e.base+1, Len(t)) \in Seq(Slot)
  BY <1>0, <1>1, <1>2, SubSeqProperties
<1>5. <<>> \in Seq(Slot)
  BY EmptySeq
<1> QED BY <1>1, <1>3, <1>4, <1>5 DEF Answered, t

----------------------------------------------------------------------------
(* The two stacks.                                                         *)

(* Where an entry lies on its frame while its function runs. *)
Shape(e, f) ==
  /\ e.base = Height(f)
  /\ e.kind \in {"chunk", "callGlobal"} => e.pbase = e.base + 1
  /\ e.kind = "callback" => e.pbase = e.base + 2
  /\ Len(f.slots) = IF e.kind = "setGlobal" THEN e.base + 1 ELSE e.pbase + 1

ArgsOf(f) == \A k \in 2..f.nargs : f.slots[k] = "arg"

StackOK(fs, es) ==
  /\ fs \in Seq(Frame)
  /\ es \in Seq(Entry)
  /\ Len(fs) \in Len(es)..Len(es)+1
  /\ Len(fs) > 0
  /\ fs[1].kind = "host" /\ fs[1].own = Main
  /\ \A i \in 1..Len(fs) : ArgsOf(fs[i])
  /\ \A i \in 1..Len(es) : Shape(es[i], fs[i])
  /\ Len(fs) = Len(es) + 1 => Len(fs[Len(fs)].slots) = Height(fs[Len(fs)])

SetSlots(fs, s) == [fs EXCEPT ![Len(fs)].slots = s]

(* The C API changes the slots of the top frame only. *)
LEMMA SetSlotsLemma ==
  ASSUME NEW fs \in Seq(Frame), Len(fs) > 0, NEW s \in Seq(Slot)
  PROVE  /\ SetSlots(fs, s) \in Seq(Frame)
         /\ Len(SetSlots(fs, s)) = Len(fs)
         /\ \A i \in 1..Len(fs)-1 : SetSlots(fs, s)[i] = fs[i]
         /\ SetSlots(fs, s)[Len(fs)] = [fs[Len(fs)] EXCEPT !.slots = s]
<1> DEFINE f == [fs[Len(fs)] EXCEPT !.slots = s]
<1>1. Len(fs) \in 1..Len(fs)
  BY LenProperties
<1>2. fs[Len(fs)] \in Frame
  BY <1>1, ElementOfSeq
<1>3. f \in Frame
  BY <1>2 DEF Frame
<1>4. SetSlots(fs, s) = [fs EXCEPT ![Len(fs)] = f]
  BY DEF SetSlots
<1> HIDE DEF f
<1>5. /\ [fs EXCEPT ![Len(fs)] = f] \in Seq(Frame)
      /\ Len([fs EXCEPT ![Len(fs)] = f]) = Len(fs)
      /\ \A j \in 1..Len(fs) : [fs EXCEPT ![Len(fs)] = f][j] =
            IF j = Len(fs) THEN f ELSE fs[j]
  BY <1>1, <1>3, ExceptSeq
<1> QED BY <1>1, <1>4, <1>5 DEF f

(* Changing slots of the top frame keeps the rest of the two stacks right. *)
LEMMA TopLemma ==
  ASSUME NEW fs, NEW es, StackOK(fs, es), NEW s \in Seq(Slot),
         \A k \in 2..fs[Len(fs)].nargs : s[k] = fs[Len(fs)].slots[k]
  PROVE  /\ SetSlots(fs, s) \in Seq(Frame)
         /\ Len(SetSlots(fs, s)) = Len(fs)
         /\ SetSlots(fs, s)[1].kind = "host"
         /\ SetSlots(fs, s)[1].own = Main
         /\ \A i \in 1..Len(fs) : ArgsOf(SetSlots(fs, s)[i])
         /\ \A i \in 1..Len(fs)-1 : SetSlots(fs, s)[i] = fs[i]
         /\ SetSlots(fs, s)[Len(fs)].slots = s
         /\ Height(SetSlots(fs, s)[Len(fs)]) = Height(fs[Len(fs)])
<1> DEFINE gs == SetSlots(fs, s)
           n  == Len(fs)
<1>1. fs \in Seq(Frame) /\ n \in Nat /\ n > 0
  BY LenProperties DEF StackOK
<1>2. /\ gs \in Seq(Frame) /\ Len(gs) = n
      /\ \A i \in 1..n-1 : gs[i] = fs[i]
      /\ gs[n] = [fs[n] EXCEPT !.slots = s]
  BY <1>1, SetSlotsLemma
<1>3. fs[n] \in Frame
  BY <1>1, ElementOfSeq
<1>4. /\ gs[n].own = fs[n].own /\ gs[n].kind = fs[n].kind
      /\ gs[n].nargs = fs[n].nargs /\ gs[n].slots = s
  BY <1>2, <1>3 DEF Frame
<1> HIDE DEF gs, n
<1>5. gs[1].kind = "host" /\ gs[1].own = Main
  <2>1. CASE n = 1
    BY <2>1, <1>4 DEF StackOK, n
  <2>2. CASE n # 1
    <3>1. 1 \in 1..n-1
      BY <2>2, <1>1
    <3>2. gs[1] = fs[1]
      BY <3>1, <1>2
    <3> QED BY <3>2 DEF StackOK
  <2> QED BY <2>1, <2>2
<1>6. ASSUME NEW i \in 1..n PROVE ArgsOf(gs[i])
  <2>1. ArgsOf(fs[i])
    BY DEF StackOK, n
  <2>2. CASE i = n
    BY <2>1, <2>2, <1>4 DEF ArgsOf, n
  <2>3. CASE i # n
    BY <2>1, <2>3, <1>1, <1>2
  <2> QED BY <2>2, <2>3
<1>7. Height(gs[n]) = Height(fs[n])
  BY <1>4 DEF Height
<1> QED BY <1>2, <1>4, <1>5, <1>6, <1>7 DEF gs, n

(* An entry is made on the top frame. *)
LEMMA EnterLemma ==
  ASSUME NEW fs, NEW es, StackOK(fs, es), Len(fs) = Len(es) + 1,
         NEW s \in Seq(Slot), NEW e \in Entry,
         \A k \in 2..fs[Len(fs)].nargs : s[k] = fs[Len(fs)].slots[k],
         e.base = Height(fs[Len(fs)]),
         e.kind \in {"chunk", "callGlobal"} => e.pbase = e.base + 1,
         e.kind = "callback" => e.pbase = e.base + 2,
         Len(s) = IF e.kind = "setGlobal" THEN e.base + 1 ELSE e.pbase + 1
  PROVE  StackOK(SetSlots(fs, s), Append(es, e))
<1> DEFINE gs == SetSlots(fs, s)
           ds == Append(es, e)
           n  == Len(fs)
<1>1. /\ gs \in Seq(Frame) /\ Len(gs) = n
      /\ gs[1].kind = "host" /\ gs[1].own = Main
      /\ \A i \in 1..n : ArgsOf(gs[i])
      /\ \A i \in 1..n-1 : gs[i] = fs[i]
      /\ gs[n].slots = s /\ Height(gs[n]) = Height(fs[n])
  BY TopLemma
<1>2. es \in Seq(Entry) /\ Len(es) \in Nat /\ n > 0
  BY LenProperties DEF StackOK
<1>3. /\ ds \in Seq(Entry) /\ Len(ds) = n
      /\ \A i \in 1..n-1 : ds[i] = es[i]
      /\ ds[n] = e
  BY <1>2, AppendProperties
<1> HIDE DEF gs, ds
<1>4. Shape(ds[n], gs[n])
  BY <1>1, <1>3 DEF Shape
<1>5. ASSUME NEW i \in 1..n-1 PROVE Shape(ds[i], gs[i])
  <2>1. i \in 1..Len(es)
    BY <1>2
  <2>2. Shape(es[i], fs[i])
    BY <2>1 DEF StackOK
  <2> QED BY <2>2, <1>1, <1>3
<1>6. \A i \in 1..Len(ds) : Shape(ds[i], gs[i])
  BY <1>2, <1>3, <1>4, <1>5
<1>7. StackOK(gs, ds)
  BY <1>1, <1>2, <1>3, <1>6 DEF StackOK
<1> QED BY <1>7 DEF gs, ds

(* The innermost entry ends and leaves its frame as high as it was. *)
LEMMA LeaveLemma ==
  ASSUME NEW fs, NEW es, StackOK(fs, es), Len(fs) = Len(es),
         NEW s \in Seq(Slot),
         \A k \in 2..fs[Len(fs)].nargs : s[k] = fs[Len(fs)].slots[k],
         Len(s) = Height(fs[Len(fs)])
  PROVE  StackOK(SetSlots(fs, s), Front(es))
<1> DEFINE gs == SetSlots(fs, s)
           ds == Front(es)
           n  == Len(fs)
<1>1. /\ gs \in Seq(Frame) /\ Len(gs) = n
      /\ gs[1].kind = "host" /\ gs[1].own = Main
      /\ \A i \in 1..n : ArgsOf(gs[i])
      /\ \A i \in 1..n-1 : gs[i] = fs[i]
      /\ gs[n].slots = s /\ Height(gs[n]) = Height(fs[n])
  BY TopLemma
<1>2. es \in Seq(Entry) /\ n \in Nat /\ n > 0
  BY LenProperties DEF StackOK
<1>3. /\ ds \in Seq(Entry) /\ Len(ds) = n-1
      /\ \A i \in 1..n-1 : ds[i] = es[i]
  BY <1>2, FrontLemma
<1> HIDE DEF gs, ds
<1>4. ASSUME NEW i \in 1..Len(ds) PROVE Shape(ds[i], gs[i])
  <2>1. i \in 1..n-1 /\ i \in 1..Len(es)
    BY <1>2, <1>3
  <2>2. Shape(es[i], fs[i])
    BY <2>1 DEF StackOK
  <2> QED BY <2>1, <2>2, <1>1, <1>3
<1>5. StackOK(gs, ds)
  BY <1>1, <1>2, <1>3, <1>4 DEF StackOK
<1> QED BY <1>5 DEF gs, ds

(* A call is over without having run any Lua code. *)
LEMMA StayLemma ==
  ASSUME NEW fs, NEW es, StackOK(fs, es), Len(fs) = Len(es) + 1,
         NEW s \in Seq(Slot),
         \A k \in 2..fs[Len(fs)].nargs : s[k] = fs[Len(fs)].slots[k],
         Len(s) = Height(fs[Len(fs)])
  PROVE  StackOK(SetSlots(fs, s), es)
<1> DEFINE gs == SetSlots(fs, s)
           n  == Len(fs)
<1>1. /\ gs \in Seq(Frame) /\ Len(gs) = n
      /\ gs[1].kind = "host" /\ gs[1].own = Main
      /\ \A i \in 1..n : ArgsOf(gs[i])
      /\ \A i \in 1..n-1 : gs[i] = fs[i]
      /\ gs[n].slots = s /\ Height(gs[n]) = Height(fs[n])
  BY TopLemma
<1>2. es \in Seq(Entry) /\ Len(es) \in Nat /\ n > 0
  BY LenProperties DEF StackOK
<1> HIDE DEF gs
<1>3. ASSUME NEW i \in 1..Len(es) PROVE Shape(es[i], gs[i])
  <2>1. i \in 1..n-1
    BY <1>2
  <2>2. Shape(es[i], fs[i])
    BY DEF StackOK
  <2> QED BY <2>1, <2>2, <1>1
<1>4. StackOK(gs, es)
  BY <1>1, <1>2, <1>3 DEF StackOK
<1> QED BY <1>4 DEF gs

(* Lua calls a C function that runs AS3 code. *)
LEMMA PushLemma ==
  ASSUME NEW fs, NEW es, StackOK(fs, es), Len(fs) = Len(es),
         NEW f \in Frame, ArgsOf(f), Len(f.slots) = Height(f)
  PROVE  StackOK(Append(fs, f), es)
<1> DEFINE gs == Append(fs, f)
           n  == Len(fs)
<1>1. fs \in Seq(Frame) /\ es \in Seq(Entry) /\ n \in Nat /\ n > 0
  BY LenProperties DEF StackOK
<1>2. /\ gs \in Seq(Frame) /\ Len(gs) = n + 1
      /\ \A i \in 1..n : gs[i] = fs[i]
      /\ gs[n + 1] = f
  BY <1>1, AppendProperties
<1> HIDE DEF gs
<1>3. gs[1] = fs[1]
  BY <1>1, <1>2
<1>4. ASSUME NEW i \in 1..n+1 PROVE ArgsOf(gs[i])
  <2>1. CASE i = n + 1
    BY <2>1, <1>2
  <2>2. CASE i # n + 1
    <3>1. i \in 1..n
      BY <2>2, <1>1
    <3> QED BY <3>1, <1>2 DEF StackOK
  <2> QED BY <2>1, <2>2
<1>5. \A i \in 1..n : Shape(es[i], gs[i])
  BY <1>2 DEF StackOK
<1>6. StackOK(gs, es)
  BY <1>1, <1>2, <1>3, <1>4, <1>5 DEF StackOK
<1> QED BY <1>6 DEF gs

(* C goes on below AS3, or an error jumps over it: the innermost entries   *)
(* and the frames above them are dropped.                                  *)
LEMMA PrefixStackLemma ==
  ASSUME NEW fs, NEW es, StackOK(fs, es), NEW n \in 1..Len(es)
  PROVE  StackOK(SubSeq(fs, 1, n), SubSeq(es, 1, n))
<1> DEFINE gs == SubSeq(fs, 1, n)
           ds == SubSeq(es, 1, n)
<1>1. /\ fs \in Seq(Frame) /\ es \in Seq(Entry)
      /\ Len(fs) \in Nat /\ Len(es) \in Nat
      /\ n \in 0..Len(fs) /\ n \in 0..Len(es) /\ n > 0
  BY LenProperties DEF StackOK
<1>2. gs \in Seq(Frame) /\ Len(gs) = n /\ \A i \in 1..n : gs[i] = fs[i]
  BY <1>1, PrefixLemma
<1>3. ds \in Seq(Entry) /\ Len(ds) = n /\ \A i \in 1..n : ds[i] = es[i]
  BY <1>1, PrefixLemma
<1> HIDE DEF gs, ds
<1>4. gs[1] = fs[1]
  BY <1>1, <1>2
<1>5. \A i \in 1..n : i \in 1..Len(fs) /\ i \in 1..Len(es)
  BY <1>1
<1>6. \A i \in 1..n : ArgsOf(gs[i]) /\ Shape(ds[i], gs[i])
  BY <1>2, <1>3, <1>5 DEF StackOK
<1>7. StackOK(gs, ds)
  BY <1>1, <1>2, <1>3, <1>4, <1>6 DEF StackOK
<1> QED BY <1>7 DEF gs, ds

LEMMA PopLemma ==
  ASSUME NEW fs, NEW es, StackOK(fs, es), Len(fs) = Len(es) + 1, Len(es) > 0
  PROVE  StackOK(Front(fs), es)
<1>1. fs \in Seq(Frame) /\ es \in Seq(Entry) /\ Len(es) \in 1..Len(es)
  BY LenProperties DEF StackOK
<1>2. StackOK(SubSeq(fs, 1, Len(es)), SubSeq(es, 1, Len(es)))
  BY <1>1, PrefixStackLemma
<1>3. SubSeq(es, 1, Len(es)) = es
  BY <1>1, SubSeqFull
<1>4. Front(fs) = SubSeq(fs, 1, Len(es))
  BY <1>1, LenProperties DEF Front
<1> QED BY <1>2, <1>3, <1>4

----------------------------------------------------------------------------
(* The inductive invariant.                                                *)

OthersOK ==
  /\ is_async \in BOOLEAN /\ as3Global \in {"ours", "hidden", "restored"}
  /\ running \in Owner
  /\ suspended \subseteq Async
  /\ halt \in HaltReason \ {"unbalanced"}
  /\ answer \in Answer

IInv == StackOK(frames, entries) /\ OthersOK

LEMMA InitIInv == Init => IInv
<1> SUFFICES ASSUME Init PROVE IInv
  OBVIOUS
<1> USE DEF Init
<1>1. frames \in Seq(Frame) /\ Len(frames) = 1
  BY DEF Frame, FrameKind, Owner, Slot
<1>2. entries \in Seq(Entry) /\ Len(entries) = 0
  OBVIOUS
<1>3. ArgsOf(frames[1]) /\ Len(frames[1].slots) = Height(frames[1])
  BY DEF ArgsOf, Height
<1>4. StackOK(frames, entries)
  BY <1>1, <1>2, <1>3 DEF StackOK
<1>5. answer \in Answer
  BY DEF NoAnswer, Answer
<1>6. OthersOK
  BY <1>5 DEF OthersOK, HaltReason, Owner
<1> QED BY <1>4, <1>6 DEF IInv

(* What the invariant says of the frame on top. *)
LEMMA TopFacts ==
  ASSUME IInv
  PROVE  /\ frames \in Seq(Frame) /\ entries \in Seq(Entry)
         /\ Len(frames) \in Nat /\ Len(entries) \in Nat /\ Len(frames) > 0
         /\ frames[Len(frames)] \in Frame
         /\ Top \in Seq(Slot) /\ Len(Top) \in Nat
         /\ Height(frames[Len(frames)]) \in Nat
         /\ Height(frames[Len(frames)]) >= frames[Len(frames)].nargs
         /\ frames[Len(frames)].nargs \in Nat
<1>1. /\ frames \in Seq(Frame) /\ entries \in Seq(Entry)
      /\ Len(frames) \in Nat /\ Len(entries) \in Nat /\ Len(frames) > 0
  BY LenProperties DEF IInv, StackOK
<1>2. frames[Len(frames)] \in Frame
  BY <1>1, ElementOfSeq
<1>3. Top \in Seq(Slot) /\ frames[Len(frames)].nargs \in Nat
  BY <1>2 DEF Frame, Top
<1>4. Len(Top) \in Nat
  BY <1>3, LenProperties
<1>5. /\ Height(frames[Len(frames)]) \in Nat
      /\ Height(frames[Len(frames)]) >= frames[Len(frames)].nargs
  BY <1>3 DEF Height
<1> QED BY <1>1, <1>2, <1>3, <1>4, <1>5

(* Pushing onto a frame at rest keeps what lies below. *)
LEMMA PushTopLemma ==
  ASSUME IInv, AS3Runs, NEW more \in Seq(Slot)
  PROVE  /\ Push(Top, more) \in Seq(Slot)
         /\ Len(Push(Top, more)) = Height(frames[Len(frames)]) + Len(more)
         /\ Len(Top) = Height(frames[Len(frames)])
         /\ \A i \in 1..Len(Top) : Push(Top, more)[i] = Top[i]
<1>1. Top \in Seq(Slot) /\ Len(Top) \in Nat
  BY TopFacts
<1>2. Len(more) \in Nat
  BY LenProperties
<1>3. Len(Top) = Height(frames[Len(frames)])
  BY DEF IInv, StackOK, AS3Runs, Top
<1>4. /\ Top \o more \in Seq(Slot)
      /\ Len(Top \o more) = Len(Top) + Len(more)
      /\ \A i \in 1..Len(Top)+Len(more) : (Top \o more)[i] =
            IF i <= Len(Top) THEN Top[i] ELSE more[i - Len(Top)]
  BY <1>1, ConcatProperties
<1> QED BY <1>1, <1>2, <1>3, <1>4 DEF Push

----------------------------------------------------------------------------
(* Each action keeps the invariant.                                        *)

LEMMA ArgsLemma ==
  ASSUME NEW n \in Nat
  PROVE  /\ Args(n) \in Seq(Slot) /\ Len(Args(n)) = n
         /\ \A i \in 1..n : Args(n)[i] = "arg"
  BY DEF Args, Slot, Marker

LEMMA WithArgsLemma ==
  ASSUME NEW more \in Seq(Slot), NEW n \in Nat
  PROVE  more \o Args(n) \in Seq(Slot) /\ Len(more \o Args(n)) = Len(more) + n
  BY ArgsLemma, ConcatProperties

LEMMA EnterStep ==
  ASSUME IInv, AS3Runs,
         NEW t \in Owner, NEW kind \in {"chunk", "callGlobal", "callback"},
         NEW flag \in BOOLEAN, NEW more \in Seq(Slot), NEW narg \in Nat,
         Len(more) = narg + (IF kind = "callback" THEN 3 ELSE 2),
         Enter(t, kind, flag, Push(Top, more), narg),
         running' \in Owner
  PROVE  IInv'
<1> DEFINE pushed == Push(Top, more)
           h == HandlerIndex(pushed, narg)
           s == PcallBegin(pushed, narg)
           base == Len(Top)
           e == [own |-> t, by |-> running, kind |-> kind, async |-> flag,
                 old |-> get_async_state, base |-> base, pbase |-> h]
<1>1. /\ Len(Top) \in Nat /\ frames[Len(frames)].nargs \in Nat
      /\ Len(Top) >= frames[Len(frames)].nargs
      /\ Len(frames) = Len(entries) + 1
  BY TopFacts, PushTopLemma DEF AS3Runs
<1>2. /\ pushed \in Seq(Slot) /\ Len(pushed) = base + Len(more)
      /\ base = Height(frames[Len(frames)])
      /\ \A i \in 1..base : pushed[i] = Top[i]
  BY PushTopLemma
<1>3. Len(pushed) >= narg + 2
  BY <1>1, <1>2
<1>4. h = base + (IF kind = "callback" THEN 2 ELSE 1)
  BY <1>1, <1>2 DEF HandlerIndex
<1> HIDE DEF pushed
<1>5. /\ s \in Seq(Slot) /\ h \in Nat /\ Len(s) = h + 1
      /\ \A i \in 1..h-1 : s[i] = pushed[i]
  BY <1>2, <1>3, PcallBeginLemma
<1> HIDE DEF h, s
<1>6. \A i \in 1..base : i \in 1..h-1
  BY <1>1, <1>4, <1>5
<1>7. \A k \in 2..frames[Len(frames)].nargs : k \in 1..base
  BY <1>1
<1>8. \A k \in 2..frames[Len(frames)].nargs : s[k] = frames[Len(frames)].slots[k]
  BY <1>2, <1>5, <1>6, <1>7 DEF Top
<1>9. get_async_state \in BOOLEAN /\ running \in Owner
  BY DEF IInv, OthersOK, get_async_state
<1>10. e \in Entry
  BY <1>1, <1>5, <1>9 DEF Entry, EntryKind
<1>11. StackOK(SetSlots(frames, s), Append(entries, e))
  <2>1. /\ e.base = base /\ e.kind = kind /\ e.pbase = h
    OBVIOUS
  <2> HIDE DEF e
  <2>2. StackOK(frames, entries)
    BY DEF IInv
  <2>3. Len(s) = IF e.kind = "setGlobal" THEN e.base + 1 ELSE e.pbase + 1
    BY <1>5, <2>1
  <2>4. /\ e.kind \in {"chunk", "callGlobal"} => e.pbase = e.base + 1
        /\ e.kind = "callback" => e.pbase = e.base + 2
    BY <1>4, <2>1
  <2>5. e.base = Height(frames[Len(frames)])
    BY <1>2, <2>1
  <2> QED BY <1>1, <1>5, <1>8, <1>10, <2>2, <2>3, <2>4, <2>5, EnterLemma
<1>12. frames' = SetSlots(frames, s) /\ entries' = Append(entries, e)
  BY DEF Enter, SetTop, SetSlots, s, h, pushed
<1>13. OthersOK'
  BY DEF Enter, IInv, OthersOK, set_async_state, NoAnswer, Answer
<1> QED BY <1>11, <1>12, <1>13 DEF IInv

LEMMA StartFacts ==
  ASSUME IInv, NEW t, NEW isAsync \in BOOLEAN, Start(t, isAsync)
  PROVE  /\ AS3Runs /\ t \in Owner
         /\ running' \in Owner
<1>1. CASE isAsync
  BY <1>1 DEF Start, StartAsync, Owner, IInv, OthersOK
<1>2. CASE ~isAsync
  BY <1>2 DEF Start, StartSync, IInv, OthersOK
<1> QED BY <1>1, <1>2

LEMMA RunChunkStep ==
  ASSUME IInv, NEW isAsync \in BOOLEAN, RunChunk(isAsync)
  PROVE  IInv'
<1>1. PICK t \in Owner : Start(t, isAsync) /\
        Enter(t, "chunk", isAsync, Push(Top, <<"true", "fn">>), 0)
  BY DEF RunChunk
<1>2. AS3Runs /\ running' \in Owner
  BY <1>1, StartFacts
<1>3. /\ <<"true", "fn">> \in Seq(Slot)
      /\ Len(<<"true", "fn">>) = 0 + (IF "chunk" = "callback" THEN 3 ELSE 2)
  BY DEF Slot, Marker
<1>4. 0 \in Nat /\ "chunk" \in {"chunk", "callGlobal", "callback"}
  OBVIOUS
<1> QED BY <1>1, <1>2, <1>3, <1>4, EnterStep

LEMMA callGlobalStep ==
  ASSUME IInv, callGlobal
  PROVE  IInv'
<1> DEFINE two == <<"true", "fn">>
<1>1. PICK n \in 0..MaxArgs : Start(running, FALSE) /\
        Enter(running, "callGlobal", FALSE, Push(Top, two \o Args(n)), n)
  BY DEF callGlobal
<1>2. AS3Runs /\ running \in Owner /\ running' \in Owner

  BY <1>1, StartFacts
<1>3. n \in Nat
  BY ConstantsAssumption
<1>4. two \in Seq(Slot) /\ Len(two) = 2
  BY DEF Slot, Marker
<1> HIDE DEF two
<1>5. two \o Args(n) \in Seq(Slot) /\ Len(two \o Args(n)) = Len(two) + n
  BY <1>3, <1>4, WithArgsLemma
<1>6. Len(two \o Args(n)) = n + (IF "callGlobal" = "callback" THEN 3 ELSE 2)
  BY <1>3, <1>4, <1>5
<1> QED BY <1>1, <1>2, <1>3, <1>5, <1>6, EnterStep

LEMMA callbackStep ==
  ASSUME IInv, as3_lua_callback
  PROVE  IInv'
<1> DEFINE tables == <<"callbacks", "holder", "fn">>
<1>1. PICK n \in 0..MaxArgs : Start(running, FALSE) /\
        Enter(running, "callback", get_async_state,
              Push(Top, tables \o Args(n)), n)
  BY DEF as3_lua_callback
<1>2. AS3Runs /\ running \in Owner /\ running' \in Owner

  BY <1>1, StartFacts
<1>3. n \in Nat
  BY ConstantsAssumption
<1>4. tables \in Seq(Slot) /\ Len(tables) = 3
  BY DEF Slot, Marker
<1> HIDE DEF tables
<1>5. /\ tables \o Args(n) \in Seq(Slot)
      /\ Len(tables \o Args(n)) = Len(tables) + n
  BY <1>3, <1>4, WithArgsLemma
<1>6. get_async_state \in BOOLEAN
  BY DEF IInv, OthersOK, get_async_state
<1>7. Len(tables \o Args(n)) = n + (IF "callback" = "callback" THEN 3 ELSE 2)
  BY <1>3, <1>4, <1>5
<1> QED BY <1>1, <1>2, <1>3, <1>5, <1>6, <1>7, EnterStep

LEMMA LoadFailsStep ==
  ASSUME IInv, LoadFails
  PROVE  IInv'
<1> DEFINE two == <<"true", "msg">>
           e == [kind |-> "chunk", base |-> Len(Top)]
           slots == Push(Top, two)
           s == Left(e, slots, TRUE)
           v == Answered(e, slots, TRUE)
<1>1. /\ AS3Runs
      /\ frames' = SetSlots(frames, s)
      /\ answer' = [kind |-> "chunk", base |-> e.base, failed |-> TRUE,
                    values |-> v, produced |-> <<>>]
      /\ UNCHANGED <<entries, is_async, as3Global, running, suspended, halt>>
  BY DEF LoadFails, SetTop, SetSlots
<1>2. two \in Seq(Slot) /\ Len(two) = 2
  BY DEF Slot, Marker
<1> HIDE DEF two
<1>3. /\ slots \in Seq(Slot)
      /\ Len(slots) = Height(frames[Len(frames)]) + Len(two)
      /\ Len(Top) = Height(frames[Len(frames)])
      /\ \A i \in 1..Len(Top) : slots[i] = Top[i]
  BY <1>1, <1>2, PushTopLemma
<1>4. /\ Len(Top) \in Nat /\ frames[Len(frames)].nargs \in Nat
      /\ Len(Top) >= frames[Len(frames)].nargs
  BY <1>3, TopFacts
<1>5. e.base = Len(Top)
  OBVIOUS
<1> HIDE DEF slots, e
<1>6. e.base \in 0..Len(slots) /\ Len(slots) > 0 /\ e.base \in Nat
  BY <1>2, <1>3, <1>4, <1>5
<1>7. /\ s \in Seq(Slot) /\ Len(s) = e.base
      /\ \A i \in 2..e.base : s[i] = slots[i]
  <2>1. TRUE \in BOOLEAN
    OBVIOUS
  <2>2. slots \in Seq(Slot) /\ e.base \in 0..Len(slots) /\ Len(slots) > 0
    BY <1>3, <1>6
  <2> QED BY <2>1, <2>2, LeftLemma, ZenonT(40)
<1>8. v \in Seq(Slot)
  BY <1>3, <1>6, AnsweredLemma
<1> HIDE DEF s, v
<1>9. \A k \in 2..frames[Len(frames)].nargs : k \in 2..e.base /\ k \in 1..Len(Top)
  BY <1>4, <1>5
<1>10. \A k \in 2..frames[Len(frames)].nargs : s[k] = frames[Len(frames)].slots[k]
  BY <1>3, <1>7, <1>9 DEF Top
<1>11. StackOK(SetSlots(frames, s), entries)
  BY <1>1, <1>3, <1>5, <1>7, <1>10, StayLemma DEF IInv, AS3Runs
<1>12. answer' \in Answer
  BY <1>1, <1>6, <1>8, EmptySeq DEF Answer, EntryKind
<1>13. OthersOK'
  BY <1>1, <1>12 DEF IInv, OthersOK
<1> QED BY <1>1, <1>11, <1>13 DEF IInv

LEMMA setGlobalStep ==
  ASSUME IInv, setGlobal
  PROVE  IInv'
<1> DEFINE one == <<"value">>
           s == Push(Top, one)
           base == Len(Top)
           e == [own |-> running, by |-> running, kind |-> "setGlobal", async |-> is_async,
                 old |-> is_async, base |-> base, pbase |-> 0]
<1>1. /\ AS3Runs /\ running \in Owner /\ running' \in Owner
  BY StartFacts DEF setGlobal
<1>2. /\ frames' = SetSlots(frames, s) /\ entries' = Append(entries, e)
      /\ answer' = NoAnswer
      /\ UNCHANGED <<is_async, as3Global, suspended, halt>>
  BY DEF setGlobal, SetTop, SetSlots
<1>3. one \in Seq(Slot) /\ Len(one) = 1
  BY DEF Slot, Marker
<1> HIDE DEF one
<1>4. /\ s \in Seq(Slot)
      /\ Len(s) = Height(frames[Len(frames)]) + Len(one)
      /\ base = Height(frames[Len(frames)])
      /\ \A i \in 1..base : s[i] = Top[i]
  BY <1>1, <1>3, PushTopLemma
<1>5. /\ base \in Nat /\ frames[Len(frames)].nargs \in Nat
      /\ base >= frames[Len(frames)].nargs
      /\ Len(frames) = Len(entries) + 1
  BY <1>1, <1>4, TopFacts DEF AS3Runs
<1>6. e \in Entry
  BY <1>1, <1>5 DEF Entry, EntryKind, IInv, OthersOK
<1>7. e.base = base /\ e.kind = "setGlobal"
  OBVIOUS
<1> HIDE DEF s, e, base
<1>8. \A k \in 2..frames[Len(frames)].nargs : k \in 1..base
  BY <1>5
<1>9. \A k \in 2..frames[Len(frames)].nargs : s[k] = frames[Len(frames)].slots[k]
  BY <1>4, <1>8 DEF Top
<1>10. /\ StackOK(frames, entries)
       /\ e.base = Height(frames[Len(frames)])
       /\ e.kind \in {"chunk", "callGlobal"} => e.pbase = e.base + 1
       /\ e.kind = "callback" => e.pbase = e.base + 2
       /\ Len(s) = IF e.kind = "setGlobal" THEN e.base + 1 ELSE e.pbase + 1
  BY <1>3, <1>4, <1>7 DEF IInv
<1>11. StackOK(SetSlots(frames, s), Append(entries, e))
  BY <1>4, <1>5, <1>6, <1>9, <1>10, EnterLemma
<1>12. OthersOK'
  BY <1>1, <1>2 DEF IInv, OthersOK, NoAnswer, Answer
<1> QED BY <1>2, <1>11, <1>12 DEF IInv

LEMMA ThrowStep ==
  ASSUME IInv, Throw
  PROVE  IInv'
<1>1. PICK i \in 0..Len(entries) :
        /\ answer' = NoAnswer
        /\ IF i > 0 /\ entries[i].own = running
           THEN /\ entries' = SubSeq(entries, 1, i)
                /\ frames'  = SubSeq(frames, 1, i)
                /\ UNCHANGED halt
           ELSE /\ halt' = IF i = 0 THEN "panic" ELSE "astray"
                /\ UNCHANGED <<frames, entries>>
        /\ UNCHANGED <<is_async, as3Global, running, suspended>>
  BY DEF Throw
<1>2. Len(entries) \in Nat
  BY TopFacts
<1>3. StackOK(frames', entries')
  <2>1. CASE i > 0 /\ entries[i].own = running
    <3>1. i \in 1..Len(entries)
      BY <1>2, <2>1
    <3> QED BY <1>1, <2>1, <3>1, PrefixStackLemma DEF IInv
  <2>2. CASE ~(i > 0 /\ entries[i].own = running)
    BY <1>1, <2>2 DEF IInv
  <2> QED BY <2>1, <2>2
<1>4. OthersOK'
  BY <1>1 DEF IInv, OthersOK, NoAnswer, Answer, HaltReason
<1> QED BY <1>3, <1>4 DEF IInv

(* What the invariant says of the innermost entry while Lua runs. *)
LEMMA EntryFacts ==
  ASSUME IInv, LuaRuns
  PROVE  /\ entries[Len(entries)] \in Entry
         /\ Len(entries) > 0 /\ Len(frames) = Len(entries)
         /\ Shape(entries[Len(entries)], frames[Len(frames)])
<1>1. /\ Len(frames) = Len(entries) /\ Len(entries) > 0
      /\ Len(entries) \in 1..Len(entries)
  BY TopFacts DEF LuaRuns
<1>2. entries[Len(entries)] \in Entry
  BY <1>1, TopFacts, ElementOfSeq
<1>3. Shape(entries[Len(entries)], frames[Len(entries)])
  BY <1>1 DEF IInv, StackOK
<1> QED BY <1>1, <1>2, <1>3

LEMMA LeaveStep ==
  ASSUME IInv, NEW out \in Seq(Slot), NEW failed \in BOOLEAN,
         failed => Len(out) = 1, Leave(out, failed)
  PROVE  IInv'
<1> DEFINE e == entries[Len(entries)]
           slots == PcallEnd(Top, e.pbase, out)
           s == Left(e, slots, failed)
           v == Answered(e, slots, failed)
<1>1. /\ LuaRuns /\ e.kind # "setGlobal"
      /\ frames' = SetSlots(frames, s) /\ entries' = Front(entries)
      /\ RestoreFlag(e, failed)
      /\ running' = IF e.own # Main /\ OnlyEntry(e.own)
                    THEN Caller ELSE running
      /\ halt' = IF failed /\ Len(slots) # e.pbase + 1
                 THEN "unbalanced" ELSE "no"
      /\ answer' = [kind |-> e.kind, base |-> e.base, failed |-> failed,
                    values |-> v, produced |-> out]
      /\ UNCHANGED <<as3Global, suspended>>
  BY DEF Leave, SetTop, SetSlots
<1>2. /\ e \in Entry /\ Shape(e, frames[Len(frames)])
      /\ Len(frames) = Len(entries)
  BY <1>1, EntryFacts
<1>3. /\ Top \in Seq(Slot) /\ Len(Top) \in Nat
      /\ frames[Len(frames)].nargs \in Nat
      /\ Height(frames[Len(frames)]) >= frames[Len(frames)].nargs
      /\ Len(out) \in Nat
  BY TopFacts, LenProperties
<1> HIDE DEF slots, e
<1>4. /\ e.kind \in EntryKind /\ e.base \in Nat /\ e.pbase \in Nat
      /\ e.old \in BOOLEAN /\ e.by \in Owner
  BY <1>2 DEF Entry
<1>5. /\ e.base = Height(frames[Len(frames)])
      /\ e.pbase = e.base + 1 \/ e.pbase = e.base + 2
      /\ Len(Top) = e.pbase + 1
  BY <1>1, <1>2, <1>4 DEF Shape, EntryKind, Top
<1>6. e.pbase \in 1..Len(Top)
  BY <1>4, <1>5
<1>7. /\ slots \in Seq(Slot) /\ Len(slots) = Len(Top) + Len(out) - 1
      /\ \A i \in 1..e.pbase-1 : slots[i] = Top[i]
  BY <1>3, <1>6, PcallEndLemma DEF slots
<1>8. /\ e.base \in 0..Len(slots) /\ Len(slots) > 0
      /\ Len(slots) = e.pbase + Len(out)
  <2>1. Len(slots) = e.pbase + Len(out)
    <3>1. Len(Top) = e.pbase + 1 /\ Len(slots) = Len(Top) + Len(out) - 1
      BY <1>5, <1>7
    <3>2. Len(out) \in Nat /\ e.pbase \in Nat
      BY <1>3, <1>4
    <3> DEFINE a == Len(out)
               b == e.pbase
    <3> HIDE DEF a, b
    <3>3. a \in Nat /\ b \in Nat => (b + 1) + a - 1 = b + a
      OBVIOUS
    <3>4. Len(slots) = (b + 1) + a - 1
      BY <3>1 DEF a, b
    <3> QED BY <3>2, <3>3, <3>4 DEF a, b
  <2>2. e.base + 1 <= e.pbase
    BY <1>4, <1>5
  <2> QED BY <1>3, <1>4, <2>1, <2>2
<1>9. /\ s \in Seq(Slot) /\ Len(s) = e.base
      /\ \A i \in 2..e.base : s[i] = slots[i]
  <2>1. slots \in Seq(Slot) /\ e.base \in 0..Len(slots) /\ Len(slots) > 0
    BY <1>7, <1>8
  <2>2. failed \in BOOLEAN
    OBVIOUS
  <2> QED BY <2>1, <2>2, LeftLemma, ZenonT(40)
<1>10. v \in Seq(Slot)
  BY <1>4, <1>7, <1>8, AnsweredLemma, Zenon
<1> HIDE DEF s, v
<1>11. \A k \in 2..frames[Len(frames)].nargs :
          k \in 2..e.base /\ k \in 1..e.pbase-1
  BY <1>3, <1>4, <1>5
<1>12. \A k \in 2..frames[Len(frames)].nargs : s[k] = frames[Len(frames)].slots[k]
  BY <1>7, <1>9, <1>11 DEF Top
<1>13. StackOK(SetSlots(frames, s), Front(entries))
  BY <1>2, <1>5, <1>9, <1>12, LeaveLemma DEF IInv
<1>14. answer' \in Answer
  BY <1>1, <1>4, <1>10 DEF Answer
<1>15. halt' = "no"
  BY <1>1, <1>8
<1>16. is_async' \in BOOLEAN
  BY <1>1, <1>4 DEF RestoreFlag, set_async_state, IInv, OthersOK
<1>17. running' \in Owner
  <2>1. Caller \in Owner
    BY <1>4 DEF Caller, e
  <2> QED BY <1>1, <2>1 DEF IInv, OthersOK
<1>18. OthersOK'
  BY <1>1, <1>14, <1>15, <1>16, <1>17 DEF IInv, OthersOK, HaltReason
<1> QED BY <1>1, <1>13, <1>18 DEF IInv

LEMMA ScriptEndsStep ==
  ASSUME IInv, ScriptReturns \/ ScriptFails
  PROVE  IInv'
<1>1. CASE ScriptReturns
  <2>1. PICK out \in SeqOf(Value, MaxArgs) : Leave(out, FALSE)
    BY <1>1 DEF ScriptReturns
  <2>2. out \in Seq(Slot)
    BY DEF SeqOf, Slot
  <2>3. FALSE \in BOOLEAN /\ (FALSE => Len(out) = 1)
    OBVIOUS
  <2> QED BY <2>1, <2>2, <2>3, LeaveStep, Zenon
<1>2. CASE ScriptFails
  <2>1. <<"msg">> \in Seq(Slot) /\ Len(<<"msg">>) = 1
    BY DEF Slot, Marker
  <2>2. TRUE \in BOOLEAN /\ (TRUE => Len(<<"msg">>) = 1)
    BY <2>1
  <2>3. Leave(<<"msg">>, TRUE)
    BY <1>2 DEF ScriptFails
  <2> QED BY <2>1, <2>2, <2>3, LeaveStep, Zenon
<1> QED BY <1>1, <1>2

LEMMA SetGlobalReturnsStep ==
  ASSUME IInv, SetGlobalReturns
  PROVE  IInv'
<1> DEFINE s == Front(Top)
<1>1. /\ LuaRuns /\ entries[Len(entries)].kind = "setGlobal"
      /\ frames' = SetSlots(frames, s) /\ entries' = Front(entries)
      /\ answer' = NoAnswer
      /\ UNCHANGED <<is_async, as3Global, running, suspended, halt>>
  BY DEF SetGlobalReturns, SetTop, SetSlots
<1>2. /\ entries[Len(entries)] \in Entry
      /\ Shape(entries[Len(entries)], frames[Len(frames)])
      /\ Len(frames) = Len(entries)
  BY <1>1, EntryFacts
<1>3. /\ Top \in Seq(Slot) /\ Len(Top) \in Nat
      /\ frames[Len(frames)].nargs \in Nat
      /\ Height(frames[Len(frames)]) \in Nat
      /\ Height(frames[Len(frames)]) >= frames[Len(frames)].nargs
  BY TopFacts
<1>4. Len(Top) = Height(frames[Len(frames)]) + 1
  BY <1>1, <1>2 DEF Shape, Top
<1>5. /\ s \in Seq(Slot) /\ Len(s) = Len(Top) - 1
      /\ \A i \in 1..Len(Top)-1 : s[i] = Top[i]
  BY <1>3, <1>4, FrontLemma
<1> HIDE DEF s
<1>6. \A k \in 2..frames[Len(frames)].nargs : k \in 1..Len(Top)-1
  BY <1>3, <1>4
<1>7. \A k \in 2..frames[Len(frames)].nargs : s[k] = frames[Len(frames)].slots[k]
  BY <1>5, <1>6 DEF Top
<1>8. Len(s) = Height(frames[Len(frames)])
  BY <1>3, <1>4, <1>5
<1>9. StackOK(SetSlots(frames, s), Front(entries))
  BY <1>2, <1>5, <1>7, <1>8, LeaveLemma DEF IInv
<1>10. OthersOK'
  BY <1>1 DEF IInv, OthersOK, NoAnswer, Answer
<1> QED BY <1>1, <1>9, <1>10 DEF IInv

(* A frame of Lua's arguments n, with more slots before and after them. *)
LEMMA NewFrameLemma ==
  ASSUME IInv, LuaRuns, NEW kind \in FrameKind, NEW n \in Nat,
         NEW slots \in Seq(Slot), PushFrame(kind, n, slots),
         Len(slots) = n + (IF kind = "call" THEN 1 ELSE 0),
         \A k \in 2..n : slots[k] = "arg"
  PROVE  StackOK(frames', entries')
<1> DEFINE f == [own |-> running, kind |-> kind, nargs |-> n, slots |-> slots]
<1>1. frames' = Append(frames, f) /\ entries' = entries
  BY DEF PushFrame
<1>2. f \in Frame
  BY DEF Frame, IInv, OthersOK
<1>3. ArgsOf(f) /\ Len(f.slots) = Height(f)
  BY DEF ArgsOf, Height
<1> HIDE DEF f
<1>4. StackOK(frames, entries) /\ Len(frames) = Len(entries)
  BY DEF IInv, LuaRuns
<1> QED BY <1>1, <1>2, <1>3, <1>4, PushLemma

LEMMA UserdataArgsLemma ==
  ASSUME NEW n \in Nat
  PROVE  LET s == <<"userdata">> \o Args(n)
         IN  s \in Seq(Slot) /\ Len(s) = 1 + n /\ \A k \in 2..1+n : s[k] = "arg"
<1> DEFINE one == <<"userdata">>
<1>1. one \in Seq(Slot) /\ Len(one) = 1
  BY DEF Slot, Marker
<1> HIDE DEF one
<1>2. /\ Args(n) \in Seq(Slot) /\ Len(Args(n)) = n
      /\ \A i \in 1..n : Args(n)[i] = "arg"
  BY ArgsLemma
<1>3. /\ one \o Args(n) \in Seq(Slot)
      /\ Len(one \o Args(n)) = Len(one) + Len(Args(n))
      /\ \A i \in 1..Len(one)+Len(Args(n)) : (one \o Args(n))[i] =
            IF i <= Len(one) THEN one[i] ELSE Args(n)[i - Len(one)]
  BY <1>1, <1>2, ConcatProperties
<1>4. ASSUME NEW k \in 2..1+n PROVE (one \o Args(n))[k] = "arg"
  <2>1. k \in 1..1+n /\ ~(k <= 1) /\ k - 1 \in 1..n
    OBVIOUS
  <2> QED BY <1>1, <1>2, <1>3, <2>1
<1> QED BY <1>1, <1>2, <1>3, <1>4 DEF one

LEMMA as3_callStep ==
  ASSUME IInv, as3_call
  PROVE  IInv'
<1>1. PICK n \in 0..MaxArgs :
        /\ LuaRuns
        /\ PushFrame("call", 1 + n, <<"userdata">> \o Args(n) \o <<"guard">>)
        /\ UNCHANGED <<running, suspended, halt>>
  BY DEF as3_call
<1>2. n \in Nat
  BY ConstantsAssumption
<1> DEFINE s == <<"userdata">> \o Args(n)
           g == <<"guard">>
<1>3. s \in Seq(Slot) /\ Len(s) = 1 + n /\ \A k \in 2..1+n : s[k] = "arg"
  BY <1>2, UserdataArgsLemma
<1>4. g \in Seq(Slot) /\ Len(g) = 1
  BY DEF Slot, Marker
<1>5. PushFrame("call", 1 + n, s \o g)
  BY <1>1
<1> HIDE DEF s, g
<1>6. /\ s \o g \in Seq(Slot) /\ Len(s \o g) = Len(s) + Len(g)
      /\ \A i \in 1..Len(s)+Len(g) : (s \o g)[i] =
            IF i <= Len(s) THEN s[i] ELSE g[i - Len(s)]
  BY <1>3, <1>4, ConcatProperties
<1>7. Len(s \o g) = (1 + n) + (IF "call" = "call" THEN 1 ELSE 0)
  BY <1>2, <1>3, <1>4, <1>6
<1>8. ASSUME NEW k \in 2..1+n PROVE (s \o g)[k] = "arg"
  <2>1. k \in 1..Len(s)+Len(g) /\ k <= Len(s)
    BY <1>2, <1>3, <1>4
  <2> QED BY <1>3, <1>6, <2>1
<1>9. StackOK(frames', entries')
  <2>1. "call" \in FrameKind /\ 1 + n \in Nat
    BY <1>2 DEF FrameKind
  <2> QED BY <1>1, <1>5, <1>6, <1>7, <1>8, <2>1, NewFrameLemma
<1>10. OthersOK'
  BY <1>1 DEF PushFrame, IInv, OthersOK, NoAnswer, Answer
<1> QED BY <1>9, <1>10 DEF IInv

LEMMA as3_accessStep ==
  ASSUME IInv, as3_access
  PROVE  IInv'
<1>1. PICK n \in 0..MaxArgs :
        /\ LuaRuns
        /\ PushFrame("access", 1 + n, <<"userdata">> \o Args(n))
        /\ UNCHANGED <<running, suspended, halt>>
  BY DEF as3_access
<1>2. n \in Nat
  BY ConstantsAssumption
<1> DEFINE s == <<"userdata">> \o Args(n)
<1>3. s \in Seq(Slot) /\ Len(s) = 1 + n /\ \A k \in 2..1+n : s[k] = "arg"
  BY <1>2, UserdataArgsLemma
<1>4. PushFrame("access", 1 + n, s)
  BY <1>1
<1> HIDE DEF s
<1>5. Len(s) = (1 + n) + (IF "access" = "call" THEN 1 ELSE 0)
  BY <1>2, <1>3
<1>6. StackOK(frames', entries')
  <2>1. "access" \in FrameKind /\ 1 + n \in Nat
    BY <1>2 DEF FrameKind
  <2> QED BY <1>1, <1>3, <1>4, <1>5, <2>1, NewFrameLemma
<1>7. OthersOK'
  BY <1>1 DEF PushFrame, IInv, OthersOK, NoAnswer, Answer
<1> QED BY <1>6, <1>7 DEF IInv

LEMMA as3_flyieldStep ==
  ASSUME IInv, as3_flyield
  PROVE  IInv'
<1>1. PICK n \in 0..MaxArgs :
        /\ LuaRuns
        /\ PushFrame("flyield", n, Args(n))
        /\ IF running # Main /\ OnlyEntry(running)
           THEN /\ suspended' = suspended \cup {running}
                /\ running' = Caller
                /\ UNCHANGED halt
           ELSE /\ halt' = "misyield"
                /\ UNCHANGED <<suspended, running>>
  BY DEF as3_flyield, MayYield
<1>2. n \in Nat
  BY ConstantsAssumption
<1>3. /\ Args(n) \in Seq(Slot) /\ Len(Args(n)) = n
      /\ \A k \in 1..n : Args(n)[k] = "arg"
  BY <1>2, ArgsLemma
<1>4. /\ Len(Args(n)) = n + (IF "flyield" = "call" THEN 1 ELSE 0)
      /\ \A k \in 2..n : Args(n)[k] = "arg"
  BY <1>2, <1>3
<1>5. StackOK(frames', entries')
  <2>1. "flyield" \in FrameKind
    BY DEF FrameKind
  <2> QED BY <1>1, <1>2, <1>3, <1>4, <2>1, NewFrameLemma
<1>6. running' \in Owner /\ suspended' \subseteq Async
  <2>1. running # Main => running \in Async
    BY DEF IInv, OthersOK, Owner
  <2>2. Caller \in Owner
    BY <1>1, EntryFacts DEF Caller, Entry
  <2> QED BY <1>1, <2>1, <2>2 DEF IInv, OthersOK
<1>7. OthersOK'
  BY <1>1, <1>6 DEF PushFrame, IInv, OthersOK, NoAnswer, Answer, HaltReason
<1> QED BY <1>5, <1>7 DEF IInv

(* A frame that is not Flash's own lies on top of an entry. *)
LEMMA AboveHost ==
  ASSUME IInv, AS3Runs,
         frames[Len(frames)].kind # "host" \/ frames[Len(frames)].own # Main
  PROVE  /\ StackOK(Front(frames), entries)
         /\ Len(frames[Len(frames)].slots) = Height(frames[Len(frames)])
<1>1. Len(frames) = Len(entries) + 1 /\ Len(entries) \in Nat
  BY TopFacts DEF AS3Runs
<1>2. frames[1].kind = "host" /\ frames[1].own = Main
  BY DEF IInv, StackOK
<1>3. Len(frames) # 1
  BY <1>2
<1>4. Len(entries) > 0
  BY <1>1, <1>3
<1>5. StackOK(frames, entries)
  BY DEF IInv
<1>6. StackOK(Front(frames), entries)
  BY <1>1, <1>4, <1>5, PopLemma
<1> QED BY <1>1, <1>5, <1>6 DEF StackOK

LEMMA AS3ReturnsStep ==
  ASSUME IInv, AS3Returns
  PROVE  IInv'
<1>1. /\ AS3Runs
      /\ frames[Len(frames)].kind \in {"call", "access"}
      /\ IF Len(frames[Len(frames)].slots) = Height(frames[Len(frames)])
         THEN frames' = Front(frames) /\ UNCHANGED halt
         ELSE halt' = "unbalanced" /\ UNCHANGED frames
      /\ answer' = NoAnswer
      /\ UNCHANGED <<entries, is_async, as3Global, running, suspended>>
  BY DEF AS3Returns
<1>2. frames[Len(frames)].kind # "host"
  BY <1>1
<1>3. /\ StackOK(Front(frames), entries)
      /\ Len(frames[Len(frames)].slots) = Height(frames[Len(frames)])
  BY <1>1, <1>2, AboveHost
<1>4. OthersOK'
  BY <1>1, <1>3 DEF IInv, OthersOK, NoAnswer, Answer
<1> QED BY <1>1, <1>3, <1>4 DEF IInv

LEMMA AS3ReturnsCrossedStep ==
  ASSUME IInv, AS3ReturnsCrossed
  PROVE  IInv'
<1>1. OthersOK'
  BY DEF AS3ReturnsCrossed, IInv, OthersOK, NoAnswer, Answer, HaltReason
<1> QED BY <1>1 DEF AS3ReturnsCrossed, IInv

LEMMA ResumeStep ==
  ASSUME IInv, NEW t \in Async, Resume(t)
  PROVE  IInv'
<1> DEFINE f == frames[Len(frames)]
<1>1. /\ AS3Runs
      /\ IF f.own = t
         THEN /\ frames' = Front(frames)
              /\ running' = t
              /\ suspended' = suspended \ {t}
              /\ halt' = IF Len(f.slots) = Height(f)
                         THEN "no" ELSE "unbalanced"
         ELSE /\ halt' = "crossed"
              /\ UNCHANGED <<frames, running, suspended>>
      /\ answer' = NoAnswer
      /\ UNCHANGED <<entries, is_async, as3Global>>
  BY DEF Resume, FlashIdle
<1>2. t # Main
  BY ConstantsAssumption
<1>3. CASE f.own = t
  <2>1. /\ StackOK(Front(frames), entries)
        /\ Len(f.slots) = Height(f)
    BY <1>1, <1>2, <1>3, AboveHost
  <2> HIDE DEF f
  <2>2. halt' = "no" /\ running' = t
    BY <1>1, <1>3, <2>1
  <2>3. OthersOK'
    BY <1>1, <1>3, <2>2 DEF IInv, OthersOK, NoAnswer, Answer, HaltReason, Owner
  <2> QED BY <1>1, <1>3, <2>1, <2>3 DEF IInv
<1>4. CASE f.own # t
  <2> HIDE DEF f
  <2>1. OthersOK'
    BY <1>1, <1>4 DEF IInv, OthersOK, NoAnswer, Answer, HaltReason
  <2> QED BY <1>1, <1>4, <2>1 DEF IInv
<1> QED BY <1>3, <1>4

LEMMA NextIInv ==
  ASSUME IInv, [Next]_vars
  PROVE  IInv'
<1>1. CASE \E isAsync \in BOOLEAN : doFileImpl(isAsync) \/ luaDoStringImpl(isAsync)
  BY <1>1, RunChunkStep, LoadFailsStep DEF doFileImpl, luaDoStringImpl
<1>2. CASE callGlobal
  BY <1>2, callGlobalStep
<1>3. CASE setGlobal
  BY <1>3, setGlobalStep
<1>4. CASE as3_lua_callback
  BY <1>4, callbackStep
<1>5. CASE GlobalLookupRaises \/ SetGlobalRaises
  BY <1>5, ThrowStep DEF GlobalLookupRaises, SetGlobalRaises
<1>6. CASE ScriptReturns \/ ScriptFails
  BY <1>6, ScriptEndsStep
<1>7. CASE SetGlobalReturns
  BY <1>7, SetGlobalReturnsStep
<1>8. CASE as3_call
  BY <1>8, as3_callStep
<1>9. CASE as3_access
  BY <1>9, as3_accessStep
<1>10. CASE HideAs3
  <2>1. OthersOK'
    BY <1>10 DEF HideAs3, IInv, OthersOK, NoAnswer, Answer
  <2> QED BY <1>10, <2>1 DEF HideAs3, IInv
<1>11. CASE as3_flyield
  BY <1>11, as3_flyieldStep
<1>12. CASE AS3Returns
  BY <1>12, AS3ReturnsStep
<1>13. CASE AS3ReturnsCrossed
  BY <1>13, AS3ReturnsCrossedStep
<1>14. CASE \E t \in Async : Resume(t)
  BY <1>14, ResumeStep
<1>15. CASE UNCHANGED vars
  BY <1>15 DEF vars, IInv, OthersOK
<1>16. CASE Stopped
  BY <1>15, <1>16 DEF Stopped
<1> QED BY <1>1, <1>2, <1>3, <1>4, <1>5, <1>6, <1>7, <1>8, <1>9, <1>10, <1>11,
           <1>12, <1>13, <1>14, <1>15, <1>16 DEF Next

----------------------------------------------------------------------------
(* The theorems.                                                           *)

(* The two stacks are well shaped in every reachable state: an entry lies  *)
(* on its frame at the height do_pcall_with_traceback() computed.          *)
THEOREM Inductive == Spec => []IInv
  BY InitIInv, NextIInv, PTL DEF Spec

(* The variables stay in their types, and AS3 and Lua take turns on the    *)
(* stack.                                                                  *)
THEOREM TypeCorrect == Spec => []TypeOK
<1>1. IInv => TypeOK
  BY DEF IInv, StackOK, OthersOK, TypeOK
<1> QED BY <1>1, Inductive, PTL

(* No LCHECK of the wrapper ever fails, whatever AS3 code and scripts do   *)
(* and however deep their calls nest, fail and yield.                      *)
THEOREM BalancedAlways == Spec => []Balanced
<1>1. IInv => Balanced
  BY DEF IInv, OthersOK, Balanced
<1> QED BY <1>1, Inductive, PTL

(* Whenever AS3 code runs, the frame it was called from is as high as when *)
(* it was called: doFileImpl, callGlobalImpl, as3_lua_callback and the     *)
(* others pop all they pushed on every path.                               *)
THEOREM AtRestAlways == Spec => []AtRest
<1>1. IInv => AtRest
  BY DEF IInv, StackOK, AtRest, AS3Runs, Top
<1> QED BY <1>1, Inductive, PTL

(* The absolute index of lua_replace() costs a nested call at most the     *)
(* first argument of the C function below it.                              *)
THEOREM ArgumentsKeptAlways == Spec => []ArgumentsKept
<1>1. IInv => ArgumentsKept
  BY DEF IInv, StackOK, ArgsOf, ArgumentsKept
<1> QED BY <1>1, Inductive, PTL

----------------------------------------------------------------------------
(* as3.is_async.                                                           *)

(* The mode of entry i; outside every entry there is none. *)
Mode(es, i) == i > 0 /\ es[i].async

(* setGlobal makes an entry in the mode it finds: a run of such entries    *)
(* on top of entry i, which an error may jump over, is in the mode of i.   *)
SameMode(es) ==
  \A j \in 0..Len(es) : \A i \in 0..j :
    (\A k \in i+1..j : es[k].kind = "setGlobal") => (Mode(es, j) <=> Mode(es, i))

SavedMode(es) == \A i \in 1..Len(es) : es[i].old <=> Mode(es, i-1)

FlagInv ==
  as3Global = "ours" => /\ is_async <=> Mode(entries, Len(entries))
                        /\ SavedMode(entries)
                        /\ SameMode(entries)

LEMMA PrefixModeLemma ==
  ASSUME NEW es \in Seq(Entry), NEW n \in 0..Len(es)
  PROVE  LET ds == SubSeq(es, 1, n)
         IN  /\ Len(ds) = n
             /\ \A i \in 1..n : ds[i] = es[i]
             /\ \A i \in 0..n : Mode(ds, i) <=> Mode(es, i)
             /\ SavedMode(es) => SavedMode(ds)
             /\ SameMode(es) => SameMode(ds)
<1> DEFINE ds == SubSeq(es, 1, n)
<1>0. Len(es) \in Nat
  BY LenProperties
<1>1. Len(ds) = n /\ \A i \in 1..n : ds[i] = es[i]
  BY PrefixLemma
<1> HIDE DEF ds
<1>2. ASSUME NEW i \in 0..n PROVE Mode(ds, i) <=> Mode(es, i)
  <2>1. i > 0 => i \in 1..n
    BY <1>0
  <2> QED BY <1>1, <2>1 DEF Mode
<1>3. SavedMode(es) => SavedMode(ds)
  <2> SUFFICES ASSUME SavedMode(es), NEW i \in 1..n
               PROVE  ds[i].old <=> Mode(ds, i-1)
    BY <1>1 DEF SavedMode
  <2>1. i \in 1..Len(es) /\ i-1 \in 0..n
    BY <1>0
  <2>2. es[i].old <=> Mode(es, i-1)
    BY <2>1 DEF SavedMode
  <2> QED BY <1>1, <1>2, <2>1, <2>2
<1>4. SameMode(es) => SameMode(ds)
  <2> SUFFICES ASSUME SameMode(es), NEW j \in 0..n, NEW i \in 0..j,
                      \A k \in i+1..j : ds[k].kind = "setGlobal"
               PROVE  Mode(ds, j) <=> Mode(ds, i)
    BY <1>1 DEF SameMode
  <2>1. j \in 0..Len(es) /\ i \in 0..n
    BY <1>0
  <2>2. \A k \in i+1..j : k \in 1..n
    BY <1>0
  <2>3. \A k \in i+1..j : es[k].kind = "setGlobal"
    BY <1>1, <2>2
  <2>4. Mode(es, j) <=> Mode(es, i)
    BY <2>1, <2>3 DEF SameMode
  <2> QED BY <1>2, <2>1, <2>4
<1> QED BY <1>1, <1>2, <1>3, <1>4 DEF ds

(* An entry is made that saves the mode it finds. *)
LEMMA AppendModeLemma ==
  ASSUME NEW es \in Seq(Entry), NEW e \in Entry,
         SavedMode(es), SameMode(es),
         e.old <=> Mode(es, Len(es)),
         e.kind = "setGlobal" => (e.async <=> Mode(es, Len(es)))
  PROVE  LET ds == Append(es, e)
         IN  /\ Mode(ds, Len(ds)) <=> e.async
             /\ SavedMode(ds)
             /\ SameMode(ds)
<1> DEFINE ds == Append(es, e)
           n  == Len(es)
<1>1. /\ n \in Nat /\ Len(ds) = n + 1 /\ ds[n + 1] = e
      /\ \A i \in 1..n : ds[i] = es[i]
  BY LenProperties, AppendProperties
<1>2. /\ e.old <=> Mode(es, n)
      /\ e.kind = "setGlobal" => (e.async <=> Mode(es, n))
      /\ \A i \in 1..n : es[i].old <=> Mode(es, i-1)
      /\ \A j \in 0..n : \A i \in 0..j :
           (\A k \in i+1..j : es[k].kind = "setGlobal")
              => (Mode(es, j) <=> Mode(es, i))
  BY DEF SavedMode, SameMode
<1> HIDE DEF ds, n
<1>3. ASSUME NEW i \in 0..n PROVE Mode(ds, i) <=> Mode(es, i)
  <2>1. i > 0 => i \in 1..n
    BY <1>1
  <2> QED BY <1>1, <2>1 DEF Mode
<1>4. Mode(ds, n + 1) <=> e.async
  BY <1>1 DEF Mode
<1>5. SavedMode(ds)
  <2> SUFFICES ASSUME NEW i \in 1..n+1 PROVE ds[i].old <=> Mode(ds, i-1)
    BY <1>1 DEF SavedMode
  <2>1. CASE i = n + 1
    <3>1. i - 1 = n /\ n \in 0..n
      BY <1>1, <2>1
    <3> QED BY <1>1, <1>2, <1>3, <2>1, <3>1
  <2>2. CASE i # n + 1
    <3>1. i \in 1..n /\ i - 1 \in 0..n
      BY <1>1, <2>2
    <3> QED BY <1>1, <1>2, <1>3, <3>1
  <2> QED BY <2>1, <2>2
<1>6. SameMode(ds)
  <2> SUFFICES ASSUME NEW j \in 0..n+1, NEW i \in 0..j,
                      \A k \in i+1..j : ds[k].kind = "setGlobal"
               PROVE  Mode(ds, j) <=> Mode(ds, i)
    BY <1>1 DEF SameMode
  <2>1. CASE i = j
    BY <2>1
  <2>2. CASE i # j /\ j = n + 1
    <3>1. i \in 0..n /\ n \in 0..n /\ j \in i+1..j
      BY <1>1, <2>2
    <3>2. e.kind = "setGlobal"
      BY <1>1, <2>2, <3>1
    <3>3. \A k \in i+1..n : k \in i+1..j /\ k \in 1..n
      BY <1>1, <2>2
    <3>4. \A k \in i+1..n : es[k].kind = "setGlobal"
      BY <1>1, <3>3
    <3>5. Mode(es, n) <=> Mode(es, i)
      BY <1>2, <3>1, <3>4
    <3> QED BY <1>2, <1>3, <1>4, <2>2, <3>1, <3>2, <3>5
  <2>3. CASE j # n + 1
    <3>1. j \in 0..n /\ i \in 0..n
      BY <1>1, <2>3
    <3>2. \A k \in i+1..j : k \in 1..n
      BY <1>1, <3>1
    <3>3. \A k \in i+1..j : es[k].kind = "setGlobal"
      BY <1>1, <3>2
    <3>4. Mode(es, j) <=> Mode(es, i)
      BY <1>2, <3>1, <3>3
    <3> QED BY <1>3, <3>1, <3>4
  <2> QED BY <2>1, <2>2, <2>3
<1> QED BY <1>1, <1>4, <1>5, <1>6 DEF ds

LEMMA EnterFlag ==
  ASSUME IInv, FlagInv, NEW t \in Owner,
         NEW kind \in {"chunk", "callGlobal", "callback"},
         NEW flag \in BOOLEAN, NEW pushed \in Seq(Slot), NEW narg \in Nat,
         Len(pushed) >= narg + 2,
         Enter(t, kind, flag, pushed, narg)
  PROVE  FlagInv'
<1> SUFFICES ASSUME as3Global' = "ours"
             PROVE  /\ is_async' <=> Mode(entries', Len(entries'))
                    /\ SavedMode(entries') /\ SameMode(entries')
  BY DEF FlagInv
<1>0. as3Global = "ours" /\ as3Here
  BY DEF Enter, as3Here
<1> DEFINE h == HandlerIndex(pushed, narg)
           base == Len(Top)
           e == [own |-> t, by |-> running, kind |-> kind, async |-> flag,
                 old |-> get_async_state, base |-> base, pbase |-> h]
<1>1. /\ is_async <=> Mode(entries, Len(entries))
      /\ SavedMode(entries) /\ SameMode(entries)
  BY <1>0 DEF FlagInv
<1>2. entries' = Append(entries, e)
  BY DEF Enter
<1>3. is_async' = flag
  BY <1>0 DEF Enter, set_async_state
<1>4. get_async_state = is_async /\ is_async \in BOOLEAN
  BY <1>0 DEF get_async_state, IInv, OthersOK
<1>5. h \in Nat /\ base \in Nat /\ running \in Owner
  BY PcallBeginLemma, TopFacts DEF IInv, OthersOK
<1> HIDE DEF h, base
<1>6. e \in Entry
  BY <1>4, <1>5 DEF Entry, EntryKind
<1>7. e.old = is_async /\ e.async = flag /\ e.kind = kind
  BY <1>4
<1> HIDE DEF e
<1>8. e.old <=> Mode(entries, Len(entries))
  BY <1>1, <1>7
<1>9. e.kind # "setGlobal"
  BY <1>7
<1>10. entries \in Seq(Entry)
  BY TopFacts
<1>11. /\ Mode(Append(entries, e), Len(Append(entries, e))) <=> e.async
       /\ SavedMode(Append(entries, e)) /\ SameMode(Append(entries, e))
  BY <1>1, <1>6, <1>8, <1>9, <1>10, AppendModeLemma
<1> QED BY <1>1, <1>2, <1>3, <1>7, <1>11

(* What EnterStep asks of the pushed slots, as EnterFlag asks it. *)
LEMMA PushedFacts ==
  ASSUME IInv, AS3Runs, NEW more \in Seq(Slot), NEW narg \in Nat,
         Len(more) >= narg + 2
  PROVE  Push(Top, more) \in Seq(Slot) /\ Len(Push(Top, more)) >= narg + 2
<1>1. /\ Push(Top, more) \in Seq(Slot)
      /\ Len(Push(Top, more)) = Height(frames[Len(frames)]) + Len(more)
  BY PushTopLemma
<1>2. Height(frames[Len(frames)]) \in Nat /\ Len(more) \in Nat
  BY TopFacts, LenProperties
<1> QED BY <1>1, <1>2

LEMMA EntryFlag ==
  ASSUME IInv, FlagInv,
         \/ \E isAsync \in BOOLEAN : RunChunk(isAsync)
         \/ callGlobal
         \/ as3_lua_callback
  PROVE  FlagInv'
<1> DEFINE two == <<"true", "fn">>
           three == <<"callbacks", "holder", "fn">>
<1>0. /\ two \in Seq(Slot) /\ Len(two) = 2
      /\ three \in Seq(Slot) /\ Len(three) = 3
  BY DEF Slot, Marker
<1> HIDE DEF two, three
<1>1. CASE \E isAsync \in BOOLEAN : RunChunk(isAsync)
  <2>1. PICK isAsync \in BOOLEAN, t \in Owner :
          /\ Start(t, isAsync)
          /\ Enter(t, "chunk", isAsync, Push(Top, two), 0)
    BY <1>1 DEF RunChunk, two
  <2>2. AS3Runs /\ 0 \in Nat /\ Len(two) >= 0 + 2
    BY <1>0, <2>1, StartFacts
  <2>3. Push(Top, two) \in Seq(Slot) /\ Len(Push(Top, two)) >= 0 + 2
    BY <1>0, <2>2, PushedFacts
  <2>4. "chunk" \in {"chunk", "callGlobal", "callback"}
    OBVIOUS
  <2> QED BY <2>1, <2>2, <2>3, <2>4, EnterFlag
<1>2. CASE callGlobal
  <2>1. PICK n \in 0..MaxArgs :
          /\ Start(running, FALSE)
          /\ Enter(running, "callGlobal", FALSE, Push(Top, two \o Args(n)), n)
    BY <1>2 DEF callGlobal, two
  <2>2. AS3Runs /\ running \in Owner /\ n \in Nat
    <3>1. FALSE \in BOOLEAN
      OBVIOUS
    <3>2. n \in Nat
      BY ConstantsAssumption
    <3> QED BY <2>1, <3>1, <3>2, StartFacts, Zenon
  <2>3. two \o Args(n) \in Seq(Slot) /\ Len(two \o Args(n)) = Len(two) + n
    BY <1>0, <2>2, WithArgsLemma
  <2>4. Len(two \o Args(n)) >= n + 2
    BY <1>0, <2>2, <2>3
  <2>5. /\ Push(Top, two \o Args(n)) \in Seq(Slot)
        /\ Len(Push(Top, two \o Args(n))) >= n + 2
    BY <2>2, <2>3, <2>4, PushedFacts
  <2>6. "callGlobal" \in {"chunk", "callGlobal", "callback"}
    OBVIOUS
  <2> QED BY <2>1, <2>2, <2>5, <2>6, EnterFlag
<1>3. CASE as3_lua_callback
  <2>1. PICK n \in 0..MaxArgs :
          /\ Start(running, FALSE)
          /\ Enter(running, "callback", get_async_state,
                   Push(Top, three \o Args(n)), n)
    BY <1>3 DEF as3_lua_callback, three
  <2>2. /\ AS3Runs /\ running \in Owner /\ n \in Nat
        /\ get_async_state \in BOOLEAN
    <3>1. FALSE \in BOOLEAN
      OBVIOUS
    <3>2. n \in Nat /\ get_async_state \in BOOLEAN
      BY ConstantsAssumption DEF IInv, OthersOK, get_async_state
    <3> QED BY <2>1, <3>1, <3>2, StartFacts, Zenon
  <2>3. three \o Args(n) \in Seq(Slot) /\ Len(three \o Args(n)) = Len(three) + n
    BY <1>0, <2>2, WithArgsLemma
  <2>4. Len(three \o Args(n)) >= n + 2
    BY <1>0, <2>2, <2>3
  <2>5. /\ Push(Top, three \o Args(n)) \in Seq(Slot)
        /\ Len(Push(Top, three \o Args(n))) >= n + 2
    BY <2>2, <2>3, <2>4, PushedFacts
  <2>6. "callback" \in {"chunk", "callGlobal", "callback"}
    OBVIOUS
  <2> QED BY <2>1, <2>2, <2>5, <2>6, EnterFlag
<1> QED BY <1>1, <1>2, <1>3

LEMMA setGlobalFlag ==
  ASSUME IInv, FlagInv, setGlobal
  PROVE  FlagInv'
<1> SUFFICES ASSUME as3Global' = "ours"
             PROVE  /\ is_async' <=> Mode(entries', Len(entries'))
                    /\ SavedMode(entries') /\ SameMode(entries')
  BY DEF FlagInv
<1>0. as3Global = "ours" /\ as3Here
  BY DEF setGlobal, as3Here
<1> DEFINE base == Len(Top)
           e == [own |-> running, by |-> running, kind |-> "setGlobal", async |-> is_async,
                 old |-> is_async, base |-> base, pbase |-> 0]
<1>1. /\ is_async <=> Mode(entries, Len(entries))
      /\ SavedMode(entries) /\ SameMode(entries)
  BY <1>0 DEF FlagInv
<1>2. entries' = Append(entries, e) /\ is_async' = is_async
  BY DEF setGlobal
<1>3. base \in Nat /\ entries \in Seq(Entry)
  BY TopFacts
<1> HIDE DEF base
<1>4. e \in Entry
  BY <1>3 DEF Entry, EntryKind, IInv, OthersOK
<1>5. e.old = is_async /\ e.async = is_async /\ e.kind = "setGlobal"
  OBVIOUS
<1> HIDE DEF e
<1>6. /\ e.old <=> Mode(entries, Len(entries))
      /\ e.kind = "setGlobal" => (e.async <=> Mode(entries, Len(entries)))
  BY <1>1, <1>5
<1>7. /\ Mode(Append(entries, e), Len(Append(entries, e))) <=> e.async
      /\ SavedMode(Append(entries, e)) /\ SameMode(Append(entries, e))
  BY <1>1, <1>3, <1>4, <1>6, AppendModeLemma
<1> QED BY <1>1, <1>2, <1>5, <1>7

(* The entries above the innermost pcall were all made by setGlobal, so    *)
(* the mode an error leaves behind is the one of the entry it reaches.     *)
LEMMA ThrowFlag ==
  ASSUME IInv, FlagInv, Throw
  PROVE  FlagInv'
<1> SUFFICES ASSUME as3Global' = "ours"
             PROVE  /\ is_async' <=> Mode(entries', Len(entries'))
                    /\ SavedMode(entries') /\ SameMode(entries')
  BY DEF FlagInv
<1>0. as3Global = "ours" /\ as3Here
  BY DEF Throw, as3Here
<1>1. /\ is_async <=> Mode(entries, Len(entries))
      /\ SavedMode(entries) /\ SameMode(entries)
      /\ entries \in Seq(Entry) /\ Len(entries) \in Nat
  BY <1>0, TopFacts DEF FlagInv
<1>2. PICK i \in 0..Len(entries) :
        /\ Innermost(i)
        /\ entries' = entries \/ entries' = SubSeq(entries, 1, i)
        /\ UNCHANGED <<is_async, as3Global>>
  BY DEF Throw
<1>3. CASE entries' = entries
  BY <1>1, <1>2, <1>3
<1>4. CASE entries' = SubSeq(entries, 1, i)
  <2> DEFINE ds == SubSeq(entries, 1, i)
  <2>1. /\ Len(ds) = i
        /\ \A k \in 0..i : Mode(ds, k) <=> Mode(entries, k)
        /\ SavedMode(ds) /\ SameMode(ds)
    BY <1>1, <1>2, PrefixModeLemma
  <2> HIDE DEF ds
  <2>2. Len(entries) \in 0..Len(entries) /\ i \in 0..i
    BY <1>1
  <2>3. \A k \in i+1..Len(entries) : entries[k].kind = "setGlobal"
    BY <1>2 DEF Innermost
  <2>4. Mode(entries, Len(entries)) <=> Mode(entries, i)
    BY <1>1, <2>2, <2>3 DEF SameMode
  <2>5. entries' = ds
    BY <1>4 DEF ds
  <2> QED BY <1>1, <1>2, <2>1, <2>2, <2>4, <2>5
<1> QED BY <1>2, <1>3, <1>4

(* The innermost entry goes, and is_async becomes what it had saved. *)
LEMMA PopFlag ==
  ASSUME IInv, FlagInv, as3Global = "ours", Len(entries) > 0
  PROVE  /\ entries[Len(entries)].old <=> Mode(Front(entries), Len(Front(entries)))
         /\ entries[Len(entries)].kind = "setGlobal" =>
              (is_async <=> Mode(Front(entries), Len(Front(entries))))
         /\ SavedMode(Front(entries)) /\ SameMode(Front(entries))
<1> DEFINE n == Len(entries)
           ds == Front(entries)
<1>1. /\ is_async <=> Mode(entries, n)
      /\ SavedMode(entries)
      /\ SameMode(entries)
      /\ entries \in Seq(Entry)
      /\ n \in Nat /\ n - 1 \in 0..n
      /\ ds = SubSeq(entries, 1, n - 1)
  BY TopFacts DEF FlagInv, Front
<1>2. /\ Len(ds) = n - 1
      /\ \A k \in 0..n-1 : Mode(ds, k) <=> Mode(entries, k)
      /\ SavedMode(ds) /\ SameMode(ds)
  <2> DEFINE m == n - 1
  <2>1. m \in 0..Len(entries) /\ ds = SubSeq(entries, 1, m)
    BY <1>1
  <2> HIDE DEF m
  <2>2. LET s == SubSeq(entries, 1, m)
        IN  /\ Len(s) = m
            /\ \A k \in 0..m : Mode(s, k) <=> Mode(entries, k)
            /\ SavedMode(s) /\ SameMode(s)
    BY <1>1, <2>1, PrefixModeLemma
  <2> QED BY <2>1, <2>2 DEF m
<1>3. entries[n].old <=> Mode(entries, n - 1)
  BY <1>1 DEF SavedMode
<1>4. entries[n].kind = "setGlobal" => (Mode(entries, n) <=> Mode(entries, n - 1))
  <2> SUFFICES ASSUME entries[n].kind = "setGlobal"
               PROVE  Mode(entries, n) <=> Mode(entries, n - 1)
    OBVIOUS
  <2>1. n \in 0..n /\ n - 1 \in 0..n /\ \A k \in (n-1)+1..n : k = n
    BY <1>1
  <2> QED BY <1>1, <2>1 DEF SameMode
<1>5. n - 1 \in 0..n-1
  BY <1>1
<1> QED BY <1>1, <1>2, <1>3, <1>4, <1>5

LEMMA LeaveFlag ==
  ASSUME IInv, FlagInv, NEW out, NEW failed \in BOOLEAN, Leave(out, failed)
  PROVE  FlagInv'
<1> SUFFICES ASSUME as3Global' = "ours"
             PROVE  /\ is_async' <=> Mode(entries', Len(entries'))
                    /\ SavedMode(entries') /\ SameMode(entries')
  BY DEF FlagInv
<1>0. as3Global = "ours" /\ as3Here
  BY DEF Leave, as3Here
<1>1. /\ LuaRuns
      /\ entries' = Front(entries)
      /\ is_async' = IF as3Here THEN entries[Len(entries)].old ELSE is_async
  BY DEF Leave, RestoreFlag, set_async_state
<1>2. as3Here
  BY <1>0
<1>3. is_async' = entries[Len(entries)].old
  BY <1>1, <1>2
<1>4. Len(entries) > 0
  BY <1>1, EntryFacts
<1> QED BY <1>0, <1>1, <1>2, <1>3, <1>4, PopFlag

LEMMA SetGlobalReturnsFlag ==
  ASSUME IInv, FlagInv, SetGlobalReturns
  PROVE  FlagInv'
<1> SUFFICES ASSUME as3Global' = "ours"
             PROVE  /\ is_async' <=> Mode(entries', Len(entries'))
                    /\ SavedMode(entries') /\ SameMode(entries')
  BY DEF FlagInv
<1>0. as3Global = "ours" /\ as3Here
  BY DEF SetGlobalReturns, as3Here
<1>1. /\ LuaRuns /\ entries[Len(entries)].kind = "setGlobal"
      /\ entries' = Front(entries)
      /\ is_async' = is_async
  BY DEF SetGlobalReturns
<1>2. as3Here
  BY <1>0
<1>3. Len(entries) > 0
  BY <1>1, EntryFacts
<1> QED BY <1>0, <1>1, <1>2, <1>3, PopFlag

LEMMA NextFlag ==
  ASSUME IInv, FlagInv, [Next]_vars
  PROVE  FlagInv'
<1>1. CASE UNCHANGED <<entries, is_async, as3Global>>
  BY <1>1 DEF FlagInv
<1>2. CASE \E isAsync \in BOOLEAN : doFileImpl(isAsync) \/ luaDoStringImpl(isAsync)
  <2>1. CASE LoadFails
    BY <1>1, <2>1 DEF LoadFails
  <2> QED BY <1>2, <2>1, EntryFlag DEF doFileImpl, luaDoStringImpl
<1>3. CASE callGlobal \/ as3_lua_callback
  BY <1>3, EntryFlag
<1>4. CASE setGlobal
  BY <1>4, setGlobalFlag
<1>5. CASE GlobalLookupRaises \/ SetGlobalRaises
  BY <1>5, ThrowFlag DEF GlobalLookupRaises, SetGlobalRaises
<1>6. CASE ScriptReturns
  <2>1. PICK out : Leave(out, FALSE)
    BY <1>6 DEF ScriptReturns
  <2>2. FALSE \in BOOLEAN
    OBVIOUS
  <2> QED BY <2>1, <2>2, LeaveFlag, Zenon
<1>7. CASE ScriptFails
  <2>1. TRUE \in BOOLEAN
    OBVIOUS
  <2> QED BY <1>7, <2>1, LeaveFlag, Zenon DEF ScriptFails
<1>8. CASE SetGlobalReturns
  BY <1>8, SetGlobalReturnsFlag
<1>9. CASE as3_call \/ as3_access \/ as3_flyield
  <2>1. UNCHANGED <<entries, is_async, as3Global>>
    BY <1>9 DEF as3_call, as3_access, as3_flyield, MayYield, PushFrame
  <2> QED BY <1>1, <2>1
<1>10. CASE HideAs3
  BY <1>10 DEF HideAs3, FlagInv, as3Here
<1>11. CASE AS3Returns \/ AS3ReturnsCrossed
  BY <1>1, <1>11 DEF AS3Returns, AS3ReturnsCrossed
<1>12. CASE \E t \in Async : Resume(t)
  BY <1>1, <1>12 DEF Resume, FlashIdle
<1>13. CASE UNCHANGED vars
  BY <1>1, <1>13 DEF vars
<1>14. CASE Stopped
  BY <1>13, <1>14 DEF Stopped
<1> QED BY <1>2, <1>3, <1>4, <1>5, <1>6, <1>7, <1>8, <1>9, <1>10, <1>11, <1>12,
           <1>13, <1>14 DEF Next

(* Every call saved the mode it found, and the flag is in the mode of the  *)
(* innermost one.                                                          *)
THEOREM FlagAlways == Spec => []FlagInv
<1>1. Init => FlagInv
  <2> SUFFICES ASSUME Init PROVE FlagInv
    OBVIOUS
  <2>1. Len(entries) = 0 /\ ~is_async
    BY DEF Init
  <2>2. SavedMode(entries) /\ SameMode(entries) /\ ~Mode(entries, 0)
    BY <2>1 DEF SavedMode, SameMode, Mode
  <2> QED BY <2>1, <2>2 DEF FlagInv
<1> QED BY <1>1, NextFlag, Inductive, PTL DEF Spec

(* as3.is_async is the mode of the innermost call in progress: every path  *)
(* through do_pcall_with_traceback() puts back the mode it found, and an   *)
(* error that escapes a setGlobal leaves the mode right without doing so.  *)
THEOREM FlagIsInnermostAlways == Spec => []FlagIsInnermost
<1>1. IInv /\ FlagInv => FlagIsInnermost
  <2> SUFFICES ASSUME IInv, FlagInv, as3Global = "ours"
               PROVE  is_async <=> entries # <<>> /\ entries[Len(entries)].async
    BY DEF FlagIsInnermost
  <2>1. is_async <=> Mode(entries, Len(entries))
    BY DEF FlagInv
  <2>2. Len(entries) > 0 <=> entries # <<>>
    BY TopFacts, EmptySeq
  <2> QED BY <2>1, <2>2 DEF Mode
<1> QED BY <1>1, Inductive, FlagAlways, PTL

----------------------------------------------------------------------------
(* What a call answers.                                                    *)

(* lua_insert moves the slots from its index on up by one. *)
LEMMA InsertAbove ==
  ASSUME NEW S, NEW s \in Seq(S), NEW k \in 1..Len(s), NEW x \in S,
         NEW i \in k..Len(s)
  PROVE  InsertAt(s, k, x)[i+1] = s[i]
<1> DEFINE lo == SubSeq(s, 1, k-1)
           hi == SubSeq(s, k, Len(s))
<1>0. Len(s) \in Nat
  BY LenProperties
<1>1. lo \in Seq(S) /\ Len(lo) = k-1
  BY <1>0, PrefixLemma
<1>2. \A j \in k..Len(s) : s[j] \in S
  BY <1>0, ElementOfSeq
<1>3. /\ hi \in Seq(S) /\ Len(hi) = Len(s) - k + 1
      /\ \A j \in 1..Len(s)-k+1 : hi[j] = s[k+j-1]
  BY <1>0, <1>2, SubSeqProperties
<1>4. <<x>> \in Seq(S) /\ Len(<<x>>) = 1
  OBVIOUS
<1> HIDE DEF lo, hi
<1> DEFINE mid == lo \o <<x>>
<1>5. mid \in Seq(S) /\ Len(mid) = k
  BY <1>0, <1>1, <1>4, ConcatProperties
<1> HIDE DEF mid
<1>6. \A j \in 1..Len(mid)+Len(hi) : (mid \o hi)[j] =
         IF j <= Len(mid) THEN mid[j] ELSE hi[j - Len(mid)]
  BY <1>3, <1>5, ConcatProperties
<1>7. InsertAt(s, k, x) = mid \o hi
  BY DEF InsertAt, lo, mid, hi
<1>8. /\ i+1 \in 1..Len(mid)+Len(hi) /\ ~(i+1 <= Len(mid))
      /\ i+1 - Len(mid) \in 1..Len(s)-k+1
      /\ k + (i+1 - Len(mid)) - 1 = i
  <2>1. Len(mid) + Len(hi) = Len(s) + 1
    <3>1. \A a, b \in Int : b + (a - b + 1) = a + 1
      OBVIOUS
    <3> QED BY <1>0, <1>3, <1>5, <3>1
  <2> QED BY <1>0, <1>5, <2>1
<1>9. (mid \o hi)[i+1] = hi[i+1 - Len(mid)]
  BY <1>6, <1>8
<1> DEFINE m == i+1 - Len(mid)
<1>10. m \in 1..Len(s)-k+1 /\ k+m-1 = i
  BY <1>8
<1>11. hi[m] = s[k+m-1]
  <2> HIDE DEF m
  <2> QED BY <1>3, <1>10
<1> QED BY <1>7, <1>9, <1>10, <1>11

(* lua_remove moves the slots above its index down by one. *)
LEMMA RemoveAbove ==
  ASSUME NEW S, NEW s \in Seq(S), NEW k \in 1..Len(s), NEW i \in k..Len(s)-1
  PROVE  RemoveAt(s, k)[i] = s[i+1]
<1> DEFINE lo == SubSeq(s, 1, k-1)
           hi == SubSeq(s, k+1, Len(s))
<1>0. Len(s) \in Nat
  BY LenProperties
<1>1. lo \in Seq(S) /\ Len(lo) = k-1
  BY <1>0, PrefixLemma
<1>2. \A j \in k+1..Len(s) : s[j] \in S
  BY <1>0, ElementOfSeq
<1>3. k+1 <= Len(s)
  BY <1>0
<1>4. /\ hi \in Seq(S) /\ Len(hi) = Len(s) - k
      /\ \A j \in 1..Len(s)-k : hi[j] = s[k+j]
  <2> DEFINE m == k+1
  <2>1. m \in 1..Len(s)+1 /\ Len(s) \in m-1..Len(s) /\ \A j \in m..Len(s) : s[j] \in S
    BY <1>0, <1>2, <1>3
  <2> HIDE DEF m
  <2>2. /\ SubSeq(s, m, Len(s)) \in Seq(S)
        /\ Len(SubSeq(s, m, Len(s))) = Len(s) - m + 1
        /\ \A j \in 1..Len(s)-m+1 : SubSeq(s, m, Len(s))[j] = s[m+j-1]
    BY <1>0, <2>1, SubSeqProperties
  <2> QED BY <1>0, <2>2 DEF m
<1> HIDE DEF lo, hi
<1>5. \A j \in 1..Len(lo)+Len(hi) : (lo \o hi)[j] =
         IF j <= Len(lo) THEN lo[j] ELSE hi[j - Len(lo)]
  BY <1>1, <1>4, ConcatProperties
<1>6. RemoveAt(s, k) = lo \o hi
  BY DEF RemoveAt, lo, hi
<1>7. /\ i \in 1..Len(lo)+Len(hi) /\ ~(i <= Len(lo))
      /\ i - Len(lo) \in 1..Len(s)-k /\ k + (i - Len(lo)) = i + 1
  BY <1>0, <1>1, <1>4
<1> QED BY <1>4, <1>5, <1>6, <1>7

(* do_pcall_with_traceback() hides the slot below the function under its   *)
(* handler, ...                                                            *)
LEMMA PcallBeginTop ==
  ASSUME NEW slots \in Seq(Slot), NEW narg \in Nat, Len(slots) >= narg + 2
  PROVE  PcallBegin(slots, narg)[HandlerIndex(slots, narg) + 1] =
           slots[HandlerIndex(slots, narg)]
<1> DEFINE h == HandlerIndex(slots, narg)
           full == InsertAt(slots, h, "handler")
<1>1. /\ Len(slots) \in Nat /\ h \in 1..Len(slots)
      /\ h = Len(slots) - (1 + narg)
  BY LenProperties DEF HandlerIndex
<1>2. "handler" \in Slot
  BY DEF Slot, Marker
<1> HIDE DEF h
<1>3. full \in Seq(Slot) /\ Len(full) = Len(slots) + 1
  BY <1>1, <1>2, InsertAtLemma
<1>4. h \in h..Len(slots)
  BY <1>1
<1>5. full[h + 1] = slots[h]
  BY <1>1, <1>2, <1>4, InsertAbove
<1> HIDE DEF full
<1>6. Len(slots) - narg \in 0..Len(full) /\ h + 1 \in 1..Len(slots) - narg
  BY <1>1, <1>3
<1>7. SubSeq(full, 1, Len(slots) - narg)[h + 1] = full[h + 1]
  BY <1>3, <1>6, PrefixLemma
<1> QED BY <1>5, <1>7 DEF PcallBegin, full, h

(* ... and brings it back, with the results above it.                      *)
LEMMA PcallEndTop ==
  ASSUME NEW slots \in Seq(Slot), NEW out \in Seq(Slot), NEW pbase \in Nat,
         pbase > 0, Len(slots) = pbase + 1
  PROVE  /\ Len(PcallEnd(slots, pbase, out)) = pbase + Len(out)
         /\ PcallEnd(slots, pbase, out)[pbase] = slots[pbase + 1]
         /\ \A j \in 1..Len(out) : PcallEnd(slots, pbase, out)[pbase + j] = out[j]
<1> DEFINE all == slots \o out
<1>1. Len(slots) \in Nat /\ Len(out) \in Nat
  BY LenProperties
<1>2. /\ all \in Seq(Slot) /\ Len(all) = Len(slots) + Len(out)
      /\ \A i \in 1..Len(slots)+Len(out) :
            all[i] = IF i <= Len(slots) THEN slots[i] ELSE out[i - Len(slots)]
  BY ConcatProperties
<1>3. PcallEnd(slots, pbase, out) = RemoveAt(all, pbase)
  BY DEF PcallEnd
<1> HIDE DEF all
<1>4. pbase \in 1..Len(all)
  BY <1>1, <1>2
<1>5. Len(RemoveAt(all, pbase)) = Len(all) - 1
  BY <1>2, <1>4, RemoveAtLemma
<1>6. \A i \in pbase..Len(all)-1 : RemoveAt(all, pbase)[i] = all[i+1]
  BY <1>2, <1>4, RemoveAbove
<1>7. pbase \in pbase..Len(all)-1 /\ all[pbase + 1] = slots[pbase + 1]
  BY <1>1, <1>2
<1>8. ASSUME NEW j \in 1..Len(out)
      PROVE  RemoveAt(all, pbase)[pbase + j] = out[j]
  <2>1. pbase + j \in pbase..Len(all)-1
    BY <1>1, <1>2
  <2>2. pbase + j + 1 \in 1..Len(slots)+Len(out)
    BY <1>1
  <2>3. ~(pbase + j + 1 <= Len(slots)) /\ (pbase + j + 1) - Len(slots) = j
    <3>1. \A a, b \in Int : (a + b + 1) - (a + 1) = b
      OBVIOUS
    <3> QED BY <1>1, <3>1
  <2> QED BY <1>2, <1>6, <2>1, <2>2, <2>3
<1>9. Len(all) - 1 = pbase + Len(out)
  BY <1>1, <1>2
<1> QED BY <1>3, <1>5, <1>6, <1>7, <1>8, <1>9

(* The value below the function is the status of the do*() family.         *)
StatusAt(fs, es) == \A i \in 1..Len(es) :
  es[i].kind \in {"chunk", "callGlobal"} => fs[i].slots[es[i].base + 2] = "true"

LEMMA EnterStatus ==
  ASSUME IInv, AS3Runs, StatusAt(frames, entries),
         NEW t, NEW kind \in {"chunk", "callGlobal", "callback"},
         NEW flag, NEW more \in Seq(Slot), NEW narg \in Nat,
         Len(more) = narg + (IF kind = "callback" THEN 3 ELSE 2),
         kind # "callback" => more[1] = "true",
         Enter(t, kind, flag, Push(Top, more), narg)
  PROVE  StatusAt(frames', entries')
<1> DEFINE pushed == Push(Top, more)
           h == HandlerIndex(pushed, narg)
           s == PcallBegin(pushed, narg)
           base == Len(Top)
           n == Len(frames)
           e == [own |-> t, by |-> running, kind |-> kind, async |-> flag,
                 old |-> get_async_state, base |-> base, pbase |-> h]
<1>1. /\ frames' = SetSlots(frames, s) /\ entries' = Append(entries, e)
  BY DEF Enter, SetTop, SetSlots
<1>2. /\ base \in Nat /\ n \in Nat /\ n > 0 /\ Len(entries) = n - 1
      /\ frames \in Seq(Frame) /\ entries \in Seq(Entry) /\ Top \in Seq(Slot)
  BY TopFacts DEF AS3Runs
<1>3. /\ pushed \in Seq(Slot) /\ Len(pushed) = base + Len(more)
  BY PushTopLemma
<1>4. kind # "callback" => pushed[base + 1] = "true"
  <2> SUFFICES ASSUME kind # "callback" PROVE pushed[base + 1] = "true"
    OBVIOUS
  <2>1. Len(more) \in Nat /\ Len(more) >= 1
    BY LenProperties
  <2>2. \A i \in 1..base+Len(more) : (Top \o more)[i] =
           IF i <= base THEN Top[i] ELSE more[i - base]
    BY <1>2, ConcatProperties
  <2>3. base + 1 \in 1..base+Len(more) /\ ~(base + 1 <= base)
        /\ base + 1 - base = 1
    BY <1>2, <2>1
  <2> QED BY <2>2, <2>3 DEF Push
<1>5. Len(pushed) >= narg + 2
  BY <1>2, <1>3
<1>6. kind # "callback" => h = base + 1
  BY <1>2, <1>3 DEF HandlerIndex
<1> HIDE DEF pushed
<1>7. s[h + 1] = pushed[h] /\ s \in Seq(Slot)
  BY <1>3, <1>5, PcallBeginTop, PcallBeginLemma
<1> HIDE DEF h, s
<1>8. /\ Len(SetSlots(frames, s)) = n
      /\ \A i \in 1..n-1 : SetSlots(frames, s)[i] = frames[i]
      /\ SetSlots(frames, s)[n] = [frames[n] EXCEPT !.slots = s]
  BY <1>2, <1>7, SetSlotsLemma
<1>9. /\ Len(Append(entries, e)) = n
      /\ \A i \in 1..n-1 : Append(entries, e)[i] = entries[i]
      /\ Append(entries, e)[n] = e
  <2> HIDE DEF e
  <2> QED BY <1>2, AppendProperties
<1>10. frames'[n].slots = s
  <2>1. frames[n] \in Frame
    BY <1>2, ElementOfSeq
  <2> QED BY <1>1, <1>8, <2>1 DEF Frame
<1>11. e.kind = kind /\ e.base = base
  OBVIOUS
<1> HIDE DEF e, base
<1>12. ASSUME NEW i \in 1..n, entries'[i].kind \in {"chunk", "callGlobal"}
       PROVE  frames'[i].slots[entries'[i].base + 2] = "true"
  <2>1. CASE i = n
    <3>1. kind # "callback" /\ entries'[i].base = base
      BY <1>1, <1>9, <1>11, <1>12, <2>1
    <3>2. base + 2 = h + 1 /\ h = base + 1
      BY <1>2, <1>6, <3>1
    <3> QED BY <1>4, <1>7, <1>10, <2>1, <3>1, <3>2
  <2>2. CASE i # n
    <3>1. i \in 1..n-1 /\ i \in 1..Len(entries)
      BY <1>2, <2>2
    <3>2. frames'[i] = frames[i] /\ entries'[i] = entries[i]
      BY <1>1, <1>8, <1>9, <3>1
    <3> QED BY <1>12, <3>1, <3>2 DEF StatusAt
  <2> QED BY <2>1, <2>2
<1> QED BY <1>1, <1>9, <1>12 DEF StatusAt

(* The end of a call, of an error, or of a frame leaves those below. *)
LEMMA KeepStatus ==
  ASSUME IInv, StatusAt(frames, entries),
         Len(entries') \in Nat, Len(entries') <= Len(entries),
         \A i \in 1..Len(entries') : entries'[i] = entries[i]
                                     /\ frames'[i].slots = frames[i].slots
  PROVE  StatusAt(frames', entries')
<1>1. \A i \in 1..Len(entries') : i \in 1..Len(entries)
  BY TopFacts
<1> QED BY <1>1 DEF StatusAt

(* The slots above an index, and those from it on. *)
LEMMA AboveLemma ==
  ASSUME NEW s \in Seq(Slot), NEW out \in Seq(Slot), NEW p \in Nat,
         Len(s) = p + Len(out), \A j \in 1..Len(out) : s[p + j] = out[j]
  PROVE  SubSeq(s, p + 1, Len(s)) = out
<1> DEFINE m == p + 1
           r == SubSeq(s, m, Len(s))
<1>0. Len(s) \in Nat /\ Len(out) \in Nat
  BY LenProperties
<1>1. \A i \in m..Len(s) : s[i] \in Slot
  BY <1>0, ElementOfSeq
<1>2. m \in Int /\ m = p + 1
  OBVIOUS
<1> HIDE DEF m
<1>3. /\ r \in Seq(Slot)
      /\ Len(r) = IF m <= Len(s) THEN Len(s)-m+1 ELSE 0
      /\ \A i \in 1..Len(s)-m+1 : r[i] = s[m+i-1]
  BY <1>0, <1>1, <1>2, SubSeqProperties
<1> HIDE DEF r
<1>4. Len(s)-m+1 = Len(out)
  <2>1. \A a, b \in Nat : (a+b)-(a+1)+1 = b
    OBVIOUS
  <2> QED BY <1>0, <1>2, <2>1
<1>5. Len(r) = Len(out)
  BY <1>0, <1>2, <1>3, <1>4
<1>6. ASSUME NEW i \in 1..Len(out) PROVE r[i] = out[i]
  <2>1. m+i-1 = p+i
    BY <1>0, <1>2
  <2> QED BY <1>3, <1>4, <2>1
<1>7. r = out
  BY <1>3, <1>5, <1>6, SeqEqual
<1> QED BY <1>2, <1>7 DEF r

LEMMA FromLemma ==
  ASSUME NEW s \in Seq(Slot), NEW out \in Seq(Slot), NEW p \in Nat, p > 0,
         Len(s) = p + Len(out), \A j \in 1..Len(out) : s[p + j] = out[j]
  PROVE  /\ SubSeq(s, p, Len(s)) = <<s[p]>> \o out
         /\ SubSeq(s, p, Len(s))[1] = s[p]
<1> DEFINE one == <<s[p]>>
           all == one \o out
<1>0. Len(s) \in Nat /\ Len(out) \in Nat /\ p \in 1..Len(s)
  BY LenProperties
<1>1. s[p] \in Slot
  BY <1>0, ElementOfSeq
<1>2. one \in Seq(Slot) /\ Len(one) = 1 /\ one[1] = s[p]
  BY <1>1
<1> HIDE DEF one
<1>3. /\ all \in Seq(Slot) /\ Len(all) = 1 + Len(out)
      /\ \A i \in 1..1+Len(out) : all[i] =
            IF i <= 1 THEN one[i] ELSE out[i - 1]
  <2>1. /\ all \in Seq(Slot) /\ Len(all) = Len(one) + Len(out)
        /\ \A i \in 1..Len(one)+Len(out) : all[i] =
              IF i <= Len(one) THEN one[i] ELSE out[i - Len(one)]
    BY <1>2, ConcatProperties
  <2> HIDE DEF all
  <2> QED BY <1>2, <2>1
<1> DEFINE q == p - 1
<1>4. q \in Nat /\ q + 1 = p /\ Len(s) = q + (1 + Len(out))
  BY <1>0
<1> HIDE DEF all, q
<1>5. ASSUME NEW j \in 1..Len(all) PROVE s[q + j] = all[j]
  <2>1. CASE j = 1
    BY <1>0, <1>2, <1>3, <1>4, <2>1
  <2>2. CASE j # 1
    <3>1. j - 1 \in 1..Len(out) /\ ~(j <= 1) /\ q + j = p + (j - 1)
      BY <1>0, <1>3, <1>4, <2>2
    <3> QED BY <1>0, <1>3, <3>1
  <2> QED BY <2>1, <2>2
<1>6. SubSeq(s, q + 1, Len(s)) = all
  <2>1. Len(s) = q + Len(all)
    BY <1>3, <1>4
  <2> QED BY <1>3, <1>4, <1>5, <2>1, AboveLemma
<1>7. SubSeq(s, p, Len(s)) = all
  BY <1>4, <1>6
<1>8. all[1] = s[p]
  BY <1>0, <1>2, <1>3
<1> QED BY <1>7, <1>8 DEF all, one

(* The values a call answers. *)
LEMMA AnswerLemma ==
  ASSUME NEW e, NEW slots \in Seq(Slot), NEW failed \in BOOLEAN,
         NEW out \in Seq(Slot), e.base \in Nat, NEW p \in Nat,
         p = IF e.kind = "callback" THEN e.base + 2 ELSE e.base + 1,
         Len(slots) = p + Len(out),
         \A j \in 1..Len(out) : slots[p + j] = out[j]
  PROVE  /\ e.kind = "callback" =>
              Answered(e, slots, failed) = IF failed THEN <<>> ELSE out
         /\ e.kind # "callback" =>
              Answered(e, slots, failed) =
                <<Answered(e, slots, failed)[1]>> \o out
         /\ e.kind # "callback" /\ e.base = 0 =>
              Answered(e, slots, failed)[1] =
                IF failed THEN "false" ELSE slots[1]
<1> DEFINE a == Answered(e, slots, failed)
<1>1. CASE e.kind = "callback"
  <2>1. SubSeq(slots, p + 1, Len(slots)) = out
    BY AboveLemma
  <2>2. p + 1 = e.base + 3
    BY <1>1
  <2>3. a = IF failed THEN <<>> ELSE out
    BY <1>1, <2>1, <2>2 DEF Answered
  <2> QED BY <1>1, <2>3
<1>2. CASE e.kind # "callback"
  <2> DEFINE t == Status(slots, failed)
  <2>0. p = e.base + 1 /\ Len(out) \in Nat /\ Len(slots) > 0 /\ p > 0
    BY <1>2, LenProperties
  <2>1. /\ t \in Seq(Slot) /\ Len(t) = Len(slots)
        /\ t[1] = IF failed THEN "false" ELSE slots[1]
        /\ \A i \in 2..Len(slots) : t[i] = slots[i]
    BY <2>0, StatusLemma
  <2> HIDE DEF t
  <2>2. ASSUME NEW j \in 1..Len(out) PROVE t[p + j] = out[j]
    <3>1. p + j \in 2..Len(slots)
      BY <2>0
    <3> QED BY <2>1, <3>1
  <2>3. /\ SubSeq(t, p, Len(t)) = <<t[p]>> \o out
        /\ SubSeq(t, p, Len(t))[1] = t[p]
    <3>1. Len(t) = p + Len(out)
      BY <2>1
    <3> QED BY <2>0, <2>1, <2>2, <3>1, FromLemma
  <2>4. a = SubSeq(t, p, Len(t))
    BY <1>2, <2>0, <2>1 DEF Answered, t
  <2>5. e.base = 0 => p = 1
    BY <2>0
  <2>6. a = <<a[1]>> \o out
    BY <2>3, <2>4
  <2>7. e.base = 0 => a[1] = IF failed THEN "false" ELSE slots[1]
    BY <2>1, <2>3, <2>4, <2>5
  <2> HIDE DEF a
  <2>8. a = <<a[1]>> \o out /\ (e.base = 0 => a[1] = IF failed THEN "false" ELSE slots[1])
    BY <2>6, <2>7
  <2> QED BY <1>2, <2>8 DEF a
<1> QED BY <1>1, <1>2

AnswersInv ==
  /\ StatusAt(frames, entries)
  /\ AnswerIsWhatScriptLeft
  /\ StatusTruthfulAtBottom

LEMMA NoAnswerLemma ==
  ASSUME answer' = NoAnswer
  PROVE  AnswerIsWhatScriptLeft' /\ StatusTruthfulAtBottom'
BY DEF NoAnswer, AnswerIsWhatScriptLeft, StatusTruthfulAtBottom

LEMMA EntryAnswers ==
  ASSUME IInv, AnswersInv,
         \/ \E isAsync \in BOOLEAN : RunChunk(isAsync)
         \/ callGlobal
         \/ as3_lua_callback
  PROVE  AnswersInv'
<1> DEFINE two == <<"true", "fn">>
           three == <<"callbacks", "holder", "fn">>
<1>0. /\ two \in Seq(Slot) /\ Len(two) = 2 /\ two[1] = "true"
      /\ three \in Seq(Slot) /\ Len(three) = 3
  BY DEF Slot, Marker
<1> HIDE DEF two, three
<1>1. StatusAt(frames', entries') /\ answer' = NoAnswer
  <2>1. CASE \E isAsync \in BOOLEAN : RunChunk(isAsync)
    <3>1. PICK isAsync \in BOOLEAN, t \in Owner :
            /\ Start(t, isAsync)
            /\ Enter(t, "chunk", isAsync, Push(Top, two), 0)
      BY <2>1 DEF RunChunk, two
    <3>2. AS3Runs /\ 0 \in Nat
      BY <3>1, StartFacts
    <3>3. /\ "chunk" \in {"chunk", "callGlobal", "callback"}
          /\ Len(two) = 0 + (IF "chunk" = "callback" THEN 3 ELSE 2)
      BY <1>0
    <3>4. answer' = NoAnswer
      BY <3>1 DEF Enter
    <3> QED BY <1>0, <3>1, <3>2, <3>3, <3>4, EnterStatus DEF AnswersInv
  <2>2. CASE callGlobal
    <3>1. PICK n \in 0..MaxArgs :
            /\ Start(running, FALSE)
            /\ Enter(running, "callGlobal", FALSE, Push(Top, two \o Args(n)), n)
      BY <2>2 DEF callGlobal, two
    <3>2. n \in Nat /\ FALSE \in BOOLEAN
      BY ConstantsAssumption
    <3>3. AS3Runs
      BY <3>1 DEF Start
    <3>4. two \o Args(n) \in Seq(Slot) /\ Len(two \o Args(n)) = Len(two) + n
      BY <1>0, <3>2, WithArgsLemma
    <3>5. (two \o Args(n))[1] = "true"
      <4>1. Args(n) \in Seq(Slot) /\ Len(Args(n)) = n
        BY <3>2, ArgsLemma
      <4>2. \A i \in 1..Len(two)+Len(Args(n)) : (two \o Args(n))[i] =
               IF i <= Len(two) THEN two[i] ELSE Args(n)[i - Len(two)]
        BY <1>0, <4>1, ConcatProperties
      <4>3. 1 \in 1..Len(two)+Len(Args(n)) /\ 1 <= Len(two)
        BY <1>0, <3>2, <4>1
      <4> QED BY <1>0, <4>2, <4>3
    <3>6. /\ "callGlobal" \in {"chunk", "callGlobal", "callback"}
          /\ Len(two \o Args(n)) = n + (IF "callGlobal" = "callback" THEN 3 ELSE 2)
      BY <1>0, <3>2, <3>4
    <3>7. answer' = NoAnswer
      BY <3>1 DEF Enter
    <3> QED BY <3>1, <3>2, <3>3, <3>4, <3>5, <3>6, <3>7, EnterStatus DEF AnswersInv
  <2>3. CASE as3_lua_callback
    <3>1. PICK n \in 0..MaxArgs :
            /\ Start(running, FALSE)
            /\ Enter(running, "callback", get_async_state,
                     Push(Top, three \o Args(n)), n)
      BY <2>3 DEF as3_lua_callback, three
    <3>2. n \in Nat
      BY ConstantsAssumption
    <3>3. AS3Runs
      BY <3>1 DEF Start
    <3>4. three \o Args(n) \in Seq(Slot) /\ Len(three \o Args(n)) = Len(three) + n
      BY <1>0, <3>2, WithArgsLemma
    <3>5. /\ "callback" \in {"chunk", "callGlobal", "callback"}
          /\ Len(three \o Args(n)) = n + (IF "callback" = "callback" THEN 3 ELSE 2)
      BY <1>0, <3>2, <3>4
    <3>6. answer' = NoAnswer
      BY <3>1 DEF Enter
    <3> QED BY <3>1, <3>2, <3>3, <3>4, <3>5, <3>6, EnterStatus DEF AnswersInv
  <2> QED BY <2>1, <2>2, <2>3
<1> QED BY <1>1, NoAnswerLemma DEF AnswersInv

(* Slots of the top frame, which no entry but the innermost lies on. *)
LEMMA SetTopStatus ==
  ASSUME IInv, StatusAt(frames, entries), NEW s \in Seq(Slot),
         frames' = SetSlots(frames, s),
         \/ entries' = entries /\ AS3Runs
         \/ entries' = Front(entries) /\ LuaRuns
  PROVE  StatusAt(frames', entries')
<1> DEFINE n == Len(frames)
<1>1. /\ frames \in Seq(Frame) /\ entries \in Seq(Entry) /\ n \in Nat /\ n > 0
      /\ Len(entries) \in Nat
  BY TopFacts
<1>2. \A i \in 1..n-1 : SetSlots(frames, s)[i] = frames[i]
  BY <1>1, SetSlotsLemma
<1>3. Len(entries') = n-1 /\ \A i \in 1..n-1 : entries'[i] = entries[i]
  <2>1. CASE entries' = entries /\ AS3Runs
    BY <1>1, <2>1 DEF AS3Runs
  <2>2. CASE entries' = Front(entries) /\ LuaRuns
    BY <1>1, <2>2, FrontLemma DEF LuaRuns
  <2> QED BY <2>1, <2>2
<1>4. n-1 <= Len(entries)
  BY <1>1 DEF IInv, StackOK
<1> HIDE DEF n
<1>5. n-1 \in Nat
  BY <1>1
<1> QED BY <1>2, <1>3, <1>4, <1>5, KeepStatus

LEMMA LoadFailsAnswers ==
  ASSUME IInv, AnswersInv, LoadFails
  PROVE  AnswersInv'
<1> DEFINE two == <<"true", "msg">>
           out == <<"msg">>
           e == [kind |-> "chunk", base |-> Len(Top)]
           slots == Push(Top, two)
           s == Left(e, slots, TRUE)
           v == Answered(e, slots, TRUE)
<1>1. /\ AS3Runs
      /\ frames' = SetSlots(frames, s)
      /\ answer' = [kind |-> "chunk", base |-> e.base, failed |-> TRUE,
                    values |-> v, produced |-> <<>>]
      /\ entries' = entries
  BY DEF LoadFails, SetTop, SetSlots
<1>2. /\ two \in Seq(Slot) /\ Len(two) = 2 /\ two[2] = "msg"
      /\ out \in Seq(Slot) /\ Len(out) = 1 /\ out[1] = "msg"
  BY DEF Slot, Marker
<1> HIDE DEF two
<1>3. Top \in Seq(Slot) /\ Len(Top) \in Nat
  BY TopFacts
<1>4. /\ slots \in Seq(Slot) /\ Len(slots) = Len(Top) + 2
      /\ slots[Len(Top) + 2] = "msg"
  <2>1. /\ Top \o two \in Seq(Slot) /\ Len(Top \o two) = Len(Top) + Len(two)
        /\ \A i \in 1..Len(Top)+Len(two) : (Top \o two)[i] =
              IF i <= Len(Top) THEN Top[i] ELSE two[i - Len(Top)]
    BY <1>2, <1>3, ConcatProperties
  <2>2. /\ Len(Top) + 2 \in 1..Len(Top)+Len(two)
        /\ ~(Len(Top) + 2 <= Len(Top)) /\ (Len(Top) + 2) - Len(Top) = 2
    BY <1>2, <1>3
  <2> QED BY <1>2, <2>1, <2>2 DEF Push
<1>5. e.base = Len(Top) /\ e.kind = "chunk"
  OBVIOUS
<1> HIDE DEF slots, e
<1>6. s \in Seq(Slot)
  <2>1. e.base \in 0..Len(slots) /\ Len(slots) > 0 /\ TRUE \in BOOLEAN
    BY <1>3, <1>4, <1>5
  <2> QED BY <1>4, <2>1, LeftLemma, ZenonT(40)
<1> DEFINE p == e.base + 1
<1>7. /\ v = <<v[1]>> \o out
      /\ e.base = 0 => v[1] = "false"
  <2>1. /\ p \in Nat /\ p = IF e.kind = "callback" THEN e.base + 2 ELSE e.base + 1
        /\ Len(slots) = p + Len(out) /\ e.base \in Nat /\ TRUE \in BOOLEAN
    BY <1>2, <1>3, <1>4, <1>5
  <2>2. \A j \in 1..Len(out) : slots[p + j] = out[j]
    <3>1. \A j \in 1..Len(out) : j = 1 /\ p + j = Len(Top) + 2
      BY <1>2, <1>3, <1>5
    <3> QED BY <1>2, <1>4, <3>1
  <2> HIDE DEF p, out
  <2>3. /\ e.kind # "callback" => v = <<v[1]>> \o out
        /\ e.kind # "callback" /\ e.base = 0 =>
             v[1] = IF TRUE THEN "false" ELSE slots[1]
    <3>1. slots \in Seq(Slot) /\ out \in Seq(Slot)
      BY <1>2, <1>4
    <3> QED BY <2>1, <2>2, <3>1, AnswerLemma, ZenonT(40)
  <2> QED BY <1>5, <2>3
<1> HIDE DEF s, v
<1>8. StatusAt(frames', entries')
  BY <1>1, <1>6, SetTopStatus DEF AnswersInv
<1>9. /\ answer'.kind = "chunk" /\ answer'.base = e.base /\ answer'.failed
      /\ answer'.values = v
  BY <1>1
<1>10. AnswerIsWhatScriptLeft'
  BY <1>7, <1>9 DEF AnswerIsWhatScriptLeft
<1>11. StatusTruthfulAtBottom'
  BY <1>7, <1>9 DEF StatusTruthfulAtBottom
<1> QED BY <1>8, <1>10, <1>11 DEF AnswersInv

LEMMA LeaveAnswers ==
  ASSUME IInv, AnswersInv, NEW out \in Seq(Slot), NEW failed \in BOOLEAN,
         failed => out = <<"msg">>, Leave(out, failed)
  PROVE  AnswersInv'
<1> DEFINE e == entries[Len(entries)]
           slots == PcallEnd(Top, e.pbase, out)
           s == Left(e, slots, failed)
           v == Answered(e, slots, failed)
<1>1. /\ LuaRuns /\ e.kind # "setGlobal"
      /\ frames' = SetSlots(frames, s) /\ entries' = Front(entries)
      /\ answer' = [kind |-> e.kind, base |-> e.base, failed |-> failed,
                    values |-> v, produced |-> out]
  BY DEF Leave, SetTop, SetSlots
<1>2. /\ e \in Entry /\ Shape(e, frames[Len(frames)])
      /\ Len(frames) = Len(entries) /\ Len(entries) > 0
  BY <1>1, EntryFacts
<1>3. Top \in Seq(Slot) /\ Len(Top) \in Nat /\ Len(out) \in Nat
  BY TopFacts, LenProperties
<1>4. e.kind \in {"chunk", "callGlobal"} => Top[e.base + 2] = "true"
  <2>1. Len(entries) \in 1..Len(entries)
    BY <1>2, TopFacts
  <2> QED BY <1>2, <2>1 DEF AnswersInv, StatusAt, Top
<1> HIDE DEF slots, e
<1>5. /\ e.kind \in {"chunk", "callGlobal", "callback"}
      /\ e.base \in Nat /\ e.pbase \in Nat
  BY <1>1, <1>2 DEF Entry, EntryKind
<1>6. /\ e.pbase = IF e.kind = "callback" THEN e.base + 2 ELSE e.base + 1
      /\ Len(Top) = e.pbase + 1
  BY <1>1, <1>2, <1>5 DEF Shape, Top
<1> DEFINE p == e.pbase
<1>7. /\ p \in Nat /\ p > 0 /\ Len(Top) = p + 1 /\ p \in 1..Len(Top)
      /\ e.base < p
  BY <1>5, <1>6
<1> HIDE DEF p
<1>8. /\ slots \in Seq(Slot) /\ Len(slots) = p + Len(out)
      /\ slots[p] = Top[p + 1]
      /\ \A j \in 1..Len(out) : slots[p + j] = out[j]
  BY <1>3, <1>7, PcallEndTop, PcallEndLemma DEF slots, p
<1>9. s \in Seq(Slot)
  <2>1. e.base \in 0..Len(slots) /\ Len(slots) > 0
    BY <1>3, <1>5, <1>7, <1>8
  <2> QED BY <1>8, <2>1, LeftLemma, ZenonT(40)
<1>10. /\ e.kind = "callback" => v = IF failed THEN <<>> ELSE out
       /\ e.kind # "callback" => v = <<v[1]>> \o out
       /\ e.kind # "callback" /\ e.base = 0 =>
            v[1] = IF failed THEN "false" ELSE slots[1]
  <2>1. p = IF e.kind = "callback" THEN e.base + 2 ELSE e.base + 1
    BY <1>6 DEF p
  <2>2. /\ p \in Nat /\ slots \in Seq(Slot) /\ e.base \in Nat
        /\ Len(slots) = p + Len(out)
        /\ \A j \in 1..Len(out) : slots[p + j] = out[j]
    BY <1>5, <1>7, <1>8
  <2>3. /\ e.kind = "callback" =>
              Answered(e, slots, failed) = IF failed THEN <<>> ELSE out
        /\ e.kind # "callback" =>
              Answered(e, slots, failed) =
                <<Answered(e, slots, failed)[1]>> \o out
        /\ e.kind # "callback" /\ e.base = 0 =>
              Answered(e, slots, failed)[1] =
                IF failed THEN "false" ELSE slots[1]
    <3> HIDE DEF v, s
    <3>1. CASE e.kind = "callback"
      <4>1. Answered(e, slots, failed) = IF failed THEN <<>> ELSE out
        BY <2>1, <2>2, <3>1, AnswerLemma, ZenonT(60)
      <4> QED BY <3>1, <4>1
    <3>2. CASE e.kind # "callback"
      <4>1. Answered(e, slots, failed) = <<Answered(e, slots, failed)[1]>> \o out
        BY <2>1, <2>2, <3>2, AnswerLemma
      <4>2. ASSUME e.base = 0
            PROVE  Answered(e, slots, failed)[1] =
                     IF failed THEN "false" ELSE slots[1]
        BY <2>1, <2>2, <3>2, <4>2, AnswerLemma, ZenonT(60)
      <4> QED BY <3>2, <4>1, <4>2, Zenon
    <3> QED BY <3>1, <3>2
  <2> QED BY <2>3
<1>11. e.kind # "callback" /\ e.base = 0 => slots[1] = "true"
  <2> SUFFICES ASSUME e.kind # "callback", e.base = 0 PROVE slots[1] = "true"
    OBVIOUS
  <2>1. p = 1 /\ p + 1 = e.base + 2
    BY <1>6 DEF p
  <2> QED BY <1>4, <1>5, <1>8, <2>1
<1> HIDE DEF s, v
<1>12. StatusAt(frames', entries')
  BY <1>1, <1>9, SetTopStatus DEF AnswersInv
<1>13. /\ answer'.kind = e.kind /\ answer'.base = e.base
       /\ answer'.failed = failed /\ answer'.values = v
       /\ answer'.produced = out
  BY <1>1
<1>14. AnswerIsWhatScriptLeft'
  BY <1>10, <1>13 DEF AnswerIsWhatScriptLeft
<1>15. StatusTruthfulAtBottom'
  BY <1>10, <1>11, <1>13 DEF StatusTruthfulAtBottom
<1> QED BY <1>12, <1>14, <1>15 DEF AnswersInv

LEMMA setGlobalAnswers ==
  ASSUME IInv, AnswersInv, setGlobal
  PROVE  AnswersInv'
<1> DEFINE s == Push(Top, <<"value">>)
           n == Len(frames)
<1>1. /\ frames' = SetSlots(frames, s) /\ answer' = NoAnswer /\ AS3Runs
      /\ \E e : entries' = Append(entries, e) /\ e.kind = "setGlobal"
                /\ e \in Entry
  <2> DEFINE base == Len(Top)
             e == [own |-> running, by |-> running, kind |-> "setGlobal",
                   async |-> is_async, old |-> is_async, base |-> base,
                   pbase |-> 0]
  <2>1. base \in Nat
    BY TopFacts
  <2>2. /\ frames' = SetSlots(frames, s) /\ answer' = NoAnswer /\ AS3Runs
        /\ entries' = Append(entries, e)
    BY DEF setGlobal, SetTop, SetSlots, Start
  <2> HIDE DEF base
  <2>3. e.kind = "setGlobal" /\ e \in Entry
    BY <2>1 DEF Entry, EntryKind, IInv, OthersOK
  <2> QED BY <2>2, <2>3
<1>2. PICK e \in Entry : entries' = Append(entries, e) /\ e.kind = "setGlobal"
  BY <1>1
<1>3. <<"value">> \in Seq(Slot)
  BY DEF Slot, Marker
<1>4. s \in Seq(Slot)
  BY <1>1, <1>3, PushTopLemma
<1> HIDE DEF s
<1>5. /\ frames \in Seq(Frame) /\ entries \in Seq(Entry) /\ n \in Nat /\ n > 0
      /\ Len(entries) = n - 1
  BY <1>1, TopFacts DEF AS3Runs
<1>6. \A i \in 1..n-1 : frames'[i] = frames[i]
  BY <1>1, <1>4, <1>5, SetSlotsLemma
<1>7. /\ Len(entries') = n /\ entries'[n] = e
      /\ \A i \in 1..n-1 : entries'[i] = entries[i]
  BY <1>2, <1>5, AppendProperties
<1> HIDE DEF n
<1>8. \A i \in 1..n : i = n \/ i \in 1..n-1
  BY <1>5
<1>9. StatusAt(frames', entries')
  BY <1>2, <1>5, <1>6, <1>7, <1>8 DEF StatusAt, AnswersInv
<1> QED BY <1>1, <1>9, NoAnswerLemma DEF AnswersInv

(* Frames come and go above the entries. *)
LEMMA FrameAnswers ==
  ASSUME IInv, AnswersInv, entries' = entries, answer' = NoAnswer,
         \/ \E f \in Frame : frames' = Append(frames, f)
         \/ frames' = Front(frames) /\ AS3Runs
         \/ frames' = frames
  PROVE  AnswersInv'
<1>1. /\ frames \in Seq(Frame) /\ Len(frames) \in Nat /\ Len(frames) > 0
      /\ Len(entries) \in Nat /\ Len(entries) <= Len(frames)
  BY TopFacts DEF IInv, StackOK
<1>2. \A i \in 1..Len(entries) : frames'[i] = frames[i]
  <2>1. CASE \E f \in Frame : frames' = Append(frames, f)
    <3>1. PICK f \in Frame : frames' = Append(frames, f)
      BY <2>1
    <3>2. \A i \in 1..Len(frames) : Append(frames, f)[i] = frames[i]
      BY <1>1, AppendProperties
    <3>3. \A i \in 1..Len(entries) : i \in 1..Len(frames)
      BY <1>1
    <3> QED BY <3>1, <3>2, <3>3
  <2>2. CASE frames' = Front(frames) /\ AS3Runs
    <3>1. \A i \in 1..Len(frames)-1 : Front(frames)[i] = frames[i]
      BY <1>1, FrontLemma
    <3> QED BY <1>1, <2>2, <3>1 DEF AS3Runs
  <2>3. CASE frames' = frames
    BY <2>3
  <2> QED BY <2>1, <2>2, <2>3
<1>3. StatusAt(frames', entries')
  BY <1>2 DEF AnswersInv, StatusAt
<1> QED BY <1>3, NoAnswerLemma DEF AnswersInv

LEMMA ThrowAnswers ==
  ASSUME IInv, AnswersInv, Throw
  PROVE  AnswersInv'
<1>1. PICK i \in 0..Len(entries) :
        /\ answer' = NoAnswer
        /\ \/ /\ i > 0
              /\ entries' = SubSeq(entries, 1, i)
              /\ frames'  = SubSeq(frames, 1, i)
           \/ UNCHANGED <<frames, entries>>
  BY DEF Throw
<1>2. /\ frames \in Seq(Frame) /\ entries \in Seq(Entry)
      /\ Len(entries) \in Nat /\ Len(frames) \in Nat
      /\ Len(entries) <= Len(frames)
  BY TopFacts DEF IInv, StackOK
<1>3. StatusAt(frames', entries')
  <2>1. CASE entries' = SubSeq(entries, 1, i) /\ frames' = SubSeq(frames, 1, i)
    <3>1. i \in 0..Len(entries) /\ i \in 0..Len(frames)
      BY <1>2
    <3>2. /\ Len(entries') = i
          /\ \A k \in 1..i : entries'[k] = entries[k] /\ frames'[k] = frames[k]
      BY <1>2, <2>1, <3>1, PrefixLemma
    <3> QED BY <1>2, <3>1, <3>2, KeepStatus DEF AnswersInv
  <2>2. CASE UNCHANGED <<frames, entries>>
    BY <2>2 DEF AnswersInv
  <2> QED BY <1>1, <2>1, <2>2
<1> QED BY <1>1, <1>3, NoAnswerLemma DEF AnswersInv

LEMMA NextAnswers ==
  ASSUME IInv, AnswersInv, [Next]_vars
  PROVE  AnswersInv'
<1>1. CASE \E isAsync \in BOOLEAN : doFileImpl(isAsync) \/ luaDoStringImpl(isAsync)
  BY <1>1, EntryAnswers, LoadFailsAnswers DEF doFileImpl, luaDoStringImpl
<1>2. CASE callGlobal \/ as3_lua_callback
  BY <1>2, EntryAnswers
<1>3. CASE setGlobal
  BY <1>3, setGlobalAnswers
<1>4. CASE GlobalLookupRaises \/ SetGlobalRaises
  BY <1>4, ThrowAnswers DEF GlobalLookupRaises, SetGlobalRaises
<1>5. CASE ScriptReturns
  <2>1. PICK out \in SeqOf(Value, MaxArgs) : Leave(out, FALSE)
    BY <1>5 DEF ScriptReturns
  <2>2. out \in Seq(Slot) /\ FALSE \in BOOLEAN
    BY DEF SeqOf, Slot
  <2> QED BY <2>1, <2>2, LeaveAnswers, Zenon
<1>6. CASE ScriptFails
  <2>1. <<"msg">> \in Seq(Slot) /\ TRUE \in BOOLEAN
    BY DEF Slot, Marker
  <2> QED BY <1>6, <2>1, LeaveAnswers, Zenon DEF ScriptFails
<1>7. CASE SetGlobalReturns
  <2>1. /\ LuaRuns /\ frames' = SetSlots(frames, Front(Top))
        /\ entries' = Front(entries) /\ answer' = NoAnswer
    BY <1>7 DEF SetGlobalReturns, SetTop, SetSlots
  <2>2. Front(Top) \in Seq(Slot)
    <3>1. /\ entries[Len(entries)].kind = "setGlobal"
          /\ Shape(entries[Len(entries)], frames[Len(frames)])
      BY <1>7, <2>1, EntryFacts DEF SetGlobalReturns
    <3>2. Top \in Seq(Slot) /\ Height(frames[Len(frames)]) \in Nat
      BY TopFacts
    <3>3. Len(Top) > 0
      BY <3>1, <3>2 DEF Shape, Top
    <3> QED BY <3>2, <3>3, FrontLemma
  <2>3. StatusAt(frames', entries')
    BY <2>1, <2>2, SetTopStatus DEF AnswersInv
  <2> QED BY <2>1, <2>3, NoAnswerLemma DEF AnswersInv
<1>8. CASE as3_call \/ as3_access \/ as3_flyield
  <2>1. PICK kind \in FrameKind, n \in Nat, slots \in Seq(Slot) :
          PushFrame(kind, n, slots)
    <3>1. \A n \in 0..MaxArgs : n \in Nat /\ 1 + n \in Nat
      BY ConstantsAssumption
    <3>2. CASE as3_call
      <4>1. PICK n \in 0..MaxArgs :
              PushFrame("call", 1 + n, <<"userdata">> \o Args(n) \o <<"guard">>)
        BY <3>2 DEF as3_call
      <4>2. <<"userdata">> \o Args(n) \in Seq(Slot)
        BY <3>1, UserdataArgsLemma
      <4>3. <<"guard">> \in Seq(Slot)
        BY DEF Slot, Marker
      <4>4. <<"userdata">> \o Args(n) \o <<"guard">> \in Seq(Slot)
        BY <4>2, <4>3, ConcatProperties
      <4> QED BY <3>1, <4>1, <4>4 DEF FrameKind
    <3>3. CASE as3_access
      <4>1. PICK n \in 0..MaxArgs :
              PushFrame("access", 1 + n, <<"userdata">> \o Args(n))
        BY <3>3 DEF as3_access
      <4>2. <<"userdata">> \o Args(n) \in Seq(Slot)
        BY <3>1, UserdataArgsLemma
      <4> QED BY <3>1, <4>1, <4>2 DEF FrameKind
    <3>4. CASE as3_flyield
      <4>1. PICK n \in 0..MaxArgs : PushFrame("flyield", n, Args(n))
        BY <3>4 DEF as3_flyield
      <4>2. Args(n) \in Seq(Slot)
        BY <3>1, ArgsLemma
      <4> QED BY <3>1, <4>1, <4>2 DEF FrameKind
    <3> QED BY <1>8, <3>2, <3>3, <3>4
  <2> DEFINE f == [own |-> running, kind |-> kind, nargs |-> n, slots |-> slots]
  <2>2. /\ frames' = Append(frames, f) /\ entries' = entries
        /\ answer' = NoAnswer
    BY <2>1 DEF PushFrame
  <2>3. f \in Frame
    BY DEF Frame, IInv, OthersOK
  <2> QED BY <2>2, <2>3, FrameAnswers
<1>9. CASE HideAs3
  BY <1>9, FrameAnswers DEF HideAs3
<1>10. CASE AS3Returns \/ AS3ReturnsCrossed
  BY <1>10, FrameAnswers DEF AS3Returns, AS3ReturnsCrossed
<1>11. CASE \E t \in Async : Resume(t)
  BY <1>11, FrameAnswers DEF Resume, FlashIdle
<1>12. CASE UNCHANGED vars
  BY <1>12 DEF vars, AnswersInv, AnswerIsWhatScriptLeft, StatusTruthfulAtBottom
<1>13. CASE Stopped
  BY <1>12, <1>13 DEF Stopped
<1> QED BY <1>1, <1>2, <1>3, <1>4, <1>5, <1>6, <1>7, <1>8, <1>9, <1>10, <1>11,
           <1>12, <1>13 DEF Next

(* Every entry hands AS3 exactly what its function produced, at any depth, *)
(* on a frame of any height: LCALL_ARGS, lua_insert() and lua_remove() of  *)
(* do_pcall_with_traceback() and results_base agree.                       *)
THEOREM Answers == Spec => []AnswersInv
<1>1. Init => AnswersInv
  <2> SUFFICES ASSUME Init PROVE AnswersInv
    OBVIOUS
  <2>1. answer = NoAnswer /\ Len(entries) = 0
    BY DEF Init
  <2> QED BY <2>1 DEF AnswersInv, StatusAt, AnswerIsWhatScriptLeft,
                      StatusTruthfulAtBottom, NoAnswer
<1> QED BY <1>1, NextAnswers, Inductive, PTL DEF Spec

(* The answer of a call is the status and its results, or the message; of  *)
(* a callback its results, or nothing.                                     *)
THEOREM AnswerIsWhatScriptLeftAlways == Spec => []AnswerIsWhatScriptLeft
<1>1. AnswersInv => AnswerIsWhatScriptLeft
  BY DEF AnswersInv
<1> QED BY <1>1, Answers, PTL

(* At the bottom of a frame the absolute index of lua_replace() is the     *)
(* right one: the status tells whether the call failed.                    *)
THEOREM StatusTruthfulAtBottomAlways == Spec => []StatusTruthfulAtBottom
<1>1. AnswersInv => StatusTruthfulAtBottom
  BY DEF AnswersInv
<1> QED BY <1>1, Answers, PTL

----------------------------------------------------------------------------
(* Threads.                                                                *)

(* Entry i runs on the thread that made it, which runs already, or it is   *)
(* the first on a thread of its own.                                       *)
Nested(es, i) ==
  /\ es[i].own = es[i].by
  /\ es[i].own = Main \/ \E j \in 1..i-1 : es[j].own = es[i].own
First(es, i) ==
  /\ es[i].own \in Async
  /\ \A j \in 1..i-1 : es[j].own # es[i].own

(* How entries are made.                                                   *)
MadeOK(es) == \A i \in 1..Len(es) :
  /\ Nested(es, i) \/ First(es, i)
  /\ es[i].by = Main \/ \E j \in 1..i-1 : es[j].own = es[i].by
  /\ es[i].kind # "chunk" => es[i].own = es[i].by
  /\ es[i].kind = "callGlobal" => ~es[i].async
  /\ es[i].kind = "chunk" /\ es[i].async => First(es, i)

(* Whose a frame is: that of the entry below it, and of the AS3 code that  *)
(* makes the entry above it, unless a thread is suspended there.           *)
OwnersOK(fs, es) ==
  /\ \A i \in 2..Len(fs) : fs[i].own = es[i-1].own /\ fs[i].kind # "host"
  /\ \A i \in 1..Len(es) : fs[i].kind # "flyield" => es[i].by = fs[i].own

(* Who runs.                                                               *)
RunningOK(fs, es, r) ==
  /\ r = Main \/ \E i \in 1..Len(es) : es[i].own = r
  /\ Len(fs) = Len(es) => es[Len(es)].own = r
  /\ Len(fs) = Len(es) + 1 /\ fs[Len(fs)].kind # "flyield" =>
       fs[Len(fs)].own = r

(* A suspended thread does not run, made nothing that still runs, and has  *)
(* one entry, with its frame above it.                                     *)
SuspendedOK(fs, es, r, s) ==
  /\ r \notin s
  /\ \A t \in s : \E k \in 2..Len(fs) : fs[k].kind = "flyield" /\ fs[k].own = t
  /\ \A k \in 1..Len(fs) : fs[k].kind = "flyield" =>
       /\ fs[k].own \in s
       /\ \A j \in 1..Len(es) : /\ j # k-1 => es[j].own # fs[k].own
                                /\ es[j].by # fs[k].own

ThreadsOK(fs, es, r, s) ==
  /\ MadeOK(es) /\ OwnersOK(fs, es) /\ RunningOK(fs, es, r)
  /\ SuspendedOK(fs, es, r, s)

ThreadsInv ==
  /\ halt = "no" => ThreadsOK(frames, entries, running, suspended)
  /\ OneAsyncCallIsSafe

(* Facts about lengths that every step needs. *)
LEMMA ThreadFacts ==
  ASSUME IInv
  PROVE  /\ Len(frames) \in Nat /\ Len(entries) \in Nat /\ Len(frames) > 0
         /\ Len(frames) = Len(entries) \/ Len(frames) = Len(entries) + 1
         /\ frames[1].own = Main /\ frames[1].kind = "host"
         /\ Main \notin Async /\ suspended \subseteq Async
<1>1. Len(frames) \in Nat /\ Len(entries) \in Nat /\ Len(frames) > 0
  BY TopFacts
<1> QED BY <1>1, ConstantsAssumption DEF IInv, StackOK, OthersOK

(* An entry is made: on the running thread, or on one that runs nowhere.   *)
LEMMA EnterThreads ==
  ASSUME NEW fs, NEW es, NEW r, NEW s, NEW gs, NEW ds, NEW n \in Nat, n > 0,
         ThreadsOK(fs, es, r, s), s \subseteq Async,
         Len(fs) = n, Len(es) = n-1, Len(gs) = n, Len(ds) = n,
         \A i \in 1..n : gs[i].own = fs[i].own /\ gs[i].kind = fs[i].kind,
         \A i \in 1..n-1 : ds[i] = es[i],
         ds[n].by = r,
         \/ ds[n].own = r
         \/ /\ ds[n].kind = "chunk" /\ ds[n].own \in Async
            /\ \A i \in 1..n-1 : es[i].own # ds[n].own,
         ds[n].kind = "callGlobal" => ~ds[n].async,
         ds[n].kind = "chunk" /\ ds[n].async =>
           /\ ds[n].own \in Async
           /\ \A i \in 1..n-1 : es[i].own # ds[n].own
  PROVE  ThreadsOK(gs, ds, ds[n].own, s)
<1>1. MadeOK(es) /\ OwnersOK(fs, es) /\ RunningOK(fs, es, r)
      /\ SuspendedOK(fs, es, r, s)
  BY DEF ThreadsOK
<1> DEFINE t == ds[n].own
<1>2. r = Main \/ \E j \in 1..n-1 : ds[j].own = r
  <2>1. r = Main \/ \E j \in 1..n-1 : es[j].own = r
    BY <1>1 DEF RunningOK
  <2> QED BY <2>1
<1>3. \A i \in 1..n : i = n \/ i \in 1..n-1
  OBVIOUS
<1>4. \A i \in 1..n-1 : \A j \in 1..i-1 : ds[j] = es[j] /\ j \in 1..n-1
  OBVIOUS
<1>5. MadeOK(ds)
  <2>1. ASSUME NEW i \in 1..n-1
        PROVE  /\ Nested(ds, i) \/ First(ds, i)
               /\ ds[i].by = Main \/ \E j \in 1..i-1 : ds[j].own = ds[i].by
               /\ ds[i].kind # "chunk" => ds[i].own = ds[i].by
               /\ ds[i].kind = "callGlobal" => ~ds[i].async
               /\ ds[i].kind = "chunk" /\ ds[i].async => First(ds, i)
    <3>1. (Nested(es, i) => Nested(ds, i)) /\ (First(es, i) => First(ds, i))
      BY <1>4 DEF Nested, First
    <3>2. /\ Nested(es, i) \/ First(es, i)
          /\ es[i].by = Main \/ \E j \in 1..i-1 : es[j].own = es[i].by
          /\ es[i].kind # "chunk" => es[i].own = es[i].by
          /\ es[i].kind = "callGlobal" => ~es[i].async
          /\ es[i].kind = "chunk" /\ es[i].async => First(es, i)
      BY <1>1 DEF MadeOK
    <3> QED BY <1>4, <3>1, <3>2
  <2>2. CASE t = r
    <3>1. Nested(ds, n)
      BY <1>2, <2>2 DEF Nested
    <3>2. ds[n].kind = "chunk" /\ ds[n].async => First(ds, n)
      BY DEF First
    <3> QED BY <1>2, <1>3, <2>1, <2>2, <3>1, <3>2 DEF MadeOK
  <2>3. CASE /\ ds[n].kind = "chunk" /\ t \in Async
             /\ \A i \in 1..n-1 : es[i].own # t
    <3>1. First(ds, n)
      BY <2>3 DEF First
    <3> QED BY <1>2, <1>3, <2>1, <2>3, <3>1 DEF MadeOK
  <2> QED BY <2>2, <2>3
<1>6. OwnersOK(gs, ds)
  <2>1. ASSUME NEW i \in 2..n
        PROVE  gs[i].own = ds[i-1].own /\ gs[i].kind # "host"
    <3>1. i-1 \in 1..n-1 /\ i \in 1..n
      OBVIOUS
    <3>2. fs[i].own = es[i-1].own /\ fs[i].kind # "host"
      BY <1>1 DEF OwnersOK
    <3> QED BY <3>1, <3>2
  <2>2. ASSUME NEW i \in 1..n, gs[i].kind # "flyield"
        PROVE  ds[i].by = gs[i].own
    <3>1. CASE i = n
      <4>1. fs[n].own = r
        BY <1>1, <2>2, <3>1 DEF RunningOK
      <4> QED BY <3>1, <4>1
    <3>2. CASE i \in 1..n-1
      BY <1>1, <2>2, <3>2 DEF OwnersOK
    <3> QED BY <1>3, <3>1, <3>2
  <2> QED BY <2>1, <2>2 DEF OwnersOK
<1>7. RunningOK(gs, ds, t)
  BY DEF RunningOK
<1>8. SuspendedOK(gs, ds, t, s)
  <2>1. /\ r \notin s
        /\ \A u \in s : \E k \in 2..n : fs[k].kind = "flyield" /\ fs[k].own = u
        /\ \A k \in 1..n : fs[k].kind = "flyield" =>
             /\ fs[k].own \in s
             /\ \A j \in 1..n-1 : /\ j # k-1 => es[j].own # fs[k].own
                                  /\ es[j].by # fs[k].own
    BY <1>1 DEF SuspendedOK
  <2>2. t \notin s
    <3>1. CASE t = r
      BY <2>1, <3>1
    <3>2. CASE \A i \in 1..n-1 : es[i].own # t
      <4> SUFFICES ASSUME t \in s PROVE FALSE
        OBVIOUS
      <4>1. PICK k \in 2..n : fs[k].own = t
        BY <2>1
      <4>2. k-1 \in 1..n-1 /\ fs[k].own = es[k-1].own
        BY <1>1 DEF OwnersOK
      <4> QED BY <3>2, <4>1, <4>2
    <3> QED BY <3>1, <3>2
  <2>3. \A u \in s : \E k \in 2..n : gs[k].kind = "flyield" /\ gs[k].own = u
    BY <2>1
  <2>4. ASSUME NEW k \in 1..n, gs[k].kind = "flyield"
        PROVE  /\ gs[k].own \in s
               /\ \A j \in 1..n : /\ j # k-1 => ds[j].own # gs[k].own
                                  /\ ds[j].by # gs[k].own
    <3>1. /\ fs[k].own \in s /\ gs[k].own = fs[k].own
          /\ \A j \in 1..n-1 : /\ j # k-1 => es[j].own # fs[k].own
                               /\ es[j].by # fs[k].own
      BY <2>1, <2>4
    <3>2. ds[n].own # gs[k].own /\ ds[n].by # gs[k].own
      BY <2>1, <2>2, <3>1
    <3> QED BY <1>3, <3>1, <3>2
  <2> QED BY <2>2, <2>3, <2>4 DEF SuspendedOK
<1> QED BY <1>5, <1>6, <1>7, <1>8 DEF ThreadsOK

(* The entries below one are made as they were. *)
LEMMA PrefixMade ==
  ASSUME NEW es, NEW ds, NEW n \in Nat, Len(es) \in Nat, n <= Len(es),
         MadeOK(es), Len(ds) = n, \A i \in 1..n : ds[i] = es[i]
  PROVE  MadeOK(ds)
<1> SUFFICES ASSUME NEW i \in 1..n
             PROVE  /\ Nested(ds, i) \/ First(ds, i)
                    /\ ds[i].by = Main \/ \E j \in 1..i-1 : ds[j].own = ds[i].by
                    /\ ds[i].kind # "chunk" => ds[i].own = ds[i].by
                    /\ ds[i].kind = "callGlobal" => ~ds[i].async
                    /\ ds[i].kind = "chunk" /\ ds[i].async => First(ds, i)
  BY DEF MadeOK
<1>1. i \in 1..Len(es) /\ \A j \in 1..i-1 : j \in 1..n
  OBVIOUS
<1>2. (Nested(es, i) => Nested(ds, i)) /\ (First(es, i) => First(ds, i))
  BY <1>1 DEF Nested, First
<1>3. /\ Nested(es, i) \/ First(es, i)
      /\ es[i].by = Main \/ \E j \in 1..i-1 : es[j].own = es[i].by
      /\ es[i].kind # "chunk" => es[i].own = es[i].by
      /\ es[i].kind = "callGlobal" => ~es[i].async
      /\ es[i].kind = "chunk" /\ es[i].async => First(es, i)
  BY <1>1 DEF MadeOK
<1> QED BY <1>1, <1>2, <1>3

(* The innermost entry ends. *)
LEMMA LeaveThreads ==
  ASSUME NEW fs, NEW es, NEW r, NEW s, NEW gs, NEW ds, NEW q, NEW n \in Nat,
         n > 0, ThreadsOK(fs, es, r, s), s \subseteq Async, Main \notin Async,
         Len(fs) = n, Len(es) = n, Len(gs) = n, Len(ds) = n-1,
         \A i \in 1..n : gs[i].own = fs[i].own /\ gs[i].kind = fs[i].kind,
         \A i \in 1..n-1 : ds[i] = es[i],
         q = IF es[n].own # Main /\ (\A i \in 1..n-1 : es[i].own # es[n].own)
             THEN es[n].by ELSE r
  PROVE  ThreadsOK(gs, ds, q, s)
<1>1. MadeOK(es) /\ OwnersOK(fs, es) /\ RunningOK(fs, es, r)
      /\ SuspendedOK(fs, es, r, s)
  BY DEF ThreadsOK
<1>2. n \in 1..n /\ n-1 \in Nat /\ n-1 <= n
  OBVIOUS
<1>3. MadeOK(ds)
  <2> DEFINE m == n-1
  <2>1. /\ m \in Nat /\ Len(es) \in Nat /\ m <= Len(es) /\ Len(ds) = m
        /\ \A i \in 1..m : ds[i] = es[i]
    OBVIOUS
  <2> HIDE DEF m
  <2> QED BY <1>1, <2>1, PrefixMade
<1>4. /\ Nested(es, n) \/ First(es, n)
      /\ es[n].by = Main \/ \E j \in 1..n-1 : es[j].own = es[n].by
      /\ es[n].own = r
  BY <1>1, <1>2 DEF MadeOK, RunningOK
<1>5. q = es[n].by
  <2>1. CASE Nested(es, n)
    BY <1>4, <2>1 DEF Nested
  <2>2. CASE First(es, n)
    BY <2>2 DEF First
  <2> QED BY <1>4, <2>1, <2>2
<1>6. OwnersOK(gs, ds)
  <2>1. ASSUME NEW i \in 2..n
        PROVE  gs[i].own = ds[i-1].own /\ gs[i].kind # "host"
    <3>1. i-1 \in 1..n-1 /\ i \in 1..n
      OBVIOUS
    <3>2. fs[i].own = es[i-1].own /\ fs[i].kind # "host"
      BY <1>1 DEF OwnersOK
    <3> QED BY <3>1, <3>2
  <2>2. ASSUME NEW i \in 1..n-1, gs[i].kind # "flyield"
        PROVE  ds[i].by = gs[i].own
    <3>1. i \in 1..n
      OBVIOUS
    <3> QED BY <1>1, <2>2, <3>1 DEF OwnersOK
  <2> QED BY <2>1, <2>2 DEF OwnersOK
<1>7. RunningOK(gs, ds, q)
  <2>1. q = Main \/ \E i \in 1..n-1 : ds[i].own = q
    BY <1>4, <1>5
  <2>2. gs[n].kind # "flyield" => gs[n].own = q
    BY <1>1, <1>2, <1>5 DEF OwnersOK
  <2> QED BY <2>1, <2>2 DEF RunningOK
<1>8. SuspendedOK(gs, ds, q, s)
  <2>1. /\ r \notin s
        /\ \A u \in s : \E k \in 2..n : fs[k].kind = "flyield" /\ fs[k].own = u
        /\ \A k \in 1..n : fs[k].kind = "flyield" =>
             /\ fs[k].own \in s
             /\ \A j \in 1..n : /\ j # k-1 => es[j].own # fs[k].own
                                /\ es[j].by # fs[k].own
    BY <1>1 DEF SuspendedOK
  <2>2. q \notin s
    <3> SUFFICES ASSUME q \in s PROVE FALSE
      OBVIOUS
    <3>1. PICK k \in 2..n : fs[k].kind = "flyield" /\ fs[k].own = q
      BY <2>1
    <3>2. es[n].by # fs[k].own
      BY <1>2, <2>1, <3>1
    <3> QED BY <1>5, <3>1, <3>2
  <2>3. \A u \in s : \E k \in 2..n : gs[k].kind = "flyield" /\ gs[k].own = u
    BY <2>1
  <2>4. ASSUME NEW k \in 1..n, gs[k].kind = "flyield"
        PROVE  /\ gs[k].own \in s
               /\ \A j \in 1..n-1 : /\ j # k-1 => ds[j].own # gs[k].own
                                    /\ ds[j].by # gs[k].own
    BY <2>1, <2>4
  <2> QED BY <2>2, <2>3, <2>4 DEF SuspendedOK
<1> QED BY <1>3, <1>6, <1>7, <1>8 DEF ThreadsOK

(* Lua calls a C function, which does not suspend its thread. *)
LEMMA PushThreads ==
  ASSUME NEW fs, NEW es, NEW r, NEW s, NEW gs, NEW n \in Nat, n > 0,
         ThreadsOK(fs, es, r, s), Len(fs) = n, Len(es) = n, Len(gs) = n + 1,
         \A i \in 1..n : gs[i] = fs[i],
         gs[n+1].own = r, gs[n+1].kind \notin {"host", "flyield"}
  PROVE  ThreadsOK(gs, es, r, s)
<1>1. MadeOK(es) /\ OwnersOK(fs, es) /\ RunningOK(fs, es, r)
      /\ SuspendedOK(fs, es, r, s)
  BY DEF ThreadsOK
<1>2. es[n].own = r
  BY <1>1 DEF RunningOK
<1>3. \A i \in 1..n+1 : i = n+1 \/ i \in 1..n
  OBVIOUS
<1>4. OwnersOK(gs, es)
  <2>1. ASSUME NEW i \in 2..n+1
        PROVE  gs[i].own = es[i-1].own /\ gs[i].kind # "host"
    <3>1. CASE i = n+1
      BY <1>2, <3>1
    <3>2. CASE i # n+1
      <4>1. i \in 2..n /\ i \in 1..n
        BY <3>2
      <4> QED BY <1>1, <4>1 DEF OwnersOK
    <3> QED BY <3>1, <3>2
  <2> QED BY <1>1, <2>1 DEF OwnersOK
<1>5. RunningOK(gs, es, r)
  BY <1>1 DEF RunningOK
<1>6. SuspendedOK(gs, es, r, s)
  <2>1. \A i \in 2..n : i \in 1..n /\ i \in 2..n+1
    OBVIOUS
  <2>2. \A u \in s : \E k \in 2..n+1 : gs[k].kind = "flyield" /\ gs[k].own = u
    BY <1>1, <2>1 DEF SuspendedOK
  <2>3. \A k \in 1..n+1 : gs[k].kind = "flyield" => k \in 1..n /\ gs[k] = fs[k]
    BY <1>3
  <2> QED BY <1>1, <2>2, <2>3 DEF SuspendedOK
<1> QED BY <1>1, <1>4, <1>5, <1>6 DEF ThreadsOK

(* flyield() suspends the thread that runs, and the one that made its only *)
(* entry goes on.                                                          *)
LEMMA YieldThreads ==
  ASSUME NEW fs, NEW es, NEW r, NEW s, NEW gs, NEW n \in Nat, n > 0,
         ThreadsOK(fs, es, r, s), s \subseteq Async, Main \notin Async,
         Len(fs) = n, Len(es) = n, Len(gs) = n + 1,
         \A i \in 1..n : gs[i] = fs[i],
         gs[n+1].own = r, gs[n+1].kind = "flyield",
         r # Main, \A i \in 1..n-1 : es[i].own # r
  PROVE  ThreadsOK(gs, es, es[n].by, s \cup {r})
<1>1. MadeOK(es) /\ OwnersOK(fs, es) /\ RunningOK(fs, es, r)
      /\ SuspendedOK(fs, es, r, s)
  BY DEF ThreadsOK
<1> DEFINE q == es[n].by
<1>2. es[n].own = r /\ n \in 1..n
  BY <1>1 DEF RunningOK
<1>3. q = Main \/ \E j \in 1..n-1 : es[j].own = q
  BY <1>1, <1>2 DEF MadeOK
<1>4. q # r
  BY <1>3
<1>5. \A i \in 1..n+1 : i = n+1 \/ i \in 1..n
  OBVIOUS
<1>6. OwnersOK(gs, es)
  <2>1. ASSUME NEW i \in 2..n+1
        PROVE  gs[i].own = es[i-1].own /\ gs[i].kind # "host"
    <3>1. CASE i = n+1
      BY <1>2, <3>1
    <3>2. CASE i # n+1
      <4>1. i \in 2..n /\ i \in 1..n
        BY <3>2
      <4> QED BY <1>1, <4>1 DEF OwnersOK
    <3> QED BY <3>1, <3>2
  <2> QED BY <1>1, <2>1 DEF OwnersOK
<1>7. RunningOK(gs, es, q)
  <2>1. \A j \in 1..n-1 : j \in 1..n
    OBVIOUS
  <2> QED BY <1>3, <2>1 DEF RunningOK
<1>8. SuspendedOK(gs, es, q, s \cup {r})
  <2>1. /\ r \notin s
        /\ \A u \in s : \E k \in 2..n : fs[k].kind = "flyield" /\ fs[k].own = u
        /\ \A k \in 1..n : fs[k].kind = "flyield" =>
             /\ fs[k].own \in s
             /\ \A j \in 1..n : /\ j # k-1 => es[j].own # fs[k].own
                                /\ es[j].by # fs[k].own
    BY <1>1 DEF SuspendedOK
  <2>2. q \notin s
    <3> SUFFICES ASSUME q \in s PROVE FALSE
      OBVIOUS
    <3>1. PICK k \in 2..n : fs[k].kind = "flyield" /\ fs[k].own = q
      BY <2>1
    <3>2. es[n].by # fs[k].own
      BY <1>2, <2>1, <3>1
    <3> QED BY <3>1, <3>2
  <2>3. \A u \in s \cup {r} :
          \E k \in 2..n+1 : gs[k].kind = "flyield" /\ gs[k].own = u
    <3>1. ASSUME NEW u \in s
          PROVE  \E k \in 2..n+1 : gs[k].kind = "flyield" /\ gs[k].own = u
      <4>1. PICK k \in 2..n : fs[k].kind = "flyield" /\ fs[k].own = u
        BY <2>1
      <4>2. k \in 2..n+1 /\ k \in 1..n
        OBVIOUS
      <4> QED BY <4>1, <4>2
    <3>2. n+1 \in 2..n+1
      OBVIOUS
    <3> QED BY <3>1, <3>2
  <2>4. ASSUME NEW j \in 1..n
        PROVE  (j # n => es[j].own # r) /\ es[j].by # r
    <3>1. j # n => j \in 1..n-1
      OBVIOUS
    <3>2. es[j].by = Main \/ \E i \in 1..j-1 : es[i].own = es[j].by
      BY <1>1 DEF MadeOK
    <3>3. \A i \in 1..j-1 : i \in 1..n-1
      OBVIOUS
    <3> QED BY <3>1, <3>2, <3>3
  <2>5. ASSUME NEW k \in 1..n+1, gs[k].kind = "flyield"
        PROVE  /\ gs[k].own \in s \cup {r}
               /\ \A j \in 1..n : /\ j # k-1 => es[j].own # gs[k].own
                                  /\ es[j].by # gs[k].own
    <3>1. CASE k = n+1
      BY <2>4, <3>1
    <3>2. CASE k \in 1..n
      BY <2>1, <2>5, <3>2
    <3> QED BY <1>5, <3>1, <3>2
  <2> QED BY <1>4, <2>1, <2>2, <2>3, <2>5 DEF SuspendedOK
<1> QED BY <1>1, <1>6, <1>7, <1>8 DEF ThreadsOK

(* AS3 code that Lua called is done, or a tick resumes thread q.           *)
LEMMA PopThreads ==
  ASSUME NEW fs, NEW es, NEW r, NEW s, NEW gs, NEW q, NEW n \in Nat, n > 0,
         ThreadsOK(fs, es, r, s),
         Len(fs) = n + 1, Len(es) = n, Len(gs) = n,
         \A i \in 1..n : gs[i] = fs[i],
         fs[n+1].own = q, fs[n+1].kind # "flyield" => q = r,
         NEW z, z = IF fs[n+1].kind = "flyield" THEN s \ {q} ELSE s
  PROVE  ThreadsOK(gs, es, q, z)
<1>1. MadeOK(es) /\ OwnersOK(fs, es) /\ RunningOK(fs, es, r)
      /\ SuspendedOK(fs, es, r, s)
  BY DEF ThreadsOK
<1>2. /\ r \notin s
      /\ \A u \in s : \E k \in 2..n+1 : fs[k].kind = "flyield" /\ fs[k].own = u
      /\ \A k \in 1..n+1 : fs[k].kind = "flyield" =>
           /\ fs[k].own \in s
           /\ \A j \in 1..n : /\ j # k-1 => es[j].own # fs[k].own
                              /\ es[j].by # fs[k].own
  BY <1>1 DEF SuspendedOK
<1>3. n+1 \in 2..n+1 /\ n+1 \in 1..n+1 /\ (n+1)-1 = n /\ n \in 1..n
  OBVIOUS
<1>4. es[n].own = q
  <2>1. fs[n+1].own = es[(n+1)-1].own
    BY <1>1, <1>3 DEF OwnersOK
  <2> QED BY <1>3, <2>1
<1>5. OwnersOK(gs, es)
  <2>1. \A i \in 2..n : i \in 2..n+1 /\ i \in 1..n
    OBVIOUS
  <2> QED BY <1>1, <2>1 DEF OwnersOK
<1>6. RunningOK(gs, es, q)
  BY <1>3, <1>4 DEF RunningOK
<1>7. \A k \in 2..n+1 : k = n+1 \/ k \in 2..n
  OBVIOUS
<1>8. SuspendedOK(gs, es, q, z)
  <2>1. q \notin z
    <3>1. CASE fs[n+1].kind = "flyield"
      BY <3>1
    <3>2. CASE fs[n+1].kind # "flyield"
      BY <1>2, <3>2
    <3> QED BY <3>1, <3>2
  <2>2. ASSUME NEW u \in z
        PROVE  \E k \in 2..n : gs[k].kind = "flyield" /\ gs[k].own = u
    <3>1. PICK k \in 2..n+1 : fs[k].kind = "flyield" /\ fs[k].own = u
      BY <1>2
    <3>2. k # n+1
      BY <3>1, <2>1
    <3>3. k \in 2..n /\ k \in 1..n
      BY <1>7, <3>2
    <3> QED BY <3>1, <3>3
  <2>3. ASSUME NEW k \in 1..n, gs[k].kind = "flyield"
        PROVE  /\ gs[k].own \in z
               /\ \A j \in 1..n : /\ j # k-1 => es[j].own # gs[k].own
                                  /\ es[j].by # gs[k].own
    <3>1. k \in 1..n+1 /\ n # k-1
      OBVIOUS
    <3>2. /\ fs[k].own \in s /\ gs[k] = fs[k]
          /\ \A j \in 1..n : /\ j # k-1 => es[j].own # fs[k].own
                             /\ es[j].by # fs[k].own
      BY <1>2, <2>3, <3>1
    <3>3. fs[k].own # q
      BY <1>3, <1>4, <3>1, <3>2
    <3> QED BY <3>2, <3>3
  <2> QED BY <2>1, <2>2, <2>3 DEF SuspendedOK
<1> QED BY <1>1, <1>5, <1>6, <1>8 DEF ThreadsOK

(* The first of some numbers. *)
LEMMA SmallestLemma ==
  ASSUME NEW S \in SUBSET Nat, S # {}
  PROVE  \E m \in S : \A k \in S : m <= k
<1> DEFINE R == OpToRel(<, Nat)
<1>1. IsWellFoundedOn(R, Nat)
  BY NatLessThanWellFounded
<1>2. \A a, b \in Nat : a < b => <<a, b>> \in R
  BY DEF OpToRel
<1> HIDE DEF R
<1>3. PICK m \in S : \A k \in S : ~(<<k, m>> \in R)
  BY <1>1, WFMin
<1>4. \A k \in S : ~(k < m)
  BY <1>2, <1>3
<1>5. \A k \in S : m <= k
  BY <1>4
<1> QED BY <1>5

(* An error jumps over entries of setGlobal only: all frames above the     *)
(* pcall are of the thread that runs, and none is suspended.               *)
LEMMA ThrowThreads ==
  ASSUME NEW fs, NEW es, NEW r, NEW s, NEW gs, NEW ds,
         NEW n \in Nat, NEW m \in Nat, NEW i \in 1..n,
         ThreadsOK(fs, es, r, s), Len(fs) = m, Len(es) = n, m = n \/ m = n + 1,
         Len(gs) = i, Len(ds) = i,
         \A k \in 1..i : gs[k] = fs[k] /\ ds[k] = es[k],
         es[i].own = r, \A k \in i+1..n : es[k].kind = "setGlobal"
  PROVE  ThreadsOK(gs, ds, r, s)
<1>1. MadeOK(es) /\ OwnersOK(fs, es) /\ RunningOK(fs, es, r)
      /\ SuspendedOK(fs, es, r, s)
  BY DEF ThreadsOK
<1>2. /\ r \notin s
      /\ \A u \in s : \E k \in 2..m : fs[k].kind = "flyield" /\ fs[k].own = u
      /\ \A k \in 1..m : fs[k].kind = "flyield" =>
           /\ fs[k].own \in s
           /\ \A j \in 1..n : /\ j # k-1 => es[j].own # fs[k].own
                              /\ es[j].by # fs[k].own
  BY <1>1 DEF SuspendedOK
<1>3. \A k \in i+1..m : fs[k].own = r
  <2> DEFINE W == {k \in i+1..m : fs[k].own # r}
  <2> SUFFICES ASSUME W # {} PROVE FALSE
    OBVIOUS
  <2>1. W \in SUBSET Nat
    OBVIOUS
  <2>2. PICK k \in W : \A j \in W : k <= j
    <3> HIDE DEF W
    <3> QED BY <2>1, SmallestLemma
  <2>3. k \in i+1..m /\ fs[k].own # r
    BY <2>2
  <2>4. k \in 2..m /\ k-1 \in 1..n /\ k-1 \in 1..m
    BY <2>3
  <2>5. fs[k].own = es[k-1].own
    BY <1>1, <2>4 DEF OwnersOK
  <2>6. CASE k = i+1
    <3>1. k-1 = i
      BY <2>6
    <3> QED BY <2>3, <2>5, <3>1
  <2>7. CASE k # i+1
    <3>1. k-1 \in i+1..n /\ k-1 \in i+1..m /\ ~(k <= k-1)
      BY <2>3, <2>4, <2>7
    <3>2. fs[k-1].own = r
      BY <2>2, <3>1
    <3>3. fs[k-1].kind # "flyield"
      BY <1>2, <2>4, <3>2
    <3>4. es[k-1].by = fs[k-1].own
      BY <1>1, <2>4, <3>3 DEF OwnersOK
    <3>5. es[k-1].own = es[k-1].by
      <4>1. es[k-1].kind # "chunk"
        BY <3>1
      <4> QED BY <1>1, <2>4, <4>1 DEF MadeOK
    <3> QED BY <2>3, <2>5, <3>2, <3>4, <3>5
  <2> QED BY <2>6, <2>7
<1>4. MadeOK(ds)
  <2>1. i \in Nat /\ i <= Len(es)
    OBVIOUS
  <2> QED BY <1>1, <2>1, PrefixMade
<1>5. OwnersOK(gs, ds)
  <2>1. ASSUME NEW k \in 2..i
        PROVE  gs[k].own = ds[k-1].own /\ gs[k].kind # "host"
    <3>1. k \in 1..i /\ k-1 \in 1..i /\ k \in 2..m
      OBVIOUS
    <3> QED BY <1>1, <3>1 DEF OwnersOK
  <2>2. ASSUME NEW k \in 1..i, gs[k].kind # "flyield"
        PROVE  ds[k].by = gs[k].own
    <3>1. k \in 1..n
      OBVIOUS
    <3> QED BY <1>1, <2>2, <3>1 DEF OwnersOK
  <2> QED BY <2>1, <2>2 DEF OwnersOK
<1>6. RunningOK(gs, ds, r)
  <2>1. i \in 1..i /\ ds[i].own = r
    OBVIOUS
  <2> QED BY <2>1 DEF RunningOK
<1>7. SuspendedOK(gs, ds, r, s)
  <2>1. ASSUME NEW u \in s
        PROVE  \E k \in 2..i : gs[k].kind = "flyield" /\ gs[k].own = u
    <3>1. PICK k \in 2..m : fs[k].kind = "flyield" /\ fs[k].own = u
      BY <1>2
    <3>2. k \notin i+1..m
      BY <1>2, <1>3, <3>1
    <3>3. k \in 2..i /\ k \in 1..i
      BY <3>2
    <3> QED BY <3>1, <3>3
  <2>2. \A k \in 1..i : k \in 1..m /\ k \in 1..n
    OBVIOUS
  <2> QED BY <1>2, <2>1, <2>2 DEF SuspendedOK
<1> QED BY <1>4, <1>5, <1>6, <1>7 DEF ThreadsOK

----------------------------------------------------------------------------
(* Each action keeps the threads right.                                    *)

(* What goes on goes wrong in neither way. *)
LEMMA GoesOn ==
  ASSUME halt' \notin {"crossed", "misyield"},
         halt' = "no" => ThreadsOK(frames', entries', running', suspended')
  PROVE  ThreadsInv'
BY DEF ThreadsInv, OneAsyncCallIsSafe

LEMMA AppendAny ==
  ASSUME NEW S, NEW s \in Seq(S), NEW e
  PROVE  /\ Len(Append(s, e)) = Len(s) + 1
         /\ Append(s, e)[Len(s) + 1] = e
         /\ \A i \in 1..Len(s) : Append(s, e)[i] = s[i]
<1>1. s \in Seq(S \cup {e})
  <2>1. Len(s) \in Nat /\ s = [i \in 1..Len(s) |-> s[i]]
        /\ \A i \in 1..Len(s) : s[i] \in S \cup {e}
    BY LenProperties, ElementOfSeq
  <2> QED BY <2>1, IsASeq
<1>2. e \in S \cup {e}
  OBVIOUS
<1> QED BY <1>1, <1>2, AppendProperties

(* The C API changes neither whose a frame is nor what made it. *)
LEMMA SetTopOwners ==
  ASSUME IInv, IInv', NEW s, frames' = SetSlots(frames, s)
  PROVE  /\ Len(frames') = Len(frames)
         /\ \A i \in 1..Len(frames) : /\ frames'[i].own = frames[i].own
                                      /\ frames'[i].kind = frames[i].kind
<1>1. frames \in Seq(Frame) /\ frames' \in Seq(Frame)
  BY DEF IInv, StackOK
<1>2. /\ DOMAIN frames = 1..Len(frames) /\ Len(frames) \in Nat
      /\ DOMAIN frames' = 1..Len(frames') /\ Len(frames') \in Nat
  BY <1>1, LenProperties
<1>3. DOMAIN frames' = DOMAIN frames
  BY DEF SetSlots
<1>4. Len(frames') = Len(frames)
  <2>1. ASSUME NEW a \in Nat, NEW b \in Nat, 1..a = 1..b PROVE a = b
    <3>1. a > 0 => a \in 1..b
      BY <2>1
    <3>2. b > 0 => b \in 1..a
      BY <2>1
    <3> QED BY <3>1, <3>2
  <2>2. 1..Len(frames') = 1..Len(frames)
    BY <1>2, <1>3
  <2> QED BY <1>2, <2>1, <2>2
<1>5. ASSUME NEW i \in 1..Len(frames)
      PROVE  frames'[i].own = frames[i].own /\ frames'[i].kind = frames[i].kind
  <2>1. frames[i] \in Frame
    BY <1>1, ElementOfSeq
  <2>2. frames'[i] = IF i = Len(frames)
                     THEN [frames[i] EXCEPT !.slots = s] ELSE frames[i]
    BY <1>2 DEF SetSlots
  <2> QED BY <2>1, <2>2 DEF Frame
<1> QED BY <1>4, <1>5

LEMMA MakeEntry ==
  ASSUME IInv, IInv', ThreadsInv, AS3Runs, NEW s, NEW e,
         frames' = SetSlots(frames, s), entries' = Append(entries, e),
         e.by = running, running' = e.own,
         UNCHANGED <<suspended, halt>>,
         \/ e.own = running
         \/ e.kind = "chunk" /\ e.own \in Async /\ ~Running(e.own),
         e.kind = "callGlobal" => ~e.async,
         e.kind = "chunk" /\ e.async => e.own \in Async /\ ~Running(e.own)
  PROVE  ThreadsInv'
<1> DEFINE n == Len(frames)
<1>1. /\ Len(frames') = n
      /\ \A i \in 1..n : /\ frames'[i].own = frames[i].own
                         /\ frames'[i].kind = frames[i].kind
  BY SetTopOwners
<1>2. /\ halt = "no" /\ Len(entries) = n-1 /\ n \in Nat /\ n > 0
      /\ entries \in Seq(Entry) /\ suspended \subseteq Async
  BY TopFacts, ThreadFacts DEF AS3Runs
<1>3. /\ Len(entries') = n /\ entries'[n] = e
      /\ \A i \in 1..n-1 : entries'[i] = entries[i]
  BY <1>2, AppendAny
<1>4. ThreadsOK(frames, entries, running, suspended)
  BY <1>2 DEF ThreadsInv
<1> HIDE DEF n
<1>5. ~Running(e.own) => \A i \in 1..n-1 : entries[i].own # e.own
  BY <1>2 DEF Running
<1>6. ThreadsOK(frames', entries', e.own, suspended)
  <2>1. Len(frames) = n
    BY DEF n
  <2> DEFINE fs == frames  es == entries  gs == frames'  ds == entries'
  <2>2. /\ ThreadsOK(fs, es, running, suspended)
        /\ Len(fs) = n /\ Len(es) = n-1 /\ Len(gs) = n /\ Len(ds) = n
        /\ \A i \in 1..n : gs[i].own = fs[i].own /\ gs[i].kind = fs[i].kind
        /\ \A i \in 1..n-1 : ds[i] = es[i]
        /\ ds[n].by = running
        /\ \/ ds[n].own = running
           \/ /\ ds[n].kind = "chunk" /\ ds[n].own \in Async
              /\ \A i \in 1..n-1 : es[i].own # ds[n].own
        /\ ds[n].kind = "callGlobal" => ~ds[n].async
        /\ ds[n].kind = "chunk" /\ ds[n].async =>
             /\ ds[n].own \in Async
             /\ \A i \in 1..n-1 : es[i].own # ds[n].own
        /\ ds[n].own = e.own
    BY <1>1, <1>2, <1>3, <1>4, <1>5, <2>1
  <2> HIDE DEF fs, es, gs, ds
  <2>3. ThreadsOK(gs, ds, ds[n].own, suspended)
    BY <1>2, <2>2, EnterThreads
  <2> QED BY <2>2, <2>3 DEF gs, ds
<1> QED BY <1>2, <1>6, GoesOn

LEMMA EntryThreads ==
  ASSUME IInv, IInv', ThreadsInv,
         \/ \E isAsync \in BOOLEAN : RunChunk(isAsync)
         \/ callGlobal \/ setGlobal \/ as3_lua_callback
  PROVE  ThreadsInv'
<1>1. ASSUME NEW t \in Owner, NEW kind \in EntryKind, NEW flag \in BOOLEAN,
             NEW pushed, NEW narg, Enter(t, kind, flag, pushed, narg),
             \/ kind = "chunk" /\ Start(t, flag)
             \/ kind = "callGlobal" /\ ~flag /\ t = running /\ Start(t, FALSE)
             \/ kind = "callback" /\ t = running /\ Start(t, FALSE)
      PROVE  ThreadsInv'
  <2> DEFINE s == PcallBegin(pushed, narg)
             e == [own |-> t, by |-> running, kind |-> kind, async |-> flag,
                   old |-> get_async_state, base |-> Len(Top),
                   pbase |-> HandlerIndex(pushed, narg)]
  <2>1. /\ frames' = SetSlots(frames, s) /\ entries' = Append(entries, e)
        /\ UNCHANGED <<suspended, halt>>
    BY <1>1 DEF Enter, SetTop, SetSlots
  <2>2. /\ e.own = t /\ e.by = running /\ e.kind = kind /\ e.async = flag
    OBVIOUS
  <2>3. AS3Runs /\ running' = t
    BY <1>1 DEF Start, StartAsync, StartSync
  <2>4. /\ t = running \/ (kind = "chunk" /\ t \in Async /\ ~Running(t))
        /\ kind = "chunk" /\ flag => t \in Async /\ ~Running(t)
    BY <1>1 DEF Start, StartAsync, StartSync
  <2>5. kind = "callGlobal" => ~flag
    BY <1>1
  <2> HIDE DEF s, e
  <2> QED BY <2>1, <2>2, <2>3, <2>4, <2>5, MakeEntry
<1>2. CASE \E isAsync \in BOOLEAN : RunChunk(isAsync)
  <2>1. PICK isAsync \in BOOLEAN, t \in Owner :
          /\ Start(t, isAsync)
          /\ Enter(t, "chunk", isAsync, Push(Top, <<"true", "fn">>), 0)
    BY <1>2 DEF RunChunk
  <2>2. "chunk" \in EntryKind
    BY DEF EntryKind
  <2> QED BY <1>1, <2>1, <2>2
<1>3. running \in Owner /\ FALSE \in BOOLEAN /\ get_async_state \in BOOLEAN
  BY DEF IInv, OthersOK, get_async_state
<1>4. CASE callGlobal
  <2>1. PICK n \in 0..MaxArgs :
          /\ Start(running, FALSE)
          /\ Enter(running, "callGlobal", FALSE,
                   Push(Top, <<"true", "fn">> \o Args(n)), n)
    BY <1>4 DEF callGlobal
  <2>2. "callGlobal" \in EntryKind
    BY DEF EntryKind
  <2> QED BY <1>1, <1>3, <2>1, <2>2
<1>5. CASE as3_lua_callback
  <2>1. PICK n \in 0..MaxArgs :
          /\ Start(running, FALSE)
          /\ Enter(running, "callback", get_async_state,
                   Push(Top, <<"callbacks", "holder", "fn">> \o Args(n)), n)
    BY <1>5 DEF as3_lua_callback
  <2>2. "callback" \in EntryKind
    BY DEF EntryKind
  <2> QED BY <1>1, <1>3, <2>1, <2>2
<1>6. CASE setGlobal
  <2> DEFINE s == Push(Top, <<"value">>)
             e == [own |-> running, by |-> running, kind |-> "setGlobal",
                   async |-> is_async, old |-> is_async, base |-> Len(Top),
                   pbase |-> 0]
  <2>1. /\ frames' = SetSlots(frames, s) /\ entries' = Append(entries, e)
        /\ UNCHANGED <<suspended, halt>>
        /\ AS3Runs /\ running' = running
    BY <1>6 DEF setGlobal, SetTop, SetSlots, Start, StartSync
  <2>2. e.own = running /\ e.by = running /\ e.kind = "setGlobal"
    OBVIOUS
  <2> HIDE DEF s, e
  <2> QED BY <2>1, <2>2, MakeEntry
<1> QED BY <1>2, <1>4, <1>5, <1>6

LEMMA EndEntry ==
  ASSUME IInv, IInv', ThreadsInv, LuaRuns, NEW s,
         frames' = SetSlots(frames, s), entries' = Front(entries),
         running' = (IF /\ entries[Len(entries)].own # Main
                        /\ OnlyEntry(entries[Len(entries)].own)
                     THEN Caller ELSE running),
         suspended' = suspended, halt' \notin {"crossed", "misyield"}
  PROVE  ThreadsInv'
<1> DEFINE n == Len(frames)
<1>1. /\ Len(frames') = n
      /\ \A i \in 1..n : /\ frames'[i].own = frames[i].own
                         /\ frames'[i].kind = frames[i].kind
  BY SetTopOwners
<1>2. /\ halt = "no" /\ Len(entries) = n /\ n \in Nat /\ n > 0
      /\ entries \in Seq(Entry) /\ suspended \subseteq Async /\ Main \notin Async
  BY TopFacts, ThreadFacts DEF LuaRuns
<1>3. Len(entries') = n-1 /\ \A i \in 1..n-1 : entries'[i] = entries[i]
  BY <1>2, FrontLemma
<1>4. ThreadsOK(frames, entries, running, suspended)
  BY <1>2 DEF ThreadsInv
<1>5. Len(frames) = n
  OBVIOUS
<1> HIDE DEF n
<1> DEFINE fs == frames  es == entries  gs == frames'  ds == entries'
           q == running'
<1>6. /\ ThreadsOK(fs, es, running, suspended)
      /\ Len(fs) = n /\ Len(es) = n /\ Len(gs) = n /\ Len(ds) = n-1
      /\ \A i \in 1..n : gs[i].own = fs[i].own /\ gs[i].kind = fs[i].kind
      /\ \A i \in 1..n-1 : ds[i] = es[i]
      /\ q = IF es[n].own # Main /\ (\A i \in 1..n-1 : es[i].own # es[n].own)
             THEN es[n].by ELSE running
  BY <1>1, <1>2, <1>3, <1>4, <1>5 DEF Caller, OnlyEntry
<1> HIDE DEF fs, es, gs, ds, q
<1>7. ThreadsOK(gs, ds, q, suspended)
  BY <1>2, <1>6, LeaveThreads
<1>8. ThreadsOK(frames', entries', running', suspended')
  BY <1>7 DEF gs, ds, q
<1> QED BY <1>8, GoesOn

LEMMA LeaveEntryThreads ==
  ASSUME IInv, IInv', ThreadsInv,
         SetGlobalReturns \/ \E out : \E failed \in BOOLEAN : Leave(out, failed)
  PROVE  ThreadsInv'
<1>1. CASE SetGlobalReturns
  <2> DEFINE n == Len(entries)
             e == entries[n]
  <2>1. /\ LuaRuns /\ e.kind = "setGlobal"
        /\ frames' = SetSlots(frames, Front(Top)) /\ entries' = Front(entries)
        /\ UNCHANGED <<running, suspended, halt>>
    BY <1>1 DEF SetGlobalReturns, SetTop, SetSlots
  <2>2. n \in Nat /\ n > 0 /\ halt = "no" /\ Len(frames) = n
    BY <2>1, TopFacts DEF LuaRuns
  <2>3. ThreadsOK(frames, entries, running, suspended)
    BY <2>2 DEF ThreadsInv
  <2>4. n \in 1..Len(entries)
    BY <2>2
  <2>5. e.own = e.by
    BY <2>1, <2>3, <2>4 DEF ThreadsOK, MadeOK
  <2>6. e.own = running
    BY <2>2, <2>3 DEF ThreadsOK, RunningOK
  <2>7. running' = IF e.own # Main /\ OnlyEntry(e.own) THEN Caller ELSE running
    BY <2>1, <2>5, <2>6 DEF Caller
  <2>8. halt' \notin {"crossed", "misyield"}
    BY <2>1, <2>2
  <2> QED BY <2>1, <2>7, <2>8, EndEntry
<1>2. ASSUME NEW out, NEW failed \in BOOLEAN, Leave(out, failed)
      PROVE  ThreadsInv'
  <2> DEFINE e == entries[Len(entries)]
             slots == PcallEnd(Top, e.pbase, out)
             s == Left(e, slots, failed)
  <2>1. /\ LuaRuns /\ frames' = SetSlots(frames, s)
        /\ entries' = Front(entries)
        /\ running' = IF e.own # Main /\ OnlyEntry(e.own)
                      THEN Caller ELSE running
        /\ suspended' = suspended
        /\ halt' = IF failed /\ Len(slots) # e.pbase + 1
                   THEN "unbalanced" ELSE "no"
    BY <1>2 DEF Leave, SetTop, SetSlots
  <2> HIDE DEF slots, s
  <2>2. halt' \notin {"crossed", "misyield"}
    BY <2>1
  <2> QED BY <2>1, <2>2, EndEntry
<1> QED BY <1>1, <1>2

LEMMA CallThreads ==
  ASSUME IInv, ThreadsInv, as3_call \/ as3_access
  PROVE  ThreadsInv'
<1>1. PICK f :
        /\ LuaRuns /\ frames' = Append(frames, f)
        /\ f.own = running /\ f.kind \in {"call", "access"}
        /\ UNCHANGED <<entries, running, suspended, halt>>
  <2>1. ASSUME NEW kind, NEW n, NEW slots, PushFrame(kind, n, slots)
        PROVE  \E f : /\ frames' = Append(frames, f) /\ f.own = running
                      /\ f.kind = kind /\ entries' = entries
    BY <2>1 DEF PushFrame
  <2>2. CASE as3_call
    BY <2>1, <2>2 DEF as3_call
  <2>3. CASE as3_access
    BY <2>1, <2>3 DEF as3_access
  <2> QED BY <2>2, <2>3
<1> DEFINE n == Len(frames)
<1>2. /\ halt = "no" /\ Len(entries) = n /\ n \in Nat /\ n > 0
      /\ frames \in Seq(Frame)
  BY <1>1, TopFacts DEF LuaRuns
<1>3. /\ Len(frames') = n + 1 /\ frames'[n+1] = f
      /\ \A i \in 1..n : frames'[i] = frames[i]
  BY <1>1, <1>2, AppendAny
<1>4. ThreadsOK(frames, entries, running, suspended)
  BY <1>2 DEF ThreadsInv
<1>5. Len(frames) = n /\ f.kind \notin {"host", "flyield"}
  BY <1>1
<1> HIDE DEF n
<1>6. ThreadsOK(frames', entries, running, suspended)
  BY <1>1, <1>2, <1>3, <1>4, <1>5, PushThreads
<1> QED BY <1>1, <1>2, <1>6, GoesOn

(* flyield() under a synchronous AS3 caller.                               *)
LEMMA FlyieldThreads ==
  ASSUME IInv, FlagInv, ThreadsInv, as3_flyield
  PROVE  ThreadsInv'
<1> DEFINE n == Len(frames)
           e == entries[n]
<1>1. PICK k : PushFrame("flyield", k, Args(k)) /\ LuaRuns /\ get_async_state
        /\ IF MayYield
           THEN /\ suspended' = suspended \cup {running}
                /\ running' = Caller
                /\ UNCHANGED halt
           ELSE /\ halt' = "misyield"
                /\ UNCHANGED <<suspended, running>>
  BY DEF as3_flyield
<1>2. PICK f :
        /\ frames' = Append(frames, f) /\ f.own = running
        /\ f.kind = "flyield" /\ UNCHANGED <<entries, as3Global>>
  BY <1>1 DEF PushFrame
<1>3. /\ halt = "no" /\ Len(entries) = n /\ n \in Nat /\ n > 0 /\ n \in 1..n
      /\ frames \in Seq(Frame) /\ suspended \subseteq Async /\ Main \notin Async
  BY <1>1, TopFacts, ThreadFacts DEF LuaRuns
<1>4. ThreadsOK(frames, entries, running, suspended)
  BY <1>3 DEF ThreadsInv
<1>5. e.own = running
  BY <1>3, <1>4 DEF ThreadsOK, RunningOK
<1>6. CASE MayYield
  <2>1. /\ Len(frames') = n + 1 /\ frames'[n+1] = f
        /\ \A i \in 1..n : frames'[i] = frames[i]
    BY <1>2, <1>3, AppendAny
  <2>2. running # Main /\ \A i \in 1..n-1 : entries[i].own # running
    BY <1>3, <1>6 DEF MayYield, OnlyEntry
  <2>3. running' = e.by /\ suspended' = suspended \cup {running} /\ halt' = "no"
    BY <1>1, <1>3, <1>6 DEF Caller
  <2>4. Len(frames) = n
    OBVIOUS
  <2> HIDE DEF n
  <2>5. ThreadsOK(frames', entries, entries[n].by, suspended \cup {running})
    BY <1>2, <1>3, <1>4, <2>1, <2>2, <2>4, YieldThreads
  <2> QED BY <1>2, <2>3, <2>5, GoesOn
<1>7. CASE ~MayYield
  <2>1. halt' = "misyield"
    BY <1>1, <1>7
  <2>2. ASSUME as3Global' = "ours"
        PROVE  entries[n].async /\ entries[n].kind \in {"callback", "setGlobal"}
    <3>1. is_async
      BY <1>1 DEF get_async_state
    <3>2. e.async
      BY <1>2, <1>3, <2>2, <3>1 DEF FlagInv, Mode
    <3>3. e.kind \in EntryKind
      <4>1. entries \in Seq(Entry) /\ n \in 1..Len(entries)
        BY <1>3, TopFacts
      <4> HIDE DEF n
      <4>2. entries[n] \in Entry
        BY <4>1, ElementOfSeq
      <4> QED BY <4>2 DEF Entry
    <3>4. /\ e.kind = "callGlobal" => ~e.async
          /\ e.kind = "chunk" /\ e.async => First(entries, n)
      BY <1>3, <1>4 DEF ThreadsOK, MadeOK
    <3>5. e.kind # "chunk"
      <4> SUFFICES ASSUME e.kind = "chunk" PROVE FALSE
        OBVIOUS
      <4>1. First(entries, n)
        BY <3>2, <3>4
      <4>2. running # Main /\ OnlyEntry(running)
        BY <1>3, <1>5, <4>1 DEF First, OnlyEntry
      <4> QED BY <1>7, <4>2 DEF MayYield
    <3> QED BY <3>2, <3>3, <3>4, <3>5 DEF EntryKind
  <2>3. as3Global' = "ours" =>
          \E i \in 1..Len(entries') :
            entries'[i].async /\ entries'[i].kind \in {"callback", "setGlobal"}
    BY <1>2, <1>3, <2>2
  <2> QED BY <2>1, <2>3 DEF ThreadsInv, OneAsyncCallIsSafe
<1> QED BY <1>6, <1>7

(* The frame on top is gone, and its thread goes on.                       *)
LEMMA ReturnThreads ==
  ASSUME IInv, ThreadsInv, AS3Runs, frames' = Front(frames), entries' = entries,
         frames[Len(frames)].own = running', Len(entries) > 0,
         frames[Len(frames)].kind # "flyield" => running' = running,
         suspended' = (IF frames[Len(frames)].kind = "flyield"
                       THEN suspended \ {running'} ELSE suspended),
         halt' \notin {"crossed", "misyield"}
  PROVE  ThreadsInv'
<1> DEFINE n == Len(entries)
<1>1. /\ halt = "no" /\ n \in Nat /\ Len(frames) = n + 1
      /\ frames \in Seq(Frame)
  BY TopFacts DEF AS3Runs
<1>2. Len(frames') = n /\ \A i \in 1..n : frames'[i] = frames[i]
  BY <1>1, FrontLemma
<1>3. ThreadsOK(frames, entries, running, suspended)
  BY <1>1 DEF ThreadsInv
<1>4. Len(entries) = n /\ n > 0
  OBVIOUS
<1> HIDE DEF n
<1> DEFINE q == running'
<1>5. /\ frames[n+1].own = q
      /\ frames[n+1].kind # "flyield" => q = running
      /\ suspended' = IF frames[n+1].kind = "flyield"
                      THEN suspended \ {q} ELSE suspended
  BY <1>1
<1> HIDE DEF q
<1>6. ThreadsOK(frames', entries, q, suspended')
  BY <1>1, <1>2, <1>3, <1>4, <1>5, PopThreads
<1>7. ThreadsOK(frames', entries', running', suspended')
  BY <1>5, <1>6 DEF q
<1> QED BY <1>7, GoesOn

LEMMA AS3ReturnsThreads ==
  ASSUME IInv, ThreadsInv, AS3Returns
  PROVE  ThreadsInv'
<1> DEFINE f == frames[Len(frames)]
<1>1. /\ AS3Runs /\ f.own = running /\ f.kind \in {"call", "access"}
      /\ IF Len(f.slots) = Height(f)
         THEN frames' = Front(frames) /\ UNCHANGED halt
         ELSE halt' = "unbalanced" /\ UNCHANGED frames
      /\ UNCHANGED <<entries, running, suspended>>
  BY DEF AS3Returns
<1>2. Len(f.slots) = Height(f)
  BY <1>1, AboveHost
<1>3. frames' = Front(frames) /\ halt' = halt
  BY <1>1, <1>2
<1>4. Len(entries) > 0 /\ halt = "no"
  BY <1>1, TopFacts, ThreadFacts DEF AS3Runs
<1>5. f.kind # "flyield"
  BY <1>1
<1> HIDE DEF f
<1>6. /\ frames[Len(frames)].own = running'
      /\ frames[Len(frames)].kind # "flyield"
      /\ suspended' = suspended /\ running' = running
      /\ halt' \notin {"crossed", "misyield"}
  BY <1>1, <1>3, <1>4, <1>5 DEF f
<1> QED BY <1>1, <1>3, <1>4, <1>6, ReturnThreads

LEMMA ResumeThreads ==
  ASSUME IInv, ThreadsInv, NEW t \in Async, Resume(t)
  PROVE  ThreadsInv'
<1> DEFINE m == Len(frames)
           f == frames[m]
<1>1. /\ AS3Runs /\ running = Main /\ ~Running(Main) /\ t \in suspended
      /\ IF f.own = t
         THEN /\ frames' = Front(frames)
              /\ running' = t
              /\ suspended' = suspended \ {t}
              /\ halt' = IF Len(f.slots) = Height(f)
                         THEN "no" ELSE "unbalanced"
         ELSE /\ halt' = "crossed"
              /\ UNCHANGED <<frames, running, suspended>>
      /\ entries' = entries
  BY DEF Resume, FlashIdle
<1>2. /\ halt = "no" /\ m \in Nat /\ m > 0 /\ Len(entries) = m-1
      /\ entries \in Seq(Entry)
      /\ frames[1].own = Main /\ frames[1].kind = "host"
      /\ Main \notin Async /\ t # Main
  BY <1>1, TopFacts, ThreadFacts DEF AS3Runs
<1>3. ThreadsOK(frames, entries, running, suspended)
  BY <1>2 DEF ThreadsInv
<1>4. /\ \A i \in 2..m : frames[i].own = entries[i-1].own
      /\ \A k \in 1..m : frames[k].kind = "flyield" =>
           \A j \in 1..m-1 : j # k-1 => entries[j].own # frames[k].own
  BY <1>2, <1>3 DEF ThreadsOK, OwnersOK, SuspendedOK
<1>5. PICK k \in 2..m : frames[k].kind = "flyield" /\ frames[k].own = t
  BY <1>1, <1>3 DEF ThreadsOK, SuspendedOK
<1>6. k-1 \in 1..m-1 /\ entries[k-1].own = t /\ m-1 \in 1..m-1 /\ m > 1
      /\ m \in 2..m /\ m \in 1..m
  BY <1>2, <1>4, <1>5
<1>7. entries[m-1].own = f.own
  BY <1>4, <1>6
<1>8. CASE f.own = t
  <2>1. f.kind = "flyield"
    <3>1. CASE k = m
      BY <1>5, <3>1
    <3>2. CASE k # m
      <4>1. k \in 1..m /\ m-1 # k-1
        BY <1>2, <1>5, <3>2
      <4>2. entries[m-1].own # t
        BY <1>4, <1>5, <1>6, <4>1
      <4> QED BY <1>7, <1>8, <4>2
    <3> QED BY <3>1, <3>2
  <2>2. Len(entries) > 0
    BY <1>2, <1>6
  <2>3. /\ frames' = Front(frames) /\ running' = t
        /\ suspended' = suspended \ {t}
        /\ halt' = IF Len(f.slots) = Height(f) THEN "no" ELSE "unbalanced"
    BY <1>1, <1>8
  <2>4. halt' \notin {"crossed", "misyield"}
    BY <2>3
  <2> HIDE DEF f
  <2>5. /\ frames[Len(frames)].own = running'
        /\ frames[Len(frames)].kind = "flyield"
        /\ suspended' = suspended \ {running'}
    BY <1>8, <2>1, <2>3 DEF f
  <2> QED BY <1>1, <2>2, <2>3, <2>4, <2>5, ReturnThreads
<1>9. CASE f.own # t
  <2>1. halt' = "crossed" /\ entries' = entries /\ frames' = frames
    BY <1>1, <1>9
  <2>2. f.own \in Async
    <3>1. entries[m-1] \in Entry
      BY <1>2, <1>6, ElementOfSeq
    <3>2. f.own \in Owner
      BY <1>7, <3>1 DEF Entry
    <3>3. f.own # Main
      BY <1>1, <1>2, <1>6, <1>7 DEF Running
    <3> QED BY <3>2, <3>3 DEF Owner
  <2>3. Running(t) /\ Running(f.own)
    BY <1>2, <1>6, <1>7 DEF Running
  <2>4. /\ \E i \in 1..Len(entries') : entries'[i].own = t
        /\ \E i \in 1..Len(entries') : entries'[i].own = f.own
    BY <2>1, <2>3 DEF Running
  <2> HIDE DEF f
  <2>5. \E a, b \in Async : /\ a # b
                            /\ \E i \in 1..Len(entries') : entries'[i].own = a
                            /\ \E i \in 1..Len(entries') : entries'[i].own = b
    BY <1>9, <2>2, <2>4
  <2> QED BY <2>1, <2>5 DEF ThreadsInv, OneAsyncCallIsSafe, Running
<1> QED BY <1>8, <1>9

(* AS3 code finds its frame under another thread's: the frames above it    *)
(* were made where a thread started from Lua.                              *)
LEMMA CrossedThreads ==
  ASSUME IInv, ThreadsInv, AS3ReturnsCrossed
  PROVE  ThreadsInv'
<1> DEFINE m == Len(frames)
<1>1. /\ AS3Runs /\ frames[m].own # running /\ Running(running)
      /\ halt' = "crossed" /\ UNCHANGED <<frames, entries>>
  BY DEF AS3ReturnsCrossed
<1>2. /\ halt = "no" /\ m \in Nat /\ Len(entries) = m-1
      /\ frames[1].own = Main /\ suspended \subseteq Async /\ Main \notin Async
  BY <1>1, TopFacts, ThreadFacts DEF AS3Runs
<1>3. ThreadsOK(frames, entries, running, suspended)
  BY <1>2 DEF ThreadsInv
<1>4. /\ \A i \in 2..m : /\ frames[i].own = entries[i-1].own
                         /\ frames[i].kind # "host"
      /\ running \notin suspended
      /\ \A k \in 1..m : frames[k].kind = "flyield" => frames[k].own \in suspended
  BY <1>3 DEF ThreadsOK, OwnersOK, SuspendedOK
<1>5. PICK j \in 1..m-1 : entries[j].own = running
  BY <1>1, <1>2 DEF Running
<1> HIDE DEF m
<1> DEFINE W == {k \in j+2..m : frames[k].own # running}
<1>6. W # {} /\ W \in SUBSET Nat
  <2>1. frames[j+1].own = running
    <3>1. j+1 \in 2..m /\ (j+1)-1 = j
      BY <1>2
    <3> QED BY <1>4, <1>5, <3>1
  <2>2. m # j+1
    BY <1>1, <2>1
  <2>3. m \in j+2..m
    BY <1>2, <2>2
  <2> QED BY <1>1, <2>3
<1>7. PICK k \in W : \A i \in W : k <= i
  <2> HIDE DEF W
  <2> QED BY <1>6, SmallestLemma
<1>8. /\ k \in j+2..m /\ frames[k].own # running
      /\ k-1 \in j+1..m /\ k-1 \in 2..m /\ k-1 \in 1..m /\ k \in 2..m
      /\ k-1 \in 1..m-1 /\ (k-1)-1 \in 1..m-1
  BY <1>2, <1>7
<1>9. frames[k-1].own = running
  <2>1. CASE k = j+2
    <3>1. k-1 \in 2..m /\ (k-1)-1 = j
      BY <1>8, <2>1
    <3> QED BY <1>4, <1>5, <3>1
  <2>2. CASE k # j+2
    <3>1. k-1 \in j+2..m /\ ~(k <= k-1)
      BY <1>8, <2>2
    <3> QED BY <1>7, <3>1
  <2> QED BY <2>1, <2>2
<1>10. entries[k-1].own # frames[k-1].own
  BY <1>4, <1>8, <1>9
<1>11. frames[k-1].kind \notin {"host", "flyield"}
  BY <1>4, <1>8, <1>9
<1>12. \E i \in 1..Len(entries') :
         /\ entries'[i].own # frames'[i].own
         /\ frames'[i].kind \notin {"host", "flyield"}
  BY <1>1, <1>2, <1>8, <1>10, <1>11
<1> QED BY <1>1, <1>12 DEF ThreadsInv, OneAsyncCallIsSafe

LEMMA ErrorThreads ==
  ASSUME IInv, ThreadsInv, halt = "no", Throw
  PROVE  ThreadsInv'
<1>1. PICK i \in 0..Len(entries) :
        /\ Innermost(i)
        /\ IF i > 0 /\ entries[i].own = running
           THEN /\ entries' = SubSeq(entries, 1, i)
                /\ frames'  = SubSeq(frames, 1, i)
                /\ UNCHANGED halt
           ELSE /\ halt' = IF i = 0 THEN "panic" ELSE "astray"
                /\ UNCHANGED <<frames, entries>>
        /\ UNCHANGED <<running, suspended>>
  BY DEF Throw
<1> DEFINE n == Len(entries)
           m == Len(frames)
<1>2. /\ n \in Nat /\ m \in Nat /\ (m = n \/ m = n + 1)
      /\ frames \in Seq(Frame) /\ entries \in Seq(Entry)
  BY TopFacts, ThreadFacts
<1>3. CASE i > 0 /\ entries[i].own = running
  <2>1. i \in 1..n /\ i \in 0..Len(entries) /\ i \in 0..Len(frames)
    BY <1>2, <1>3
  <2>2. /\ Len(entries') = i /\ \A k \in 1..i : entries'[k] = entries[k]
        /\ Len(frames') = i /\ \A k \in 1..i : frames'[k] = frames[k]
    BY <1>1, <1>2, <1>3, <2>1, PrefixLemma
  <2>3. \A k \in i+1..n : entries[k].kind = "setGlobal"
    BY <1>1 DEF Innermost
  <2>4. ThreadsOK(frames, entries, running, suspended)
    BY DEF ThreadsInv
  <2>5. Len(entries) = n /\ Len(frames) = m
    OBVIOUS
  <2> HIDE DEF n, m
  <2>6. ThreadsOK(frames', entries', running, suspended)
    BY <1>2, <1>3, <2>1, <2>2, <2>3, <2>4, <2>5, ThrowThreads
  <2>7. running' = running /\ suspended' = suspended /\ halt' = "no"
    BY <1>1, <1>3
  <2> QED BY <2>6, <2>7, GoesOn
<1>4. CASE ~(i > 0 /\ entries[i].own = running)
  <2>1. halt' \in {"panic", "astray"}
    BY <1>1, <1>4
  <2> QED BY <2>1, GoesOn
<1> QED BY <1>3, <1>4

LEMMA LoadFailsThreads ==
  ASSUME IInv, IInv', ThreadsInv, LoadFails
  PROVE  ThreadsInv'
<1>1. PICK s : /\ frames' = SetSlots(frames, s) /\ halt = "no"
               /\ UNCHANGED <<entries, running, suspended, halt>>
  BY DEF LoadFails, SetTop, SetSlots, AS3Runs
<1> DEFINE n == Len(frames)
<1>2. /\ Len(frames') = n
      /\ \A i \in 1..n : /\ frames'[i].own = frames[i].own
                         /\ frames'[i].kind = frames[i].kind
  BY <1>1, SetTopOwners
<1>3. /\ MadeOK(entries) /\ OwnersOK(frames, entries)
      /\ RunningOK(frames, entries, running)
      /\ SuspendedOK(frames, entries, running, suspended)
  BY <1>1 DEF ThreadsInv, ThreadsOK
<1>4. /\ n \in Nat /\ n > 0 /\ Len(entries) \in Nat
      /\ n = Len(entries) \/ n = Len(entries) + 1
  BY ThreadFacts
<1>5. Len(frames) = n /\ n \in 1..n /\ \A i \in 2..n : i \in 1..n
  BY <1>4
<1> HIDE DEF n
<1>6. \A i \in 1..Len(entries) : i \in 1..n
  BY <1>4
<1>7. OwnersOK(frames', entries)
  BY <1>2, <1>3, <1>5, <1>6 DEF OwnersOK
<1>8. RunningOK(frames', entries, running)
  BY <1>2, <1>3, <1>5 DEF RunningOK
<1>9. SuspendedOK(frames', entries, running, suspended)
  BY <1>2, <1>3, <1>5 DEF SuspendedOK
<1> QED BY <1>1, <1>3, <1>7, <1>8, <1>9, GoesOn DEF ThreadsOK

LEMMA NextThreads ==
  ASSUME IInv, IInv', FlagInv, ThreadsInv, [Next]_vars
  PROVE  ThreadsInv'
<1>1. CASE \E isAsync \in BOOLEAN : doFileImpl(isAsync) \/ luaDoStringImpl(isAsync)
  BY <1>1, EntryThreads, LoadFailsThreads DEF doFileImpl, luaDoStringImpl
<1>2. CASE callGlobal \/ setGlobal \/ as3_lua_callback
  BY <1>2, EntryThreads
<1>3. CASE GlobalLookupRaises \/ SetGlobalRaises
  BY <1>3, ErrorThreads
     DEF GlobalLookupRaises, SetGlobalRaises, AS3Runs, LuaRuns
<1>4. CASE ScriptReturns
  <2>1. PICK out : Leave(out, FALSE)
    BY <1>4 DEF ScriptReturns
  <2>2. FALSE \in BOOLEAN
    OBVIOUS
  <2> QED BY <2>1, <2>2, LeaveEntryThreads, Zenon
<1>5. CASE ScriptFails
  <2>1. TRUE \in BOOLEAN
    OBVIOUS
  <2> QED BY <1>5, <2>1, LeaveEntryThreads, Zenon DEF ScriptFails
<1>6. CASE SetGlobalReturns
  BY <1>6, LeaveEntryThreads
<1>7. CASE as3_call \/ as3_access
  BY <1>7, CallThreads
<1>8. CASE as3_flyield
  BY <1>8, FlyieldThreads
<1>9. CASE HideAs3
  <2>1. UNCHANGED <<frames, entries, running, suspended, halt>> /\ halt = "no"
    BY <1>9 DEF HideAs3, LuaRuns
  <2> QED BY <2>1, GoesOn DEF ThreadsInv
<1>10. CASE AS3Returns
  BY <1>10, AS3ReturnsThreads
<1>11. CASE AS3ReturnsCrossed
  BY <1>11, CrossedThreads
<1>12. CASE \E t \in Async : Resume(t)
  BY <1>12, ResumeThreads
<1>13. CASE UNCHANGED vars
  BY <1>13 DEF vars, ThreadsInv, OneAsyncCallIsSafe, Running
<1>14. CASE Stopped
  BY <1>13, <1>14 DEF Stopped
<1> QED BY <1>1, <1>2, <1>3, <1>4, <1>5, <1>6, <1>7, <1>8, <1>9, <1>10, <1>11,
           <1>12, <1>13, <1>14 DEF Next

(* Whose the frames and entries are, and which threads wait, fit together  *)
(* until the program stops.                                                *)
THEOREM Threads == Spec => []ThreadsInv
<1>1. Init => ThreadsInv
  <2> SUFFICES ASSUME Init PROVE ThreadsInv
    OBVIOUS
  <2>1. /\ Len(entries) = 0 /\ Len(frames) = 1 /\ halt = "no"
        /\ frames[1].own = Main /\ frames[1].kind = "host"
        /\ running = Main /\ suspended = {}
    BY DEF Init
  <2>2. MadeOK(entries) /\ OwnersOK(frames, entries)
    BY <2>1 DEF MadeOK, OwnersOK
  <2>3. RunningOK(frames, entries, running)
    BY <2>1 DEF RunningOK
  <2>4. SuspendedOK(frames, entries, running, suspended)
    BY <2>1 DEF SuspendedOK
  <2> QED BY <2>1, <2>2, <2>3, <2>4 DEF ThreadsInv, ThreadsOK, OneAsyncCallIsSafe
<1> QED BY <1>1, NextThreads, Inductive, FlagAlways, PTL DEF Spec

(* Threads get in each other's way, and flyield() is reached where it      *)
(* cannot suspend, in no other case than those two.                        *)
THEOREM OneAsyncCallIsSafeAlways == Spec => []OneAsyncCallIsSafe
<1>1. ThreadsInv => OneAsyncCallIsSafe
  BY DEF ThreadsInv
<1> QED BY <1>1, Threads, PTL
=============================================================================
