----------------------------- MODULE LuaPatterns -----------------------------
(***************************************************************************)
(* Pattern matching (lstrlib.c): match() walks pattern and subject by      *)
(* backtracking, with one array of captures that every failed attempt has  *)
(* to leave as it found it, and find, match, gmatch and gsub go over the   *)
(* subject.                                                                *)
(*                                                                         *)
(* A pattern is a sequence of items, and a set of characters stands for a  *)
(* class: their syntax and its errors are left out.  Positions are from 1. *)
(* Only TLC uses this module.                                              *)
(***************************************************************************)
EXTENDS Integers, Sequences, SequencesExt, FiniteSetsExt

CONSTANTS
  Zero,         \* the character "\0", of no subject
  Subjects,     \* bound: the subjects, sequences of characters
  Items,        \* bound: the items a pattern begins with
  MaxItems,     \* bound: how many of them
  LateItems,    \* bound: the items that may come after those
  MaxLate,      \* bound: how many of them
  MaxCaptures   \* LUA_MAXCAPTURES

VARIABLES
  pattern,      \* a sequence of items
  anchored      \* it begins with "^"

(* An item i of a pattern: i.k is "one" for a character of i.set, i.rep     *)
(* times ("1" or one of the signs ?, *, + and -), "(", "()", ")", "%1" for *)
(* the capture i.n, "%b" for a text between i.b and i.e, "%f" for the      *)
(* frontier of i.set, or "$" at the end: anywhere else it is a character.  *)
NoMatch == 0               \* in the place of a position
Error   == -1
CapUnfinished == -1        \* in the place of a length
CapPosition   == -2

----------------------------------------------------------------------------
(* match().  ms is the MatchState: the subject, the pattern, the captures. *)

Outcome(ms, at) == [at |-> at, cap |-> ms.cap]
SrcEnd(ms)      == Len(ms.src) + 1
singlematch(ms, s, p) == s < SrcEnd(ms) /\ ms.src[s] \in ms.pat[p].set

(* How often the item at p matches from s on.                              *)
Repeats(ms, s, p) ==
  LET n[t \in s .. SrcEnd(ms)] ==
        IF singlematch(ms, t, p) THEN 1 + n[t + 1] ELSE 0
  IN  n[s]

matchbalance(ms, s, p) ==
  LET i == ms.pat[p]
      after[t \in s + 1 .. SrcEnd(ms) + 1, open \in 0 .. Len(ms.src)] ==
        CASE open = 0 -> t
          [] open > 0 /\ t >= SrcEnd(ms) -> NoMatch
          [] open > 0 /\ t < SrcEnd(ms) /\ ms.src[t] = i.e ->
               after[t + 1, open - 1]
          [] OTHER -> after[t + 1, IF ms.src[t] = i.b THEN open + 1 ELSE open]
  IN  IF s < SrcEnd(ms) /\ ms.src[s] = i.b THEN after[s + 1, 1] ELSE NoMatch

AtFrontier(ms, s, p) ==
  LET previous == IF s = 1 THEN Zero ELSE ms.src[s - 1]
      next     == IF s = SrcEnd(ms) THEN Zero ELSE ms.src[s]
  IN  previous \notin ms.pat[p].set /\ next \in ms.pat[p].set

(* A position capture has a length no string reaches.                      *)
match_capture(ms, s, n) ==
  LET c == ms.cap[n]
  IN  CASE n \notin DOMAIN ms.cap -> Error
        [] n \in DOMAIN ms.cap /\ c.len = CapUnfinished -> Error
        [] n \in DOMAIN ms.cap /\ c.len = CapPosition -> NoMatch
        [] OTHER ->
             IF /\ SrcEnd(ms) - s >= c.len
                /\ SubSeq(ms.src, s, s + c.len - 1)
                     = SubSeq(ms.src, c.init, c.init + c.len - 1)
             THEN s + c.len ELSE NoMatch

RECURSIVE match(_, _, _), max_expand(_, _, _, _), min_expand(_, _, _)

max_expand(ms, s, p, i) ==
  LET r == match(ms, s + i, p + 1)
  IN  IF r.at # NoMatch \/ i = 0 THEN r
      ELSE max_expand([ms EXCEPT !.cap = r.cap], s, p, i - 1)

min_expand(ms, s, p) ==
  LET r == match(ms, s, p + 1)
  IN  IF r.at # NoMatch \/ ~singlematch(ms, s, p) THEN r
      ELSE min_expand([ms EXCEPT !.cap = r.cap], s + 1, p)

start_capture(ms, s, p, what) ==
  LET r == match([ms EXCEPT !.cap = Append(@, [init |-> s, len |-> what])],
                 s, p)
  IN  CASE Len(ms.cap) >= MaxCaptures -> Outcome(ms, Error)
        [] Len(ms.cap) < MaxCaptures /\ r.at = NoMatch ->
             [r EXCEPT !.cap = Front(@)]
        [] OTHER -> r

Unfinished(cap) == {l \in DOMAIN cap : cap[l].len = CapUnfinished}

(* Mutant: a capture stays closed when what follows does not match.        *)
ReopenNone(r, l) == r
Reopen(r, l) ==
  IF r.at = NoMatch THEN [r EXCEPT !.cap[l].len = CapUnfinished] ELSE r
end_capture(ms, s, p) ==
  LET l == Max(Unfinished(ms.cap))
      r == match([ms EXCEPT !.cap[l].len = s - ms.cap[l].init], s, p)
  IN  IF Unfinished(ms.cap) = {} THEN Outcome(ms, Error) ELSE Reopen(r, l)

match(ms, s, p) ==
  LET i == ms.pat[p]
      GoOn(t) == IF t \in {NoMatch, Error} THEN Outcome(ms, t)
                 ELSE match(ms, t, p + 1)
      one == singlematch(ms, s, p)
      with == match(ms, s + 1, p + 1)
      Tried == CASE i.rep = "1" -> GoOn(IF one THEN s + 1 ELSE NoMatch)
                [] i.rep = "?" ->
                     IF one /\ with.at # NoMatch THEN with
                     ELSE IF one THEN match([ms EXCEPT !.cap = with.cap],
                                            s, p + 1)
                     ELSE GoOn(s)
                [] i.rep = "*" -> max_expand(ms, s, p, Repeats(ms, s, p))
                [] i.rep = "+" ->
                     IF one THEN max_expand(ms, s + 1, p,
                                            Repeats(ms, s + 1, p))
                     ELSE Outcome(ms, NoMatch)
                [] i.rep = "-" -> min_expand(ms, s, p)
  IN  IF p > Len(ms.pat) THEN Outcome(ms, s)
      ELSE CASE i.k = "("  -> start_capture(ms, s, p + 1, CapUnfinished)
             [] i.k = "()" -> start_capture(ms, s, p + 1, CapPosition)
             [] i.k = ")"  -> end_capture(ms, s, p + 1)
             [] i.k = "%b" -> GoOn(matchbalance(ms, s, p))
             [] i.k = "%f" -> GoOn(IF AtFrontier(ms, s, p) THEN s ELSE NoMatch)
             [] i.k = "%1" -> GoOn(match_capture(ms, s, i.n))
             [] i.k = "$"  -> GoOn(IF s = SrcEnd(ms) THEN s ELSE NoMatch)
             [] i.k = "one" -> Tried

----------------------------------------------------------------------------
(* The functions of the library.                                           *)

Matched(src, pat, s) == match([src |-> src, pat |-> pat, cap |-> <<>>], s, 1)

(* push_captures()                                                         *)
Captured(r) == IF Unfinished(r.cap) # {} THEN [r EXCEPT !.at = Error] ELSE r

Found(from, r) == [from |-> from, at |-> r.at, cap |-> r.cap]
NotFound       == Found(NoMatch, [at |-> NoMatch, cap |-> <<>>])

(* posrelat() and the bounds of init                                       *)
FirstPlace(src, init) ==
  LET n == IF init < 0 THEN Len(src) + init + 1 ELSE init
  IN  CASE n < 1 -> 1
        [] n > Len(src) + 1 -> Len(src) + 1
        [] OTHER -> n

(* lmemfind(), for a pattern without special characters.                   *)
NoSpecials(pat) == \A i \in DOMAIN pat : /\ pat[i].k = "one"
                                         /\ pat[i].rep = "1"
                                         /\ Cardinality(pat[i].set) = 1
lmemfind(src, pat, init) ==
  LET at == {s \in init .. Len(src) - Len(pat) + 1 :
               \A i \in DOMAIN pat : src[s + i - 1] \in pat[i].set}
  IN  IF at = {} THEN NotFound
      ELSE Found(Min(at), [at |-> Min(at) + Len(pat), cap |-> <<>>])

str_find(src, pat, anchor, init) ==
  LET at[s \in 1 .. Len(src) + 2] ==
        LET r == Captured(Matched(src, pat, s))
        IN  IF s > Len(src) + 1 THEN NotFound
            ELSE IF r.at # NoMatch THEN Found(s, r)
            ELSE IF anchor THEN NotFound ELSE at[s + 1]
  IN  IF NoSpecials(pat) /\ ~anchor
      THEN lmemfind(src, pat, FirstPlace(src, init))
      ELSE at[FirstPlace(src, init)]

(* All that gmatch() gives, call after call.                               *)
RECURSIVE gmatch(_, _, _)
gmatch(src, pat, s) ==
  LET r == Captured(Matched(src, pat, s))
  IN  CASE s > Len(src) + 1 -> <<>>
        [] s <= Len(src) + 1 /\ r.at = Error -> <<Found(s, r)>>
        [] s <= Len(src) + 1 /\ r.at = NoMatch -> gmatch(src, pat, s + 1)
        [] OTHER -> <<Found(s, r)>>
                      \o gmatch(src, pat, IF r.at = s THEN s + 1 ELSE r.at)

(* push_onecapture() for the replacement "%n"                              *)
Capture(src, s, r, n) ==
  CASE n = 1 /\ r.cap = <<>> -> SubSeq(src, s, r.at - 1)
    [] n \in DOMAIN r.cap ->
         IF r.cap[n].len = CapPosition THEN <<r.cap[n].init>>
         ELSE SubSeq(src, r.cap[n].init, r.cap[n].init + r.cap[n].len - 1)

(* gsub() with a function that answers nil, which keeps the text, or with  *)
(* the replacement "%n"; g is the place, the result so far and the count.  *)
Keep == 0
RECURSIVE Replaced(_, _, _, _, _)
Replaced(src, pat, anchor, repl, g) ==
  LET r    == Matched(src, pat, g.src)
      hit  == r.at # NoMatch
      bad  == \/ r.at = Error
              \/ hit /\ repl = Keep /\ Captured(r).at = Error
              \/ hit /\ repl > 1 /\ repl \notin DOMAIN r.cap
              \/ hit /\ repl \in Unfinished(r.cap)
      text == CASE ~hit -> <<>>
                [] hit /\ repl = Keep -> SubSeq(src, g.src, r.at - 1)
                [] OTHER -> Capture(src, g.src, r, repl)
      more == [g EXCEPT !.n = IF hit THEN @ + 1 ELSE @, !.out = @ \o text]
      step == CASE hit /\ r.at > g.src -> [more EXCEPT !.src = r.at]
                [] ~(hit /\ r.at > g.src) /\ g.src <= Len(src) ->
                     [more EXCEPT !.src = @ + 1, !.out = Append(@, src[g.src])]
                [] OTHER -> [more EXCEPT !.done = TRUE]
  IN  CASE bad -> [g EXCEPT !.n = Error]
        [] ~bad /\ ~step.done /\ ~anchor ->
             Replaced(src, pat, anchor, repl, step)
        [] OTHER -> [step EXCEPT !.out =
                       @ \o SubSeq(src, step.src, Len(src))]
str_gsub(src, pat, anchor, repl) ==
  LET g == Replaced(src, pat, anchor, repl,
                    [src |-> 1, out |-> <<>>, n |-> 0, done |-> FALSE])
  IN  [out |-> g.out, n |-> g.n]

----------------------------------------------------------------------------
(* What a pattern means: all ways to match it, the one to be tried first   *)
(* in front.  An error is a way that ends there.                           *)

RECURSIVE Ways(_, _, _)
Ways(ms, s, p) ==
  LET i == ms.pat[p]
      To(t) == CASE t = NoMatch -> <<>> [] t = Error -> <<Outcome(ms, Error)>>
                 [] OTHER -> Ways(ms, t, p + 1)
      n == Repeats(ms, s, p)
      Down(lo, hi) == [j \in 1 .. hi - lo + 1 |-> hi - j + 1]
      One1 == IF n > 0 THEN 1 ELSE 0
      counts == CASE i.rep = "1" -> Down(1, One1)
                  [] i.rep = "?" -> Down(0, One1)
                  [] i.rep = "*" -> Down(0, n)
                  [] i.rep = "+" -> Down(1, n)
                  [] i.rep = "-" -> Reverse(Down(0, n))
      With(c) == Ways([ms EXCEPT !.cap = Append(@, c)], s, p + 1)
      open == Unfinished(ms.cap)
      l == Max(open)
      room == Len(ms.cap) < MaxCaptures
  IN  IF p > Len(ms.pat) THEN <<Outcome(ms, s)>>
      ELSE CASE i.k = "one" ->
                  FlattenSeq([j \in DOMAIN counts |-> To(s + counts[j])])
             [] i.k \in {"(", "()"} ->
                  IF ~room THEN To(Error)
                  ELSE With([init |-> s, len |-> IF i.k = "(" THEN CapUnfinished
                                                 ELSE CapPosition])
             [] i.k = ")" ->
                  IF open = {} THEN To(Error)
                  ELSE Ways([ms EXCEPT !.cap[l].len = s - ms.cap[l].init],
                            s, p + 1)
             [] i.k = "%b" -> To(matchbalance(ms, s, p))
             [] i.k = "%f" -> To(IF AtFrontier(ms, s, p) THEN s ELSE NoMatch)
             [] i.k = "%1" -> To(match_capture(ms, s, i.n))
             [] i.k = "$"  -> To(IF s = SrcEnd(ms) THEN s ELSE NoMatch)

Meant(src, pat, anchor, init) ==
  LET WaysAt(s) == Ways([src |-> src, pat |-> pat, cap |-> <<>>], s, 1)
      first == FirstPlace(src, init)
      good  == {s \in first .. (IF anchor THEN first ELSE Len(src) + 1) :
                  WaysAt(s) # <<>>}
  IN  IF good = {} THEN NotFound
      ELSE Found(Min(good), Captured(WaysAt(Min(good))[1]))

----------------------------------------------------------------------------
PatternsInit == pattern = <<>> /\ anchored \in BOOLEAN
AddItem(i) ==
  /\ Len(pattern) < MaxItems + MaxLate
  /\ \A j \in DOMAIN pattern : pattern[j].k # "$"
  /\ i \in IF Len(pattern) < MaxItems THEN Items ELSE LateItems
  /\ pattern' = Append(pattern, i) /\ UNCHANGED anchored
PatternsNext == \E i \in Items \cup LateItems : AddItem(i)
PatternsSpec == PatternsInit /\ [][PatternsNext]_<<pattern, anchored>>

(* Backtracking leaves no trace: the first match from any place, and its   *)
(* captures, are those of the first way the pattern can match, an error    *)
(* comes only from a way that is tried before, and plain search agrees.    *)
(* gsub() makes as many replacements as gmatch() has matches, and when it  *)
(* keeps each match it gives the subject back.                             *)
FirstWay(pat, anchor) ==
  \A src \in Subjects :
    LET all  == gmatch(src, pat, 1)
        kept == str_gsub(src, pat, anchor, Keep)
        one  == str_gsub(src, pat, anchor, 1)
    IN  /\ \A init \in {1, -1} :
             str_find(src, pat, anchor, init)
               = Meant(src, pat, anchor, init)
        /\ kept.n # Error => kept.out = src /\ one.n = kept.n
        /\ ~anchor =>
             kept.n = IF all # <<>> /\ Last(all).at = Error THEN Error
                      ELSE Len(all)
MatchesFirstWay ==
  [][FirstWay(pattern', anchored')]_<<pattern, anchored>>
=============================================================================
