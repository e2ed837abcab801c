--------------------------- MODULE LuaPartsProofs ---------------------------
(***************************************************************************)
(* Proofs about the parts of LuaParts, for every value of the constants:   *)
(* any names of globals, loads, modules, AS3 objects and paths, any lists  *)
(* to sort.                                                                *)
(***************************************************************************)
EXTENDS LuaParts, SequenceTheorems, FiniteSetTheorems,
        WellFoundedInduction, TLAPS

(* A step is a step of the part that moves, and leaves `part` alone. *)
LEMMA StepOf ==
  ASSUME PartsNext
  PROVE  /\ part' = part
         /\ part = "sugar" => S!SugarNext
         /\ part = "files" => F!FilesNext
         /\ part = "toobject" => O!ToObjectNext
         /\ part = "strict" => G!StrictNext
         /\ part = "modules" => M!ModulesNext
  BY DEF PartsNext, Only

(* The parts count alike. *)
LEMMA CountLemma ==
  ASSUME NEW A
  PROVE  /\ F!Cardinality(A) = Cardinality(A)
         /\ M!Cardinality(A) = Cardinality(A)
         /\ O!Cardinality(A) = Cardinality(A)
  BY DEF F!Cardinality, M!Cardinality, O!Cardinality, Cardinality

-----------------------------------------------------------------------------
(* strict.lua.                                                             *)

(* What is there while the guard is on is excused or known, the two tables *)
(* agree as long as they are one, and a refused name was not in it.        *)
Guarding ==
  strict => /\ present \subseteq known \cup excused
            /\ shared => declared = known
            /\ said.what = "error" /\ shared =>
                 said.of \cap declared = {}

LEMMA StrictStep ==
  ASSUME Guarding, G!StrictNext
  PROVE  Guarding'
<1> USE DEF Guarding, G!Say, G!Set, G!Guarded
<1>1. ASSUME NEW A \in SUBSET Name, G!declare(A) PROVE Guarding'
  BY <1>1 DEF G!declare
<1>2. ASSUME NEW n \in Name, G!Access(n) PROVE Guarding'
  <2>1. CASE G!Guarded(n) BY <1>2, <2>1 DEF G!Access
  <2>2. CASE ~G!Guarded(n)
    <3>1. said'.what # "error" BY <1>2, <2>2 DEF G!Access
    <3> QED BY <1>2, <3>1 DEF G!Access
  <2> QED BY <2>1, <2>2
<1>3. ASSUME NEW n \in Name, NEW b \in BOOLEAN, G!Write(n, b)
      PROVE  Guarding'
  <2>1. CASE G!Guarded(n) BY <1>3, <2>1 DEF G!Write
  <2>2. CASE ~G!Guarded(n)
    <3>1. said'.what = "ok" /\ UNCHANGED <<declared, known, shared, strict>>
      BY <1>3, <2>2 DEF G!Write
    <3>2. strict => present' \subseteq known \cup excused'
      BY <1>3, <2>2 DEF G!Write
    <3> QED BY <3>1, <3>2
  <2> QED BY <2>1, <2>2
<1>4. ASSUME NEW n \in Name, G!RawSet(n) PROVE Guarding'
  BY <1>4 DEF G!RawSet
<1>5. ASSUME G!Uninstall PROVE Guarding'
  BY <1>5 DEF G!Uninstall
<1>6. ASSUME G!Load PROVE Guarding'
  BY <1>6 DEF G!Load, G!LoadRefused, G!LoadInstalls
<1> QED BY <1>1, <1>2, <1>3, <1>4, <1>5, <1>6 DEF G!StrictNext

(* strict.lua: while the guard is on, no global comes to exist unnoticed,  *)
(* none that was removed comes back so, and no declared name is refused,   *)
(* whatever accesses, removals of the guard and reloads came before; but   *)
(* for what is declared after a load that was refused.                     *)
THEOREM NoStrayGlobalAlways == PartsSpec => []NoStrayGlobal
<1> DEFINE Inv == part = "strict" => Guarding
<1>1. PartsInit => Inv
  BY DEF PartsInit, G!StrictInit, Guarding
<1>2. Inv /\ [PartsNext]_parts => Inv'
  <2> SUFFICES ASSUME Inv, [PartsNext]_parts PROVE Inv' OBVIOUS
  <2>1. CASE PartsNext BY <2>1, StepOf, StrictStep
  <2>2. CASE UNCHANGED parts BY <2>2 DEF parts, globals, Guarding
  <2> QED BY <2>1, <2>2
<1>3. Inv => NoStrayGlobal
  BY DEF Guarding, NoStrayGlobal, G!Noticed
<1> QED BY <1>1, <1>2, <1>3, PTL DEF PartsSpec

-----------------------------------------------------------------------------
(* as3.filegetcontents() and loadfile().                                   *)

FilesTypes ==
  /\ loads \in Nat /\ load_err \in 0 .. loads
  /\ coming \subseteq 1 .. loads /\ waiting \subseteq 1 .. loads

(* While no call went on early and none began next to another, one load at *)
(* most is on its way, the last one; and once its event came, the loader   *)
(* holds its bytes or its error.                                           *)
OneLoad ==
  early = {} /\ ~overlap =>
    /\ waiting \subseteq {loads} /\ coming \subseteq waiting
    /\ waiting # {} /\ coming = {} =>
         load_err = loads \/ (load_err = F!NoLoad /\ data = loads)

Replied ==
  /\ reply.is \in {"data", "error"} /\ early = {} /\ ~overlap =>
       reply.of = reply.to
  /\ reply.is = "refused" => waiting # {} \/ raised

(* load_done is cleared only while an event is still to come for someone   *)
(* who waits, or for ever after init() raised.                             *)
Pending == ~load_done => raised \/ waiting \cap coming # {}

FilesInv == FilesTypes /\ OneLoad /\ Replied /\ Pending

LEMMA FilesStart == F!FilesInit => FilesInv
  BY DEF F!FilesInit, FilesInv, FilesTypes, OneLoad, Replied, Pending,
         F!Silent, F!NoLoad

LEMMA FilesStep ==
  ASSUME FilesInv, F!FilesNext
  PROVE  FilesInv'
<1> USE DEF FilesInv, F!NoLoad
<1>1. CASE F!Begin
  <2>1. FilesTypes'
    <3>1. /\ loads' = loads + 1 /\ load_err' = 0
          /\ coming' \subseteq coming \cup {loads'}
          /\ waiting' \subseteq waiting \cup {loads'}
      BY <1>1 DEF F!Begin
    <3> QED BY <3>1 DEF FilesTypes
  <2>2. OneLoad'    BY <1>1 DEF F!Begin, FilesTypes, OneLoad
  <2>3. Replied'    BY <1>1 DEF F!Begin, Replied, F!Silent
  <2>4. Pending'    BY <1>1 DEF F!Begin, Pending
  <2> QED BY <2>1, <2>2, <2>3, <2>4
<1>2. CASE F!Refuse
  BY <1>2 DEF F!Refuse, FilesTypes, OneLoad, Replied, Pending
<1>3. ASSUME NEW n \in F!Loads, F!Complete(n) PROVE FilesInv'
  <2>1. FilesTypes' BY <1>3 DEF F!Complete, FilesTypes
  <2>2. OneLoad'    BY <1>3 DEF F!Complete, FilesTypes, OneLoad
  <2>3. Replied'    BY <1>3 DEF F!Complete, Replied, F!Silent
  <2>4. Pending'    BY <1>3 DEF F!Complete, Pending
  <2> QED BY <2>1, <2>2, <2>3, <2>4
<1>4. ASSUME NEW n \in F!Loads, F!Fail(n) PROVE FilesInv'
  <2>1. FilesTypes' BY <1>4 DEF F!Fail, FilesTypes
  <2>2. OneLoad'    BY <1>4 DEF F!Fail, FilesTypes, OneLoad
  <2>3. Replied'    BY <1>4 DEF F!Fail, Replied, F!Silent
  <2>4. Pending'    BY <1>4 DEF F!Fail, Pending
  <2> QED BY <2>1, <2>2, <2>3, <2>4
<1>5. ASSUME NEW n \in F!Loads, F!GoOn(n) PROVE FilesInv'
  <2>1. FilesTypes'
    <3>1. /\ UNCHANGED <<loads, coming>> /\ load_err' = 0
          /\ waiting' \subseteq waiting
      BY <1>5 DEF F!GoOn
    <3> QED BY <3>1 DEF FilesTypes
  <2>2. ASSUME early' = {}, ~overlap'
        PROVE  /\ n = loads /\ coming = {} /\ early = {} /\ ~overlap
               /\ load_err = loads \/ (load_err = 0 /\ data = loads)
               /\ loads # 0
    BY <1>5, <2>2 DEF F!GoOn, OneLoad, FilesTypes
  <2>3. OneLoad'    BY <1>5, <2>2 DEF F!GoOn, OneLoad
  <2>4. Replied'    BY <1>5, <2>2 DEF F!GoOn, Replied
  <2>5. Pending'    BY <1>5 DEF F!GoOn, F!WaitEnds, Pending
  <2> QED BY <2>1, <2>3, <2>4, <2>5
<1> QED BY <1>1, <1>2, <1>3, <1>4, <1>5 DEF F!FilesNext

(* loadfile() finds a file where its name says.                            *)
LEMMA FoundWhereNamed ==
  ASSUME NEW root \in F!Prefixes \ {"none"}, NEW orig \in F!Prefixes,
         NEW f \in Builtin \cup {"absent"}
  PROVE  LET places == F!Places(root, orig)
             found  == F!Compiled(f) /\ \E i \in DOMAIN places :
                                          places[i] = "builtin"
         IN  F!loadfile(root, orig, f) =
               IF found THEN "chunk"
               ELSE IF F!Cardinality(DOMAIN places) = 2 THEN "two errors"
               ELSE "error"
<1> DEFINE places == F!Places(root, orig)
<1>1. F!Cardinality(1 .. 1) = 1 /\ F!Cardinality(1 .. 2) = 2
  <2>1. 1 .. 1 = {1} /\ 1 .. 2 = {1} \cup {2} /\ 2 \notin {1} OBVIOUS
  <2>2. IsFiniteSet({1}) /\ Cardinality({1}) = 1 BY FS_Singleton
  <2>3. Cardinality({1} \cup {2}) = 1 + 1 BY <2>1, <2>2, FS_AddElement
  <2> QED BY <2>1, <2>2, <2>3, CountLemma
<1>2. \/ DOMAIN places = 1 .. 1 /\ places[1] = "builtin"
         /\ F!loadfile(root, orig, f) =
              IF F!Compiled(f) THEN "chunk" ELSE "error"
      \/ DOMAIN places = 1 .. 1 /\ places[1] # "builtin"
         /\ F!loadfile(root, orig, f) = "error"
      \/ DOMAIN places = 1 .. 2 /\ places[2] = "builtin"
         /\ F!loadfile(root, orig, f) =
              IF F!Compiled(f) THEN "chunk" ELSE "two errors"
  <2>1. CASE orig # "none"
    <3>1. places = <<orig>> BY <2>1 DEF F!Places
    <3>2. DOMAIN places = 1 .. 1 /\ places[1] = orig BY <3>1
    <3> HIDE DEF places
    <3> QED BY <2>1, <3>2 DEF F!loadfile, F!FallsBack
  <2>2. CASE orig = "none" /\ root = "builtin"
    <3>1. places = <<root>> BY <2>2 DEF F!Places
    <3>2. DOMAIN places = 1 .. 1 /\ places[1] = root BY <3>1
    <3> HIDE DEF places
    <3> QED BY <2>2, <3>2 DEF F!loadfile, F!FallsBack
  <2>3. CASE orig = "none" /\ root # "builtin"
    <3>1. places = <<root, "builtin">> BY <2>3 DEF F!Places
    <3>2. DOMAIN places = 1 .. 2 /\ places[2] = "builtin" BY <3>1
    <3> HIDE DEF places
    <3> QED BY <2>3, <3>2 DEF F!loadfile, F!FallsBack
  <2> QED BY <2>1, <2>2, <2>3
<1> HIDE DEF places
<1>3. F!loadfile(root, orig, f) =
        IF F!Compiled(f) /\ \E i \in DOMAIN places : places[i] = "builtin"
        THEN "chunk"
        ELSE IF F!Cardinality(DOMAIN places) = 2 THEN "two errors"
        ELSE "error"
  <2> DEFINE found == F!Compiled(f) /\ \E i \in DOMAIN places :
                                         places[i] = "builtin"
  <2>1. CASE DOMAIN places = 1 .. 1 /\ places[1] = "builtin"
             /\ F!loadfile(root, orig, f) =
                  IF F!Compiled(f) THEN "chunk" ELSE "error"
    <3>1. found <=> F!Compiled(f) BY <2>1
    <3>2. F!loadfile(root, orig, f) = IF found THEN "chunk" ELSE "error"
      <4> HIDE DEF found
      <4> QED BY <2>1, <3>1
    <3> QED BY <1>1, <2>1, <3>2
  <2>2. CASE DOMAIN places = 1 .. 1 /\ places[1] # "builtin"
             /\ F!loadfile(root, orig, f) = "error"
    <3>1. ~found BY <2>2
    <3> QED BY <1>1, <2>2, <3>1
  <2>3. CASE DOMAIN places = 1 .. 2 /\ places[2] = "builtin"
             /\ F!loadfile(root, orig, f) =
                  IF F!Compiled(f) THEN "chunk" ELSE "two errors"
    <3>0. 2 \in DOMAIN places
      <4>1. 2 \in 1 .. 2 OBVIOUS
      <4>2. DOMAIN places = 1 .. 2 BY <2>3
      <4> QED BY ONLY <4>1, <4>2
    <3>1. found <=> F!Compiled(f) BY <2>3, <3>0
    <3>2. F!loadfile(root, orig, f) = IF found THEN "chunk" ELSE "two errors"
      <4> HIDE DEF found
      <4> QED BY <2>3, <3>1
    <3> QED BY <1>1, <2>3, <3>2
  <2> QED BY <1>2, <2>1, <2>2, <2>3
<1> QED BY <1>3 DEF places

(* A load answers for itself as long as no call went on before its event   *)
(* and none began next to another; calls are refused for a reason.         *)
THEOREM LoadsAnswerAlways == PartsSpec => []LoadsAnswer
<1> DEFINE Inv == part = "files" => FilesInv
<1>1. PartsInit => Inv
  BY FilesStart DEF PartsInit
<1>2. Inv /\ [PartsNext]_parts => Inv'
  <2> SUFFICES ASSUME Inv, [PartsNext]_parts PROVE Inv' OBVIOUS
  <2>1. CASE PartsNext BY <2>1, StepOf, FilesStep
  <2>2. CASE UNCHANGED parts
    BY <2>2 DEF parts, files, FilesInv, FilesTypes, OneLoad, Replied, Pending
  <2> QED BY <2>1, <2>2
<1>3. Inv => LoadsAnswer
  <2> SUFFICES ASSUME FilesInv PROVE F!LoadsAnswer BY DEF LoadsAnswer
  <2>1. \A root \in F!Prefixes \ {"none"}, orig \in F!Prefixes,
           f \in Builtin \cup {"absent"} :
          LET places == F!Places(root, orig)
              found  == F!Compiled(f) /\ \E i \in DOMAIN places :
                                           places[i] = "builtin"
          IN  F!loadfile(root, orig, f) =
                IF found THEN "chunk"
                ELSE IF F!Cardinality(DOMAIN places) = 2 THEN "two errors"
                ELSE "error"
    BY FoundWhereNamed
  <2> QED BY <2>1 DEF FilesInv, Replied, Pending, F!LoadsAnswer
<1> QED BY <1>1, <1>2, <1>3, PTL DEF PartsSpec

-----------------------------------------------------------------------------
(* require() and module().                                                 *)

Calls == [of : Module, loader : Nat, begun : Nat]

ModulesTypes ==
  /\ loaded \in [Module -> M!Slot] /\ chunks \in Seq(Calls)
  /\ runs \in [Module -> Nat] /\ ended \subseteq Module

Begun == {M!Sentinel, M!ModuleTable}
Empty == {M!LuaNil, M!False}

IsChunk(i, n)  == chunks[i].of = n /\ chunks[i].loader = 0
IsSearch(i, n) == chunks[i].of = n /\ chunks[i].loader # 0

(* A module whose place the program did not assign.  Inside its chunk it   *)
(* is neither searched nor run, for its place says so; what else stands    *)
(* there was left by a chunk that came to its end.  And as long as no      *)
(* chunk of it began since a search, its place is as the search found it.  *)
Inside(n) ==
  \A i, j \in DOMAIN chunks :
    i < j => /\ IsChunk(i, n) => chunks[j].of # n
             /\ IsSearch(i, n) /\ IsChunk(j, n) => chunks[i].begun < runs[n]
Placed(n) ==
  \A i \in DOMAIN chunks :
    /\ IsChunk(i, n) => loaded[n] \in Begun
    /\ IsSearch(i, n) => /\ chunks[i].begun <= runs[n]
                         /\ chunks[i].begun = runs[n] => loaded[n] \in Empty
Loaded(n) == loaded[n] \in {M!True, M!Value, M!False} => n \in ended
Once(n) == Inside(n) /\ Placed(n) /\ Loaded(n)

(* What require() answered stands in its place. *)
Answered(n) ==
  required.of = {n} /\ required.is \notin {"error", M!ModuleTable} =>
    /\ required.is = loaded[n] /\ n \in ended
    /\ \A i \in DOMAIN chunks : ~IsChunk(i, n)

ModulesInv ==
  ModulesTypes /\ \A n \in Module \ touched : Once(n) /\ Answered(n)

LEMMA ModulesStart == M!ModulesInit => ModulesInv
<1> SUFFICES ASSUME M!ModulesInit PROVE ModulesInv OBVIOUS
<1>1. chunks = <<>> /\ DOMAIN chunks = {} BY DEF M!ModulesInit
<1>2. ModulesTypes
  BY <1>1 DEF M!ModulesInit, ModulesTypes, M!Slot
<1>3. ASSUME NEW n \in Module PROVE Once(n) /\ Answered(n)
  BY <1>1 DEF M!ModulesInit, Once, Inside, Placed, Loaded, Answered, M!Silent,
         M!LuaNil, M!True, M!False, M!Value
<1> QED BY <1>2, <1>3 DEF ModulesInv

(* An error cuts the calls that wait to some of the outer ones. *)
LEMMA UnwindLemma ==
  ASSUME NEW s \in Seq(Calls), M!Unwind(s)
  PROVE  /\ chunks' \in Seq(Calls) /\ DOMAIN chunks' \subseteq DOMAIN s
         /\ \A i \in DOMAIN chunks' : chunks'[i] = s[i]
<1>1. PICK k \in 0 .. Len(s) : chunks' = SubSeq(s, 1, k)
  BY DEF M!Unwind
<1> QED BY <1>1

(* The calls that wait, the innermost, and the others. *)
LEMMA TopCallLemma ==
  ASSUME NEW s \in Seq(Calls), s # <<>>
  PROVE  /\ M!Front(s) \in Seq(Calls) /\ M!Last(s) = s[Len(s)]
         /\ Len(s) \in Nat \ {0} /\ Len(s) \in DOMAIN s
         /\ s[Len(s)] \in Calls
         /\ DOMAIN s = 1 .. Len(s) /\ DOMAIN M!Front(s) = 1 .. Len(s) - 1
         /\ \A i \in DOMAIN M!Front(s) : M!Front(s)[i] = s[i]
  BY DEF M!Front, M!Last

(* The loaded table, the runs and what ended are as before, and calls were *)
(* given up: nothing that Once says can fail.                              *)
LEMMA GivenUp ==
  ASSUME ModulesInv, NEW n \in Module \ touched,
         UNCHANGED <<loaded, runs, ended>>,
         DOMAIN chunks' \subseteq DOMAIN chunks,
         \A i \in DOMAIN chunks' : chunks'[i] = chunks[i]
  PROVE  Once(n)'
<1>1. Once(n) BY DEF ModulesInv
<1>2. Inside(n)' BY <1>1 DEF Once, Inside, IsChunk, IsSearch
<1>3. Placed(n)' BY <1>1 DEF Once, Placed, IsChunk, IsSearch
<1> QED BY <1>1, <1>2, <1>3 DEF Once, Loaded

(* An error that comes out of `from`. *)
LEMMA RaiseStep ==
  ASSUME ModulesInv, NEW from \in Seq(Calls), NEW m,
         DOMAIN from \subseteq DOMAIN chunks,
         \A i \in DOMAIN from : from[i] = chunks[i],
         M!Raise(from, m), UNCHANGED <<loaded, runs, ended, touched>>
  PROVE  ModulesInv'
<1>1. /\ chunks' \in Seq(Calls) /\ DOMAIN chunks' \subseteq DOMAIN chunks
      /\ \A i \in DOMAIN chunks' : chunks'[i] = chunks[i]
  BY UnwindLemma DEF M!Raise
<1>2. ModulesTypes' BY <1>1 DEF ModulesTypes, ModulesInv
<1>3. ASSUME NEW n \in Module \ touched PROVE Once(n)'
  BY <1>1, GivenUp
<1>4. ASSUME NEW n \in Module \ touched PROVE Answered(n)'
  BY DEF Answered, M!Raise, M!Say
<1> QED BY <1>2, <1>3, <1>4 DEF ModulesInv

LEMMA RequireStep ==
  ASSUME ModulesInv, NEW m \in Module, M!Require(m)
  PROVE  ModulesInv'
<1> USE DEF M!Say, M!Silent, M!Found
<1>0. /\ ModulesTypes /\ loaded[m] \in M!Slot /\ chunks \in Seq(Calls)
      /\ \A n \in Module \ touched : Once(n) /\ Answered(n)
      /\ UNCHANGED <<loaded, runs, ended, touched>>
  BY DEF ModulesInv, ModulesTypes, M!Require
<1>1. CASE /\ loaded[m] \notin Empty /\ loaded[m] # M!Sentinel
           /\ required' = [of |-> {m}, is |-> loaded[m]] /\ UNCHANGED chunks
  <2>1. ASSUME m \notin touched, loaded[m] # M!ModuleTable
        PROVE  m \in ended /\ \A i \in DOMAIN chunks : ~IsChunk(i, m)
    BY <1>0, <1>1, <2>1 DEF M!Slot, Empty, Begun, Once, Placed, Loaded
  <2>2. ASSUME NEW n \in Module \ touched PROVE Once(n)'
    BY <1>0, <1>1 DEF Once, Inside, Placed, Loaded, IsChunk, IsSearch
  <2>3. ASSUME NEW n \in Module \ touched PROVE Answered(n)'
    BY <1>0, <1>1, <2>1 DEF Answered, IsChunk
  <2> QED BY <1>0, <1>1, <2>2, <2>3 DEF ModulesTypes, ModulesInv
<1>2. CASE M!Raise(chunks, m)
  BY <1>0, <1>2, RaiseStep
<1>3. CASE /\ loaded[m] \in Empty /\ required' = M!Silent
           /\ chunks' = Append(chunks, [of |-> m, loader |-> 1,
                                        begun |-> runs[m]])
  <2> DEFINE c == [of |-> m, loader |-> 1, begun |-> runs[m]]
  <2>1. c \in Calls /\ runs[m] \in Nat
    BY <1>0 DEF Calls, ModulesTypes
  <2>2. /\ chunks' \in Seq(Calls) /\ Len(chunks) \in Nat
        /\ DOMAIN chunks' = 1 .. Len(chunks) + 1
        /\ DOMAIN chunks = 1 .. Len(chunks)
        /\ \A i \in DOMAIN chunks : chunks'[i] = chunks[i]
        /\ chunks'[Len(chunks) + 1] = c
    BY <1>0, <1>3, <2>1
  <2>3. c.of = m /\ c.loader # 0 /\ c.begun = runs[m] BY <2>1
  <2> HIDE DEF c
  <2>4. ASSUME NEW n \in Module \ touched PROVE Once(n)'
    <3>1. Inside(n) /\ Placed(n) /\ Loaded(n) BY <1>0 DEF Once
    <3>2. ASSUME NEW i \in DOMAIN chunks, chunks[i].of = n,
                 chunks[i].loader = 0
          PROVE  n # m
      BY <1>3, <3>1, <3>2 DEF Placed, IsChunk, Begun, Empty, M!Sentinel,
         M!ModuleTable, M!LuaNil, M!False
    <3>3. Inside(n)'
      BY <1>0, <2>2, <2>3, <3>1, <3>2 DEF Inside, IsChunk, IsSearch
    <3>4. Placed(n)'
      BY <1>0, <1>3, <2>1, <2>2, <2>3, <3>1 DEF Placed, IsChunk, IsSearch
    <3> QED BY <1>0, <3>1, <3>3, <3>4 DEF Once, Loaded
  <2>5. ASSUME NEW n \in Module \ touched PROVE Answered(n)'
    BY <1>3 DEF Answered
  <2> QED BY <1>0, <2>2, <2>4, <2>5 DEF ModulesInv, ModulesTypes
<1> QED BY <1>1, <1>2, <1>3 DEF M!Require, Empty

LEMMA DeclinesStep ==
  ASSUME ModulesInv, M!LoaderDeclines
  PROVE  ModulesInv'
<1>0. /\ ModulesTypes /\ chunks \in Seq(Calls) /\ chunks # <<>>
      /\ \A n \in Module \ touched : Once(n) /\ Answered(n)
      /\ UNCHANGED <<loaded, runs, ended, touched>>
      /\ required' = M!Silent
  BY DEF ModulesInv, ModulesTypes, M!LoaderDeclines, M!Searching
<1> DEFINE k == Len(chunks)
<1>1. /\ k \in DOMAIN chunks /\ chunks[k] \in Calls
      /\ M!Top = chunks[k] /\ DOMAIN chunks = 1 .. k /\ k \in Nat
  BY <1>0, TopCallLemma DEF M!Top
<1>2. /\ chunks' = [chunks EXCEPT ![k].loader = @ + 1]
      /\ chunks[k].loader > 0
  BY <1>1 DEF M!LoaderDeclines, M!Searching
<1>3. /\ chunks' \in Seq(Calls) /\ DOMAIN chunks' = DOMAIN chunks
      /\ \A i \in DOMAIN chunks :
           /\ chunks'[i].of = chunks[i].of
           /\ chunks'[i].begun = chunks[i].begun
           /\ chunks'[i].loader = 0 <=> chunks[i].loader = 0
  <2>1. [chunks[k] EXCEPT !.loader = @ + 1] \in Calls BY <1>1 DEF Calls
  <2>2. \A i \in DOMAIN chunks : chunks[i] \in Calls BY <1>0
  <2>3. chunks' = [chunks EXCEPT ![k] = [chunks[k] EXCEPT !.loader = @ + 1]]
    BY <1>2
  <2>4. chunks' \in Seq(Calls) /\ DOMAIN chunks' = DOMAIN chunks
    BY <1>0, <1>1, <2>1, <2>3
  <2> QED BY <1>1, <1>2, <2>2, <2>3, <2>4 DEF Calls
<1> HIDE DEF k
<1>4. ASSUME NEW n \in Module \ touched PROVE Once(n)'
  <2>1. Inside(n) /\ Placed(n) /\ Loaded(n) BY <1>0 DEF Once
  <2>2. Inside(n)' BY <1>0, <1>3, <2>1 DEF Inside, IsChunk, IsSearch
  <2>3. Placed(n)' BY <1>0, <1>3, <2>1 DEF Placed, IsChunk, IsSearch
  <2> QED BY <1>0, <2>1, <2>2, <2>3 DEF Once, Loaded
<1>5. ASSUME NEW n \in Module \ touched PROVE Answered(n)'
  BY <1>0 DEF Answered, M!Silent
<1> QED BY <1>0, <1>3, <1>4, <1>5 DEF ModulesInv, ModulesTypes

(* The loader that is called, or the chunk that runs, raises. *)
LEMMA RaisesStep ==
  ASSUME ModulesInv, M!LoaderRaises \/ M!ChunkRaises
  PROVE  ModulesInv'
<1>1. /\ chunks # <<>> /\ chunks \in Seq(Calls)
      /\ M!Raise(M!Front(chunks), M!Top.of)
      /\ UNCHANGED <<loaded, runs, ended, touched>>
  BY DEF ModulesInv, ModulesTypes, M!LoaderRaises, M!ChunkRaises,
     M!Searching, M!Running
<1>2. /\ M!Front(chunks) \in Seq(Calls)
      /\ DOMAIN M!Front(chunks) \subseteq DOMAIN chunks
      /\ \A i \in DOMAIN M!Front(chunks) : M!Front(chunks)[i] = chunks[i]
  BY <1>1, TopCallLemma
<1> QED BY <1>1, <1>2, RaiseStep

(* The chunk that a search found begins. *)
LEMMA FindsStep ==
  ASSUME ModulesInv, M!LoaderFinds
  PROVE  ModulesInv'
<1> DEFINE k == Len(chunks)
<1> DEFINE m == chunks[k].of
<1>0. /\ ModulesTypes /\ chunks \in Seq(Calls) /\ chunks # <<>>
      /\ \A n \in Module \ touched : Once(n) /\ Answered(n)
      /\ UNCHANGED <<ended, touched>> /\ required' = M!Silent
  BY DEF ModulesInv, ModulesTypes, M!LoaderFinds, M!Searching
<1>1. /\ k \in DOMAIN chunks /\ chunks[k] \in Calls /\ m \in Module
      /\ M!Top = chunks[k] /\ DOMAIN chunks = 1 .. k /\ k \in Nat
  BY <1>0, TopCallLemma DEF M!Top, Calls
<1>2. /\ loaded' = [loaded EXCEPT ![m] = M!Sentinel]
      /\ runs' = [runs EXCEPT ![m] = @ + 1]
      /\ chunks' = [chunks EXCEPT ![k].loader = 0]
      /\ chunks[k].loader # 0
  BY <1>1 DEF M!LoaderFinds, M!Searching, M!Mark
<1>3. /\ chunks' \in Seq(Calls) /\ DOMAIN chunks' = DOMAIN chunks
      /\ \A i \in DOMAIN chunks : i # k => chunks'[i] = chunks[i]
      /\ chunks'[k].of = m /\ chunks'[k].loader = 0
  <2>1. [chunks[k] EXCEPT !.loader = 0] \in Calls BY <1>1 DEF Calls
  <2>2. chunks' = [chunks EXCEPT ![k] = [chunks[k] EXCEPT !.loader = 0]]
    BY <1>2
  <2>3. chunks' \in Seq(Calls) /\ DOMAIN chunks' = DOMAIN chunks
    BY <1>0, <1>1, <2>1, <2>2
  <2> QED BY <1>1, <1>2, <2>2, <2>3 DEF Calls
<1>4. /\ loaded' \in [Module -> M!Slot] /\ runs' \in [Module -> Nat]
      /\ loaded'[m] = M!Sentinel /\ runs'[m] = runs[m] + 1
      /\ runs[m] \in Nat
      /\ \A n \in Module \ {m} : loaded'[n] = loaded[n] /\ runs'[n] = runs[n]
  BY <1>0, <1>1, <1>2 DEF ModulesTypes, M!Slot
<1>5. \A i \in DOMAIN chunks : chunks[i] \in Calls /\ i <= k
  BY <1>0, <1>1
<1> HIDE DEF k, m
<1>6. m = chunks[k].of BY DEF m
<1>7. ASSUME NEW n \in Module \ touched PROVE Once(n)'
  <2>1. Inside(n) /\ Placed(n) /\ Loaded(n) BY <1>0 DEF Once
  <2>2. CASE n # m
    <3>1. Inside(n)'
      BY <1>1, <1>3, <1>4, <1>6, <2>1, <2>2 DEF Inside, IsChunk, IsSearch
    <3>2. Placed(n)'
      BY <1>1, <1>3, <1>4, <1>6, <2>1, <2>2 DEF Placed, IsChunk, IsSearch
    <3> QED BY <1>0, <1>4, <2>1, <2>2, <3>1, <3>2 DEF Once, Loaded
  <2>3. CASE n = m
    <3>1. \A i \in DOMAIN chunks : ~(i < k /\ IsChunk(i, m))
      BY <1>1, <1>6, <2>1, <2>3 DEF Inside
    <3>2. \A i \in DOMAIN chunks : IsSearch(i, m) => chunks[i].begun < runs'[m]
      BY <1>4, <1>5, <2>1, <2>3 DEF Placed, Calls
    <3>3. Inside(n)'
      BY <1>1, <1>3, <1>5, <2>3, <3>1, <3>2 DEF IsChunk, IsSearch, Inside
    <3>4. Placed(n)'
      <4>1. loaded'[n] \in Begun BY <1>4, <2>3 DEF Begun
      <4>2. ASSUME NEW i \in DOMAIN chunks, i # k,
                   chunks'[i].of = n, chunks'[i].loader # 0
            PROVE  chunks'[i].begun < runs'[n] /\ chunks'[i].begun \in Nat
        BY <1>3, <1>5, <2>3, <3>2, <4>2 DEF IsSearch, Calls
      <4>3. runs'[n] \in Nat BY <1>4, <2>3
      <4> QED BY <1>3, <4>1, <4>2, <4>3 DEF Placed, IsChunk, IsSearch
    <3> QED BY <1>4, <2>3, <3>3, <3>4
            DEF Once, Loaded, M!Sentinel, M!True, M!Value, M!False
  <2> QED BY <2>2, <2>3
<1>8. ASSUME NEW n \in Module \ touched PROVE Answered(n)'
  BY <1>0 DEF Answered, M!Silent
<1> QED BY <1>0, <1>3, <1>4, <1>7, <1>8 DEF ModulesInv, ModulesTypes

(* The chunk that runs is the innermost call: its module's place says so,  *)
(* its name is in no chunk outside it, and the searches for it outside     *)
(* began before.                                                           *)
LEMMA RunningLemma ==
  ASSUME ModulesInv, M!Running
  PROVE  LET k == Len(chunks)
             m == chunks[k].of
         IN  /\ M!Top = chunks[k] /\ m \in Module /\ k \in DOMAIN chunks
             /\ chunks \in Seq(Calls) /\ chunks # <<>>
             /\ m \notin touched =>
                  /\ loaded[m] \in Begun
                  /\ \A i \in DOMAIN chunks :
                       /\ IsChunk(i, m) => i = k
                       /\ IsSearch(i, m) => chunks[i].begun < runs[m]
<1> DEFINE k == Len(chunks)
<1> DEFINE m == chunks[k].of
<1>1. /\ chunks \in Seq(Calls) /\ chunks # <<>>
      /\ k \in DOMAIN chunks /\ chunks[k] \in Calls
      /\ M!Top = chunks[k] /\ DOMAIN chunks = 1 .. k /\ k \in Nat
  BY TopCallLemma DEF M!Top, M!Running, ModulesInv, ModulesTypes
<1>2. m \in Module /\ IsChunk(k, m)
  BY <1>1 DEF Calls, M!Running, IsChunk
<1>3. \A i \in DOMAIN chunks : i # k => i < k
  BY <1>1
<1> HIDE DEF k, m
<1>4. ASSUME m \notin touched
      PROVE  /\ loaded[m] \in Begun
             /\ \A i \in DOMAIN chunks :
                  /\ IsChunk(i, m) => i = k
                  /\ IsSearch(i, m) => chunks[i].begun < runs[m]
  <2>1. Inside(m) /\ Placed(m) BY <1>2, <1>4 DEF ModulesInv, Once
  <2>2. loaded[m] \in Begun BY <1>1, <1>2, <2>1 DEF Placed
  <2>3. ASSUME NEW i \in DOMAIN chunks, i # k
        PROVE  /\ ~IsChunk(i, m)
               /\ IsSearch(i, m) => chunks[i].begun < runs[m]
    BY <1>1, <1>2, <1>3, <2>1, <2>3 DEF Inside, IsChunk
  <2>4. ~IsSearch(k, m) BY <1>2 DEF IsChunk, IsSearch
  <2> QED BY <2>2, <2>3, <2>4
<1> QED BY <1>1, <1>2, <1>4 DEF k, m

LEMMA CallsModuleStep ==
  ASSUME ModulesInv, NEW conflict \in BOOLEAN, M!CallsModule(conflict)
  PROVE  ModulesInv'
<1> DEFINE k == Len(chunks)
<1> DEFINE m == chunks[k].of
<1>1. /\ M!Top = chunks[k] /\ m \in Module /\ k \in DOMAIN chunks
      /\ chunks \in Seq(Calls)
      /\ m \notin touched =>
           \A i \in DOMAIN chunks :
             IsSearch(i, m) => chunks[i].begun < runs[m]
  BY RunningLemma DEF M!CallsModule
<1>2. CASE M!Raise(chunks, m) /\ UNCHANGED <<loaded, runs, ended, touched>>
  BY <1>1, <1>2, RaiseStep
<1>3. CASE loaded' = [loaded EXCEPT ![m] = M!ModuleTable]
           /\ required' = M!Silent
           /\ UNCHANGED <<chunks, runs, ended, touched>>
  <2> HIDE DEF m, k
  <2>1. ModulesTypes' BY <1>3 DEF ModulesTypes, M!Slot, ModulesInv
  <2>2. /\ loaded'[m] = M!ModuleTable
        /\ \A n \in Module \ {m} : loaded'[n] = loaded[n]
    BY <1>1, <1>3 DEF ModulesTypes, ModulesInv
  <2>3. ASSUME NEW n \in Module \ touched PROVE Once(n)'
    <3>1. Inside(n) /\ Placed(n) /\ Loaded(n) BY DEF ModulesInv, Once
    <3>2. Inside(n)' BY <1>3, <3>1 DEF Inside, IsChunk, IsSearch
    <3>3. CASE n = m
      <4>1. Placed(n)'
        <5>1. ASSUME NEW i \in DOMAIN chunks, IsSearch(i, m)
              PROVE  chunks[i].begun <= runs[m] /\ chunks[i].begun # runs[m]
          <6>1. runs[m] \in Nat /\ chunks[i].begun \in Nat
            <7>1. chunks[i] \in Calls BY <1>1, <5>1
            <7> QED BY <1>1, <7>1 DEF ModulesInv, ModulesTypes, Calls
          <6> QED BY <1>1, <3>3, <5>1, <6>1
        <5> QED BY <1>3, <2>2, <3>3, <5>1 DEF Placed, IsChunk, IsSearch, Begun
      <4> QED BY <2>2, <3>2, <3>3, <4>1
              DEF Once, Loaded, M!ModuleTable, M!True, M!Value, M!False
    <3>4. CASE n # m
      <4>1. Placed(n)'
        BY <1>3, <2>2, <3>1, <3>4 DEF Placed, IsChunk, IsSearch
      <4> QED BY <1>3, <2>2, <3>1, <3>2, <3>4, <4>1 DEF Once, Loaded
    <3> QED BY <3>3, <3>4
  <2>4. ASSUME NEW n \in Module \ touched PROVE Answered(n)'
    BY <1>3 DEF Answered, M!Silent
  <2> QED BY <1>3, <2>1, <2>3, <2>4 DEF ModulesInv
<1> QED BY <1>1, <1>2, <1>3 DEF M!CallsModule

LEMMA ReturnsStep ==
  ASSUME ModulesInv, NEW v \in {M!LuaNil, M!False, M!Value},
         M!ChunkReturns(v)
  PROVE  ModulesInv'
<1> DEFINE k == Len(chunks)
<1> DEFINE m == chunks[k].of
<1>1. /\ M!Top = chunks[k] /\ m \in Module
      /\ chunks \in Seq(Calls) /\ chunks # <<>>
      /\ m \notin touched =>
           \A i \in DOMAIN chunks :
             /\ IsChunk(i, m) => i = k
             /\ IsSearch(i, m) => chunks[i].begun < runs[m]
  BY RunningLemma DEF M!ChunkReturns
<1> PICK r \in M!Slot : r = M!Result(m, v)
  BY <1>1 DEF ModulesInv, ModulesTypes, M!Result, M!Slot
<1>2. /\ loaded' = [loaded EXCEPT ![m] = r]
      /\ required' = [of |-> {m}, is |-> r] /\ ended' = ended \cup {m}
      /\ chunks' = M!Front(chunks) /\ UNCHANGED <<runs, touched>>
  BY <1>1 DEF M!ChunkReturns, M!Say
<1>3. /\ chunks' \in Seq(Calls) /\ k \in Nat \ {0}
      /\ DOMAIN chunks = 1 .. k /\ DOMAIN chunks' = 1 .. k - 1
      /\ \A i \in DOMAIN chunks' : chunks'[i] = chunks[i]
  BY <1>1, <1>2, TopCallLemma
<1> HIDE DEF m, k
<1>4. /\ loaded'[m] = r
      /\ \A n \in Module \ {m} : loaded'[n] = loaded[n]
  BY <1>1, <1>2 DEF ModulesInv, ModulesTypes
<1>5. ModulesTypes'
  BY <1>1, <1>2, <1>3 DEF ModulesInv, ModulesTypes
<1>6. ASSUME NEW n \in Module \ touched PROVE Once(n)' /\ Answered(n)'
  <2>1. Inside(n) /\ Placed(n) /\ Loaded(n) /\ Answered(n)
    BY DEF ModulesInv, Once
  <2>2. Inside(n)'
    BY <1>2, <1>3, <2>1 DEF Inside, IsChunk, IsSearch
  <2>3. CASE n = m
    <3>1. ASSUME NEW i \in DOMAIN chunks'
          PROVE  /\ ~IsChunk(i, m)
                 /\ IsSearch(i, m) =>
                      /\ chunks[i].begun <= runs[m]
                      /\ chunks[i].begun # runs[m]
      <4>1. i \in DOMAIN chunks /\ i # k BY <1>3
      <4>2. runs[m] \in Nat /\ chunks[i].begun \in Nat
        <5>1. chunks[i] \in Calls BY <1>1, <4>1
        <5> QED BY <1>1, <5>1 DEF ModulesInv, ModulesTypes, Calls
      <4> QED BY <1>1, <2>3, <4>1, <4>2
    <3>2. \A i \in DOMAIN chunks' : ~IsChunk(i, n)'
      BY <1>3, <2>3, <3>1 DEF IsChunk
    <3>3. Placed(n)'
      BY <1>2, <1>3, <2>3, <3>1 DEF Placed, IsChunk, IsSearch
    <3> QED BY <1>2, <1>4, <2>2, <2>3, <3>2, <3>3 DEF Once, Loaded, Answered
  <2>4. CASE n # m
    <3>1. Placed(n)'
      BY <1>2, <1>3, <1>4, <2>1, <2>4 DEF Placed, IsChunk, IsSearch
    <3>2. Answered(n)'
      BY <1>2, <2>4 DEF Answered
    <3> QED BY <1>2, <1>4, <2>1, <2>2, <2>4, <3>1, <3>2 DEF Once, Loaded
  <2> QED BY <2>3, <2>4
<1> QED BY <1>2, <1>5, <1>6 DEF ModulesInv

LEMMA AssignsStep ==
  ASSUME ModulesInv, NEW m \in Module, NEW v \in {M!LuaNil, M!Value},
         M!Assigns(m, v)
  PROVE  ModulesInv'
<1> USE DEF ModulesInv, M!Assigns, M!Silent
<1>1. ModulesTypes' BY DEF ModulesTypes, M!Slot
<1>2. ASSUME NEW n \in Module \ touched' PROVE Once(n)' /\ Answered(n)'
  <2>1. n # m /\ n \in Module \ touched OBVIOUS
  <2>2. loaded'[n] = loaded[n] BY <2>1 DEF ModulesTypes
  <2> QED BY <2>1, <2>2
          DEF Once, Inside, Placed, Loaded, IsChunk, IsSearch, Answered
<1> QED BY <1>1, <1>2

LEMMA ModulesStep ==
  ASSUME ModulesInv, M!ModulesNext
  PROVE  ModulesInv'
  BY RequireStep, DeclinesStep, RaisesStep, FindsStep, CallsModuleStep,
     ReturnsStep, AssignsStep
     DEF M!ModulesNext

LEMMA ModulesGoal == ASSUME ModulesInv PROVE M!Loading
<1> SUFFICES ASSUME NEW n \in Module \ touched
             PROVE  /\ M!Cardinality(M!Runs(n)) <= 1
                    /\ M!Runs(n) # {} =>
                         loaded[n] \in {M!Sentinel, M!ModuleTable}
                    /\ loaded[n] \in {M!True, M!Value, M!False} =>
                         n \in ended
                    /\ required.of = {n}
                       /\ required.is \notin {"error", M!ModuleTable} =>
                         /\ required.is = loaded[n] /\ n \in ended
                         /\ M!Runs(n) = {}
  BY DEF M!Loading
<1>1. Inside(n) /\ Placed(n) /\ Loaded(n) /\ Answered(n)
  BY DEF ModulesInv, Once
<1>2. M!Runs(n) = {i \in DOMAIN chunks : IsChunk(i, n)}
  BY DEF M!Runs, IsChunk
<1>3. \A i, j \in M!Runs(n) : i = j
  <2>1. DOMAIN chunks \subseteq Nat BY DEF ModulesInv, ModulesTypes
  <2> QED BY <1>1, <1>2, <2>1 DEF Inside, IsChunk
<1>4. M!Cardinality(M!Runs(n)) <= 1
  <2> DEFINE A == M!Runs(n)
  <2>1. CASE A = {} BY <2>1, FS_EmptySet, CountLemma
  <2>2. CASE A # {}
    <3>1. PICK i \in A : TRUE BY <2>2
    <3>2. A = {i} BY <1>3, <3>1
    <3>3. M!Cardinality(A) = 1
      <4> HIDE DEF A
      <4> QED BY <3>2, FS_Singleton, CountLemma
    <3> QED BY <3>3
  <2> QED BY <2>1, <2>2
<1> QED BY <1>1, <1>2, <1>4 DEF Placed, Loaded, Answered, Begun

(* A chunk begins when its search still holds what it found, or since that *)
(* a chunk began; and nothing else replaces what was loaded.               *)
LEMMA RunsOnceLemma ==
  ASSUME ModulesInv, M!ModulesNext
  PROVE  M!RunsOnce
<1> SUFFICES ASSUME NEW n \in Module \ touched'
             PROVE  /\ runs[n]' > runs[n] =>
                         \/ loaded[n] \in {M!LuaNil, M!False}
                         \/ M!Top.begun < runs[n]
                    /\ loaded[n] \in {M!True, M!Value}
                       /\ loaded[n]' # loaded[n] => runs[n]' > runs[n]
  BY DEF M!RunsOnce
<1> DEFINE Quiet == loaded'[n] = loaded[n] /\ runs'[n] = runs[n]
<1> DEFINE k == Len(chunks)
<1>0. runs[n] \in Nat BY DEF ModulesInv, ModulesTypes
<1>1. Quiet => ~(runs[n]' > runs[n]) BY <1>0
<1>2. CASE UNCHANGED <<loaded, runs>> BY <1>1, <1>2
<1>3. CASE M!LoaderFinds
  <2>1. /\ chunks \in Seq(Calls) /\ chunks # <<>> /\ M!Top.loader > 0
        /\ loaded' = [loaded EXCEPT ![M!Top.of] = M!Sentinel]
        /\ runs' = [runs EXCEPT ![M!Top.of] = @ + 1]
        /\ n \in Module \ touched
    BY <1>3 DEF M!LoaderFinds, M!Searching, M!Mark, ModulesInv, ModulesTypes
  <2>2. M!Top = chunks[k] /\ k \in DOMAIN chunks /\ chunks[k] \in Calls
    BY <2>1, TopCallLemma DEF M!Top
  <2>3. CASE n # M!Top.of
    <3>1. Quiet BY <2>1, <2>3 DEF ModulesInv, ModulesTypes
    <3> QED BY <1>1, <3>1
  <2>4. CASE n = M!Top.of
    <3>1. Placed(n) /\ IsSearch(k, n)
      BY <2>1, <2>2, <2>4 DEF ModulesInv, Once, IsSearch
    <3>2. /\ chunks[k].begun <= runs[n] /\ chunks[k].begun \in Nat
          /\ chunks[k].begun = runs[n] => loaded[n] \in Empty
      BY <2>2, <3>1 DEF Placed, Calls
    <3>3. runs'[n] > runs[n]
      BY <1>0, <2>1, <2>4 DEF ModulesInv, ModulesTypes
    <3> QED BY <1>0, <2>2, <3>2, <3>3 DEF Empty
  <2> QED BY <2>3, <2>4
<1>4. ASSUME NEW c \in BOOLEAN, M!CallsModule(c),
             loaded' = [loaded EXCEPT ![M!Top.of] = M!ModuleTable]
      PROVE  runs' = runs /\ (loaded'[n] = loaded[n] \/ loaded[n] \in Begun)
  <2>1. runs' = runs /\ n \in Module \ touched /\ M!Running
    BY <1>4 DEF M!CallsModule
  <2>2. n = M!Top.of => loaded[n] \in Begun
    BY <2>1, RunningLemma
  <2>3. n # M!Top.of => loaded'[n] = loaded[n]
    BY <1>4 DEF ModulesInv, ModulesTypes
  <2> QED BY <2>1, <2>2, <2>3
<1>5. ASSUME NEW v \in {M!LuaNil, M!False, M!Value}, M!ChunkReturns(v)
      PROVE  runs' = runs /\ (loaded'[n] = loaded[n] \/ loaded[n] \in Begun)
  <2>1. /\ runs' = runs /\ n \in Module \ touched /\ M!Running
        /\ loaded' = [loaded EXCEPT ![M!Top.of] = M!Result(M!Top.of, v)]
    BY <1>5 DEF M!ChunkReturns
  <2>2. n = M!Top.of => loaded[n] \in Begun
    BY <2>1, RunningLemma
  <2>3. n # M!Top.of => loaded'[n] = loaded[n]
    BY <2>1 DEF ModulesInv, ModulesTypes
  <2> QED BY <2>1, <2>2, <2>3
<1>6. CASE runs' = runs /\ (loaded'[n] = loaded[n] \/ loaded[n] \in Begun)
  BY <1>0, <1>6 DEF Begun, M!Sentinel, M!ModuleTable, M!True, M!Value
<1>7. ASSUME NEW m \in Module, NEW v \in {M!LuaNil, M!Value}, M!Assigns(m, v)
      PROVE  Quiet
  BY <1>7 DEF M!Assigns, ModulesInv, ModulesTypes
<1>8. ASSUME NEW c \in BOOLEAN, M!CallsModule(c)
      PROVE  \/ UNCHANGED <<loaded, runs>>
             \/ loaded' = [loaded EXCEPT ![M!Top.of] = M!ModuleTable]
  BY <1>8 DEF M!CallsModule
<1>9. ASSUME NEW m \in Module, M!Require(m) PROVE UNCHANGED <<loaded, runs>>
  BY <1>9 DEF M!Require
<1>10. ASSUME M!LoaderDeclines \/ M!LoaderRaises \/ M!ChunkRaises
       PROVE  UNCHANGED <<loaded, runs>>
  BY <1>10 DEF M!LoaderDeclines, M!LoaderRaises, M!ChunkRaises
<1> HIDE DEF Quiet
<1> QED
  <2>1. CASE \E m \in Module : M!Require(m) BY <1>2, <1>9, <2>1
  <2>2. CASE M!LoaderDeclines \/ M!LoaderRaises \/ M!ChunkRaises
    BY <1>2, <1>10, <2>2
  <2>3. CASE \E c \in BOOLEAN : M!CallsModule(c)
    BY <1>2, <1>4, <1>6, <1>8, <2>3
  <2>4. CASE \E v \in {M!LuaNil, M!False, M!Value} : M!ChunkReturns(v)
    BY <1>5, <1>6, <2>4
  <2>5. CASE \E m \in Module, v \in {M!LuaNil, M!Value} : M!Assigns(m, v)
    <3>1. Quiet BY <1>7, <2>5
    <3> QED BY <1>1, <3>1 DEF Quiet
  <2> QED BY <1>3, <2>1, <2>2, <2>3, <2>4, <2>5 DEF M!ModulesNext

(* The chunk of a module runs once, modules that require one another in a  *)
(* ring included, whatever raises and whatever is caught; it runs again    *)
(* only if its place is empty or false, or if it ran since that was seen.  *)
THEOREM RunOnceAlways == PartsSpec => RunOnce
<1> DEFINE Inv == part = "modules" => ModulesInv
<1>1. PartsInit => Inv
  BY ModulesStart DEF PartsInit
<1>2. Inv /\ [PartsNext]_parts => Inv'
  <2> SUFFICES ASSUME Inv, [PartsNext]_parts PROVE Inv' OBVIOUS
  <2>1. CASE PartsNext BY <2>1, StepOf, ModulesStep
  <2>2. CASE UNCHANGED parts
    BY <2>2 DEF parts, modules, ModulesInv, ModulesTypes, Once, Inside,
       Placed, Loaded, IsChunk, IsSearch, Answered
  <2> QED BY <2>1, <2>2
<1>3. Inv => (part = "modules" => M!Loading)
  BY ModulesGoal
<1>4. Inv /\ [PartsNext]_parts => [part = "modules" => M!RunsOnce]_parts
  <2> SUFFICES ASSUME Inv, PartsNext, part = "modules" PROVE M!RunsOnce
    OBVIOUS
  <2> QED BY StepOf, RunsOnceLemma
<1> QED BY <1>1, <1>2, <1>3, <1>4, PTL DEF PartsSpec, RunOnce

-----------------------------------------------------------------------------
(* Proxies of properties.                                                  *)

(* What reading the property gave at some time since x was made: the AS3   *)
(* value, or its Lua form.                                                 *)
Gave == {S!AS3(v) : v \in held} \cup {S!as3_tolua(S!AS3(v)) : v \in held}

SugarTypes ==
  /\ property \in [AsObj -> S!AsVal] /\ held \subseteq S!AsVal
  /\ x.is \in {"as3", "callobj", "pkgobj", "number", "nil"}

(* A callobj keeps something its property held, and held it lately. *)
Kept ==
  x.is = "callobj" =>
    /\ x = S!Callobj(x.of, x.value) /\ x.of \in AsObj
    /\ property[x.of] \in held
    /\ x.value # S!LuaNil => x.value \in Gave

Agree == getter = tolua /\ (flag \in BOOLEAN => tolua = flag)

Read ==
  answer.is = "read" /\ x.is = "callobj" =>
    /\ answer.got \in {S!as3_tolua(S!AS3(v)) : v \in held}
    /\ answer.first => answer.got = S!as3_tolua(S!as3_get(x.of))

ProxyInv == SugarTypes /\ Kept /\ Agree /\ Read

LEMMA ToLuaLemma ==
  ASSUME NEW v
  PROVE  /\ S!as3_tolua(S!AS3(v)) \in {S!AS3(v), S!LuaNil, S!LuaNumber}
         /\ S!as3_tolua(S!as3_tolua(S!AS3(v))) = S!as3_tolua(S!AS3(v))
         /\ S!as3_tolua(S!LuaNil) = S!LuaNil
         /\ S!AS3(v).is = "as3" /\ S!LuaNil.is = "nil"
         /\ S!LuaNumber.is = "number"
  BY DEF S!as3_tolua, S!AS3, S!LuaNil, S!LuaNumber

(* What a callobj stands for was there, and is the present value when it   *)
(* had not been read.                                                      *)
LEMMA ValueLemma ==
  ASSUME ProxyInv, x.is = "callobj"
  PROVE  /\ S!Value(x) \in Gave
         /\ S!as3_tolua(S!Value(x)) \in {S!as3_tolua(S!AS3(v)) : v \in held}
         /\ x.value = S!LuaNil =>
              S!as3_tolua(S!Value(x)) = S!as3_tolua(S!as3_get(x.of))
<1>1. S!Value(x) \in Gave
  BY DEF ProxyInv, Kept, Gave, S!Value, S!MaybeToLua, S!as3_get
<1>2. ASSUME NEW w \in Gave
      PROVE  S!as3_tolua(w) \in {S!as3_tolua(S!AS3(v)) : v \in held}
  BY <1>2, ToLuaLemma DEF Gave
<1>3. ASSUME x.value = S!LuaNil
      PROVE  S!as3_tolua(S!Value(x)) = S!as3_tolua(S!as3_get(x.of))
  BY <1>3, ToLuaLemma DEF S!Value, S!MaybeToLua, S!as3_get
<1> QED BY <1>1, <1>2, <1>3

LEMMA RememberLemma ==
  ASSUME ProxyInv
  PROVE  LET y == S!Remember(x) IN
         /\ y.is = x.is
         /\ x.is # "callobj" => y = x
         /\ x.is = "callobj" =>
              y = S!Callobj(x.of, S!Value(x)) /\ y.of = x.of
              /\ y.value = S!Value(x)
  BY DEF S!Remember, ProxyInv, Kept, S!Callobj

LEMMA ProxyStart == S!SugarInit => ProxyInv
<1> SUFFICES ASSUME S!SugarInit PROVE ProxyInv OBVIOUS
<1> USE DEF S!SugarInit
<1>1. x.is = "as3" /\ answer.is = "nil" BY DEF S!AS3, S!LuaNil
<1>2. getter = FALSE /\ tolua = FALSE /\ flag = FALSE OBVIOUS
<1>3. SugarTypes BY <1>1 DEF SugarTypes
<1>4. Agree BY <1>2 DEF Agree
<1> QED BY <1>1, <1>3, <1>4 DEF ProxyInv, Kept, Read

(* The operations that give no value and leave x what it was, or forget    *)
(* it, while the property may change.                                      *)
LEMMA ProxyUnread ==
  ASSUME ProxyInv, SugarTypes', Agree', answer'.is # "read",
         \/ x'.is # "callobj"
         \/ /\ x'.is = "callobj" /\ x.is = "callobj"
            /\ x' \in {x, S!Remember(x)}
            /\ held \subseteq held' /\ property'[x.of] \in held'
  PROVE  ProxyInv'
<1>1. Read' BY DEF Read
<1>2. CASE x'.is # "callobj"
  BY <1>1, <1>2 DEF ProxyInv, Kept
<1>3. CASE x'.is = "callobj"
  <2>1. Gave \subseteq Gave' BY <1>3 DEF Gave
  <2>2. /\ x' = S!Callobj(x'.of, x'.value) /\ x'.of = x.of
        /\ x'.value # S!LuaNil => x'.value \in Gave
    <3>1. CASE x' = x BY <1>3, <3>1 DEF ProxyInv, Kept
    <3>2. CASE x' = S!Remember(x)
      BY <1>3, <3>2, RememberLemma, ValueLemma
    <3> QED BY <1>3, <3>1, <3>2
  <2>3. Kept' BY <1>3, <2>1, <2>2 DEF Kept, ProxyInv
  <2> QED BY <1>1, <2>3 DEF ProxyInv
<1> QED BY <1>2, <1>3

LEMMA IndexStep == ASSUME ProxyInv, S!Index PROVE ProxyInv'
<1> DEFINE t == S!Unproxy(x)
<1>1. /\ UNCHANGED <<property, flag, getter, tolua>> /\ x.is # "pkgobj"
      /\ answer' \in {S!LuaNil, S!Raised}
  BY DEF S!Index, S!NoWalk, S!Stays, S!switch
<1>2. Agree' BY <1>1 DEF Agree, ProxyInv
<1>3. answer'.is # "read" BY <1>1 DEF S!LuaNil, S!Raised
<1>4. CASE t.is = "as3"
  <2>1. x' = S!MakeCallobj(t.of) /\ held' = {property[t.of]}
    BY <1>4 DEF S!Index
  <2> DEFINE o == t.of
  <2>2. o \in AsObj BY <1>4 DEF S!Index, S!HasProperties
  <2> HIDE DEF o, t
  <2>3. \/ x' = S!Callobj(o, S!LuaNil)
        \/ x' = S!Callobj(o, S!AS3(property[o]))
        \/ x' \in {S!LuaNil, S!LuaNumber}
    BY <2>1, ToLuaLemma DEF S!MakeCallobj, S!as3_get, o
  <2>4. SugarTypes'
    BY <1>1, <2>1, <2>2, <2>3
       DEF ProxyInv, SugarTypes, S!Callobj, S!LuaNil, S!LuaNumber, o
  <2>5. Kept'
    <3>1. CASE x' = S!Callobj(o, S!LuaNil)
      BY <1>1, <2>1, <2>2, <3>1 DEF Kept, S!Callobj, o
    <3>2. CASE x' = S!Callobj(o, S!AS3(property[o]))
      <4>1. x'.of = o /\ x'.value = S!AS3(property[o])
        BY <3>2 DEF S!Callobj
      <4>2. x'.value \in Gave'
        BY <1>1, <2>1, <4>1 DEF Gave, o
      <4> QED BY <1>1, <2>1, <2>2, <3>2, <4>1, <4>2 DEF Kept, o
    <3>3. CASE x' \in {S!LuaNil, S!LuaNumber}
      BY <3>3 DEF Kept, S!LuaNil, S!LuaNumber
    <3> QED BY <2>3, <3>1, <3>2, <3>3
  <2> QED BY <1>2, <1>3, <2>4, <2>5 DEF ProxyInv, Read
<1>5. CASE t.is # "as3"
  <2>1. x' = S!Remember(x) /\ held' = held
    BY <1>5 DEF S!Index
  <2>2. SugarTypes'
    BY <1>1, <2>1, RememberLemma DEF ProxyInv, SugarTypes
  <2>3. x.is = "callobj" => property[x.of] \in held
    BY DEF ProxyInv, Kept
  <2> QED BY <1>1, <1>2, <1>3, <2>1, <2>2, <2>3, RememberLemma, ProxyUnread
<1> QED BY <1>4, <1>5

LEMMA NewIndexStep ==
  ASSUME ProxyInv, NEW v \in S!AsVal, S!NewIndex(v)
  PROVE  ProxyInv'
<1> DEFINE t == S!Unproxy(x)
<1>1. /\ UNCHANGED <<flag, getter, tolua>> /\ x' = S!Remember(x)
      /\ answer' \in {S!LuaNil, S!Raised}
  BY DEF S!NewIndex, S!Stays, S!switch
<1>2. Agree' BY <1>1 DEF Agree, ProxyInv
<1>3. answer'.is # "read" BY <1>1 DEF S!LuaNil, S!Raised
<1>4. \/ UNCHANGED <<property, held>>
      \/ /\ t.of \in AsObj /\ property' = [property EXCEPT ![t.of] = v]
         /\ held' = IF x.is = "callobj" /\ x.of = t.of
                    THEN held \cup {v} ELSE held
  BY DEF S!NewIndex, S!HasProperties
<1> HIDE DEF t
<1>5. SugarTypes'
  BY <1>1, <1>4, RememberLemma DEF ProxyInv, SugarTypes
<1>6. ASSUME x.is = "callobj"
      PROVE  held \subseteq held' /\ property'[x.of] \in held'
  BY <1>4, <1>6 DEF ProxyInv, SugarTypes, Kept
<1> QED BY <1>1, <1>2, <1>3, <1>5, <1>6, RememberLemma, ProxyUnread

LEMMA PatchedStep == ASSUME ProxyInv, S!Patched PROVE ProxyInv'
<1>1. /\ answer' = [is |-> "read", got |-> S!as3_tolua(S!Unproxy(x)),
                    first |-> x.is = "callobj" /\ x.value = S!LuaNil]
      /\ x' = S!Remember(x)
      /\ UNCHANGED <<flag, getter, tolua, property, held>>
  BY DEF S!Patched, S!Stays, S!switch
<1>2. SugarTypes' /\ Agree'
  BY <1>1, RememberLemma DEF ProxyInv, SugarTypes, Agree
<1>3. CASE x.is # "callobj"
  BY <1>1, <1>2, <1>3, RememberLemma DEF ProxyInv, Kept, Read
<1>4. CASE x.is = "callobj"
  <2>1. /\ x' = S!Callobj(x.of, S!Value(x)) /\ x'.of = x.of
        /\ x'.value = S!Value(x) /\ x'.is = "callobj"
    BY <1>1, <1>4, RememberLemma
  <2>2. Gave' = Gave BY <1>1 DEF Gave
  <2>3. Kept'
    BY <1>1, <1>4, <2>1, <2>2, ValueLemma DEF Kept, ProxyInv
  <2>4. S!Unproxy(x) = S!Value(x) BY <1>4 DEF S!Unproxy
  <2>5. /\ answer'.got = S!as3_tolua(S!Value(x))
        /\ answer'.first => x.value = S!LuaNil
    BY <1>1, <2>4
  <2>6. S!as3_get(x.of)' = S!as3_get(x.of)
    BY <1>1, <2>1 DEF S!as3_get
  <2>7. Read'
    BY <1>1, <1>4, <2>1, <2>5, <2>6, ValueLemma DEF Read
  <2> QED BY <1>2, <2>3, <2>7 DEF ProxyInv
<1> QED BY <1>3, <1>4

LEMMA AS3WritesStep ==
  ASSUME ProxyInv, NEW o \in AsObj, NEW v \in S!AsVal, S!AS3Writes(o, v)
  PROVE  ProxyInv'
<1>1. /\ property' = [property EXCEPT ![o] = v]
      /\ held' = IF x.is = "callobj" /\ x.of = o THEN held \cup {v} ELSE held
      /\ answer' = S!LuaNil /\ UNCHANGED <<x, flag, getter, tolua>>
  BY DEF S!AS3Writes, S!Stays, S!switch
<1>2. SugarTypes' /\ Agree' /\ answer'.is # "read"
  BY <1>1 DEF ProxyInv, SugarTypes, Agree, S!LuaNil
<1>3. ASSUME x.is = "callobj"
      PROVE  held \subseteq held' /\ property'[x.of] \in held'
  BY <1>1, <1>3 DEF ProxyInv, SugarTypes, Kept
<1> QED BY <1>1, <1>2, <1>3, ProxyUnread

(* The rest: the switch, and what no callobj is in. *)
LEMMA OthersStep ==
  ASSUME ProxyInv,
         \/ S!CallMethod \/ S!Unpatched \/ S!Forget \/ S!PkgCall
         \/ \E arg \in {TRUE, FALSE, NotBoolean} : S!Enable(arg)
         \/ \E kind \in S!Kinds, s \in S!Steps : S!Walk(kind, s)
         \/ \E s \in S!Steps : S!WalkOn(s)
         \/ \E k \in Segments : S!PkgNewIndex(k)
  PROVE  ProxyInv'
<1>1. CASE S!CallMethod \/ S!Unpatched
  <2>1. /\ UNCHANGED <<flag, getter, tolua, property, x, held>>
        /\ answer'.is # "read"
    BY <1>1 DEF S!CallMethod, S!Unpatched, S!Stays, S!switch
  <2> QED BY <2>1 DEF ProxyInv, SugarTypes, Kept, Agree, Read, Gave
<1>2. CASE S!Forget
  <2>1. /\ UNCHANGED <<flag, getter, tolua, property>> /\ held' = {}
        /\ answer'.is # "read" /\ x'.is = "as3"
    BY <1>2 DEF S!Forget, S!Stays, S!switch, S!AS3, S!LuaNil
  <2> QED BY <2>1 DEF ProxyInv, SugarTypes, Kept, Agree, Read
<1>3. ASSUME NEW arg \in {TRUE, FALSE, NotBoolean}, S!Enable(arg)
      PROVE  ProxyInv'
  <2>1. UNCHANGED <<property, x, held>> /\ answer'.is # "read"
    BY <1>3 DEF S!Enable, S!Raised, S!LuaNil
  <2>2. Agree' BY <1>3 DEF S!Enable, Agree, ProxyInv
  <2> QED BY <2>1, <2>2 DEF ProxyInv, SugarTypes, Kept, Read, Gave
<1>4. CASE S!PkgCall \/ \E k \in Segments : S!PkgNewIndex(k)
  <2>1. UNCHANGED <<flag, getter, tolua, property, x, held>> /\ x.is = "pkgobj"
    BY <1>4 DEF S!PkgCall, S!PkgNewIndex, S!Stays, S!switch
  <2> QED BY <2>1 DEF ProxyInv, SugarTypes, Kept, Agree, Read
<1>5. ASSUME NEW kind, NEW segs
      PROVE  S!make_pkgobj(kind, segs).is \in {"number", "pkgobj"}
  BY DEF S!make_pkgobj, S!LuaNumber
<1>6. ASSUME NEW kind \in S!Kinds, NEW s \in S!Steps, S!Walk(kind, s)
      PROVE  ProxyInv'
  <2>1. /\ UNCHANGED <<flag, getter, tolua, property>> /\ held' = {}
        /\ x'.is \in {"number", "pkgobj"}
    BY <1>5, <1>6 DEF S!Walk, S!Stays, S!switch
  <2> QED BY <2>1 DEF ProxyInv, SugarTypes, Kept, Agree, Read
<1>7. ASSUME NEW s \in S!Steps, S!WalkOn(s) PROVE ProxyInv'
  <2>1. /\ UNCHANGED <<flag, getter, tolua, property, held>>
        /\ x'.is \in {"number", "pkgobj"}
    BY <1>5, <1>7 DEF S!WalkOn, S!Stays, S!switch
  <2> QED BY <2>1 DEF ProxyInv, SugarTypes, Kept, Agree, Read
<1> QED BY <1>1, <1>2, <1>3, <1>4, <1>6, <1>7

LEMMA ProxyStep ==
  ASSUME ProxyInv, S!SugarNext
  PROVE  ProxyInv'
  BY IndexStep, NewIndexStep, PatchedStep, AS3WritesStep, OthersStep
     DEF S!SugarNext

(* What a function gets through a proxy is a value the property had since  *)
(* the proxy was made, the present one when it had not been read; and the  *)
(* two handlers of the switch agree.                                       *)
THEOREM ProxyIsTruthfulAlways == PartsSpec => []ProxyIsTruthful
<1> DEFINE Inv == part = "sugar" => ProxyInv
<1>1. PartsInit => Inv
  BY ProxyStart DEF PartsInit
<1>2. Inv /\ [PartsNext]_parts => Inv'
  <2> SUFFICES ASSUME Inv, [PartsNext]_parts PROVE Inv' OBVIOUS
  <2>1. CASE PartsNext BY <2>1, StepOf, ProxyStep
  <2>2. CASE UNCHANGED parts
    BY <2>2 DEF parts, sugar, ProxyInv, SugarTypes, Kept, Agree, Read, Gave,
                S!as3_get
  <2> QED BY <2>1, <2>2
<1>3. Inv => ProxyIsTruthful
  <2> SUFFICES ASSUME ProxyInv PROVE S!ProxyIsTruthful
    BY DEF ProxyIsTruthful
  <2>1. x.is = "callobj" /\ x.value # S!LuaNil =>
          x.value.is \in {"as3", "number"}
    BY ToLuaLemma DEF ProxyInv, Kept, Gave
  <2> QED BY <2>1 DEF ProxyInv, Read, Agree, S!ProxyIsTruthful
<1> QED BY <1>1, <1>2, <1>3, PTL DEF PartsSpec

-----------------------------------------------------------------------------
(* Proxies of paths.                                                       *)

(* A path of the segments s keeps them split. *)
IsPath(p, s) ==
  /\ p.is = "pkgobj" /\ p.namespace = S!splitpath(s).namespace
  /\ p.class = S!splitpath(s).class /\ p.key = S!splitpath(s).key

Walked ==
  /\ given \in Seq(Segments)
  /\ x.is \in {"as3", "callobj", "pkgobj", "number", "nil"}
  /\ x.is = "pkgobj" => IsPath(x, given)
  /\ x.is = "number" /\ given # <<>> =>
       Len(given) > 1 /\ S!Last(given) \in Statics
  /\ x.is \in {"as3", "callobj"} => given = <<>>

Asked ==
  /\ answer.is = "namespacecall" =>
       /\ answer.of = S!get_class(S!Qualified(given))
       /\ answer.dot => Len(given) = 2
  /\ answer.is \in {"new2", "newclass2", "call"} =>
       /\ answer.of = S!get_class(S!Qualified(S!Front(given)))
       /\ answer.key = <<S!Last(given)>> /\ ~answer.dot
  /\ answer.is = "set" => answer.of = S!get_class(S!Qualified(given))

PathInv == Walked /\ Asked

(* splitpath() by the number of segments, and what its parts make again.   *)
LEMMA SplitLemma ==
  ASSUME NEW s \in Seq(Segments)
  PROVE  LET p == S!splitpath(s) IN
         /\ Len(s) \in Nat
         /\ Len(s) > 0 <=> p.key # <<>>
         /\ Len(s) > 0 => p.key = <<S!Last(s)>>
         /\ Len(s) > 0 => p.namespace \o p.class = S!Front(s)
         /\ Len(s) > 1 <=> p.class # <<>>
         /\ Len(s) > 1 => p.namespace = S!Front(S!Front(s))
         /\ Len(s) > 1 => p.class = <<S!Last(S!Front(s))>>
         /\ p.namespace \o p.class \o p.key = s
<1> DEFINE p == S!splitpath(s)
<1> PICK n \in Nat : n = Len(s) OBVIOUS
<1>0. s \in Seq(Segments) /\ DOMAIN s = 1 .. n OBVIOUS
<1>1. CASE n = 0
  <2>1. s = <<>> BY <1>1, EmptySeq
  <2>2. p.namespace = <<>> /\ p.class = <<>> /\ p.key = <<>>
    BY <1>1, <2>1 DEF S!splitpath, S!None
  <2> QED BY <1>1, <2>1, <2>2
<1>2. CASE n = 1
  <2>1. s = <<s[1]>>
    <3>1. Len(s) = 1 BY <1>2
    <3> QED BY <3>1
  <2>2. p.namespace = <<>> /\ p.class = <<>> /\ p.key = <<s[1]>>
    BY <1>2 DEF S!splitpath, S!None
  <2>3. S!Front(s) = <<>> /\ S!Last(s) = s[1] BY <1>2 DEF S!Front, S!Last
  <2> QED BY <1>2, <2>1, <2>2, <2>3
<1>3. CASE n > 1
  <2>1. /\ p.namespace = SubSeq(s, 1, n - 2) /\ p.class = <<s[n - 1]>>
        /\ p.key = <<s[n]>>
    BY <1>3 DEF S!splitpath
  <2>2. S!Front(s) = SubSeq(s, 1, n - 1) /\ S!Last(s) = s[n]
    BY DEF S!Front, S!Last
  <2>3. S!Front(s) \in Seq(Segments) /\ Len(S!Front(s)) = n - 1
        /\ \A i \in 1 .. n - 1 : S!Front(s)[i] = s[i]
    BY <1>3, <2>2
  <2>4. /\ S!Front(S!Front(s)) = SubSeq(s, 1, n - 2)
        /\ S!Last(S!Front(s)) = s[n - 1]
    BY <1>3, <2>3, <2>2 DEF S!Front, S!Last
  <2>5. SubSeq(s, 1, n - 2) \o <<s[n - 1]>> = SubSeq(s, 1, n - 1)
    <3>1. n - 1 \in 1 .. Len(s) /\ 1 \in 1 .. Len(s) /\ n - 1 - 1 = n - 2
      BY <1>3
    <3>2. SubSeq(s, 1, n - 1) = SubSeq(s, 1, n - 1 - 1) \o <<s[n - 1]>>
      BY <3>1, SubSeqRecursiveSecond
    <3> QED BY <3>1, <3>2
  <2>6. SubSeq(s, 1, n - 1) \o <<s[n]>> = s
    <3>1. n \in 1 .. Len(s) /\ 1 \in 1 .. Len(s) BY <1>3
    <3>2. SubSeq(s, 1, n) = SubSeq(s, 1, n - 1) \o <<s[n]>>
      BY <3>1, SubSeqRecursiveSecond
    <3> QED BY <3>2, SubSeqFull
  <2>7. <<s[n]>> # <<>> /\ <<s[n - 1]>> # <<>> OBVIOUS
  <2>8. /\ p.key # <<>> /\ p.class # <<>>
        /\ p.key = <<S!Last(s)>> /\ p.namespace \o p.class = S!Front(s)
        /\ p.namespace = S!Front(S!Front(s)) /\ p.class = <<S!Last(S!Front(s))>>
        /\ p.namespace \o p.class \o p.key = s
    <3> HIDE DEF p
    <3> QED BY <2>1, <2>2, <2>4, <2>5, <2>6, <2>7
  <2>9. n > 0 BY <1>3
  <2> QED BY <1>3, <2>8, <2>9
<1>4. n = 0 \/ n = 1 \/ n > 1 OBVIOUS
<1> QED BY <1>1, <1>2, <1>3, <1>4

(* The qualified name of a path means its last segment in the rest. *)
LEMMA QualifiedLemma ==
  ASSUME S!SugarAssumption, NEW s \in Seq(Segments), Len(s) > 0
  PROVE  S!get_class(S!Qualified(s)) =
           [namespace |-> S!Front(s), name |-> <<S!Last(s)>>]
<1> PICK n \in Nat : n = Len(s) OBVIOUS
<1>0. n \in Nat \ {0} /\ DOMAIN s = 1 .. n /\ \A i \in 1 .. n : s[i] # Colons
  BY DEF S!SugarAssumption
<1>1. CASE n = 1
  <2>1. S!Qualified(s) = s BY <1>1 DEF S!Qualified
  <2>2. {i \in DOMAIN s : s[i] = Colons} = {} BY <1>0
  <2>3. S!Front(s) = <<>> /\ <<S!Last(s)>> = s
    <3>1. Len(s) = 1 BY <1>1
    <3> QED BY <3>1 DEF S!Front, S!Last
  <2> QED BY <2>1, <2>2, <2>3 DEF S!get_class, S!AS3_NSGetS
<1>2. CASE n > 1
  <2> DEFINE name == S!Front(s) \o <<Colons, S!Last(s)>>
             at   == {i \in DOMAIN name : name[i] = Colons}
  <2>1. S!Qualified(s) = name BY <1>2 DEF S!Qualified
  <2>2. /\ S!Front(s) \in Seq(Segments) /\ Len(S!Front(s)) = n - 1
        /\ \A i \in 1 .. n - 1 : S!Front(s)[i] = s[i]
        /\ S!Last(s) = s[n]
    BY <1>0 DEF S!Front, S!Last
  <2>3. /\ Len(name) = n + 1 /\ DOMAIN name = 1 .. n + 1
        /\ \A i \in 1 .. n - 1 : name[i] = s[i]
        /\ name[n] = Colons /\ name[n + 1] = s[n]
        /\ name \in Seq(Segments \cup {Colons})
    BY <1>0, <2>2
  <2>4. at = {n} BY <1>0, <2>3
  <2>5. (CHOOSE j \in at : \A k \in at : j <= k) = n
    BY <1>0, <2>4
  <2>6. SubSeq(name, 1, n - 1) = S!Front(s)
    <3> DEFINE t == SubSeq(name, 1, n - 1)
    <3>1. \A i \in 1 .. n - 1 : name[i] \in Segments
      BY <1>0, <2>2, <2>3
    <3> HIDE DEF name
    <3>2. /\ t \in Seq(Segments) /\ Len(t) = n - 1
          /\ \A i \in 1 .. n - 1 - 1 + 1 : t[i] = name[1 + i - 1]
      <4>1. Len(t) = IF 1 <= n - 1 THEN n - 1 - 1 + 1 ELSE 0
        BY <1>0, <3>1, SubSeqProperties
      <4>2. t \in Seq(Segments)
        BY <1>0, <3>1, SubSeqProperties
      <4>3. \A i \in 1 .. n - 1 - 1 + 1 : t[i] = name[1 + i - 1]
        BY <1>0, <3>1, SubSeqProperties
      <4> HIDE DEF t
      <4> QED BY <1>0, <1>2, <4>1, <4>2, <4>3
    <3>3. \A i \in 1 .. Len(t) : t[i] = S!Front(s)[i]
      BY <1>0, <2>2, <2>3, <3>2
    <3> HIDE DEF t
    <3>4. t = S!Front(s) BY <2>2, <3>2, <3>3, SeqEqual
    <3> QED BY <3>4 DEF t
  <2>7. SubSeq(name, n + 1, Len(name)) = <<S!Last(s)>>
    <3> HIDE DEF name
    <3>1. SubSeq(name, n + 1, n + 1) = <<name[n + 1]>>
      <4> PICK m \in 1 .. Len(name) : m = n + 1 BY <1>0, <2>3
      <4>1. SubSeq(name, m, m) = <<name[m]>> \o SubSeq(name, m + 1, m)
        BY <2>3, m \in m .. Len(name), SubSeqRecursiveFirst
      <4>2. SubSeq(name, m + 1, m) = <<>>
        BY m \in Int, m + 1 \in Int, m < m + 1, SubSeqEmpty
      <4>3. <<name[m]>> \in Seq(Segments \cup {Colons})
        BY <2>3
      <4> QED BY <4>1, <4>2, <4>3, ConcatEmptySeq
    <3> QED BY <2>2, <2>3, <3>1
  <2> HIDE DEF name
  <2>8. S!get_class(name) =
          S!AS3_NSGetS(SubSeq(name, 1, n - 1), SubSeq(name, n + 1, Len(name)))
    BY <1>2, <2>4, <2>5 DEF S!get_class
  <2> QED BY <2>1, <2>6, <2>7, <2>8 DEF S!AS3_NSGetS
<1> QED BY <1>0, <1>1, <1>2

(* make_pkgobj(): a path, or a static property that has a Lua form. *)
LEMMA MakeLemma ==
  ASSUME NEW kind, NEW s \in Seq(Segments)
  PROVE  LET y == S!make_pkgobj(kind, s) IN
         \/ y.is = "number" /\ Len(s) > 1 /\ S!Last(s) \in Statics
         \/ y.is = "pkgobj" /\ y.kind = kind /\ IsPath(y, s)
<1> DEFINE y == S!make_pkgobj(kind, s)
           p == S!splitpath(s)
<1>1. CASE y = S!LuaNumber /\ p.class # <<>> /\ p.key[1] \in Statics
  <2>0. Len(s) > 1 /\ Len(s) \in Nat BY <1>1, SplitLemma
  <2>1. Len(s) > 1 /\ Len(s) > 0 BY <2>0
  <2>2. p.key = <<S!Last(s)>> BY <2>1, SplitLemma
  <2> QED BY <1>1, <2>1, <2>2 DEF S!LuaNumber
<1>2. CASE y = [is |-> "pkgobj", kind |-> kind, namespace |-> p.namespace,
                class |-> p.class, key |-> p.key]
  BY <1>2 DEF IsPath
<1> QED BY <1>1, <1>2 DEF S!make_pkgobj, S!None

LEMMA StepsLemma == ASSUME NEW s \in S!Steps PROVE s \in Seq(Segments)
<1>1. PICK m \in 0 .. 2 : s \in [1 .. m -> Segments]
  BY DEF S!Steps, S!BoundedSeq, S!SeqOf
<1> QED BY <1>1, SeqDef

LEMMA PathStart == S!SugarInit => PathInv
  BY DEF S!SugarInit, PathInv, Walked, Asked, S!AS3, S!LuaNil

(* No path is walked, and none was asked anything. *)
LEMMA OffPath ==
  ASSUME PathInv, UNCHANGED given,
         answer'.is \notin {"namespacecall", "new2", "newclass2", "call", "set"},
         \/ x' = x
         \/ x.is = x'.is /\ x.is # "pkgobj"
         \/ x.is \in {"as3", "callobj"} /\ x'.is \in {"callobj", "number", "nil"}
  PROVE  PathInv'
  BY DEF PathInv, Walked, Asked, IsPath

LEMMA PropertySteps ==
  ASSUME ProxyInv, PathInv,
         \/ S!Index \/ S!CallMethod \/ S!Patched \/ S!Unpatched
         \/ \E v \in S!AsVal : S!NewIndex(v)
         \/ \E o \in AsObj, v \in S!AsVal : S!AS3Writes(o, v)
         \/ \E arg \in {TRUE, FALSE, NotBoolean} : S!Enable(arg)
  PROVE  PathInv'
<1>1. CASE S!Index
  <2>1. /\ x.is # "pkgobj" /\ UNCHANGED given
        /\ answer' \in {S!LuaNil, S!Raised}
    BY <1>1 DEF S!Index, S!NoWalk
  <2>2. answer'.is \in {"nil", "error"} BY <2>1 DEF S!LuaNil, S!Raised
  <2>3. \/ /\ S!Unproxy(x).is = "as3"
           /\ \E o \in AsObj : x' = S!MakeCallobj(o)
        \/ x' = S!Remember(x)
    BY <1>1 DEF S!Index, S!HasProperties
  <2>4. CASE x' = S!Remember(x)
    <3>1. x'.is = x.is BY <2>4, RememberLemma
    <3> QED BY <2>1, <2>2, <3>1, OffPath
  <2>5. ASSUME S!Unproxy(x).is = "as3", NEW o \in AsObj, x' = S!MakeCallobj(o)
        PROVE  PathInv'
    <3>1. x'.is \in {"callobj", "number", "nil"}
      BY <2>5, ToLuaLemma DEF S!MakeCallobj, S!Callobj, S!as3_get
    <3>2. x.is \in {"as3", "callobj"}
      BY <2>1, <2>5 DEF S!Unproxy, PathInv, Walked
    <3> QED BY <2>1, <2>2, <3>1, <3>2, OffPath
  <2> QED BY <2>3, <2>4, <2>5
<1>2. CASE S!CallMethod \/ S!Unpatched
  BY <1>2, OffPath DEF S!CallMethod, S!Unpatched
<1>3. CASE S!Patched
  <2>1. UNCHANGED given /\ x' = S!Remember(x) /\ answer'.is = "read"
    BY <1>3 DEF S!Patched
  <2> QED BY <2>1, RememberLemma, OffPath
<1>4. ASSUME NEW v \in S!AsVal, S!NewIndex(v) PROVE PathInv'
  <2>1. /\ UNCHANGED given /\ x' = S!Remember(x)
        /\ answer' \in {S!LuaNil, S!Raised}
    BY <1>4 DEF S!NewIndex, S!NoWalk
  <2>2. answer'.is \in {"nil", "error"} BY <2>1 DEF S!LuaNil, S!Raised
  <2> QED BY <2>1, <2>2, RememberLemma, OffPath
<1>5. ASSUME NEW o \in AsObj, NEW v \in S!AsVal, S!AS3Writes(o, v)
      PROVE  PathInv'
  BY <1>5, OffPath DEF S!AS3Writes, S!LuaNil
<1>6. ASSUME NEW arg \in {TRUE, FALSE, NotBoolean}, S!Enable(arg)
      PROVE  PathInv'
  <2>1. answer'.is \in {"nil", "error"} /\ UNCHANGED <<x, given>>
    BY <1>6 DEF S!Enable, S!LuaNil, S!Raised
  <2> QED BY <2>1, OffPath
<1> QED BY <1>1, <1>2, <1>3, <1>4, <1>5, <1>6

LEMMA WalkSteps ==
  ASSUME PathInv,
         \/ S!Forget
         \/ \E kind \in S!Kinds, s \in S!Steps : S!Walk(kind, s)
         \/ \E s \in S!Steps : S!WalkOn(s)
  PROVE  PathInv'
<1>1. CASE S!Forget
  BY <1>1 DEF S!Forget, S!AS3, S!LuaNil, PathInv, Walked, Asked
<1>2. ASSUME NEW kind, NEW s \in Seq(Segments), given' = s,
             x' = S!make_pkgobj(kind, s), answer' = S!LuaNil
      PROVE  PathInv'
  BY <1>2, MakeLemma DEF PathInv, Walked, Asked, S!LuaNil
<1>3. ASSUME NEW kind \in S!Kinds, NEW s \in S!Steps, S!Walk(kind, s)
      PROVE  PathInv'
  BY <1>2, <1>3, StepsLemma DEF S!Walk
<1>4. ASSUME NEW s \in S!Steps, S!WalkOn(s) PROVE PathInv'
  <2>1. CASE x.key = S!None
    <3>1. UNCHANGED <<x, given>> /\ answer'.is = "error"
      BY <1>4, <2>1 DEF S!WalkOn, S!Raised
    <3> QED BY <3>1, OffPath
  <2>2. CASE x.key # S!None
    <3> DEFINE q == S!path2(x)
    <3>1. x.is = "pkgobj" /\ IsPath(x, given) /\ given \in Seq(Segments)
      BY <1>4 DEF S!WalkOn, PathInv, Walked
    <3>2. q.namespace \o q.class = given
      BY <3>1, SplitLemma DEF S!path2, IsPath
    <3>3. /\ x' = S!make_pkgobj(x.kind, q.namespace \o q.class \o s)
          /\ given' = given \o s /\ answer' = S!LuaNil
      BY <1>4, <2>2 DEF S!WalkOn
    <3>4. given \o s \in Seq(Segments) BY <3>1, StepsLemma
    <3> HIDE DEF q
    <3> QED BY <1>2, <3>2, <3>3, <3>4
  <2> QED BY <2>1, <2>2
<1> QED BY <1>1, <1>3, <1>4

LEMMA AskSteps ==
  ASSUME S!SugarAssumption, PathInv,
         S!PkgCall \/ \E k \in Segments : S!PkgNewIndex(k)
  PROVE  PathInv'
<1> PICK n : n = Len(given) OBVIOUS
<1>1. /\ UNCHANGED <<x, given>> /\ x.is = "pkgobj" /\ IsPath(x, given)
      /\ given \in Seq(Segments) /\ n \in Nat
  BY DEF S!PkgCall, S!PkgNewIndex, PathInv, Walked
<1>2. Walked' BY <1>1 DEF PathInv, Walked, IsPath
<1>3. n > 1 <=> x.class # <<>>
  BY <1>1, SplitLemma DEF IsPath
<1>4. ASSUME n > 0
      PROVE  /\ x.namespace \o x.class = S!Front(given)
             /\ x.key = <<S!Last(given)>> /\ x.key # <<>>
             /\ S!get_class(S!Qualified(given)) =
                  [namespace |-> S!Front(given), name |-> <<S!Last(given)>>]
  BY <1>1, <1>4, SplitLemma, QualifiedLemma DEF IsPath
<1>5. ASSUME n > 1
      PROVE  /\ x.namespace = S!Front(S!Front(given))
             /\ x.class = <<S!Last(S!Front(given))>>
             /\ S!get_class(S!Qualified(S!Front(given))) =
                  [namespace |-> x.namespace, name |-> x.class]
  <2>1. S!Front(given) \in Seq(Segments) /\ Len(S!Front(given)) = n - 1
    BY <1>1, <1>5 DEF S!Front
  <2>2. /\ x.namespace = S!Front(S!Front(given))
        /\ x.class = <<S!Last(S!Front(given))>>
    BY <1>1, <1>5, SplitLemma DEF IsPath
  <2> QED BY <1>1, <1>5, <2>1, <2>2, QualifiedLemma
<1>6. CASE S!PkgCall
  <2>1. CASE x.class = <<>>
    BY <1>2, <1>6, <2>1 DEF S!PkgCall, S!None, S!Raised, PathInv, Asked
  <2> DEFINE f == S!Front(given)
             l == <<S!Last(given)>>
  <2>0. ASSUME x.class # <<>>
        PROVE  /\ n > 1 /\ x.namespace \o x.class = f /\ x.key = l
               /\ S!get_class(S!Qualified(given)) = [namespace |-> f, name |-> l]
    <3>1. n > 1 /\ n > 0 BY <1>1, <1>3, <2>0
    <3> QED BY <1>4, <3>1
  <2> HIDE DEF f, l
  <2>2. CASE x.class # <<>> /\ x.kind = "namespace"
    <3>1. answer'.is = "namespacecall" /\ answer'.of = S!namespacecall(x)
          /\ answer'.dot = S!DotFirst(x)
      BY <1>6, <2>2 DEF S!PkgCall, S!None
    <3>2. answer'.of = S!get_class(S!Qualified(given))
      BY <2>0, <2>2, <3>1 DEF S!namespacecall, S!AS3_NSGetS
    <3>3. answer'.dot => n = 2
      <4>1. answer'.dot => x.namespace = <<>>
        BY <3>1 DEF S!DotFirst, S!None
      <4>2. x.namespace = SubSeq(given, 1, n - 2)
        BY <1>1 DEF IsPath, S!splitpath
      <4>3. n > 1 BY <1>3, <2>2
      <4>4. \A i \in 1 .. n - 2 : given[i] \in Segments
        BY <1>1, ElementOfSeq
      <4>5. Len(SubSeq(given, 1, n - 2)) = IF 1 <= n - 2 THEN n - 2 - 1 + 1
                                           ELSE 0
        BY <1>1, <4>4, SubSeqProperties
      <4>6. x.namespace = <<>> => Len(x.namespace) = 0 BY EmptySeq
      <4>7. x.namespace = <<>> => n = 2
        BY <1>1, <4>2, <4>3, <4>5, <4>6
      <4> QED BY <4>1, <4>7
    <3> QED BY <1>1, <1>2, <3>1, <3>2, <3>3 DEF PathInv, Asked
  <2>3. CASE x.class # <<>> /\ x.kind # "namespace"
    <3>1. /\ answer'.is \in {"new2", "newclass2", "call"}
          /\ answer'.of = S!newclass2(x) /\ answer'.key = x.key
          /\ answer'.dot = S!DotFirst(x)
      BY <1>6, <2>3 DEF S!PkgCall, S!None
    <3>2. /\ answer'.of = S!get_class(S!Qualified(S!Front(given)))
          /\ answer'.key = <<S!Last(given)>> /\ ~answer'.dot
      <4>1. /\ S!get_class(S!Qualified(S!Front(given))) =
                 [namespace |-> x.namespace, name |-> x.class]
            /\ x.key = <<S!Last(given)>>
        BY <1>5, <2>0, <2>3 DEF l
      <4>2. S!newclass2(x) = [namespace |-> x.namespace, name |-> x.class]
        BY DEF S!newclass2, S!get_class2, S!AS3_NSGetS
      <4> QED BY <2>3, <3>1, <4>1, <4>2 DEF S!DotFirst
    <3> QED BY <1>1, <1>2, <3>1, <3>2 DEF PathInv, Asked
  <2> QED BY <2>1, <2>2, <2>3
<1>7. ASSUME NEW k \in Segments, S!PkgNewIndex(k) PROVE PathInv'
  <2>1. CASE x.kind = "namespace" \/ x.key = <<>>
    BY <1>2, <1>7, <2>1 DEF S!PkgNewIndex, S!None, S!Raised, PathInv, Asked
  <2>2. CASE ~(x.kind = "namespace" \/ x.key = <<>>)
    <3>1. answer'.is = "set" /\ answer'.of = S!newclass2(S!path2(x))
      BY <1>7, <2>2 DEF S!PkgNewIndex, S!None
    <3>2. n > 0 BY <1>1, <2>2, SplitLemma DEF IsPath
    <3>3. answer'.of = S!get_class(S!Qualified(given))
      BY <1>1, <1>4, <3>1, <3>2
         DEF S!newclass2, S!get_class2, S!AS3_NSGetS, S!path2
    <3> QED BY <1>1, <1>2, <3>1, <3>3 DEF PathInv, Asked
  <2> QED BY <2>1, <2>2
<1> QED BY <1>6, <1>7

LEMMA PathStep ==
  ASSUME S!SugarAssumption, ProxyInv, PathInv, S!SugarNext
  PROVE  PathInv'
  BY PropertySteps, WalkSteps, AskSteps DEF S!SugarNext

LEMMA PathGoal == ASSUME PathInv PROVE S!PathsAgree
<1>1. ASSUME x.is = "pkgobj"
      PROVE  /\ x.namespace \o x.class \o x.key = given
             /\ x.key # S!None => \A s \in Segments :
                  LET q == S!path2(x) IN
                  S!splitpath(q.namespace \o q.class \o <<s>>)
                    = S!splitpath(given \o <<s>>)
  <2>1. IsPath(x, given) /\ given \in Seq(Segments)
    BY <1>1 DEF PathInv, Walked
  <2>2. x.namespace \o x.class \o x.key = given
    BY <2>1, SplitLemma DEF IsPath
  <2>3. S!path2(x).namespace \o S!path2(x).class = given
    BY <2>2 DEF S!path2
  <2> QED BY <2>2, <2>3
<1> QED BY <1>1 DEF PathInv, Walked, Asked, S!PathsAgree

(* A path means the same however it is walked: what is asked of AS3 is     *)
(* what its qualified name means to as3.newclass().                        *)
THEOREM PathsAgreeAlways == PartsSpec => []PathsAgree
<1> DEFINE Inv == part = "sugar" => ProxyInv /\ PathInv
<1>1. PartsInit => Inv
  BY ProxyStart, PathStart DEF PartsInit
<1>2. Inv /\ [PartsNext]_parts => Inv'
  <2> SUFFICES ASSUME Inv, [PartsNext]_parts PROVE Inv' OBVIOUS
  <2>1. CASE PartsNext
    BY <2>1, StepOf, ProxyStep, PathStep, PartsAssumption
  <2>2. CASE UNCHANGED parts
    BY <2>2 DEF parts, sugar, ProxyInv, SugarTypes, Kept, Agree, Read, Gave,
                S!as3_get, PathInv, Walked, Asked, IsPath
  <2> QED BY <2>1, <2>2
<1>3. Inv => PathsAgree
  BY PathGoal DEF PathsAgree
<1> QED BY <1>1, <1>2, <1>3, PTL DEF PartsSpec

-----------------------------------------------------------------------------
(* as3.toobject() and as3.toarray().                                       *)

(* There are finitely many tables. *)
LEMMA FiniteLemma == IsFiniteSet(Table)
  BY PartsAssumption DEF O!ToObjectAssumption, O!IsFiniteSet, IsFiniteSet

Call == [table : Table, left : SUBSET Field, object : Nat,
         at : Field \cup {Unset}]
Content == Table \cup {Scalar, NaN, Unset} \cup Nat
Copy == [of : Table, has : [Field -> Content]]
CopyingTypes ==
  /\ called \in {"toobject", "toarray"}
  /\ fields \in [Table -> [Field -> Table \cup {Scalar, NaN, Unset}]]
  /\ frames \in Seq(Call) /\ visited \subseteq Table
  /\ object \in Seq(Copy)
  /\ outcome \in {"running", "done", "error"}

(* The calls on the stack: each copies the table in the field the one      *)
(* below is at, into an object of its own.  Their tables differ, but for   *)
(* the first, and are the ones marked.                                     *)
Nested ==
  /\ frames # <<>> /\ frames[1].table = Given /\ frames[1].object = 1
  /\ \A i \in DOMAIN frames :
       /\ frames[i].left \subseteq O!VisitedFields(frames[i].table)
       /\ frames[i].object \in DOMAIN object
       /\ object[frames[i].object].of = frames[i].table
  /\ \A i \in 1 .. Len(frames) - 1 :
       /\ frames[i].at \in O!VisitedFields(frames[i].table)
       /\ fields[frames[i].table][frames[i].at] = frames[i + 1].table
  /\ \A i, j \in DOMAIN frames : i < j =>
       /\ frames[j].table \in O!Below(frames[i].table)
       /\ frames[i].object < frames[j].object
       /\ 1 < i => frames[i].table # frames[j].table
  /\ visited = {frames[i].table : i \in 2 .. Len(frames)}
  /\ Cardinality(visited) = Len(frames) - 1

(* The fields of the n-th object that a call on the stack has still to     *)
(* fill.                                                                   *)
Left(n) == {f \in Field : \E i \in DOMAIN frames :
              /\ frames[i].object = n
              /\ f \in frames[i].left \/ (i < Len(frames) /\ f = frames[i].at)}

(* Field f of the n-th object is right: a table in it was copied later.    *)
Right(n, f) ==
  LET t == object[n].of
      v == fields[t][f]
      w == object[n].has[f]
  IN  IF f \notin O!VisitedFields(t) THEN w = Unset
      ELSE /\ v # NaN
           /\ v \in Table => w \in n + 1 .. Len(object) /\ object[w].of = v
           /\ v \notin Table => w = v

Filled ==
  /\ object # <<>> /\ object[1].of = Given
  /\ \A n \in DOMAIN object :
       /\ \A f \in Field : f \in Left(n) \/ Right(n, f)
       /\ called = "toobject" /\ object[n].of \in oddKey =>
            \E i \in DOMAIN frames : frames[i].object = n

Failed == \E t \in {Given} \cup O!Below(Given) : O!Refused(t)

CopyingInv ==
  /\ CopyingTypes
  /\ outcome = "running" => Nested /\ Filled
  /\ outcome = "done" => frames = <<>> /\ Filled
  /\ outcome = "error" => Failed /\ Len(frames) <= Cardinality(Table) + 1

(* What is below a table: what it refers to, and what that refers to.      *)
LEMMA BelowLemma ==
  ASSUME NEW t \in Table
  PROVE  /\ O!Refs(t) \subseteq O!Below(t)
         /\ \A u \in O!Below(t) : O!Refs(u) \subseteq O!Below(t)
         /\ O!Below(t) \subseteq Table
<1>1. \A u : O!Refs(u) \subseteq Table BY DEF O!Refs
<1> QED BY <1>1 DEF O!Below

LEMMA BelowLeast ==
  ASSUME NEW t \in Table, NEW B \in SUBSET Table,
         O!Refs(t) \subseteq B, \A u \in B : O!Refs(u) \subseteq B
  PROVE  O!Below(t) \subseteq B
  BY DEF O!Below

LEMMA RefLemma ==
  ASSUME CopyingTypes, NEW t \in Table, NEW f \in O!VisitedFields(t),
         fields[t][f] \in Table
  PROVE  fields[t][f] \in O!Refs(t)
  BY DEF O!Refs

LEMMA VisitedLemma ==
  ASSUME NEW t \in Table
  PROVE  O!VisitedFields(t) \subseteq Field
  BY DEF O!VisitedFields, O!Listed, O!SetFields

(* The last call is replaced. *)
LEMMA LastLemma ==
  ASSUME NEW A, NEW s \in Seq(A), s # <<>>, NEW e \in A
  PROVE  LET t == Append(SubSeq(s, 1, Len(s) - 1), e)
         IN  /\ t \in Seq(A) /\ Len(t) = Len(s) /\ t[Len(s)] = e
             /\ \A i \in 1 .. Len(s) - 1 : t[i] = s[i]
<1>1. Len(s) \in Nat /\ Len(s) # 0 BY EmptySeq
<1> DEFINE r == SubSeq(s, 1, Len(s) - 1)
<1>2. \A i \in 1 .. Len(s) - 1 : s[i] \in A BY <1>1
<1>3. /\ r \in Seq(A)
      /\ Len(r) = IF 1 <= Len(s) - 1 THEN Len(s) - 1 - 1 + 1 ELSE 0
      /\ \A i \in 1 .. Len(s) - 1 - 1 + 1 : r[i] = s[1 + i - 1]
  BY <1>1, <1>2, SubSeqProperties
<1> HIDE DEF r
<1>4. Len(r) = Len(s) - 1 /\ \A i \in 1 .. Len(s) - 1 : r[i] = s[i]
  <2>1. Len(r) = Len(s) - 1
    <3> DEFINE n == Len(s)
    <3>1. n \in Nat /\ n # 0 BY <1>1
    <3>2. Len(r) = IF 1 <= n - 1 THEN n - 1 - 1 + 1 ELSE 0 BY <1>3
    <3> HIDE DEF n
    <3>3. (IF 1 <= n - 1 THEN n - 1 - 1 + 1 ELSE 0) = n - 1 BY <3>1
    <3> QED BY <3>2, <3>3 DEF n
  <2>2. ASSUME NEW i \in 1 .. Len(s) - 1 PROVE r[i] = s[i]
    <3>1. i \in 1 .. Len(s) - 1 - 1 + 1 /\ 1 + i - 1 = i BY <1>1
    <3> QED BY <1>3, <3>1
  <2> QED BY <2>1, <2>2
<1>5. /\ Append(r, e) \in Seq(A) /\ Len(Append(r, e)) = Len(s)
      /\ Append(r, e)[Len(s)] = e
      /\ \A i \in 1 .. Len(s) - 1 : Append(r, e)[i] = s[i]
  BY <1>1, <1>3, <1>4, AppendProperties
<1> QED BY <1>5 DEF r

LEMMA CopyingStart == O!ToObjectInit => CopyingInv
<1> SUFFICES ASSUME O!ToObjectInit PROVE CopyingInv OBVIOUS
<1> USE PartsAssumption DEF O!ToObjectAssumption
<1>1. CopyingTypes
  BY VisitedLemma
  DEF O!ToObjectInit, CopyingTypes, Call, Copy, Content, O!Frame, O!Made
<1>2. Nested
  <2>1. visited = {} /\ Cardinality(visited) = 0 BY FS_EmptySet DEF O!ToObjectInit
  <2>2. Len(frames) = 1 /\ frames[1] = O!Frame(Given, 1) /\ frames # <<>>
        /\ Len(object) = 1 /\ object[1] = O!Made(Given)
    BY DEF O!ToObjectInit
  <2> QED BY <1>1, <2>1, <2>2 DEF Nested, O!Frame, O!Made, CopyingTypes
<1>3. Filled
  <2>1. Len(frames) = 1 /\ frames[1] = O!Frame(Given, 1)
        /\ Len(object) = 1 /\ object[1] = O!Made(Given) /\ object # <<>>
        /\ DOMAIN frames = {1} /\ DOMAIN object = {1}
    BY DEF O!ToObjectInit
  <2>2. ASSUME NEW f \in Field PROVE f \in Left(1) \/ Right(1, f)
    <3>1. CASE f \in O!VisitedFields(Given)
      BY <2>1, <3>1 DEF Left, O!Frame
    <3>2. CASE f \notin O!VisitedFields(Given)
      BY <2>1, <3>2 DEF Right, O!Made
    <3> QED BY <3>1, <3>2
  <2>3. frames[1].object = 1 BY <2>1 DEF O!Frame
  <2>4. object[1].of = Given BY <2>1 DEF O!Made
  <2> QED BY <2>1, <2>2, <2>3, <2>4 DEF Filled
<1> QED BY <1>1, <1>2, <1>3 DEF O!ToObjectInit, CopyingInv

(* What the tables hold does not change. *)
LEMMA SameFields ==
  ASSUME UNCHANGED <<called, fields, oddKey>>
  PROVE  /\ \A t \in Table : /\ O!VisitedFields(t)' = O!VisitedFields(t)
                             /\ O!Below(t)' = O!Below(t)
         /\ Failed' <=> Failed
  BY DEF O!VisitedFields, O!Listed, O!SetFields, O!Below, O!Refs, Failed,
         O!Refused

LEMMA TypeLemma ==
  ASSUME CopyingTypes
  PROVE  /\ Len(frames) \in Nat /\ DOMAIN frames = 1 .. Len(frames)
         /\ Len(object) \in Nat /\ DOMAIN object = 1 .. Len(object)
         /\ \A i \in DOMAIN frames :
              /\ frames[i] \in Call
              /\ frames[i].table \in Table /\ frames[i].left \subseteq Field
              /\ frames[i].object \in Nat
         /\ \A n \in DOMAIN object : object[n].of \in Table
<1>1. frames \in Seq(Call) BY DEF CopyingTypes
<1>2. /\ Len(frames) \in Nat /\ DOMAIN frames = 1 .. Len(frames)
      /\ \A i \in DOMAIN frames : frames[i] \in Call
  BY <1>1
<1>3. object \in Seq(Copy) BY DEF CopyingTypes
<1>4. \A o \in Copy : o.of \in Table BY DEF Copy
<1>5. /\ Len(object) \in Nat /\ DOMAIN object = 1 .. Len(object)
      /\ \A n \in DOMAIN object : object[n] \in Copy
  BY <1>3
<1>6. \A c \in Call : c.table \in Table /\ c.left \subseteq Field
                      /\ c.object \in Nat
  BY DEF Call
<1> QED BY <1>2, <1>4, <1>5, <1>6

LEMMA RightKept ==
  ASSUME CopyingTypes, CopyingTypes', UNCHANGED <<called, fields, oddKey>>,
         Len(object) <= Len(object'),
         \A w \in DOMAIN object : object'[w].of = object[w].of,
         NEW n \in DOMAIN object, NEW f \in Field, Right(n, f),
         object'[n].has[f] = object[n].has[f]
  PROVE  Right(n, f)'
<1>1. object[n].of \in Table BY TypeLemma
<1>2. O!VisitedFields(object[n].of)' = O!VisitedFields(object[n].of)
  BY <1>1, SameFields
<1>3. DOMAIN object = 1 .. Len(object) /\ DOMAIN object' = 1 .. Len(object')
      /\ Len(object) \in Nat /\ Len(object') \in Nat
  BY TypeLemma DEF CopyingTypes
<1> QED BY <1>2, <1>3 DEF Right

LEMMA FilledKept ==
  ASSUME CopyingTypes, CopyingTypes', UNCHANGED <<called, fields, oddKey>>,
         Filled, Len(object) <= Len(object'),
         \A w \in DOMAIN object : object'[w].of = object[w].of,
         NEW n \in DOMAIN object, NEW f \in Field,
         object'[n].has[f] = object[n].has[f],
         f \in Left(n) => f \in Left(n)'
  PROVE  f \in Left(n)' \/ Right(n, f)'
<1>1. f \in Left(n) \/ Right(n, f) BY DEF Filled
<1>2. CASE f \in Left(n) BY <1>2
<1>3. CASE Right(n, f) BY <1>3, RightKept
<1> QED BY <1>1, <1>2, <1>3

(* One field of one object is stored. *)
Stored(o, n, f, v) == [o EXCEPT ![n].has[f] = v]
LEMMA PutLemma ==
  ASSUME NEW o \in Seq(Copy), NEW n \in DOMAIN o, NEW f \in Field,
         NEW v \in Content
  PROVE  LET p == Stored(o, n, f, v)
         IN  /\ p \in Seq(Copy) /\ Len(p) = Len(o) /\ DOMAIN p = DOMAIN o
             /\ p[n].has[f] = v
             /\ \A m \in DOMAIN o :
                  /\ p[m].of = o[m].of
                  /\ \A g \in Field : m # n \/ g # f =>
                       p[m].has[g] = o[m].has[g]
<1> DEFINE c == [o[n] EXCEPT !.has[f] = v]
<1>1. o[n] \in Copy BY ElementOfSeq
<1>2. /\ c \in Copy /\ c.of = o[n].of /\ c.has[f] = v
      /\ \A g \in Field : g # f => c.has[g] = o[n].has[g]
  BY <1>1 DEF Copy
<1> DEFINE p == Stored(o, n, f, v)
<1>3. p = [o EXCEPT ![n] = c] BY DEF Stored
<1> HIDE DEF c, p
<1>4. p \in Seq(Copy) /\ Len(p) = Len(o) /\ DOMAIN p = DOMAIN o
      /\ p[n] = c /\ \A m \in DOMAIN o : m # n => p[m] = o[m]
  BY <1>2, <1>3, ExceptSeq
<1> QED BY <1>2, <1>4 DEF p

(* The calls up to the m-th go on. *)
LEMMA NestedPrefix ==
  ASSUME CopyingTypes, CopyingTypes', UNCHANGED <<called, fields, oddKey>>,
         Nested, NEW m \in 1 .. Len(frames), Len(frames') = m,
         \A i \in 1 .. m : /\ frames'[i].table = frames[i].table
                           /\ frames'[i].object = frames[i].object
                           /\ frames'[i].left \subseteq frames[i].left,
         \A i \in 1 .. m - 1 : frames'[i].at = frames[i].at,
         DOMAIN object' = DOMAIN object,
         \A n \in DOMAIN object : object'[n].of = object[n].of,
         visited' = {frames[i].table : i \in 2 .. m},
         Cardinality(visited') = m - 1
  PROVE  Nested'
<1>0. frames \in Seq(Call) /\ frames' \in Seq(Call) BY DEF CopyingTypes
<1>1. /\ Len(frames) \in Nat /\ DOMAIN frames = 1 .. Len(frames)
      /\ DOMAIN frames' = 1 .. m /\ m \in Nat \ {0} /\ m <= Len(frames)
  BY ONLY <1>0, m \in 1 .. Len(frames), Len(frames') = m
<1>2. \A i \in DOMAIN frames : frames[i].table \in Table
  BY TypeLemma
<1>3. \A i \in 1 .. m : /\ O!VisitedFields(frames[i].table)'
                             = O!VisitedFields(frames[i].table)
                        /\ O!Below(frames[i].table)'
                             = O!Below(frames[i].table)
  BY <1>1, <1>2, SameFields
<1>4. frames' # <<>> BY <1>1
<1>5. ASSUME NEW i \in 1 .. m
      PROVE  /\ (frames[i].left \subseteq O!VisitedFields(frames[i].table))'
             /\ frames'[i].object \in DOMAIN object'
             /\ object'[frames'[i].object].of = frames'[i].table
  <2>1. i \in DOMAIN frames BY <1>1
  <2>2. /\ frames[i].left \subseteq O!VisitedFields(frames[i].table)
        /\ frames[i].object \in DOMAIN object
        /\ object[frames[i].object].of = frames[i].table
    BY <2>1 DEF Nested
  <2> QED BY <1>3, <2>2
<1>6. ASSUME NEW i \in 1 .. m - 1
      PROVE  /\ (frames[i].at \in O!VisitedFields(frames[i].table))'
             /\ fields'[frames'[i].table][frames'[i].at]
                  = frames'[i + 1].table
  <2>1. i \in 1 .. Len(frames) - 1 /\ i \in 1 .. m /\ i + 1 \in 1 .. m
    BY <1>1
  <2>2. /\ frames[i].at \in O!VisitedFields(frames[i].table)
        /\ fields[frames[i].table][frames[i].at] = frames[i + 1].table
    BY <2>1 DEF Nested
  <2> QED BY <1>3, <2>1, <2>2
<1>7. ASSUME NEW i \in 1 .. m, NEW j \in 1 .. m, i < j
      PROVE  /\ (frames[j].table \in O!Below(frames[i].table))'
             /\ frames'[i].object < frames'[j].object
             /\ 1 < i => frames'[i].table # frames'[j].table
  <2>1. i \in DOMAIN frames /\ j \in DOMAIN frames BY <1>1
  <2>2. /\ frames[j].table \in O!Below(frames[i].table)
        /\ frames[i].object < frames[j].object
        /\ 1 < i => frames[i].table # frames[j].table
    BY <1>7, <2>1 DEF Nested
  <2> QED BY <1>3, <2>2
<1>8. visited' = {frames'[i].table : i \in 2 .. Len(frames')}
  BY <1>1
<1>9. frames'[1].table = Given /\ frames'[1].object = 1
  BY <1>1 DEF Nested
<1> QED BY <1>1, <1>4, <1>5, <1>6, <1>7, <1>8, <1>9 DEF Nested

LEMMA TopLemma ==
  ASSUME CopyingTypes, Nested
  PROVE  /\ Len(frames) \in 1 .. Len(frames) /\ Len(frames) \in Nat \ {0}
         /\ O!top = frames[Len(frames)] /\ O!top \in Call
         /\ O!top.table \in Table /\ O!top.object \in DOMAIN object
         /\ O!top.left \subseteq O!VisitedFields(O!top.table)
         /\ object[O!top.object].of = O!top.table
<1>1. Len(frames) # 0 BY EmptySeq DEF CopyingTypes, Nested
<1>2. Len(frames) \in 1 .. Len(frames) /\ Len(frames) \in DOMAIN frames
  BY <1>1, TypeLemma
<1> QED BY <1>2, TypeLemma DEF Nested, O!top

(* A field is stored: the object gets what the field of the table holds.   *)
LEMMA StoreStep ==
  ASSUME CopyingTypes, Nested, Filled, NEW u, u = O!top,
         NEW f \in u.left, NEW v, v = fields[u.table][f],
         v \notin Table, v # NaN,
         O!Put(u.object, f, v),
         frames' = Append(O!Rest, [u EXCEPT !.left = @ \ {f}]),
         UNCHANGED <<called, fields, oddKey, visited, outcome>>
  PROVE  CopyingTypes' /\ Nested' /\ Filled'
<1> DEFINE k == Len(frames)
           e == [u EXCEPT !.left = @ \ {f}]
<1>1. /\ k \in 1 .. k /\ k \in Nat \ {0} /\ u = frames[k] /\ u \in Call
      /\ u.table \in Table /\ u.object \in DOMAIN object
      /\ u.left \subseteq O!VisitedFields(u.table)
      /\ object[u.object].of = u.table
  BY TopLemma
<1>2. /\ e \in Call /\ e.table = u.table /\ e.object = u.object
      /\ e.left = u.left \ {f} /\ e.at = u.at
  BY <1>1 DEF Call
<1>3. /\ frames' \in Seq(Call) /\ Len(frames') = k /\ frames'[k] = e
      /\ \A i \in 1 .. k - 1 : frames'[i] = frames[i]
  <2> HIDE DEF e
  <2>1. frames \in Seq(Call) /\ frames # <<>> BY DEF CopyingTypes, Nested
  <2>2. frames' = Append(SubSeq(frames, 1, Len(frames) - 1), e)
    BY DEF O!Rest, e
  <2> DEFINE t == Append(SubSeq(frames, 1, Len(frames) - 1), e)
  <2>3. /\ t \in Seq(Call) /\ Len(t) = Len(frames) /\ t[Len(frames)] = e
        /\ \A i \in 1 .. Len(frames) - 1 : t[i] = frames[i]
    BY <1>2, <2>1, LastLemma
  <2> HIDE DEF t
  <2> QED BY <2>2, <2>3 DEF t
<1>4. /\ f \in Field /\ f \in O!VisitedFields(u.table)
      /\ v \in {Scalar, Unset}
  BY <1>1, VisitedLemma DEF CopyingTypes
<1>5. object \in Seq(Copy) /\ v \in Content
  BY <1>4 DEF CopyingTypes, Content
<1>6. /\ object' \in Seq(Copy) /\ Len(object') = Len(object)
      /\ DOMAIN object' = DOMAIN object
      /\ object'[u.object].has[f] = v
      /\ \A n \in DOMAIN object :
           /\ object'[n].of = object[n].of
           /\ \A g \in Field : n # u.object \/ g # f =>
                object'[n].has[g] = object[n].has[g]
  <2>1. object' = Stored(object, u.object, f, v) BY DEF O!Put, Stored
  <2> DEFINE p == Stored(object, u.object, f, v)
  <2>2. /\ p \in Seq(Copy) /\ Len(p) = Len(object)
        /\ DOMAIN p = DOMAIN object /\ p[u.object].has[f] = v
        /\ \A m \in DOMAIN object :
             /\ p[m].of = object[m].of
             /\ \A g \in Field : m # u.object \/ g # f =>
                  p[m].has[g] = object[m].has[g]
    BY <1>1, <1>4, <1>5, PutLemma
  <2> HIDE DEF p
  <2> QED BY <2>1, <2>2 DEF p
<1>7. CopyingTypes' BY <1>3, <1>6 DEF CopyingTypes
<1>8. Nested'
  <2>1. \A i \in 1 .. k : /\ frames'[i].table = frames[i].table
                          /\ frames'[i].object = frames[i].object
                          /\ frames'[i].left \subseteq frames[i].left
    BY <1>1, <1>2, <1>3
  <2>2. \A i \in 1 .. k - 1 : frames'[i].at = frames[i].at BY <1>3
  <2>3. visited' = {frames[i].table : i \in 2 .. k}
        /\ Cardinality(visited') = k - 1
    BY DEF Nested
  <2> HIDE DEF k, e
  <2> QED BY <1>1, <1>3, <1>6, <1>7, <2>1, <2>2, <2>3, NestedPrefix DEF k
<1>9. ASSUME NEW n \in DOMAIN object, NEW g \in Field
      PROVE  g \in Left(n)' \/ Right(n, g)'
  <2>1. CASE n = u.object /\ g = f
    <3>1. O!VisitedFields(u.table)' = O!VisitedFields(u.table)
      BY <1>1, SameFields
    <3> QED BY <1>1, <1>4, <1>6, <2>1, <3>1 DEF Right
  <2>2. CASE n # u.object \/ g # f
    <3>1. ASSUME g \in Left(n) PROVE g \in Left(n)'
      <4>1. PICK i \in DOMAIN frames :
              /\ frames[i].object = n
              /\ g \in frames[i].left \/ (i < k /\ g = frames[i].at)
        BY <3>1 DEF Left
      <4>2. i \in DOMAIN frames' /\ i \in 1 .. k /\ DOMAIN frames = 1 .. k
        BY <1>3, TypeLemma
      <4>3. CASE i = k
        BY <1>1, <1>2, <1>3, <2>2, <4>1, <4>2, <4>3 DEF Left
      <4>4. CASE i # k
        BY <1>1, <1>3, <4>1, <4>2, <4>4 DEF Left
      <4> QED BY <4>3, <4>4
    <3> QED BY <1>6, <1>7, <2>2, <3>1, FilledKept
  <2> QED BY <2>1, <2>2
<1>10. ASSUME NEW n \in DOMAIN object, called = "toobject",
              object[n].of \in oddKey
       PROVE  \E i \in DOMAIN frames' : frames'[i].object = n
  <2>1. PICK i \in DOMAIN frames : frames[i].object = n BY <1>10 DEF Filled
  <2>2. i \in DOMAIN frames' /\ i \in 1 .. k BY <1>3, TypeLemma
  <2>3. frames'[i].object = frames[i].object BY <1>1, <1>2, <1>3, <2>2
  <2> QED BY <2>1, <2>2, <2>3
<1>11. object' # <<>> /\ object'[1].of = Given
  <2>1. object # <<>> /\ object[1].of = Given BY DEF Filled
  <2>2. Len(object) # 0 BY <1>5, <2>1, EmptySeq
  <2>3. 1 \in DOMAIN object BY <1>5, <2>2
  <2> QED BY <1>6, <2>1, <2>2, <2>3
<1>12. Filled' BY <1>6, <1>9, <1>10, <1>11 DEF Filled
<1> QED BY <1>7, <1>8, <1>12

(* A table is copied first: a new call with a new object.                  *)
LEMMA DescendStep ==
  ASSUME CopyingTypes, Nested, Filled, NEW u, u = O!top,
         NEW f \in u.left, NEW v, v = fields[u.table][f],
         v \in Table, v \notin visited,
         object' = Append(object, O!Made(v)),
         frames' = Append(O!AtField(f), O!Frame(v, Len(object) + 1)),
         visited' = visited \cup {v},
         UNCHANGED <<called, fields, oddKey, outcome>>
  PROVE  CopyingTypes' /\ Nested' /\ Filled'
<1>0. PICK k \in Nat \ {0}, n \in Nat \ {0} :
              k = Len(frames) /\ n = Len(object) + 1
  <2>1. Len(frames) \in Nat \ {0} /\ Len(object) + 1 \in Nat \ {0}
    BY TopLemma, TypeLemma
  <2> QED BY <2>1
<1> DEFINE e == [u EXCEPT !.at = f, !.left = @ \ {f}]
           w == O!Frame(v, n)
<1>1. /\ k \in 1 .. k /\ k \in Nat \ {0} /\ u = frames[k] /\ u \in Call
      /\ u.table \in Table /\ u.object \in DOMAIN object
      /\ u.left \subseteq O!VisitedFields(u.table)
      /\ object[u.object].of = u.table
  BY <1>0, TopLemma
<1>2. f \in Field /\ f \in O!VisitedFields(u.table) /\ v \in O!Refs(u.table)
  BY <1>1, VisitedLemma, RefLemma
<1>3. /\ e \in Call /\ e.table = u.table /\ e.object = u.object
      /\ e.left = u.left \ {f} /\ e.at = f
  BY <1>1, <1>2 DEF Call
<1>4. /\ Len(object) \in Nat /\ DOMAIN object = 1 .. Len(object)
      /\ object \in Seq(Copy) /\ n \in Nat
  BY <1>0, TypeLemma DEF CopyingTypes
<1>5. /\ w \in Call /\ w.table = v /\ w.object = n
      /\ w.left = O!VisitedFields(v) /\ w.at = Unset
  BY <1>4, VisitedLemma DEF Call, O!Frame
<1>6. /\ frames' \in Seq(Call) /\ Len(frames') = k + 1 /\ frames'[k] = e
      /\ frames'[k + 1] = w /\ \A i \in 1 .. k - 1 : frames'[i] = frames[i]
  <2> HIDE DEF e, w
  <2>1. frames \in Seq(Call) /\ frames # <<>> BY DEF CopyingTypes, Nested
  <2> DEFINE t == Append(SubSeq(frames, 1, Len(frames) - 1), e)
  <2>2. /\ t \in Seq(Call) /\ Len(t) = Len(frames) /\ t[Len(frames)] = e
        /\ \A i \in 1 .. Len(frames) - 1 : t[i] = frames[i]
    BY <1>3, <2>1, LastLemma
  <2>3. frames' = Append(t, w) BY <1>0 DEF O!AtField, O!Rest, e, w
  <2> HIDE DEF t
  <2>4. /\ Append(t, w) \in Seq(Call) /\ Len(Append(t, w)) = Len(t) + 1
        /\ Append(t, w)[Len(t) + 1] = w
        /\ \A i \in 1 .. Len(t) : Append(t, w)[i] = t[i]
    BY <1>5, <2>2, AppendProperties
  <2>5. ASSUME NEW i \in 1 .. k - 1 PROVE frames'[i] = frames[i]
    <3>1. i \in 1 .. Len(t) /\ i \in 1 .. Len(frames) - 1 BY <1>0, <2>2
    <3> QED BY <2>2, <2>3, <2>4, <3>1
  <2>6. k \in 1 .. k BY <1>0
  <2> QED BY <1>0, <2>2, <2>3, <2>4, <2>5, <2>6
<1>7. /\ O!Made(v) \in Copy /\ O!Made(v).of = v
      /\ \A g \in Field : O!Made(v).has[g] = Unset
  BY DEF Copy, Content, O!Made
<1>8. /\ object' \in Seq(Copy) /\ Len(object') = n
      /\ object'[n] = O!Made(v) /\ DOMAIN object' = 1 .. n
      /\ \A m \in DOMAIN object : object'[m] = object[m]
  BY <1>0, <1>4, <1>7, AppendProperties
<1> HIDE DEF e, w
<1>9. CopyingTypes' BY <1>6, <1>8 DEF CopyingTypes
<1>10. \A t \in Table : /\ O!VisitedFields(t)' = O!VisitedFields(t)
                       /\ O!Below(t)' = O!Below(t)
  BY SameFields
<1>11. Nested'
  <2>1. /\ DOMAIN frames = 1 .. k /\ DOMAIN frames' = 1 .. k + 1
        /\ \A i \in DOMAIN frames : frames[i].table \in Table
    BY <1>0, <1>6, TypeLemma
  <2>2. \A i \in 1 .. k : /\ frames'[i].table = frames[i].table
                          /\ frames'[i].object = frames[i].object
                          /\ frames'[i].left \subseteq frames[i].left
    BY <1>1, <1>3, <1>6
  <2>3. ASSUME NEW i \in 1 .. k + 1
        PROVE  /\ (frames[i].left \subseteq O!VisitedFields(frames[i].table))'
               /\ frames'[i].object \in DOMAIN object'
               /\ object'[frames'[i].object].of = frames'[i].table
    <3>1. CASE i = k + 1
      <4>1. (frames[i].table = v)' /\ (frames[i].object = n)'
            /\ (frames[i].left = O!VisitedFields(v))'
        BY <1>5, <1>6, <1>10, <3>1
      <4>2. n \in DOMAIN object' /\ object'[n].of = v BY <1>7, <1>8
      <4>3. frames'[i].table = v /\ frames'[i].object = n BY <4>1
      <4>4. (frames[i].left \subseteq O!VisitedFields(frames[i].table))'
        BY <4>1
      <4> QED BY <4>2, <4>3, <4>4
    <3>2. CASE i # k + 1
      <4>1. i \in DOMAIN frames /\ i \in 1 .. k BY <1>1, <2>1, <3>2
      <4>2. /\ frames[i].left \subseteq O!VisitedFields(frames[i].table)
            /\ frames[i].object \in DOMAIN object
            /\ object[frames[i].object].of = frames[i].table
        BY <4>1 DEF Nested
      <4>3. (O!VisitedFields(frames[i].table))'
              = O!VisitedFields(frames[i].table)
        BY <1>10, <2>1, <2>2, <4>1
      <4>4. (frames[i].left \subseteq O!VisitedFields(frames[i].table))'
        BY <2>2, <4>1, <4>2, <4>3
      <4>5. frames[i].object \in DOMAIN object' BY <1>0, <1>4, <1>8, <4>2
      <4> QED BY <1>8, <2>2, <4>1, <4>2, <4>4, <4>5
    <3> QED BY <3>1, <3>2
  <2>4. ASSUME NEW i \in 1 .. k
        PROVE  /\ (frames[i].at \in O!VisitedFields(frames[i].table))'
               /\ fields'[frames'[i].table][frames'[i].at]
                    = frames'[i + 1].table
    <3>1. (O!VisitedFields(frames[i].table))'
             = O!VisitedFields(frames[i].table)
      BY <1>10, <2>1, <2>2
    <3>2. CASE i = k
      BY <1>1, <1>2, <1>3, <1>5, <1>6, <3>1, <3>2
    <3>3. CASE i # k
      <4>1. i \in 1 .. Len(frames) - 1 /\ i \in 1 .. k - 1 /\ i + 1 \in 1 .. k
        BY <1>0, <1>1, <3>3
      <4>2. /\ frames[i].at \in O!VisitedFields(frames[i].table)
            /\ fields[frames[i].table][frames[i].at] = frames[i + 1].table
        BY <4>1 DEF Nested
      <4> QED BY <1>6, <2>2, <3>1, <4>1, <4>2
    <3> QED BY <3>2, <3>3
  <2>5. ASSUME NEW i \in 1 .. k + 1, NEW j \in 1 .. k + 1, i < j
        PROVE  /\ (frames[j].table \in O!Below(frames[i].table))'
               /\ frames'[i].object < frames'[j].object
               /\ 1 < i => frames'[i].table # frames'[j].table
    <3>1. i \in 1 .. k /\ i \in DOMAIN frames BY <1>1, <2>1, <2>5
    <3>2. (O!Below(frames[i].table))' = O!Below(frames[i].table)
      BY <1>10, <2>1, <2>2, <3>1
    <3>3. CASE j = k + 1
      <4>1. frames'[j].table = v /\ frames'[j].object = n
        BY <1>5, <1>6, <3>3
      <4>2. v \in O!Below(frames[i].table)
        <5>1. CASE i = k BY <1>1, <1>2, <5>1, BelowLemma
        <5>2. CASE i # k
          <6>1. k \in DOMAIN frames /\ i < k BY <1>1, <2>1, <3>1, <5>2
          <6>2. u.table \in O!Below(frames[i].table)
            BY <1>1, <3>1, <6>1 DEF Nested
          <6> QED BY <1>2, <2>1, <3>1, <6>2, BelowLemma
        <5> QED BY <5>1, <5>2
      <4>3. frames[i].object < n
        BY <1>0, <1>4, <3>1 DEF Nested
      <4>4. 1 < i => frames[i].table \in visited
        BY <1>0, <3>1 DEF Nested
      <4> QED BY <2>2, <3>1, <3>2, <4>1, <4>2, <4>3, <4>4
    <3>4. CASE j # k + 1
      <4>1. j \in 1 .. k /\ j \in DOMAIN frames BY <1>1, <2>1, <3>4
      <4>2. /\ frames[j].table \in O!Below(frames[i].table)
            /\ frames[i].object < frames[j].object
            /\ 1 < i => frames[i].table # frames[j].table
        BY <2>5, <3>1, <4>1 DEF Nested
      <4> QED BY <2>2, <3>1, <3>2, <4>1, <4>2
    <3> QED BY <3>3, <3>4
  <2>6. visited' = {frames'[i].table : i \in 2 .. Len(frames')}
    <3>1. visited = {frames[i].table : i \in 2 .. k} BY <1>0 DEF Nested
    <3>2. \A i \in 2 .. k + 1 : i \in 2 .. k \/ i = k + 1 OBVIOUS
    <3>3. \A i \in 2 .. k : i \in 2 .. k + 1 /\ i \in 1 .. k OBVIOUS
    <3>4. frames'[k + 1].table = v /\ k + 1 \in 2 .. k + 1 BY <1>5, <1>6
    <3>5. ASSUME NEW y \in visited'
          PROVE  \E i \in 2 .. k + 1 : y = frames'[i].table
      <4>1. CASE y = v BY <3>4, <4>1
      <4>2. CASE y # v
        <5>1. PICK i \in 2 .. k : y = frames[i].table BY <3>1, <4>2
        <5> QED BY <2>2, <3>3, <5>1
      <4> QED BY <4>1, <4>2
    <3>7. k + 1 = Len(frames') BY <1>6
    <3>6. ASSUME NEW i \in 2 .. k + 1 PROVE frames'[i].table \in visited'
      BY <2>2, <3>1, <3>2, <3>3, <3>4
    <3> QED BY ONLY <3>5, <3>6, <3>7
  <2>7. Cardinality(visited') = Len(frames') - 1
    <3>1. IsFiniteSet(visited)
      BY FiniteLemma, FS_Subset DEF CopyingTypes
    <3>2. Cardinality(visited) = k - 1 BY <1>0 DEF Nested
    <3>3. Cardinality(visited') = Cardinality(visited) + 1
      BY <3>1, FS_AddElement
    <3> QED BY <1>1, <1>6, <3>2, <3>3
  <2>8. frames'[1].table = Given /\ frames'[1].object = 1
    BY <1>1, <2>2 DEF Nested
  <2>9. frames' # <<>> BY <1>1, <1>6
  <2>10. k + 1 - 1 = k BY <1>1
  <2>11. \A i \in DOMAIN frames' :
           /\ (frames[i].left \subseteq O!VisitedFields(frames[i].table))'
           /\ frames'[i].object \in DOMAIN object'
           /\ object'[frames'[i].object].of = frames'[i].table
    BY <2>1, <2>3
  <2>12. \A i \in 1 .. Len(frames') - 1 :
           /\ (frames[i].at \in O!VisitedFields(frames[i].table))'
           /\ fields'[frames'[i].table][frames'[i].at] = frames'[i + 1].table
    BY <1>6, <2>4, <2>10
  <2>13. \A i, j \in DOMAIN frames' : i < j =>
           /\ (frames[j].table \in O!Below(frames[i].table))'
           /\ frames'[i].object < frames'[j].object
           /\ 1 < i => frames'[i].table # frames'[j].table
    BY <2>1, <2>5
  <2> QED BY <2>6, <2>7, <2>8, <2>9, <2>11, <2>12, <2>13 DEF Nested
<1>12. ASSUME NEW m \in DOMAIN object, NEW g \in Field
       PROVE  g \in Left(m)' \/ Right(m, g)'
  <2>1. ASSUME g \in Left(m) PROVE g \in Left(m)'
    <3>1. PICK i \in DOMAIN frames :
            /\ frames[i].object = m
            /\ g \in frames[i].left \/ (i < k /\ g = frames[i].at)
      BY <1>0, <2>1 DEF Left
    <3>2. i \in DOMAIN frames' /\ i \in 1 .. k /\ i < Len(frames')
          /\ DOMAIN frames = 1 .. k
      BY <1>0, <1>1, <1>6, TypeLemma
    <3>3. CASE i = k
      BY <1>1, <1>3, <1>6, <3>1, <3>2, <3>3 DEF Left
    <3>4. CASE i # k
      <4>1. i \in 1 .. k - 1 BY <3>2, <3>4
      <4>2. frames'[i] = frames[i] BY <1>6, <4>1
      <4> QED BY <3>1, <3>2, <4>2 DEF Left
    <3> QED BY <3>3, <3>4
  <2>2. Len(object) <= Len(object') BY <1>0, <1>4, <1>8
  <2> QED BY <1>8, <1>9, <2>1, <2>2, FilledKept
<1>13. ASSUME NEW g \in Field
       PROVE  g \in Left(n)' \/ Right(n, g)'
  <2>1. k + 1 \in DOMAIN frames' BY <1>1, <1>6
  <2>2. CASE g \in O!VisitedFields(v)
    BY <1>5, <1>6, <2>1, <2>2 DEF Left
  <2>3. CASE g \notin O!VisitedFields(v)
    BY <1>7, <1>8, <1>10, <2>3 DEF Right
  <2> QED BY <2>2, <2>3
<1>14. ASSUME NEW m \in DOMAIN object', called = "toobject",
              object'[m].of \in oddKey
       PROVE  \E i \in DOMAIN frames' : frames'[i].object = m
  <2>1. CASE m = n
    <3>1. k + 1 \in DOMAIN frames' BY <1>1, <1>6
    <3> QED BY <1>5, <1>6, <2>1, <3>1
  <2>2. CASE m # n
    <3>1. m \in DOMAIN object BY <1>4, <1>8, <2>2, <1>0
    <3>2. PICK i \in DOMAIN frames : frames[i].object = m
      BY <1>8, <1>14, <3>1 DEF Filled
    <3>3. i \in DOMAIN frames' /\ i \in 1 .. k
      BY <1>0, <1>1, <1>6, TypeLemma
    <3>4. frames'[i].object = frames[i].object
      BY <1>1, <1>3, <1>6, <3>3
    <3> QED BY <3>2, <3>3, <3>4
  <2> QED BY <2>1, <2>2
<1>15. object' # <<>> /\ object'[1].of = Given
  <2>1. object # <<>> /\ object[1].of = Given BY DEF Filled
  <2>2. Len(object) # 0 BY <1>4, <2>1, EmptySeq
  <2>3. 1 \in DOMAIN object BY <1>4, <2>2
  <2> QED BY <1>8, <2>1, <2>2, <2>3
<1>16. Filled'
  <2>1. \A m \in DOMAIN object' : m \in DOMAIN object \/ m = n
    BY <1>0, <1>4, <1>8
  <2> QED BY <1>12, <1>13, <1>14, <1>15, <2>1 DEF Filled
<1> QED BY <1>9, <1>11, <1>16

(* A table is copied: the object around it gets the object.                *)
LEMMA ReturnInnerStep ==
  ASSUME CopyingTypes, Nested, Filled, NEW u, u = O!top, u.left = {},
         called = "toobject" => u.table \notin oddKey,
         NEW o, o = O!Rest[Len(O!Rest)], Len(frames) # 1,
         O!Put(o.object, o.at, u.object), O!Leave(u.table),
         frames' = [O!Rest EXCEPT ![Len(O!Rest)].at = Unset],
         UNCHANGED <<called, fields, oddKey, outcome>>
  PROVE  CopyingTypes' /\ Nested' /\ Filled'
<1>0. PICK k \in Nat \ {0}, n \in Nat : k = Len(frames) /\ n = Len(object)
  <2>1. Len(frames) \in Nat \ {0} /\ Len(object) \in Nat
    BY TopLemma, TypeLemma
  <2> QED BY <2>1
<1>1. /\ k \in 1 .. k /\ u = frames[k] /\ u \in Call
      /\ u.table \in Table /\ u.object \in DOMAIN object
      /\ object[u.object].of = u.table
  BY <1>0, TopLemma
<1>2. /\ DOMAIN frames = 1 .. k /\ DOMAIN object = 1 .. n
      /\ frames \in Seq(Call) /\ object \in Seq(Copy)
      /\ \A i \in 1 .. k : frames[i].table \in Table
  BY <1>0, TypeLemma DEF CopyingTypes
<1>3. k - 1 \in 1 .. k /\ k - 1 < k /\ k - 1 \in Nat /\ k - 1 # 0
  BY <1>0
<1>4. /\ O!Rest \in Seq(Call) /\ Len(O!Rest) = k - 1
      /\ \A i \in 1 .. k - 1 : O!Rest[i] = frames[i]
  <2>1. \A i \in 1 .. k - 1 : frames[i] \in Call BY <1>2, <1>3
  <2> DEFINE r == SubSeq(frames, 1, k - 1)
  <2>2. /\ r \in Seq(Call)
        /\ Len(r) = IF 1 <= k - 1 THEN k - 1 - 1 + 1 ELSE 0
        /\ \A i \in 1 .. k - 1 - 1 + 1 : r[i] = frames[1 + i - 1]
    BY <2>1, SubSeqProperties
  <2>3. O!Rest = r BY <1>0 DEF O!Rest
  <2> HIDE DEF r
  <2>4. (IF 1 <= k - 1 THEN k - 1 - 1 + 1 ELSE 0) = k - 1 OBVIOUS
  <2>5. ASSUME NEW i \in 1 .. k - 1 PROVE r[i] = frames[i]
    <3>1. i \in 1 .. k - 1 - 1 + 1 /\ 1 + i - 1 = i OBVIOUS
    <3> QED BY <2>2, <3>1
  <2> QED BY <2>2, <2>3, <2>4, <2>5
<1>5. o = frames[k - 1] /\ o \in Call BY <1>2, <1>3, <1>4
<1>6. /\ o.table \in Table /\ o.object \in DOMAIN object
      /\ object[o.object].of = o.table
      /\ o.at \in O!VisitedFields(o.table) /\ o.at \in Field
      /\ fields[o.table][o.at] = u.table /\ o.object < u.object
  <2>1. k - 1 \in 1 .. Len(frames) - 1 /\ k - 1 + 1 = k /\ k - 1 < k
        /\ k - 1 \in DOMAIN frames /\ k \in DOMAIN frames
    BY <1>0, <1>2, <1>3
  <2> QED BY <1>1, <1>2, <1>5, <2>1, VisitedLemma DEF Nested
<1> DEFINE e == [o EXCEPT !.at = Unset]
<1>7. /\ e \in Call /\ e.table = o.table /\ e.object = o.object
      /\ e.left = o.left
  BY <1>5 DEF Call
<1>8. /\ frames' \in Seq(Call) /\ Len(frames') = k - 1 /\ frames'[k - 1] = e
      /\ \A i \in 1 .. k - 1 : i # k - 1 => frames'[i] = frames[i]
  <2>1. frames' = [O!Rest EXCEPT ![k - 1] = e] BY <1>4
  <2> HIDE DEF e
  <2>2. k - 1 \in 1 .. Len(O!Rest) BY <1>3, <1>4
  <2> DEFINE t == [O!Rest EXCEPT ![k - 1] = e]
  <2>3. /\ t \in Seq(Call) /\ Len(t) = k - 1
        /\ \A j \in 1 .. k - 1 : t[j] = IF j = k - 1 THEN e ELSE O!Rest[j]
    BY <1>4, <1>7, <2>2, ExceptSeq
  <2> HIDE DEF t
  <2>4. frames' = t BY <2>1 DEF t
  <2> QED BY <1>3, <1>4, <2>2, <2>3, <2>4
<1> HIDE DEF e
<1>9. /\ object' \in Seq(Copy) /\ Len(object') = n /\ DOMAIN object' = 1 .. n
      /\ object'[o.object].has[o.at] = u.object
      /\ \A m \in DOMAIN object :
           /\ object'[m].of = object[m].of
           /\ \A g \in Field : m # o.object \/ g # o.at =>
                object'[m].has[g] = object[m].has[g]
  <2>1. object' = Stored(object, o.object, o.at, u.object) BY DEF O!Put, Stored
  <2>2. u.object \in Content BY <1>1, <1>2 DEF Content
  <2> DEFINE p == Stored(object, o.object, o.at, u.object)
  <2>3. /\ p \in Seq(Copy) /\ Len(p) = Len(object)
        /\ DOMAIN p = DOMAIN object /\ p[o.object].has[o.at] = u.object
        /\ \A m \in DOMAIN object :
             /\ p[m].of = object[m].of
             /\ \A g \in Field : m # o.object \/ g # o.at =>
                  p[m].has[g] = object[m].has[g]
    <3>1. /\ object \in Seq(Copy) /\ o.object \in DOMAIN object
          /\ o.at \in Field
      BY <1>2, <1>6
    <3> QED BY ONLY <2>2, <3>1, PutLemma
  <2> HIDE DEF p
  <2> QED BY <1>0, <1>2, <2>1, <2>3 DEF p
<1>10. \A i \in 1 .. k - 1 : /\ frames'[i].table = frames[i].table
                            /\ frames'[i].object = frames[i].object
                            /\ frames'[i].left = frames[i].left
  BY <1>3, <1>5, <1>7, <1>8
<1>11. CopyingTypes'
  BY <1>8, <1>9 DEF CopyingTypes, O!Leave
<1>12. Nested'
  <2>1. visited' = {frames[i].table : i \in 2 .. k - 1}
    <3>1. visited = {frames[i].table : i \in 2 .. k} BY <1>0 DEF Nested
    <3>2. visited' = visited \ {u.table} BY DEF O!Leave
    <3>3. ASSUME NEW i \in 2 .. k - 1
          PROVE  frames[i].table # u.table /\ i \in 2 .. k
      <4>1. i \in DOMAIN frames /\ k \in DOMAIN frames /\ i < k /\ 1 < i
        BY <1>2
      <4> QED BY <1>1, <4>1 DEF Nested
    <3>4. ASSUME NEW i \in 2 .. k, frames[i].table # u.table
          PROVE  i \in 2 .. k - 1
      BY <1>1, <3>4
    <3>5. ASSUME NEW y \in visited'
          PROVE  \E i \in 2 .. k - 1 : y = frames[i].table
      BY <3>1, <3>2, <3>4
    <3>6. ASSUME NEW i \in 2 .. k - 1 PROVE frames[i].table \in visited'
      BY <3>1, <3>2, <3>3
    <3> QED BY ONLY <3>5, <3>6
  <2>2. Cardinality(visited') = k - 1 - 1
    <3>1. IsFiniteSet(visited) BY FiniteLemma, FS_Subset DEF CopyingTypes
    <3>2. Cardinality(visited) = k - 1 BY <1>0 DEF Nested
    <3>3. u.table \in visited
      <4>1. k \in 2 .. Len(frames) BY <1>0, <1>3
      <4> QED BY <1>1, <4>1 DEF Nested
    <3> QED BY <3>1, <3>2, <3>3, FS_RemoveElement DEF O!Leave
  <2>3. \A i \in 1 .. k - 1 - 1 : frames'[i].at = frames[i].at
    <3> SUFFICES ASSUME NEW i \in 1 .. k - 1 - 1
                 PROVE  frames'[i].at = frames[i].at
      OBVIOUS
    <3>1. i \in 1 .. k - 1 /\ i # k - 1 OBVIOUS
    <3> QED BY <1>8, <3>1
  <2>4. k - 1 \in 1 .. Len(frames) BY <1>0, <1>3
  <2> QED BY <1>2, <1>8, <1>9, <1>10, <1>11, <2>1, <2>2, <2>3, <2>4,
             NestedPrefix
<1>13. ASSUME NEW m \in DOMAIN object, NEW g \in Field
       PROVE  g \in Left(m)' \/ Right(m, g)'
  <2>1. CASE m = o.object /\ g = o.at
    <3>1. O!VisitedFields(o.table)' = O!VisitedFields(o.table)
      BY <1>6, SameFields
    <3>2. u.object \in m + 1 .. n BY <1>1, <1>2, <1>6, <2>1
    <3>3. u.table # NaN
      BY <1>1, PartsAssumption DEF O!ToObjectAssumption
    <3>4. /\ object'[m].of = o.table /\ object'[m].has[g] = u.object
          /\ object'[u.object].of = u.table /\ Len(object') = n
          /\ fields'[o.table][g] = u.table
      BY <1>1, <1>6, <1>9, <2>1
    <3>5. Right(m, g)' <=>
            IF g \notin O!VisitedFields(o.table) THEN u.object = Unset
            ELSE /\ u.table # NaN
                 /\ u.table \in Table =>
                      u.object \in m + 1 .. n /\ object'[u.object].of = u.table
                 /\ u.table \notin Table => u.object = u.table
      BY <3>1, <3>4 DEF Right
    <3> QED BY <1>1, <1>6, <2>1, <3>2, <3>3, <3>4, <3>5
  <2>2. CASE m # o.object \/ g # o.at
    <3>1. ASSUME g \in Left(m) PROVE g \in Left(m)'
      <4>1. PICK i \in DOMAIN frames :
              /\ frames[i].object = m
              /\ g \in frames[i].left \/ (i < k /\ g = frames[i].at)
        BY <1>0, <3>1 DEF Left
      <4>2. i # k BY <1>1, <4>1
      <4>3. i \in 1 .. k - 1 /\ i \in DOMAIN frames' BY <1>2, <1>8, <4>2
      <4>4. CASE g \in frames[i].left
        BY <1>10, <4>1, <4>3, <4>4 DEF Left
      <4>5. CASE g \notin frames[i].left
        <5>1. i # k - 1 BY <1>5, <2>2, <4>1, <4>5
        <5>2. i < Len(frames') /\ frames'[i] = frames[i]
          BY <1>8, <4>3, <5>1
        <5> QED BY <4>1, <4>3, <4>5, <5>2 DEF Left
      <4> QED BY <4>4, <4>5
    <3>2. Len(object) <= Len(object') BY <1>0, <1>9
    <3>3. object'[m].has[g] = object[m].has[g] BY <1>9, <2>2
    <3>4. \A w \in DOMAIN object : object'[w].of = object[w].of BY <1>9
    <3>5. CASE g \in Left(m) BY <3>1, <3>5
    <3>6. CASE Right(m, g)
      BY <1>11, <3>2, <3>3, <3>4, <3>6, RightKept
    <3> QED BY <3>5, <3>6 DEF Filled
  <2> QED BY <2>1, <2>2
<1>14. ASSUME NEW m \in DOMAIN object, called = "toobject",
              object[m].of \in oddKey
       PROVE  \E i \in DOMAIN frames' : frames'[i].object = m
  <2>1. PICK i \in DOMAIN frames : frames[i].object = m BY <1>14 DEF Filled
  <2>2. i # k BY <1>1, <1>14, <2>1
  <2>3. i \in 1 .. k - 1 /\ i \in DOMAIN frames' BY <1>2, <1>8, <2>2
  <2> QED BY <1>10, <2>1, <2>3
<1>15. object' # <<>> /\ object'[1].of = Given
  <2>1. object # <<>> /\ object[1].of = Given BY DEF Filled
  <2>2. Len(object) # 0 BY <1>2, <2>1, EmptySeq
  <2>3. 1 \in DOMAIN object BY <1>0, <1>2, <2>2
  <2> QED BY <1>2, <1>9, <2>1, <2>3
<1>16. Filled' BY <1>2, <1>9, <1>13, <1>14, <1>15 DEF Filled
<1> QED BY <1>11, <1>12, <1>16

(* The first call returns: nothing is left to fill.                        *)
LEMMA ReturnLastStep ==
  ASSUME CopyingTypes, Nested, Filled, O!top.left = {}, Len(frames) = 1,
         called = "toobject" => O!top.table \notin oddKey,
         frames' = <<>>, outcome' = "done",
         UNCHANGED <<called, fields, oddKey, visited, object>>
  PROVE  CopyingTypes' /\ Filled'
<1>1. CopyingTypes' BY DEF CopyingTypes
<1>2. /\ O!top = frames[1] /\ DOMAIN frames = {1}
      /\ object[O!top.object].of = O!top.table
  BY TypeLemma, TopLemma
<1>3. ASSUME NEW m \in DOMAIN object, NEW g \in Field PROVE Right(m, g)'
  <2>1. g \notin Left(m) BY <1>2 DEF Left
  <2>2. Right(m, g) BY <2>1 DEF Filled
  <2> QED BY <1>1, <2>2, TypeLemma, RightKept
<1>4. ASSUME NEW m \in DOMAIN object, called = "toobject"
      PROVE  object[m].of \notin oddKey
  BY <1>2, <1>4 DEF Filled
<1>5. object # <<>> /\ object[1].of = Given BY DEF Filled
<1> QED BY <1>1, <1>3, <1>4, <1>5 DEF Filled

(* The table being copied is the given one or below it.                    *)
LEMMA WithinLemma ==
  ASSUME CopyingTypes, Nested, NEW i \in DOMAIN frames
  PROVE  /\ frames[i].table \in {Given} \cup O!Below(Given)
         /\ i # 1 => frames[i].table \in O!Below(Given)
<1>1. 1 \in DOMAIN frames /\ (i = 1 \/ 1 < i) BY TypeLemma
<1>2. frames[1].table = Given BY DEF Nested
<1>3. 1 < i => frames[i].table \in O!Below(frames[1].table)
  BY <1>1 DEF Nested
<1> QED BY <1>1, <1>2, <1>3

(* The calls nest no deeper than there are tables, and one.                *)
LEMMA DepthLemma ==
  ASSUME CopyingTypes, Nested
  PROVE  Len(frames) <= Cardinality(Table) + 1
<1>1. Cardinality(visited) <= Cardinality(Table)
  BY FiniteLemma, FS_Subset DEF CopyingTypes
<1>2. Cardinality(visited) = Len(frames) - 1 BY DEF Nested
<1>3. Cardinality(Table) \in Nat BY FiniteLemma, FS_CardinalityType
<1> QED BY <1>1, <1>2, <1>3, TypeLemma

(* A value that is refused is one that the property names.                 *)
LEMMA FailStep ==
  ASSUME CopyingTypes, Nested, NEW u, u = O!top,
         \/ called = "toobject" /\ u.table \in oddKey
         \/ \E f \in u.left : fields[u.table][f] \in visited \cup {NaN}
  PROVE  Failed
<1>1. /\ Len(frames) \in DOMAIN frames /\ Len(frames) \in Nat
      /\ u = frames[Len(frames)]
      /\ u.table \in Table /\ u.left \subseteq O!VisitedFields(u.table)
  BY TopLemma, TypeLemma
<1>2. u.table \in {Given} \cup O!Below(Given) BY <1>1, WithinLemma
<1>3. CASE called = "toobject" /\ u.table \in oddKey
  BY <1>2, <1>3 DEF Failed, O!Refused
<1>4. CASE \E f \in u.left : fields[u.table][f] = NaN
  BY <1>1, <1>2, <1>4 DEF Failed, O!Refused
<1>5. CASE \E f \in u.left : fields[u.table][f] \in visited
  <2>1. PICK f \in u.left : fields[u.table][f] \in visited BY <1>5
  <2> DEFINE v == fields[u.table][f]
  <2>2. PICK i \in 2 .. Len(frames) : v = frames[i].table
    BY <2>1 DEF Nested
  <2>3. i \in DOMAIN frames /\ i # 1 /\ v \in Table
    BY <2>2, TypeLemma
  <2>4. v \in O!Below(Given) BY <2>2, <2>3, WithinLemma
  <2>5. v \in O!Refs(u.table) BY <1>1, <2>1, <2>3, RefLemma
  <2>6. v \in O!Below(v)
    <3>1. CASE i = Len(frames)
      BY <1>1, <2>2, <2>3, <2>5, <3>1, BelowLemma
    <3>2. CASE i # Len(frames)
      <4>1. i < Len(frames) BY <1>1, <3>2
      <4>2. u.table \in O!Below(v) BY <1>1, <2>2, <2>3, <4>1 DEF Nested
      <4> QED BY <2>3, <2>5, <4>2, BelowLemma
    <3> QED BY <3>1, <3>2
  <2> QED BY <2>4, <2>6 DEF Failed, O!Refused
<1> QED BY <1>3, <1>4, <1>5

LEMMA CopyingStep ==
  ASSUME CopyingInv, O!ToObjectNext
  PROVE  CopyingInv'
<1> PICK u : u = O!top OBVIOUS
<1>1. outcome = "running"
  BY DEF O!ToObjectNext, O!OddKey, O!Return, O!Visit
<1>2. CopyingTypes /\ Nested /\ Filled BY <1>1 DEF CopyingInv
<1>3. ASSUME Failed, outcome' = "error",
             UNCHANGED <<called, fields, oddKey, frames, visited, object>>
      PROVE  CopyingInv'
  <2>1. Failed' BY <1>3, SameFields
  <2>2. CopyingTypes' BY <1>2, <1>3 DEF CopyingTypes
  <2>3. Len(frames') <= Cardinality(Table) + 1 BY <1>2, <1>3, DepthLemma
  <2> QED BY <1>3, <2>1, <2>2, <2>3 DEF CopyingInv
<1>4. CASE O!OddKey
  BY <1>2, <1>3, <1>4, FailStep DEF O!OddKey
<1>5. ASSUME NEW f \in Field, O!Visit(f) PROVE CopyingInv'
  <2> PICK v : v = fields[u.table][f] OBVIOUS
  <2>1. f \in u.left /\ UNCHANGED <<called, fields, oddKey>>
    BY <1>5 DEF O!Visit
  <2>2. CASE v \in visited \cup {NaN}
    <3>1. /\ outcome' = "error"
          /\ UNCHANGED <<called, fields, oddKey, frames, visited, object>>
      BY <1>5, <2>2 DEF O!Visit
    <3> QED BY <1>2, <1>3, <2>1, <2>2, <3>1, FailStep
  <2>3. CASE v \notin visited \cup {NaN} /\ v \in Table
    <3>1. /\ object' = Append(object, O!Made(v))
          /\ frames' = Append(O!AtField(f), O!Frame(v, Len(object) + 1))
          /\ visited' = visited \cup {v} /\ UNCHANGED outcome
      BY <1>5, <2>3 DEF O!Visit
    <3>2. CopyingTypes' /\ Nested' /\ Filled'
      BY <1>2, <2>1, <2>3, <3>1, DescendStep
    <3> QED BY <1>1, <3>1, <3>2 DEF CopyingInv
  <2>4. CASE v \notin visited \cup {NaN} /\ v \notin Table
    <3>1. /\ O!Put(u.object, f, v)
          /\ frames' = Append(O!Rest, [u EXCEPT !.left = @ \ {f}])
          /\ UNCHANGED <<visited, outcome>>
      BY <1>5, <2>4 DEF O!Visit
    <3>2. CopyingTypes' /\ Nested' /\ Filled'
      BY <1>2, <2>1, <2>4, <3>1, StoreStep
    <3> QED BY <1>1, <3>1, <3>2 DEF CopyingInv
  <2> QED BY <2>2, <2>3, <2>4
<1>6. CASE O!Return
  <2>1. /\ u.left = {} /\ (called = "toobject" => u.table \notin oddKey)
        /\ UNCHANGED <<called, fields, oddKey>>
    BY <1>6 DEF O!Return
  <2>2. CASE Len(frames) = 1
    <3>1. /\ frames' = <<>> /\ outcome' = "done"
          /\ UNCHANGED <<visited, object>>
      BY <1>6, <2>2 DEF O!Return
    <3>2. CopyingTypes' /\ Filled'
      BY <1>2, <2>1, <2>2, <3>1, ReturnLastStep
    <3> QED BY <3>1, <3>2 DEF CopyingInv
  <2>3. CASE Len(frames) # 1
    <3> PICK o : o = O!Rest[Len(O!Rest)] OBVIOUS
    <3>1. /\ O!Put(o.object, o.at, u.object) /\ O!Leave(u.table)
          /\ frames' = [O!Rest EXCEPT ![Len(O!Rest)].at = Unset]
          /\ UNCHANGED outcome
      BY <1>6, <2>3 DEF O!Return
    <3>2. CopyingTypes' /\ Nested' /\ Filled'
      BY <1>2, <2>1, <2>3, <3>1, ReturnInnerStep
    <3> QED BY <1>1, <3>1, <3>2 DEF CopyingInv
  <2> QED BY <2>2, <2>3
<1> QED BY <1>4, <1>5, <1>6 DEF O!ToObjectNext

LEMMA SmallestLemma ==
  ASSUME NEW A \in SUBSET Nat, A # {}
  PROVE  \E m \in A : \A k \in A : m <= k
<1> DEFINE R == OpToRel(<, Nat)
<1>1. IsWellFoundedOn(R, Nat) BY NatLessThanWellFounded
<1>2. \A a, b \in Nat : a < b => <<a, b>> \in R BY DEF OpToRel
<1> HIDE DEF R
<1>3. PICK m \in A : \A k \in A : ~(<<k, m>> \in R) BY <1>1, WFMin
<1>4. \A k \in A : ~(k < m) BY <1>2, <1>3
<1> QED BY <1>4

(* When all is filled, the tables that were copied are all there is below  *)
(* the given one, and none is below itself: every table in a table was     *)
(* copied later than the last copy of that.                                *)
LEMMA DoneLemma ==
  ASSUME CopyingTypes, Filled, frames = <<>>
  PROVE  /\ ~Failed
         /\ \A n \in DOMAIN object, f \in Field : Right(n, f)
<1>1. /\ Len(object) \in Nat /\ DOMAIN object = 1 .. Len(object)
      /\ \A n \in DOMAIN object : object[n].of \in Table
      /\ DOMAIN frames = {}
  BY TypeLemma
<1>2. \A n \in DOMAIN object, f \in Field : Right(n, f)
  BY <1>1 DEF Filled, Left
<1>3. 1 \in DOMAIN object /\ object[1].of = Given
  <2>1. object # <<>> /\ object[1].of = Given BY DEF Filled
  <2>2. Len(object) # 0 BY <2>1, EmptySeq DEF CopyingTypes
  <2> QED BY <1>1, <2>1, <2>2
<1> DEFINE Later(m) == {object[w].of : w \in {w \in DOMAIN object : m < w}}
<1>4. \A m : Later(m) \subseteq Table BY <1>1
<1>5. ASSUME NEW m \in Nat, NEW w \in DOMAIN object, m <= w
      PROVE  O!Refs(object[w].of) \subseteq Later(m)
  <2> SUFFICES ASSUME NEW f \in O!VisitedFields(object[w].of),
                      fields[object[w].of][f] \in Table
               PROVE  fields[object[w].of][f] \in Later(m)
    BY DEF O!Refs
  <2>1. f \in Field BY <1>1, VisitedLemma
  <2>2. PICK y \in w + 1 .. Len(object) :
          object[y].of = fields[object[w].of][f]
    BY <1>2, <2>1 DEF Right
  <2>3. y \in DOMAIN object /\ m < y BY <1>1, <1>5, <2>2
  <2> QED BY <2>2, <2>3
<1>6. ASSUME NEW m \in Nat, NEW t \in Later(m) PROVE O!Refs(t) \subseteq Later(m)
  <2>1. PICK w \in DOMAIN object : m < w /\ t = object[w].of BY <1>6
  <2>2. m <= w BY <1>1, <2>1
  <2> QED BY <1>5, <2>1, <2>2
<1>7. {Given} \cup O!Below(Given) \subseteq Later(0)
  <2>1. Given \in Later(0) BY <1>1, <1>3
  <2>2. Given \in Table BY PartsAssumption DEF O!ToObjectAssumption
  <2> HIDE DEF Later
  <2> QED BY <1>4, <1>6, <2>1, <2>2, BelowLeast
<1>8. ASSUME NEW t \in Later(0) PROVE ~O!Refused(t)
  <2>1. PICK w \in DOMAIN object : t = object[w].of BY <1>8
  <2>2. called = "toobject" => t \notin oddKey BY <1>1, <2>1 DEF Filled
  <2>3. \A f \in O!VisitedFields(t) : fields[t][f] # NaN
    BY <1>1, <1>2, <2>1, VisitedLemma DEF Right
  <2>4. t \notin O!Below(t)
    <3> DEFINE A == {Len(object) - y : y \in {y \in DOMAIN object :
                                               object[y].of = t}}
    <3>1. A \subseteq Nat /\ A # {} BY <1>1, <2>1
    <3>2. PICK a \in A : \A b \in A : a <= b
      <4> HIDE DEF A
      <4> QED BY <3>1, SmallestLemma
    <3>3. PICK m \in DOMAIN object : a = Len(object) - m /\ object[m].of = t
      OBVIOUS
    <3>4. ASSUME NEW y \in DOMAIN object, m < y PROVE object[y].of # t
      <4>1. SUFFICES ASSUME object[y].of = t PROVE FALSE OBVIOUS
      <4>2. Len(object) - y \in A BY <4>1
      <4>3. Len(object) - m <= Len(object) - y BY <3>2, <3>3, <4>2
      <4> QED BY <1>1, <3>4, <4>3
    <3>5. t \notin Later(m) BY <3>4
    <3>6. m \in Nat /\ m <= m /\ t \in Table BY <1>1, <3>3
    <3>7. O!Refs(t) \subseteq Later(m) BY <1>5, <3>3, <3>6
    <3> HIDE DEF Later
    <3> QED BY <1>4, <1>6, <3>5, <3>6, <3>7, BelowLeast
  <2> QED BY <2>2, <2>3, <2>4 DEF O!Refused
<1> QED BY <1>2, <1>7, <1>8 DEF Failed

LEMMA CopyingGoal == ASSUME CopyingInv PROVE O!CopiesTrees
<1>1. Len(frames) <= O!Cardinality(Table) + 1
  <2>1. Len(frames) <= Cardinality(Table) + 1
    <3>1. CASE outcome = "running" BY <3>1, DepthLemma DEF CopyingInv
    <3>2. CASE outcome = "done"
      <4>1. Cardinality(Table) \in Nat BY FiniteLemma, FS_CardinalityType
      <4>2. Len(frames) = 0 BY <3>2 DEF CopyingInv
      <4> QED BY <4>1, <4>2
    <3>3. CASE outcome = "error" BY <3>3 DEF CopyingInv
    <3> QED BY <3>1, <3>2, <3>3 DEF CopyingInv, CopyingTypes
  <2> QED BY <2>1, CountLemma
<1>2. ASSUME outcome # "running" PROVE outcome = "error" <=> Failed
  <2>1. CASE outcome = "done" BY <2>1, DoneLemma DEF CopyingInv
  <2>2. CASE outcome = "error" BY <2>2 DEF CopyingInv
  <2> QED BY <1>2, <2>1, <2>2 DEF CopyingInv, CopyingTypes
<1>3. ASSUME outcome = "done", NEW n \in 1 .. Len(object), NEW f \in Field
      PROVE  LET t == object[n].of
                 w == object[n].has[f]
                 v == IF f \in O!VisitedFields(t) THEN fields[t][f] ELSE Unset
             IN  IF v \in Table THEN w \in 2 .. Len(object) /\ object[w].of = v
                 ELSE w = v
  <2>1. Right(n, f) BY <1>3, DoneLemma, TypeLemma DEF CopyingInv
  <2>2. Unset \notin Table BY PartsAssumption DEF O!ToObjectAssumption
  <2>3. n + 1 .. Len(object) \subseteq 2 .. Len(object) OBVIOUS
  <2> QED BY <2>1, <2>2, <2>3 DEF Right
<1> QED BY <1>1, <1>2, <1>3 DEF O!CopiesTrees, Failed

(* as3.toobject() and as3.toarray() copy exactly what is a tree, whatever  *)
(* tables refer to one another and in whatever order the fields come, and  *)
(* never recurse deeper than there are tables, and one.                    *)
THEOREM CopiesTreesAlways == PartsSpec => []CopiesTrees
<1> DEFINE Inv == part = "toobject" => CopyingInv
<1>1. PartsInit => Inv BY CopyingStart DEF PartsInit
<1>2. Inv /\ [PartsNext]_parts => Inv'
  <2> SUFFICES ASSUME Inv, [PartsNext]_parts PROVE Inv' OBVIOUS
  <2>1. CASE PartsNext
    BY <2>1, StepOf, CopyingStep
  <2>2. CASE UNCHANGED parts
    <3>1. UNCHANGED <<part, called, fields, oddKey, frames, visited, object,
                      outcome>>
      BY <2>2 DEF parts, copying
    <3>2. /\ \A t : O!VisitedFields(t)' = O!VisitedFields(t)
          /\ \A t : O!Below(t)' = O!Below(t)
      BY <3>1 DEF O!Below, O!Refs, O!VisitedFields, O!Listed, O!SetFields
    <3>3. Failed' <=> Failed BY <3>1, SameFields
    <3>4. Nested => Nested' BY <3>1, <3>2 DEF Nested
    <3>5. Filled => Filled' BY <3>1, <3>2 DEF Filled, Left, Right
    <3>6. CopyingTypes => CopyingTypes' BY <3>1 DEF CopyingTypes
    <3> QED BY <3>1, <3>3, <3>4, <3>5, <3>6 DEF CopyingInv
  <2> QED BY <2>1, <2>2
<1>3. Inv => CopiesTrees BY CopyingGoal DEF CopiesTrees
<1> QED BY <1>1, <1>2, <1>3, PTL DEF PartsSpec

-----------------------------------------------------------------------------
(* table.sort().                                                           *)

SortPcs == {"ends", "middle", "last", "up", "down", "raised", "invalid"}
Spans == [l : Int, u : Int]

(* The ranges lie among n items, and each is larger than the two within.   *)
RangesFit(n, rs) ==
  /\ rs \in Seq(Spans)
  /\ \A k \in 1 .. Len(rs) :
       1 <= rs[k].l /\ rs[k].u <= n /\ rs[k].l <= rs[k].u + 2
  /\ \A k \in 1 .. Len(rs) - 1 :
       rs[k + 1].u - rs[k + 1].l <= rs[k].u - rs[k].l
  /\ \A k \in 1 .. Len(rs) - 2 :
       rs[k].u - rs[k].l + 1 > (rs[k + 1].u - rs[k + 1].l + 1)
                               + (rs[k + 2].u - rs[k + 2].l + 1)

(* i and j stay next to the innermost range.                               *)
ScanFits(rs, sc) ==
  /\ sc \in [pc : SortPcs, i : Int, j : Int, pivot : Item \cup {Nothing}]
  /\ sc.pc \in {"middle", "last"} =>
       rs # <<>> /\ rs[Len(rs)].u - rs[Len(rs)].l >= 2
  /\ sc.pc \in {"up", "down"} =>
       /\ rs # <<>> /\ rs[Len(rs)].u - rs[Len(rs)].l >= 3
       /\ sc.i >= rs[Len(rs)].l + 1 /\ sc.i <= rs[Len(rs)].u + 1
  /\ sc.pc = "up" =>
       sc.j >= rs[Len(rs)].l + 1 /\ sc.j <= rs[Len(rs)].u - 1
  /\ sc.pc = "down" =>
       sc.j >= rs[Len(rs)].l - 1 /\ sc.j <= rs[Len(rs)].u - 2

(* The places hold what they held in `first`, and nil but for n + 1.       *)
CellsFit(n, first, c) ==
  /\ c \in [-1 .. n + 2 -> Item \cup {Nothing}]
  /\ \A p \in -1 .. n + 2 : p \notin 1 .. n + 1 => c[p] = Nothing
  /\ \A v \in Item \cup {Nothing} : Q!Count(c, v) = Q!Count(first, v)

(* In an order, b may come after a.                                        *)
MayFollow(less, a, b) == <<b, a>> \notin less

(* No item is in two ranges.                                               *)
Apart(rs) ==
  \A k, m \in 1 .. Len(rs) : \A p \in Int :
    rs[k].l <= p /\ p <= rs[k].u /\ rs[m].l <= p /\ p <= rs[m].u => k = m

Together(rs, p, q) ==
  \E k \in 1 .. Len(rs) : rs[k].l <= p /\ q <= rs[k].u

(* Two items that are in no range together are in order.                   *)
Settled(n, c, rs, less) ==
  \A p, q \in 1 .. n :
    p < q /\ ~Together(rs, p, q) => MayFollow(less, c[p], c[q])

(* What the comparisons of the innermost range have told.                  *)
ScanTells(c, l, u, sc, less) ==
  /\ sc.pc \in {"middle", "last"} => MayFollow(less, c[l], c[u])
  /\ sc.pc = "last" => MayFollow(less, c[l], c[(l + u) \div 2])
  /\ sc.pc \in {"up", "down"} =>
       /\ sc.i <= u - 1 /\ sc.j >= l /\ c[u - 1] = sc.pivot
       /\ \A p \in Int : l <= p /\ p < sc.i => MayFollow(less, c[p], sc.pivot)
  /\ sc.pc = "up" =>
       \A q \in Int : sc.j <= q /\ q <= u => MayFollow(less, sc.pivot, c[q])
  /\ sc.pc = "down" =>
       /\ MayFollow(less, sc.pivot, c[sc.i])
       /\ \A q \in Int : sc.j < q /\ q <= u => MayFollow(less, sc.pivot, c[q])

RangesGood(n, rs, steady) == RangesFit(n, rs) /\ (steady => Apart(rs))

CellsGood(n, first, c, rs, steady, less) ==
  /\ CellsFit(n, first, c)
  /\ steady => /\ c[n + 1] = Nothing /\ \A p \in 1 .. n : c[p] \in Item
               /\ Settled(n, c, rs, less)

ScanGood(c, rs, sc, steady, less) ==
  /\ ScanFits(rs, sc)
  /\ steady =>
       /\ sc.pc # "invalid"
       /\ rs # <<>> =>
            ScanTells(c, rs[Len(rs)].l, rs[Len(rs)].u, sc, less)

SortTypes ==
  /\ items \in Seq(Item) /\ lt.steady \in BOOLEAN
  /\ lt.steady => Q!IsOrder(lt.less)

(* The inductive invariant of the sort.                                    *)
SortInv ==
  /\ SortTypes /\ RangesGood(Len(items), ranges, lt.steady)
  /\ CellsGood(Len(items), Q!Place(items), cells, ranges, lt.steady, lt.less)
  /\ ScanGood(cells, ranges, scan, lt.steady, lt.less)

(* An order is asymmetric, and its negation transitive.                    *)
LEMMA OrderLemma ==
  ASSUME NEW less, Q!IsOrder(less),
         NEW a \in Item, NEW b \in Item, NEW d \in Item
  PROVE  /\ MayFollow(less, a, a)
         /\ <<a, b>> \in less => MayFollow(less, a, b)
         /\ MayFollow(less, a, b) /\ MayFollow(less, b, d) =>
              MayFollow(less, a, d)
<1>1. /\ \A p \in Item : <<p, p>> \notin less
      /\ \A p, q, r \in Item :
           <<p, q>> \in less /\ <<q, r>> \in less => <<p, r>> \in less
  BY Zenon DEF Q!IsOrder
<1>2. <<a, a>> \notin less  BY <1>1
<1>3. <<a, b>> \in less => <<b, a>> \notin less  BY <1>1
<1>4. ASSUME <<b, a>> \notin less, <<d, b>> \notin less, <<d, a>> \in less
      PROVE  FALSE
  <2>1. <<a, b>> \notin less  BY <1>1, <1>4
  <2>2. <<b, d>> \notin less  BY <1>1, <1>4
  <2>3. Q!Alike(less, a, b) /\ Q!Alike(less, b, d)
    BY <1>4, <2>1, <2>2 DEF Q!Alike
  <2>4. Q!Alike(less, a, d)  BY <2>3, Zenon DEF Q!IsOrder
  <2> QED BY <2>4, <1>4 DEF Q!Alike
<1> QED BY <1>2, <1>3, <1>4 DEF MayFollow

(* Two places are exchanged: as many places hold each value.               *)
LEMMA SwapCount ==
  ASSUME NEW D, IsFiniteSet(D), NEW c, DOMAIN c = D, c = [p \in D |-> c[p]],
         NEW a \in D, NEW b \in D, NEW v
  PROVE  Q!Count(Q!Swap(c, a, b), v) = Q!Count(c, v)
<1> DEFINE s == Q!Swap(c, a, b)
           Was == {p \in D : c[p] = v}
           Is  == {p \in D : s[p] = v}
           f == [p \in Was |-> IF p = a THEN b ELSE IF p = b THEN a ELSE p]
<1>1. /\ DOMAIN s = D /\ s[a] = c[b] /\ s[b] = c[a]
      /\ \A p \in D : p # a /\ p # b => s[p] = c[p]
  BY DEF Q!Swap
<1>2. f \in [Was -> Is]
  BY <1>1
<1>3. \A p, q \in Was : f[p] = f[q] => p = q
  OBVIOUS
<1>4. \A q \in Is : \E p \in Was : f[p] = q
  <2> SUFFICES ASSUME NEW q \in Is PROVE \E p \in Was : f[p] = q
    OBVIOUS
  <2>1. CASE q = a
    BY <2>1, <1>1
  <2>2. CASE q = b
    BY <2>2, <1>1
  <2>3. CASE q # a /\ q # b
    BY <2>3, <1>1
  <2> QED BY <2>1, <2>2, <2>3
<1> HIDE DEF f, Was, Is
<1>5. f \in Bijection(Was, Is)
  BY <1>2, <1>3, <1>4 DEF Bijection, Injection, Surjection, IsInjective
<1>6. ExistsBijection(Was, Is)
  BY <1>5 DEF ExistsBijection
<1>7. IsFiniteSet(Was)
  BY FS_Subset DEF Was
<1>8. Cardinality(Is) = Cardinality(Was)
  BY <1>6, <1>7, FS_Bijection
<1>9. Q!Count(c, v) = Q!Cardinality(Was) /\ Q!Count(s, v) = Q!Cardinality(Is)
  BY <1>1 DEF Q!Count, Was, Is
<1>10. \A A : Q!Cardinality(A) = Cardinality(A)
  BY DEF Q!Cardinality, Cardinality
<1> QED BY <1>8, <1>9, <1>10

LEMMA SwapFits ==
  ASSUME NEW n \in Nat, NEW first, NEW c, CellsFit(n, first, c),
         NEW a \in 1 .. n + 1, NEW b \in 1 .. n + 1
  PROVE  CellsFit(n, first, Q!Swap(c, a, b))
<1> DEFINE D == -1 .. n + 2
           s == Q!Swap(c, a, b)
<1>1. /\ c \in [D -> Item \cup {Nothing}]
      /\ \A p \in D : p \notin 1 .. n + 1 => c[p] = Nothing
      /\ \A v \in Item \cup {Nothing} : Q!Count(c, v) = Q!Count(first, v)
  BY DEF CellsFit
<1>2. a \in D /\ b \in D
  OBVIOUS
<1>3. IsFiniteSet(D)
  BY FS_Interval, -1 \in Int, n + 2 \in Int
<1> HIDE DEF D
<1>4. \A v : Q!Count(s, v) = Q!Count(c, v)
  BY <1>1, <1>2, <1>3, SwapCount
<1>5. s \in [D -> Item \cup {Nothing}]
  BY <1>1, <1>2 DEF Q!Swap
<1>6. \A p \in D : p \notin 1 .. n + 1 => s[p] = Nothing
  BY <1>1, <1>2 DEF Q!Swap
<1> HIDE DEF s
<1>7. \A v \in Item \cup {Nothing} : Q!Count(s, v) = Q!Count(first, v)
  BY <1>1, <1>4
<1> QED BY <1>5, <1>6, <1>7 DEF CellsFit, D, s

LEMMA RangeTypes ==
  ASSUME NEW n, NEW rs, RangesFit(n, rs)
  PROVE  /\ Len(rs) \in Nat /\ DOMAIN rs = 1 .. Len(rs)
         /\ rs # <<>> => Len(rs) \in 1 .. Len(rs)
         /\ \A k \in 1 .. Len(rs) :
              /\ rs[k] \in Spans /\ rs[k].l \in Int /\ rs[k].u \in Int
              /\ 1 <= rs[k].l /\ rs[k].u <= n /\ rs[k].l <= rs[k].u + 2
<1>1. /\ rs \in Seq(Spans)
      /\ \A k \in 1 .. Len(rs) :
           1 <= rs[k].l /\ rs[k].u <= n /\ rs[k].l <= rs[k].u + 2
  BY DEF RangesFit
<1>2. /\ Len(rs) \in Nat /\ DOMAIN rs = 1 .. Len(rs)
      /\ \A k \in 1 .. Len(rs) : rs[k] \in Spans
  BY ONLY <1>1
<1>3. rs # <<>> => Len(rs) \in 1 .. Len(rs)
  BY ONLY <1>1
<1> QED BY ONLY <1>1, <1>2, <1>3 DEF Spans

(* A call returns.                                                         *)
LEMMA RangesReturn ==
  ASSUME NEW n \in Nat, NEW rs, RangesFit(n, rs), rs # <<>>
  PROVE  /\ RangesFit(n, SubSeq(rs, 1, Len(rs) - 1))
         /\ Len(SubSeq(rs, 1, Len(rs) - 1)) = Len(rs) - 1
         /\ \A k \in 1 .. Len(rs) - 1 : SubSeq(rs, 1, Len(rs) - 1)[k] = rs[k]
         /\ Len(rs) \in Nat /\ Len(rs) >= 1
<1> DEFINE o == SubSeq(rs, 1, Len(rs) - 1)
<1>1. rs \in Seq(Spans) /\ Len(rs) \in Nat /\ Len(rs) >= 1
  BY DEF RangesFit
<1>2. /\ o \in Seq(Spans) /\ Len(o) = Len(rs) - 1
      /\ \A k \in 1 .. Len(rs) - 1 : o[k] = rs[k]
  <2> DEFINE m == Len(rs) - 1
  <2>1. m \in Int /\ \A i \in 1 .. m : rs[i] \in Spans
    BY <1>1
  <2>3. m >= 0
    BY <1>1
  <2> HIDE DEF m
  <2>4. m - 1 + 1 = m
    BY <2>1
  <2>2. /\ SubSeq(rs, 1, m) \in Seq(Spans)
        /\ Len(SubSeq(rs, 1, m)) = IF 1 <= m THEN m - 1 + 1 ELSE 0
        /\ \A i \in 1 .. m - 1 + 1 : SubSeq(rs, 1, m)[i] = rs[1 + i - 1]
    BY <2>1, SubSeqProperties
  <2>5. Len(SubSeq(rs, 1, m)) = m
    BY <2>1, <2>2, <2>3
  <2>6. ASSUME NEW i \in 1 .. m PROVE SubSeq(rs, 1, m)[i] = rs[i]
    BY <2>1, <2>2, <2>4
  <2> QED BY <2>2, <2>5, <2>6 DEF m
<1> HIDE DEF o
<1>3. RangesFit(n, o)
  BY <1>1, <1>2 DEF RangesFit
<1> QED BY <1>1, <1>2, <1>3 DEF o

(* A range is split at i, and the larger part comes first.                 *)
SplitAt(l, u, i, a, b) ==
  \/ /\ i - l < u - i
     /\ a = [l |-> i + 1, u |-> u] /\ b = [l |-> l, u |-> i - 1]
  \/ /\ i - l >= u - i
     /\ a = [l |-> l, u |-> i - 1] /\ b = [l |-> i + 1, u |-> u]

WasSplit(n, rs, a, b, ss) ==
  /\ RangesFit(n, ss) /\ Len(ss) = Len(rs) + 1
  /\ Len(rs) \in Nat /\ Len(rs) >= 1
  /\ ss[Len(rs)] = a /\ ss[Len(rs) + 1] = b
  /\ \A k \in 1 .. Len(rs) - 1 : ss[k] = rs[k]

LEMMA RangesSplit ==
  ASSUME NEW n \in Nat, NEW rs, RangesFit(n, rs), rs # <<>>,
         NEW l \in Int, NEW u \in Int, rs[Len(rs)] = [l |-> l, u |-> u],
         u - l >= 3, NEW i \in Int, i >= l + 1, i <= u + 1,
         NEW a, NEW b,
         SplitAt(l, u, i, a, b),
         NEW ss, ss = SubSeq(rs, 1, Len(rs) - 1) \o <<a, b>>
  PROVE  WasSplit(n, rs, a, b, ss)
<1> DEFINE o == SubSeq(rs, 1, Len(rs) - 1)
           m == Len(rs)
<1>1. /\ RangesFit(n, o) /\ Len(o) = m - 1 /\ m \in Nat /\ m >= 1
      /\ \A k \in 1 .. m - 1 : o[k] = rs[k]
  BY RangesReturn
<1>2. o \in Seq(Spans) /\ a \in Spans /\ b \in Spans
  <2>1. o \in Seq(Spans)
    BY <1>1 DEF RangesFit
  <2>2. a \in Spans /\ b \in Spans
    BY ONLY SplitAt(l, u, i, a, b), l \in Int, u \in Int, i \in Int
       DEF SplitAt, Spans
  <2> QED BY <2>1, <2>2
<1>3. ss = o \o <<a, b>>
  OBVIOUS
<1> HIDE DEF o, m
<1>4. /\ ss \in Seq(Spans) /\ Len(ss) = m + 1
      /\ ss[m] = a /\ ss[m + 1] = b
      /\ \A k \in 1 .. m - 1 : ss[k] = rs[k]
  <2>1. /\ <<a, b>> \in Seq(Spans) /\ Len(<<a, b>>) = 2
        /\ <<a, b>>[1] = a /\ <<a, b>>[2] = b
    BY <1>2
  <2>2. /\ o \o <<a, b>> \in Seq(Spans)
        /\ Len(o \o <<a, b>>) = Len(o) + Len(<<a, b>>)
        /\ \A k \in 1 .. Len(o) + Len(<<a, b>>) : (o \o <<a, b>>)[k] =
              IF k <= Len(o) THEN o[k] ELSE <<a, b>>[k - Len(o)]
    BY <1>2, <2>1, ConcatProperties
  <2>3. /\ ss \in Seq(Spans) /\ Len(ss) = m + 1
        /\ \A k \in 1 .. m + 1 : ss[k] =
              IF k <= m - 1 THEN o[k] ELSE <<a, b>>[k - (m - 1)]
    <3>1. Len(o) + Len(<<a, b>>) = m + 1
      BY ONLY <1>1, <2>1
    <3> QED BY ONLY <1>1, <1>3, <2>2, <3>1
  <2>4. m - (m - 1) = 1 /\ m + 1 - (m - 1) = 2
        /\ ~(m <= m - 1) /\ ~(m + 1 <= m - 1)
        /\ m \in 1 .. m + 1 /\ m + 1 \in 1 .. m + 1
    BY <1>1
  <2>5. ss[m] = a /\ ss[m + 1] = b
    BY ONLY <1>1, <2>1, <2>3, <2>4
  <2>6. ASSUME NEW k \in 1 .. m - 1 PROVE ss[k] = rs[k]
    BY ONLY <1>1, <2>3, <2>6, k \in 1 .. m - 1
  <2> QED BY <2>3, <2>5, <2>6
<1>5. /\ \A k \in 1 .. m : rs[k] \in Spans
      /\ \A k \in 1 .. m :
           1 <= rs[k].l /\ rs[k].u <= n /\ rs[k].l <= rs[k].u + 2
      /\ \A k \in 1 .. m - 1 :
           rs[k + 1].u - rs[k + 1].l <= rs[k].u - rs[k].l
      /\ \A k \in 1 .. m - 2 :
           rs[k].u - rs[k].l + 1 > (rs[k + 1].u - rs[k + 1].l + 1)
                                   + (rs[k + 2].u - rs[k + 2].l + 1)
  BY DEF RangesFit, m
<1>6. 1 <= l /\ u <= n /\ rs[m] = [l |-> l, u |-> u]
  BY <1>1, <1>5 DEF m
<1>7. /\ 1 <= a.l /\ a.u <= n /\ a.l <= a.u + 2
      /\ 1 <= b.l /\ b.u <= n /\ b.l <= b.u + 2
      /\ a.u - a.l <= u - l /\ b.u - b.l <= a.u - a.l
      /\ u - l + 1 > (a.u - a.l + 1) + (b.u - b.l + 1)
      /\ a.l \in Int /\ a.u \in Int /\ b.l \in Int /\ b.u \in Int
  <2>1. CASE /\ i - l < u - i
             /\ a = [l |-> i + 1, u |-> u] /\ b = [l |-> l, u |-> i - 1]
    <3>1. a.l = i + 1 /\ a.u = u /\ b.l = l /\ b.u = i - 1
      BY <2>1
    <3> QED BY <2>1, <3>1, <1>6
  <2>2. CASE /\ i - l >= u - i
             /\ a = [l |-> l, u |-> i - 1] /\ b = [l |-> i + 1, u |-> u]
    <3>1. a.l = l /\ a.u = i - 1 /\ b.l = i + 1 /\ b.u = u
      BY <2>2
    <3> QED BY <2>2, <3>1, <1>6
  <2> QED BY <2>1, <2>2 DEF SplitAt
<1>8. ASSUME NEW k \in 1 .. m + 1
      PROVE  1 <= ss[k].l /\ ss[k].u <= n /\ ss[k].l <= ss[k].u + 2
  <2>1. CASE k = m
    BY ONLY <2>1, <1>4, <1>7
  <2>2. CASE k = m + 1
    BY ONLY <2>2, <1>4, <1>7
  <2>3. CASE k \in 1 .. m - 1
    <3>1. k \in 1 .. m /\ ss[k] = rs[k]
      BY ONLY <2>3, <1>4, <1>1
    <3> QED BY ONLY <3>1, <1>5
  <2>4. k = m \/ k = m + 1 \/ k \in 1 .. m - 1
    BY ONLY <1>1, k \in 1 .. m + 1
  <2> QED BY ONLY <2>1, <2>2, <2>3, <2>4
<1>9. ASSUME NEW k \in 1 .. m
      PROVE  ss[k + 1].u - ss[k + 1].l <= ss[k].u - ss[k].l
  <2>1. CASE k = m
    BY ONLY <2>1, <1>4, <1>7
  <2>2. CASE k = m - 1
    <3>1. k \in 1 .. m - 1 /\ k + 1 = m
      BY ONLY <2>2, <1>1, k \in 1 .. m
    <3>2. ss[k] = rs[k] /\ ss[k + 1] = a
      BY ONLY <3>1, <1>4
    <3>3. u - l <= rs[k].u - rs[k].l /\ rs[k] \in Spans
      <4>1. rs[k + 1].u - rs[k + 1].l <= rs[k].u - rs[k].l
        BY ONLY <3>1, <1>5
      <4>2. rs[k + 1].u = u /\ rs[k + 1].l = l
        BY ONLY <3>1, <1>6
      <4> QED BY ONLY <4>1, <4>2, <1>5, k \in 1 .. m
    <3> QED BY ONLY <3>2, <3>3, <1>7, u \in Int, l \in Int DEF Spans
  <2>3. CASE k \in 1 .. m - 2
    <3>1. k \in 1 .. m - 1 /\ k + 1 \in 1 .. m - 1
      BY ONLY <2>3, <1>1
    <3> QED BY ONLY <3>1, <1>4, <1>5
  <2>4. k = m \/ k = m - 1 \/ k \in 1 .. m - 2
    BY ONLY <1>1, k \in 1 .. m
  <2> QED BY ONLY <2>1, <2>2, <2>3, <2>4
<1>10. ASSUME NEW k \in 1 .. m - 1
       PROVE  ss[k].u - ss[k].l + 1 > (ss[k + 1].u - ss[k + 1].l + 1)
                                      + (ss[k + 2].u - ss[k + 2].l + 1)
  <2>1. CASE k = m - 1
    <3>1. k + 1 = m /\ k + 2 = m + 1 /\ k \in 1 .. m
      BY ONLY <2>1, <1>1, k \in 1 .. m - 1
    <3>2. ss[k] = rs[k] /\ ss[k + 1] = a /\ ss[k + 2] = b
      BY ONLY <3>1, <1>4, k \in 1 .. m - 1
    <3>3. u - l <= rs[k].u - rs[k].l /\ rs[k] \in Spans
      <4>1. rs[k + 1].u - rs[k + 1].l <= rs[k].u - rs[k].l
        BY ONLY k \in 1 .. m - 1, <1>5
      <4>2. rs[k + 1].u = u /\ rs[k + 1].l = l
        BY ONLY <3>1, <1>6
      <4> QED BY ONLY <4>1, <4>2, <3>1, <1>5
    <3> QED BY ONLY <3>2, <3>3, <1>7, u \in Int, l \in Int DEF Spans
  <2>2. CASE k = m - 2
    <3>1. /\ k + 2 = m /\ k \in 1 .. m - 2 /\ k + 1 \in 1 .. m - 1
          /\ k \in 1 .. m /\ k + 1 \in 1 .. m
      BY ONLY <2>2, <1>1, k \in 1 .. m - 1
    <3>2. ss[k] = rs[k] /\ ss[k + 1] = rs[k + 1] /\ ss[k + 2] = a
      BY ONLY <3>1, <1>4, k \in 1 .. m - 1
    <3>3. /\ rs[k].u - rs[k].l + 1 > (rs[k + 1].u - rs[k + 1].l + 1)
                                     + (u - l + 1)
          /\ rs[k] \in Spans /\ rs[k + 1] \in Spans
      <4>1. rs[k].u - rs[k].l + 1 > (rs[k + 1].u - rs[k + 1].l + 1)
                                    + (rs[k + 2].u - rs[k + 2].l + 1)
        BY ONLY <3>1, <1>5
      <4>2. rs[k + 2].u = u /\ rs[k + 2].l = l
        BY ONLY <3>1, <1>6
      <4> QED BY ONLY <4>1, <4>2, <3>1, <1>5
    <3> QED BY ONLY <3>2, <3>3, <1>7, u \in Int, l \in Int DEF Spans
  <2>3. CASE k \in 1 .. m - 3
    <3>1. /\ k \in 1 .. m - 1 /\ k + 1 \in 1 .. m - 1
          /\ k + 2 \in 1 .. m - 1 /\ k \in 1 .. m - 2
      BY ONLY <2>3, <1>1
    <3> QED BY ONLY <3>1, <1>4, <1>5
  <2>4. k = m - 1 \/ k = m - 2 \/ k \in 1 .. m - 3
    BY ONLY <1>1, k \in 1 .. m - 1
  <2> QED BY ONLY <2>1, <2>2, <2>3, <2>4
<1>11. RangesFit(n, ss)
  <2>1. Len(ss) - 1 = m /\ Len(ss) - 2 = m - 1
    BY <1>1, <1>4
  <2> QED BY <2>1, <1>4, <1>8, <1>9, <1>10 DEF RangesFit
<1> QED BY <1>1, <1>4, <1>11 DEF WasSplit, m

(* The items within one range are moved: what is settled stays so.         *)
MovedWithin(n, c, d, l, u) ==
  /\ \A p \in 1 .. n : p < l \/ p > u => d[p] = c[p]
  /\ \A p \in 1 .. n : l <= p /\ p <= u =>
       \E q \in 1 .. n : l <= q /\ q <= u /\ d[p] = c[q]

LEMMA SettledKept ==
  ASSUME NEW n \in Nat, NEW c, NEW d, NEW rs, NEW less,
         NEW m \in 1 .. Len(rs), NEW l \in Int, NEW u \in Int,
         rs[m].l = l, rs[m].u = u,
         RangesFit(n, rs), Apart(rs), Settled(n, c, rs, less),
         MovedWithin(n, c, d, l, u)
  PROVE  Settled(n, d, rs, less)
<1> DEFINE In(p) == l <= p /\ p <= u
<1>1. \A k \in 1 .. Len(rs) : rs[k].l \in Int /\ rs[k].u \in Int
  BY RangeTypes
<1> SUFFICES ASSUME NEW p \in 1 .. n, NEW q \in 1 .. n, p < q,
                    ~Together(rs, p, q)
             PROVE  MayFollow(less, d[p], d[q])
  BY DEF Settled
<1>2. PICK a \in 1 .. n : d[p] = c[a] /\ (In(p) => In(a)) /\ (~In(p) => a = p)
  <2>1. CASE In(p)
    BY <2>1 DEF MovedWithin
  <2>2. CASE ~In(p)
    BY <2>2 DEF MovedWithin
  <2> QED BY <2>1, <2>2
<1>3. PICK b \in 1 .. n : d[q] = c[b] /\ (In(q) => In(b)) /\ (~In(q) => b = q)
  <2>1. CASE In(q)
    BY <2>1 DEF MovedWithin
  <2>2. CASE ~In(q)
    BY <2>2 DEF MovedWithin
  <2> QED BY <2>1, <2>2
<1>4. ~(In(p) /\ In(q))
  BY DEF Together
<1>5. a < b
  BY ONLY <1>2, <1>3, <1>4, p < q, p \in 1 .. n, q \in 1 .. n, a \in 1 .. n,
          b \in 1 .. n, l \in Int, u \in Int, n \in Nat
<1>6. ~Together(rs, a, b)
  <2> SUFFICES ASSUME NEW k \in 1 .. Len(rs), rs[k].l <= a, b <= rs[k].u
               PROVE  FALSE
    BY DEF Together
  <2>1. /\ rs[k].l <= b /\ a <= rs[k].u
        /\ rs[k].l \in Int /\ rs[k].u \in Int
    BY <1>1, <1>5
  <2>2. \A e \in Int : rs[k].l <= e /\ e <= rs[k].u /\ In(e) => k = m
    BY Apart(rs) DEF Apart
  <2>3. ~(rs[k].l <= p /\ q <= rs[k].u)
    BY DEF Together
  <2>4. CASE In(p)
    <3>1. k = m
      BY <2>1, <2>2, <2>4, <1>2
    <3> QED BY <2>1, <2>4, <3>1, <1>3, <1>4
  <2>5. CASE In(q)
    <3>1. k = m
      BY <2>1, <2>2, <2>5, <1>3
    <3> QED BY <2>1, <2>5, <3>1, <1>2, <1>4
  <2>6. CASE ~In(p) /\ ~In(q)
    BY <2>3, <2>6, <1>2, <1>3
  <2> QED BY <2>4, <2>5, <2>6
<1> QED BY <1>2, <1>3, <1>5, <1>6 DEF Settled

(* The innermost range is sorted, and its call returns.                    *)
LEMMA SettledReturn ==
  ASSUME NEW n \in Nat, NEW c, NEW rs, NEW less, rs # <<>>, NEW o,
         o = SubSeq(rs, 1, Len(rs) - 1),
         RangesFit(n, rs), Apart(rs), Settled(n, c, rs, less),
         \A p, q \in 1 .. n :
           /\ rs[Len(rs)].l <= p /\ p < q /\ q <= rs[Len(rs)].u
           => MayFollow(less, c[p], c[q])
  PROVE  Apart(o) /\ Settled(n, c, o, less)
<1>1. /\ Len(o) = Len(rs) - 1 /\ \A k \in 1 .. Len(rs) - 1 : o[k] = rs[k]
      /\ Len(rs) \in Nat /\ Len(rs) >= 1
  BY RangesReturn
<1>2. Apart(o)
  BY <1>1 DEF Apart
<1>3. ASSUME NEW p \in 1 .. n, NEW q \in 1 .. n, p < q, ~Together(o, p, q)
      PROVE  MayFollow(less, c[p], c[q])
  <2>1. CASE Together(rs, p, q)
    <3>1. PICK k \in 1 .. Len(rs) : rs[k].l <= p /\ q <= rs[k].u
      BY <2>1 DEF Together
    <3>2. k = Len(rs)
      BY <3>1, <1>1, <1>3 DEF Together
    <3> QED BY <3>1, <3>2, <1>3
  <2>2. CASE ~Together(rs, p, q)
    BY <2>2, <1>3 DEF Settled
  <2> QED BY <2>1, <2>2
<1> QED BY <1>2, <1>3 DEF Settled

(* The innermost range is split at an item that is in its place.           *)
LEMMA SettledSplit ==
  ASSUME NEW n \in Nat, NEW c, NEW rs, NEW less, Q!IsOrder(less),
         RangesFit(n, rs), rs # <<>>,
         Apart(rs), Settled(n, c, rs, less),
         \A p \in 1 .. n : c[p] \in Item,
         NEW l \in Int, NEW u \in Int, rs[Len(rs)] = [l |-> l, u |-> u],
         NEW i \in l + 1 .. u, u - l >= 3,
         \A p \in l .. i - 1 : MayFollow(less, c[p], c[i]),
         \A q \in i + 1 .. u : MayFollow(less, c[i], c[q]),
         NEW a, NEW b,
         SplitAt(l, u, i, a, b),
         NEW ss, ss = SubSeq(rs, 1, Len(rs) - 1) \o <<a, b>>
  PROVE  Apart(ss) /\ Settled(n, c, ss, less)
<1>0. WasSplit(n, rs, a, b, ss)
  <2>1. i \in Int /\ i >= l + 1 /\ i <= u + 1
    OBVIOUS
  <2> QED BY ONLY <2>1, RangesSplit, n \in Nat, RangesFit(n, rs), rs # <<>>,
                  l \in Int, u \in Int, rs[Len(rs)] = [l |-> l, u |-> u],
                  u - l >= 3, SplitAt(l, u, i, a, b),
                  ss = SubSeq(rs, 1, Len(rs) - 1) \o <<a, b>>
<1> DEFINE m == Len(rs)
<1>1. /\ RangesFit(n, ss) /\ Len(ss) = m + 1 /\ m \in Nat /\ m >= 1
      /\ ss[m] = a /\ ss[m + 1] = b
      /\ \A k \in 1 .. m - 1 : ss[k] = rs[k]
  BY <1>0 DEF WasSplit
<1>2. /\ 1 <= l /\ u <= n /\ rs[m].l = l /\ rs[m].u = u
      /\ \A k \in 1 .. m : rs[k].l \in Int /\ rs[k].u \in Int
  <2>1. m \in 1 .. m /\ rs[m] = [l |-> l, u |-> u]
    BY <1>1
  <2> QED BY <2>1, RangeTypes
<1>3. \/ /\ ss[m].l = i + 1 /\ ss[m].u = u
         /\ ss[m + 1].l = l /\ ss[m + 1].u = i - 1
      \/ /\ ss[m].l = l /\ ss[m].u = i - 1
         /\ ss[m + 1].l = i + 1 /\ ss[m + 1].u = u
  BY ONLY <1>1, SplitAt(l, u, i, a, b) DEF SplitAt
<1> HIDE DEF m
<1>4. Apart(ss)
  <2> SUFFICES ASSUME NEW k \in 1 .. m + 1, NEW h \in 1 .. m + 1, NEW p \in Int,
                      ss[k].l <= p, p <= ss[k].u, ss[h].l <= p, p <= ss[h].u
               PROVE  k = h
    BY <1>1 DEF Apart
  <2>1. \A g \in {k, h} : g >= m => rs[m].l <= p /\ p <= rs[m].u
    <3> SUFFICES ASSUME NEW g \in {k, h}, g >= m
                 PROVE  l <= p /\ p <= u
      BY <1>2
    <3>1. g = m \/ g = m + 1
      BY <1>1
    <3>2. ss[g].l <= p /\ p <= ss[g].u
      OBVIOUS
    <3> QED BY ONLY <3>1, <3>2, <1>3, i \in l + 1 .. u, l \in Int, u \in Int,
                    p \in Int
  <2>0. m \in Nat
    BY <1>1
  <2>2. \A g \in 1 .. m + 1 : g < m => g \in 1 .. m - 1 /\ g \in 1 .. m
    BY ONLY <2>0
  <2>3. \A g \in {k, h} : g < m => rs[g].l <= p /\ p <= rs[g].u
    BY <2>2, <1>1
  <2>4. /\ m \in 1 .. m
        /\ \A g, e \in 1 .. m : rs[g].l <= p /\ p <= rs[g].u
                               /\ rs[e].l <= p /\ p <= rs[e].u => g = e
    BY <1>1 DEF Apart, m
  <2>5. CASE k < m /\ h < m
    BY <2>2, <2>3, <2>4, <2>5
  <2>6. CASE k < m /\ h >= m
    <3>1. k = m  BY <2>1, <2>2, <2>3, <2>4, <2>6
    <3> QED BY <3>1, <2>6, <1>1
  <2>7. CASE k >= m /\ h < m
    <3>1. h = m  BY <2>1, <2>2, <2>3, <2>4, <2>7
    <3> QED BY <3>1, <2>7, <1>1
  <2>8. CASE k >= m /\ h >= m
    <3>1. (k = m \/ k = m + 1) /\ (h = m \/ h = m + 1)
      BY <2>8, <1>1
    <3> QED BY ONLY <3>1, <1>3, i \in l + 1 .. u, l \in Int, u \in Int,
                    p \in Int, ss[k].l <= p, p <= ss[k].u,
                    ss[h].l <= p, p <= ss[h].u
  <2> QED BY <2>5, <2>6, <2>7, <2>8, <1>1
<1>5. ASSUME NEW p \in 1 .. n, NEW q \in 1 .. n, p < q, ~Together(ss, p, q)
      PROVE  MayFollow(less, c[p], c[q])
  <2>1. CASE Together(rs, p, q)
    <3>1. PICK k \in 1 .. m : rs[k].l <= p /\ q <= rs[k].u
      BY <2>1 DEF Together, m
    <3>2. \A g \in 1 .. m + 1 : ~(ss[g].l <= p /\ q <= ss[g].u)
      BY <1>1, <1>5 DEF Together
    <3>3. k = m
      BY <3>1, <3>2, <1>1
    <3>4. l <= p /\ q <= u
      BY <3>1, <3>3, <1>2
    <3>5. ~(i + 1 <= p /\ q <= u) /\ ~(l <= p /\ q <= i - 1)
      <4>1. m \in 1 .. m + 1 /\ m + 1 \in 1 .. m + 1
        BY <1>1
      <4> QED BY <4>1, <3>2, <1>3
    <3>6. p <= i /\ i <= q /\ i \in 1 .. n
      BY <3>4, <3>5, <1>2
    <3>7. p = i \/ p \in l .. i - 1
      BY <3>4, <3>6
    <3>8. q = i \/ q \in i + 1 .. u
      BY <3>4, <3>6
    <3>9. c[p] \in Item /\ c[q] \in Item /\ c[i] \in Item
      BY <3>6
    <3>10. CASE p = i
      BY <3>8, <3>10, <1>5
    <3>11. CASE q = i
      BY <3>7, <3>11, <1>5
    <3>12. CASE p # i /\ q # i
      <4>1. MayFollow(less, c[p], c[i]) /\ MayFollow(less, c[i], c[q])
        BY <3>7, <3>8, <3>12
      <4> QED BY <4>1, <3>9, OrderLemma
    <3> QED BY <3>10, <3>11, <3>12
  <2>2. CASE ~Together(rs, p, q)
    BY <2>2, <1>5 DEF Settled
  <2> QED BY <2>1, <2>2
<1> QED BY <1>4, <1>5 DEF Settled

LEMMA SwapPlaces ==
  ASSUME NEW n \in Nat, NEW first, NEW c, CellsFit(n, first, c),
         NEW a \in 1 .. n + 1, NEW b \in 1 .. n + 1, NEW d, d = Q!Swap(c, a, b)
  PROVE  /\ d[a] = c[b] /\ d[b] = c[a]
         /\ \A p \in -1 .. n + 2 : p # a /\ p # b => d[p] = c[p]
<1>1. c \in [-1 .. n + 2 -> Item \cup {Nothing}]
  BY DEF CellsFit
<1>2. a \in -1 .. n + 2 /\ b \in -1 .. n + 2
  OBVIOUS
<1> QED BY <1>1, <1>2 DEF Q!Swap

(* Two items of the innermost range are exchanged.                         *)
LEMMA CellsSwap ==
  ASSUME NEW n \in Nat, NEW first, NEW c, NEW rs, NEW steady \in BOOLEAN,
         NEW less, RangesGood(n, rs, steady), rs # <<>>,
         NEW l \in Int, NEW u \in Int, rs[Len(rs)] = [l |-> l, u |-> u],
         CellsGood(n, first, c, rs, steady, less),
         NEW a \in 1 .. n + 1, NEW b \in 1 .. n + 1,
         steady => a \in l .. u /\ b \in l .. u
  PROVE  CellsGood(n, first, Q!Swap(c, a, b), rs, steady, less)
<1> DEFINE d == Q!Swap(c, a, b)
<1>1. CellsFit(n, first, d)
  BY SwapFits DEF CellsGood
<1>2. /\ d[a] = c[b] /\ d[b] = c[a]
      /\ \A p \in -1 .. n + 2 : p # a /\ p # b => d[p] = c[p]
  BY SwapPlaces DEF CellsGood
<1> HIDE DEF d
<1>3. ASSUME steady
      PROVE  /\ d[n + 1] = Nothing /\ \A p \in 1 .. n : d[p] \in Item
             /\ Settled(n, d, rs, less)
  <2>1. /\ RangesFit(n, rs) /\ Apart(rs) /\ Settled(n, c, rs, less)
        /\ c[n + 1] = Nothing /\ \A p \in 1 .. n : c[p] \in Item
        /\ a \in l .. u /\ b \in l .. u
    BY <1>3 DEF RangesGood, CellsGood
  <2>2. /\ Len(rs) \in 1 .. Len(rs) /\ 1 <= l /\ u <= n
        /\ rs[Len(rs)].l = l /\ rs[Len(rs)].u = u
    BY <2>1, RangeTypes
  <2>3. \A p \in 1 .. n : p \in -1 .. n + 2
    OBVIOUS
  <2>4. a \in 1 .. n /\ b \in 1 .. n
    BY <2>1, <2>2
  <2>5. \A p \in 1 .. n : p # a /\ p # b => d[p] = c[p]
    BY <1>2, <2>3
  <2>6. d[n + 1] = Nothing
    <3>1. n + 1 \in -1 .. n + 2 /\ n + 1 # a /\ n + 1 # b
      BY <2>4
    <3> QED BY <3>1, <1>2, <2>1
  <2>7. \A p \in 1 .. n : d[p] \in Item
    BY <2>1, <2>4, <2>5, <1>2
  <2>8. \A p \in 1 .. n : p < l \/ p > u => d[p] = c[p]
    BY <2>1, <2>5
  <2>9. ASSUME NEW p \in 1 .. n, l <= p /\ p <= u
        PROVE  \E q \in 1 .. n : l <= q /\ q <= u /\ d[p] = c[q]
    <3>1. CASE p = a
      BY <3>1, <1>2, <2>1, <2>4
    <3>2. CASE p = b
      BY <3>2, <1>2, <2>1, <2>4
    <3>3. CASE p # a /\ p # b
      BY <3>3, <2>5, <2>9
    <3> QED BY <3>1, <3>2, <3>3
  <2>10. Settled(n, d, rs, less)
    <3>1. MovedWithin(n, c, d, l, u)
      BY <2>8, <2>9 DEF MovedWithin
    <3> QED BY ONLY <2>1, <2>2, <3>1, SettledKept, n \in Nat, l \in Int,
                    u \in Int
  <2> QED BY <2>6, <2>7, <2>10
<1> QED BY <1>1, <1>3 DEF CellsGood, d

(* A call returns, and its range was sorted.                               *)
LEMMA GoodReturn ==
  ASSUME NEW n \in Nat, NEW first, NEW c, NEW rs, NEW steady \in BOOLEAN,
         NEW less, RangesGood(n, rs, steady), rs # <<>>,
         CellsGood(n, first, c, rs, steady, less),
         steady => \A p, q \in 1 .. n :
           /\ rs[Len(rs)].l <= p /\ p < q /\ q <= rs[Len(rs)].u
           => MayFollow(less, c[p], c[q]),
         NEW o, o = SubSeq(rs, 1, Len(rs) - 1)
  PROVE  RangesGood(n, o, steady) /\ CellsGood(n, first, c, o, steady, less)
<1>1. RangesFit(n, rs) /\ RangesFit(n, o)
  BY RangesReturn DEF RangesGood
<1>2. ASSUME steady PROVE Apart(o) /\ Settled(n, c, o, less)
  <2>1. Apart(rs) /\ Settled(n, c, rs, less)
    BY <1>2 DEF RangesGood, CellsGood
  <2> QED BY <1>1, <1>2, <2>1, SettledReturn
<1> QED BY <1>1, <1>2 DEF RangesGood, CellsGood

(* The innermost range is split at an item that is in its place.           *)
LEMMA GoodSplit ==
  ASSUME NEW n \in Nat, NEW first, NEW c, NEW rs, NEW steady \in BOOLEAN,
         NEW less, steady => Q!IsOrder(less),
         RangesGood(n, rs, steady), rs # <<>>,
         CellsGood(n, first, c, rs, steady, less),
         NEW l \in Int, NEW u \in Int, rs[Len(rs)] = [l |-> l, u |-> u],
         u - l >= 3, NEW i \in l + 1 .. u + 1,
         steady => /\ i <= u
                   /\ \A p \in l .. i - 1 : MayFollow(less, c[p], c[i])
                   /\ \A q \in i + 1 .. u : MayFollow(less, c[i], c[q]),
         NEW a, NEW b, SplitAt(l, u, i, a, b),
         NEW ss, ss = SubSeq(rs, 1, Len(rs) - 1) \o <<a, b>>
  PROVE  RangesGood(n, ss, steady) /\ CellsGood(n, first, c, ss, steady, less)
<1>1. RangesFit(n, rs)
  BY DEF RangesGood
<1>2. RangesFit(n, ss)
  <2>1. i \in Int /\ i >= l + 1 /\ i <= u + 1
    OBVIOUS
  <2>2. WasSplit(n, rs, a, b, ss)
    BY ONLY <1>1, <2>1, RangesSplit, n \in Nat, rs # <<>>,
            l \in Int, u \in Int, rs[Len(rs)] = [l |-> l, u |-> u],
            u - l >= 3, SplitAt(l, u, i, a, b),
            ss = SubSeq(rs, 1, Len(rs) - 1) \o <<a, b>>
  <2> QED BY <2>2 DEF WasSplit
<1>3. ASSUME steady PROVE Apart(ss) /\ Settled(n, c, ss, less)
  <2>1. /\ Apart(rs) /\ Settled(n, c, rs, less) /\ Q!IsOrder(less)
        /\ \A p \in 1 .. n : c[p] \in Item
        /\ \A p \in l .. i - 1 : MayFollow(less, c[p], c[i])
        /\ \A q \in i + 1 .. u : MayFollow(less, c[i], c[q])
    BY <1>3 DEF RangesGood, CellsGood
  <2>2. i \in l + 1 .. u
    BY <1>3
  <2> QED BY ONLY <1>1, <2>1, <2>2, SettledSplit, n \in Nat, rs # <<>>,
                  l \in Int, u \in Int, rs[Len(rs)] = [l |-> l, u |-> u],
                  u - l >= 3, SplitAt(l, u, i, a, b),
                  ss = SubSeq(rs, 1, Len(rs) - 1) \o <<a, b>>
<1> QED BY <1>2, <1>3 DEF RangesGood, CellsGood

LEMMA InnermostLemma ==
  ASSUME SortTypes, RangesGood(Len(items), ranges, lt.steady), ranges # <<>>
  PROVE  /\ Len(items) \in Nat /\ lt.steady \in BOOLEAN
         /\ Q!Top = ranges[Len(ranges)]
         /\ Q!Top.l \in Int /\ Q!Top.u \in Int
         /\ 1 <= Q!Top.l /\ Q!Top.u <= Len(items)
         /\ ranges[Len(ranges)] = [l |-> Q!Top.l, u |-> Q!Top.u]
<1>1. Len(items) \in Nat /\ lt.steady \in BOOLEAN
  BY DEF SortTypes
<1>2. RangesFit(Len(items), ranges)
  BY DEF RangesGood
<1>3. /\ Q!Top \in Spans /\ Q!Top.l \in Int /\ Q!Top.u \in Int
      /\ 1 <= Q!Top.l /\ Q!Top.u <= Len(items)
  BY <1>2, RangeTypes DEF Q!Top
<1> QED BY <1>1, <1>3 DEF Q!Top, Spans

LEMMA InvPrime ==
  ASSUME SortTypes, UNCHANGED <<items, lt>>,
         RangesGood(Len(items), ranges', lt.steady),
         CellsGood(Len(items), Q!Place(items), cells', ranges', lt.steady,
                   lt.less),
         ScanGood(cells', ranges', scan', lt.steady, lt.less)
  PROVE  SortInv'
<1>1. Q!Place(items)' = Q!Place(items)
  BY DEF Q!Place
<1> QED BY <1>1 DEF SortInv, SortTypes

LEMMA AtEnds ==
  ASSUME NEW c, NEW rs, NEW steady, NEW less
  PROVE  ScanGood(c, rs, Q!At("ends"), steady, less)
<1>1. /\ Q!At("ends") \in [pc : SortPcs, i : Int, j : Int,
                           pivot : Item \cup {Nothing}]
      /\ Q!At("ends").pc = "ends"
  BY DEF Q!At, SortPcs
<1>2. ScanFits(rs, Q!At("ends"))
  BY <1>1 DEF ScanFits
<1>3. ScanTells(c, rs[Len(rs)].l, rs[Len(rs)].u, Q!At("ends"), less)
  BY <1>1 DEF ScanTells
<1> QED BY <1>1, <1>2, <1>3 DEF ScanGood

(* A call returns; its range, sorted, is no more.                          *)
LEMMA ReturnStep ==
  ASSUME SortTypes, UNCHANGED <<items, lt>>,
         RangesGood(Len(items), ranges, lt.steady), ranges # <<>>,
         CellsGood(Len(items), Q!Place(items), cells', ranges, lt.steady,
                   lt.less),
         lt.steady => \A p, q \in 1 .. Len(items) :
           Q!Top.l <= p /\ p < q /\ q <= Q!Top.u
           => MayFollow(lt.less, cells'[p], cells'[q]),
         Q!Returns
  PROVE  SortInv'
<1>1. /\ scan' = Q!At("ends")
      /\ ranges' = SubSeq(ranges, 1, Len(ranges) - 1)
  BY DEF Q!Returns, Q!Outer
<1>2. Len(items) \in Nat /\ lt.steady \in BOOLEAN
      /\ Q!Top = ranges[Len(ranges)]
  BY InnermostLemma
<1>3. /\ RangesGood(Len(items), ranges', lt.steady)
      /\ CellsGood(Len(items), Q!Place(items), cells', ranges', lt.steady,
                   lt.less)
  BY <1>1, <1>2, GoodReturn
<1>4. ScanGood(cells', ranges', scan', lt.steady, lt.less)
  BY <1>1, AtEnds
<1> QED BY <1>3, <1>4, InvPrime

(* The three that are compared first are in order.                         *)
LEMMA ThreeSortedStep ==
  ASSUME SortTypes, UNCHANGED <<items, lt>>,
         RangesGood(Len(items), ranges, lt.steady), ranges # <<>>,
         Q!Top.u - Q!Top.l >= 2, NEW c,
         CellsGood(Len(items), Q!Place(items), c, ranges, lt.steady, lt.less),
         lt.steady => /\ MayFollow(lt.less, c[Q!Top.l], c[Q!Middle])
                      /\ MayFollow(lt.less, c[Q!Middle], c[Q!Top.u]),
         Q!ThreeSorted(c)
  PROVE  SortInv'
<1> DEFINE n == Len(items)
           l == Q!Top.l
           u == Q!Top.u
           m == Q!Middle
           steady == lt.steady
           less == lt.less
<1>1. /\ n \in Nat /\ steady \in BOOLEAN /\ l \in Int /\ u \in Int
      /\ 1 <= l /\ u <= n /\ ranges[Len(ranges)] = [l |-> l, u |-> u]
      /\ Q!Top = ranges[Len(ranges)]
  BY InnermostLemma
<1>2. m \in Int /\ l + 1 <= m /\ m <= u - 1 /\ (u - l = 2 => m = l + 1)
  BY <1>1 DEF Q!Middle
<1>3. CellsFit(n, Q!Place(items), c)
  BY DEF CellsGood
<1>4. steady => /\ Q!IsOrder(less) /\ \A p \in 1 .. n : c[p] \in Item
                /\ MayFollow(less, c[l], c[m]) /\ MayFollow(less, c[m], c[u])
  BY DEF SortTypes, CellsGood
<1>5. ASSUME steady
      PROVE  /\ MayFollow(less, c[l], c[u])
             /\ c[l] \in Item /\ c[m] \in Item /\ c[u] \in Item
             /\ MayFollow(less, c[m], c[m])
  <2>1. l \in 1 .. n /\ m \in 1 .. n /\ u \in 1 .. n
    BY <1>1, <1>2
  <2>2. c[l] \in Item /\ c[m] \in Item /\ c[u] \in Item
    BY <1>4, <1>5, <2>1
  <2> QED BY <1>4, <1>5, <2>2, OrderLemma
<1>6. CASE u - l = 2
  <2>1. cells' = c /\ Q!Returns
    BY <1>6 DEF Q!ThreeSorted
  <2>2. ASSUME steady, NEW p \in 1 .. n, NEW q \in 1 .. n,
               l <= p /\ p < q /\ q <= u
        PROVE  MayFollow(less, c[p], c[q])
    <3>1. \/ p = l /\ q = m
          \/ p = l /\ q = u
          \/ p = m /\ q = u
      BY <1>1, <1>2, <1>6, <2>2
    <3> QED BY <1>4, <1>5, <2>2, <3>1
  <2> QED BY <2>1, <2>2, ReturnStep
<1>7. CASE u - l >= 3
  <2> DEFINE d == Q!Swap(c, m, u - 1)
  <2>1. /\ cells' = d /\ ranges' = ranges
        /\ scan' = [pc |-> "up", i |-> l + 1, j |-> u - 1, pivot |-> c[m]]
    BY <1>1, <1>7 DEF Q!ThreeSorted
  <2>2. m \in 1 .. n + 1 /\ u - 1 \in 1 .. n + 1 /\ m \in l .. u
        /\ u - 1 \in l .. u
    BY <1>1, <1>2, <1>7
  <2>3. CellsGood(n, Q!Place(items), d, ranges, steady, less)
    BY <1>1, <2>2, CellsSwap
  <2>4. /\ d[u - 1] = c[m] /\ d[m] = c[u - 1]
        /\ \A p \in -1 .. n + 2 : p # m /\ p # u - 1 => d[p] = c[p]
    BY <1>1, <1>3, <2>2, SwapPlaces
  <2> HIDE DEF d
  <2>5. d[l] = c[l] /\ d[u] = c[u]
    <3>1. l \in -1 .. n + 2 /\ u \in -1 .. n + 2 /\ l # m /\ l # u - 1
          /\ u # m /\ u # u - 1
      BY <1>1, <1>2, <1>7
    <3> QED BY <2>4, <3>1
  <2> DEFINE s == [pc |-> "up", i |-> l + 1, j |-> u - 1, pivot |-> c[m]]
  <2>6. s.pc = "up" /\ s.i = l + 1 /\ s.j = u - 1 /\ s.pivot = c[m]
    OBVIOUS
  <2>7. ScanFits(ranges, s)
    <3>1. c[m] \in Item \cup {Nothing}
      BY <1>3, <2>2 DEF CellsFit
    <3>2. s \in [pc : SortPcs, i : Int, j : Int, pivot : Item \cup {Nothing}]
      BY <1>1, <3>1 DEF SortPcs
    <3>3. ranges[Len(ranges)].l = l /\ ranges[Len(ranges)].u = u
      BY <1>1
    <3> HIDE DEF s
    <3> QED BY <1>1, <1>7, <2>6, <3>2, <3>3 DEF ScanFits
  <2> HIDE DEF s
  <2>8. ASSUME steady PROVE ScanTells(d, l, u, s, less)
    <3>1. /\ s.i <= u - 1 /\ s.j >= l /\ d[u - 1] = s.pivot
      BY <1>1, <1>7, <2>4, <2>6
    <3>2. ASSUME NEW p \in Int, l <= p /\ p < s.i
          PROVE  MayFollow(less, d[p], s.pivot)
      <4>1. p = l
        BY <1>1, <2>6, <3>2
      <4> QED BY <4>1, <1>4, <2>5, <2>6, <2>8
    <3>3. ASSUME NEW q \in Int, s.j <= q /\ q <= u
          PROVE  MayFollow(less, s.pivot, d[q])
      <4>1. q = u - 1 \/ q = u
        BY <1>1, <2>6, <3>3
      <4> QED BY <4>1, <1>4, <1>5, <2>4, <2>5, <2>6, <2>8
    <3> QED BY <2>6, <3>1, <3>2, <3>3 DEF ScanTells
  <2>9. ScanGood(d, ranges, s, steady, less)
    <3>1. ranges[Len(ranges)].l = l /\ ranges[Len(ranges)].u = u
      BY <1>1
    <3> QED BY <2>6, <2>7, <2>8, <3>1 DEF ScanGood
  <2>10. cells' = d /\ scan' = s
    BY <2>1 DEF s
  <2> QED BY <2>1, <2>3, <2>9, <2>10, InvPrime
<1>8. u - l = 2 \/ u - l >= 3
  BY <1>1
<1> QED BY <1>6, <1>7, <1>8

(* The facts that each step starts from.                                   *)
LEMMA StepFacts ==
  ASSUME SortInv, NEW pc, Q!Comparing(pc)
  PROVE  /\ SortTypes /\ RangesGood(Len(items), ranges, lt.steady)
         /\ ranges # <<>> /\ scan.pc = pc
         /\ CellsGood(Len(items), Q!Place(items), cells, ranges, lt.steady,
                      lt.less)
         /\ ScanFits(ranges, scan)
         /\ lt.steady => ScanTells(cells, Q!Top.l, Q!Top.u, scan, lt.less)
         /\ lt.steady => /\ Q!IsOrder(lt.less)
                         /\ \A p \in 1 .. Len(items) : cells[p] \in Item
         /\ Q!Top = ranges[Len(ranges)]
         /\ Len(items) \in Nat /\ lt.steady \in BOOLEAN
         /\ Q!Top.l \in Int /\ Q!Top.u \in Int /\ Q!Top.l < Q!Top.u
         /\ 1 <= Q!Top.l /\ Q!Top.u <= Len(items)
         /\ ranges[Len(ranges)] = [l |-> Q!Top.l, u |-> Q!Top.u]
<1>1. /\ SortTypes /\ RangesGood(Len(items), ranges, lt.steady)
      /\ ranges # <<>> /\ scan.pc = pc /\ Q!Top.l < Q!Top.u
      /\ CellsGood(Len(items), Q!Place(items), cells, ranges, lt.steady,
                   lt.less)
      /\ ScanGood(cells, ranges, scan, lt.steady, lt.less)
  BY DEF SortInv, Q!Comparing
<1>2. lt.steady => /\ Q!IsOrder(lt.less)
                   /\ \A p \in 1 .. Len(items) : cells[p] \in Item
  BY <1>1 DEF SortTypes, CellsGood
<1>3. /\ ScanFits(ranges, scan)
      /\ lt.steady => ScanTells(cells, Q!Top.l, Q!Top.u, scan, lt.less)
  BY <1>1 DEF ScanGood, Q!Top
<1> QED BY <1>1, <1>2, <1>3, InnermostLemma

LEMMA EndsStep ==
  ASSUME SortInv, UNCHANGED <<items, lt>>, NEW yes \in BOOLEAN, Q!Ends(yes)
  PROVE  SortInv'
<1> DEFINE n == Len(items)
           l == Q!Top.l
           u == Q!Top.u
           less == lt.less
<1>1. /\ Q!Comparing("ends") /\ Q!sort_comp(yes, cells[u], cells[l])
      /\ cells' = IF yes THEN Q!Swap(cells, l, u) ELSE cells
      /\ IF u - l = 1 THEN Q!Returns ELSE Q!Goes("middle")
  BY DEF Q!Ends
<1>2. /\ SortTypes /\ RangesGood(n, ranges, lt.steady) /\ ranges # <<>>
      /\ CellsGood(n, Q!Place(items), cells, ranges, lt.steady, less)
      /\ lt.steady => /\ Q!IsOrder(less)
                      /\ \A p \in 1 .. n : cells[p] \in Item
      /\ n \in Nat /\ lt.steady \in BOOLEAN
      /\ l \in Int /\ u \in Int /\ l < u /\ 1 <= l /\ u <= n
      /\ Q!Top = ranges[Len(ranges)]
      /\ ranges[Len(ranges)] = [l |-> l, u |-> u]
  BY <1>1, StepFacts
<1>3. l \in 1 .. n + 1 /\ u \in 1 .. n + 1 /\ l \in l .. u /\ u \in l .. u
      /\ l \in 1 .. n /\ u \in 1 .. n
  BY <1>2
<1>4. CellsGood(n, Q!Place(items), cells', ranges, lt.steady, less)
  BY <1>1, <1>2, <1>3, CellsSwap
<1>5. ASSUME lt.steady PROVE MayFollow(less, cells'[l], cells'[u])
  <2>1. cells[l] \in Item /\ cells[u] \in Item
    BY <1>2, <1>3, <1>5
  <2>2. CASE yes
    <3>1. <<cells[u], cells[l]>> \in less
      BY <2>2, <1>1, <1>5 DEF Q!sort_comp
    <3>2. cells'[l] = cells[u] /\ cells'[u] = cells[l]
      <4>1. CellsFit(n, Q!Place(items), cells)
        BY <1>2 DEF CellsGood
      <4>2. n \in Nat /\ cells' = Q!Swap(cells, l, u)
        BY <2>2, <1>1, <1>2
      <4> QED BY ONLY <1>3, <4>1, <4>2, SwapPlaces
    <3> QED BY <1>2, <1>5, <2>1, <3>1, <3>2, OrderLemma
  <2>3. CASE ~yes
    BY <2>3, <1>1, <1>5 DEF Q!sort_comp, MayFollow
  <2> QED BY <2>2, <2>3
<1>6. CASE u - l = 1
  <2>1. ASSUME lt.steady, NEW p \in 1 .. n, NEW q \in 1 .. n,
               l <= p /\ p < q /\ q <= u
        PROVE  MayFollow(less, cells'[p], cells'[q])
    <3>1. p = l /\ q = u
      BY <1>2, <1>6, <2>1
    <3> QED BY <1>5, <2>1, <3>1
  <2> QED BY <1>1, <1>2, <1>4, <1>6, <2>1, ReturnStep
<1>7. CASE u - l # 1
  <2>1. scan' = Q!At("middle") /\ ranges' = ranges
    BY <1>1, <1>7 DEF Q!Goes
  <2> DEFINE s == Q!At("middle")
  <2>2. /\ s.pc = "middle"
        /\ s \in [pc : SortPcs, i : Int, j : Int, pivot : Item \cup {Nothing}]
    BY DEF Q!At, SortPcs
  <2>3. ranges[Len(ranges)].l = l /\ ranges[Len(ranges)].u = u
    BY <1>2
  <2> HIDE DEF s
  <2>4. ScanFits(ranges, s)
    BY <1>2, <1>7, <2>2, <2>3 DEF ScanFits
  <2>5. lt.steady => ScanTells(cells', l, u, s, less)
    BY <1>5, <2>2 DEF ScanTells
  <2>6. ScanGood(cells', ranges, s, lt.steady, less)
    BY <2>2, <2>3, <2>4, <2>5 DEF ScanGood
  <2> QED BY <1>2, <1>4, <2>1, <2>6, InvPrime DEF s
<1> QED BY <1>6, <1>7

LEMMA MiddleFirstStep ==
  ASSUME SortInv, UNCHANGED <<items, lt>>, NEW yes \in BOOLEAN,
         Q!MiddleFirst(yes)
  PROVE  SortInv'
<1> DEFINE n == Len(items)
           l == Q!Top.l
           u == Q!Top.u
           m == Q!Middle
           less == lt.less
<1>1. /\ Q!Comparing("middle") /\ Q!sort_comp(yes, cells[m], cells[l])
      /\ IF yes THEN Q!ThreeSorted(Q!Swap(cells, m, l))
         ELSE Q!Goes("last") /\ cells' = cells
  BY DEF Q!MiddleFirst
<1>2. /\ SortTypes /\ RangesGood(n, ranges, lt.steady) /\ ranges # <<>>
      /\ CellsGood(n, Q!Place(items), cells, ranges, lt.steady, less)
      /\ lt.steady => /\ Q!IsOrder(less)
                      /\ \A p \in 1 .. n : cells[p] \in Item
      /\ n \in Nat /\ lt.steady \in BOOLEAN
      /\ l \in Int /\ u \in Int /\ 1 <= l /\ u <= n
      /\ Q!Top = ranges[Len(ranges)]
      /\ ranges[Len(ranges)] = [l |-> l, u |-> u]
  BY <1>1, StepFacts
<1>3. /\ u - l >= 2
      /\ lt.steady => MayFollow(less, cells[l], cells[u])
  <2>1. /\ ScanFits(ranges, scan) /\ scan.pc = "middle"
        /\ lt.steady => ScanTells(cells, l, u, scan, less)
    BY <1>1, StepFacts
  <2> QED BY <1>2, <2>1 DEF ScanFits, ScanTells
<1>4. /\ m \in Int /\ l < m /\ m < u /\ m = (l + u) \div 2
      /\ m \in 1 .. n + 1 /\ l \in 1 .. n + 1
      /\ m \in l .. u /\ l \in l .. u
      /\ m \in 1 .. n /\ l \in 1 .. n /\ u \in 1 .. n
  BY <1>2, <1>3 DEF Q!Middle
<1>5. CASE yes
  <2> DEFINE d == Q!Swap(cells, m, l)
  <2>1. CellsGood(n, Q!Place(items), d, ranges, lt.steady, less)
    BY <1>2, <1>4, CellsSwap
  <2>2. /\ d[m] = cells[l] /\ d[l] = cells[m]
        /\ \A p \in -1 .. n + 2 : p # m /\ p # l => d[p] = cells[p]
    <3>1. CellsFit(n, Q!Place(items), cells)
      BY <1>2 DEF CellsGood
    <3>2. n \in Nat
      BY <1>2
    <3> QED BY ONLY <3>1, <3>2, <1>4, SwapPlaces
  <2> HIDE DEF d
  <2>3. d[u] = cells[u]
    <3>1. u \in -1 .. n + 2 /\ u # m /\ u # l
      BY <1>2, <1>4
    <3> QED BY <2>2, <3>1
  <2>4. ASSUME lt.steady
        PROVE  MayFollow(less, d[l], d[m]) /\ MayFollow(less, d[m], d[u])
    <3>1. cells[l] \in Item /\ cells[m] \in Item
      BY <1>2, <1>4, <2>4
    <3>2. <<cells[m], cells[l]>> \in less
      BY <1>1, <1>5, <2>4 DEF Q!sort_comp
    <3>3. MayFollow(less, cells[m], cells[l])
      BY <1>2, <2>4, <3>1, <3>2, OrderLemma
    <3> QED BY <1>3, <2>2, <2>3, <2>4, <3>3
  <2>5. Q!ThreeSorted(d)
    BY <1>1, <1>5 DEF d
  <2> QED BY <1>2, <1>3, <2>1, <2>4, <2>5, ThreeSortedStep
<1>6. CASE ~yes
  <2>1. scan' = Q!At("last") /\ ranges' = ranges /\ cells' = cells
    BY <1>1, <1>6 DEF Q!Goes
  <2> DEFINE s == Q!At("last")
  <2>2. /\ s.pc = "last"
        /\ s \in [pc : SortPcs, i : Int, j : Int, pivot : Item \cup {Nothing}]
    BY DEF Q!At, SortPcs
  <2>3. ranges[Len(ranges)].l = l /\ ranges[Len(ranges)].u = u
    BY <1>2
  <2> HIDE DEF s
  <2>4. ScanFits(ranges, s)
    BY <1>2, <1>3, <2>2, <2>3 DEF ScanFits
  <2>5. lt.steady => MayFollow(less, cells[l], cells[m])
    BY <1>1, <1>6 DEF Q!sort_comp, MayFollow
  <2>6. lt.steady => ScanTells(cells, l, u, s, less)
    BY <1>3, <1>4, <2>2, <2>5 DEF ScanTells
  <2>7. ScanGood(cells, ranges, s, lt.steady, less)
    BY <2>2, <2>3, <2>4, <2>6 DEF ScanGood
  <2> QED BY <1>2, <2>1, <2>7, InvPrime DEF s
<1> QED BY <1>5, <1>6

LEMMA MiddleLastStep ==
  ASSUME SortInv, UNCHANGED <<items, lt>>, NEW yes \in BOOLEAN,
         Q!MiddleLast(yes)
  PROVE  SortInv'
<1> DEFINE n == Len(items)
           l == Q!Top.l
           u == Q!Top.u
           m == Q!Middle
           less == lt.less
           d == Q!Swap(cells, m, u)
<1>1. /\ Q!Comparing("last") /\ Q!sort_comp(yes, cells[u], cells[m])
      /\ Q!ThreeSorted(IF yes THEN d ELSE cells)
  BY DEF Q!MiddleLast
<1>2. /\ SortTypes /\ RangesGood(n, ranges, lt.steady) /\ ranges # <<>>
      /\ CellsGood(n, Q!Place(items), cells, ranges, lt.steady, less)
      /\ lt.steady => /\ Q!IsOrder(less)
                      /\ \A p \in 1 .. n : cells[p] \in Item
      /\ n \in Nat /\ lt.steady \in BOOLEAN
      /\ l \in Int /\ u \in Int /\ 1 <= l /\ u <= n
      /\ Q!Top = ranges[Len(ranges)]
      /\ ranges[Len(ranges)] = [l |-> l, u |-> u]
  BY <1>1, StepFacts
<1>3. /\ u - l >= 2
      /\ lt.steady => /\ MayFollow(less, cells[l], cells[u])
                      /\ MayFollow(less, cells[l], cells[(l + u) \div 2])
  <2>1. /\ ScanFits(ranges, scan) /\ scan.pc = "last"
        /\ lt.steady => ScanTells(cells, l, u, scan, less)
    BY <1>1, StepFacts
  <2> QED BY <1>2, <2>1 DEF ScanFits, ScanTells
<1>4. /\ m \in Int /\ l < m /\ m < u /\ m = (l + u) \div 2
      /\ m \in 1 .. n + 1 /\ u \in 1 .. n + 1
      /\ m \in l .. u /\ u \in l .. u
      /\ m \in 1 .. n /\ l \in 1 .. n /\ u \in 1 .. n
  BY <1>2, <1>3 DEF Q!Middle
<1>5. CASE yes
  <2>1. CellsGood(n, Q!Place(items), d, ranges, lt.steady, less)
    BY <1>2, <1>4, CellsSwap
  <2>2. /\ d[m] = cells[u] /\ d[u] = cells[m]
        /\ \A p \in -1 .. n + 2 : p # m /\ p # u => d[p] = cells[p]
    <3>1. CellsFit(n, Q!Place(items), cells)
      BY <1>2 DEF CellsGood
    <3>2. n \in Nat
      BY <1>2
    <3> QED BY ONLY <3>1, <3>2, <1>4, SwapPlaces
  <2>5. Q!ThreeSorted(d)
    BY <1>1, <1>5
  <2> HIDE DEF d
  <2>3. d[l] = cells[l]
    <3>1. l \in -1 .. n + 2 /\ l # m /\ l # u
      BY <1>2, <1>4
    <3> QED BY <2>2, <3>1
  <2>4. ASSUME lt.steady
        PROVE  MayFollow(less, d[l], d[m]) /\ MayFollow(less, d[m], d[u])
    <3>1. cells[u] \in Item /\ cells[m] \in Item
      BY <1>2, <1>4, <2>4
    <3>2. <<cells[u], cells[m]>> \in less
      BY <1>1, <1>5, <2>4 DEF Q!sort_comp
    <3>3. MayFollow(less, cells[u], cells[m])
      BY <1>2, <2>4, <3>1, <3>2, OrderLemma
    <3> QED BY <1>3, <2>2, <2>3, <2>4, <3>3
  <2> QED BY <1>2, <1>3, <2>1, <2>4, <2>5, ThreeSortedStep
<1>6. CASE ~yes
  <2>1. Q!ThreeSorted(cells)
    BY <1>1, <1>6
  <2>2. lt.steady => /\ MayFollow(less, cells[l], cells[m])
                     /\ MayFollow(less, cells[m], cells[u])
    BY <1>1, <1>3, <1>4, <1>6 DEF Q!sort_comp, MayFollow
  <2> QED BY <1>2, <1>3, <2>1, <2>2, ThreeSortedStep
<1> QED BY <1>5, <1>6

(* One field of a scan, or two, are replaced.                              *)
LEMMA ScanMoves ==
  ASSUME NEW sc \in [pc : SortPcs, i : Int, j : Int,
                     pivot : Item \cup {Nothing}],
         NEW k \in Int, NEW s
  PROVE  /\ s = [sc EXCEPT !.pc = "down", !.j = k] =>
              /\ s.pc = "down" /\ s.i = sc.i /\ s.j = k /\ s.pivot = sc.pivot
              /\ s \in [pc : SortPcs, i : Int, j : Int,
                        pivot : Item \cup {Nothing}]
         /\ s = [sc EXCEPT !.pc = "up", !.i = k] =>
              /\ s.pc = "up" /\ s.i = k /\ s.j = sc.j /\ s.pivot = sc.pivot
              /\ s \in [pc : SortPcs, i : Int, j : Int,
                        pivot : Item \cup {Nothing}]
         /\ s = [sc EXCEPT !.i = k] =>
              /\ s.pc = sc.pc /\ s.i = k /\ s.j = sc.j /\ s.pivot = sc.pivot
              /\ s \in [pc : SortPcs, i : Int, j : Int,
                        pivot : Item \cup {Nothing}]
         /\ s = [sc EXCEPT !.j = k] =>
              /\ s.pc = sc.pc /\ s.i = sc.i /\ s.j = k /\ s.pivot = sc.pivot
              /\ s \in [pc : SortPcs, i : Int, j : Int,
                        pivot : Item \cup {Nothing}]
<1>1. "up" \in SortPcs /\ "down" \in SortPcs
  BY DEF SortPcs
<1>2. ASSUME s = [sc EXCEPT !.pc = "down", !.j = k]
      PROVE  /\ s.pc = "down" /\ s.i = sc.i /\ s.j = k /\ s.pivot = sc.pivot
             /\ s \in [pc : SortPcs, i : Int, j : Int,
                       pivot : Item \cup {Nothing}]
  BY <1>1, <1>2
<1>3. ASSUME s = [sc EXCEPT !.pc = "up", !.i = k]
      PROVE  /\ s.pc = "up" /\ s.i = k /\ s.j = sc.j /\ s.pivot = sc.pivot
             /\ s \in [pc : SortPcs, i : Int, j : Int,
                       pivot : Item \cup {Nothing}]
  BY <1>1, <1>3
<1>4. ASSUME s = [sc EXCEPT !.i = k]
      PROVE  /\ s.pc = sc.pc /\ s.i = k /\ s.j = sc.j /\ s.pivot = sc.pivot
             /\ s \in [pc : SortPcs, i : Int, j : Int,
                       pivot : Item \cup {Nothing}]
  BY <1>4
<1>5. ASSUME s = [sc EXCEPT !.j = k]
      PROVE  /\ s.pc = sc.pc /\ s.i = sc.i /\ s.j = k /\ s.pivot = sc.pivot
             /\ s \in [pc : SortPcs, i : Int, j : Int,
                       pivot : Item \cup {Nothing}]
  BY <1>5
<1> QED BY <1>2, <1>3, <1>4, <1>5

LEMMA UpStep ==
  ASSUME SortInv, UNCHANGED <<items, lt>>, NEW yes \in BOOLEAN, Q!Up(yes)
  PROVE  SortInv'
<1> DEFINE n == Len(items)
           l == Q!Top.l
           u == Q!Top.u
           i == scan.i
           j == scan.j
           P == scan.pivot
           less == lt.less
           s == scan'
<1>1. /\ Q!Comparing("up") /\ Q!sort_comp(yes, cells[i], P)
      /\ s = IF ~yes THEN [scan EXCEPT !.pc = "down", !.j = scan.j - 1]
             ELSE IF i > u THEN Q!At("invalid")
             ELSE [scan EXCEPT !.i = scan.i + 1]
      /\ cells' = cells /\ ranges' = ranges
  BY DEF Q!Up
<1>2. /\ SortTypes /\ RangesGood(n, ranges, lt.steady) /\ ranges # <<>>
      /\ CellsGood(n, Q!Place(items), cells, ranges, lt.steady, less)
      /\ ScanFits(ranges, scan) /\ scan.pc = "up"
      /\ lt.steady => ScanTells(cells, l, u, scan, less)
      /\ lt.steady => /\ Q!IsOrder(less)
                      /\ \A p \in 1 .. n : cells[p] \in Item
      /\ n \in Nat /\ lt.steady \in BOOLEAN
      /\ l \in Int /\ u \in Int /\ 1 <= l /\ u <= n
      /\ ranges[Len(ranges)] = [l |-> l, u |-> u]
  BY <1>1, StepFacts
<1>3. /\ scan \in [pc : SortPcs, i : Int, j : Int,
                   pivot : Item \cup {Nothing}]
      /\ i \in Int /\ j \in Int /\ P \in Item \cup {Nothing}
      /\ u - l >= 3 /\ i >= l + 1 /\ i <= u + 1 /\ j >= l + 1 /\ j <= u - 1
      /\ ranges[Len(ranges)].l = l /\ ranges[Len(ranges)].u = u
  BY <1>2 DEF ScanFits
<1>4. ASSUME lt.steady
      PROVE  /\ i <= u - 1 /\ cells[u - 1] = P
             /\ \A p \in Int : l <= p /\ p < i => MayFollow(less, cells[p], P)
             /\ \A q \in Int : j <= q /\ q <= u => MayFollow(less, P, cells[q])
             /\ cells[i] \in Item /\ P \in Item
  <2>1. /\ i <= u - 1 /\ cells[u - 1] = P
        /\ \A p \in Int : l <= p /\ p < i => MayFollow(less, cells[p], P)
        /\ \A q \in Int : j <= q /\ q <= u => MayFollow(less, P, cells[q])
    BY <1>2, <1>4 DEF ScanTells
  <2>2. i \in 1 .. n /\ u - 1 \in 1 .. n
    BY <1>2, <1>3, <2>1
  <2> QED BY <1>2, <1>4, <2>1, <2>2
<1> SUFFICES ScanGood(cells, ranges, s, lt.steady, less)
  BY <1>1, <1>2, InvPrime
<1> HIDE DEF s
<1>5. CASE ~yes
  <2>1. /\ s.pc = "down" /\ s.i = i /\ s.j = j - 1 /\ s.pivot = P
        /\ s \in [pc : SortPcs, i : Int, j : Int, pivot : Item \cup {Nothing}]
    <3>1. s = [scan EXCEPT !.pc = "down", !.j = j - 1] /\ j - 1 \in Int
      BY <1>1, <1>3, <1>5
    <3>2. scan \in [pc : SortPcs, i : Int, j : Int,
                    pivot : Item \cup {Nothing}]
      BY <1>3
    <3> DEFINE k == j - 1
    <3>3. s = [scan EXCEPT !.pc = "down", !.j = k] /\ k \in Int
      BY <3>1
    <3> HIDE DEF k
    <3>4. /\ s.pc = "down" /\ s.i = i /\ s.j = k /\ s.pivot = P
          /\ s \in [pc : SortPcs, i : Int, j : Int,
                    pivot : Item \cup {Nothing}]
      <4>1. "down" \in SortPcs
        BY DEF SortPcs
      <4> QED BY ONLY <3>2, <3>3, <4>1
    <3> QED BY <3>4 DEF k
  <2>2. ScanFits(ranges, s)
    BY <1>2, <1>3, <2>1 DEF ScanFits
  <2>3. ASSUME lt.steady PROVE ScanTells(cells, l, u, s, less)
    <3>1. MayFollow(less, P, cells[i])
      BY <1>1, <1>5, <2>3 DEF Q!sort_comp, MayFollow
    <3>2. \A q \in Int : s.j < q /\ q <= u => MayFollow(less, P, cells[q])
      BY <1>3, <1>4, <2>1, <2>3
    <3>3. /\ s.i <= u - 1 /\ s.j >= l /\ cells[u - 1] = s.pivot
          /\ \A p \in Int : l <= p /\ p < s.i =>
               MayFollow(less, cells[p], s.pivot)
      BY <1>2, <1>3, <1>4, <2>1, <2>3
    <3> QED BY ONLY <2>1, <3>1, <3>2, <3>3 DEF ScanTells
  <2> QED BY <1>3, <2>1, <2>2, <2>3 DEF ScanGood
<1>6. CASE yes /\ i > u
  <2>1. ~lt.steady
    BY <1>3, <1>4, <1>6, <1>2
  <2>2. /\ s.pc = "invalid"
        /\ s \in [pc : SortPcs, i : Int, j : Int, pivot : Item \cup {Nothing}]
    BY <1>1, <1>6 DEF Q!At, SortPcs
  <2>3. ScanFits(ranges, s)
    BY <2>2 DEF ScanFits
  <2> QED BY <2>1, <2>3 DEF ScanGood
<1>7. CASE yes /\ i <= u
  <2>1. /\ s.pc = "up" /\ s.i = i + 1 /\ s.j = j /\ s.pivot = P
        /\ s \in [pc : SortPcs, i : Int, j : Int, pivot : Item \cup {Nothing}]
    <3>1. ~(i > u)
      BY <1>2, <1>3, <1>7
    <3>2. s = [scan EXCEPT !.i = i + 1]
      BY <1>1, <1>7, <3>1
    <3>3. i + 1 \in Int
      BY <1>3
    <3> QED BY <1>2, <1>3, <3>2, <3>3, ScanMoves
  <2>2. ScanFits(ranges, s)
    BY <1>2, <1>3, <1>7, <2>1 DEF ScanFits
  <2>3. ASSUME lt.steady PROVE ScanTells(cells, l, u, s, less)
    <3>1. <<cells[i], P>> \in less
      BY <1>1, <1>7, <2>3 DEF Q!sort_comp
    <3>2. MayFollow(less, cells[i], P) /\ MayFollow(less, P, P)
      BY <1>2, <1>4, <2>3, <3>1, OrderLemma
    <3>3. i # u - 1
      BY <1>4, <2>3, <3>1, <3>2 DEF MayFollow
    <3>4. s.i <= u - 1
      BY <1>2, <1>3, <1>4, <2>1, <2>3, <3>3
    <3>5. ASSUME NEW p \in Int, l <= p /\ p < s.i
          PROVE  MayFollow(less, cells[p], P)
      <4>1. p < i \/ p = i
        BY <1>3, <2>1, <3>5
      <4> QED BY <4>1, <1>4, <2>3, <3>2, <3>5
    <3>6. s.j >= l /\ cells[u - 1] = s.pivot
      BY <1>2, <1>3, <1>4, <2>1, <2>3
    <3>7. \A q \in Int : s.j <= q /\ q <= u => MayFollow(less, P, cells[q])
      BY <1>4, <2>1, <2>3
    <3> QED BY ONLY <2>1, <3>4, <3>5, <3>6, <3>7 DEF ScanTells
  <2> QED BY <1>3, <2>1, <2>2, <2>3 DEF ScanGood
<1> QED BY <1>2, <1>3, <1>5, <1>6, <1>7

(* What Down() starts from.                                                *)
LEMMA DownFacts ==
  ASSUME SortInv, Q!Comparing("down")
  PROVE  /\ scan \in [pc : SortPcs, i : Int, j : Int,
                      pivot : Item \cup {Nothing}]
         /\ scan.i \in Int /\ scan.j \in Int
         /\ Q!Top.u - Q!Top.l >= 3
         /\ scan.i >= Q!Top.l + 1 /\ scan.i <= Q!Top.u + 1
         /\ scan.j >= Q!Top.l - 1 /\ scan.j <= Q!Top.u - 2
         /\ ranges[Len(ranges)].l = Q!Top.l
         /\ ranges[Len(ranges)].u = Q!Top.u
         /\ lt.steady =>
              /\ scan.i <= Q!Top.u - 1 /\ scan.j >= Q!Top.l
              /\ cells[Q!Top.u - 1] = scan.pivot
              /\ scan.pivot \in Item
              /\ MayFollow(lt.less, scan.pivot, cells[scan.i])
              /\ \A p \in Int : Q!Top.l <= p /\ p < scan.i =>
                   MayFollow(lt.less, cells[p], scan.pivot)
              /\ \A q \in Int : scan.j < q /\ q <= Q!Top.u =>
                   MayFollow(lt.less, scan.pivot, cells[q])
<1> DEFINE n == Len(items)
           l == Q!Top.l
           u == Q!Top.u
<1>1. /\ ScanFits(ranges, scan) /\ scan.pc = "down"
      /\ lt.steady => ScanTells(cells, l, u, scan, lt.less)
      /\ lt.steady => \A p \in 1 .. n : cells[p] \in Item
      /\ n \in Nat /\ l \in Int /\ u \in Int /\ 1 <= l /\ u <= n
      /\ ranges[Len(ranges)] = [l |-> l, u |-> u]
  BY StepFacts
<1>2. /\ scan \in [pc : SortPcs, i : Int, j : Int,
                   pivot : Item \cup {Nothing}]
      /\ scan.i \in Int /\ scan.j \in Int
      /\ u - l >= 3 /\ scan.i >= l + 1 /\ scan.i <= u + 1
      /\ scan.j >= l - 1 /\ scan.j <= u - 2
      /\ ranges[Len(ranges)].l = l /\ ranges[Len(ranges)].u = u
  BY <1>1 DEF ScanFits
<1>3. ASSUME lt.steady
      PROVE  /\ scan.i <= u - 1 /\ scan.j >= l /\ cells[u - 1] = scan.pivot
             /\ scan.pivot \in Item
             /\ MayFollow(lt.less, scan.pivot, cells[scan.i])
             /\ \A p \in Int : l <= p /\ p < scan.i =>
                  MayFollow(lt.less, cells[p], scan.pivot)
             /\ \A q \in Int : scan.j < q /\ q <= u =>
                  MayFollow(lt.less, scan.pivot, cells[q])
  <2>1. u - 1 \in 1 .. n
    <3>1. /\ n \in Nat /\ l \in Int /\ u \in Int
          /\ 1 <= l /\ u <= n /\ u - l >= 3
      BY <1>1, <1>2
    <3> HIDE DEF n, l, u
    <3> QED BY ONLY <3>1
  <2> QED BY <1>1, <1>3, <2>1 DEF ScanTells
<1> QED BY <1>2, <1>3

LEMMA BelowStep ==
  ASSUME SortInv, UNCHANGED <<items, lt>>, Q!Comparing("down"),
         Q!sort_comp(TRUE, scan.pivot, cells[scan.j]), Q!Below(TRUE)
  PROVE  SortInv'
<1> DEFINE n == Len(items)
           l == Q!Top.l
           u == Q!Top.u
           i == scan.i
           j == scan.j
           P == scan.pivot
           less == lt.less
           s == scan'
<1>1. /\ s = IF j < l THEN Q!At("invalid") ELSE [scan EXCEPT !.j = scan.j - 1]
      /\ cells' = cells /\ ranges' = ranges
  BY DEF Q!Below
<1>2. /\ SortTypes /\ RangesGood(n, ranges, lt.steady) /\ scan.pc = "down"
      /\ CellsGood(n, Q!Place(items), cells, ranges, lt.steady, less)
      /\ lt.steady => /\ Q!IsOrder(less)
                      /\ \A p \in 1 .. n : cells[p] \in Item
      /\ n \in Nat /\ l \in Int /\ u \in Int /\ 1 <= l /\ u <= n
      /\ ranges # <<>> /\ ScanFits(ranges, scan)
  BY StepFacts
<1>3. /\ scan \in [pc : SortPcs, i : Int, j : Int,
                   pivot : Item \cup {Nothing}]
      /\ i \in Int /\ j \in Int /\ u - l >= 3 /\ i >= l + 1 /\ i <= u + 1
      /\ j >= l - 1 /\ j <= u - 2
      /\ ranges[Len(ranges)].l = l /\ ranges[Len(ranges)].u = u
      /\ lt.steady =>
           /\ i <= u - 1 /\ j >= l /\ cells[u - 1] = P /\ P \in Item
           /\ MayFollow(less, P, cells[i])
           /\ \A p \in Int : l <= p /\ p < i => MayFollow(less, cells[p], P)
           /\ \A q \in Int : j < q /\ q <= u => MayFollow(less, P, cells[q])
  BY DownFacts
<1> SUFFICES ScanGood(cells, ranges, s, lt.steady, less)
  BY <1>1, <1>2, InvPrime
<1> HIDE DEF s
<1>4. CASE j < l
  <2>1. ~lt.steady
    BY <1>2, <1>3, <1>4
  <2>2. /\ s.pc = "invalid"
        /\ s \in [pc : SortPcs, i : Int, j : Int, pivot : Item \cup {Nothing}]
    BY <1>1, <1>4 DEF Q!At, SortPcs
  <2>3. ScanFits(ranges, s)
    BY <2>2 DEF ScanFits
  <2> QED BY <2>1, <2>3 DEF ScanGood
<1>5. CASE ~(j < l)
  <2>1. /\ s.pc = "down" /\ s.i = i /\ s.j = j - 1 /\ s.pivot = P
        /\ s \in [pc : SortPcs, i : Int, j : Int, pivot : Item \cup {Nothing}]
    <3>1. s = [scan EXCEPT !.j = j - 1] /\ j - 1 \in Int
      BY <1>1, <1>3, <1>5
    <3> QED BY <1>2, <1>3, <3>1, ScanMoves
  <2>2. ScanFits(ranges, s)
    BY <1>2, <1>3, <1>5, <2>1 DEF ScanFits
  <2>3. ASSUME lt.steady PROVE ScanTells(cells, l, u, s, less)
    <3>1. <<P, cells[j]>> \in less
      BY <2>3 DEF Q!sort_comp
    <3>2. j # l
      <4>1. MayFollow(less, cells[l], P)
        BY <1>2, <1>3, <2>3
      <4> QED BY <4>1, <3>1 DEF MayFollow
    <3>3. j >= l + 1 /\ j \in 1 .. n
      BY <1>2, <1>3, <2>3, <3>2
    <3>4. MayFollow(less, P, cells[j])
      BY <1>2, <1>3, <2>3, <3>1, <3>3, OrderLemma
    <3>5. ASSUME NEW q \in Int, s.j < q /\ q <= u
          PROVE  MayFollow(less, P, cells[q])
      <4>1. j < q \/ q = j
        BY <1>3, <2>1, <3>5
      <4> QED BY <4>1, <1>3, <2>3, <3>4, <3>5
    <3>6. s.j >= l
      BY <1>2, <1>3, <2>1, <3>3
    <3> QED BY <1>3, <2>1, <2>3, <3>5, <3>6 DEF ScanTells
  <2> QED BY <1>3, <2>1, <2>2, <2>3 DEF ScanGood
<1> QED BY <1>4, <1>5

LEMMA ExchangeStep ==
  ASSUME SortInv, UNCHANGED <<items, lt>>, Q!Comparing("down"),
         Q!sort_comp(FALSE, scan.pivot, cells[scan.j]), scan.j >= scan.i,
         Q!Exchange
  PROVE  SortInv'
<1> DEFINE n == Len(items)
           l == Q!Top.l
           u == Q!Top.u
           i == scan.i
           j == scan.j
           P == scan.pivot
           less == lt.less
           s == scan'
           d == Q!Swap(cells, i, j)
<1>1. /\ s = [scan EXCEPT !.pc = "up", !.i = scan.i + 1]
      /\ cells' = d /\ ranges' = ranges
  BY DEF Q!Exchange
<1>2. /\ SortTypes /\ RangesGood(n, ranges, lt.steady) /\ scan.pc = "down"
      /\ CellsGood(n, Q!Place(items), cells, ranges, lt.steady, less)
      /\ n \in Nat /\ l \in Int /\ u \in Int /\ 1 <= l /\ u <= n
      /\ ranges # <<>> /\ lt.steady \in BOOLEAN
      /\ ranges[Len(ranges)] = [l |-> l, u |-> u]
  BY StepFacts
<1>3. /\ scan \in [pc : SortPcs, i : Int, j : Int,
                   pivot : Item \cup {Nothing}]
      /\ i \in Int /\ j \in Int /\ u - l >= 3 /\ i >= l + 1 /\ i <= u + 1
      /\ j >= l - 1 /\ j <= u - 2
      /\ ranges[Len(ranges)].l = l /\ ranges[Len(ranges)].u = u
      /\ lt.steady =>
           /\ i <= u - 1 /\ j >= l /\ cells[u - 1] = P /\ P \in Item
           /\ MayFollow(less, P, cells[i])
           /\ \A p \in Int : l <= p /\ p < i => MayFollow(less, cells[p], P)
           /\ \A q \in Int : j < q /\ q <= u => MayFollow(less, P, cells[q])
  BY DownFacts
<1>4. /\ i \in 1 .. n + 1 /\ j \in 1 .. n + 1 /\ i \in l .. u /\ j \in l .. u
      /\ i <= j /\ i <= u - 2
  <2>1. /\ n \in Nat /\ l \in Int /\ u \in Int /\ 1 <= l /\ u <= n
        /\ i \in Int /\ j \in Int /\ i >= l + 1 /\ j <= u - 2 /\ j >= i
    BY <1>2, <1>3
  <2> HIDE DEF n, l, u, i, j
  <2> QED BY ONLY <2>1
<1>5. CellsGood(n, Q!Place(items), d, ranges, lt.steady, less)
  BY <1>2, <1>4, CellsSwap
<1>6. /\ d[i] = cells[j] /\ d[j] = cells[i]
      /\ \A p \in -1 .. n + 2 : p # i /\ p # j => d[p] = cells[p]
  <2>1. CellsFit(n, Q!Place(items), cells)
    BY <1>2 DEF CellsGood
  <2>2. n \in Nat
    BY <1>2
  <2> QED BY ONLY <2>1, <2>2, <1>4, SwapPlaces
<1> SUFFICES ScanGood(d, ranges, s, lt.steady, less)
  BY <1>1, <1>2, <1>5, InvPrime
<1>7. /\ s.pc = "up" /\ s.i = i + 1 /\ s.j = j /\ s.pivot = P
      /\ s \in [pc : SortPcs, i : Int, j : Int, pivot : Item \cup {Nothing}]
  <2>1. i + 1 \in Int
    BY <1>3
  <2> QED BY <1>1, <1>3, <2>1, ScanMoves
<1> HIDE DEF s, d
<1>8. ScanFits(ranges, s)
  BY <1>2, <1>3, <1>4, <1>7 DEF ScanFits
<1>9. ASSUME lt.steady PROVE ScanTells(d, l, u, s, less)
  <2>1. MayFollow(less, cells[j], P)
    BY <1>9 DEF Q!sort_comp, MayFollow
  <2>2. d[u - 1] = P
    <3>1. u - 1 \in -1 .. n + 2 /\ u - 1 # i /\ u - 1 # j
      <4>1. /\ n \in Int /\ l \in Int /\ u \in Int /\ i \in Int /\ j \in Int
            /\ 1 <= l /\ u <= n /\ u - l >= 3 /\ i <= u - 2 /\ j <= u - 2
        BY <1>2, <1>3, <1>4
      <4> QED BY ONLY <4>1
    <3> QED BY <1>3, <1>6, <1>9, <3>1
  <2>3. ASSUME NEW p \in Int, l <= p /\ p < s.i
        PROVE  MayFollow(less, d[p], P)
    <3>1. p = i \/ (p < i /\ p # i /\ p # j /\ p \in -1 .. n + 2)
      BY <1>2, <1>3, <1>4, <1>7, <2>3
    <3> QED BY <1>3, <1>6, <1>9, <2>1, <2>3, <3>1
  <2>4. ASSUME NEW q \in Int, s.j <= q /\ q <= u
        PROVE  MayFollow(less, P, d[q])
    <3>1. q = j \/ (j < q /\ q # i /\ q # j /\ q \in -1 .. n + 2)
      BY <1>2, <1>3, <1>4, <1>7, <2>4
    <3> QED BY <1>3, <1>6, <1>9, <2>4, <3>1
  <2>5. s.i <= u - 1 /\ s.j >= l
    BY <1>2, <1>3, <1>4, <1>7
  <2> QED BY <1>7, <2>2, <2>3, <2>4, <2>5 DEF ScanTells
<1> QED BY <1>3, <1>7, <1>8, <1>9 DEF ScanGood

LEMMA SplitStep ==
  ASSUME SortInv, UNCHANGED <<items, lt>>, Q!Comparing("down"),
         scan.j < scan.i, Q!Split
  PROVE  /\ SortInv'
         /\ \E a, b : /\ SplitAt(Q!Top.l, Q!Top.u, scan.i, a, b)
                      /\ ranges' = SubSeq(ranges, 1, Len(ranges) - 1)
                                     \o <<a, b>>
<1> DEFINE n == Len(items)
           l == Q!Top.l
           u == Q!Top.u
           i == scan.i
           j == scan.j
           P == scan.pivot
           less == lt.less
           d == Q!Swap(cells, u - 1, i)
           left == [l |-> l, u |-> i - 1]
           right == [l |-> i + 1, u |-> u]
           a == IF i - l < u - i THEN right ELSE left
           b == IF i - l < u - i THEN left ELSE right
<1>1. /\ scan' = Q!At("ends") /\ cells' = d
      /\ ranges' = SubSeq(ranges, 1, Len(ranges) - 1)
                     \o (IF i - l < u - i THEN <<right, left>>
                         ELSE <<left, right>>)
  BY DEF Q!Split, Q!Outer
<1>2. /\ SortTypes /\ RangesGood(n, ranges, lt.steady)
      /\ CellsGood(n, Q!Place(items), cells, ranges, lt.steady, less)
      /\ n \in Nat /\ l \in Int /\ u \in Int /\ 1 <= l /\ u <= n
      /\ ranges # <<>> /\ lt.steady \in BOOLEAN
      /\ lt.steady => Q!IsOrder(less)
      /\ ranges[Len(ranges)] = [l |-> l, u |-> u]
  BY StepFacts
<1>3. /\ i \in Int /\ j \in Int /\ u - l >= 3 /\ i >= l + 1 /\ i <= u + 1
      /\ lt.steady =>
           /\ i <= u - 1 /\ cells[u - 1] = P
           /\ MayFollow(less, P, cells[i])
           /\ \A p \in Int : l <= p /\ p < i => MayFollow(less, cells[p], P)
           /\ \A q \in Int : j < q /\ q <= u => MayFollow(less, P, cells[q])
  BY DownFacts
<1>4. /\ i \in 1 .. n + 1 /\ u - 1 \in 1 .. n + 1 /\ u - 1 \in l .. u
      /\ lt.steady => i \in l .. u
      /\ i \in l + 1 .. u + 1
  <2>1. /\ n \in Nat /\ l \in Int /\ u \in Int /\ 1 <= l /\ u <= n
        /\ i \in Int /\ u - l >= 3 /\ i >= l + 1 /\ i <= u + 1
        /\ lt.steady => i <= u - 1
    BY <1>2, <1>3
  <2> HIDE DEF n, l, u, i
  <2> QED BY ONLY <2>1
<1>5. CellsGood(n, Q!Place(items), d, ranges, lt.steady, less)
  BY <1>2, <1>4, CellsSwap
<1>6. /\ d[u - 1] = cells[i] /\ d[i] = cells[u - 1]
      /\ \A p \in -1 .. n + 2 : p # u - 1 /\ p # i => d[p] = cells[p]
  <2>1. CellsFit(n, Q!Place(items), cells)
    BY <1>2 DEF CellsGood
  <2>2. n \in Nat
    BY <1>2
  <2> QED BY ONLY <2>1, <2>2, <1>4, SwapPlaces
<1>7. /\ SplitAt(l, u, i, a, b)
      /\ ranges' = SubSeq(ranges, 1, Len(ranges) - 1) \o <<a, b>>
  <2>1. CASE i - l < u - i
    BY <1>1, <2>1 DEF SplitAt
  <2>2. CASE ~(i - l < u - i)
    <3>1. i - l >= u - i
      BY <1>2, <1>3, <2>2
    <3> QED BY <1>1, <2>2, <3>1 DEF SplitAt
  <2> QED BY <2>1, <2>2
<1> HIDE DEF d, a, b
<1>8. ASSUME lt.steady
      PROVE  /\ i <= u
             /\ \A p \in l .. i - 1 : MayFollow(less, d[p], d[i])
             /\ \A q \in i + 1 .. u : MayFollow(less, d[i], d[q])
  <2>1. d[i] = P /\ i <= u - 1
    BY <1>3, <1>6, <1>8
  <2>2. ASSUME NEW p \in l .. i - 1 PROVE MayFollow(less, d[p], P)
    <3>1. p # u - 1 /\ p # i /\ p \in -1 .. n + 2 /\ l <= p /\ p < i
      BY <1>2, <1>3, <2>1
    <3> QED BY <1>3, <1>6, <1>8, <3>1
  <2>3. ASSUME NEW q \in i + 1 .. u PROVE MayFollow(less, P, d[q])
    <3>1. q = u - 1 \/ (q # u - 1 /\ q # i /\ q \in -1 .. n + 2)
      BY <1>2, <1>3
    <3>2. j < q /\ q <= u /\ q \in Int
      BY <1>2, <1>3
    <3> QED BY <1>3, <1>6, <1>8, <3>1, <3>2
  <2> QED BY <1>2, <1>3, <2>1, <2>2, <2>3
<1>9. /\ RangesGood(n, ranges', lt.steady)
      /\ CellsGood(n, Q!Place(items), d, ranges', lt.steady, less)
  BY ONLY <1>2, <1>3, <1>4, <1>5, <1>7, <1>8, GoodSplit
<1>10. ScanGood(d, ranges', scan', lt.steady, less)
  BY <1>1, AtEnds
<1>11. cells' = d
  BY <1>1
<1>12. SortInv'
  BY <1>2, <1>9, <1>10, <1>11, InvPrime
<1> QED BY <1>7, <1>12

(* Whatever the order function answers, the invariant holds.               *)
LEMMA SortStep ==
  ASSUME SortInv, Q!SortNext
  PROVE  SortInv'
<1> UNCHANGED <<items, lt>>
  BY DEF Q!SortNext
<1>1. ASSUME NEW yes \in BOOLEAN, Q!Ends(yes) PROVE SortInv'
  BY <1>1, EndsStep
<1>2. ASSUME NEW yes \in BOOLEAN, Q!MiddleFirst(yes) PROVE SortInv'
  BY <1>2, MiddleFirstStep
<1>3. ASSUME NEW yes \in BOOLEAN, Q!MiddleLast(yes) PROVE SortInv'
  BY <1>3, MiddleLastStep
<1>4. ASSUME NEW yes \in BOOLEAN, Q!Up(yes) PROVE SortInv'
  BY <1>4, UpStep
<1>5. ASSUME NEW yes \in BOOLEAN, Q!Down(yes) PROVE SortInv'
  <2>1. Q!Comparing("down")
    BY <1>5 DEF Q!Down
  <2>2. CASE yes
    <3>1. Q!sort_comp(TRUE, scan.pivot, cells[scan.j]) /\ Q!Below(TRUE)
      BY <1>5, <2>2 DEF Q!Down, Q!sort_comp, Q!Below
    <3> QED BY <2>1, <3>1, BelowStep
  <2>3. CASE ~yes /\ scan.j < scan.i
    <3>1. Q!Split
      BY <1>5, <2>3 DEF Q!Down
    <3> QED BY <2>1, <2>3, <3>1, SplitStep
  <2>4. CASE ~yes /\ ~(scan.j < scan.i)
    <3>1. Q!sort_comp(FALSE, scan.pivot, cells[scan.j]) /\ Q!Exchange
      BY <1>5, <2>4 DEF Q!Down, Q!sort_comp
    <3>2. scan.j >= scan.i
      BY <2>1, <2>4, DownFacts
    <3> QED BY <2>1, <3>1, <3>2, ExchangeStep
  <2> QED BY <2>2, <2>3, <2>4
<1>6. CASE Q!Return
  <2>1. /\ ranges # <<>> /\ Q!Top.l >= Q!Top.u /\ Q!Returns /\ cells' = cells
    BY <1>6 DEF Q!Return
  <2>2. /\ SortTypes /\ RangesGood(Len(items), ranges, lt.steady)
        /\ CellsGood(Len(items), Q!Place(items), cells, ranges, lt.steady,
                     lt.less)
    BY DEF SortInv
  <2>3. ASSUME NEW p \in 1 .. Len(items), NEW q \in 1 .. Len(items),
               Q!Top.l <= p /\ p < q /\ q <= Q!Top.u
        PROVE  FALSE
    BY <2>1, <2>2, <2>3, InnermostLemma
  <2> QED BY <2>1, <2>2, <2>3, ReturnStep
<1>7. CASE Q!Raises
  <2>1. /\ scan' = Q!At("raised") /\ ranges' = ranges /\ cells' = cells
    BY <1>7 DEF Q!Raises, Q!Goes
  <2>2. /\ SortTypes /\ RangesGood(Len(items), ranges, lt.steady)
        /\ CellsGood(Len(items), Q!Place(items), cells, ranges, lt.steady,
                     lt.less)
    BY DEF SortInv
  <2> DEFINE s == Q!At("raised")
  <2>3. /\ s.pc = "raised"
        /\ s \in [pc : SortPcs, i : Int, j : Int, pivot : Item \cup {Nothing}]
    BY DEF Q!At, SortPcs
  <2> HIDE DEF s
  <2>4. ScanFits(ranges, s)
    BY <2>3 DEF ScanFits
  <2>5. ScanTells(cells, ranges[Len(ranges)].l, ranges[Len(ranges)].u, s,
                  lt.less)
    BY <2>3 DEF ScanTells
  <2>6. ScanGood(cells, ranges, s, lt.steady, lt.less)
    BY <2>3, <2>4, <2>5 DEF ScanGood
  <2> QED BY <2>1, <2>2, <2>6, InvPrime DEF s
<1> QED BY <1>1, <1>2, <1>3, <1>4, <1>5, <1>6, <1>7 DEF Q!SortNext

LEMMA SortStart == Q!SortInit => SortInv
<1> SUFFICES ASSUME Q!SortInit PROVE SortInv
  OBVIOUS
<1> DEFINE n == Len(items)
           c == Q!Place(items)
<1>1. SortTypes
  BY PartsAssumption DEF Q!SortInit, Q!SortAssumption, SortTypes
<1>2. /\ cells = c /\ ranges = <<[l |-> 1, u |-> n]>> /\ scan = Q!At("ends")
  BY DEF Q!SortInit
<1>3. n \in Nat /\ items \in Seq(Item) /\ DOMAIN items = 1 .. n
      /\ \A p \in 1 .. n : items[p] \in Item
  BY <1>1 DEF SortTypes
<1>4. /\ Len(ranges) = 1 /\ ranges[1] = [l |-> 1, u |-> n]
      /\ ranges \in Seq(Spans)
  <2>1. [l |-> 1, u |-> n] \in Spans
    BY <1>3 DEF Spans
  <2> QED BY <1>2, <2>1
<1> HIDE DEF n
<1>5. RangesFit(n, ranges)
  BY <1>3, <1>4 DEF RangesFit
<1>6. Apart(ranges)
  BY <1>4 DEF Apart
<1>7. /\ c \in [-1 .. n + 2 -> Item \cup {Nothing}]
      /\ \A p \in -1 .. n + 2 :
           c[p] = IF p \in 1 .. n THEN items[p] ELSE Nothing
  BY <1>3 DEF Q!Place, n
<1> HIDE DEF c
<1>8. CellsFit(n, c, c)
  BY <1>3, <1>7 DEF CellsFit
<1>9. Settled(n, c, ranges, lt.less)
  <2>1. \A p, q \in 1 .. n : p < q => Together(ranges, p, q)
    BY <1>3, <1>4 DEF Together
  <2> QED BY <2>1 DEF Settled
<1>10. c[n + 1] = Nothing /\ \A p \in 1 .. n : c[p] \in Item
  BY <1>3, <1>7
<1>11. ScanGood(cells, ranges, scan, lt.steady, lt.less)
  BY <1>2, AtEnds
<1> QED BY <1>1, <1>2, <1>5, <1>6, <1>8, <1>9, <1>10, <1>11
        DEF SortInv, RangesGood, CellsGood, c, n

LEMMA SortGoal == ASSUME SortInv PROVE Q!Rearranged
<1> DEFINE n == Len(items)
<1>1. /\ SortTypes /\ RangesGood(n, ranges, lt.steady)
      /\ CellsGood(n, Q!Place(items), cells, ranges, lt.steady, lt.less)
      /\ ScanGood(cells, ranges, scan, lt.steady, lt.less)
  BY DEF SortInv
<1>2. n \in Nat /\ DOMAIN items = 1 .. n
  BY <1>1 DEF SortTypes
<1>3. /\ \A v \in Item \cup {Nothing} :
           Q!Count(cells, v) = Q!Count(Q!Place(items), v)
      /\ \A p \in DOMAIN cells : p \notin 1 .. n + 1 => cells[p] = Nothing
  BY <1>1 DEF CellsGood, CellsFit
<1>4. \A k \in 1 .. Len(ranges) - 2 : Q!Size(k) > Q!Size(k + 1) + Q!Size(k + 2)
  BY <1>1 DEF RangesGood, RangesFit, Q!Size
<1>5. ASSUME lt.steady
      PROVE  scan.pc # "invalid" /\ cells[n + 1] = Nothing
  BY <1>1, <1>5 DEF ScanGood, CellsGood
<1>6. ASSUME lt.steady, ranges = <<>>, NEW p \in 1 .. n, NEW q \in 1 .. n, p < q
      PROVE  <<cells[q], cells[p]>> \notin lt.less
  <2>1. Settled(n, cells, ranges, lt.less)
    BY <1>1, <1>6 DEF CellsGood
  <2>2. ~Together(ranges, p, q)
    BY <1>6 DEF Together
  <2> QED BY <2>1, <2>2, <1>6 DEF Settled, MayFollow
<1> QED BY <1>2, <1>3, <1>4, <1>5, <1>6 DEF Q!Rearranged

-----------------------------------------------------------------------------
(* With an order, the sort ends.                                           *)

(* A is the set of places in some range.                                   *)
Unsettled(n, rs, A) ==
  /\ IsFiniteSet(A) /\ Cardinality(A) \in Nat
  /\ \A p : p \in A <=> /\ p \in 1 .. n
                        /\ \E k \in 1 .. Len(rs) : rs[k].l <= p /\ p <= rs[k].u

LEMMA UnsortedLemma ==
  ASSUME NEW n \in Nat, NEW rs, RangesFit(n, rs), NEW its, DOMAIN its = 1 .. n,
         NEW A, A = {p \in DOMAIN its : \E k \in DOMAIN rs :
                                         p \in rs[k].l .. rs[k].u}
  PROVE  Unsettled(n, rs, A)
<1>1. /\ DOMAIN rs = 1 .. Len(rs)
      /\ \A k \in 1 .. Len(rs) : rs[k].l \in Int /\ rs[k].u \in Int
  BY RangeTypes
<1>2. \A p : p \in A <=> /\ p \in 1 .. n
                        /\ \E k \in 1 .. Len(rs) :
                             rs[k].l <= p /\ p <= rs[k].u
  BY <1>1
<1>3. IsFiniteSet(1 .. n)
  BY FS_Interval, 1 \in Int, n \in Int
<1>4. A \subseteq 1 .. n
  BY <1>2
<1>5. IsFiniteSet(A)
  BY <1>3, <1>4, FS_Subset
<1>6. Cardinality(A) \in Nat
  BY <1>5, FS_CardinalityType
<1> QED BY <1>2, <1>5, <1>6 DEF Unsettled

LEMMA CallsLemma ==
  ASSUME SortInv, SortInv', items' = items
  PROVE  /\ Len(items) \in Nat
         /\ RangesFit(Len(items), ranges) /\ RangesFit(Len(items), ranges')
         /\ Unsettled(Len(items), ranges, Q!Unsorted)
         /\ Unsettled(Len(items), ranges', Q!Unsorted')
         /\ Q!Calls = 2 * Cardinality(Q!Unsorted) + Len(ranges)
         /\ Q!Calls' = 2 * Cardinality(Q!Unsorted') + Len(ranges')
<1>1. /\ Len(items) \in Nat /\ DOMAIN items = 1 .. Len(items)
      /\ DOMAIN items' = 1 .. Len(items)
      /\ RangesFit(Len(items), ranges)
  BY DEF SortInv, SortTypes, RangesGood
<1>2. RangesFit(Len(items), ranges')
  BY DEF SortInv, RangesGood
<1>3. Unsettled(Len(items), ranges, Q!Unsorted)
  BY <1>1, UnsortedLemma DEF Q!Unsorted
<1>4. Unsettled(Len(items), ranges', Q!Unsorted')
  BY <1>1, <1>2, UnsortedLemma DEF Q!Unsorted
<1>5. \A A : Q!Cardinality(A) = Cardinality(A)
  BY DEF Q!Cardinality, Cardinality
<1> QED BY <1>1, <1>2, <1>3, <1>4, <1>5 DEF Q!Calls

LEMMA StayEnds ==
  ASSUME UNCHANGED <<items, ranges>>
  PROVE  Q!Calls' = Q!Calls /\ Q!Top' = Q!Top
<1>1. Q!Unsorted' = Q!Unsorted
  BY DEF Q!Unsorted
<1> QED BY <1>1 DEF Q!Calls, Q!Top

LEMMA ReturnEnds ==
  ASSUME SortInv, SortInv', ranges # <<>>, items' = items, Q!Returns
  PROVE  Q!Advances
<1>1. ranges' = SubSeq(ranges, 1, Len(ranges) - 1)
  BY DEF Q!Returns, Q!Outer
<1>2. /\ Len(items) \in Nat /\ RangesFit(Len(items), ranges)
      /\ Unsettled(Len(items), ranges, Q!Unsorted)
      /\ Unsettled(Len(items), ranges', Q!Unsorted')
      /\ Q!Calls = 2 * Cardinality(Q!Unsorted) + Len(ranges)
      /\ Q!Calls' = 2 * Cardinality(Q!Unsorted') + Len(ranges')
  BY CallsLemma
<1>3. /\ Len(ranges') = Len(ranges) - 1
      /\ \A k \in 1 .. Len(ranges) - 1 : ranges'[k] = ranges[k]
      /\ Len(ranges) \in Nat /\ Len(ranges) >= 1
  BY <1>1, <1>2, RangesReturn
<1>4. Q!Unsorted' \subseteq Q!Unsorted
  <2> SUFFICES ASSUME NEW p \in Q!Unsorted' PROVE p \in Q!Unsorted
    OBVIOUS
  <2>1. PICK k \in 1 .. Len(ranges') : ranges'[k].l <= p /\ p <= ranges'[k].u
    BY <1>2 DEF Unsettled
  <2>2. k \in 1 .. Len(ranges) /\ ranges'[k] = ranges[k] /\ p \in 1 .. Len(items)
    BY <1>2, <1>3, <2>1 DEF Unsettled
  <2> QED BY <1>2, <2>1, <2>2 DEF Unsettled
<1>5. /\ Cardinality(Q!Unsorted') <= Cardinality(Q!Unsorted)
      /\ Cardinality(Q!Unsorted') \in Nat /\ Cardinality(Q!Unsorted) \in Nat
  BY <1>2, <1>4, FS_Subset DEF Unsettled
<1> QED BY <1>2, <1>3, <1>5 DEF Q!Advances

LEMMA SplitEnds ==
  ASSUME SortInv, SortInv', items' = items, lt.steady, ranges # <<>>,
         Q!Top.u - Q!Top.l >= 3, NEW i \in Int,
         i >= Q!Top.l + 1, i <= Q!Top.u - 1,
         NEW a, NEW b, SplitAt(Q!Top.l, Q!Top.u, i, a, b),
         ranges' = SubSeq(ranges, 1, Len(ranges) - 1) \o <<a, b>>
  PROVE  Q!Advances
<1> DEFINE n == Len(items)
           l == Q!Top.l
           u == Q!Top.u
           m == Len(ranges)
<1>1. /\ n \in Nat /\ RangesFit(n, ranges)
      /\ Unsettled(n, ranges, Q!Unsorted)
      /\ Unsettled(n, ranges', Q!Unsorted')
      /\ Q!Calls = 2 * Cardinality(Q!Unsorted) + Len(ranges)
      /\ Q!Calls' = 2 * Cardinality(Q!Unsorted') + Len(ranges')
  BY CallsLemma
<1>2. /\ l \in Int /\ u \in Int /\ 1 <= l /\ u <= n /\ Q!Top = ranges[m]
      /\ ranges[m] = [l |-> l, u |-> u] /\ Apart(ranges)
      /\ ranges[m].l = l /\ ranges[m].u = u
  <2>1. SortTypes /\ RangesGood(n, ranges, lt.steady)
    BY DEF SortInv
  <2> QED BY <2>1, InnermostLemma DEF RangesGood
<1>3. WasSplit(n, ranges, a, b, ranges')
  <2>1. i <= u + 1 /\ u - l >= 3 /\ i >= l + 1 /\ SplitAt(l, u, i, a, b)
        /\ ranges' = SubSeq(ranges, 1, Len(ranges) - 1) \o <<a, b>>
        /\ ranges # <<>> /\ ranges[Len(ranges)] = [l |-> l, u |-> u]
    BY <1>2
  <2> QED BY ONLY <1>1, <1>2, <2>1, i \in Int, RangesSplit
<1>4. /\ Len(ranges') = m + 1 /\ m \in Nat /\ m >= 1
      /\ ranges'[m] = a /\ ranges'[m + 1] = b
      /\ \A k \in 1 .. m - 1 : ranges'[k] = ranges[k]
  BY <1>3 DEF WasSplit
<1> HIDE DEF m, n, l, u
<1>5. /\ l <= i /\ i <= u /\ i \in 1 .. n /\ m \in 1 .. m
  <2>1. n \in Int /\ l \in Int /\ u \in Int /\ 1 <= l /\ u <= n
        /\ i >= l + 1 /\ i <= u - 1
    BY <1>1, <1>2 DEF l, u, n
  <2> QED BY ONLY <1>4, <2>1, i \in Int
<1>6. i \in Q!Unsorted
  BY <1>1, <1>2, <1>5 DEF Unsettled, m
<1>7. \A p \in Int : \A e \in {a, b} : e.l <= p /\ p <= e.u =>
        l <= p /\ p <= u /\ p # i
  <2> SUFFICES ASSUME NEW p \in Int, NEW e \in {a, b}, e.l <= p, p <= e.u
               PROVE  l <= p /\ p <= u /\ p # i
    OBVIOUS
  <2>1. \/ e.l = l /\ e.u = i - 1
        \/ e.l = i + 1 /\ e.u = u
    BY DEF SplitAt, l, u
  <2> QED BY <1>2, <1>5, <2>1
<1>8. Q!Unsorted' \subseteq Q!Unsorted \ {i}
  <2> SUFFICES ASSUME NEW p \in Q!Unsorted'
               PROVE  p \in Q!Unsorted /\ p # i
    OBVIOUS
  <2>0. Unsettled(n, ranges', Q!Unsorted')
    BY <1>1 DEF n
  <2>1. /\ p \in 1 .. n /\ p \in Int
        /\ \E k \in 1 .. Len(ranges') : ranges'[k].l <= p /\ p <= ranges'[k].u
    BY ONLY <2>0, p \in Q!Unsorted' DEF Unsettled
  <2>2. PICK k \in 1 .. m + 1 : ranges'[k].l <= p /\ p <= ranges'[k].u
    BY <1>4, <2>1
  <2>3. CASE k < m
    <3>1. /\ k \in 1 .. m - 1 /\ k \in 1 .. m /\ k # m
          /\ ranges[k].l <= p /\ p <= ranges[k].u
      BY <1>4, <2>2, <2>3
    <3>2. p # i
      BY <1>2, <1>5, <3>1, <2>1 DEF Apart, m
    <3> QED BY <1>1, <2>1, <3>1, <3>2 DEF Unsettled, m, n
  <2>4. CASE k >= m
    <3>1. ranges'[k] \in {a, b}
      BY <1>4, <2>2, <2>4
    <3>2. l <= p /\ p <= u /\ p # i
      BY <1>7, <2>1, <2>2, <3>1
    <3> QED BY <1>1, <1>2, <1>5, <2>1, <3>2 DEF Unsettled, m, n
  <2> QED BY <2>3, <2>4, <1>4
<1>9. /\ Cardinality(Q!Unsorted') <= Cardinality(Q!Unsorted) - 1
      /\ Cardinality(Q!Unsorted') \in Nat /\ Cardinality(Q!Unsorted) \in Nat
  <2>1. /\ IsFiniteSet(Q!Unsorted) /\ Cardinality(Q!Unsorted) \in Nat
        /\ Cardinality(Q!Unsorted') \in Nat
    BY <1>1 DEF Unsettled
  <2>2. /\ IsFiniteSet(Q!Unsorted \ {i})
        /\ Cardinality(Q!Unsorted \ {i}) = Cardinality(Q!Unsorted) - 1
    BY <1>6, <2>1, FS_RemoveElement
  <2>3. Cardinality(Q!Unsorted') <= Cardinality(Q!Unsorted \ {i})
    BY <1>8, <2>2, FS_Subset
  <2> QED BY <2>1, <2>2, <2>3
<1> QED BY <1>1, <1>4, <1>9 DEF Q!Advances, m

(* The ranges stay, and less of the innermost is left.                     *)
LEMMA AheadEnds ==
  ASSUME UNCHANGED <<items, ranges>>, ranges # <<>>,
         Q!Ahead \in Int, Q!Ahead' \in Int, 0 <= Q!Ahead', Q!Ahead' < Q!Ahead
  PROVE  Q!Advances
<1>1. Q!Calls' = Q!Calls
  BY StayEnds
<1>2. Q!Ahead' \in 0 .. Q!Ahead - 1
  <2> DEFINE x1 == Q!Ahead
             x2 == Q!Ahead'
  <2>1. x1 \in Int /\ x2 \in Int /\ 0 <= x2 /\ x2 < x1
    OBVIOUS
  <2> HIDE DEF x1, x2
  <2>2. x2 \in 0 .. x1 - 1
    BY <2>1
  <2> QED BY <2>2 DEF x1, x2
<1> QED BY <1>1, <1>2 DEF Q!Advances

LEMMA ThreeSortedEnds ==
  ASSUME SortInv, SortInv', UNCHANGED <<items, lt>>, ranges # <<>>,
         Q!Top.u - Q!Top.l >= 2, NEW c, Q!ThreeSorted(c),
         Q!Ahead \in Int, Q!Ahead >= 2 * (Q!Top.u - Q!Top.l) - 1
  PROVE  Q!Advances
<1> DEFINE l == Q!Top.l
           u == Q!Top.u
<1>1. l \in Int /\ u \in Int
  BY InnermostLemma DEF SortInv
<1>2. CASE u - l = 2
  <2>1. Q!Returns
    BY <1>2 DEF Q!ThreeSorted
  <2> QED BY <2>1, ReturnEnds
<1>3. CASE u - l # 2
  <2>1. /\ ranges' = ranges
        /\ scan' = [pc |-> "up", i |-> l + 1, j |-> u - 1, pivot |-> c[Q!Middle]]
    BY <1>3 DEF Q!ThreeSorted
  <2>2. scan'.pc = "up" /\ scan'.i = l + 1 /\ scan'.j = u - 1
    BY <2>1
  <2>3. Q!Top' = Q!Top
    BY <2>1 DEF Q!Top
  <2>4. Q!Ahead' = (u - (l + 1)) + ((u - 1) - l)
    BY <2>2, <2>3 DEF Q!Ahead
  <2> HIDE DEF l, u
  <2>5. Q!Ahead' \in Int /\ 0 <= Q!Ahead' /\ Q!Ahead' < Q!Ahead
    <3> DEFINE x1 == Q!Ahead
               x2 == Q!Ahead'
    <3>1. /\ x1 \in Int /\ x1 >= 2 * (u - l) - 1 /\ u - l >= 2
          /\ x2 = (u - (l + 1)) + ((u - 1) - l)
      BY <2>4 DEF l, u
    <3> HIDE DEF x1, x2
    <3>2. x2 \in Int /\ 0 <= x2 /\ x2 < x1
      BY <1>1, <3>1
    <3> QED BY <3>2 DEF x1, x2
  <2> QED BY <2>1, <2>5, AheadEnds
<1> QED BY <1>2, <1>3

(* With an order, a step that raises no error leaves less to do.           *)
LEMMA SortEndsLemma ==
  ASSUME SortInv, SortInv', Q!SortNext, lt.steady, scan'.pc # "raised"
  PROVE  Q!Advances
<1> DEFINE l == Q!Top.l
           u == Q!Top.u
           i == scan.i
           j == scan.j
<1> UNCHANGED <<items, lt>>
  BY DEF Q!SortNext
<1>1. ASSUME NEW yes \in BOOLEAN, Q!Ends(yes) PROVE Q!Advances
  <2>1. Q!Comparing("ends")
    BY <1>1 DEF Q!Ends
  <2>2. /\ ranges # <<>> /\ scan.pc = "ends" /\ l \in Int /\ u \in Int /\ l < u
    BY <2>1, StepFacts
  <2>3. CASE u - l = 1
    <3>1. Q!Returns
      BY <1>1, <2>3 DEF Q!Ends
    <3> QED BY <2>2, <3>1, ReturnEnds
  <2>4. CASE u - l # 1
    <3>1. ranges' = ranges /\ scan' = Q!At("middle")
      BY <1>1, <2>4 DEF Q!Ends, Q!Goes
    <3>2. scan'.pc = "middle" /\ Q!Top' = Q!Top
      BY <3>1 DEF Q!At, Q!Top
    <3>3. Q!Ahead = 2 * (u - l) + 1 /\ Q!Ahead' = 2 * (u - l)
      BY <2>2, <3>2 DEF Q!Ahead
    <3> HIDE DEF l, u
    <3>4. /\ Q!Ahead \in Int /\ Q!Ahead' \in Int
          /\ 0 <= Q!Ahead' /\ Q!Ahead' < Q!Ahead
      BY <2>2, <3>3
    <3> QED BY <2>2, <3>1, <3>4, AheadEnds
  <2> QED BY <2>3, <2>4
<1>2. ASSUME NEW yes \in BOOLEAN, Q!MiddleFirst(yes) PROVE Q!Advances
  <2>1. Q!Comparing("middle")
    BY <1>2 DEF Q!MiddleFirst
  <2>2. /\ ranges # <<>> /\ scan.pc = "middle" /\ l \in Int /\ u \in Int
        /\ ScanFits(ranges, scan) /\ ranges[Len(ranges)] = [l |-> l, u |-> u]
    BY <2>1, StepFacts
  <2>3. u - l >= 2
    BY <2>2 DEF ScanFits
  <2>4. Q!Ahead = 2 * (u - l)
    BY <2>2 DEF Q!Ahead
  <2>5. CASE yes
    <3>1. Q!ThreeSorted(Q!Swap(cells, Q!Middle, Q!Top.l))
      BY <1>2, <2>5 DEF Q!MiddleFirst
    <3>2. Q!Ahead \in Int /\ Q!Ahead >= 2 * (u - l) - 1
      <4> HIDE DEF l, u
      <4> QED BY <2>2, <2>4
    <3> QED BY <2>2, <2>3, <3>1, <3>2, ThreeSortedEnds
  <2>6. CASE ~yes
    <3>1. ranges' = ranges /\ scan' = Q!At("last")
      BY <1>2, <2>6 DEF Q!MiddleFirst, Q!Goes
    <3>2. scan'.pc = "last" /\ Q!Top' = Q!Top
      BY <3>1 DEF Q!At, Q!Top
    <3>3. Q!Ahead' = 2 * (u - l) - 1
      BY <3>2 DEF Q!Ahead
    <3> HIDE DEF l, u
    <3>4. /\ Q!Ahead \in Int /\ Q!Ahead' \in Int
          /\ 0 <= Q!Ahead' /\ Q!Ahead' < Q!Ahead
      BY <2>2, <2>3, <2>4, <3>3
    <3> QED BY <2>2, <3>1, <3>4, AheadEnds
  <2> QED BY <2>5, <2>6
<1>3. ASSUME NEW yes \in BOOLEAN, Q!MiddleLast(yes) PROVE Q!Advances
  <2>1. Q!Comparing("last")
    BY <1>3 DEF Q!MiddleLast
  <2>2. /\ ranges # <<>> /\ scan.pc = "last" /\ l \in Int /\ u \in Int
        /\ ScanFits(ranges, scan) /\ ranges[Len(ranges)] = [l |-> l, u |-> u]
    BY <2>1, StepFacts
  <2>3. u - l >= 2
    BY <2>2 DEF ScanFits
  <2>4. Q!Ahead = 2 * (u - l) - 1
    BY <2>2 DEF Q!Ahead
  <2>5. Q!ThreeSorted(IF yes THEN Q!Swap(cells, Q!Middle, Q!Top.u) ELSE cells)
    BY <1>3 DEF Q!MiddleLast
  <2>6. Q!Ahead \in Int /\ Q!Ahead >= 2 * (u - l) - 1
    <3> HIDE DEF l, u
    <3> QED BY <2>2, <2>4
  <2> QED BY <2>2, <2>3, <2>5, <2>6, ThreeSortedEnds
<1>4. ASSUME NEW yes \in BOOLEAN, Q!Up(yes) PROVE Q!Advances
  <2>1. Q!Comparing("up") /\ ranges' = ranges
    BY <1>4 DEF Q!Up
  <2>2. /\ ranges # <<>> /\ scan.pc = "up" /\ l \in Int /\ u \in Int
        /\ ScanFits(ranges, scan) /\ ranges[Len(ranges)] = [l |-> l, u |-> u]
        /\ ScanTells(cells, l, u, scan, lt.less)
    BY <2>1, StepFacts
  <2>3. /\ i \in Int /\ j \in Int /\ i <= u - 1 /\ j >= l + 1
        /\ scan \in [pc : SortPcs, i : Int, j : Int,
                     pivot : Item \cup {Nothing}]
    BY <2>2 DEF ScanFits, ScanTells
  <2>4. /\ scan' # Q!At("invalid") /\ Q!Top' = Q!Top
    <3>1. scan'.pc # "invalid"
      BY DEF SortInv, ScanGood
    <3> QED BY <3>1, <2>1 DEF Q!At, Q!Top
  <2>5. \/ scan' = [scan EXCEPT !.pc = "down", !.j = j - 1]
        \/ scan' = [scan EXCEPT !.i = i + 1]
    BY <1>4, <2>4 DEF Q!Up
  <2>6. \/ scan'.pc = "down" /\ scan'.i = i /\ scan'.j = j - 1
        \/ scan'.pc = "up" /\ scan'.i = i + 1 /\ scan'.j = j
    BY <2>2, <2>3, <2>5
  <2>7. Q!Ahead = (u - i) + (j - l)
    BY <2>2 DEF Q!Ahead
  <2>8. Q!Ahead' = (u - scan'.i) + (scan'.j - l)
    BY <2>4, <2>6 DEF Q!Ahead
  <2>9. Q!Ahead' = (u - i) + (j - 1 - l) \/ Q!Ahead' = (u - (i + 1)) + (j - l)
    BY <2>6, <2>8
  <2> HIDE DEF l, u, i, j
  <2>10. /\ Q!Ahead \in Int /\ Q!Ahead' \in Int
         /\ 0 <= Q!Ahead' /\ Q!Ahead' < Q!Ahead
    BY ONLY <2>2, <2>3, <2>7, <2>9
  <2> QED BY <2>1, <2>2, <2>10, AheadEnds
<1>5. ASSUME NEW yes \in BOOLEAN, Q!Down(yes) PROVE Q!Advances
  <2>1. Q!Comparing("down")
    BY <1>5 DEF Q!Down
  <2>2. /\ ranges # <<>> /\ scan.pc = "down" /\ l \in Int /\ u \in Int
    BY <2>1, StepFacts
  <2>3. /\ i \in Int /\ j \in Int /\ i <= u - 1 /\ i >= l + 1 /\ j >= l
        /\ u - l >= 3
        /\ scan \in [pc : SortPcs, i : Int, j : Int,
                     pivot : Item \cup {Nothing}]
    BY <2>1, DownFacts
  <2>4. CASE ~yes /\ j < i
    <3>1. Q!Split
      BY <1>5, <2>4 DEF Q!Down
    <3>2. PICK a, b : /\ SplitAt(l, u, i, a, b)
                      /\ ranges' = SubSeq(ranges, 1, Len(ranges) - 1)
                                     \o <<a, b>>
      BY <2>1, <2>4, <3>1, SplitStep
    <3> QED BY <2>2, <2>3, <3>2, SplitEnds
  <2>5. CASE yes \/ ~(j < i)
    <3>1. /\ ranges' = ranges
          /\ \/ scan' = Q!At("invalid")
             \/ scan' = [scan EXCEPT !.j = j - 1]
             \/ /\ scan' = [scan EXCEPT !.pc = "up", !.i = i + 1]
                /\ ~(j < i)
      BY <1>5, <2>5 DEF Q!Down, Q!Below, Q!Exchange
    <3>2. /\ scan' # Q!At("invalid") /\ Q!Top' = Q!Top
      <4>1. scan'.pc # "invalid"
        BY DEF SortInv, ScanGood
      <4> QED BY <4>1, <3>1 DEF Q!At, Q!Top
    <3>3. \/ scan'.pc = "down" /\ scan'.i = i /\ scan'.j = j - 1
          \/ scan'.pc = "up" /\ scan'.i = i + 1 /\ scan'.j = j /\ ~(j < i)
      BY <2>2, <2>3, <3>1, <3>2
    <3>4. Q!Ahead = (u - i) + (j - l)
      BY <2>2 DEF Q!Ahead
    <3>5. Q!Ahead' = (u - scan'.i) + (scan'.j - l)
      BY <3>2, <3>3 DEF Q!Ahead
    <3>6. \/ Q!Ahead' = (u - i) + (j - 1 - l)
          \/ Q!Ahead' = (u - (i + 1)) + (j - l)
      BY <3>3, <3>5
    <3> HIDE DEF l, u, i, j
    <3>7. /\ Q!Ahead \in Int /\ Q!Ahead' \in Int
          /\ 0 <= Q!Ahead' /\ Q!Ahead' < Q!Ahead
      BY ONLY <2>2, <2>3, <3>4, <3>6
    <3> QED BY <2>2, <3>1, <3>7, AheadEnds
  <2> QED BY <2>4, <2>5
<1>6. ASSUME Q!Return PROVE Q!Advances
  BY <1>6, ReturnEnds DEF Q!Return
<1>7. ~Q!Raises
  BY DEF Q!Raises, Q!Goes, Q!At
<1> QED BY <1>1, <1>2, <1>3, <1>4, <1>5, <1>6, <1>7 DEF Q!SortNext

(* table.sort() (ltablib.c): it rearranges whatever it is given, whatever  *)
(* the order function answers; with an order it ends, and sorts.           *)
THEOREM SortRearrangesAlways == PartsSpec => SortRearranges
<1> DEFINE Inv == part = "sort" => SortInv
<1>1. PartsInit => Inv
  BY SortStart DEF PartsInit
<1>2. Inv /\ [PartsNext]_parts => Inv'
  <2> SUFFICES ASSUME Inv, [PartsNext]_parts, part' = "sort" PROVE SortInv'
    OBVIOUS
  <2>1. CASE PartsNext
    <3>1. part = "sort" /\ Q!SortNext
      BY <2>1 DEF PartsNext, Only
    <3> QED BY <3>1, SortStep
  <2>2. CASE UNCHANGED parts
    <3>1. SortInv /\ UNCHANGED <<items, lt, cells, ranges, scan>>
      BY <2>2 DEF parts, sorting
    <3>2. Q!Place(items)' = Q!Place(items)
      BY <3>1 DEF Q!Place
    <3> QED BY <3>1, <3>2 DEF SortInv, SortTypes
  <2> QED BY <2>1, <2>2
<1>3. Inv => (part = "sort" => Q!Rearranged)
  BY SortGoal
<1>4. Inv /\ Inv' /\ [PartsNext]_parts
        => [part = "sort" => Q!SortEnds]_parts
  <2> SUFFICES ASSUME Inv, Inv', PartsNext, part = "sort", lt.steady,
                      scan'.pc # "raised"
               PROVE  Q!Advances
    BY DEF Q!SortEnds
  <2>1. Q!SortNext /\ part' = "sort"
    BY DEF PartsNext, Only
  <2> QED BY <2>1, SortEndsLemma
<1> QED BY <1>1, <1>2, <1>3, <1>4, PTL DEF PartsSpec, SortRearranges
=============================================================================
