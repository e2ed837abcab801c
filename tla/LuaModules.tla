----------------------------- MODULE LuaModules -----------------------------
(***************************************************************************)
(* require() and module() (loadlib.c): modules that require one another    *)
(* while they are being loaded, and the table of what is loaded, in which  *)
(* a sentinel stands for a module whose chunk has not come to its end.     *)
(*                                                                         *)
(* A program requires modules; a loader and the chunk of a module may      *)
(* require others, and the same one, raise an error, which a pcall()       *)
(* around any require() may catch, and the chunk may call module() and     *)
(* return a value.  What the loaders find is free.                         *)
(***************************************************************************)
EXTENDS Naturals, Sequences, FiniteSets, SequencesExt, FiniteSetsExt

CONSTANTS
  Module,     \* names of modules
  Loaders,    \* how many package.loaders there are
  MaxRuns,    \* bound: chunks of one module
  MaxNested   \* bound: calls of require() that wait

ModulesAssumption == {Loaders, MaxRuns, MaxNested} \subseteq Nat

VARIABLES
  loaded,     \* package.loaded
  chunks,     \* the require()s whose loader or chunk runs, outermost first
  runs,       \* how many chunks of each module began
  ended,      \* the modules of which a chunk came to its end
  touched,    \* those whose place in package.loaded the program assigned
  required    \* what the last require() answered

modules == <<loaded, chunks, runs, ended, touched, required>>

LuaNil   == "nil"
False    == "false"
True     == "true"
Sentinel == "sentinel"
ModuleTable == "table"  \* made by module()
Value    == "value"        \* returned by a chunk
Slot     == {LuaNil, False, True, Sentinel, ModuleTable, Value}

(* A require() of a module, `of`, waits for the loader of that number, or  *)
(* for the chunk if it is 0; runs[of] was `begun` when it looked into      *)
(* package.loaded.                                                         *)
Top     == Last(chunks)
Runs(n) == {i \in DOMAIN chunks : chunks[i].of = n /\ chunks[i].loader = 0}

Silent == [of |-> {}, is |-> "nothing"]
Say(n, w) == required' = [of |-> {n}, is |-> w]

ModulesInit ==
  /\ loaded = [n \in Module |-> LuaNil]
  /\ chunks = <<>> /\ runs = [n \in Module |-> 0]
  /\ ended = {} /\ touched = {} /\ required = Silent

(* An error goes to a pcall() around one of the require()s that wait, or   *)
(* to the program.                                                         *)
Unwind(from) == \E k \in 0 .. Len(from) : chunks' = SubSeq(from, 1, k)

Raise(from, n) == Unwind(from) /\ Say(n, "error")

(* Mutant: only the sentinel counts as a module that was loaded.           *)
FoundSentinel(n) == loaded[n] = Sentinel
Found(n) == loaded[n] \notin {LuaNil, False}

(* The beginning of ll_require(): what is there is answered at once,       *)
(* unless it is the sentinel; else the first loader is called.             *)
Require(n) ==
  /\ \/ /\ Found(n) /\ loaded[n] = Sentinel /\ Raise(chunks, n)
     \/ /\ Found(n) /\ loaded[n] # Sentinel
        /\ Say(n, loaded[n]) /\ UNCHANGED chunks
     \/ /\ ~Found(n) /\ Len(chunks) < MaxNested
        /\ chunks' = Append(chunks,
                            [of |-> n, loader |-> 1, begun |-> runs[n]])
        /\ required' = Silent
  /\ UNCHANGED <<loaded, runs, ended, touched>>

(* The loop over package.loaders: the next one after a message or nothing. *)
Searching == chunks # <<>> /\ Top.loader > 0
LoaderDeclines ==
  /\ Searching /\ Top.loader <= Loaders
  /\ chunks' = [chunks EXCEPT ![Len(chunks)].loader = @ + 1]
  /\ required' = Silent /\ UNCHANGED <<loaded, runs, ended, touched>>

(* A loader raises, or there is none left ("module not found").            *)
LoaderRaises ==
  /\ Searching /\ Raise(Front(chunks), Top.of)
  /\ UNCHANGED <<loaded, runs, ended, touched>>

(* A loader gives a function, and ll_require() runs it: what it read in    *)
(* package.loaded is not read again.                                       *)
Mark(n) == loaded' = [loaded EXCEPT ![n] = Sentinel]
LoaderFinds ==
  /\ Searching /\ Top.loader <= Loaders /\ runs[Top.of] < MaxRuns
  /\ Mark(Top.of)
  /\ runs' = [runs EXCEPT ![Top.of] = @ + 1]
  /\ chunks' = [chunks EXCEPT ![Len(chunks)].loader = 0]
  /\ required' = Silent /\ UNCHANGED <<ended, touched>>

(* ll_module(), by the chunk that runs and for its own name: the table it  *)
(* finds in package.loaded, or one under the global of that name, which    *)
(* may be no table ("name conflict").                                      *)
Running == chunks # <<>> /\ Top.loader = 0
CallsModule(conflict) ==
  /\ Running
  /\ LET n == Top.of
     IN  IF loaded[n] # ModuleTable /\ conflict
         THEN Raise(chunks, n) /\ UNCHANGED loaded
         ELSE /\ loaded' = [loaded EXCEPT ![n] = ModuleTable]
              /\ required' = Silent /\ UNCHANGED chunks
  /\ UNCHANGED <<runs, ended, touched>>

(* The end of ll_require(): what the chunk returned, else what it left in  *)
(* package.loaded, else true.                                              *)
Result(n, v) ==
  CASE v # LuaNil -> v
    [] v = LuaNil /\ loaded[n] = Sentinel -> True
    [] OTHER -> loaded[n]
ChunkReturns(v) ==
  /\ Running
  /\ LET n == Top.of
     IN  /\ loaded' = [loaded EXCEPT ![n] = Result(n, v)]
         /\ Say(n, Result(n, v)) /\ ended' = ended \cup {n}
  /\ chunks' = Front(chunks) /\ UNCHANGED <<runs, touched>>

ChunkRaises ==
  /\ Running /\ Raise(Front(chunks), Top.of)
  /\ UNCHANGED <<loaded, runs, ended, touched>>

(* package.loaded[n] = v                                                   *)
Assigns(n, v) ==
  /\ loaded' = [loaded EXCEPT ![n] = v] /\ touched' = touched \cup {n}
  /\ required' = Silent /\ UNCHANGED <<chunks, runs, ended>>

ModulesNext ==
  \/ \E n \in Module : Require(n)
  \/ LoaderDeclines \/ LoaderRaises \/ LoaderFinds
  \/ \E c \in BOOLEAN : CallsModule(c)
  \/ \E v \in {LuaNil, False, Value} : ChunkReturns(v)
  \/ ChunkRaises
  \/ \E n \in Module, v \in {LuaNil, Value} : Assigns(n, v)

ModulesSpec == ModulesInit /\ [][ModulesNext]_modules

----------------------------------------------------------------------------
(* Properties.                                                             *)

(* What is in package.loaded, what runs and what require() answered, of a  *)
(* module whose place no program assigned.  One chunk of a module runs at  *)
(* a time, modules that require each other in a ring included: the ring is *)
(* reported.  Whoever requires a module whose chunk runs or failed gets an *)
(* error, or the table module() made, which may be half filled; otherwise  *)
(* what the chunk that ended left there.                                   *)
Loading ==
  \A n \in Module \ touched :
    /\ Cardinality(Runs(n)) <= 1
    /\ Runs(n) # {} => loaded[n] \in {Sentinel, ModuleTable}
    /\ loaded[n] \in {True, Value, False} => n \in ended
    /\ required.of = {n} /\ required.is \notin {"error", ModuleTable} =>
         required.is = loaded[n] /\ n \in ended /\ Runs(n) = {}

(* A chunk begins only if its module is not loaded: there is nothing, or   *)
(* the false that the last chunk returned.  The one exception is a module  *)
(* whose own loader requires it: the search then began before the chunk    *)
(* that the inner require() ran.  And what require() once answered, it     *)
(* answers until a chunk begins.                                           *)
RunsOnce ==
  \A n \in Module \ touched' :
    /\ runs[n]' > runs[n] =>
         loaded[n] \in {LuaNil, False} \/ Top.begun < runs[n]
    /\ loaded[n] \in {True, Value} /\ loaded[n]' # loaded[n] =>
         runs[n]' > runs[n]
=============================================================================
