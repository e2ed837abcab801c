--------------------------- MODULE StrictGlobals ---------------------------
(***************************************************************************)
(* strict.lua: a metatable of _G that refuses globals nobody declared.     *)
(* Lua calls __index and __newindex only for a name that is nil in _G, so  *)
(* what the guard sees depends on what the table holds at that moment.     *)
(***************************************************************************)
EXTENDS Naturals, FiniteSets

CONSTANTS
  Name,     \* names of globals
  Before    \* those that are set when strict.lua is loaded

StrictAssumption == Before \subseteq Name

VARIABLES
  present,    \* the names that are not nil in _G
  declared,   \* the table the present declare() and is_declared() use
  known,      \* the table the metatable of _G uses
  shared,     \* they are one table
  strict,     \* _G has the metatable
  said,       \* the last operation: "ok", "nil" or "error", on which name
  excused     \* the names there since the guard came, or since rawset()

globals == <<present, declared, known, shared, strict, said, excused>>

StrictInit ==
  /\ present = Before /\ excused = Before
  /\ declared = {} /\ known = {} /\ shared = TRUE /\ strict = TRUE
  /\ said = [what |-> "ok", of |-> {}]

Say(w, S) == said' = [what |-> w, of |-> S]

declare(S) ==
  /\ declared' = declared \cup S
  /\ known' = IF shared THEN known \cup S ELSE known
  /\ Say("ok", S) /\ UNCHANGED <<present, shared, strict, excused>>

Guarded(n) == n \notin present /\ strict /\ n \notin known

Access(n) ==
  /\ Say(CASE Guarded(n)   -> "error"
           [] n \in present -> "ok"
           [] OTHER         -> "nil", {n})
  /\ UNCHANGED <<present, declared, known, shared, strict, excused>>

Set(n, toNil) ==
  /\ Say("ok", {n})
  /\ present' = IF toNil THEN present \ {n} ELSE present \cup {n}
  /\ excused' = IF toNil THEN excused \ {n} ELSE excused

(* Mutant: __newindex sets what it is asked to set. *)
WriteUnguarded(n, toNil) ==
  Set(n, toNil) /\ UNCHANGED <<declared, known, shared, strict>>
Write(n, toNil) ==
  /\ IF Guarded(n) THEN Say("error", {n}) /\ UNCHANGED <<present, excused>>
                   ELSE Set(n, toNil)
  /\ UNCHANGED <<declared, known, shared, strict>>

RawSet(n) ==
  /\ present' = present \cup {n} /\ excused' = excused \cup {n}
  /\ Say("ok", {n}) /\ UNCHANGED <<declared, known, shared, strict>>

(* uninstall_strict_mode_(): the metatable goes, with the table it used,   *)
(* and the functions have a new one.                                       *)
Uninstall ==
  /\ strict' = FALSE /\ shared' = FALSE /\ declared' = {} /\ known' = {}
  /\ Say("ok", {}) /\ UNCHANGED <<present, excused>>

(* Loading the file makes a new table and new functions that use it before *)
(* it looks for a metatable: "_G already got meatatable" leaves a guard    *)
(* that uses the old table.                                                *)
LoadRefused ==
  /\ strict /\ Say("error", {})
  /\ shared' = FALSE /\ UNCHANGED <<known, strict, excused>>
LoadInstalls ==
  /\ ~strict /\ Say("ok", {})
  /\ shared' = TRUE /\ known' = {} /\ strict' = TRUE /\ excused' = present
Load ==
  /\ declared' = {} /\ UNCHANGED present
  /\ LoadRefused \/ LoadInstalls

StrictNext ==
  \/ \E S \in SUBSET Name : declare(S)
  \/ \E n \in Name : Access(n) \/ RawSet(n) \/ \E b \in BOOLEAN : Write(n, b)
  \/ Uninstall \/ Load

StrictSpec == StrictInit /\ [][StrictNext]_globals

(* No global comes to exist unnoticed, and none that went comes back so:   *)
(* while the guard is on, whatever is there has been since it was          *)
(* installed, was set by rawset(), or is known to the guard.  And no name  *)
(* is refused that is_declared() calls declared, until a load of the file  *)
(* is refused: from then on declare() tells the guard nothing.             *)
Noticed ==
  strict => /\ present \subseteq known \cup excused
            /\ said.what = "error" /\ shared => said.of \cap declared = {}
=============================================================================
