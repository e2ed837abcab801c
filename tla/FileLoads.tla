----------------------------- MODULE FileLoads -----------------------------
(***************************************************************************)
(* How a script gets a file: loadfile() and dofile() over a file system    *)
(* with a prefix (lua/dofile.lua), and as3.filegetcontents(), which waits  *)
(* for a URLLoader while Flash goes on (as3/filegetcontents.lua).          *)
(*                                                                         *)
(* One loader, one flag and one error serve every call.  flyield() lets    *)
(* Flash run for a while: events arrive, other code of the same lua_State  *)
(* calls filegetcontents() too, and then the wait is over, whether the     *)
(* load is or not.                                                         *)
(***************************************************************************)
EXTENDS Naturals, FiniteSets

CONSTANTS
  MaxLoads,   \* bound: calls of filegetcontents() that start a load
  Builtin,    \* the names of the files built into the program
  Broken      \* those of them that do not compile

FileAssumption == MaxLoads \in Nat /\ Broken \subseteq Builtin

NoLoad == 0
Loads  == 1..MaxLoads

VARIABLES
  loads,      \* how many loads have been started
  load_done,  \* nothing waits
  load_err,   \* the load whose error is remembered, NoLoad for none
  data,       \* the load whose bytes the loader holds, NoLoad for none
  coming,     \* the loads whose COMPLETE or error event is still to come
  waiting,    \* the loads suspended calls wait for
  overlap,    \* a call began while another was suspended
  early,      \* loads whose call went on before their event came
  raised,     \* an error left init() after it had cleared load_done
  reply       \* what the last call answered

files == <<loads, load_done, load_err, data, coming, waiting, overlap, early,
           raised, reply>>

Silent == [to |-> NoLoad, is |-> "none", of |-> NoLoad]

FilesInit ==
  /\ loads = 0 /\ load_done = TRUE /\ load_err = NoLoad /\ data = NoLoad
  /\ coming = {} /\ waiting = {} /\ overlap = FALSE /\ early = {}
  /\ raised = FALSE /\ reply = Silent

(* init(): a second call is refused while load_done is not set, but the    *)
(* event of a load sets it before the call that waits goes on.             *)
(* loader.load() gives up the load in progress, whose event may be on its  *)
(* way already.                                                            *)
Begin ==
  /\ load_done /\ loads < MaxLoads
  /\ loads' = loads + 1
  /\ load_done' = FALSE /\ load_err' = NoLoad
  /\ \/ /\ coming' = coming \cup {loads'} /\ waiting' = waiting \cup {loads'}
        /\ data' = NoLoad /\ reply' = Silent /\ UNCHANGED raised
     \/ /\ raised' = TRUE                  \* as3.new2() or load() raises
        /\ reply' = [to |-> loads', is |-> "raised", of |-> NoLoad]
        /\ UNCHANGED <<coming, waiting, data>>
  /\ overlap' = (overlap \/ waiting # {})
  /\ UNCHANGED early

Refuse ==
  /\ ~load_done
  /\ reply' = [to |-> NoLoad, is |-> "refused", of |-> NoLoad]
  /\ UNCHANGED <<loads, load_done, load_err, data, coming, waiting, overlap,
                 early, raised>>

(* The listeners of the loader, whichever load the event is about.         *)
Complete(n) ==
  /\ n \in coming /\ coming' = coming \ {n}
  /\ load_done' = TRUE /\ load_err' = NoLoad /\ data' = n
  /\ reply' = Silent
  /\ UNCHANGED <<loads, waiting, overlap, early, raised>>

Fail(n) ==
  /\ n \in coming /\ coming' = coming \ {n}
  /\ load_done' = TRUE /\ load_err' = n
  /\ reply' = Silent
  /\ UNCHANGED <<loads, data, waiting, overlap, early, raised>>

(* wait() after flyield() has come back: load_done is set at any rate.     *)
(* Mutant: the wait is given up, but load_done is left to the event. *)
WaitEndsAlone == UNCHANGED load_done
WaitEnds == load_done' = TRUE

(* wait() and cleanup(): the bytes, or the error.                          *)
GoOn(n) ==
  /\ n \in waiting /\ waiting' = waiting \ {n}
  /\ early' = IF n \in coming THEN early \cup {n} ELSE early
  /\ reply' = IF load_err = NoLoad
              THEN [to |-> n, is |-> "data", of |-> data]
              ELSE [to |-> n, is |-> "error", of |-> load_err]
  /\ WaitEnds /\ load_err' = NoLoad
  /\ UNCHANGED <<loads, data, coming, overlap, raised>>

----------------------------------------------------------------------------
(* loadfile(), with as3.filegetcontents() disabled as it is.               *)

Prefixes == {"builtin", "other", "none"}
Compiled(f) == f \in Builtin \ Broken

FallsBack(orig) == orig = "none"
loadfile(root, orig, f) ==
  LET prefix == IF orig = "none" THEN root ELSE orig
  IN  IF prefix = "builtin"
      THEN IF Compiled(f) THEN "chunk" ELSE "error"
      ELSE IF ~FallsBack(orig) THEN "error"
      ELSE IF Compiled(f) THEN "chunk" ELSE "two errors"

(* A file is found where its own prefix says; without one, under the root  *)
(* and then among the files built in.                                      *)
Places(root, orig) ==
  IF orig # "none" THEN <<orig>>
  ELSE IF root = "builtin" THEN <<root>> ELSE <<root, "builtin">>

FilesNext == \/ Begin \/ Refuse
             \/ \E n \in Loads : Complete(n) \/ Fail(n) \/ GoOn(n)

FilesSpec == FilesInit /\ [][FilesNext]_files

----------------------------------------------------------------------------
(* Properties.                                                             *)

(* A call of filegetcontents() answers for its own load as long as no call *)
(* went on before its event came (the event then comes to a later call)    *)
(* and none began between the event of another and its end.  A call is     *)
(* refused only while one waits, or for ever once init() raised.  A file   *)
(* that loads is a built in one, found where its name says, and a failure  *)
(* in two places says so.                                                  *)
LoadsAnswer ==
  /\ reply.is \in {"data", "error"} /\ early = {} /\ ~overlap =>
       reply.of = reply.to
  /\ reply.is = "refused" => waiting # {} \/ raised
  /\ ~load_done => raised \/ waiting \cap coming # {}
  /\ \A root \in Prefixes \ {"none"}, orig \in Prefixes,
        f \in Builtin \cup {"absent"} :
       LET places == Places(root, orig)
           found  == Compiled(f) /\ \E i \in DOMAIN places :
                                      places[i] = "builtin"
       IN  loadfile(root, orig, f) =
             IF found THEN "chunk"
             ELSE IF Cardinality(DOMAIN places) = 2 THEN "two errors"
             ELSE "error"
=============================================================================
