--------------------------- MODULE OneInterpreter ---------------------------
(***************************************************************************)
(* What an object of class LuaAlchemy promises about interpreters: there   *)
(* is at most one, none is used again once it is closed, and they are made *)
(* one after the other.                                                    *)
(***************************************************************************)
EXTENDS Naturals

VARIABLES
  current,    \* the interpreter there is; 0 for none
  count       \* how many were ever made

Init == current = 1 /\ count = 1

Make     == current = 0 /\ current' = count + 1 /\ count' = count + 1
MakeFail == current = 0 /\ count' = count + 1 /\ UNCHANGED current
Close    == current # 0 /\ current' = 0 /\ UNCHANGED count

Next == Make \/ MakeFail \/ Close

Spec == Init /\ [][Next]_<<current, count>>
=============================================================================
