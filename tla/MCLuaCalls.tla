----------------------------- MODULE MCLuaCalls -----------------------------
(* Model values and symmetry for the runs of LuaCalls.                     *)
EXTENDS LuaCalls, TLC

Threads == Permutations(Async)
=============================================================================
