------------------------------ MODULE MCTimeline ------------------------------
(* Small instances of Timeline. *)
EXTENDS Timeline, TLC

Symmetry == Permutations(Users) \cup Permutations(Handlers)
===============================================================================
