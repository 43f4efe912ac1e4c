------------------------------- MODULE MCTimer -------------------------------
(* Model-checking instances of Timer.                                      *)
EXTENDS Timer, TLC

ThreadSymmetry == Permutations(Users) \cup Permutations(Waiters)
=============================================================================
