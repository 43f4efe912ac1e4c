------------------------------ MODULE MCIOEvents -----------------------------
(* Model-checking instances of IOEvents.                                   *)
EXTENDS IOEvents, TLC

(* Both events on descriptor 0, as test_iomanager.cc registers them.       *)
BothEvents == {0} \X Event

(* One event on each descriptor.                                           *)
OneEventEach == {<<0, READ>>, <<1, WRITE>>}

ThreadSymmetry == Permutations(Clients) \cup Permutations(Pollers)
=============================================================================
