------------------------------- MODULE MCHook --------------------------------
(* Model-checking instance of Hook: of each function a call in whole ms and*)
(* one that the code cuts short, to 0 ms (less than 1 ms, or an unsigned   *)
(* that wraps) or to a deadline in the past (an int that wraps).           *)
EXTENDS Hook

WholeAndShortCalls ==
  {[name |-> "sleep",     s |-> 1, u |-> 0], [name |-> "sleep",     s |-> 4, u |-> 0],
   [name |-> "usleep",    s |-> 0, u |-> 2], [name |-> "usleep",    s |-> 0, u |-> 1],
   [name |-> "nanosleep", s |-> 1, u |-> 0], [name |-> "nanosleep", s |-> 2, u |-> 0]}
=============================================================================
