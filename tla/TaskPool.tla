------------------------------ MODULE TaskPool -------------------------------
(***************************************************************************)
(* What the scheduler promises its client, without threads, fibers or      *)
(* locks: each submitted task is executed exactly once, tasks that run may *)
(* submit more even while the pool shuts down, one that has not begun may  *)
(* be withdrawn, a recurring one is submitted again each time its turn     *)
(* comes, and the pool closes only when nothing is left.                   *)
(***************************************************************************)
EXTENDS Naturals, FiniteSets

CONSTANT MaxPosts   \* bound: tasks submitted in one behaviour

VARIABLES
  submitted,   \* number of tasks submitted so far; they are 1..submitted
  pending,     \* submitted, not begun
  recurring,   \* those of them that are submitted again
  running,     \* begun, not ended
  done,        \* ended
  accepting,   \* the client has not asked the pool to stop
  closed       \* the pool has stopped

vars == <<submitted, pending, recurring, running, done, accepting, closed>>

Init ==
  /\ submitted = 0
  /\ pending = {} /\ recurring = {} /\ running = {} /\ done = {}
  /\ accepting = TRUE
  /\ closed = FALSE

(* By the client while the pool accepts, by a running task at any time.    *)
Submit ==
  /\ accepting \/ running # {}
  /\ submitted < MaxPosts
  /\ submitted' = submitted + 1
  /\ pending' = pending \cup {submitted + 1}
  /\ recurring' \in {recurring, recurring \cup {submitted + 1}}
  /\ UNCHANGED <<running, done, accepting, closed>>

Begin(n) ==
  /\ n \in pending \ recurring
  /\ pending' = pending \ {n}
  /\ running' = running \cup {n}
  /\ UNCHANGED <<submitted, recurring, done, accepting, closed>>

End(n) ==
  /\ n \in running
  /\ running' = running \ {n}
  /\ done' = done \cup {n}
  /\ UNCHANGED <<submitted, pending, recurring, accepting, closed>>

(* The turn of the recurring tasks R has come: they are submitted again,   *)
(* as k new ones.  Fewer than R come back if a timer's next deadline is    *)
(* taken by another that is pending.                                       *)
Renew(R, k) ==
  LET again == (submitted + 1)..(submitted + k) IN
  /\ R # {} /\ R \subseteq recurring
  /\ k <= Cardinality(R) /\ submitted + k <= MaxPosts
  /\ k = 0 => pending # R
  /\ submitted' = submitted + k
  /\ pending' = pending \cup again
  /\ recurring' = (recurring \ R) \cup again
  /\ UNCHANGED <<running, done, accepting, closed>>

(* The client gives up a task that has not begun (a timer or an event), or *)
(* moves a timer to a deadline that another one has, which loses it.       *)
Withdraw(n) ==
  /\ n \in pending
  /\ pending' = pending \ {n}
  /\ recurring' = recurring \ {n}
  /\ done' = done \cup {n}
  /\ UNCHANGED <<submitted, running, accepting, closed>>

Shut ==
  /\ accepting
  /\ accepting' = FALSE
  /\ UNCHANGED <<submitted, pending, recurring, running, done, closed>>

Close ==
  /\ ~accepting /\ ~closed
  /\ pending = {} /\ running = {} /\ done = 1..submitted
  /\ closed' = TRUE
  /\ UNCHANGED <<submitted, pending, recurring, running, done, accepting>>

Next ==
  \/ Submit \/ Shut \/ Close
  \/ \E n \in 1..MaxPosts : Begin(n) \/ End(n) \/ Withdraw(n)
  \/ \E R \in SUBSET recurring, k \in 0..MaxPosts : Renew(R, k)

Spec == Init /\ [][Next]_vars
=============================================================================
