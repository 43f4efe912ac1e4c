----------------------------- MODULE SchedulerInv ----------------------------
(***************************************************************************)
(* The inductive invariant behind the safety properties of Scheduler, as a *)
(* conjunction of named parts.                                             *)
(***************************************************************************)
EXTENDS Scheduler

HasTask == {"lock", "body", "unlock", "dec"}
HoldsFiber == {"body", "unlock"}
InIdle == {"idle", "sleep", "idled"}
BeforeStop == {"init", "start", "semwait", "main"}
AfterRun == {"swap", "join", "stopped", "destroyed"}

(* Which steps each thread can be at, and what the caller's step says      *)
(* about start() and stop(): the workers created so far, the workers still *)
(* to be joined, the scheduler fiber.                                      *)
ControlOK ==
  /\ pc[Caller] \in CallerPC \cup (IF UseCaller THEN RunPC ELSE {})
  /\ \A w \in Workers : pc[w] \in RunPC \cup {"off", "boot", "exit"}
  /\ m_stopping <=> pc[Caller] \notin BeforeStop
  /\ pc[Caller] \in BeforeStop => schedulerFiber = "READY"
  /\ pc[Caller] \in BeforeStop \cup RunPC \cup {"swap"} => thrs = {}
  /\ pc[Caller] \in RunPC \cup {"main", "swap"} => m_threads = Workers
  /\ pc[Caller] = "join" => \A w \in Workers : w \in thrs \/ pc[w] = "exit"
  /\ pc[Caller] \in {"stopped", "destroyed"} =>
       \A w \in Workers : pc[w] = "exit"

(* run()'s local task is set exactly between taking a task and resetting   *)
(* it, and the thread then counts as active.                               *)
TaskOK == \A t \in Threads : task[t] # NULL <=> pc[t] \in HasTask

(* A fiber's mutex is held by the thread that runs it or has just come     *)
(* back from it; a scheduled job has a fiber or is a callback handed over. *)
FiberOK ==
  /\ \A t \in Threads : pc[t] \in HoldsFiber => fiberMutex[task[t].job] = t
  /\ \A j \in Jobs : fiberMutex[j] # NULL =>
       pc[fiberMutex[j]] \in HoldsFiber /\ task[fiberMutex[j]].job = j
  /\ \A j \in Jobs : m_state[j] = "RUNNING" <=>
       fiberMutex[j] # NULL /\ pc[fiberMutex[j]] = "body"
  /\ \A i \in 1..Len(m_tasks) : m_state[m_tasks[i].job] # "NONE"
  /\ \A t \in Threads : pc[t] \in HasTask => m_state[task[t].job] # "NONE"

(* Each call of scheduleLock is at one place: in the list, in the hands of *)
(* one thread, or served.                                                  *)
ListedOnce ==
  \A i \in 1..Len(m_tasks) :
    /\ m_tasks[i].no \in (1..posts) \ served
    /\ \A k \in 1..Len(m_tasks) : m_tasks[i].no = m_tasks[k].no => i = k
HeldOnce ==
  \A t \in Threads : task[t] # NULL =>
    /\ task[t].no \in (1..posts) \ served
    /\ \A i \in 1..Len(m_tasks) : m_tasks[i].no # task[t].no
    /\ \A u \in Threads : task[u] # NULL /\ task[u].no = task[t].no => u = t
NoneLost ==
  \A n \in (1..posts) \ served :
    \/ \E i \in 1..Len(m_tasks) : m_tasks[i].no = n
    \/ \E t \in Threads : task[t] # NULL /\ task[t].no = n
NumbersOK == served \subseteq 1..posts /\ ListedOnce /\ HeldOnce /\ NoneLost

(* Once one idle fiber has seen stopping() it is true for good, and a      *)
(* thread that has left run() has seen it.                                 *)
DrainOK ==
  /\ \A t \in Pool : idleState[t] = "TERM" => Stopping
  /\ \A t \in Pool : Gone(t) => idleState[t] = "TERM"

(* The inductive invariant; see SchedulerProofs.                           *)
IInv ==
  TypeOK /\ ControlOK /\ TaskOK /\ FiberOK /\ NumbersOK /\ CountersExact
         /\ DrainOK
=============================================================================
