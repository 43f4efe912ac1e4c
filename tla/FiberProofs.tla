----------------------------- MODULE FiberProofs -----------------------------
(***************************************************************************)
(* The safety properties of Fiber, proved for every set of workers and     *)
(* fibers, when reset() waits for the last switch (EarlyReset = FALSE).    *)
(***************************************************************************)
EXTENDS Fiber, TLAPS

(* Everything about a thread that is not on its own stack or run()'s: it   *)
(* executes its task, and holds that fiber's mutex.                        *)
LEMMA StackFacts ==
  ASSUME IInv, NEW t \in Threads
  PROVE  \/ stack[t] = task[t] /\ stack[t] \in Tasks /\ m_mutex[stack[t]] = t
         \/ stack[t] \in {t, Runner(t)} /\ stack[t] \notin Tasks
<1> USE FiberAssumption
<1>1. ThreadOK(t) /\ t \notin Tasks /\ Runner(t) \notin Tasks
  BY DEF IInv, Threads, Runner
<1>2. CASE NotStarted(t) \/ OnRun(t)
  BY <1>1, <1>2 DEF NotStarted, OnRun, At
<1>3. CASE Entering(t) \/ Inside(t)
  BY <1>1, <1>3 DEF Entering, Inside, At, Holds
<1>4. ASSUME NEW at \in {"body", "end"}, Leaving(t, at)
      PROVE  stack[t] = task[t] /\ stack[t] \in Tasks /\ m_mutex[stack[t]] = t
  BY <1>4 DEF Leaving, At, Holds
<1>5. CASE t = Caller /\ CallerOutside
  BY <1>1, <1>5 DEF CallerOutside, OnMain, StopEnters, StopLeaves, At, Runner
<1>6. QED
  BY <1>1, <1>2, <1>3, <1>4, <1>5 DEF ThreadOK, InTurn

(* No stack is executed by two threads.                                    *)
LEMMA StacksDistinct ==
  ASSUME IInv, NEW t \in Threads, NEW u \in Threads, stack[t] = stack[u]
  PROVE  t = u
<1> USE FiberAssumption
<1>1. CASE stack[t] \in Tasks
  BY <1>1, StackFacts
<1>2. CASE stack[t] \notin Tasks
  <2>1. stack[t] \in {t, Runner(t)} /\ stack[u] \in {u, Runner(u)}
    BY <1>2, StackFacts
  <2>2. QED
    BY <2>1 DEF Runner, Threads
<1>3. QED
  BY <1>1, <1>2

(* A pending switch saves the stack it is made from and goes to a fiber    *)
(* that can run and that no thread executes.                               *)
LEMMA SwapFacts ==
  ASSUME IInv, NEW t \in Threads, swap[t] # NULL
  PROVE  /\ swap[t] \in Swap /\ swap[t].save = stack[t]
         /\ swap[t].at = "end" => m_state[stack[t]] = "TERM"
         /\ m_state[swap[t].load] \in {"READY", "RUNNING"}
         /\ \A u \in Threads : stack[u] # swap[t].load
<1> USE FiberAssumption
<1> DEFINE Goal == /\ swap[t].save = stack[t]
                   /\ swap[t].at = "end" => m_state[stack[t]] = "TERM"
                   /\ m_state[swap[t].load] \in {"READY", "RUNNING"}
                   /\ \A u \in Threads : stack[u] # swap[t].load
<1>0. /\ TypeOK /\ ThreadOK(t) /\ swap[t] \in Swap
      /\ t \notin Tasks /\ Runner(t) \notin Tasks
  BY DEF IInv, TypeOK, Threads, Runner
<1>1. \A u \in Threads : stack[u] = Runner(t) => u = t
  BY <1>0, StackFacts DEF Runner, Threads
<1>2. CASE Entering(t)
  <2>1. /\ swap[t].save = stack[t] /\ swap[t].at = "body" /\ swap[t].load = task[t]
        /\ m_state[task[t]] = "RUNNING" /\ m_mutex[task[t]] = t /\ task[t] \in Tasks
        /\ stack[t] = Runner(t)
    BY <1>2 DEF Entering, At, Holds
  <2>2. \A u \in Threads : stack[u] # task[t]
    BY <1>0, <2>1, StackFacts
  <2>3. QED
    BY <1>0, <2>1, <2>2
<1>3. ASSUME NEW at \in {"body", "end"}, Leaving(t, at), m_state[Runner(t)] = "RUNNING"
      PROVE  Goal
  <2>1. /\ swap[t].save = stack[t] /\ swap[t].at = at /\ swap[t].load = Runner(t)
        /\ m_state[task[t]] = IF at = "end" THEN "TERM" ELSE "READY"
        /\ task[t] \in Tasks /\ stack[t] = task[t]
    BY <1>3 DEF Leaving, At, Holds
  <2>2. \A u \in Threads : stack[u] # Runner(t)
    BY <1>0, <1>1, <2>1
  <2>3. QED
    BY <1>3, <2>1, <2>2
<1>4. CASE t = Caller /\ CallerOutside /\ m_state[t] = "RUNNING"
  <2>1. \A u \in Threads : stack[u] \in {Caller, Scheduling} => u = Caller
    BY <1>0, StackFacts DEF Runner, Threads
  <2>2. CASE StopEnters
    BY <1>0, <1>4, <2>1, <2>2 DEF StopEnters, At, Threads
  <2>3. CASE StopLeaves
    BY <1>0, <1>4, <2>1, <2>3 DEF StopLeaves, At, Threads
  <2>4. QED
    BY <1>4, <2>2, <2>3 DEF CallerOutside, OnMain, At
<1>5. CASE NotStarted(t) \/ OnRun(t) \/ Inside(t)
  BY <1>5 DEF NotStarted, OnRun, Inside, At
<1>6. \/ Entering(t) \/ NotStarted(t) \/ OnRun(t) \/ Inside(t)
      \/ t = Caller /\ CallerOutside /\ m_state[t] = "RUNNING"
      \/ m_state[Runner(t)] = "RUNNING" /\ \E at \in {"body", "end"} : Leaving(t, at)
  BY <1>0 DEF ThreadOK, InTurn, Runner
<1>7. QED
  BY <1>0, <1>2, <1>3, <1>4, <1>5, <1>6

(* ... so it finds a suspension point of that fiber.                       *)
LEMMA LoadValid ==
  ASSUME IInv, NEW t \in Threads, swap[t] # NULL
  PROVE  /\ swap[t].load \in Fibers
         /\ Valid(m_ctx[swap[t].load]) /\ m_ctx[swap[t].load].stack = swap[t].load
<1>1. swap[t].load \in Fibers
  BY SwapFacts DEF Swap
<1>2. QED
  BY <1>1, SwapFacts DEF IInv, CtxOK, Valid

-----------------------------------------------------------------------------
(* What a thread has to find unchanged for its own part of the invariant   *)
(* to go on holding.                                                       *)
Undisturbed(u) ==
  /\ t_fiber'[u] = t_fiber[u] /\ t_thread_fiber'[u] = t_thread_fiber[u]
  /\ t_scheduler_fiber'[u] = t_scheduler_fiber[u]
  /\ stack'[u] = stack[u] /\ swap'[u] = swap[u] /\ task'[u] = task[u]
  /\ m_state[u] = "RUNNING" => m_state'[u] = "RUNNING"
  /\ u = Caller => m_state'[Scheduling] = m_state[Scheduling]
  /\ \A f \in Tasks :
       m_mutex[f] = u /\ task[u] = f /\ (stack[u] = f \/ m_state[f] = "RUNNING") =>
         m_mutex'[f] = u /\ m_state'[f] = m_state[f]

(* A thread that is not disturbed.                                         *)
LEMMA ThreadFrame ==
  ASSUME NEW u \in Threads, ThreadOK(u), Undisturbed(u)
  PROVE  ThreadOK(u)'
<1> USE DEF Undisturbed
<1>0. /\ Holds(u, "RUNNING") => Holds(u, "RUNNING")'
      /\ \A st : stack[u] = task[u] /\ Holds(u, st) => Holds(u, st)'
  BY DEF Holds
<1>1. NotStarted(u) => NotStarted(u)'
  BY DEF NotStarted, At
<1>2. OnRun(u) => OnRun(u)'
  BY DEF OnRun, At
<1>3. (Entering(u) => Entering(u)') /\ (Inside(u) => Inside(u)')
  BY <1>0 DEF Entering, Inside, At
<1>4. \A at : Leaving(u, at) => Leaving(u, at)'
  BY <1>0 DEF Leaving, At
<1>5. u = Caller /\ CallerOutside => CallerOutside'
  BY DEF CallerOutside, OnMain, StopEnters, StopLeaves, At
<1>6. InTurn(u) => InTurn(u)'
  BY <1>2, <1>3, <1>4 DEF InTurn
<1>7. QED
  BY <1>1, <1>5, <1>6 DEF ThreadOK

(* The parts of the invariant that a step on one thread keeps when it      *)
(* leaves the others undisturbed.                                          *)
LEMMA OthersOK ==
  ASSUME IInv, NEW t \in Threads, ThreadOK(t)',
         \A u \in Threads \ {t} : Undisturbed(u)
  PROVE  \A u \in Threads : ThreadOK(u)'
BY ThreadFrame DEF IInv

-----------------------------------------------------------------------------
(* Each step keeps the invariant.  Construction first.                     *)
LEMMA NewStep ==
  ASSUME IInv, NEW f \in Tasks, New(f)
  PROVE  IInv'
<1> USE FiberAssumption DEF pointers
<1>0. TypeOK /\ MutexOK /\ CtxOK /\ TasksOK /\ ~aborted
      /\ f \in Fibers /\ f \notin Threads /\ f # Scheduling
  BY DEF IInv, Fibers
<1>1. /\ m_state[f] = "NONE" /\ m_state' = [m_state EXCEPT ![f] = "READY"]
      /\ m_ctx' = [m_ctx EXCEPT ![f] = [stack |-> f, at |-> "entry"]]
      /\ UNCHANGED <<t_fiber, t_thread_fiber, t_scheduler_fiber, m_mutex, stack,
                     swap, m_tasks, task, aborted>>
  BY DEF New, Entry
<1>2. TypeOK'
  <2>1. [stack |-> f, at |-> "entry"] \in Context
    BY <1>0 DEF Context
  <2>2. m_ctx' \in [Fibers -> Context \cup {NULL}]
    BY <1>0, <1>1, <2>1 DEF TypeOK
  <2>3. m_state' \in [Fibers -> {"NONE", "READY", "RUNNING", "TERM"}]
    BY <1>0, <1>1 DEF TypeOK
  <2>4. QED
    BY <1>0, <1>1, <2>2, <2>3 DEF TypeOK
<1>3. \A g \in Fibers : m_state'[g] = IF g = f THEN "READY" ELSE m_state[g]
  BY <1>0, <1>1 DEF TypeOK
<1>4. \A u \in Threads : task[u] # f
  BY <1>0, <1>1 DEF TasksOK, TypeOK
<1>5. \A u \in Threads : Undisturbed(u)
  BY <1>0, <1>1, <1>3, <1>4 DEF Undisturbed, Fibers
<1>6. \A u \in Threads : ThreadOK(u)'
  BY <1>5, ThreadFrame DEF IInv
<1>7. MutexOK'
  BY <1>0, <1>1, <1>3 DEF MutexOK, Fibers
<1>8. \A g \in Fibers : m_ctx'[g] = IF g = f THEN [stack |-> f, at |-> "entry"]
                                   ELSE m_ctx[g]
  BY <1>0, <1>1 DEF TypeOK
<1>9. f # NULL /\ [stack |-> f, at |-> "entry"] # NULL
  BY <1>0 DEF Context
<1>10. CtxOK'
  BY <1>0, <1>1, <1>3, <1>8, <1>9 DEF CtxOK, Valid
<1>11. TasksOK'
  <2>1. \A i \in 1..Len(m_tasks) : m_tasks[i] \in Fibers
    BY <1>0 DEF TypeOK, Fibers
  <2>2. \A u \in Threads : task[u] # NULL => task[u] \in Fibers
    BY <1>0 DEF TypeOK, Fibers
  <2>3. QED
    BY <1>0, <1>1, <1>3, <2>1, <2>2 DEF TasksOK
<1>12. QED
  BY <1>0, <1>1, <1>2, <1>6, <1>7, <1>10, <1>11 DEF IInv

(* A thread without a fiber is on its own stack and has no task.           *)
LEMMA NotStartedFacts ==
  ASSUME IInv, NEW t \in Threads, t_fiber[t] = NULL
  PROVE  NotStarted(t)
<1> USE FiberAssumption
<1>0. ThreadOK(t) /\ Runner(t) # NULL /\ NULL \notin Tasks /\ Caller # NULL /\ Scheduling # NULL
  BY DEF IInv, Runner, Fibers, Threads
<1>1. ~OnRun(t) /\ ~Entering(t) /\ ~Inside(t) /\ \A at : ~Leaving(t, at)
  BY <1>0 DEF OnRun, Entering, Inside, Leaving, At, Holds
<1>2. ~(t = Caller /\ CallerOutside)
  BY <1>0 DEF CallerOutside, OnMain, StopEnters, StopLeaves, At
<1>3. QED
  BY <1>0, <1>1, <1>2 DEF ThreadOK, InTurn

(* The main fiber of a worker.                                             *)
LEMMA WorkerStartStep ==
  ASSUME IInv, NEW w \in Workers, WorkerStart(w)
  PROVE  IInv'
<1> USE FiberAssumption
<1>0. /\ TypeOK /\ MutexOK /\ CtxOK /\ TasksOK /\ ~aborted
      /\ w \in Threads /\ w \in Fibers /\ w # Caller /\ w # Scheduling /\ w \notin Tasks
  BY DEF IInv, Fibers, Threads
<1>1. /\ t_fiber[w] = NULL /\ t_fiber' = [t_fiber EXCEPT ![w] = w]
      /\ t_thread_fiber' = [t_thread_fiber EXCEPT ![w] = w]
      /\ t_scheduler_fiber' = [t_scheduler_fiber EXCEPT ![w] = w]
      /\ m_state' = [m_state EXCEPT ![w] = "RUNNING"]
      /\ UNCHANGED <<m_ctx, m_mutex, stack, swap, m_tasks, task, aborted>>
  BY DEF WorkerStart, MakeMain
<1>2. NotStarted(w)
  BY <1>0, <1>1, NotStartedFacts
<1>3. TypeOK'
  <2>1. /\ t_fiber' \in [Threads -> Fibers \cup {NULL}]
        /\ t_thread_fiber' \in [Threads -> Threads \cup {NULL}]
        /\ t_scheduler_fiber' \in [Threads -> Threads \cup {Scheduling, NULL}]
        /\ m_state' \in [Fibers -> {"NONE", "READY", "RUNNING", "TERM"}]
    BY <1>0, <1>1 DEF TypeOK
  <2>2. QED
    BY <1>0, <1>1, <2>1 DEF TypeOK
<1>4. \A g \in Fibers : m_state'[g] = IF g = w THEN "RUNNING" ELSE m_state[g]
  BY <1>0, <1>1 DEF TypeOK
<1>5. \A u \in Threads \ {w} : Undisturbed(u)
  BY <1>0, <1>1, <1>4 DEF Undisturbed, Fibers, TypeOK
<1>6. ThreadOK(w)'
  <2>1. /\ t_fiber'[w] = w /\ t_thread_fiber'[w] = w /\ t_scheduler_fiber'[w] = w
        /\ stack'[w] = w /\ swap'[w] = NULL /\ Runner(w) = w /\ m_state'[w] = "RUNNING"
    BY <1>0, <1>1, <1>2, <1>4 DEF TypeOK, NotStarted, At, Runner
  <2>2. OnRun(w)'
    BY <2>1 DEF OnRun, At
  <2>3. QED
    BY <1>0, <2>1, <2>2 DEF ThreadOK, InTurn
<1>7. \A u \in Threads : ThreadOK(u)'
  BY <1>0, <1>5, <1>6, OthersOK
<1>8. MutexOK'
  <2>1. \A f \in Tasks : m_state'[f] = m_state[f] /\ f # NULL
    BY <1>0, <1>4 DEF Fibers
  <2>2. \A f \in Tasks : m_mutex[f] # NULL => m_mutex[f] \in Threads
    BY <1>0 DEF TypeOK, Fibers
  <2>3. \A u \in Threads : u # w => t_fiber'[u] = t_fiber[u]
    BY <1>0, <1>1 DEF TypeOK
  <2>4. QED
    BY <1>0, <1>1, <2>1, <2>2, <2>3 DEF MutexOK
<1>9. CtxOK'
  <2>1. stack[w] = w
    BY <1>2 DEF NotStarted, At
  <2>2. QED
    BY <1>0, <1>1, <1>4, <2>1 DEF CtxOK
<1>10. TasksOK'
  <2>1. \A f \in Tasks : m_state'[f] = m_state[f]
    BY <1>0, <1>4 DEF Fibers
  <2>2. \A i \in 1..Len(m_tasks) : m_tasks[i] \in Tasks
    BY <1>0 DEF TypeOK
  <2>3. \A u \in Threads : task[u] # NULL => task[u] \in Tasks
    BY <1>0 DEF TypeOK
  <2>4. QED
    BY <1>0, <1>1, <2>1, <2>2, <2>3 DEF TasksOK
<1>11. QED
  BY <1>0, <1>1, <1>3, <1>7, <1>8, <1>9, <1>10 DEF IInv

(* The main fiber of the caller, and m_schedulerFiber.                     *)
LEMMA ConstructStep ==
  ASSUME IInv, Construct
  PROVE  IInv'
<1> USE FiberAssumption
<1>0. /\ TypeOK /\ MutexOK /\ CtxOK /\ TasksOK /\ ~aborted
      /\ Caller \in Threads /\ Caller \in Fibers /\ Caller \notin Tasks
      /\ Scheduling \in Fibers /\ Scheduling \notin Tasks /\ Scheduling \notin Threads
  BY DEF IInv, Fibers, Threads
<1>1. /\ t_fiber[Caller] = NULL /\ t_fiber' = [t_fiber EXCEPT ![Caller] = Caller]
      /\ t_thread_fiber' = [t_thread_fiber EXCEPT ![Caller] = Caller]
      /\ t_scheduler_fiber' = [t_scheduler_fiber EXCEPT ![Caller] = Scheduling]
      /\ m_state' = [m_state EXCEPT ![Caller] = "RUNNING", ![Scheduling] = "READY"]
      /\ m_ctx' = [m_ctx EXCEPT ![Scheduling] = [stack |-> Scheduling, at |-> "entry"]]
      /\ UNCHANGED <<m_mutex, stack, swap, m_tasks, task, aborted>>
  BY DEF Construct, MakeMain, Entry
<1>2. NotStarted(Caller)
  BY <1>0, <1>1, NotStartedFacts
<1>3. TypeOK'
  <2>1. /\ t_fiber' \in [Threads -> Fibers \cup {NULL}]
        /\ t_thread_fiber' \in [Threads -> Threads \cup {NULL}]
        /\ t_scheduler_fiber' \in [Threads -> Threads \cup {Scheduling, NULL}]
        /\ m_state' \in [Fibers -> {"NONE", "READY", "RUNNING", "TERM"}]
    BY <1>0, <1>1 DEF TypeOK
  <2>2. [stack |-> Scheduling, at |-> "entry"] \in Context
    BY <1>0 DEF Context
  <2>3. m_ctx' \in [Fibers -> Context \cup {NULL}]
    BY <1>0, <1>1, <2>2 DEF TypeOK
  <2>4. QED
    BY <1>0, <1>1, <2>1, <2>3 DEF TypeOK
<1>4. \A g \in Fibers : m_state'[g] = IF g = Scheduling THEN "READY"
                                     ELSE IF g = Caller THEN "RUNNING" ELSE m_state[g]
  BY <1>0, <1>1 DEF TypeOK
<1>5. \A u \in Threads \ {Caller} : Undisturbed(u)
  BY <1>0, <1>1, <1>4 DEF Undisturbed, Fibers, TypeOK
<1>6. ThreadOK(Caller)'
  <2>1. /\ t_fiber'[Caller] = Caller /\ t_thread_fiber'[Caller] = Caller
        /\ t_scheduler_fiber'[Caller] = Scheduling
        /\ stack'[Caller] = Caller /\ swap'[Caller] = NULL /\ task'[Caller] = NULL
        /\ Runner(Caller) = Scheduling /\ m_state'[Caller] = "RUNNING"
        /\ m_state'[Scheduling] = "READY"
    BY <1>0, <1>1, <1>2, <1>4 DEF TypeOK, NotStarted, At, Runner
  <2>2. CallerOutside'
    BY <2>1 DEF CallerOutside, OnMain, At
  <2>3. QED
    BY <1>0, <2>1, <2>2 DEF ThreadOK
<1>7. \A u \in Threads : ThreadOK(u)'
  BY <1>0, <1>5, <1>6, OthersOK
<1>8. \A f \in Tasks : m_state'[f] = m_state[f] /\ f # NULL
  BY <1>0, <1>4 DEF Fibers
<1>9. MutexOK'
  <2>1. \A f \in Tasks : m_mutex[f] # NULL => m_mutex[f] \in Threads
    BY <1>0 DEF TypeOK, Fibers
  <2>2. \A u \in Threads : u # Caller => t_fiber'[u] = t_fiber[u]
    BY <1>0, <1>1 DEF TypeOK
  <2>3. QED
    BY <1>0, <1>1, <1>8, <2>1, <2>2 DEF MutexOK
<1>10. CtxOK'
  <2>1. stack[Caller] = Caller
    BY <1>2 DEF NotStarted, At
  <2>2. \A g \in Fibers : m_ctx'[g] = IF g = Scheduling
                                     THEN [stack |-> Scheduling, at |-> "entry"]
                                     ELSE m_ctx[g]
    BY <1>0, <1>1 DEF TypeOK
  <2>3. [stack |-> Scheduling, at |-> "entry"] # NULL
    BY <1>0 DEF Context
  <2>4. ASSUME NEW f \in Fibers, f # Scheduling
        PROVE  /\ m_ctx'[f] # NULL => m_ctx'[f].stack = f
               /\ m_state'[f] \in {"READY", "RUNNING"} /\ (\A t \in Threads : stack[t] # f)
                    => Valid(m_ctx'[f])
    BY <1>0, <1>4, <2>1, <2>2, <2>4 DEF CtxOK
  <2>5. m_ctx'[Scheduling].stack = Scheduling /\ Valid(m_ctx'[Scheduling])
    BY <1>0, <2>2, <2>3 DEF Valid
  <2>6. QED
    BY <1>1, <2>4, <2>5 DEF CtxOK, Valid
<1>11. TasksOK'
  <2>1. \A i \in 1..Len(m_tasks) : m_tasks[i] \in Tasks
    BY <1>0 DEF TypeOK
  <2>2. \A u \in Threads : task[u] # NULL => task[u] \in Tasks
    BY <1>0 DEF TypeOK
  <2>3. QED
    BY <1>0, <1>1, <1>8, <2>1, <2>2 DEF TasksOK
<1>12. QED
  BY <1>0, <1>1, <1>3, <1>7, <1>9, <1>10, <1>11 DEF IInv

-----------------------------------------------------------------------------
(* The switch itself.                                                      *)
LEMMA SwapStep ==
  ASSUME IInv, NEW t \in Threads, SwapContext(t)
  PROVE  IInv'
<1> USE FiberAssumption DEF pointers
<1> DEFINE from == stack[t]
           to == swap[t].load
           at == swap[t].at
<1>0. TypeOK /\ MutexOK /\ CtxOK /\ TasksOK /\ ~aborted /\ ThreadOK(t)
  BY DEF IInv
<1>1. swap[t] # NULL
  BY DEF SwapContext
<1>2. /\ swap[t] \in Swap /\ swap[t].save = from
      /\ at = "end" => m_state[from] = "TERM"
      /\ \A u \in Threads : stack[u] # to
      /\ to \in Fibers /\ m_ctx[to].stack = to /\ m_ctx[to] # NULL
  BY <1>1, SwapFacts, LoadValid DEF Valid
<1>3. from \in Fibers /\ at \in {"body", "end"} /\ from # to
  BY <1>0, <1>2 DEF Swap, TypeOK
<1>4. /\ stack' = [stack EXCEPT ![t] = to]
      /\ swap' = [swap EXCEPT ![t] = NULL]
      /\ UNCHANGED <<t_fiber, t_thread_fiber, t_scheduler_fiber, m_state, m_mutex,
                     m_tasks, task, aborted>>
  BY <1>2 DEF SwapContext
<1>5. m_ctx' = [f \in Fibers |-> IF f = from THEN [stack |-> from, at |-> at]
                                 ELSE IF m_ctx[f] # NULL /\ m_ctx[f].stack = to THEN NULL
                                 ELSE m_ctx[f]]
  BY <1>2 DEF SwapContext
<1>6. \A f \in Fibers : m_ctx'[f] = IF f = from THEN [stack |-> from, at |-> at]
                                    ELSE IF f = to THEN NULL ELSE m_ctx[f]
  <2>1. ASSUME NEW f \in Fibers, f # from
        PROVE  m_ctx'[f] = IF f = to THEN NULL ELSE m_ctx[f]
    BY <1>0, <1>2, <1>5, <2>1 DEF CtxOK
  <2>2. m_ctx'[from] = [stack |-> from, at |-> at]
    BY <1>3, <1>5
  <2>3. QED
    BY <2>1, <2>2
<1>7. [stack |-> from, at |-> at] \in Context
  BY <1>3 DEF Context
<1>8. TypeOK'
  <2>1. stack' \in [Threads -> Fibers] /\ swap' \in [Threads -> Swap \cup {NULL}]
    BY <1>0, <1>2, <1>4 DEF TypeOK
  <2>2. m_ctx' \in [Fibers -> Context \cup {NULL}]
    <3>1. \A f \in Fibers : m_ctx'[f] \in Context \cup {NULL}
      BY <1>0, <1>6, <1>7 DEF TypeOK
    <3>2. QED
      BY <1>5, <3>1
  <2>3. QED
    BY <1>0, <1>4, <2>1, <2>2 DEF TypeOK
<1>9. \A u \in Threads \ {t} : Undisturbed(u)
  BY <1>0, <1>4 DEF Undisturbed, TypeOK
<1>10. stack'[t] = to /\ swap'[t] = NULL
  BY <1>0, <1>4 DEF TypeOK
<1>11. ThreadOK(t)'
  <2>1. ~NotStarted(t) /\ ~OnRun(t) /\ ~Inside(t) /\ ~(t = Caller /\ OnMain)
    BY <1>1 DEF NotStarted, OnRun, Inside, OnMain, At
  <2>2. Entering(t) => Inside(t)'
    BY <1>4, <1>10 DEF Entering, Inside, At, Holds
  <2>3. \A a : Leaving(t, a) => OnRun(t)'
    BY <1>4, <1>10 DEF Leaving, OnRun, At, Runner
  <2>4. t = Caller /\ StopEnters => OnRun(t)' /\ m_state[Scheduling] = "RUNNING"
    BY <1>4, <1>10 DEF StopEnters, OnRun, At, Runner
  <2>5. t = Caller /\ StopLeaves => OnMain'
    BY <1>4, <1>10 DEF StopLeaves, OnMain, At
  <2>6. QED
    BY <1>0, <1>4, <2>1, <2>2, <2>3, <2>4, <2>5 DEF ThreadOK, InTurn, CallerOutside, Runner
<1>12. \A u \in Threads : ThreadOK(u)'
  BY <1>9, <1>11, OthersOK
<1>13. MutexOK'
  BY <1>0, <1>4 DEF MutexOK
<1>14. CtxOK'
  <2>1. ASSUME NEW f \in Fibers PROVE m_ctx'[f] # NULL => m_ctx'[f].stack = f
    BY <1>0, <1>6 DEF CtxOK
  <2>2. ASSUME NEW f \in Fibers, m_state[f] \in {"READY", "RUNNING"},
               \A u \in Threads : stack'[u] # f
        PROVE  Valid(m_ctx'[f])
    <3>1. f # to
      BY <1>10, <2>2
    <3>2. CASE f = from
      <4>1. at # "end"
        BY <1>2, <2>2, <3>2
      <4>2. m_ctx'[f] = [stack |-> from, at |-> at]
        BY <1>6, <3>2
      <4>3. [stack |-> from, at |-> at] # NULL
        BY <1>7
      <4>4. QED
        BY <4>1, <4>2, <4>3 DEF Valid
    <3>3. CASE f # from
      <4>1. \A u \in Threads : stack[u] # f
        BY <1>0, <1>4, <2>2, <3>3 DEF TypeOK
      <4>2. QED
        BY <1>0, <1>6, <2>2, <3>1, <3>3, <4>1 DEF CtxOK
    <3>4. QED
      BY <3>2, <3>3
  <2>3. QED
    BY <1>4, <2>1, <2>2 DEF CtxOK, Valid
<1>15. TasksOK'
  BY <1>0, <1>4 DEF TasksOK
<1>16. QED
  BY <1>0, <1>4, <1>8, <1>12, <1>13, <1>14, <1>15 DEF IInv

-----------------------------------------------------------------------------
(* Scheduler::run().                                                       *)

(* A thread in run(), between two tasks.                                   *)
LEMMA InRunFacts ==
  ASSUME IInv, NEW t \in Threads, InRun(t)
  PROVE  /\ OnRun(t) /\ m_state[t] = "RUNNING" /\ t_fiber[t] \notin Tasks
         /\ t_thread_fiber[t] = t /\ t_scheduler_fiber[t] = Runner(t)
         /\ t = Caller => m_state[Scheduling] = "RUNNING"
<1> USE FiberAssumption
<1>0. /\ ThreadOK(t) /\ t_fiber[t] # NULL /\ stack[t] = Runner(t) /\ swap[t] = NULL
      /\ Runner(t) \notin Tasks /\ NULL \notin Swap
  BY DEF IInv, InRun, Runner, Threads
<1>1. TypeOK
  BY DEF IInv
<1>2. ~NotStarted(t) /\ ~Entering(t) /\ ~Inside(t) /\ \A at : ~Leaving(t, at)
  <2>1. ~NotStarted(t) /\ ~Inside(t) /\ \A at : ~Leaving(t, at)
    BY <1>0 DEF NotStarted, Inside, Leaving, At, Holds
  <2>2. ~Entering(t)
    <3>1. [save |-> Runner(t), load |-> task[t], at |-> "body"] \in Swap \/ task[t] \notin Tasks
      BY DEF Swap, Fibers, Runner, Threads
    <3>2. QED
      BY <1>0, <3>1 DEF Entering, At, Holds
  <2>3. QED
    BY <2>1, <2>2
<1>3. ~(t = Caller /\ CallerOutside)
  <2>1. [save |-> Scheduling, load |-> Caller, at |-> "end"] \in Swap
    BY DEF Swap, Fibers, Threads
  <2>2. QED
    BY <1>0, <2>1 DEF CallerOutside, OnMain, StopEnters, StopLeaves, At, Runner, Threads
<1>4. OnRun(t)
  BY <1>0, <1>2, <1>3 DEF ThreadOK, InTurn
<1>5. QED
  BY <1>0, <1>2, <1>3, <1>4 DEF ThreadOK, OnRun, At

(* A thread that stays in run(), whatever its task.                        *)
LEMMA StaysInRun ==
  ASSUME IInv, NEW t \in Threads, InRun(t),
         UNCHANGED <<t_fiber, t_thread_fiber, t_scheduler_fiber, m_state, stack, swap>>
  PROVE  ThreadOK(t)'
<1>1. /\ OnRun(t) /\ m_state[t] = "RUNNING"
      /\ t_thread_fiber[t] = t /\ t_scheduler_fiber[t] = Runner(t)
      /\ t = Caller => m_state[Scheduling] = "RUNNING"
  BY InRunFacts
<1>2. OnRun(t)'
  BY <1>1 DEF OnRun, At
<1>3. QED
  BY <1>1, <1>2 DEF ThreadOK, InTurn

(* Taking a task, leaving one alone, and coming back from one.             *)
LEMMA TakeStep ==
  ASSUME IInv, NEW t \in Threads, Take(t)
  PROVE  IInv'
<1> USE FiberAssumption DEF pointers, fiberVars
<1>0. TypeOK /\ MutexOK /\ CtxOK /\ TasksOK /\ ~aborted /\ NULL \notin Tasks
  BY DEF IInv, Fibers
<1>1. /\ InRun(t) /\ task[t] = NULL /\ m_tasks # <<>>
      /\ task' = [task EXCEPT ![t] = Head(m_tasks)] /\ m_tasks' = Tail(m_tasks)
      /\ UNCHANGED <<t_fiber, t_thread_fiber, t_scheduler_fiber, m_state, m_ctx,
                     m_mutex, stack, swap, aborted>>
  BY DEF Take
<1>2. /\ Head(m_tasks) \in Tasks /\ Tail(m_tasks) \in Seq(Tasks)
      /\ Head(m_tasks) = m_tasks[1] /\ 1 \in 1..Len(m_tasks)
      /\ \A i \in 1..Len(Tail(m_tasks)) :
           Tail(m_tasks)[i] = m_tasks[i + 1] /\ i + 1 \in 1..Len(m_tasks)
  BY <1>0, <1>1 DEF TypeOK
<1>3. TypeOK'
  BY <1>0, <1>1, <1>2 DEF TypeOK
<1>4. \A u \in Threads \ {t} : Undisturbed(u)
  BY <1>0, <1>1 DEF Undisturbed, TypeOK
<1>5. \A u \in Threads : ThreadOK(u)'
  BY <1>1, <1>4, StaysInRun, OthersOK
<1>6. MutexOK'
  <2>1. \A f \in Tasks : m_mutex[f] # NULL => m_mutex[f] \in Threads /\ m_mutex[f] # t
    BY <1>0, <1>1 DEF TypeOK, MutexOK, Fibers
  <2>2. QED
    BY <1>0, <1>1, <2>1 DEF MutexOK, TypeOK
<1>7. CtxOK'
  BY <1>0, <1>1 DEF CtxOK
<1>8. TasksOK'
  <2>1. \A i \in 1..Len(m_tasks') : m_state'[m_tasks'[i]] # "NONE"
    BY <1>0, <1>1, <1>2 DEF TasksOK
  <2>2. \A u \in Threads : task'[u] # NULL => m_state'[task'[u]] # "NONE"
    BY <1>0, <1>1, <1>2 DEF TasksOK, TypeOK
  <2>3. QED
    BY <2>1, <2>2 DEF TasksOK
<1>9. QED
  BY <1>0, <1>1, <1>3, <1>5, <1>6, <1>7, <1>8 DEF IInv

(* run() skips a task whose fiber is locked or over and keeps the          *)
(* invariant.                                                              *)
LEMMA SkipStep ==
  ASSUME IInv, NEW t \in Threads, RunSkip(t)
  PROVE  IInv'
<1> USE FiberAssumption DEF pointers, fiberVars
<1>0. TypeOK /\ MutexOK /\ CtxOK /\ TasksOK /\ ~aborted
  BY DEF IInv
<1>1. /\ InRun(t) /\ task[t] # NULL /\ m_mutex[task[t]] # t
      /\ task' = [task EXCEPT ![t] = NULL]
      /\ UNCHANGED <<t_fiber, t_thread_fiber, t_scheduler_fiber, m_state, m_ctx,
                     m_mutex, stack, swap, m_tasks, aborted>>
  BY DEF RunSkip
<1>2. TypeOK'
  BY <1>0, <1>1 DEF TypeOK
<1>3. \A u \in Threads \ {t} : Undisturbed(u)
  BY <1>0, <1>1 DEF Undisturbed, TypeOK
<1>4. \A u \in Threads : ThreadOK(u)'
  BY <1>1, <1>3, StaysInRun, OthersOK
<1>5. MutexOK'
  <2>1. \A f \in Tasks : m_mutex[f] # NULL => m_mutex[f] \in Threads /\ m_mutex[f] # t
    BY <1>0, <1>1 DEF TypeOK, MutexOK, Fibers
  <2>2. QED
    BY <1>0, <1>1, <2>1 DEF MutexOK, TypeOK
<1>6. CtxOK'
  BY <1>0, <1>1 DEF CtxOK
<1>7. TasksOK'
  BY <1>0, <1>1 DEF TasksOK, TypeOK
<1>8. QED
  BY <1>0, <1>1, <1>2, <1>4, <1>5, <1>6, <1>7 DEF IInv

(* run() is back from resume() and releases the fiber: the invariant is    *)
(* kept.                                                                   *)
LEMMA ReturnStep ==
  ASSUME IInv, NEW t \in Threads, RunReturn(t)
  PROVE  IInv'
<1> USE FiberAssumption DEF pointers, fiberVars
<1> DEFINE f == task[t]
<1>0. TypeOK /\ MutexOK /\ CtxOK /\ TasksOK /\ ~aborted
  BY DEF IInv
<1>1. /\ InRun(t) /\ f # NULL /\ m_mutex[f] = t
      /\ task' = [task EXCEPT ![t] = NULL]
      /\ m_mutex' = [m_mutex EXCEPT ![f] = NULL]
      /\ UNCHANGED <<t_fiber, t_thread_fiber, t_scheduler_fiber, m_state, m_ctx,
                     stack, swap, m_tasks, aborted>>
  BY DEF RunReturn
<1>2. f \in Tasks /\ f \in Fibers /\ t # NULL
  BY <1>0, <1>1 DEF TypeOK, Fibers
<1>3. TypeOK'
  <2>1. /\ task' \in [Threads -> Tasks \cup {NULL}]
        /\ m_mutex' \in [Fibers -> Threads \cup {NULL}]
    BY <1>0, <1>1 DEF TypeOK
  <2>2. QED
    BY <1>0, <1>1, <2>1 DEF TypeOK
<1>4. \A g \in Tasks : m_mutex'[g] = IF g = f THEN NULL ELSE m_mutex[g]
  BY <1>0, <1>1 DEF TypeOK, Fibers
<1>5. \A u \in Threads \ {t} : Undisturbed(u)
  BY <1>0, <1>1, <1>4 DEF Undisturbed, TypeOK
<1>6. \A u \in Threads : ThreadOK(u)'
  BY <1>1, <1>5, StaysInRun, OthersOK
<1>7. m_state[f] # "RUNNING"
  <2>1. t_fiber[t] # f
    BY <1>1, <1>2, InRunFacts
  <2>2. QED
    BY <1>0, <1>1, <1>2, <2>1 DEF MutexOK
<1>8. MutexOK'
  <2>1. ASSUME NEW g \in Tasks, g # f
        PROVE  /\ m_mutex'[g] # NULL => task'[m_mutex'[g]] = g
               /\ m_state'[g] = "RUNNING" => m_mutex'[g] # NULL /\ t_fiber'[m_mutex'[g]] = g
    <3>1. m_mutex'[g] = m_mutex[g]
      BY <1>4, <2>1
    <3>2. m_mutex[g] # t
      BY <1>0, <1>2, <2>1 DEF MutexOK
    <3>3. m_mutex[g] \in Threads \cup {NULL}
      BY <1>0 DEF TypeOK, Fibers
    <3>4. \A u \in Threads : u # t => task'[u] = task[u]
      BY <1>0, <1>1 DEF TypeOK
    <3>5. QED
      BY <1>0, <1>1, <3>1, <3>2, <3>3, <3>4 DEF MutexOK
  <2>2. m_mutex'[f] = NULL /\ m_state'[f] # "RUNNING"
    BY <1>1, <1>2, <1>4, <1>7
  <2>3. QED
    BY <2>1, <2>2 DEF MutexOK
<1>9. CtxOK'
  BY <1>0, <1>1 DEF CtxOK
<1>10. TasksOK'
  BY <1>0, <1>1 DEF TasksOK, TypeOK
<1>11. QED
  BY <1>0, <1>1, <1>3, <1>6, <1>8, <1>9, <1>10 DEF IInv

-----------------------------------------------------------------------------
(* resume() and yield().                                                   *)

(* run() resumes its task: the fiber is READY, for the mutex was free.     *)
LEMMA ResumeStep ==
  ASSUME IInv, NEW t \in Threads, RunResume(t)
  PROVE  IInv'
<1> USE FiberAssumption DEF pointers, fiberVars
<1> DEFINE f == task[t]
           s == [save |-> Runner(t), load |-> f, at |-> "body"]
<1>0. TypeOK /\ MutexOK /\ CtxOK /\ TasksOK /\ ~aborted
  BY DEF IInv
<1>1. InRun(t) /\ f # NULL /\ m_mutex[f] = NULL /\ m_state[f] # "TERM"
  BY DEF RunResume, Free
<1>2. f \in Tasks /\ f \in Fibers /\ t # NULL /\ f # Scheduling /\ f \notin Threads
  BY <1>0, <1>1 DEF TypeOK, Fibers
<1>3. m_state[f] = "READY"
  BY <1>0, <1>1, <1>2 DEF TypeOK, MutexOK, TasksOK
<1>4. /\ OnRun(t) /\ m_state[t] = "RUNNING"
      /\ t_thread_fiber[t] = t /\ t_scheduler_fiber[t] = Runner(t)
      /\ t = Caller => m_state[Scheduling] = "RUNNING"
  BY <1>1, InRunFacts
<1>5. /\ m_mutex' = [m_mutex EXCEPT ![f] = t]
      /\ m_state' = [m_state EXCEPT ![f] = "RUNNING"]
      /\ t_fiber' = [t_fiber EXCEPT ![t] = f]
      /\ swap' = [swap EXCEPT ![t] = s]
      /\ aborted' = FALSE
      /\ UNCHANGED <<t_thread_fiber, t_scheduler_fiber, m_ctx, stack, m_tasks, task>>
  BY <1>2, <1>3, <1>4 DEF RunResume, Resume, Slot
<1>6. s \in Swap
  BY <1>2 DEF Swap, Runner, Fibers, Threads
<1>7. TypeOK'
  <2>1. swap' \in [Threads -> Swap \cup {NULL}]
    BY <1>0, <1>5, <1>6 DEF TypeOK
  <2>2. /\ m_mutex' \in [Fibers -> Threads \cup {NULL}]
        /\ m_state' \in [Fibers -> {"NONE", "READY", "RUNNING", "TERM"}]
        /\ t_fiber' \in [Threads -> Fibers \cup {NULL}]
    BY <1>0, <1>2, <1>5 DEF TypeOK
  <2>3. QED
    BY <1>0, <1>5, <2>1, <2>2 DEF TypeOK
<1>8. \A g \in Fibers : /\ m_state'[g] = IF g = f THEN "RUNNING" ELSE m_state[g]
                        /\ m_mutex'[g] = IF g = f THEN t ELSE m_mutex[g]
  BY <1>0, <1>5 DEF TypeOK
<1>9. \A u \in Threads \ {t} : Undisturbed(u)
  <2>1. ASSUME NEW u \in Threads, u # t PROVE Undisturbed(u)
    <3>1. u # NULL /\ u \in Fibers /\ Scheduling \in Fibers /\ Tasks \subseteq Fibers
      BY DEF Fibers
    <3>2. t_fiber'[u] = t_fiber[u] /\ swap'[u] = swap[u]
      BY <1>0, <1>5, <2>1 DEF TypeOK
    <3>3. QED
      BY <1>1, <1>2, <1>5, <1>8, <3>1, <3>2 DEF Undisturbed
  <2>2. QED
    BY <2>1
<1>10. ThreadOK(t)'
  <2>1. t_fiber'[t] = f /\ swap'[t] = s /\ stack'[t] = Runner(t) /\ task'[t] = f
    BY <1>0, <1>4, <1>5 DEF TypeOK, OnRun, At
  <2>2. m_mutex'[f] = t /\ m_state'[f] = "RUNNING"
    BY <1>2, <1>8
  <2>3. Entering(t)'
    BY <1>2, <2>1, <2>2 DEF Entering, At, Holds
  <2>4. m_state'[t] = "RUNNING" /\ (t = Caller => m_state'[Scheduling] = "RUNNING")
    BY <1>2, <1>4, <1>8 DEF Fibers
  <2>5. QED
    BY <1>4, <1>5, <2>3, <2>4 DEF ThreadOK, InTurn
<1>11. \A u \in Threads : ThreadOK(u)'
  BY <1>9, <1>10, OthersOK
<1>12. MutexOK'
  <2>1. ASSUME NEW g \in Tasks, g # f
        PROVE  /\ m_mutex'[g] # NULL => task'[m_mutex'[g]] = g
               /\ m_state'[g] = "RUNNING" => m_mutex'[g] # NULL /\ t_fiber'[m_mutex'[g]] = g
    <3>1. m_mutex'[g] = m_mutex[g] /\ m_state'[g] = m_state[g]
      BY <1>8, <2>1 DEF Fibers
    <3>2. m_mutex[g] # t
      BY <1>0, <1>2, <2>1 DEF MutexOK
    <3>3. m_mutex[g] \in Threads \cup {NULL}
      BY <1>0 DEF TypeOK, Fibers
    <3>4. \A u \in Threads : u # t => t_fiber'[u] = t_fiber[u]
      BY <1>0, <1>5 DEF TypeOK
    <3>5. QED
      BY <1>0, <1>5, <3>1, <3>2, <3>3, <3>4 DEF MutexOK
  <2>2. m_mutex'[f] = t /\ task'[t] = f /\ t_fiber'[t] = f
    BY <1>0, <1>2, <1>5, <1>8 DEF TypeOK
  <2>3. QED
    BY <1>2, <2>1, <2>2 DEF MutexOK
<1>13. CtxOK'
  BY <1>0, <1>2, <1>3, <1>5, <1>8 DEF CtxOK
<1>14. TasksOK'
  <2>1. \A i \in 1..Len(m_tasks) : m_tasks[i] \in Fibers
    BY <1>0 DEF TypeOK, Fibers
  <2>2. \A u \in Threads : task[u] # NULL => task[u] \in Fibers
    BY <1>0 DEF TypeOK, Fibers
  <2>3. QED
    BY <1>0, <1>5, <1>8, <2>1, <2>2 DEF TasksOK
<1>15. QED
  BY <1>5, <1>7, <1>11, <1>12, <1>13, <1>14 DEF IInv

(* The body of a fiber, on whatever thread it is.                          *)
LEMMA InBodyFacts ==
  ASSUME IInv, NEW t \in Threads, InBody(t)
  PROVE  /\ Inside(t) /\ m_state[t] = "RUNNING"
         /\ t_thread_fiber[t] = t /\ t_scheduler_fiber[t] = Runner(t)
         /\ t = Caller => m_state[Scheduling] = "RUNNING"
<1> USE FiberAssumption
<1>0. /\ ThreadOK(t) /\ stack[t] \in Tasks /\ swap[t] = NULL
      /\ Runner(t) \notin Tasks /\ t \notin Tasks
  BY DEF IInv, InBody, Runner, Threads
<1>1. ~NotStarted(t) /\ ~OnRun(t) /\ ~Entering(t)
  BY <1>0 DEF NotStarted, OnRun, Entering, At
<1>2. \A at \in {"body", "end"} : ~Leaving(t, at)
  <2>1. \A at \in {"body", "end"} : task[t] \in Tasks =>
          [save |-> task[t], load |-> Runner(t), at |-> at] \in Swap
    BY DEF Swap, Fibers, Runner, Threads
  <2>2. QED
    BY <1>0, <2>1 DEF Leaving, At, Holds
<1>3. ~(t = Caller /\ CallerOutside)
  BY <1>0 DEF CallerOutside, OnMain, StopEnters, StopLeaves, At
<1>4. QED
  BY <1>0, <1>1, <1>2, <1>3 DEF ThreadOK, InTurn

(* A body yields, or ends: the assert of yield() holds.                    *)
LEMMA LeaveStep ==
  ASSUME IInv, NEW t \in Threads, Yield(t) \/ BodyEnd(t)
  PROVE  IInv'
<1> USE FiberAssumption
<1> DEFINE f == task[t]
<1>0. TypeOK /\ MutexOK /\ CtxOK /\ TasksOK /\ ~aborted
  BY DEF IInv
<1>1. InBody(t)
  BY DEF Yield, BodyEnd
<1>2. /\ Inside(t) /\ m_state[t] = "RUNNING"
      /\ t_thread_fiber[t] = t /\ t_scheduler_fiber[t] = Runner(t)
      /\ t = Caller => m_state[Scheduling] = "RUNNING"
  BY <1>1, InBodyFacts
<1>3. /\ t_fiber[t] = f /\ stack[t] = f /\ f \in Tasks
      /\ m_mutex[f] = t /\ m_state[f] = "RUNNING"
  BY <1>2 DEF Inside, At, Holds
<1>4. PICK at \in {"body", "end"} :
        SwitchBack(t, f, IF at = "end" THEN "TERM" ELSE "READY", at)
  BY <1>3 DEF Yield, BodyEnd
<1> DEFINE st == IF at = "end" THEN "TERM" ELSE "READY"
           s == [save |-> f, load |-> Runner(t), at |-> at]
<1>5. /\ m_state' = [m_state EXCEPT ![f] = st]
      /\ t_fiber' = [t_fiber EXCEPT ![t] = Runner(t)]
      /\ swap' = [swap EXCEPT ![t] = s] /\ aborted' = FALSE
      /\ UNCHANGED <<t_thread_fiber, t_scheduler_fiber, m_ctx, m_mutex, stack,
                     m_tasks, task>>
  BY <1>2, <1>3, <1>4 DEF SwitchBack, Slot
<1>6. f \in Fibers /\ f # Scheduling /\ f \notin Threads /\ Runner(t) \in Fibers /\ t # NULL
  BY <1>3 DEF Fibers, Threads, Runner
<1>7. s \in Swap /\ st \in {"READY", "TERM"}
  BY <1>6 DEF Swap
<1> HIDE DEF s, st
<1>8. TypeOK'
  <2>1. swap' \in [Threads -> Swap \cup {NULL}]
    BY <1>0, <1>5, <1>7 DEF TypeOK
  <2>2. /\ m_state' \in [Fibers -> {"NONE", "READY", "RUNNING", "TERM"}]
        /\ t_fiber' \in [Threads -> Fibers \cup {NULL}]
    BY <1>0, <1>5, <1>6, <1>7 DEF TypeOK
  <2>3. QED
    BY <1>0, <1>5, <2>1, <2>2 DEF TypeOK
<1>9. \A g \in Fibers : m_state'[g] = IF g = f THEN st ELSE m_state[g]
  BY <1>0, <1>5 DEF TypeOK
<1>10. \A u \in Threads \ {t} : Undisturbed(u)
  <2>1. ASSUME NEW u \in Threads, u # t PROVE Undisturbed(u)
    <3>1. u \in Fibers /\ Scheduling \in Fibers /\ Tasks \subseteq Fibers
      BY DEF Fibers
    <3>2. t_fiber'[u] = t_fiber[u] /\ swap'[u] = swap[u]
      BY <1>0, <1>5, <2>1 DEF TypeOK
    <3>3. QED
      BY <1>3, <1>5, <1>6, <1>9, <2>1, <3>1, <3>2 DEF Undisturbed
  <2>2. QED
    BY <2>1
<1>11. ThreadOK(t)'
  <2>1. t_fiber'[t] = Runner(t) /\ swap'[t] = s /\ stack'[t] = f /\ task'[t] = f
    BY <1>0, <1>3, <1>5 DEF TypeOK
  <2>2. m_mutex'[f] = t /\ m_state'[f] = st
    BY <1>3, <1>5, <1>6, <1>9
  <2>3. Leaving(t, at)'
    BY <1>3, <2>1, <2>2 DEF Leaving, At, Holds, st, s
  <2>4. m_state'[t] = "RUNNING" /\ (t = Caller => m_state'[Scheduling] = "RUNNING")
    BY <1>2, <1>6, <1>9 DEF Fibers
  <2>5. QED
    BY <1>2, <1>5, <2>3, <2>4 DEF ThreadOK, InTurn
<1>12. \A u \in Threads : ThreadOK(u)'
  BY <1>10, <1>11, OthersOK
<1>13. MutexOK'
  <2>1. ASSUME NEW g \in Tasks, g # f
        PROVE  m_state'[g] = "RUNNING" => m_mutex'[g] # NULL /\ t_fiber'[m_mutex'[g]] = g
    <3>1. m_state'[g] = m_state[g] /\ m_mutex[g] # t /\ m_mutex[g] \in Threads \cup {NULL}
      BY <1>0, <1>3, <1>9, <2>1 DEF Fibers, MutexOK, TypeOK
    <3>2. \A u \in Threads : u # t => t_fiber'[u] = t_fiber[u]
      BY <1>0, <1>5 DEF TypeOK
    <3>3. QED
      BY <1>0, <1>5, <3>1, <3>2 DEF MutexOK
  <2>2. m_state'[f] # "RUNNING"
    BY <1>6, <1>7, <1>9
  <2>3. QED
    BY <1>0, <1>5, <2>1, <2>2 DEF MutexOK
<1>14. CtxOK'
  BY <1>0, <1>3, <1>5, <1>9 DEF CtxOK
<1>15. TasksOK'
  <2>1. \A i \in 1..Len(m_tasks) : m_tasks[i] \in Fibers
    BY <1>0 DEF TypeOK, Fibers
  <2>2. \A u \in Threads : task[u] # NULL => task[u] \in Fibers
    BY <1>0 DEF TypeOK, Fibers
  <2>3. QED
    BY <1>0, <1>5, <1>7, <1>9, <2>1, <2>2 DEF TasksOK
<1>16. QED
  BY <1>5, <1>8, <1>12, <1>13, <1>14, <1>15 DEF IInv

-----------------------------------------------------------------------------
(* stop() on the caller: into m_schedulerFiber ...                         *)
LEMMA StopStep ==
  ASSUME IInv, StopResume
  PROVE  IInv'
<1> USE FiberAssumption
<1> DEFINE s == [save |-> Caller, load |-> Scheduling, at |-> "body"]
<1>0. /\ TypeOK /\ MutexOK /\ CtxOK /\ TasksOK /\ ~aborted /\ ThreadOK(Caller)
      /\ Caller \in Threads /\ Caller \in Fibers /\ Caller \notin Tasks /\ Caller # NULL
      /\ Scheduling \in Fibers /\ Scheduling \notin Tasks /\ Scheduling \notin Threads
  BY DEF IInv, Fibers, Threads
<1>1. stack[Caller] = Caller /\ swap[Caller] = NULL /\ m_state[Scheduling] = "READY"
  BY DEF StopResume
<1>2. /\ ~NotStarted(Caller) /\ ~InTurn(Caller)
      /\ ~StopEnters /\ ~StopLeaves
  <2>1. ~NotStarted(Caller) /\ ~StopEnters /\ ~StopLeaves
    BY <1>0, <1>1 DEF NotStarted, StopEnters, StopLeaves, At
  <2>2. ~OnRun(Caller) /\ ~Entering(Caller) /\ ~Inside(Caller)
    BY <1>0, <1>1 DEF OnRun, Entering, Inside, At, Holds, Runner
  <2>3. \A at : ~Leaving(Caller, at)
    BY <1>0, <1>1 DEF Leaving, At, Holds
  <2>4. QED
    BY <2>1, <2>2, <2>3 DEF InTurn
<1>3. /\ task[Caller] = NULL /\ OnMain /\ m_state[Caller] = "RUNNING"
      /\ t_thread_fiber[Caller] = Caller /\ t_scheduler_fiber[Caller] = Runner(Caller)
  BY <1>0, <1>2 DEF ThreadOK, CallerOutside
<1>4. /\ m_state' = [m_state EXCEPT ![Scheduling] = "RUNNING"]
      /\ t_fiber' = [t_fiber EXCEPT ![Caller] = Scheduling]
      /\ swap' = [swap EXCEPT ![Caller] = s] /\ aborted' = FALSE
      /\ UNCHANGED <<t_thread_fiber, t_scheduler_fiber, m_ctx, m_mutex, stack,
                     m_tasks, task>>
  BY <1>0, <1>1, <1>3 DEF StopResume, Resume, Slot
<1>5. s \in Swap
  BY <1>0 DEF Swap
<1>6. TypeOK'
  <2>1. swap' \in [Threads -> Swap \cup {NULL}]
    BY <1>0, <1>4, <1>5 DEF TypeOK
  <2>2. /\ m_state' \in [Fibers -> {"NONE", "READY", "RUNNING", "TERM"}]
        /\ t_fiber' \in [Threads -> Fibers \cup {NULL}]
    BY <1>0, <1>4 DEF TypeOK
  <2>3. QED
    BY <1>0, <1>4, <2>1, <2>2 DEF TypeOK
<1>7. \A g \in Fibers : m_state'[g] = IF g = Scheduling THEN "RUNNING" ELSE m_state[g]
  BY <1>0, <1>4 DEF TypeOK
<1>8. \A u \in Threads \ {Caller} : Undisturbed(u)
  BY <1>0, <1>4, <1>7 DEF Undisturbed, Fibers, TypeOK
<1>9. ThreadOK(Caller)'
  <2>1. /\ t_fiber'[Caller] = Scheduling /\ swap'[Caller] = s /\ stack'[Caller] = Caller
        /\ task'[Caller] = NULL
        /\ m_state'[Scheduling] = "RUNNING" /\ m_state'[Caller] = "RUNNING"
    BY <1>0, <1>1, <1>3, <1>4, <1>7 DEF TypeOK
  <2>2. CallerOutside'
    BY <2>1 DEF CallerOutside, StopEnters, At
  <2>3. QED
    BY <1>3, <1>4, <2>1, <2>2 DEF ThreadOK, Runner
<1>10. \A u \in Threads : ThreadOK(u)'
  BY <1>0, <1>8, <1>9, OthersOK
<1>11. \A f \in Tasks : m_state'[f] = m_state[f] /\ f # NULL
  BY <1>0, <1>7 DEF Fibers
<1>12. MutexOK'
  <2>1. \A f \in Tasks : m_mutex[f] # Caller /\ m_mutex[f] \in Threads \cup {NULL}
    BY <1>0, <1>3, <1>11 DEF MutexOK, TypeOK, Fibers
  <2>2. \A u \in Threads : u # Caller => t_fiber'[u] = t_fiber[u]
    BY <1>0, <1>4 DEF TypeOK
  <2>3. QED
    BY <1>0, <1>4, <1>11, <2>1, <2>2 DEF MutexOK
<1>13. CtxOK'
  BY <1>0, <1>1, <1>4, <1>7 DEF CtxOK
<1>14. TasksOK'
  <2>1. \A i \in 1..Len(m_tasks) : m_tasks[i] \in Tasks
    BY <1>0 DEF TypeOK
  <2>2. \A u \in Threads : task[u] # NULL => task[u] \in Tasks
    BY <1>0 DEF TypeOK
  <2>3. QED
    BY <1>0, <1>4, <1>11, <2>1, <2>2 DEF TasksOK
<1>15. QED
  BY <1>4, <1>6, <1>10, <1>12, <1>13, <1>14 DEF IInv

(* ... and out of it when run() has returned.                              *)
LEMMA RunEndStep ==
  ASSUME IInv, RunEnd
  PROVE  IInv'
<1> USE FiberAssumption
<1> DEFINE s == [save |-> Scheduling, load |-> Caller, at |-> "end"]
<1>0. /\ TypeOK /\ MutexOK /\ CtxOK /\ TasksOK /\ ~aborted
      /\ Caller \in Threads /\ Caller \in Fibers /\ Caller \notin Tasks /\ Caller # NULL
      /\ Scheduling \in Fibers /\ Scheduling \notin Tasks /\ Scheduling \notin Threads
  BY DEF IInv, Fibers, Threads
<1>1. InRun(Caller) /\ task[Caller] = NULL
  BY DEF RunEnd
<1>2. /\ OnRun(Caller) /\ m_state[Caller] = "RUNNING"
      /\ t_thread_fiber[Caller] = Caller /\ t_scheduler_fiber[Caller] = Runner(Caller)
      /\ m_state[Scheduling] = "RUNNING"
  BY <1>0, <1>1, InRunFacts
<1>3. stack[Caller] = Scheduling
  BY <1>2 DEF OnRun, At, Runner
<1>4. /\ m_state' = [m_state EXCEPT ![Scheduling] = "TERM"]
      /\ t_fiber' = [t_fiber EXCEPT ![Caller] = Caller]
      /\ swap' = [swap EXCEPT ![Caller] = s] /\ aborted' = FALSE
      /\ UNCHANGED <<t_thread_fiber, t_scheduler_fiber, m_ctx, m_mutex, stack,
                     m_tasks, task>>
  BY <1>0, <1>2 DEF RunEnd, SwitchBack, Slot
<1>5. s \in Swap
  BY <1>0 DEF Swap
<1>6. TypeOK'
  <2>1. swap' \in [Threads -> Swap \cup {NULL}]
    BY <1>0, <1>4, <1>5 DEF TypeOK
  <2>2. /\ m_state' \in [Fibers -> {"NONE", "READY", "RUNNING", "TERM"}]
        /\ t_fiber' \in [Threads -> Fibers \cup {NULL}]
    BY <1>0, <1>4 DEF TypeOK
  <2>3. QED
    BY <1>0, <1>4, <2>1, <2>2 DEF TypeOK
<1>7. \A g \in Fibers : m_state'[g] = IF g = Scheduling THEN "TERM" ELSE m_state[g]
  BY <1>0, <1>4 DEF TypeOK
<1>8. \A u \in Threads \ {Caller} : Undisturbed(u)
  BY <1>0, <1>4, <1>7 DEF Undisturbed, Fibers, TypeOK
<1>9. ThreadOK(Caller)'
  <2>1. /\ t_fiber'[Caller] = Caller /\ swap'[Caller] = s /\ stack'[Caller] = Scheduling
        /\ task'[Caller] = NULL
        /\ m_state'[Scheduling] = "TERM" /\ m_state'[Caller] = "RUNNING"
    BY <1>0, <1>1, <1>2, <1>3, <1>4, <1>7 DEF TypeOK
  <2>2. CallerOutside'
    BY <2>1 DEF CallerOutside, StopLeaves, At
  <2>3. QED
    BY <1>2, <1>4, <2>1, <2>2 DEF ThreadOK, Runner
<1>10. \A u \in Threads : ThreadOK(u)'
  BY <1>0, <1>8, <1>9, OthersOK
<1>11. \A f \in Tasks : m_state'[f] = m_state[f] /\ f # NULL
  BY <1>0, <1>7 DEF Fibers
<1>12. MutexOK'
  <2>1. \A f \in Tasks : m_mutex[f] # Caller /\ m_mutex[f] \in Threads \cup {NULL}
    BY <1>0, <1>1, <1>11 DEF MutexOK, TypeOK, Fibers
  <2>2. \A u \in Threads : u # Caller => t_fiber'[u] = t_fiber[u]
    BY <1>0, <1>4 DEF TypeOK
  <2>3. QED
    BY <1>0, <1>4, <1>11, <2>1, <2>2 DEF MutexOK
<1>13. CtxOK'
  BY <1>0, <1>4, <1>7 DEF CtxOK
<1>14. TasksOK'
  <2>1. \A i \in 1..Len(m_tasks) : m_tasks[i] \in Tasks
    BY <1>0 DEF TypeOK
  <2>2. \A u \in Threads : task[u] # NULL => task[u] \in Tasks
    BY <1>0 DEF TypeOK
  <2>3. QED
    BY <1>0, <1>4, <1>11, <2>1, <2>2 DEF TasksOK
<1>15. QED
  BY <1>4, <1>6, <1>10, <1>12, <1>13, <1>14 DEF IInv

-----------------------------------------------------------------------------
(* Clients.  Scheduling a fiber that exists, by whomever and however often.*)
LEMMA ScheduleStep ==
  ASSUME IInv, NEW f \in Tasks, m_state[f] # "NONE", m_tasks' = Append(m_tasks, f),
         UNCHANGED <<pointers, fiberVars, stack, swap, task, aborted>>
  PROVE  IInv'
<1> USE FiberAssumption DEF pointers, fiberVars
<1>0. TypeOK /\ MutexOK /\ CtxOK /\ TasksOK /\ ~aborted
  BY DEF IInv
<1>1. TypeOK'
  BY <1>0 DEF TypeOK
<1>2. \A u \in Threads : Undisturbed(u)
  BY DEF Undisturbed
<1>3. \A u \in Threads : ThreadOK(u)'
  BY <1>2, ThreadFrame DEF IInv
<1>4. MutexOK' /\ CtxOK'
  BY <1>0 DEF MutexOK, CtxOK
<1>5. TasksOK'
  BY <1>0 DEF TasksOK, TypeOK
<1>6. QED
  BY <1>0, <1>1, <1>3, <1>4, <1>5 DEF IInv

(* reset() of a fiber whose last switch has been made.                     *)
LEMMA ResetStep ==
  ASSUME IInv, EarlyReset = FALSE, NEW t \in Threads, NEW f \in Tasks, Reset(t, f)
  PROVE  IInv'
<1> USE FiberAssumption DEF pointers
<1>0. TypeOK /\ MutexOK /\ CtxOK /\ TasksOK /\ ~aborted
      /\ f \in Fibers /\ f \notin Threads /\ f # Scheduling
  BY DEF IInv, Fibers
<1>1. /\ m_state[f] = "TERM" /\ m_state' = [m_state EXCEPT ![f] = "READY"]
      /\ m_ctx' = [m_ctx EXCEPT ![f] = [stack |-> f, at |-> "entry"]]
      /\ \A u \in Threads : stack[u] # f
      /\ UNCHANGED <<t_fiber, t_thread_fiber, t_scheduler_fiber, m_mutex, stack,
                     swap, m_tasks, task, aborted>>
  BY DEF Reset, Entry
<1>2. [stack |-> f, at |-> "entry"] \in Context
  BY <1>0 DEF Context
<1>3. TypeOK'
  <2>1. m_ctx' \in [Fibers -> Context \cup {NULL}]
    BY <1>0, <1>1, <1>2 DEF TypeOK
  <2>2. m_state' \in [Fibers -> {"NONE", "READY", "RUNNING", "TERM"}]
    BY <1>0, <1>1 DEF TypeOK
  <2>3. QED
    BY <1>0, <1>1, <2>1, <2>2 DEF TypeOK
<1>4. \A g \in Fibers : m_state'[g] = IF g = f THEN "READY" ELSE m_state[g]
  BY <1>0, <1>1 DEF TypeOK
<1>5. \A u \in Threads : Undisturbed(u)
  BY <1>0, <1>1, <1>4 DEF Undisturbed, Fibers
<1>6. \A u \in Threads : ThreadOK(u)'
  BY <1>5, ThreadFrame DEF IInv
<1>7. MutexOK'
  BY <1>0, <1>1, <1>4 DEF MutexOK, Fibers
<1>8. \A g \in Fibers : m_ctx'[g] = IF g = f THEN [stack |-> f, at |-> "entry"]
                                   ELSE m_ctx[g]
  BY <1>0, <1>1 DEF TypeOK
<1>9. [stack |-> f, at |-> "entry"] # NULL
  BY <1>2
<1>10. CtxOK'
  BY <1>0, <1>1, <1>4, <1>8, <1>9 DEF CtxOK, Valid
<1>11. TasksOK'
  <2>1. \A i \in 1..Len(m_tasks) : m_tasks[i] \in Fibers
    BY <1>0 DEF TypeOK, Fibers
  <2>2. \A u \in Threads : task[u] # NULL => task[u] \in Fibers
    BY <1>0 DEF TypeOK, Fibers
  <2>3. QED
    BY <1>0, <1>1, <1>4, <2>1, <2>2 DEF TasksOK
<1>12. QED
  BY <1>0, <1>1, <1>3, <1>6, <1>7, <1>10, <1>11 DEF IInv

-----------------------------------------------------------------------------
(* The initial states.                                                     *)
LEMMA InitInv == Init => IInv
<1> SUFFICES ASSUME Init PROVE IInv
  OBVIOUS
<1> USE FiberAssumption
<1>1. TypeOK
  <2>1. /\ t_fiber \in [Threads -> Fibers \cup {NULL}]
        /\ t_thread_fiber \in [Threads -> Threads \cup {NULL}]
        /\ t_scheduler_fiber \in [Threads -> Threads \cup {Scheduling, NULL}]
        /\ stack \in [Threads -> Fibers]
    BY DEF Init, Fibers
  <2>2. /\ m_state \in [Fibers -> {"NONE", "READY", "RUNNING", "TERM"}]
        /\ m_ctx \in [Fibers -> Context \cup {NULL}]
        /\ m_mutex \in [Fibers -> Threads \cup {NULL}]
    BY DEF Init
  <2>3. /\ swap \in [Threads -> Swap \cup {NULL}]
        /\ task \in [Threads -> Tasks \cup {NULL}] /\ m_tasks \in Seq(Tasks)
    BY DEF Init
  <2>4. QED
    BY <2>1, <2>2, <2>3 DEF Init, TypeOK
<1>2. ASSUME NEW t \in Threads PROVE ThreadOK(t)
  <2>1. NotStarted(t)
    BY <1>2 DEF Init, NotStarted, At, Fibers
  <2>2. QED
    BY <2>1 DEF ThreadOK
<1>3. MutexOK /\ TasksOK /\ ~aborted
  BY DEF Init, MutexOK, TasksOK, Fibers
<1>4. CtxOK
  BY DEF Init, CtxOK
<1>5. QED
  BY <1>1, <1>2, <1>3, <1>4 DEF IInv

(* Every step of module Fiber.                                             *)
LEMMA FiberStep ==
  ASSUME EarlyReset = FALSE, IInv, [Next]_vars
  PROVE  IInv'
<1>1. CASE SetUp
  BY <1>1, ConstructStep, StopStep, RunEndStep, WorkerStartStep, NewStep DEF SetUp
<1>2. ASSUME NEW t \in Threads, RunStep(t) PROVE IInv'
  BY <1>2, SwapStep, TakeStep, ResumeStep, SkipStep, ReturnStep DEF RunStep
<1>3. ASSUME NEW t \in Threads, NEW f \in Tasks, Post(t, f) PROVE IInv'
  BY <1>3, ScheduleStep DEF Post
<1>4. CASE UNCHANGED vars
  <2>1. UNCHANGED <<pointers, fiberVars, stack, swap, m_tasks, task, aborted>>
    BY <1>4 DEF vars
  <2>2. \A u \in Threads : Undisturbed(u)
    BY <2>1 DEF Undisturbed, pointers, fiberVars
  <2>3. \A u \in Threads : ThreadOK(u)'
    BY <2>2, ThreadFrame DEF IInv
  <2>4. TypeOK' /\ MutexOK' /\ CtxOK' /\ TasksOK' /\ ~aborted'
    BY <2>1 DEF IInv, TypeOK, MutexOK, CtxOK, TasksOK, pointers, fiberVars
  <2>5. QED
    BY <2>3, <2>4 DEF IInv
<1>5. QED
  BY <1>1, <1>2, <1>3, <1>4, LeaveStep, ResetStep DEF Next

(* What the invariant says of the properties the runs check.               *)
LEMMA FiberSafety ==
  ASSUME IInv
  PROVE  TypeOK /\ CurrentFiber /\ NoStaleJump /\ NoAssertFails /\ FreeIsSaved
<1> USE FiberAssumption
<1>1. TypeOK /\ NoAssertFails
  BY DEF IInv, NoAssertFails
<1>2. NoStaleJump
  BY LoadValid DEF NoStaleJump
<1>3. FreeIsSaved
  <2>1. ASSUME NEW f \in Tasks, m_mutex[f] = NULL, m_state[f] = "READY"
        PROVE  Valid(m_ctx[f]) /\ m_ctx[f].stack = f
    <3>1. \A t \in Threads : stack[t] # f
      BY <2>1, StackFacts DEF Fibers
    <3>2. f \in Fibers
      BY DEF Fibers
    <3>3. QED
      BY <2>1, <3>1, <3>2 DEF IInv, CtxOK, Valid
  <2>2. QED
    BY <2>1 DEF FreeIsSaved
<1>4. CurrentFiber
  <2>1. ASSUME NEW t \in Threads, t_fiber[t] # NULL, swap[t] = NULL
        PROVE  t_fiber[t] = stack[t]
    <3>1. CASE stack[t] \in Tasks
      <4>1. Inside(t)
        BY <2>1, <3>1, InBodyFacts DEF InBody
      <4>2. QED
        BY <4>1 DEF Inside, At
    <3>2. CASE stack[t] = Runner(t)
      <4>1. OnRun(t)
        BY <2>1, <3>2, InRunFacts DEF InRun
      <4>2. QED
        BY <4>1 DEF OnRun, At
    <3>3. CASE stack[t] = t /\ stack[t] # Runner(t) /\ stack[t] \notin Tasks
      <4>1. t = Caller /\ ThreadOK(t)
        BY <3>3 DEF Runner, IInv
      <4>2. ~NotStarted(t) /\ ~InTurn(t)
        BY <2>1, <3>3 DEF NotStarted, InTurn, OnRun, Entering, Inside, Leaving, At, Holds
      <4>3. CallerOutside
        BY <4>1, <4>2 DEF ThreadOK
      <4>4. QED
        <5>1. [save |-> Caller, load |-> Scheduling, at |-> "body"] \in Swap
          BY DEF Swap, Fibers, Threads
        <5>2. QED
          BY <2>1, <3>3, <4>1, <4>3, <5>1
             DEF CallerOutside, OnMain, StopEnters, StopLeaves, At, Threads
    <3>4. QED
      BY <3>1, <3>2, <3>3, StackFacts
  <2>2. QED
    BY <2>1 DEF CurrentFiber
<1>5. QED
  BY <1>1, <1>2, <1>3, <1>4

(* The inductive invariant holds throughout, and with it the properties of *)
(* Fiber, as long as reset() waits for the last switch.                    *)
THEOREM Invariance == EarlyReset = FALSE => (Spec => []IInv)
<1>1. SUFFICES ASSUME EarlyReset = FALSE PROVE Spec => []IInv
  OBVIOUS
<1>2. IInv /\ [Next]_vars => IInv'
  BY <1>1, FiberStep
<1>3. QED
  BY <1>2, InitInv, PTL DEF Spec

(* GetThis() names the executing fiber, no switch goes to a stale context, *)
(* no assert of resume() or yield() fails, and a READY fiber whose mutex   *)
(* is free has its context saved: on any number of threads.                *)
THEOREM FiberSafe ==
  EarlyReset = FALSE =>
    (Spec => [](CurrentFiber /\ NoStaleJump /\ NoAssertFails /\ FreeIsSaved))
<1>1. SUFFICES ASSUME EarlyReset = FALSE
      PROVE  Spec => [](CurrentFiber /\ NoStaleJump /\ NoAssertFails /\ FreeIsSaved)
  OBVIOUS
<1>2. IInv => CurrentFiber /\ NoStaleJump /\ NoAssertFails /\ FreeIsSaved
  BY FiberSafety
<1>3. Spec => []IInv
  BY <1>1, Invariance
<1>4. QED
  BY <1>2, <1>3, PTL
=============================================================================
