-------------------------------- MODULE Fiber --------------------------------
(***************************************************************************)
(* Fibers as control flow: which stack each thread executes on, what the   *)
(* saved contexts stand for, and the three thread-local pointers through   *)
(* which resume() and yield() find the context to save and to load.        *)
(*                                                                         *)
(* A stack belongs to one fiber and is named by it; a thread's own stack   *)
(* belongs to its main fiber, which has the thread's name.  A context is   *)
(* the last suspension point of a stack, and of no use any more (NULL) as  *)
(* soon as that stack is executed again.  The fibers are driven by run()   *)
(* on every thread, without its idle fiber (which one thread alone ever    *)
(* resumes) and with a fiber at most once in the task list.  Only run()    *)
(* and stop() call resume(), never a body.                                 *)
(***************************************************************************)
EXTENDS Naturals, SequencesExt

CONSTANTS
  Workers,      \* threads whose main fiber executes run()
  Caller,       \* thread that executes run() on m_schedulerFiber, in stop()
  Scheduling,   \* m_schedulerFiber
  Tasks,        \* fibers of the client, with run_in_scheduler = true
  EarlyReset,   \* whether reset() may come before the last switch is made
  NULL

Threads == Workers \cup {Caller}
Fibers == Threads \cup {Scheduling} \cup Tasks
Context == [stack : Fibers, at : {"entry", "body", "end"}]

(* A swapcontext(&save->m_ctx, &load->m_ctx); at says from where.          *)
Swap == [save : Fibers, load : Fibers, at : {"body", "end"}]

ASSUME FiberAssumption ==
  /\ Caller \notin Workers /\ Scheduling \notin Threads
  /\ Tasks \cap (Threads \cup {Scheduling}) = {}
  /\ EarlyReset \in BOOLEAN
  /\ NULL \notin Fibers \cup Context \cup Swap

VARIABLES
  t_fiber, t_thread_fiber, t_scheduler_fiber,   \* of each thread
  m_state, m_ctx, m_mutex,                      \* of each fiber
  stack,      \* the stack each thread executes on
  swap,       \* the swapcontext() a thread is about to make
  m_tasks,    \* the task list
  task,       \* run()'s local task
  aborted     \* an assert of the code has failed

pointers  == <<t_fiber, t_thread_fiber, t_scheduler_fiber>>
fiberVars == <<m_state, m_ctx, m_mutex>>
vars == <<pointers, fiberVars, stack, swap, m_tasks, task, aborted>>

(* The types.                                                              *)
TypeOK ==
  /\ t_fiber \in [Threads -> Fibers \cup {NULL}]
  /\ t_thread_fiber \in [Threads -> Threads \cup {NULL}]
  /\ t_scheduler_fiber \in [Threads -> Threads \cup {Scheduling, NULL}]
  /\ m_state \in [Fibers -> {"NONE", "READY", "RUNNING", "TERM"}]
  /\ m_ctx \in [Fibers -> Context \cup {NULL}]
  /\ m_mutex \in [Fibers -> Threads \cup {NULL}]
  /\ stack \in [Threads -> Fibers]
  /\ swap \in [Threads -> Swap \cup {NULL}]
  /\ m_tasks \in Seq(Tasks) /\ task \in [Threads -> Tasks \cup {NULL}]
  /\ aborted \in BOOLEAN

Init ==
  /\ t_fiber = [t \in Threads |-> NULL]
  /\ t_thread_fiber = [t \in Threads |-> NULL]
  /\ t_scheduler_fiber = [t \in Threads |-> NULL]
  /\ m_state = [f \in Fibers |-> "NONE"]
  /\ m_ctx = [f \in Fibers |-> NULL]
  /\ m_mutex = [f \in Fibers |-> NULL]
  /\ stack = [t \in Threads |-> t]
  /\ swap = [t \in Threads |-> NULL]
  /\ m_tasks = <<>> /\ task = [t \in Threads |-> NULL]
  /\ aborted = FALSE

-----------------------------------------------------------------------------
(* Construction.                                                           *)

(* Fiber::Fiber(cb, stacksize, run_in_scheduler): getcontext, makecontext. *)
Entry(f) == [stack |-> f, at |-> "entry"]

New(f) ==
  /\ m_state[f] = "NONE"
  /\ m_state' = [m_state EXCEPT ![f] = "READY"]
  /\ m_ctx' = [m_ctx EXCEPT ![f] = Entry(f)]
  /\ UNCHANGED <<pointers, m_mutex, stack, swap, m_tasks, task, aborted>>

(* Faulty variant: t_scheduler_fiber is not set.                           *)
MakeMainOnly(t, scheduler) ==
  /\ t_fiber[t] = NULL
  /\ t_fiber' = [t_fiber EXCEPT ![t] = t]
  /\ t_thread_fiber' = [t_thread_fiber EXCEPT ![t] = t]
  /\ UNCHANGED t_scheduler_fiber

(* GetThis() on a thread without a fiber makes its main fiber.  Its m_ctx  *)
(* comes from getcontext() in the constructor and is outdated at once.     *)
MakeMain(t, scheduler) ==
  /\ t_fiber[t] = NULL
  /\ t_fiber' = [t_fiber EXCEPT ![t] = t]
  /\ t_thread_fiber' = [t_thread_fiber EXCEPT ![t] = t]
  /\ t_scheduler_fiber' = [t_scheduler_fiber EXCEPT ![t] = scheduler]

(* A worker enters run().                                                  *)
WorkerStart(w) ==
  /\ MakeMain(w, w)
  /\ m_state' = [m_state EXCEPT ![w] = "RUNNING"]
  /\ UNCHANGED <<m_ctx, m_mutex, stack, swap, m_tasks, task, aborted>>

(* Faulty variant: SetSchedulerFiber() is not called.                      *)
ConstructPlain ==
  /\ MakeMain(Caller, Caller)
  /\ m_state' = [m_state EXCEPT ![Caller] = "RUNNING", ![Scheduling] = "READY"]
  /\ m_ctx' = [m_ctx EXCEPT ![Scheduling] = Entry(Scheduling)]
  /\ UNCHANGED <<m_mutex, stack, swap, m_tasks, task, aborted>>

(* Scheduler::Scheduler() with use_caller: the main fiber, a fiber for     *)
(* run(), and SetSchedulerFiber().                                         *)
Construct ==
  /\ MakeMain(Caller, Scheduling)
  /\ m_state' = [m_state EXCEPT ![Caller] = "RUNNING", ![Scheduling] = "READY"]
  /\ m_ctx' = [m_ctx EXCEPT ![Scheduling] = Entry(Scheduling)]
  /\ UNCHANGED <<m_mutex, stack, swap, m_tasks, task, aborted>>

-----------------------------------------------------------------------------
(* resume(), yield() and the end of MainFunc(), up to swapcontext().       *)

(* Faulty variant: m_runInScheduler is not looked at.                      *)
ThreadSlot(t, f) == t_thread_fiber[t]

(* Where fiber f finds the context of whoever resumed it: the scheduler's  *)
(* fiber if m_runInScheduler, the main fiber if not.                       *)
Slot(t, f) ==
  IF f \in Tasks THEN t_scheduler_fiber[t] ELSE t_thread_fiber[t]

Resume(t, f) ==
  /\ aborted' = (m_state[f] # "READY")
  /\ m_state' = [m_state EXCEPT ![f] = "RUNNING"]
  /\ t_fiber' = [t_fiber EXCEPT ![t] = f]
  /\ swap' = [swap EXCEPT ![t] =
                [save |-> Slot(t, f), load |-> f, at |-> "body"]]
  /\ UNCHANGED <<t_thread_fiber, t_scheduler_fiber, m_ctx, stack>>

(* Faulty variant: the commented-out SetThis(t_thread_fiber) is the one.   *)
SwitchBackToMain(t, f, state, at) ==
  /\ m_state' = [m_state EXCEPT ![f] = state]
  /\ t_fiber' = [t_fiber EXCEPT ![t] = t_thread_fiber[t]]
  /\ swap' = [swap EXCEPT ![t] = [save |-> f, load |-> Slot(t, f), at |-> at]]
  /\ aborted' = (m_state[f] # "RUNNING")
  /\ UNCHANGED <<t_thread_fiber, t_scheduler_fiber, m_ctx, m_mutex, stack,
                 m_tasks, task>>

(* Fiber::yield() of f in state READY, or TERM from MainFunc().            *)
SwitchBack(t, f, state, at) ==
  /\ m_state' = [m_state EXCEPT ![f] = state]
  /\ t_fiber' = [t_fiber EXCEPT ![t] = Slot(t, f)]
  /\ swap' = [swap EXCEPT ![t] = [save |-> f, load |-> Slot(t, f), at |-> at]]
  /\ aborted' = (m_state[f] # "RUNNING")
  /\ UNCHANGED <<t_thread_fiber, t_scheduler_fiber, m_ctx, m_mutex, stack,
                 m_tasks, task>>

Valid(c) == c # NULL /\ c.at # "end"

(* swapcontext(): the thread's present point goes to one context, another  *)
(* one is continued and with that used up, wherever it was saved.          *)
SwapContext(t) ==
  LET s == swap[t]
      c == m_ctx[s.load]
  IN
  /\ s # NULL /\ Valid(c)
  /\ m_ctx' = [f \in Fibers |->
                 IF f = s.save THEN [stack |-> stack[t], at |-> s.at]
                 ELSE IF m_ctx[f] # NULL /\ m_ctx[f].stack = c.stack THEN NULL
                 ELSE m_ctx[f]]
  /\ stack' = [stack EXCEPT ![t] = c.stack]
  /\ swap' = [swap EXCEPT ![t] = NULL]
  /\ UNCHANGED <<pointers, m_state, m_mutex, m_tasks, task, aborted>>

-----------------------------------------------------------------------------
(* Scheduler::run().                                                       *)

Runner(t) == IF t = Caller THEN Scheduling ELSE t
InRun(t) == t_fiber[t] # NULL /\ stack[t] = Runner(t) /\ swap[t] = NULL

Take(t) ==
  /\ InRun(t) /\ task[t] = NULL /\ m_tasks # <<>>
  /\ task' = [task EXCEPT ![t] = Head(m_tasks)]
  /\ m_tasks' = Tail(m_tasks)
  /\ UNCHANGED <<pointers, fiberVars, stack, swap, aborted>>

(* Faulty variant: the lock_guard on the fiber's mutex is missing.         *)
Unguarded(f) == TRUE

(* The fiber's m_mutex can be locked.                                      *)
Free(f) == m_mutex[f] = NULL

RunResume(t) ==
  LET f == task[t] IN
  /\ InRun(t) /\ f # NULL /\ m_mutex[f] # t
  /\ Free(f) /\ m_state[f] # "TERM"
  /\ m_mutex' = [m_mutex EXCEPT ![f] = t]
  /\ Resume(t, f)
  /\ UNCHANGED <<m_tasks, task>>

(* Faulty variant: a fiber whose mutex is taken is passed over as well.    *)
RunSkipBusy(t) ==
  LET f == task[t] IN
  /\ InRun(t) /\ f # NULL /\ m_mutex[f] # t
  /\ ~Free(f) \/ m_state[f] = "TERM"
  /\ task' = [task EXCEPT ![t] = NULL]
  /\ UNCHANGED <<pointers, fiberVars, stack, swap, m_tasks, aborted>>

(* A fiber that has ended is not resumed.                                  *)
RunSkip(t) ==
  LET f == task[t] IN
  /\ InRun(t) /\ f # NULL /\ m_mutex[f] # t
  /\ Free(f) /\ m_state[f] = "TERM"
  /\ task' = [task EXCEPT ![t] = NULL]
  /\ UNCHANGED <<pointers, fiberVars, stack, swap, m_tasks, aborted>>

(* Back from resume(): the mutex is released and the task reset.           *)
RunReturn(t) ==
  LET f == task[t] IN
  /\ InRun(t) /\ f # NULL /\ m_mutex[f] = t
  /\ m_mutex' = [m_mutex EXCEPT ![f] = NULL]
  /\ task' = [task EXCEPT ![t] = NULL]
  /\ UNCHANGED <<pointers, m_state, m_ctx, stack, swap, m_tasks, aborted>>

(* stop() resumes m_schedulerFiber once ...                                *)
StopResume ==
  /\ stack[Caller] = Caller /\ swap[Caller] = NULL
  /\ m_state[Scheduling] = "READY"
  /\ Resume(Caller, Scheduling)
  /\ UNCHANGED <<m_mutex, m_tasks, task>>

(* ... and gets control back when run() has returned.                      *)
RunEnd ==
  /\ InRun(Caller) /\ task[Caller] = NULL /\ m_tasks = <<>>
  /\ SwitchBack(Caller, Scheduling, "TERM", "end")

-----------------------------------------------------------------------------
(* What bodies and the caller do.                                          *)

InBody(t) == stack[t] \in Tasks /\ swap[t] = NULL
InClient(t) ==
  InBody(t) \/ (t_fiber[t] # NULL /\ stack[t] = Caller /\ swap[t] = NULL)

(* scheduleLock(f), also by f for itself before it yields.                 *)
Post(t, f) ==
  /\ InClient(t) /\ m_state[f] # "NONE" /\ f \notin Range(m_tasks)
  /\ m_tasks' = Append(m_tasks, f)
  /\ UNCHANGED <<pointers, fiberVars, stack, swap, task, aborted>>

(* GetThis()->yield().                                                     *)
Yield(t) == InBody(t) /\ SwitchBack(t, t_fiber[t], "READY", "body")

(* MainFunc(): m_state = TERM, and yield() of the fiber it began with.     *)
BodyEnd(t) == InBody(t) /\ SwitchBack(t, stack[t], "TERM", "end")

(* reset() of a fiber that has ended, without its mutex.                   *)
Reset(t, f) ==
  /\ InClient(t) /\ m_state[f] = "TERM"
  /\ EarlyReset \/ \A u \in Threads : stack[u] # f
  /\ m_state' = [m_state EXCEPT ![f] = "READY"]
  /\ m_ctx' = [m_ctx EXCEPT ![f] = Entry(f)]
  /\ UNCHANGED <<pointers, m_mutex, stack, swap, m_tasks, task, aborted>>

-----------------------------------------------------------------------------
RunStep(t) ==
  SwapContext(t) \/ Take(t) \/ RunResume(t) \/ RunSkip(t) \/ RunReturn(t)

SetUp ==
  \/ Construct \/ StopResume \/ RunEnd
  \/ \E w \in Workers : WorkerStart(w)
  \/ \E f \in Tasks : New(f)

Next ==
  \/ SetUp
  \/ \E t \in Threads :
       \/ RunStep(t) \/ Yield(t) \/ BodyEnd(t)
       \/ \E f \in Tasks : Post(t, f) \/ Reset(t, f)

Spec == Init /\ [][Next]_vars

-----------------------------------------------------------------------------
(* Properties.                                                             *)

(* "Returns the fiber the current thread executes": t_fiber, which the     *)
(* bodies' own yield() relies on, names the stack the thread is on, on     *)
(* whatever thread a fiber is continued.                                   *)
CurrentFiber ==
  \A t \in Threads :
    t_fiber[t] # NULL /\ swap[t] = NULL => t_fiber[t] = stack[t]

(* A switch never goes to a point the stack has left since, nor into a     *)
(* fiber that has ended.                                                   *)
NoStaleJump == \A t \in Threads : swap[t] # NULL => Valid(m_ctx[swap[t].load])

(* Neither the assert of resume() (READY) nor that of yield() fails.       *)
NoAssertFails == ~aborted

(* What the fiber's mutex is for: m_state is READY before the context has  *)
(* been saved, but a READY fiber whose mutex is free has its own context.  *)
FreeIsSaved ==
  \A f \in Tasks : m_mutex[f] = NULL /\ m_state[f] = "READY" =>
    Valid(m_ctx[f]) /\ m_ctx[f].stack = f

-----------------------------------------------------------------------------
(* The inductive invariant, for EarlyReset = FALSE; see FiberProofs.       *)

(* The thread's current fiber, the stack it is on, and its pending switch. *)
At(t, f, s, sw) == t_fiber[t] = f /\ stack[t] = s /\ swap[t] = sw

(* The thread holds the mutex of its task, whose state is st.              *)
Holds(t, st) ==
  task[t] \in Tasks /\ m_mutex[task[t]] = t /\ m_state[task[t]] = st

NotStarted(t) ==
  /\ At(t, NULL, t, NULL) /\ task[t] = NULL
  /\ t = Caller => m_state[Scheduling] = "NONE"

OnRun(t) == At(t, Runner(t), Runner(t), NULL)

(* Before the switch of resume(), in the body, before that of yield().     *)
Entering(t) ==
  /\ At(t, task[t], Runner(t),
        [save |-> Runner(t), load |-> task[t], at |-> "body"])
  /\ Holds(t, "RUNNING")

Inside(t) == At(t, task[t], task[t], NULL) /\ Holds(t, "RUNNING")

Leaving(t, at) ==
  /\ At(t, Runner(t), task[t],
        [save |-> task[t], load |-> Runner(t), at |-> at])
  /\ Holds(t, IF at = "end" THEN "TERM" ELSE "READY")

InTurn(t) ==
  OnRun(t) \/ Entering(t) \/ Inside(t) \/ \E at \in {"body", "end"} : Leaving(t, at)

(* The caller outside run(): before and after stop(), and on the way into  *)
(* and out of m_schedulerFiber.                                            *)
OnMain ==
  At(Caller, Caller, Caller, NULL) /\ m_state[Scheduling] \in {"READY", "TERM"}

StopEnters ==
  /\ At(Caller, Scheduling, Caller,
        [save |-> Caller, load |-> Scheduling, at |-> "body"])
  /\ m_state[Scheduling] = "RUNNING"

StopLeaves ==
  /\ At(Caller, Caller, Scheduling,
        [save |-> Scheduling, load |-> Caller, at |-> "end"])
  /\ m_state[Scheduling] = "TERM"

CallerOutside == task[Caller] = NULL /\ (OnMain \/ StopEnters \/ StopLeaves)

ThreadOK(t) ==
  \/ NotStarted(t)
  \/ /\ t_thread_fiber[t] = t /\ t_scheduler_fiber[t] = Runner(t)
     /\ m_state[t] = "RUNNING"
     /\ \/ InTurn(t) /\ (t = Caller => m_state[Scheduling] = "RUNNING")
        \/ t = Caller /\ CallerOutside

(* A fiber's mutex is held by a thread whose task it is, and a fiber that  *)
(* is RUNNING is the current one of that thread.                           *)
MutexOK ==
  \A f \in Tasks :
    /\ m_mutex[f] # NULL => task[m_mutex[f]] = f
    /\ m_state[f] = "RUNNING" => m_mutex[f] # NULL /\ t_fiber[m_mutex[f]] = f

(* A context is the fiber's own, and a fiber that has not ended and that   *)
(* no thread executes has one.                                             *)
CtxOK ==
  \A f \in Fibers :
    /\ m_ctx[f] # NULL => m_ctx[f].stack = f
    /\ m_state[f] \in {"READY", "RUNNING"} /\ (\A t \in Threads : stack[t] # f)
         => Valid(m_ctx[f])

(* What is scheduled has been constructed.                                 *)
TasksOK ==
  /\ \A i \in 1..Len(m_tasks) : m_state[m_tasks[i]] # "NONE"
  /\ \A t \in Threads : task[t] # NULL => m_state[task[t]] # "NONE"

IInv ==
  /\ TypeOK /\ (\A t \in Threads : ThreadOK(t)) /\ MutexOK /\ CtxOK /\ TasksOK
  /\ ~aborted
=============================================================================
