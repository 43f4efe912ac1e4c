------------------------------ MODULE Scheduler ------------------------------
(***************************************************************************)
(* The N:M coroutine scheduler of src/src/scheduler: a list of tasks under *)
(* m_mutex, a pool of threads that each execute Scheduler::run(), and the  *)
(* thread that constructs, starts, feeds and stops the scheduler.          *)
(*                                                                         *)
(* Every section the code executes under m_mutex is one action, except     *)
(* start(), which keeps the mutex while it waits for each new thread.      *)
(* Fiber::resume() is split where other threads can run: taking the        *)
(* fiber's own mutex, each scheduleLock() made by the body, the switch     *)
(* back, the release of the mutex and the decrement of the active counter. *)
(***************************************************************************)
EXTENDS Naturals, FiniteSets, SequencesExt

CONSTANTS
  Workers,         \* the threads created by start() (m_threadCount of them)
  Caller,          \* the thread that constructs, starts and stops
  UseCaller,       \* constructor argument use_caller
  UseCallerReads,  \* what the never assigned member m_useCaller may hold
  Fibers,          \* Fiber objects the client creates and schedules
  Callbacks,       \* callbacks the client schedules; also names the cb_fiber
  MaxPosts,        \* bound: calls of scheduleLock in one behaviour
  NULL             \* no thread, no task, no holder; thread = -1 in a task

(* The threads that execute run(): the workers and, with use_caller, the   *)
(* caller, whose turn comes inside stop().                                 *)
Pool == Workers \cup (IF UseCaller THEN {Caller} ELSE {})

Threads == Workers \cup {Caller}

Jobs == Fibers \cup Callbacks

(* ScheduleTask; "no" numbers the calls of scheduleLock and is not in the  *)
(* code.  thread = NULL is the code's -1: any thread may take the task.    *)
Task == [no : 1..MaxPosts, job : Jobs, thread : Pool \cup {NULL}]

(* assert(threads > 0): with use_caller the caller is one of them.         *)
ASSUME SchedulerAssumption ==
  /\ IsFiniteSet(Workers)
  /\ Caller \notin Workers
  /\ UseCaller \in BOOLEAN
  /\ UseCallerReads \in SUBSET BOOLEAN
  /\ Pool # {}
  /\ Fibers \cap Callbacks = {}
  /\ MaxPosts \in Nat
  /\ NULL \notin Threads \cup Jobs \cup Task

VARIABLES
  pc,                   \* where each thread is (see PC)
  task,                 \* run()'s local task, NULL when empty
  m_tasks,              \* the task list
  m_mutex,              \* holder of m_mutex across steps (only start())
  m_threads,            \* the threads in the vector m_threads
  thrs,                 \* stop()'s local vector: threads still to join
  m_stopping,
  m_activeThreadCount,
  m_idleThreadCount,
  m_state,              \* m_state of each job's fiber
  fiberMutex,           \* holder of each fiber's m_mutex
  idleState,            \* m_state of each thread's idle fiber
  schedulerFiber,       \* m_state of m_schedulerFiber
  posts,                \* number of scheduleLock calls so far
  served,               \* history: posts whose turn in run() is over
  aborted               \* an assert of the code has failed

lifeVars  == <<m_mutex, m_threads, thrs, m_stopping, schedulerFiber>>
queueVars == <<m_tasks, posts>>
execVars  == <<task, m_activeThreadCount, served>>
fiberVars == <<m_state, fiberMutex>>
idleVars  == <<idleState, m_idleThreadCount>>
dataVars  == <<lifeVars, queueVars, execVars, fiberVars, idleVars, aborted>>
vars == <<pc, dataVars>>

(* "init", "start", "semwait", "main", "swap", "join", "stopped" and       *)
(* "destroyed" are the caller's own steps; "off" and "boot" a worker's     *)
(* before run(); the others are steps of run().                            *)
CallerPC == {"init", "start", "semwait", "main", "swap", "join", "stopped",
             "destroyed"}
RunPC == {"fetch", "lock", "body", "unlock", "dec", "idle?", "idle", "sleep",
          "idled"}
PC == CallerPC \cup RunPC \cup {"off", "boot", "exit"}

(* "NONE": a callback not yet scheduled; "CB": scheduled, but run() has    *)
(* not made a fiber of it yet; the others are Fiber::State.                *)
FiberState == {"READY", "RUNNING", "TERM"}
JobState == FiberState \cup {"NONE", "CB"}

(* The types; the counters, unsigned in the code, do not go below zero.    *)
TypeOK ==
  /\ pc \in [Threads -> PC]
  /\ task \in [Threads -> Task \cup {NULL}]
  /\ m_tasks \in Seq(Task)
  /\ m_mutex \in {NULL, Caller}
  /\ m_threads \in SUBSET Workers
  /\ thrs \in SUBSET Workers
  /\ m_stopping \in BOOLEAN
  /\ m_activeThreadCount \in Nat
  /\ m_idleThreadCount \in Nat
  /\ m_state \in [Jobs -> JobState]
  /\ fiberMutex \in [Jobs -> Threads \cup {NULL}]
  /\ idleState \in [Pool -> FiberState]
  /\ schedulerFiber \in FiberState
  /\ posts \in 0..MaxPosts
  /\ served \in SUBSET (1..MaxPosts)
  /\ aborted \in BOOLEAN

(* Scheduler::Scheduler(): nothing runs, m_useCaller is not assigned.      *)
Init ==
  /\ pc = [t \in Threads |-> IF t = Caller THEN "init" ELSE "off"]
  /\ task = [t \in Threads |-> NULL]
  /\ m_tasks = <<>>
  /\ m_mutex = NULL
  /\ m_threads = {}
  /\ thrs = {}
  /\ m_stopping = FALSE
  /\ m_activeThreadCount = 0
  /\ m_idleThreadCount = 0
  /\ m_state = [j \in Jobs |-> IF j \in Fibers THEN "READY" ELSE "NONE"]
  /\ fiberMutex = [j \in Jobs |-> NULL]
  /\ idleState = [t \in Pool |-> "READY"]
  /\ schedulerFiber = "READY"
  /\ posts = 0
  /\ served = {}
  /\ aborted = FALSE

Goto(t, from, to) == pc[t] = from /\ pc' = [pc EXCEPT ![t] = to]

(* Faulty variants of stopping(), used to test the properties.             *)
StoppingIgnoresActive == m_stopping /\ m_tasks = <<>>
StoppingIgnoresTasks == m_stopping /\ m_activeThreadCount = 0

(* Scheduler::stopping(): read under m_mutex.                              *)
Stopping == m_stopping /\ m_tasks = <<>> /\ m_activeThreadCount = 0

-----------------------------------------------------------------------------
(* Scheduler::start(): m_mutex is held from StartLock to StartUnlock.      *)

StartLock ==
  /\ Goto(Caller, "init", "start")
  /\ m_mutex' = Caller
  /\ UNCHANGED <<queueVars, execVars, fiberVars, idleVars, m_threads,
                 thrs, m_stopping, schedulerFiber, aborted>>

(* pthread_create in the Thread constructor.                               *)
StartCreate(w) ==
  /\ pc[Caller] = "start"
  /\ pc[w] = "off"
  /\ pc' = [pc EXCEPT ![Caller] = "semwait", ![w] = "boot"]
  /\ UNCHANGED dataVars

(* Thread::run() up to and including m_semaphore.signal(), then the entry  *)
(* of Scheduler::run().                                                    *)
Boot(w) ==
  /\ Goto(w, "boot", "fetch")
  /\ UNCHANGED dataVars

(* m_semaphore.wait() returns once the new thread has signalled, and the   *)
(* thread is stored in m_threads.                                          *)
StartReady(w) ==
  /\ w \notin m_threads
  /\ pc[w] \notin {"off", "boot"}
  /\ Goto(Caller, "semwait", "start")
  /\ m_threads' = m_threads \cup {w}
  /\ UNCHANGED <<queueVars, execVars, fiberVars, idleVars, m_mutex, thrs,
                 m_stopping, schedulerFiber, aborted>>

StartUnlock ==
  /\ m_threads = Workers
  /\ Goto(Caller, "start", "main")
  /\ m_mutex' = NULL
  /\ UNCHANGED <<queueVars, execVars, fiberVars, idleVars, m_threads,
                 thrs, m_stopping, schedulerFiber, aborted>>

-----------------------------------------------------------------------------
(* Scheduler::scheduleLock(fc, thread): j is a Fiber, or a callback that   *)
(* has not been handed over yet.  tickle() is empty in this class.         *)
ScheduleLock(j, thr) ==
  /\ m_mutex = NULL
  /\ posts < MaxPosts
  /\ m_state[j] # "CB"
  /\ posts' = posts + 1
  /\ m_tasks' = Append(m_tasks, [no |-> posts + 1, job |-> j, thread |-> thr])
  /\ m_state' = [m_state EXCEPT ![j] = IF @ = "NONE" THEN "CB" ELSE @]

(* The caller schedules before it calls stop().                            *)
CallerPost(j, thr) ==
  /\ pc[Caller] \in {"init", "main"}
  /\ ScheduleLock(j, thr)
  /\ UNCHANGED <<lifeVars, execVars, idleVars, pc, fiberMutex, aborted>>

-----------------------------------------------------------------------------
(* Scheduler::run(), one iteration per thread t of the pool.               *)

(* Faulty variant: pinned tasks are passed over by every thread.           *)
EligibleUnpinned(t) == {i \in 1..Len(m_tasks) : m_tasks[i].thread = NULL}

(* The positions of the tasks that t may take.                             *)
Eligible(t) == {i \in 1..Len(m_tasks) : m_tasks[i].thread \in {NULL, t}}

(* The locked scan stops at the first task meant for any thread or for t.  *)
FetchTask(t) ==
  /\ m_mutex = NULL
  /\ Goto(t, "fetch", "lock")
  /\ \E i \in Eligible(t) :
       /\ \A k \in Eligible(t) : i <= k
       /\ task' = [task EXCEPT ![t] = m_tasks[i]]
       /\ m_tasks' = RemoveAt(m_tasks, i)
  /\ m_activeThreadCount' = m_activeThreadCount + 1
  /\ UNCHANGED <<lifeVars, fiberVars, idleVars, posts, served, aborted>>

FetchNone(t) ==
  /\ m_mutex = NULL
  /\ Eligible(t) = {}
  /\ Goto(t, "fetch", "idle?")
  /\ UNCHANGED dataVars

(* Faulty variant: the lock_guard on the fiber's mutex is missing.         *)
FiberUnguarded(j) == TRUE

(* The fiber's m_mutex can be locked.                                      *)
FiberFree(j) == fiberMutex[j] = NULL

(* Lock the fiber's mutex (of a new cb_fiber for a callback) and resume()  *)
(* it: assert(m_state == READY), then RUNNING.                             *)
Resume(t) ==
  LET j == task[t].job IN
  /\ Goto(t, "lock", "body")
  /\ FiberFree(j)
  /\ m_state[j] # "TERM"
  /\ fiberMutex' = [fiberMutex EXCEPT ![j] = t]
  /\ m_state' = [m_state EXCEPT ![j] = "RUNNING"]
  /\ aborted' = (m_state[j] \notin {"READY", "CB"})
  /\ UNCHANGED <<lifeVars, queueVars, execVars, idleVars>>

(* A fiber found finished under its mutex is not resumed.                  *)
SkipTerm(t) ==
  LET j == task[t].job IN
  /\ Goto(t, "lock", "dec")
  /\ FiberFree(j)
  /\ m_state[j] = "TERM"
  /\ UNCHANGED dataVars

(* The body of the running fiber calls scheduleLock, for itself (the way   *)
(* a fiber asks to be continued after a yield) or for another job.         *)
BodyPost(t, j, thr) ==
  /\ pc[t] = "body"
  /\ ScheduleLock(j, thr)
  /\ UNCHANGED <<lifeVars, execVars, idleVars, pc, fiberMutex, aborted>>

(* Fiber::yield() from the body, or the end of Fiber::MainFunc(): control  *)
(* is back in run(), with the fiber's mutex still held.                    *)
SwitchBack(t, s) ==
  /\ Goto(t, "body", "unlock")
  /\ m_state' = [m_state EXCEPT ![task[t].job] = s]
  /\ UNCHANGED <<lifeVars, queueVars, execVars, idleVars, fiberMutex,
                 aborted>>

Yield(t) == SwitchBack(t, "READY")
Finish(t) == SwitchBack(t, "TERM")

(* The lock_guard on the fiber's mutex goes out of scope.                  *)
Unlock(t) ==
  /\ Goto(t, "unlock", "dec")
  /\ fiberMutex' = [fiberMutex EXCEPT ![task[t].job] = NULL]
  /\ UNCHANGED <<lifeVars, queueVars, execVars, idleVars, m_state,
                 aborted>>

(* Faulty variant: the decrement is forgotten.                             *)
DecUncounted(t) ==
  /\ Goto(t, "dec", "fetch")
  /\ task' = [task EXCEPT ![t] = NULL]
  /\ served' = served \cup {task[t].no}
  /\ UNCHANGED <<lifeVars, queueVars, fiberVars, idleVars, aborted,
                 m_activeThreadCount>>

(* m_activeThreadCount--; task.reset().                                    *)
Dec(t) ==
  /\ Goto(t, "dec", "fetch")
  /\ m_activeThreadCount' = m_activeThreadCount - 1
  /\ task' = [task EXCEPT ![t] = NULL]
  /\ served' = served \cup {task[t].no}
  /\ UNCHANGED <<lifeVars, queueVars, fiberVars, idleVars, aborted>>

(* Faulty variant: the increment is forgotten.                             *)
IdleResumeUncounted(t) ==
  /\ idleState[t] # "TERM"
  /\ Goto(t, "idle?", "idle")
  /\ idleState' = [idleState EXCEPT ![t] = "RUNNING"]
  /\ UNCHANGED <<lifeVars, queueVars, execVars, fiberVars, aborted,
                 m_idleThreadCount>>

(* No task: resume the idle fiber, unless it has ended.                    *)
IdleResume(t) ==
  /\ idleState[t] # "TERM"
  /\ Goto(t, "idle?", "idle")
  /\ idleState' = [idleState EXCEPT ![t] = "RUNNING"]
  /\ m_idleThreadCount' = m_idleThreadCount + 1
  /\ UNCHANGED <<lifeVars, queueVars, execVars, fiberVars, aborted>>

(* Scheduler::idle(): leave the loop once stopping() is true ...           *)
IdleEnd(t) ==
  /\ m_mutex = NULL
  /\ Stopping
  /\ Goto(t, "idle", "idled")
  /\ idleState' = [idleState EXCEPT ![t] = "TERM"]
  /\ UNCHANGED <<lifeVars, queueVars, execVars, fiberVars,
                 m_idleThreadCount, aborted>>

(* ... else sleep(1) ...                                                   *)
IdleStay(t) ==
  /\ m_mutex = NULL
  /\ ~Stopping
  /\ Goto(t, "idle", "sleep")
  /\ UNCHANGED dataVars

(* ... and yield to run().                                                 *)
IdleYield(t) ==
  /\ Goto(t, "sleep", "idled")
  /\ idleState' = [idleState EXCEPT ![t] = "READY"]
  /\ UNCHANGED <<lifeVars, queueVars, execVars, fiberVars,
                 m_idleThreadCount, aborted>>

(* m_idleThreadCount-- after idle_fiber->resume().                         *)
IdleReturn(t) ==
  /\ Goto(t, "idled", "fetch")
  /\ m_idleThreadCount' = m_idleThreadCount - 1
  /\ UNCHANGED <<lifeVars, queueVars, execVars, fiberVars, idleState,
                 aborted>>

(* The idle fiber has ended: run() returns.  On the caller this ends       *)
(* m_schedulerFiber and stop() goes on.                                    *)
RunExit(t) ==
  /\ idleState[t] = "TERM"
  /\ Goto(t, "idle?", IF t = Caller THEN "swap" ELSE "exit")
  /\ schedulerFiber' = IF t = Caller THEN "TERM" ELSE schedulerFiber
  /\ UNCHANGED <<queueVars, execVars, fiberVars, idleVars, m_mutex,
                 m_threads, thrs, m_stopping, aborted>>

-----------------------------------------------------------------------------
(* Scheduler::stop() on the caller, whose t_scheduler the constructor has  *)
(* set to this scheduler: of the two asserts only the one of the branch    *)
(* m_useCaller can pass, and reading that member gives any value of        *)
(* UseCallerReads.  tickle() is empty; with use_caller m_schedulerFiber is *)
(* resumed, which asserts READY.  stopping() is false at the first call; a *)
(* later call finds it true and returns without a change.                  *)
StopBegin ==
  /\ m_mutex = NULL
  /\ ~Stopping
  /\ Goto(Caller, "main", IF UseCaller THEN "fetch" ELSE "swap")
  /\ m_stopping' = TRUE
  /\ schedulerFiber' = IF UseCaller THEN "RUNNING" ELSE schedulerFiber
  /\ \E m_useCaller \in UseCallerReads :
       aborted' = (~m_useCaller \/ (UseCaller /\ schedulerFiber # "READY"))
  /\ UNCHANGED <<m_mutex, m_threads, thrs, queueVars, execVars, fiberVars,
                 idleVars>>

(* thrs.swap(m_threads) under m_mutex.                                     *)
StopSwap ==
  /\ m_mutex = NULL
  /\ Goto(Caller, "swap", "join")
  /\ thrs' = m_threads
  /\ m_threads' = thrs
  /\ UNCHANGED <<queueVars, execVars, fiberVars, idleVars, m_mutex,
                 m_stopping, schedulerFiber, aborted>>

(* i->join() returns once the thread has ended.                            *)
StopJoin(w) ==
  /\ pc[Caller] = "join"
  /\ w \in thrs
  /\ pc[w] = "exit"
  /\ thrs' = thrs \ {w}
  /\ UNCHANGED <<queueVars, execVars, fiberVars, idleVars, pc, m_mutex,
                 m_threads, m_stopping, schedulerFiber, aborted>>

(* Faulty variant: stop() does not wait for the threads.                   *)
StopReturnUnjoined == Goto(Caller, "join", "stopped") /\ UNCHANGED dataVars

StopReturn ==
  /\ thrs = {}
  /\ Goto(Caller, "join", "stopped")
  /\ UNCHANGED dataVars

(* Scheduler::~Scheduler(): assert(stopping() == true).                    *)
Destroy ==
  /\ m_mutex = NULL
  /\ Goto(Caller, "stopped", "destroyed")
  /\ aborted' = ~Stopping
  /\ UNCHANGED <<lifeVars, queueVars, execVars, fiberVars, idleVars>>

-----------------------------------------------------------------------------
(* One step of run() by thread t that does not depend on what a body does. *)
RunStep(t) ==
  \/ FetchTask(t) \/ FetchNone(t)
  \/ Resume(t) \/ SkipTerm(t) \/ Unlock(t) \/ Dec(t)
  \/ IdleResume(t) \/ IdleEnd(t) \/ IdleStay(t) \/ IdleYield(t)
  \/ IdleReturn(t) \/ RunExit(t)

BodyEnd(t) == Yield(t) \/ Finish(t)

CallerStep ==
  \/ StartLock \/ StartUnlock
  \/ \E w \in Workers : StartCreate(w) \/ StartReady(w) \/ StopJoin(w)
  \/ StopBegin \/ StopSwap \/ StopReturn \/ Destroy

Step ==
  \/ CallerStep
  \/ \E j \in Jobs, thr \in Pool \cup {NULL} : CallerPost(j, thr)
  \/ \E w \in Workers : Boot(w)
  \/ \E t \in Pool :
       \/ RunStep(t)
       \/ BodyEnd(t)
       \/ \E j \in Jobs, thr \in Pool \cup {NULL} : BodyPost(t, j, thr)

(* A failed assert ends the process; a destroyed scheduler does nothing.   *)
Next ==
  \/ ~aborted /\ Step
  \/ pc[Caller] = "destroyed" /\ UNCHANGED vars

Spec == Init /\ [][Next]_vars

(* The operating system runs every thread that can run; a body ends its    *)
(* turn; the client calls stop().  Fewer than MaxPosts turns contend for a *)
(* fiber's mutex, so weak fairness is enough to obtain it.                 *)
Fairness ==
  /\ WF_vars(~aborted /\ CallerStep)
  /\ \A w \in Workers : WF_vars(~aborted /\ Boot(w))
  /\ \A t \in Pool :
       /\ WF_vars(~aborted /\ RunStep(t))
       /\ WF_vars(~aborted /\ BodyEnd(t))

FairSpec == Spec /\ Fairness

-----------------------------------------------------------------------------
(* Properties.                                                             *)

(* A fiber is RUNNING exactly while one thread executes its body, however  *)
(* often and by whomever it was scheduled: the fiber's own mutex in run()  *)
(* keeps a second thread from switching to a context that is in use.       *)
FiberExclusive ==
  /\ \A t, u \in Pool :
       pc[t] = "body" /\ pc[u] = "body" /\ task[t].job = task[u].job => t = u
  /\ \A j \in Jobs : m_state[j] = "RUNNING" <=>
                     \E t \in Pool : pc[t] = "body" /\ task[t].job = j

(* m_activeThreadCount and m_idleThreadCount, incremented and decremented  *)
(* at different places of run() and in part outside m_mutex, always count  *)
(* the threads that hold a task and the threads inside their idle fiber.   *)
CountersExact ==
  /\ m_activeThreadCount = Cardinality({t \in Pool : task[t] # NULL})
  /\ m_idleThreadCount =
       Cardinality({t \in Pool : pc[t] \in {"idle", "sleep", "idled"}})

(* None of the asserts in resume(), stop() and ~Scheduler() fails.         *)
NoAssertFails == ~aborted

(* A thread that has left run() for good.                                  *)
Gone(t) == pc[t] \in {"exit", "swap", "join", "stopped", "destroyed"}

(* As long as a task is in the list, a thread that may take it is still    *)
(* there: run() returns on a thread only when no task pinned to it can     *)
(* come any more.  Otherwise stop() would wait for ever.                   *)
TaskHasThread ==
  \A i \in 1..Len(m_tasks) :
    \E t \in Pool : m_tasks[i].thread \in {NULL, t} /\ ~Gone(t)

(* "The scheduler executes all scheduled tasks before it exits": when      *)
(* stop() returns, every scheduleLock has had its turn and nothing runs.   *)
StopDrains ==
  pc[Caller] \in {"stopped", "destroyed"} =>
    /\ served = 1..posts
    /\ m_tasks = <<>>
    /\ \A t \in Pool : task[t] = NULL /\ Gone(t)

(* Once stopping() is true for one thread it stays true for all: no step   *)
(* of a thread that has not looked yet can bring work back.                *)
StoppingStable == [][Stopping => Stopping']_vars

(* Every scheduleLock is eventually served, whichever thread it is pinned  *)
(* to and whoever made it, a body that runs during stop() included.        *)
EveryPostServed == \A n \in 1..MaxPosts : posts >= n ~> n \in served

(* stop() and the destructor are eventually through: no thread waits for   *)
(* another one that waits for it, from start() to the last join().         *)
StopReturns == <>(pc[Caller] = "destroyed")

(* The scheduler implements the abstract pool of tasks.                    *)
Abstract == INSTANCE TaskPool WITH
  pending   <- {m_tasks[i].no : i \in 1..Len(m_tasks)},
  recurring <- {},
  running   <- {task[t].no : t \in {u \in Pool : task[u] # NULL}},
  done      <- served,
  submitted <- posts,
  accepting <- ~m_stopping,
  closed    <- pc[Caller] \in {"stopped", "destroyed"}

ImplementsTaskPool == Abstract!Spec
=============================================================================
