------------------------------ MODULE IOManager ------------------------------
(***************************************************************************)
(* IOManager as a whole: the scheduler's list and pool, the timers and the *)
(* registered events behind one another, IOManager's tickle(), idle() and  *)
(* stopping(), and stop().                                                 *)
(*                                                                         *)
(* The parts are the ones of modules Scheduler, Timer and IOEvents, each   *)
(* reduced to what the others see of it: a timer is armed or due, an event *)
(* is registered or reported, a body is one step per call it makes.  Every *)
(* piece of work (a scheduled task, an entry of the timer set, a           *)
(* registration) has a number, which it keeps when its callback moves to   *)
(* the task list; a recurring timer that is put back is a new entry.       *)
(*                                                                         *)
(* m_activeThreadCount and m_idleThreadCount appear as what they count:    *)
(* that they count it is CountersExact, proved for the same run().         *)
(***************************************************************************)
EXTENDS Naturals, FiniteSets, SequencesExt

CONSTANTS
  Workers,     \* the threads created by start()
  Caller,      \* the thread that constructs the IOManager and destroys it
  UseCaller,   \* constructor argument use_caller
  LateWork,    \* whether bodies still add timers and events, or reset
               \* timers, after stop()
  Recurs,      \* values of addTimer's argument recurring
  Pins,        \* values of scheduleLock's argument thread; NULL is -1
  MaxWork,     \* bound: tasks, timers and registrations in one behaviour
  NULL

Pool == Workers \cup (IF UseCaller THEN {Caller} ELSE {})
Threads == Workers \cup {Caller}
Work == 1..MaxWork
Task == [no : Work, thread : Pins \cup {NULL}]

ASSUME IOManagerAssumption ==
  /\ IsFiniteSet(Workers) /\ Caller \notin Workers /\ UseCaller \in BOOLEAN
  /\ LateWork \in BOOLEAN /\ Recurs \subseteq BOOLEAN /\ Pool # {} /\ Pins \subseteq Pool \cup {NULL}
  /\ MaxWork \in Nat /\ NULL \notin Threads \cup Task \cup Work

VARIABLES
  pc, ret,              \* where each thread is; where tickle() returns to
  task,                 \* run()'s local task
  m_tasks, m_stopping,
  idleEnded,            \* threads whose idle fiber is TERM
  m_timers, due,        \* timers in the set; those whose time has come
  recurring,            \* recurring timers, in the set or in reset()'s hands
  events, ready,        \* registrations; those epoll has an edge for
  m_pendingEventCount,
  cbs,                  \* idle()'s local cbs: expired timers in hand
  batch, woken,         \* what epoll_wait reported: events, the tickle pipe
  hand,                 \* registration in the hands of cancelEvent(), or
                        \* timer in those of reset()
  pipe,                 \* the tickle pipe has an edge nobody has seen
  tickles,              \* tickles stop() still has to make
  work,                 \* number of pieces of work so far
  done                  \* history: work whose turn is over, or dropped

runVars   == <<task, m_tasks, m_stopping, idleEnded>>
timerVars == <<m_timers, due, recurring>>
eventVars == <<events, ready, m_pendingEventCount>>
handVars  == <<cbs, batch, woken, hand>>
wakeVars  == <<pipe, tickles>>
workVars  == <<work, done>>
dataVars  == <<runVars, timerVars, eventVars, handVars, wakeVars, workVars>>
vars == <<pc, ret, dataVars>>

IdlePC == {"timers", "pending", "sched", "wait", "list", "cbs", "events",
           "count"}
PC == IdlePC \cup {"main", "stop", "join", "stopped", "fetch", "body",
                   "idle?", "cancel", "off", "reset", "tickle", "exit"}

(* The types; the unsigned m_pendingEventCount does not go below zero.     *)
TypeOK ==
  /\ pc \in [Threads -> PC] /\ ret \in [Threads -> PC]
  /\ task \in [Threads -> Task \cup {NULL}]
  /\ m_tasks \in Seq(Task) /\ m_stopping \in BOOLEAN
  /\ idleEnded \subseteq Pool
  /\ m_timers \subseteq Work /\ due \subseteq m_timers /\ recurring \subseteq Work
  /\ events \subseteq Work /\ ready \subseteq events
  /\ m_pendingEventCount \in Nat
  /\ cbs \in [Threads -> SUBSET Work] /\ batch \in [Threads -> SUBSET Work]
  /\ woken \subseteq Pool /\ hand \in [Threads -> Work \cup {NULL}]
  /\ pipe \in BOOLEAN /\ tickles \in 0..(Cardinality(Workers) + 1)
  /\ work \in 0..MaxWork /\ done \subseteq Work

(* The constructor has called start(): the workers are in run().           *)
Init ==
  /\ pc = [t \in Threads |-> IF t = Caller THEN "main" ELSE "fetch"]
  /\ ret = [t \in Threads |-> "main"]
  /\ task = [t \in Threads |-> NULL]
  /\ m_tasks = <<>> /\ m_stopping = FALSE /\ idleEnded = {}
  /\ m_timers = {} /\ due = {} /\ recurring = {}
  /\ events = {} /\ ready = {} /\ m_pendingEventCount = 0
  /\ cbs = [t \in Threads |-> {}] /\ batch = [t \in Threads |-> {}]
  /\ woken = {} /\ hand = [t \in Threads |-> NULL]
  /\ pipe = FALSE /\ tickles = 0
  /\ work = 0 /\ done = {}

At(t, l) == pc[t] = l
Goto(t, l) == pc' = [pc EXCEPT ![t] = l] /\ UNCHANGED ret

-----------------------------------------------------------------------------
(* tickle() and scheduleLock().                                            *)

(* m_idleThreadCount > 0.  A thread that posts from its idle fiber counts. *)
HasIdleThreads ==
  \E t \in Pool : \/ pc[t] \in IdlePC
                  \/ pc[t] = "tickle" /\ ret[t] \in IdlePC

CallTickle(t, l) ==
  /\ pc' = [pc EXCEPT ![t] = "tickle"] /\ ret' = [ret EXCEPT ![t] = l]

(* IOManager::tickle(): one byte into the pipe.                            *)
Tickle(t) ==
  /\ At(t, "tickle")
  /\ Goto(t, ret[t])
  /\ pipe' = (pipe \/ HasIdleThreads)
  /\ UNCHANGED <<runVars, timerVars, eventVars, handVars, tickles, workVars>>

(* scheduleLock(): the push under m_mutex; a list that was empty calls for *)
(* a tickle() after the mutex has been released.  Then on to l.            *)
Post(t, n, thr, l) ==
  /\ m_tasks' = Append(m_tasks, [no |-> n, thread |-> thr])
  /\ IF m_tasks = <<>> THEN CallTickle(t, l) ELSE Goto(t, l)

-----------------------------------------------------------------------------
(* What the client does before it stops the IOManager, and a body in run().*)

Home(t) == IF task[t] = NULL THEN "main" ELSE "body"
Client(t) == pc[t] \in {"main", "body"}

(* The bound on work keeps a number for every recurring timer that is due, *)
(* so that it never keeps listExpiredCb() from putting one back.           *)
Spare == work + Cardinality(due \cap recurring) < MaxWork

NewWork == Spare /\ work' = work + 1
Late == m_stopping => LateWork

Schedule(t, thr) ==
  /\ Client(t) /\ NewWork
  /\ Post(t, work + 1, thr, Home(t))
  /\ UNCHANGED <<timerVars, eventVars, handVars, wakeVars, task, m_stopping,
                 idleEnded, done>>

(* Whether a timer comes first and a tickle() is due, and which timers have*)
(* the same deadline, is module Timer's subject; here they may or may not. *)
TickleOrNot(t, l) == CallTickle(t, l) \/ Goto(t, l)

(* addTimer().  If another timer has the deadline the insert does nothing: *)
(* the timer is lost, and no piece of work comes of the call.              *)
AddTimer(t, r) ==
  /\ Client(t) /\ Late
  /\ \/ /\ NewWork
        /\ m_timers' = m_timers \cup {work + 1}
        /\ recurring' = IF r THEN recurring \cup {work + 1} ELSE recurring
     \/ m_timers # {} /\ UNCHANGED <<m_timers, recurring, work>>
  /\ TickleOrNot(t, Home(t))
  /\ UNCHANGED <<runVars, eventVars, handVars, wakeVars, due, done>>

(* Timer n leaves the set for good.                                        *)
Drop(n) ==
  /\ m_timers' = m_timers \ {n} /\ due' = due \ {n}
  /\ recurring' = recurring \ {n} /\ done' = done \cup {n}

(* Timer::cancel(), refresh() and reset() are called for a timer that is in*)
(* the set; what they do to another one with the same deadline, and what   *)
(* cancel() does during a reset(), is module Timer's subject.              *)
CancelTimer(t, n) ==
  /\ Client(t) /\ n \in m_timers
  /\ Drop(n)
  /\ UNCHANGED <<pc, ret, runVars, eventVars, handVars, wakeVars, work>>

(* Timer::refresh(): a new deadline, or, if another timer has that one,    *)
(* the timer is not put back.                                              *)
Refresh(t, n) ==
  /\ Client(t) /\ n \in m_timers
  /\ \/ due' = due \ {n} /\ UNCHANGED <<m_timers, recurring, done>>
     \/ m_timers # {n} /\ Drop(n)
  /\ UNCHANGED <<pc, ret, runVars, eventVars, handVars, wakeVars, work>>

(* Timer::reset() takes the timer out of the set and lets m_mutex go ...   *)
ResetErase(t, n) ==
  /\ Client(t) /\ Late /\ n \in m_timers
  /\ m_timers' = m_timers \ {n} /\ due' = due \ {n}
  /\ hand' = [hand EXCEPT ![t] = n]
  /\ Goto(t, "reset")
  /\ UNCHANGED <<runVars, eventVars, cbs, batch, woken, wakeVars, workVars,
                 recurring>>

(* ... and calls addTimer(), which puts it back unless the deadline is     *)
(* taken.                                                                  *)
ResetInsert(t) ==
  /\ At(t, "reset")
  /\ \/ m_timers' = m_timers \cup {hand[t]} /\ UNCHANGED <<recurring, done>>
     \/ /\ m_timers # {}
        /\ recurring' = recurring \ {hand[t]} /\ done' = done \cup {hand[t]}
        /\ UNCHANGED m_timers
  /\ hand' = [hand EXCEPT ![t] = NULL]
  /\ TickleOrNot(t, Home(t))
  /\ UNCHANGED <<runVars, eventVars, cbs, batch, woken, wakeVars, work, due>>

(* addEvent(), under the descriptor's mutex.                               *)
AddEvent(t) ==
  /\ Client(t) /\ NewWork /\ Late
  /\ events' = events \cup {work + 1}
  /\ m_pendingEventCount' = m_pendingEventCount + 1
  /\ UNCHANGED <<pc, ret, runVars, timerVars, handVars, wakeVars, ready, done>>

(* delEvent() and the first half of cancelEvent() take a registration out  *)
(* of epoll and count it off.                                              *)
Unregister(t, n) ==
  /\ Client(t) /\ n \in events
  /\ events' = events \ {n} /\ ready' = ready \ {n}
  /\ m_pendingEventCount' = m_pendingEventCount - 1

DelEvent(t, n) ==
  /\ Unregister(t, n)
  /\ done' = done \cup {n}
  /\ UNCHANGED <<pc, ret, runVars, timerVars, handVars, wakeVars, work>>

(* cancelEvent() decrements the counter before triggerEvent() schedules.   *)
CancelEvent(t, n) ==
  /\ Unregister(t, n)
  /\ hand' = [hand EXCEPT ![t] = n]
  /\ Goto(t, "cancel")
  /\ UNCHANGED <<runVars, timerVars, cbs, batch, woken, wakeVars, workVars>>

CancelTrigger(t) ==
  /\ At(t, "cancel")
  /\ Post(t, hand[t], NULL, Home(t))
  /\ hand' = [hand EXCEPT ![t] = NULL]
  /\ UNCHANGED <<timerVars, eventVars, cbs, batch, woken, wakeVars, workVars,
                 task, m_stopping, idleEnded>>

(* cancelAll() schedules first, for each event of the descriptor ...       *)
CancelAll(t, n) ==
  /\ Client(t) /\ n \in events
  /\ events' = events \ {n} /\ ready' = ready \ {n}
  /\ Post(t, n, NULL, "off")
  /\ UNCHANGED <<timerVars, m_pendingEventCount, handVars, wakeVars, workVars,
                 task, m_stopping, idleEnded>>

(* ... and counts the event off after that.                                *)
CountOff(t) ==
  /\ At(t, "off")
  /\ m_pendingEventCount' = m_pendingEventCount - 1
  /\ Goto(t, Home(t))
  /\ UNCHANGED <<runVars, timerVars, events, ready, handVars, wakeVars,
                 workVars>>

-----------------------------------------------------------------------------
(* run().                                                                  *)

Eligible(t) == {i \in 1..Len(m_tasks) : m_tasks[i].thread \in {NULL, t}}

(* A task is taken.  tickle_me compares the erased iterator with end(),    *)
(* which is never equal, so that every task taken is followed by a tickle. *)
FetchTask(t) ==
  /\ At(t, "fetch")
  /\ \E i \in Eligible(t) :
       /\ \A k \in Eligible(t) : i <= k
       /\ task' = [task EXCEPT ![t] = m_tasks[i]]
       /\ m_tasks' = RemoveAt(m_tasks, i)
  /\ CallTickle(t, "body")
  /\ UNCHANGED <<timerVars, eventVars, handVars, wakeVars, workVars,
                 m_stopping, idleEnded>>

(* Tasks passed over because they are pinned to others call for a tickle.  *)
FetchNone(t) ==
  /\ At(t, "fetch") /\ Eligible(t) = {}
  /\ IF m_tasks = <<>> THEN Goto(t, "idle?") ELSE CallTickle(t, "idle?")
  /\ UNCHANGED dataVars

(* The body yields or ends; m_activeThreadCount-- and task.reset().        *)
BodyEnd(t) ==
  /\ At(t, "body")
  /\ Goto(t, "fetch")
  /\ done' = done \cup {task[t].no}
  /\ task' = [task EXCEPT ![t] = NULL]
  /\ UNCHANGED <<timerVars, eventVars, handVars, wakeVars, work, m_tasks,
                 m_stopping, idleEnded>>

IdleResume(t) ==
  /\ At(t, "idle?") /\ t \notin idleEnded
  /\ Goto(t, "timers")
  /\ UNCHANGED dataVars

(* The idle fiber has ended: run() returns.                                *)
RunExit(t) ==
  /\ At(t, "idle?") /\ t \in idleEnded
  /\ Goto(t, IF t = Caller THEN "join" ELSE "exit")
  /\ UNCHANGED dataVars

-----------------------------------------------------------------------------
(* IOManager::idle().                                                      *)

(* Faulty variants of the three reads: one of them is not made.            *)
ReadTimersSkipped(t) ==
  /\ At(t, "timers") /\ Goto(t, "pending") /\ UNCHANGED dataVars
ReadPendingSkipped(t) ==
  /\ At(t, "pending") /\ Goto(t, "sched") /\ UNCHANGED dataVars

(* stopping() reads three things one after the other: whether there is a   *)
(* timer ...                                                               *)
ReadTimers(t) ==
  /\ At(t, "timers")
  /\ Goto(t, IF m_timers = {} THEN "pending" ELSE "wait")
  /\ UNCHANGED dataVars

(* ... whether an event is pending ...                                     *)
ReadPending(t) ==
  /\ At(t, "pending")
  /\ Goto(t, IF m_pendingEventCount = 0 THEN "sched" ELSE "wait")
  /\ UNCHANGED dataVars

(* ... and Scheduler::stopping(), under m_mutex.  If all is quiet the idle *)
(* fiber ends.                                                             *)
SchedulerStopping ==
  m_stopping /\ m_tasks = <<>> /\ \A t \in Pool : task[t] = NULL

ReadScheduler(t) ==
  /\ At(t, "sched")
  /\ Goto(t, IF SchedulerStopping THEN "fetch" ELSE "wait")
  /\ idleEnded' = IF SchedulerStopping THEN idleEnded \cup {t} ELSE idleEnded
  /\ UNCHANGED <<timerVars, eventVars, handVars, wakeVars, workVars, task,
                 m_tasks, m_stopping>>

(* epoll_wait() returns with edges of registered events, of the pipe, or   *)
(* both ...                                                                *)
EpollWait(t) ==
  /\ At(t, "wait")
  /\ \E S \in SUBSET ready, p \in {FALSE, pipe} :
       /\ p \/ S # {}
       /\ ready' = ready \ S /\ batch' = [batch EXCEPT ![t] = S]
       /\ woken' = IF p THEN woken \cup {t} ELSE woken
       /\ pipe' = (pipe /\ ~p)
  /\ Goto(t, "list")
  /\ UNCHANGED <<runVars, timerVars, events, m_pendingEventCount, cbs, hand,
                 tickles, workVars>>

(* ... or, with none to report, because a deadline or MAX_TIMEOUT passes.  *)
EpollTimeout(t) ==
  /\ At(t, "wait") /\ ready = {} /\ ~pipe
  /\ Goto(t, "list")
  /\ UNCHANGED dataVars

(* listExpiredCb(): the timers that are due go, and a recurring one comes  *)
(* back with its next deadline, unless another timer has that one already. *)
ListExpiredCb(t) ==
  LET D == due \cap recurring IN
  /\ At(t, "list")
  /\ cbs' = [cbs EXCEPT ![t] = due]
  /\ \E k \in 0..Cardinality(D) :
       LET back == (work + 1)..(work + k) IN
       /\ work + k <= MaxWork /\ work' = work + k
       /\ m_timers' = (m_timers \ due) \cup back
       /\ recurring' = (recurring \ due) \cup back
  /\ D # {} => m_timers' # {}
  /\ due' = {}
  /\ Goto(t, "cbs")
  /\ UNCHANGED <<runVars, eventVars, batch, woken, hand, wakeVars, done>>

(* scheduleLock(cb) for each of them.                                      *)
PostCb(t, n) ==
  /\ At(t, "cbs") /\ n \in cbs[t]
  /\ cbs' = [cbs EXCEPT ![t] = @ \ {n}]
  /\ Post(t, n, NULL, "cbs")
  /\ UNCHANGED <<timerVars, eventVars, batch, woken, hand, wakeVars, workVars,
                 task, m_stopping, idleEnded>>

CbsEnd(t) ==
  /\ At(t, "cbs") /\ cbs[t] = {}
  /\ Goto(t, "events")
  /\ UNCHANGED dataVars

(* The pipe is read until it is empty; a later byte goes too.              *)
DrainPipe(t) ==
  /\ At(t, "events") /\ t \in woken
  /\ woken' = woken \ {t} /\ pipe' = FALSE
  /\ UNCHANGED <<pc, ret, runVars, timerVars, eventVars, cbs, batch, hand,
                 tickles, workVars>>

(* A reported event that is still registered is triggered ...              *)
TriggerEvent(t, n) ==
  /\ At(t, "events") /\ n \in batch[t] \cap events
  /\ batch' = [batch EXCEPT ![t] = @ \ {n}]
  /\ events' = events \ {n} /\ ready' = ready \ {n}
  /\ Post(t, n, NULL, "count")
  /\ UNCHANGED <<timerVars, m_pendingEventCount, cbs, woken, hand, wakeVars,
                 workVars, task, m_stopping, idleEnded>>

(* Faulty variant: the counter is not decremented.                         *)
CountForgotten(t) == At(t, "count") /\ Goto(t, "events") /\ UNCHANGED dataVars

(* ... and counted off after that.                                         *)
CountEvent(t) ==
  /\ At(t, "count")
  /\ m_pendingEventCount' = m_pendingEventCount - 1
  /\ Goto(t, "events")
  /\ UNCHANGED <<runVars, timerVars, events, ready, handVars, wakeVars,
                 workVars>>

(* Faulty variant: an event somebody else has dealt with is counted off.   *)
SkipCounted(t, n) ==
  /\ At(t, "events") /\ n \in batch[t] \ events
  /\ batch' = [batch EXCEPT ![t] = @ \ {n}]
  /\ Goto(t, "count")
  /\ UNCHANGED <<runVars, timerVars, eventVars, cbs, woken, hand, wakeVars,
                 workVars>>

(* One that is not registered any more is skipped.                         *)
SkipEvent(t, n) ==
  /\ At(t, "events") /\ n \in batch[t] \ events
  /\ batch' = [batch EXCEPT ![t] = @ \ {n}]
  /\ UNCHANGED <<pc, ret, runVars, timerVars, eventVars, cbs, woken, hand,
                 wakeVars, workVars>>

(* Everything is handled: the idle fiber yields to run().                  *)
IdleYield(t) ==
  /\ At(t, "events") /\ batch[t] = {} /\ t \notin woken
  /\ Goto(t, "fetch")
  /\ UNCHANGED dataVars

-----------------------------------------------------------------------------
(* ~IOManager() calls stop(): m_stopping is set ...                        *)
Stop ==
  /\ At(Caller, "main")
  /\ Goto(Caller, "stop")
  /\ m_stopping' = TRUE
  /\ tickles' = Cardinality(Pool)
  /\ UNCHANGED <<timerVars, eventVars, handVars, workVars, task, m_tasks,
                 idleEnded, pipe>>

(* ... one tickle() per thread ...                                         *)
StopTickle ==
  /\ At(Caller, "stop") /\ tickles > 0
  /\ tickles' = tickles - 1
  /\ pipe' = (pipe \/ HasIdleThreads)
  /\ UNCHANGED <<pc, ret, runVars, timerVars, eventVars, handVars, workVars>>

(* ... the caller's own run(), if it has one, and the joins.               *)
StopRun ==
  /\ At(Caller, "stop") /\ tickles = 0
  /\ Goto(Caller, IF UseCaller THEN "fetch" ELSE "join")
  /\ UNCHANGED dataVars

StopJoin ==
  /\ At(Caller, "join") /\ \A w \in Workers : At(w, "exit")
  /\ Goto(Caller, "stopped")
  /\ UNCHANGED dataVars

-----------------------------------------------------------------------------
(* Time passes for a timer; a descriptor becomes ready.                    *)
TimerDue(n) ==
  /\ n \in m_timers \ due /\ (n \in recurring => Spare)
  /\ due' = due \cup {n}
  /\ UNCHANGED <<pc, ret, runVars, eventVars, handVars, wakeVars, workVars,
                 m_timers, recurring>>

EventReady(n) ==
  /\ n \in events \ ready /\ \A t \in Pool : n \notin batch[t]
  /\ ready' = ready \cup {n}
  /\ UNCHANGED <<pc, ret, runVars, timerVars, handVars, wakeVars, workVars,
                 events, m_pendingEventCount>>

-----------------------------------------------------------------------------
ClientStep(t) ==
  \/ \E thr \in Pins : Schedule(t, thr)
  \/ AddEvent(t) \/ \E r \in Recurs : AddTimer(t, r)
  \/ \E n \in Work : \/ CancelTimer(t, n) \/ Refresh(t, n) \/ ResetErase(t, n)
                     \/ DelEvent(t, n) \/ CancelEvent(t, n) \/ CancelAll(t, n)

(* The steps thread t makes without a choice of the client's.              *)
ThreadStep(t) ==
  \/ Tickle(t) \/ CancelTrigger(t) \/ CountOff(t) \/ ResetInsert(t)
  \/ FetchTask(t) \/ FetchNone(t) \/ IdleResume(t) \/ RunExit(t)
  \/ ReadTimers(t) \/ ReadPending(t) \/ ReadScheduler(t)
  \/ EpollWait(t) \/ ListExpiredCb(t) \/ CbsEnd(t) \/ DrainPipe(t)
  \/ \E n \in Work : PostCb(t, n) \/ TriggerEvent(t, n) \/ SkipEvent(t, n)
  \/ CountEvent(t) \/ IdleYield(t)

StopStep == Stop \/ StopTickle \/ StopRun \/ StopJoin
EnvStep == \E n \in Work : TimerDue(n) \/ EventReady(n)

Next ==
  \/ \E t \in Threads : ClientStep(t) \/ ThreadStep(t) \/ BodyEnd(t)
                        \/ EpollTimeout(t)
  \/ StopStep \/ EnvStep
  \/ At(Caller, "stopped") /\ UNCHANGED vars

Spec == Init /\ [][Next]_vars

(* The operating system runs every thread that can run, epoll_wait returns *)
(* after MAX_TIMEOUT at the latest, timers expire and awaited descriptors  *)
(* become ready; bodies end and the client destroys the IOManager, however *)
(* many calls they make before.                                            *)
Fairness ==
  /\ \A t \in Threads : WF_vars(ThreadStep(t)) /\ SF_vars(BodyEnd(t))
                        /\ WF_vars(EpollTimeout(t))
  /\ SF_vars(StopStep) /\ WF_vars(EnvStep)

FairSpec == Spec /\ Fairness

-----------------------------------------------------------------------------
(* Properties.                                                             *)

Gone(t) == pc[t] \in {"exit", "join", "stopped"}

(* Work that no body has in hand.                                          *)
Waiting ==
  {m_tasks[i].no : i \in 1..Len(m_tasks)} \cup m_timers \cup events
    \cup (UNION {cbs[t] : t \in Threads})
    \cup ({hand[t] : t \in Threads} \ {NULL})

(* The last thread stays: although stopping() reads the timers, the        *)
(* pending counter and the task list one after the other, and a thread may *)
(* leave on a stale answer, run() never returns on the last thread as long *)
(* as there is work.                                                       *)
WorkHasThread == Waiting # {} => \E t \in Pool : ~Gone(t)

(* "Before it exits all IO events have to be scheduled": IOManager is the  *)
(* abstract pool whose tasks are the tasks, the events and the entries of  *)
(* the timer set.                                                          *)
Abstract == INSTANCE TaskPool WITH
  MaxPosts  <- MaxWork,
  pending   <- Waiting,
  recurring <- recurring,
  running   <- {task[t].no : t \in {u \in Pool : task[u] # NULL}},
  done      <- done,
  submitted <- work,
  accepting <- ~m_stopping,
  closed    <- pc[Caller] = "stopped"

ImplementsTaskPool == Abstract!Spec

(* The destructor returns: with timers that expire and descriptors that    *)
(* become ready, all threads find out that nothing is left, unless some    *)
(* recurring timer is left for ever.                                       *)
StopReturns == <>(pc[Caller] = "stopped") \/ <>[](recurring # {})

(* "tickle() wakes the idle fiber": with a task in the list some thread is *)
(* on its way to run() or a wake-up is on its way to it; the pool does not *)
(* sleep over the task until MAX_TIMEOUT.                                  *)
NoSleepOverTask ==
  (\E i \in 1..Len(m_tasks) : m_tasks[i].thread = NULL) =>
    pipe \/ \E t \in Threads : ~Gone(t) /\ pc[t] \notin {"main", "stop", "wait"}

-----------------------------------------------------------------------------
(* The inductive invariant behind TypeOK: where a thread is says what it   *)
(* has in hand, and the pending counter is never short.                    *)

(* Where thread t is, or where tickle() is going to return to.             *)
Place(t) == IF pc[t] = "tickle" THEN ret[t] ELSE pc[t]

(* Inside a call of the client's that is more than one step.               *)
CallPC == {"cancel", "off", "reset"}

(* A thread has a task in body(), a registration in cancelEvent(), a timer *)
(* in reset() and expired callbacks in idle(), and at no other place.      *)
ThreadOK(t) ==
  /\ pc[t] = "tickle" =>
       ret[t] \in {"main", "body", "off", "idle?", "cbs", "count"}
  /\ Place(t) = "body" => task[t] # NULL
  /\ task[t] # NULL => Place(t) \in {"body"} \cup CallPC
  /\ hand[t] # NULL <=> pc[t] \in {"cancel", "reset"}
  /\ cbs[t] # {} => Place(t) = "cbs"
  /\ t # Caller => /\ Place(t) \notin {"main", "stop", "join", "stopped"}
                   /\ Place(t) \in CallPC => task[t] # NULL

(* The caller is a client until it calls stop(), and a thread of the pool  *)
(* after that only if it is one.                                           *)
CallerOK ==
  /\ Place(Caller) # "exit"
  /\ m_stopping <=> /\ Place(Caller) # "main"
                    /\ Place(Caller) \in CallPC => task[Caller] # NULL
  /\ UseCaller \/ /\ Place(Caller) \in {"main", "stop", "join", "stopped"} \cup CallPC
                  /\ task[Caller] = NULL

(* cancelEvent() counts an event off at once, idle() and cancelAll() after *)
(* they have posted: there are threads between the post and the decrement. *)
Counting == {t \in Threads : Place(t) \in {"count", "off"}}

CountOK ==
  /\ events \subseteq 1..work
  /\ m_pendingEventCount = Cardinality(events) + Cardinality(Counting)

(* All that holds for any use of the IOManager.                            *)
IInv == TypeOK /\ (\A t \in Threads : ThreadOK(t)) /\ CallerOK /\ CountOK

(* The invariant behind the refinement.  Every piece of work is in exactly *)
(* one box: a list, a set, or the hands of a thread.                       *)
Listed == {m_tasks[i].no : i \in 1..Len(m_tasks)}

ListedOnce ==
  \A i, j \in 1..Len(m_tasks) : m_tasks[i].no = m_tasks[j].no => i = j

Boxes == ({"list", "timers", "events", "done"} \X {NULL})
           \cup ({"cbs", "hand", "task"} \X Threads)

Box(b) ==
  CASE b[1] = "list"   -> Listed
    [] b[1] = "timers" -> m_timers
    [] b[1] = "events" -> events
    [] b[1] = "done"   -> done
    [] b[1] = "cbs"    -> cbs[b[2]]
    [] b[1] = "hand"   -> {hand[b[2]]} \ {NULL}
    [] b[1] = "task"   -> IF task[b[2]] = NULL THEN {} ELSE {task[b[2]].no}

OneBox ==
  /\ \A b, c \in Boxes : b # c => Box(b) \cap Box(c) = {}
  /\ \A b \in Boxes : Box(b) \subseteq 1..work
  /\ \A n \in 1..work : \E b \in Boxes : n \in Box(b)

(* A recurring timer is in the set or in the hands of reset().             *)
RecurringOK ==
  recurring \subseteq
    m_timers \cup {hand[t] : t \in {u \in Threads : pc[u] = "reset"}}

(* A thread that scans the list once more before run() returns.            *)
Live(t) == ~Gone(t) /\ ~(Place(t) = "idle?" /\ t \in idleEnded)

(* A timer, an event and a task each have a thread that does not leave on  *)
(* account of what it has read before: who puts a timer into the set looks *)
(* at the set again, and a thread whose idle fiber has ended puts none.    *)
LeaveOK ==
  /\ ~m_stopping => idleEnded = {}
  /\ \A t \in Pool : Gone(t) => t \in idleEnded
  /\ \A t \in idleEnded : Place(t) \notin IdlePC \cup {"reset"}
  /\ m_timers # {} => \E t \in Pool \ idleEnded : pc[t] \notin {"pending", "sched"}
  /\ events # {} => \E t \in Pool \ idleEnded : pc[t] # "sched"
  /\ m_tasks # <<>> => \E t \in Pool : Live(t)

(* All that makes stop() drain the IOManager when the caller takes part:   *)
(* no task, timer or event is lost or doubled on its way from one place to *)
(* the next, and the last thread leaves run() only when none is left.      *)
WorkInv == IInv /\ ListedOnce /\ OneBox /\ RecurringOK /\ LeaveOK
=============================================================================
