--------------------------- MODULE IOManagerProofs ---------------------------
(***************************************************************************)
(* The safety properties of IOManager, for every number of threads and of  *)
(* pieces of work.                                                         *)
(*                                                                         *)
(* IInv (what a thread has in hand follows from where it is; the pending   *)
(* counter is the registrations plus the threads between the post of a     *)
(* callback and the decrement) is inductive for every value of the         *)
(* constants.                                                              *)
(***************************************************************************)
EXTENDS IOManager, TaskListLemmas, FiniteSetTheorems, TLAPS

(* The threads of the pool are finitely many, and none of them is NULL.    *)
LEMMA PoolFacts ==
  /\ IsFiniteSet(Threads) /\ IsFiniteSet(Pool) /\ Pool \subseteq Threads /\ Workers \subseteq Pool
  /\ Caller \in Threads /\ Caller \notin Workers
  /\ Caller \in Pool <=> UseCaller
  /\ Cardinality(Pool) \in 0..(Cardinality(Workers) + 1)
<1>a. IsFiniteSet(Workers) /\ Caller \notin Workers
  BY IOManagerAssumption
<1>1. IsFiniteSet(Workers \cup {Caller})
      /\ Cardinality(Workers \cup {Caller}) = Cardinality(Workers) + 1
  BY <1>a, FS_AddElement
<1>2. Pool = Workers \/ Pool = Workers \cup {Caller}
  BY DEF Pool
<1>3. Cardinality(Workers) \in Nat
  BY <1>a, FS_CardinalityType
<1>4. IsFiniteSet(Pool) /\ Cardinality(Pool) \in 0..(Cardinality(Workers) + 1)
  BY <1>a, <1>1, <1>2, <1>3
<1>5. QED
  BY <1>1, <1>4, IOManagerAssumption DEF Pool, Threads

(* Both sets that the counter counts are finite.                           *)
LEMMA CountFacts ==
  ASSUME TypeOK
  PROVE  /\ IsFiniteSet(events) /\ Cardinality(events) \in Nat
         /\ IsFiniteSet(Counting) /\ Cardinality(Counting) \in Nat
<1>1. IsFiniteSet(Work)
  BY IOManagerAssumption, FS_Interval DEF Work
<1>2. IsFiniteSet(events) /\ IsFiniteSet(Counting)
  BY <1>1, PoolFacts, FS_Subset DEF TypeOK, Counting
<1>3. QED
  BY <1>2, FS_CardinalityType

(* Whoever creates work has a number left for it.                          *)
LEMMA SpareFacts ==
  ASSUME TypeOK
  PROVE  /\ IsFiniteSet(due \cap recurring)
         /\ Cardinality(due \cap recurring) \in Nat
         /\ work \in Nat /\ (work < MaxWork => work + 1 \in Work)
         /\ Spare => work < MaxWork
<1>1. IsFiniteSet(Work) /\ due \cap recurring \subseteq Work /\ MaxWork \in Nat
  BY IOManagerAssumption, FS_Interval DEF Work, TypeOK
<1>2. IsFiniteSet(due \cap recurring) /\ Cardinality(due \cap recurring) \in Nat
  BY <1>1, FS_Subset, FS_CardinalityType
<1>3. work \in Nat
  BY DEF TypeOK
<1>4. QED
  BY <1>1, <1>2, <1>3 DEF Spare, Work

(* Only threads of the pool execute run() and idle().                      *)
LEMMA InPool ==
  ASSUME IInv, NEW t \in Threads,
         Place(t) \in IdlePC \cup {"fetch", "idle?", "body"}
  PROVE  t \in Pool
BY PoolFacts DEF IInv, CallerOK, CallPC, Threads, IdlePC

(* A thread that goes to l, with or without a tickle() on the way.         *)
LEMMA Moved ==
  ASSUME TypeOK, NEW t \in Threads, NEW l \in PC \ {"tickle"},
         Goto(t, l) \/ CallTickle(t, l)
  PROVE  /\ pc' \in [Threads -> PC] /\ ret' \in [Threads -> PC]
         /\ pc'[t] = l \/ (pc'[t] = "tickle" /\ ret'[t] = l)
         /\ Place(t)' = l
         /\ \A u \in Threads \ {t} : /\ pc'[u] = pc[u] /\ ret'[u] = ret[u]
                                     /\ Place(u)' = Place(u)
<1>1. pc \in [Threads -> PC] /\ ret \in [Threads -> PC] /\ "tickle" \in PC
  BY DEF TypeOK, PC
<1>2. CASE Goto(t, l)
  BY <1>1, <1>2 DEF Goto, Place
<1>3. CASE CallTickle(t, l)
  BY <1>1, <1>3 DEF CallTickle, Place
<1>4. QED
  BY <1>2, <1>3

(* scheduleLock() puts one element at the end of the list, and the thread  *)
(* goes on.                                                                *)
LEMMA Posted ==
  ASSUME TypeOK, NEW t \in Threads, NEW l \in PC \ {"tickle"},
         NEW n \in Work, NEW thr \in Pins \cup {NULL}, Post(t, n, thr, l)
  PROVE  /\ m_tasks' \in Seq(Task)
         /\ Len(m_tasks') = Len(m_tasks) + 1
         /\ \A k \in 1..Len(m_tasks) : m_tasks'[k] = m_tasks[k]
         /\ m_tasks'[Len(m_tasks) + 1] = [no |-> n, thread |-> thr]
         /\ Goto(t, l) \/ CallTickle(t, l)
<1>1. [no |-> n, thread |-> thr] \in Task /\ m_tasks \in Seq(Task)
  BY DEF Task, TypeOK
<1>2. m_tasks' = Append(m_tasks, [no |-> n, thread |-> thr])
  BY DEF Post
<1>3. Goto(t, l) \/ CallTickle(t, l)
  BY DEF Post
<1>4. QED
  BY <1>1, <1>2, <1>3, AppendProperties

(* The scan of run() takes one element out of the list.                    *)
LEMMA Fetched ==
  ASSUME TypeOK, NEW t \in Threads, FetchTask(t)
  PROVE  \E i \in 1..Len(m_tasks) :
           /\ m_tasks[i] \in Task
           /\ task' = [task EXCEPT ![t] = m_tasks[i]]
           /\ m_tasks' \in Seq(Task)
           /\ Len(m_tasks') = Len(m_tasks) - 1
           /\ \A k \in 1..(Len(m_tasks) - 1) :
                m_tasks'[k] = IF k < i THEN m_tasks[k] ELSE m_tasks[k + 1]
<1>1. PICK i \in Eligible(t) : /\ task' = [task EXCEPT ![t] = m_tasks[i]]
                               /\ m_tasks' = RemoveAt(m_tasks, i)
  BY DEF FetchTask
<1>2. i \in 1..Len(m_tasks) /\ m_tasks \in Seq(Task)
  BY DEF Eligible, TypeOK
<1>3. m_tasks[i] \in Task
  BY <1>2, ElementOfSeq
<1>4. QED
  BY <1>1, <1>2, <1>3, RemoveAtFacts

-----------------------------------------------------------------------------
(* A step keeps the variables in their types: in particular the unsigned   *)
(* m_pendingEventCount is positive whenever it is decremented.             *)
LEMMA TypeStep == IInv /\ [Next]_vars => TypeOK'
<1> SUFFICES ASSUME IInv, [Next]_vars PROVE TypeOK'
  OBVIOUS
<1> USE PoolFacts DEF vars, dataVars, runVars, timerVars, eventVars, handVars,
        wakeVars, workVars
<1>0. TypeOK /\ CountOK /\ (\A t \in Threads : ThreadOK(t))
  BY DEF IInv
<1>n. NULL \notin Work /\ NULL \notin Task /\ MaxWork \in Nat
  BY IOManagerAssumption
<1>1. CASE UNCHANGED vars
  BY <1>0, <1>1 DEF TypeOK
<1>2. ASSUME NEW t \in Threads, ClientStep(t) PROVE TypeOK'
  <2>h. Home(t) \in PC \ {"tickle"}
    BY DEF Home, PC
  <2>w. ASSUME NewWork PROVE work + 1 \in Work /\ work' \in 0..MaxWork
    BY <1>0, <1>n, <2>w, SpareFacts DEF NewWork
  <2>1. ASSUME NEW thr \in Pins, Schedule(t, thr) PROVE TypeOK'
    <3>1. work + 1 \in Work /\ work' \in 0..MaxWork
      BY <2>w, <2>1 DEF Schedule
    <3>2. m_tasks' \in Seq(Task) /\ pc' \in [Threads -> PC] /\ ret' \in [Threads -> PC]
      BY <1>0, <2>h, <2>1, <3>1, Posted, Moved DEF Schedule
    <3>3. QED
      BY <1>0, <2>1, <3>1, <3>2 DEF Schedule, TypeOK
  <2>2. ASSUME NEW r \in Recurs, AddTimer(t, r) PROVE TypeOK'
    <3>1. pc' \in [Threads -> PC] /\ ret' \in [Threads -> PC]
      BY <1>0, <2>h, <2>2, Moved DEF AddTimer, TickleOrNot
    <3>2. CASE NewWork
      BY <1>0, <2>2, <2>w, <3>1, <3>2 DEF AddTimer, TypeOK, NewWork
    <3>3. CASE UNCHANGED <<m_timers, recurring, work>>
      BY <1>0, <2>2, <3>1, <3>3 DEF AddTimer, TypeOK
    <3>4. QED
      BY <2>2, <3>2, <3>3 DEF AddTimer
  <2>3. CASE AddEvent(t)
    <3>1. work + 1 \in Work /\ work' \in 0..MaxWork
      BY <2>w, <2>3 DEF AddEvent
    <3>2. QED
      BY <1>0, <2>3, <3>1 DEF AddEvent, TypeOK
  <2>4. ASSUME NEW n \in Work, CancelTimer(t, n) PROVE TypeOK'
    BY <1>0, <2>4 DEF CancelTimer, Drop, TypeOK
  <2>r. ASSUME NEW n \in Work, Refresh(t, n) PROVE TypeOK'
    BY <1>0, <2>r DEF Refresh, Drop, TypeOK
  <2>e. ASSUME NEW n \in Work, ResetErase(t, n) PROVE TypeOK'
    BY <1>0, <2>e DEF ResetErase, Goto, TypeOK, PC
  <2>5. ASSUME NEW n \in Work, Unregister(t, n)
        PROVE  m_pendingEventCount' \in Nat /\ events' \subseteq Work
               /\ ready' \subseteq events'
    <3>1. events # {} /\ Cardinality(events) # 0
      BY <1>0, <2>5, CountFacts, FS_EmptySet DEF Unregister
    <3>2. m_pendingEventCount > 0
      BY <1>0, <3>1, CountFacts DEF CountOK
    <3>3. QED
      BY <1>0, <2>5, <3>2 DEF Unregister, TypeOK
  <2>6. ASSUME NEW n \in Work, DelEvent(t, n) PROVE TypeOK'
    BY <1>0, <2>5, <2>6 DEF DelEvent, TypeOK
  <2>7. ASSUME NEW n \in Work, CancelEvent(t, n) PROVE TypeOK'
    <3>1. pc' \in [Threads -> PC] /\ ret' \in [Threads -> PC]
      BY <1>0, <2>7 DEF CancelEvent, Goto, TypeOK, PC
    <3>2. QED
      BY <1>0, <2>5, <2>7, <3>1 DEF CancelEvent, TypeOK
  <2>8. ASSUME NEW n \in Work, CancelAll(t, n) PROVE TypeOK'
    <3>1. m_tasks' \in Seq(Task) /\ pc' \in [Threads -> PC] /\ ret' \in [Threads -> PC]
      BY <1>0, <2>8, Posted, Moved DEF CancelAll, PC
    <3>2. QED
      BY <1>0, <2>8, <3>1 DEF CancelAll, TypeOK
  <2>9. QED
    BY <1>2, <2>1, <2>2, <2>3, <2>4, <2>r, <2>e, <2>6, <2>7, <2>8 DEF ClientStep
<1>3. ASSUME NEW t \in Threads, Tickle(t) PROVE TypeOK'
  <2>1. (pipe \/ HasIdleThreads) \in BOOLEAN
    BY Zenon
  <2>2. pc' \in [Threads -> PC] /\ ret' \in [Threads -> PC]
    BY <1>0, <1>3 DEF Tickle, Goto, TypeOK
  <2>3. QED
    BY <1>0, <1>3, <2>1, <2>2 DEF Tickle, TypeOK
<1>4. ASSUME NEW t \in Threads, CancelTrigger(t) PROVE TypeOK'
  <2>1. hand[t] \in Work /\ Home(t) \in PC \ {"tickle"}
    BY <1>0, <1>4 DEF CancelTrigger, At, ThreadOK, TypeOK, Home, PC
  <2>2. m_tasks' \in Seq(Task) /\ pc' \in [Threads -> PC] /\ ret' \in [Threads -> PC]
    BY <1>0, <1>4, <2>1, Posted, Moved DEF CancelTrigger
  <2>3. QED
    BY <1>0, <1>4, <2>2 DEF CancelTrigger, TypeOK
<1>r. ASSUME NEW t \in Threads, ResetInsert(t) PROVE TypeOK'
  <2>1. hand[t] \in Work /\ Home(t) \in PC \ {"tickle"}
    BY <1>0, <1>r DEF ResetInsert, At, ThreadOK, TypeOK, Home, PC
  <2>2. pc' \in [Threads -> PC] /\ ret' \in [Threads -> PC]
    BY <1>0, <1>r, <2>1, Moved DEF ResetInsert, TickleOrNot
  <2>3. QED
    BY <1>0, <1>r, <2>1, <2>2 DEF ResetInsert, TypeOK
<1>5. ASSUME NEW t \in Threads, FetchTask(t) PROVE TypeOK'
  <2>1. m_tasks' \in Seq(Task) /\ task' \in [Threads -> Task \cup {NULL}]
    BY <1>0, <1>5, Fetched DEF TypeOK
  <2>2. pc' \in [Threads -> PC] /\ ret' \in [Threads -> PC]
    BY <1>0, <1>5 DEF FetchTask, CallTickle, TypeOK, PC
  <2>3. QED
    BY <1>0, <1>5, <2>1, <2>2 DEF FetchTask, TypeOK
<1>6. ASSUME NEW t \in Threads, BodyEnd(t) PROVE TypeOK'
  <2>1. task[t] \in Task
    BY <1>0, <1>6 DEF BodyEnd, At, ThreadOK, Place, TypeOK
  <2>2. task[t].no \in Work
    BY <2>1 DEF Task
  <2>3. QED
    BY <1>0, <1>6, <2>2 DEF BodyEnd, Goto, TypeOK, PC
<1>7. ASSUME NEW t \in Threads,
             FetchNone(t) \/ IdleResume(t) \/ RunExit(t) \/ ReadTimers(t)
               \/ ReadPending(t) \/ EpollTimeout(t) \/ CbsEnd(t) \/ IdleYield(t)
      PROVE  TypeOK'
  BY <1>0, <1>7 DEF FetchNone, IdleResume, RunExit, ReadTimers, ReadPending,
     EpollTimeout, CbsEnd, IdleYield, Goto, CallTickle, TypeOK, PC, IdlePC
<1>8. ASSUME NEW t \in Threads, ReadScheduler(t) PROVE TypeOK'
  <2>1. t \in Pool
    BY <1>8, InPool DEF ReadScheduler, At, Place, IdlePC
  <2>2. QED
    BY <1>0, <1>8, <2>1 DEF ReadScheduler, Goto, TypeOK, PC, IdlePC
<1>9. ASSUME NEW t \in Threads, EpollWait(t) PROVE TypeOK'
  <2>1. t \in Pool
    BY <1>9, InPool DEF EpollWait, At, Place, IdlePC
  <2>2. pipe' \in BOOLEAN
    BY <1>9, Zenon DEF EpollWait
  <2>3. QED
    BY <1>0, <1>9, <2>1, <2>2 DEF EpollWait, Goto, TypeOK, PC, IdlePC
<1>10. ASSUME NEW t \in Threads, ListExpiredCb(t) PROVE TypeOK'
  <2>1. PICK k \in 0..Cardinality(due \cap recurring) :
          /\ work + k <= MaxWork /\ work' = work + k
          /\ m_timers' = (m_timers \ due) \cup ((work + 1)..(work + k))
          /\ recurring' = (recurring \ due) \cup ((work + 1)..(work + k))
    BY <1>10 DEF ListExpiredCb
  <2>2. k \in Nat /\ work \in Nat
    BY <1>0, SpareFacts
  <2>3. work' \in 0..MaxWork /\ (work + 1)..(work + k) \subseteq Work
    BY <1>n, <2>1, <2>2 DEF Work
  <2>4. pc' \in [Threads -> PC] /\ ret' \in [Threads -> PC]
    BY <1>0, <1>10 DEF ListExpiredCb, Goto, TypeOK, PC, IdlePC
  <2>5. cbs' \in [Threads -> SUBSET Work] /\ due' = {}
    BY <1>0, <1>10 DEF ListExpiredCb, TypeOK
  <2>6. QED
    BY <1>0, <1>10, <2>1, <2>3, <2>4, <2>5 DEF ListExpiredCb, TypeOK
<1>11. ASSUME NEW t \in Threads, DrainPipe(t) PROVE TypeOK'
  BY <1>0, <1>11 DEF DrainPipe, TypeOK
<1>12. ASSUME NEW t \in Threads, NEW n \in Work, PostCb(t, n) PROVE TypeOK'
  <2>1. m_tasks' \in Seq(Task) /\ pc' \in [Threads -> PC] /\ ret' \in [Threads -> PC]
    BY <1>0, <1>12, Posted, Moved DEF PostCb, PC, IdlePC
  <2>2. QED
    BY <1>0, <1>12, <2>1 DEF PostCb, TypeOK
<1>13. ASSUME NEW t \in Threads, NEW n \in Work, TriggerEvent(t, n) PROVE TypeOK'
  <2>1. m_tasks' \in Seq(Task) /\ pc' \in [Threads -> PC] /\ ret' \in [Threads -> PC]
    BY <1>0, <1>13, Posted, Moved DEF TriggerEvent, PC, IdlePC
  <2>2. QED
    BY <1>0, <1>13, <2>1 DEF TriggerEvent, TypeOK
<1>14. ASSUME NEW t \in Threads, NEW n \in Work, SkipEvent(t, n) PROVE TypeOK'
  BY <1>0, <1>14 DEF SkipEvent, TypeOK
<1>15. ASSUME NEW t \in Threads, CountEvent(t) \/ CountOff(t) PROVE TypeOK'
  <2>1. t \in Counting /\ Home(t) \in PC
    BY <1>15 DEF CountEvent, CountOff, At, Place, Counting, Home, PC
  <2>2. Cardinality(Counting) # 0
    BY <1>0, <2>1, CountFacts, FS_EmptySet
  <2>3. m_pendingEventCount > 0
    BY <1>0, <2>2, CountFacts DEF CountOK
  <2>4. QED
    BY <1>0, <1>15, <2>1, <2>3 DEF CountEvent, CountOff, Goto, TypeOK, PC, IdlePC
<1>16. CASE StopStep
  <2>1. CASE Stop
    BY <1>0, <2>1 DEF Stop, Goto, TypeOK, PC
  <2>2. CASE StopTickle
    <3>1. (pipe \/ HasIdleThreads) \in BOOLEAN
      BY Zenon
    <3>2. tickles' \in 0..(Cardinality(Workers) + 1)
      BY <1>0, <2>2, IOManagerAssumption, FS_CardinalityType DEF StopTickle, TypeOK
    <3>3. QED
      BY <1>0, <2>2, <3>1, <3>2 DEF StopTickle, TypeOK
  <2>3. CASE StopRun \/ StopJoin
    BY <1>0, <2>3 DEF StopRun, StopJoin, Goto, TypeOK, PC
  <2>4. QED
    BY <1>16, <2>1, <2>2, <2>3 DEF StopStep
<1>17. CASE EnvStep
  BY <1>0, <1>17 DEF EnvStep, TimerDue, EventReady, TypeOK
<1>18. QED
  BY <1>1, <1>2, <1>3, <1>4, <1>r, <1>5, <1>6, <1>7, <1>8, <1>9, <1>10, <1>11, <1>12,
     <1>13, <1>14, <1>15, <1>16, <1>17 DEF Next, ThreadStep

-----------------------------------------------------------------------------
(* Where a thread is goes on saying what it has in hand, and what the      *)
(* caller is: a client before stop(), then a thread of the pool or none.   *)
LEMMA PlacesStep ==
  IInv /\ [Next]_vars => (\A u \in Threads : ThreadOK(u)') /\ CallerOK'
<1> SUFFICES ASSUME IInv, [Next]_vars
             PROVE  (\A u \in Threads : ThreadOK(u)') /\ CallerOK'
  OBVIOUS
<1> USE PoolFacts DEF vars, dataVars, runVars, timerVars, eventVars, handVars,
        wakeVars, workVars
<1> DEFINE Kept == (\A u \in Threads : ThreadOK(u)') /\ CallerOK'
<1>0. TypeOK /\ CallerOK /\ (\A u \in Threads : ThreadOK(u))
  BY DEF IInv
<1>n. NULL \notin Work /\ NULL \notin Task
  BY IOManagerAssumption
<1>t. /\ pc \in [Threads -> PC] /\ ret \in [Threads -> PC]
      /\ task \in [Threads -> Task \cup {NULL}]
      /\ hand \in [Threads -> Work \cup {NULL}]
      /\ cbs \in [Threads -> SUBSET Work]
  BY <1>0 DEF TypeOK
<1>1. CASE UNCHANGED <<pc, ret, task, hand, cbs, m_stopping>>
  BY <1>0, <1>1 DEF ThreadOK, CallerOK, Place, CallPC
<1>2. ASSUME NEW t \in Threads, Client(t),
             Goto(t, Home(t)) \/ CallTickle(t, Home(t)),
             UNCHANGED <<task, hand, cbs, m_stopping>>
      PROVE  Kept
  BY <1>0, <1>2, <1>t DEF ThreadOK, CallerOK, Place, Client, Home, Goto, CallTickle,
     CallPC
<1>3. ASSUME NEW t \in Threads, ClientStep(t) PROVE Kept
  <2>1. ASSUME NEW thr \in Pins, Schedule(t, thr) PROVE Kept
    BY <1>2, <2>1 DEF Schedule, Post
  <2>2. ASSUME NEW r \in Recurs, AddTimer(t, r) PROVE Kept
    BY <1>2, <2>2 DEF AddTimer, TickleOrNot
  <2>3. CASE AddEvent(t)
    BY <1>1, <2>3 DEF AddEvent
  <2>4. ASSUME NEW n \in Work, CancelTimer(t, n) \/ Refresh(t, n) \/ DelEvent(t, n)
        PROVE  Kept
    BY <1>1, <2>4 DEF CancelTimer, Refresh, DelEvent
  <2>5. ASSUME NEW n \in Work, CancelEvent(t, n) \/ ResetErase(t, n) PROVE Kept
    <3>1. /\ Client(t) /\ hand' = [hand EXCEPT ![t] = n] /\ n # NULL
          /\ Goto(t, "cancel") \/ Goto(t, "reset")
          /\ UNCHANGED <<task, cbs, m_stopping>>
      BY <1>n, <2>5 DEF CancelEvent, ResetErase, Unregister
    <3>2. QED
      BY <1>0, <1>t, <3>1 DEF Client, Goto, ThreadOK, CallerOK, Place, CallPC
  <2>6. ASSUME NEW n \in Work, CancelAll(t, n) PROVE Kept
    <3>1. /\ Client(t)
          /\ Goto(t, "off") \/ CallTickle(t, "off")
          /\ UNCHANGED <<task, hand, cbs, m_stopping>>
      BY <2>6 DEF CancelAll, Post
    <3>2. CASE Goto(t, "off")
      BY <1>0, <1>t, <3>1, <3>2 DEF Client, Goto, ThreadOK, CallerOK, Place, CallPC
    <3>3. CASE CallTickle(t, "off")
      BY <1>0, <1>t, <3>1, <3>3 DEF Client, CallTickle, ThreadOK, CallerOK, Place, CallPC
    <3>4. QED
      BY <3>1, <3>2, <3>3
  <2>7. QED
    BY <1>3, <2>1, <2>2, <2>3, <2>4, <2>5, <2>6 DEF ClientStep
<1>4. ASSUME NEW t \in Threads, Tickle(t) PROVE Kept
  BY <1>0, <1>t, <1>4 DEF Tickle, At, Goto, ThreadOK, CallerOK, Place, CallPC
<1>5. ASSUME NEW t \in Threads, CancelTrigger(t) \/ ResetInsert(t) PROVE Kept
  <2>1. /\ pc[t] \in {"cancel", "reset"} /\ hand' = [hand EXCEPT ![t] = NULL]
        /\ Goto(t, Home(t)) \/ CallTickle(t, Home(t))
        /\ UNCHANGED <<task, cbs, m_stopping>>
    BY <1>5 DEF CancelTrigger, ResetInsert, At, Post, TickleOrNot
  <2>2. QED
    BY <1>0, <1>t, <2>1 DEF Home, Goto, CallTickle, ThreadOK, CallerOK, Place, CallPC
<1>c. ASSUME NEW t \in Threads, CountOff(t) PROVE Kept
  BY <1>0, <1>t, <1>c DEF CountOff, At, Home, Goto, ThreadOK, CallerOK, Place, CallPC
<1>6. ASSUME NEW t \in Threads, FetchTask(t) PROVE Kept
  <2>1. PICK d \in Task : task' = [task EXCEPT ![t] = d]
    BY <1>0, <1>6, Fetched
  <2>2. QED
    BY <1>0, <1>t, <1>n, <1>6, <2>1 DEF FetchTask, At, CallTickle, ThreadOK,
       CallerOK, Place, CallPC
<1>7. ASSUME NEW t \in Threads, BodyEnd(t) PROVE Kept
  BY <1>0, <1>t, <1>7 DEF BodyEnd, At, Goto, ThreadOK, CallerOK, Place, CallPC
<1>8. ASSUME NEW t \in Threads,
             FetchNone(t) \/ IdleResume(t) \/ RunExit(t)
      PROVE  Kept
  BY <1>0, <1>t, <1>8 DEF FetchNone, IdleResume, RunExit, At, Goto, CallTickle,
     ThreadOK, CallerOK, Place, CallPC
<1>9. ASSUME NEW t \in Threads,
             ReadTimers(t) \/ ReadPending(t) \/ ReadScheduler(t)
               \/ EpollWait(t) \/ EpollTimeout(t)
      PROVE  Kept
  BY <1>0, <1>t, <1>9 DEF ReadTimers, ReadPending, ReadScheduler, EpollWait,
     EpollTimeout, At, Goto, ThreadOK, CallerOK, Place, CallPC
<1>10. ASSUME NEW t \in Threads, ListExpiredCb(t) \/ CbsEnd(t) \/ DrainPipe(t)
       PROVE  Kept
  BY <1>0, <1>t, <1>10 DEF ListExpiredCb, CbsEnd, DrainPipe, At, Goto, ThreadOK,
     CallerOK, Place, CallPC
<1>11. ASSUME NEW t \in Threads, NEW n \in Work, PostCb(t, n) PROVE Kept
  BY <1>0, <1>t, <1>11 DEF PostCb, Post, At, Goto, CallTickle, ThreadOK,
     CallerOK, Place, CallPC
<1>12. ASSUME NEW t \in Threads, NEW n \in Work,
              TriggerEvent(t, n) \/ SkipEvent(t, n)
       PROVE  Kept
  BY <1>0, <1>t, <1>12 DEF TriggerEvent, SkipEvent, Post, At, Goto, CallTickle,
     ThreadOK, CallerOK, Place, CallPC
<1>13. ASSUME NEW t \in Threads, CountEvent(t) \/ IdleYield(t) PROVE Kept
  BY <1>0, <1>t, <1>13 DEF CountEvent, IdleYield, At, Goto, ThreadOK, CallerOK, Place, CallPC
<1>14. CASE StopStep
  BY <1>0, <1>t, <1>14 DEF StopStep, Stop, StopTickle, StopRun, StopJoin, At,
     Goto, ThreadOK, CallerOK, Place, CallPC
<1>15. CASE EnvStep
  BY <1>1, <1>15 DEF EnvStep, TimerDue, EventReady
<1>16. QED
  BY <1>1, <1>3, <1>4, <1>5, <1>c, <1>6, <1>7, <1>8, <1>9, <1>10, <1>11, <1>12,
     <1>13, <1>14, <1>15 DEF Next, ThreadStep

-----------------------------------------------------------------------------
(* The places between a post and the decrement of the counter.             *)
CountPC == {"count", "off"}

(* The counter follows the registrations: a step that neither registers    *)
(* nor enters or leaves these places leaves both sets as they are.         *)
LEMMA CountKept ==
  ASSUME IInv, UNCHANGED <<events, m_pendingEventCount>>, work' \in Nat, work <= work',
         \A u \in Threads : Place(u)' \in CountPC <=> Place(u) \in CountPC
  PROVE  CountOK'
<1>1. Counting' = Counting
  BY DEF Counting, CountPC
<1>2. events' \subseteq 1..work'
  BY DEF IInv, TypeOK, CountOK
<1>3. QED
  BY <1>1, <1>2 DEF IInv, CountOK

(* A step of a thread from one place to another, neither of them such one. *)
LEMMA CountKeptMove ==
  ASSUME IInv, UNCHANGED <<events, m_pendingEventCount>>, work' \in Nat, work <= work',
         NEW t \in Threads, NEW l \in PC \ ({"tickle"} \cup CountPC),
         Place(t) \notin CountPC, Goto(t, l) \/ CallTickle(t, l)
  PROVE  CountOK'
<1>1. TypeOK /\ CountOK
  BY DEF IInv
<1>2. \A u \in Threads : Place(u)' \in CountPC <=> Place(u) \in CountPC
  BY <1>1, Moved
<1>3. QED
  BY <1>1, <1>2, CountKept

(* A callback is posted, the decrement is still to come.                   *)
LEMMA CountPosted ==
  ASSUME IInv, NEW t \in Threads, NEW l \in CountPC, NEW n \in events,
         Place(t) \notin CountPC, Goto(t, l) \/ CallTickle(t, l),
         events' = events \ {n}, UNCHANGED <<m_pendingEventCount, work>>
  PROVE  CountOK'
<1>0. TypeOK /\ CountOK
  BY DEF IInv
<1>1. l \in PC \ {"tickle"}
  BY DEF CountPC, PC, IdlePC
<1>2. Counting' = Counting \cup {t} /\ t \notin Counting
  BY <1>0, <1>1, Moved DEF Counting, CountPC
<1>3. Cardinality(Counting') = Cardinality(Counting) + 1
  BY <1>0, <1>2, CountFacts, FS_AddElement
<1>4. Cardinality(events') = Cardinality(events) - 1
  BY <1>0, CountFacts, FS_RemoveElement
<1>5. events' \subseteq 1..work'
  BY <1>0 DEF CountOK
<1>6. m_pendingEventCount = Cardinality(events) + Cardinality(Counting)
  BY <1>0 DEF CountOK
<1>7. m_pendingEventCount' = Cardinality(events') + Cardinality(Counting')
  BY <1>0, <1>3, <1>4, <1>6, CountFacts
<1>8. QED
  BY <1>5, <1>7 DEF CountOK

(* The decrement.                                                          *)
LEMMA CountedOff ==
  ASSUME IInv, NEW t \in Threads, NEW l \in PC \ ({"tickle"} \cup CountPC),
         Place(t) \in CountPC, Goto(t, l),
         m_pendingEventCount' = m_pendingEventCount - 1, UNCHANGED <<events, work>>
  PROVE  CountOK'
<1>0. TypeOK /\ CountOK
  BY DEF IInv
<1>1. Counting' = Counting \ {t} /\ t \in Counting
  BY <1>0, Moved DEF Counting, CountPC
<1>2. Cardinality(Counting') = Cardinality(Counting) - 1
  BY <1>0, <1>1, CountFacts, FS_RemoveElement
<1>3. QED
  BY <1>0, <1>2, CountFacts DEF CountOK

(* The counter is exact up to the threads on their way to decrement it.    *)
LEMMA CountStep == IInv /\ [Next]_vars => CountOK'
<1> SUFFICES ASSUME IInv, [Next]_vars PROVE CountOK'
  OBVIOUS
<1> USE DEF vars, dataVars, runVars, timerVars, eventVars, handVars, wakeVars,
        workVars
<1>0. TypeOK /\ CountOK /\ (\A t \in Threads : ThreadOK(t))
  BY DEF IInv
<1>w. work \in Nat
  BY <1>0 DEF TypeOK
<1>1. CASE UNCHANGED <<pc, ret, events, m_pendingEventCount, work>>
  BY <1>w, <1>1, CountKept DEF Place
<1>2. ASSUME NEW t \in Threads, NEW n \in Work, Unregister(t, n),
             \A u \in Threads : Place(u)' \in CountPC <=> Place(u) \in CountPC,
             UNCHANGED work
      PROVE  CountOK'
  <2>1. Counting' = Counting
    BY <1>2 DEF Counting, CountPC
  <2>2. Cardinality(events') = Cardinality(events) - 1
    BY <1>0, <1>2, CountFacts, FS_RemoveElement DEF Unregister
  <2>3. m_pendingEventCount' = m_pendingEventCount - 1 /\ events' \subseteq 1..work'
    BY <1>0, <1>2 DEF CountOK, Unregister
  <2>4. m_pendingEventCount = Cardinality(events) + Cardinality(Counting)
    BY <1>0 DEF CountOK
  <2>5. m_pendingEventCount' = Cardinality(events') + Cardinality(Counting')
    BY <1>0, <2>1, <2>2, <2>3, <2>4, CountFacts
  <2>6. QED
    BY <2>3, <2>5 DEF CountOK
<1>3. ASSUME NEW t \in Threads, ClientStep(t) PROVE CountOK'
  <2>h. Home(t) \in PC \ ({"tickle"} \cup CountPC)
    BY DEF Home, PC, CountPC
  <2>c. Client(t) => Place(t) \notin CountPC
    BY DEF Client, Place, CountPC
  <2>n. NewWork => work' \in Nat /\ work <= work'
    BY <1>w DEF NewWork
  <2>1. ASSUME NEW thr \in Pins, Schedule(t, thr) PROVE CountOK'
    BY <2>h, <2>c, <2>n, <2>1, CountKeptMove DEF Schedule, Post
  <2>2. ASSUME NEW r \in Recurs, AddTimer(t, r) PROVE CountOK'
    <3>1. work' \in Nat /\ work <= work'
      BY <1>w, <2>n, <2>2 DEF AddTimer
    <3>2. QED
      BY <2>h, <2>c, <2>2, <3>1, CountKeptMove DEF AddTimer, TickleOrNot
  <2>3. CASE AddEvent(t)
    <3>1. Counting' = Counting
      BY <2>3 DEF AddEvent, Counting, Place
    <3>2. work \in Nat /\ work' = work + 1 /\ events \subseteq 1..work
      BY <1>0, <2>3 DEF AddEvent, NewWork, TypeOK, CountOK
    <3>3. work + 1 \notin events /\ events' \subseteq 1..work'
      BY <2>3, <3>2 DEF AddEvent
    <3>4. Cardinality(events') = Cardinality(events) + 1
      BY <1>0, <2>3, <3>3, CountFacts, FS_AddElement DEF AddEvent
    <3>5. QED
      BY <1>0, <2>3, <3>1, <3>3, <3>4, CountFacts DEF CountOK, AddEvent
  <2>4. ASSUME NEW n \in Work, CancelTimer(t, n) \/ Refresh(t, n) PROVE CountOK'
    BY <1>1, <2>4 DEF CancelTimer, Refresh
  <2>e. ASSUME NEW n \in Work, ResetErase(t, n) PROVE CountOK'
    <3>1. "reset" \in PC \ ({"tickle"} \cup CountPC)
      BY DEF PC, CountPC
    <3>2. QED
      BY <1>w, <2>c, <2>e, <3>1, CountKeptMove DEF ResetErase
  <2>5. ASSUME NEW n \in Work, DelEvent(t, n) PROVE CountOK'
    BY <1>2, <2>5 DEF DelEvent, Place
  <2>6. ASSUME NEW n \in Work, CancelEvent(t, n) PROVE CountOK'
    <3>1. "cancel" \in PC \ ({"tickle"} \cup CountPC) /\ Place(t) \notin CountPC
      BY <2>c, <2>6 DEF PC, CancelEvent, Unregister, CountPC
    <3>2. \A u \in Threads : Place(u)' \in CountPC <=> Place(u) \in CountPC
      BY <1>0, <2>6, <3>1, Moved DEF CancelEvent
    <3>3. QED
      BY <1>2, <2>6, <3>2 DEF CancelEvent
  <2>7. ASSUME NEW n \in Work, CancelAll(t, n) PROVE CountOK'
    BY <2>c, <2>7, CountPosted DEF CancelAll, Post, CountPC
  <2>8. QED
    BY <1>3, <2>1, <2>2, <2>3, <2>4, <2>e, <2>5, <2>6, <2>7 DEF ClientStep
<1>4. ASSUME NEW t \in Threads, Tickle(t) PROVE CountOK'
  <2>1. ret[t] \in {"main", "body", "off", "idle?", "cbs", "count"} /\ Place(t) = ret[t]
    BY <1>0, <1>4 DEF Tickle, At, ThreadOK, Place
  <2>2. ret[t] \in PC \ {"tickle"}
    BY <2>1 DEF PC, IdlePC
  <2>3. \A u \in Threads : Place(u)' = Place(u)
    BY <1>0, <1>4, <2>1, <2>2, Moved DEF Tickle
  <2>4. QED
    BY <1>w, <1>4, <2>3, CountKept DEF Tickle
<1>5. ASSUME NEW t \in Threads, CancelTrigger(t) \/ ResetInsert(t) PROVE CountOK'
  <2>1. Home(t) \in PC \ ({"tickle"} \cup CountPC) /\ Place(t) \notin CountPC
    BY <1>5 DEF CancelTrigger, ResetInsert, At, Place, Home, PC, CountPC
  <2>2. QED
    BY <1>w, <1>5, <2>1, CountKeptMove DEF CancelTrigger, ResetInsert, Post, TickleOrNot
<1>6. ASSUME NEW t \in Threads, FetchTask(t) \/ BodyEnd(t) PROVE CountOK'
  <2>1. {"body", "fetch"} \subseteq PC \ ({"tickle"} \cup CountPC) /\ Place(t) \notin CountPC
    BY <1>6 DEF FetchTask, BodyEnd, At, Place, PC, CountPC
  <2>2. QED
    BY <1>w, <1>6, <2>1, CountKeptMove DEF FetchTask, BodyEnd
<1>7. ASSUME NEW t \in Threads, FetchNone(t) \/ IdleResume(t) \/ RunExit(t)
      PROVE  CountOK'
  <2>1. {"idle?", "timers", "join", "exit"} \subseteq PC \ ({"tickle"} \cup CountPC)
        /\ Place(t) \notin CountPC
    BY <1>7 DEF FetchNone, IdleResume, RunExit, At, Place, PC, IdlePC, CountPC
  <2>2. QED
    BY <1>w, <1>7, <2>1, CountKeptMove DEF FetchNone, IdleResume, RunExit
<1>8. ASSUME NEW t \in Threads,
             ReadTimers(t) \/ ReadPending(t) \/ ReadScheduler(t)
               \/ EpollWait(t) \/ EpollTimeout(t)
      PROVE  CountOK'
  <2>1. {"pending", "sched", "fetch", "wait", "list"}
          \subseteq PC \ ({"tickle"} \cup CountPC)
        /\ Place(t) \notin CountPC
    BY <1>8 DEF ReadTimers, ReadPending, ReadScheduler, EpollWait, EpollTimeout,
       At, Place, PC, IdlePC, CountPC
  <2>2. QED
    BY <1>w, <1>8, <2>1, CountKeptMove DEF ReadTimers, ReadPending, ReadScheduler,
       EpollWait, EpollTimeout
<1>l. ASSUME NEW t \in Threads, ListExpiredCb(t) PROVE CountOK'
  <2>1. "cbs" \in PC \ ({"tickle"} \cup CountPC) /\ Place(t) \notin CountPC
    BY <1>l DEF ListExpiredCb, At, Place, PC, IdlePC, CountPC
  <2>2. work' \in Nat /\ work <= work'
    BY <1>0, <1>l, SpareFacts DEF ListExpiredCb
  <2>3. QED
    BY <1>l, <2>1, <2>2, CountKeptMove DEF ListExpiredCb
<1>9. ASSUME NEW t \in Threads, CbsEnd(t) \/ IdleYield(t)
      PROVE  CountOK'
  <2>1. {"events", "fetch"} \subseteq PC \ ({"tickle"} \cup CountPC)
        /\ Place(t) \notin CountPC
    BY <1>9 DEF CbsEnd, IdleYield, At, Place, PC, IdlePC, CountPC
  <2>2. QED
    BY <1>w, <1>9, <2>1, CountKeptMove DEF CbsEnd, IdleYield
<1>d. ASSUME NEW t \in Threads, DrainPipe(t) PROVE CountOK'
  BY <1>1, <1>d DEF DrainPipe
<1>10. ASSUME NEW t \in Threads, NEW n \in Work, SkipEvent(t, n) PROVE CountOK'
  BY <1>1, <1>10 DEF SkipEvent
<1>11. ASSUME NEW t \in Threads, NEW n \in Work, PostCb(t, n) PROVE CountOK'
  <2>1. "cbs" \in PC \ ({"tickle"} \cup CountPC) /\ Place(t) \notin CountPC
    BY <1>11 DEF PostCb, At, Place, PC, IdlePC, CountPC
  <2>2. QED
    BY <1>w, <1>11, <2>1, CountKeptMove DEF PostCb, Post
<1>12. ASSUME NEW t \in Threads, NEW n \in Work, TriggerEvent(t, n)
       PROVE  CountOK'
  <2>1. Place(t) \notin CountPC
    BY <1>12 DEF TriggerEvent, At, Place, CountPC
  <2>2. QED
    BY <1>12, <2>1, CountPosted DEF TriggerEvent, Post, CountPC
<1>13. ASSUME NEW t \in Threads, CountEvent(t) \/ CountOff(t) PROVE CountOK'
  <2>1. /\ "events" \in PC \ ({"tickle"} \cup CountPC)
        /\ Home(t) \in PC \ ({"tickle"} \cup CountPC) /\ Place(t) \in CountPC
    BY <1>13 DEF CountEvent, CountOff, At, Place, Home, PC, IdlePC, CountPC
  <2>2. QED
    BY <1>13, <2>1, CountedOff DEF CountEvent, CountOff
<1>14. CASE StopStep
  <2>1. CASE Stop \/ StopRun \/ StopJoin
    <3>1. {"stop", "fetch", "join", "stopped"} \subseteq PC \ ({"tickle"} \cup CountPC)
          /\ Place(Caller) \notin CountPC /\ Caller \in Threads
      BY <2>1, PoolFacts DEF Stop, StopRun, StopJoin, At, Place, PC, CountPC
    <3>2. QED
      BY <1>w, <2>1, <3>1, CountKeptMove DEF Stop, StopRun, StopJoin
  <2>2. CASE StopTickle
    BY <1>1, <2>2 DEF StopTickle
  <2>3. QED
    BY <1>14, <2>1, <2>2 DEF StopStep
<1>15. CASE EnvStep
  BY <1>1, <1>15 DEF EnvStep, TimerDue, EventReady
<1>16. QED
  BY <1>1, <1>3, <1>4, <1>5, <1>6, <1>7, <1>8, <1>l, <1>9, <1>d, <1>10, <1>11,
     <1>12, <1>13, <1>14, <1>15 DEF Next, ThreadStep

-----------------------------------------------------------------------------
(* The initial states satisfy the invariant.                               *)
LEMMA InitIInv == Init => IInv
<1> SUFFICES ASSUME Init PROVE IInv
  OBVIOUS
<1> USE IOManagerAssumption, PoolFacts
<1>1. TypeOK
  <2>1. pc \in [Threads -> PC] /\ ret \in [Threads -> PC]
    BY DEF Init, PC
  <2>2. m_tasks \in Seq(Task)
    BY DEF Init
  <2>b. m_stopping \in BOOLEAN /\ pipe \in BOOLEAN
    BY Zenon DEF Init
  <2>3. tickles \in 0..(Cardinality(Workers) + 1) /\ work \in 0..MaxWork
    BY FS_CardinalityType DEF Init
  <2>4. QED
    BY <2>1, <2>2, <2>b, <2>3 DEF Init, TypeOK
<1>2. (\A t \in Threads : ThreadOK(t)) /\ CallerOK
  BY DEF Init, ThreadOK, CallerOK, Place, CallPC
<1>3. CountOK
  <2>1. Counting = {}
    BY DEF Init, Counting, Place
  <2>2. QED
    BY <2>1, FS_EmptySet DEF Init, CountOK
<1>4. QED
  BY <1>1, <1>2, <1>3 DEF IInv

(* What a thread has in hand follows from where it is, and the counter of  *)
(* pending events is exact up to the threads of idle() that have posted a  *)
(* callback and not counted it off yet: in every reachable state, whatever *)
(* use_caller is and whatever bodies do after stop().                      *)
THEOREM Invariance == Spec => []IInv
<1>1. IInv /\ [Next]_vars => IInv'
  BY TypeStep, PlacesStep, CountStep DEF IInv
<1>2. QED
  BY InitIInv, <1>1, PTL DEF Spec

(* IOManager's variables keep their types; the unsigned counter of pending *)
(* events, decremented by idle(), delEvent() and cancelEvent(), does not   *)
(* wrap around.                                                            *)
THEOREM TypeCorrect == Spec => []TypeOK
<1>1. IInv => TypeOK
  BY DEF IInv
<1>2. QED
  BY Invariance, <1>1, PTL

-----------------------------------------------------------------------------
(* What the boxes hold, before and after a step.                           *)
LEMMA BoxFacts ==
  /\ Box(<<"list", NULL>>) = Listed /\ Box(<<"list", NULL>>)' = Listed'
  /\ Box(<<"timers", NULL>>) = m_timers /\ Box(<<"timers", NULL>>)' = m_timers'
  /\ Box(<<"events", NULL>>) = events /\ Box(<<"events", NULL>>)' = events'
  /\ Box(<<"done", NULL>>) = done /\ Box(<<"done", NULL>>)' = done'
BY DEF Box

(* What the boxes of a thread hold.                                        *)
LEMMA ThreadBoxFacts ==
  ASSUME NEW t \in Threads
  PROVE  /\ Box(<<"cbs", t>>) = cbs[t] /\ Box(<<"cbs", t>>)' = cbs'[t]
         /\ Box(<<"hand", t>>) = {hand[t]} \ {NULL}
         /\ Box(<<"hand", t>>)' = {hand'[t]} \ {NULL}
         /\ Box(<<"task", t>>) = IF task[t] = NULL THEN {} ELSE {task[t].no}
         /\ Box(<<"task", t>>)' = IF task'[t] = NULL THEN {} ELSE {task'[t].no}
BY DEF Box

(* Every box is one of those.                                              *)
LEMMA BoxCases ==
  /\ {<<"list", NULL>>, <<"timers", NULL>>, <<"events", NULL>>, <<"done", NULL>>}
       \subseteq Boxes
  /\ \A t \in Threads :
       {<<"cbs", t>>, <<"hand", t>>, <<"task", t>>} \subseteq Boxes
  /\ \A b \in Boxes :
       \/ b \in {<<"list", NULL>>, <<"timers", NULL>>, <<"events", NULL>>,
                 <<"done", NULL>>}
       \/ \E t \in Threads : b \in {<<"cbs", t>>, <<"hand", t>>, <<"task", t>>}
BY DEF Boxes

(* A step that moves the work of S from box a to box b.                    *)
Shift(a, b, S) ==
  /\ S \subseteq Box(a) /\ a # b
  /\ Box(a)' = Box(a) \ S /\ Box(b)' = Box(b) \cup S
  /\ \A c \in Boxes \ {a, b} : Box(c)' = Box(c)
  /\ work' = work

(* A step that creates a piece of work in box b.                           *)
Arrival(b) ==
  /\ Box(b)' = Box(b) \cup {work + 1}
  /\ \A c \in Boxes \ {b} : Box(c)' = Box(c)
  /\ work' = work + 1

(* A step that moves the work of S from box a to box b and creates k pieces*)
(* of work in box a.                                                       *)
Again(k) == (work + 1)..(work + k)
Renewal(a, b, S, k) ==
  /\ S \subseteq Box(a) /\ a # b
  /\ Box(a)' = (Box(a) \ S) \cup Again(k) /\ Box(b)' = Box(b) \cup S
  /\ \A c \in Boxes \ {a, b} : Box(c)' = Box(c)
  /\ work' = work + k

(* Moving work from one box to another keeps it in one box.                *)
LEMMA ShiftKeeps ==
  ASSUME OneBox, NEW a \in Boxes, NEW b \in Boxes, NEW S, Shift(a, b, S)
  PROVE  OneBox'
<1>0. /\ \A c, d \in Boxes : c # d => Box(c) \cap Box(d) = {}
      /\ \A c \in Boxes : Box(c) \subseteq 1..work
      /\ \A n \in 1..work : \E c \in Boxes : n \in Box(c)
  BY DEF OneBox
<1>1. \A c \in Boxes \ {b} : Box(c)' \subseteq Box(c)
  BY DEF Shift
<1>2. ASSUME NEW c \in Boxes \ {b} PROVE Box(c)' \cap Box(b)' = {}
  <2>1. CASE c = a
    BY <1>0, <2>1 DEF Shift
  <2>2. CASE c # a
    BY <1>0, <2>2 DEF Shift
  <2>3. QED
    BY <2>1, <2>2
<1>3. ASSUME NEW c \in Boxes \ {b}, NEW d \in Boxes \ {b}, c # d
      PROVE  Box(c)' \cap Box(d)' = {}
  BY <1>0, <1>1, <1>3
<1>4. \A c \in Boxes : Box(c)' \subseteq 1..work'
  BY <1>0 DEF Shift
<1>5. ASSUME NEW n \in 1..work' PROVE \E c \in Boxes : n \in Box(c)'
  <2>1. PICK c \in Boxes : n \in Box(c)
    BY <1>0 DEF Shift
  <2>2. QED
    BY <2>1 DEF Shift
<1>6. ASSUME NEW c \in Boxes, NEW d \in Boxes, c # d
      PROVE  Box(c)' \cap Box(d)' = {}
  BY <1>2, <1>3, <1>6
<1>7. QED
  BY <1>4, <1>5, <1>6 DEF OneBox

(* A new piece of work is in one box.                                      *)
LEMMA ArrivalKeeps ==
  ASSUME OneBox, NEW b \in Boxes, work \in Nat, Arrival(b)
  PROVE  OneBox'
<1>0. /\ \A c, d \in Boxes : c # d => Box(c) \cap Box(d) = {}
      /\ \A c \in Boxes : Box(c) \subseteq 1..work
      /\ \A n \in 1..work : \E c \in Boxes : n \in Box(c)
  BY DEF OneBox
<1>1. work' = work + 1 /\ \A c \in Boxes : work + 1 \notin Box(c)
  BY <1>0 DEF Arrival
<1>2. ASSUME NEW c \in Boxes, NEW d \in Boxes, c # d
      PROVE  Box(c)' \cap Box(d)' = {}
  BY <1>0, <1>1, <1>2 DEF Arrival
<1>3. \A c \in Boxes : Box(c)' \subseteq 1..work'
  BY <1>0, <1>1 DEF Arrival
<1>4. ASSUME NEW n \in 1..work' PROVE \E c \in Boxes : n \in Box(c)'
  <2>1. CASE n = work + 1
    BY <2>1 DEF Arrival
  <2>2. CASE n # work + 1
    <3>1. n \in 1..work
      BY <1>1, <2>2
    <3>2. PICK c \in Boxes : n \in Box(c)
      BY <1>0, <3>1
    <3>3. QED
      BY <3>2 DEF Arrival
  <2>3. QED
    BY <2>1, <2>2
<1>5. QED
  BY <1>2, <1>3, <1>4 DEF OneBox

(* Both at once keep every piece of work in one box.                       *)
LEMMA RenewalKeeps ==
  ASSUME OneBox, NEW a \in Boxes, NEW b \in Boxes, NEW S, work \in Nat,
         NEW k \in Nat, Renewal(a, b, S, k)
  PROVE  OneBox'
<1>0. /\ \A c, d \in Boxes : c # d => Box(c) \cap Box(d) = {}
      /\ \A c \in Boxes : Box(c) \subseteq 1..work
      /\ \A n \in 1..work : \E c \in Boxes : n \in Box(c)
  BY DEF OneBox
<1>1. /\ 1..work' = (1..work) \cup Again(k)
      /\ \A c \in Boxes : Box(c) \cap Again(k) = {}
  BY <1>0 DEF Renewal, Again
<1>2. ASSUME NEW c \in Boxes \ {a, b}, NEW d \in Boxes, c # d
      PROVE  Box(c)' \cap Box(d)' = {}
  BY <1>0, <1>1, <1>2 DEF Renewal
<1>3. Box(a)' \cap Box(b)' = {}
  BY <1>0, <1>1 DEF Renewal
<1>4. ASSUME NEW c \in Boxes, NEW d \in Boxes, c # d
      PROVE  Box(c)' \cap Box(d)' = {}
  BY <1>2, <1>3, <1>4
<1>5. \A c \in Boxes : Box(c)' \subseteq 1..work'
  BY <1>0, <1>1 DEF Renewal
<1>6. ASSUME NEW n \in 1..work' PROVE \E c \in Boxes : n \in Box(c)'
  <2>1. CASE n \in Again(k)
    BY <2>1 DEF Renewal
  <2>2. CASE n \in 1..work
    <3>1. PICK c \in Boxes : n \in Box(c)
      BY <1>0, <2>2
    <3>2. QED
      BY <3>1 DEF Renewal
  <2>3. QED
    BY <1>1, <2>1, <2>2
<1>7. QED
  BY <1>4, <1>5, <1>6 DEF OneBox

(* A push adds its number to the list.                                     *)
LEMMA PostLists ==
  ASSUME TypeOK, NEW t \in Threads, NEW l \in PC \ {"tickle"},
         NEW n \in Work, NEW thr \in Pins \cup {NULL}, Post(t, n, thr, l)
  PROVE  /\ Listed' = Listed \cup {n}
         /\ ListedOnce /\ n \notin Listed => ListedOnce'
<1>0. Len(m_tasks) \in Nat
  BY LenProperties DEF TypeOK
<1>1. /\ Len(m_tasks') = Len(m_tasks) + 1
      /\ \A k \in 1..Len(m_tasks) : m_tasks'[k] = m_tasks[k]
      /\ m_tasks'[Len(m_tasks) + 1].no = n
  <2>1. m_tasks'[Len(m_tasks) + 1] = [no |-> n, thread |-> thr]
    BY Posted
  <2>2. m_tasks'[Len(m_tasks) + 1].no = n
    BY <2>1
  <2>3. QED
    BY <2>2, Posted
<1>2. Listed' = Listed \cup {n}
  BY <1>0, <1>1 DEF Listed
<1>3. ASSUME ListedOnce, n \notin Listed PROVE ListedOnce'
  BY <1>0, <1>1, <1>3 DEF Listed, ListedOnce
<1>4. QED
  BY <1>2, <1>3

(* The scan takes one number out of the list.                              *)
LEMMA FetchUnlists ==
  ASSUME TypeOK, ListedOnce, NEW t \in Threads, FetchTask(t)
  PROVE  \E d \in Task : /\ task' = [task EXCEPT ![t] = d]
                         /\ d.no \in Listed /\ Listed' = Listed \ {d.no}
                         /\ ListedOnce'
<1>1. PICK i \in 1..Len(m_tasks) :
        /\ m_tasks[i] \in Task
        /\ task' = [task EXCEPT ![t] = m_tasks[i]]
        /\ Len(m_tasks') = Len(m_tasks) - 1
        /\ \A k \in 1..(Len(m_tasks) - 1) :
             m_tasks'[k] = IF k < i THEN m_tasks[k] ELSE m_tasks[k + 1]
  BY Fetched
<1>2. Len(m_tasks) \in Nat
  BY LenProperties DEF TypeOK
<1> DEFINE old(k) == IF k < i THEN k ELSE k + 1
<1>3. \A k \in 1..Len(m_tasks') : /\ old(k) \in 1..Len(m_tasks) /\ old(k) # i
                                  /\ m_tasks'[k] = m_tasks[old(k)]
  BY <1>1, <1>2
<1>4. \A k, l \in 1..Len(m_tasks') : old(k) = old(l) => k = l
  BY <1>1, <1>2
<1>5. ASSUME NEW j \in 1..Len(m_tasks), j # i
      PROVE  \E k \in 1..Len(m_tasks') : old(k) = j
  <2>1. CASE j < i
    BY <1>1, <1>2, <2>1
  <2>2. CASE j > i
    <3>1. j - 1 \in 1..Len(m_tasks') /\ old(j - 1) = j
      BY <1>1, <1>2, <2>2
    <3>2. QED
      BY <3>1
  <2>3. QED
    BY <1>2, <1>5, <2>1, <2>2
<1> HIDE DEF old
<1>6. ListedOnce'
  <2>1. ASSUME NEW k \in 1..Len(m_tasks'), NEW l \in 1..Len(m_tasks'),
               m_tasks'[k].no = m_tasks'[l].no
        PROVE  k = l
    BY <1>3, <1>4, <2>1 DEF ListedOnce
  <2>2. QED
    BY <2>1 DEF ListedOnce
<1>7. ASSUME NEW k \in 1..Len(m_tasks')
      PROVE  m_tasks'[k].no \in Listed \ {m_tasks[i].no}
  BY <1>3 DEF Listed, ListedOnce
<1>8. ASSUME NEW j \in 1..Len(m_tasks), j # i PROVE m_tasks[j].no \in Listed'
  BY <1>3, <1>5, <1>8 DEF Listed
<1>9. Listed' = Listed \ {m_tasks[i].no}
  <2>1. Listed' \subseteq Listed \ {m_tasks[i].no}
    BY <1>7 DEF Listed
  <2>2. ASSUME NEW n \in Listed \ {m_tasks[i].no} PROVE n \in Listed'
    <3>1. PICK j \in 1..Len(m_tasks) : n = m_tasks[j].no
      BY DEF Listed
    <3>2. QED
      BY <1>8, <2>2, <3>1
  <2>3. QED
    BY <2>1, <2>2
<1>10. m_tasks[i].no \in Listed
  BY DEF Listed
<1>11. QED
  BY <1>1, <1>6, <1>9, <1>10

(* A step that leaves alone what the boxes outside C hold.                 *)
LEMMA OtherBoxes ==
  ASSUME NEW C,
         <<"list", NULL>> \in C \/ UNCHANGED m_tasks,
         <<"timers", NULL>> \in C \/ UNCHANGED m_timers,
         <<"events", NULL>> \in C \/ UNCHANGED events,
         <<"done", NULL>> \in C \/ UNCHANGED done,
         \A t \in Threads : /\ <<"cbs", t>> \in C \/ cbs'[t] = cbs[t]
                            /\ <<"hand", t>> \in C \/ hand'[t] = hand[t]
                            /\ <<"task", t>> \in C \/ task'[t] = task[t]
  PROVE  \A b \in Boxes \ C : Box(b)' = Box(b)
<1>1. UNCHANGED m_tasks => Listed' = Listed
  BY DEF Listed
<1>2. ASSUME NEW b \in {<<"list", NULL>>, <<"timers", NULL>>, <<"events", NULL>>,
                        <<"done", NULL>>}, b \notin C
      PROVE  Box(b)' = Box(b)
  BY <1>1, <1>2, BoxFacts
<1>3. ASSUME NEW t \in Threads, NEW b \in {<<"cbs", t>>, <<"hand", t>>, <<"task", t>>},
             b \notin C
      PROVE  Box(b)' = Box(b)
  <2>1. CASE b = <<"cbs", t>>
    BY <1>3, <2>1, ThreadBoxFacts
  <2>2. CASE b = <<"hand", t>>
    BY <1>3, <2>2, ThreadBoxFacts
  <2>3. CASE b = <<"task", t>>
    BY <1>3, <2>3, ThreadBoxFacts
  <2>4. QED
    BY <1>3, <2>1, <2>2, <2>3
<1>4. QED
  BY <1>2, <1>3, BoxCases

(* Whoever adds work is a client before stop() or a body.                  *)
LEMMA ClientActs ==
  ASSUME IInv, NEW t \in Threads, Client(t)
  PROVE  /\ ~m_stopping \/ Box(<<"task", t>>) # {}
         /\ hand[t] = NULL /\ Home(t) \in PC \ {"tickle"}
<1>1. ThreadOK(t) /\ CallerOK
  BY DEF IInv
<1>2. ~m_stopping \/ task[t] # NULL
  BY <1>1 DEF ThreadOK, CallerOK, Client, Place
<1>3. hand[t] = NULL /\ Home(t) \in PC \ {"tickle"}
  BY <1>1 DEF ThreadOK, Client, Home, PC
<1>4. QED
  BY <1>2, <1>3, ThreadBoxFacts

(* The boxes in which work waits for its turn.                             *)
Waits == {b \in Boxes : b[1] \notin {"task", "done"}}

(* The steps that neither create nor move work, create it, move it from    *)
(* one waiting place to another, begin, end or withdraw it, or let timers  *)
(* expire and put recurring ones back; what becomes of recurring.          *)
Still == (\A b \in Boxes : Box(b)' = Box(b)) /\ UNCHANGED <<work, recurring>>
Arrives ==
  \E b \in Waits : /\ Arrival(b) /\ work < MaxWork
                   /\ recurring' \in {recurring, recurring \cup {work + 1}}
                   /\ ~m_stopping \/ \E t \in Threads : Box(<<"task", t>>) # {}
Passes == \E a, b \in Waits : (\E S : Shift(a, b, S)) /\ UNCHANGED recurring
Begins ==
  \E t \in Threads, n \in Work : /\ Shift(<<"list", NULL>>, <<"task", t>>, {n})
                                /\ n \notin recurring /\ UNCHANGED recurring
Ends ==
  \E t \in Threads, n \in Work : /\ Shift(<<"task", t>>, <<"done", NULL>>, {n})
                                /\ UNCHANGED recurring
Withdraws ==
  \E a \in Waits, n \in Work : /\ Shift(a, <<"done", NULL>>, {n})
                              /\ recurring' = recurring \ {n}
Renews ==
  \E t \in Threads, k \in 0..Cardinality(due \cap recurring) :
    /\ Renewal(<<"timers", NULL>>, <<"cbs", t>>, due, k)
    /\ work + k <= MaxWork /\ (due \cap recurring # {} => m_timers' # {})
    /\ recurring' = (recurring \ due) \cup Again(k)

(* The boxes of Waits by name.                                             *)
LEMMA WaitsCases ==
  /\ <<"list", NULL>> \in Waits /\ <<"timers", NULL>> \in Waits
  /\ <<"events", NULL>> \in Waits /\ <<"done", NULL>> \notin Waits
  /\ \A t \in Threads : /\ <<"cbs", t>> \in Waits /\ <<"hand", t>> \in Waits
                         /\ <<"task", t>> \notin Waits
  /\ Waits \subseteq Boxes
<1>1. /\ <<"list", NULL>> \in Waits /\ <<"timers", NULL>> \in Waits
      /\ <<"events", NULL>> \in Waits /\ <<"done", NULL>> \notin Waits
  BY DEF Waits, Boxes
<1>2. ASSUME NEW t \in Threads
      PROVE  /\ <<"cbs", t>> \in Waits /\ <<"hand", t>> \in Waits
             /\ <<"task", t>> \notin Waits
  BY DEF Waits, Boxes
<1>3. Waits \subseteq Boxes
  BY DEF Waits
<1>4. QED
  BY <1>1, <1>2, <1>3

(* What is registered or in the list is not a recurring timer.             *)
LEMMA NotRecurring ==
  ASSUME IInv, OneBox, RecurringOK, NEW n \in Listed \cup events
  PROVE  n \notin recurring
<1>1. n \notin m_timers
  BY BoxFacts, BoxCases DEF OneBox
<1>2. ASSUME NEW u \in Threads, n = hand[u], n # NULL PROVE FALSE
  <2>1. n \in Box(<<"hand", u>>)
    BY <1>2, ThreadBoxFacts
  <2>2. QED
    BY <2>1, BoxFacts, BoxCases DEF OneBox
<1>3. NULL \notin recurring
  BY IOManagerAssumption DEF IInv, TypeOK
<1>4. QED
  BY <1>1, <1>2, <1>3 DEF RecurringOK

(* What a client does to the work.                                         *)
LEMMA ClientMoves ==
  ASSUME IInv, ListedOnce, OneBox, RecurringOK, NEW t \in Threads, ClientStep(t)
  PROVE  Still \/ Arrives \/ Withdraws \/ Passes
<1> USE DEF runVars, timerVars, eventVars, handVars, wakeVars, workVars
<1>0. TypeOK /\ ThreadOK(t)
  BY DEF IInv
<1>n. NULL \notin Work
  BY IOManagerAssumption
<1>w. /\ work \in Nat /\ (work < MaxWork => work + 1 \in Work)
      /\ NewWork => work < MaxWork /\ work' = work + 1
  BY <1>0, SpareFacts DEF NewWork
<1>1. ASSUME NEW thr \in Pins, Schedule(t, thr) PROVE Arrives
  <2>1. Client(t) /\ work < MaxWork /\ work' = work + 1
    BY <1>1, <1>w DEF Schedule
  <2>2. Listed' = Listed \cup {work + 1}
    BY <1>0, <1>1, <1>w, <2>1, ClientActs, PostLists DEF Schedule
  <2>3. \A b \in Boxes \ {<<"list", NULL>>} : Box(b)' = Box(b)
    BY <1>1, OtherBoxes DEF Schedule
  <2>4. Arrival(<<"list", NULL>>)
    BY <2>1, <2>2, <2>3, BoxFacts DEF Arrival
  <2>5. QED
    BY <1>1, <2>1, <2>4, ClientActs, WaitsCases DEF Arrives, Schedule
<1>2. ASSUME NEW r \in Recurs, AddTimer(t, r), NewWork PROVE Arrives
  <2>1. Client(t) /\ work < MaxWork /\ work' = work + 1
    BY <1>2, <1>w DEF AddTimer
  <2>2. \A b \in Boxes \ {<<"timers", NULL>>} : Box(b)' = Box(b)
    BY <1>2, OtherBoxes DEF AddTimer
  <2>3. Arrival(<<"timers", NULL>>)
    BY <1>2, <2>1, <2>2, BoxFacts DEF Arrival, AddTimer
  <2>4. recurring' \in {recurring, recurring \cup {work + 1}}
    BY <1>2, <2>1 DEF AddTimer
  <2>5. QED
    BY <2>1, <2>3, <2>4, ClientActs, WaitsCases DEF Arrives
<1>l. ASSUME NEW r \in Recurs, AddTimer(t, r), ~NewWork PROVE Still
  <2>1. \A b \in Boxes \ {} : Box(b)' = Box(b)
    BY <1>l, OtherBoxes DEF AddTimer
  <2>2. QED
    BY <1>l, <2>1 DEF AddTimer, Still
<1>3. ASSUME AddEvent(t) PROVE Arrives
  <2>1. Client(t) /\ work < MaxWork /\ work' = work + 1
    BY <1>3, <1>w DEF AddEvent
  <2>2. \A b \in Boxes \ {<<"events", NULL>>} : Box(b)' = Box(b)
    BY <1>3, OtherBoxes DEF AddEvent
  <2>3. Arrival(<<"events", NULL>>)
    BY <1>3, <2>1, <2>2, BoxFacts DEF Arrival, AddEvent
  <2>4. QED
    BY <1>3, <2>1, <2>3, ClientActs, WaitsCases DEF Arrives, AddEvent
<1>4. ASSUME NEW n \in Work, n \in m_timers, Drop(n),
             UNCHANGED <<m_tasks, events, cbs, hand, task, work>>
      PROVE  Withdraws
  <2>1. \A b \in Boxes \ {<<"timers", NULL>>, <<"done", NULL>>} : Box(b)' = Box(b)
    BY <1>4, OtherBoxes
  <2>2. Shift(<<"timers", NULL>>, <<"done", NULL>>, {n})
    BY <1>4, <2>1, BoxFacts DEF Shift, Drop
  <2>3. QED
    BY <1>4, <2>2, WaitsCases DEF Withdraws, Drop
<1>c. ASSUME NEW n \in Work, CancelTimer(t, n) PROVE Withdraws
  BY <1>4, <1>c DEF CancelTimer
<1>r. ASSUME NEW n \in Work, Refresh(t, n) PROVE Still \/ Withdraws
  <2>1. CASE Drop(n)
    BY <1>4, <1>r, <2>1 DEF Refresh
  <2>2. CASE UNCHANGED <<m_timers, recurring, done>>
    <3>1. \A b \in Boxes \ {} : Box(b)' = Box(b)
      BY <1>r, <2>2, OtherBoxes DEF Refresh
    <3>2. QED
      BY <1>r, <2>2, <3>1 DEF Refresh, Still
  <2>3. QED
    BY <1>r, <2>1, <2>2 DEF Refresh
<1>e. ASSUME NEW n \in Work, ResetErase(t, n) PROVE Passes
  <2>1. hand[t] = NULL /\ hand'[t] = n /\ \A u \in Threads \ {t} : hand'[u] = hand[u]
    BY <1>0, <1>e, ClientActs DEF ResetErase, TypeOK
  <2>2. \A b \in Boxes \ {<<"timers", NULL>>, <<"hand", t>>} : Box(b)' = Box(b)
    BY <1>e, <2>1, OtherBoxes DEF ResetErase
  <2>3. Box(<<"hand", t>>) = {} /\ Box(<<"hand", t>>)' = {n}
    BY <1>n, <2>1, ThreadBoxFacts
  <2>4. Shift(<<"timers", NULL>>, <<"hand", t>>, {n})
    BY <1>e, <2>2, <2>3, BoxFacts DEF Shift, ResetErase
  <2>5. QED
    BY <1>e, <2>4, WaitsCases DEF Passes, ResetErase
<1>5. ASSUME NEW n \in Work, DelEvent(t, n) PROVE Withdraws
  <2>1. \A b \in Boxes \ {<<"events", NULL>>, <<"done", NULL>>} : Box(b)' = Box(b)
    BY <1>5, OtherBoxes DEF DelEvent, Unregister
  <2>2. Shift(<<"events", NULL>>, <<"done", NULL>>, {n})
    BY <1>5, <2>1, BoxFacts DEF Shift, DelEvent, Unregister
  <2>3. recurring' = recurring \ {n}
    BY <1>5, NotRecurring DEF DelEvent, Unregister
  <2>4. QED
    BY <2>2, <2>3, WaitsCases DEF Withdraws
<1>6. ASSUME NEW n \in Work, CancelEvent(t, n) PROVE Passes
  <2>1. hand[t] = NULL /\ hand'[t] = n /\ \A u \in Threads \ {t} : hand'[u] = hand[u]
    BY <1>0, <1>6, ClientActs DEF CancelEvent, Unregister, TypeOK
  <2>2. \A b \in Boxes \ {<<"events", NULL>>, <<"hand", t>>} : Box(b)' = Box(b)
    BY <1>6, <2>1, OtherBoxes DEF CancelEvent, Unregister
  <2>3. Shift(<<"events", NULL>>, <<"hand", t>>, {n})
    BY <1>6, <1>n, <2>1, <2>2, BoxFacts, ThreadBoxFacts DEF Shift, CancelEvent, Unregister
  <2>4. QED
    BY <1>6, <2>3, WaitsCases DEF Passes, CancelEvent
<1>7. ASSUME NEW n \in Work, CancelAll(t, n) PROVE Passes
  <2>1. Listed' = Listed \cup {n}
    BY <1>0, <1>7, PostLists DEF CancelAll, PC
  <2>2. \A b \in Boxes \ {<<"events", NULL>>, <<"list", NULL>>} : Box(b)' = Box(b)
    BY <1>7, OtherBoxes DEF CancelAll
  <2>3. Shift(<<"events", NULL>>, <<"list", NULL>>, {n})
    BY <1>7, <2>1, <2>2, BoxFacts DEF Shift, CancelAll
  <2>4. QED
    BY <1>7, <2>3, WaitsCases DEF Passes, CancelAll
<1>8. QED
  BY <1>1, <1>2, <1>l, <1>3, <1>c, <1>r, <1>e, <1>5, <1>6, <1>7 DEF ClientStep

(* What run() and idle() do to the work.                                   *)
LEMMA ThreadMoves ==
  ASSUME IInv, ListedOnce, OneBox, RecurringOK, NEW t \in Threads,
         ThreadStep(t) \/ BodyEnd(t) \/ EpollTimeout(t)
  PROVE  Still \/ Passes \/ Begins \/ Ends \/ Withdraws \/ Renews
<1> USE DEF runVars, timerVars, eventVars, handVars, wakeVars, workVars, dataVars
<1>0. TypeOK /\ ThreadOK(t)
  BY DEF IInv
<1>n. NULL \notin Work /\ NULL \notin Task
  BY IOManagerAssumption
<1>1. ASSUME UNCHANGED <<m_tasks, m_timers, events, done, cbs, hand, task, work,
                         recurring>>
      PROVE  Still
  <2>1. \A b \in Boxes \ {} : Box(b)' = Box(b)
    BY <1>1, OtherBoxes
  <2>2. QED
    BY <1>1, <2>1 DEF Still
<1>2. ASSUME Tickle(t) \/ FetchNone(t) \/ IdleResume(t) \/ RunExit(t) PROVE Still
  BY <1>1, <1>2 DEF Tickle, FetchNone, IdleResume, RunExit
<1>3. ASSUME ReadTimers(t) \/ ReadPending(t) \/ ReadScheduler(t) \/ EpollWait(t)
             \/ EpollTimeout(t)
      PROVE  Still
  BY <1>1, <1>3 DEF ReadTimers, ReadPending, ReadScheduler, EpollWait, EpollTimeout
<1>4. ASSUME CbsEnd(t) \/ DrainPipe(t) \/ CountEvent(t) \/ CountOff(t) \/ IdleYield(t)
      PROVE  Still
  BY <1>1, <1>4 DEF CbsEnd, DrainPipe, CountEvent, CountOff, IdleYield
<1>5. ASSUME NEW n \in Work, SkipEvent(t, n) PROVE Still
  BY <1>1, <1>5 DEF SkipEvent
<1>6. ASSUME CancelTrigger(t) PROVE Passes
  <2>1. hand[t] \in Work /\ Home(t) \in PC \ {"tickle"}
    BY <1>0, <1>6 DEF CancelTrigger, At, ThreadOK, TypeOK, Home, PC
  <2>2. Listed' = Listed \cup {hand[t]}
    BY <1>0, <1>6, <2>1, PostLists DEF CancelTrigger
  <2>3. hand'[t] = NULL /\ \A u \in Threads \ {t} : hand'[u] = hand[u]
    BY <1>0, <1>6 DEF CancelTrigger, TypeOK
  <2>4. \A b \in Boxes \ {<<"hand", t>>, <<"list", NULL>>} : Box(b)' = Box(b)
    BY <1>6, <2>3, OtherBoxes DEF CancelTrigger
  <2>5. Box(<<"hand", t>>) = {hand[t]} /\ Box(<<"hand", t>>)' = {}
    BY <1>n, <2>1, <2>3, ThreadBoxFacts
  <2>6. Shift(<<"hand", t>>, <<"list", NULL>>, {hand[t]})
    BY <1>6, <2>2, <2>4, <2>5, BoxFacts DEF Shift, CancelTrigger
  <2>7. QED
    BY <1>6, <2>6, WaitsCases DEF Passes, CancelTrigger
<1>r. ASSUME ResetInsert(t) PROVE Passes \/ Withdraws
  <2>1. hand[t] \in Work
    BY <1>0, <1>r DEF ResetInsert, At, ThreadOK, TypeOK
  <2>2. hand'[t] = NULL /\ \A u \in Threads \ {t} : hand'[u] = hand[u]
    BY <1>0, <1>r DEF ResetInsert, TypeOK
  <2>3. Box(<<"hand", t>>) = {hand[t]} /\ Box(<<"hand", t>>)' = {}
    BY <1>n, <2>1, <2>2, ThreadBoxFacts
  <2>4. ASSUME m_timers' = m_timers \cup {hand[t]}, UNCHANGED <<recurring, done>>
        PROVE  Passes
    <3>1. \A b \in Boxes \ {<<"hand", t>>, <<"timers", NULL>>} : Box(b)' = Box(b)
      BY <1>r, <2>2, <2>4, OtherBoxes DEF ResetInsert
    <3>2. Shift(<<"hand", t>>, <<"timers", NULL>>, {hand[t]})
      BY <1>r, <2>3, <2>4, <3>1, BoxFacts DEF Shift, ResetInsert
    <3>3. QED
      BY <2>4, <3>2, WaitsCases DEF Passes
  <2>5. ASSUME recurring' = recurring \ {hand[t]}, done' = done \cup {hand[t]},
               UNCHANGED m_timers
        PROVE  Withdraws
    <3>1. \A b \in Boxes \ {<<"hand", t>>, <<"done", NULL>>} : Box(b)' = Box(b)
      BY <1>r, <2>2, <2>5, OtherBoxes DEF ResetInsert
    <3>2. Shift(<<"hand", t>>, <<"done", NULL>>, {hand[t]})
      BY <1>r, <2>3, <2>5, <3>1, BoxFacts DEF Shift, ResetInsert
    <3>3. QED
      BY <2>1, <2>5, <3>2, WaitsCases DEF Withdraws
  <2>6. QED
    BY <1>r, <2>4, <2>5 DEF ResetInsert
<1>7. ASSUME FetchTask(t) PROVE Begins
  <2>1. PICK d \in Task : /\ task' = [task EXCEPT ![t] = d]
                          /\ d.no \in Listed /\ Listed' = Listed \ {d.no}
    BY <1>0, <1>7, FetchUnlists
  <2>2. task[t] = NULL /\ d.no \in Work
    BY <1>0, <1>7 DEF FetchTask, At, ThreadOK, CallPC, Place, Task
  <2>3. task'[t] = d /\ d # NULL /\ \A u \in Threads \ {t} : task'[u] = task[u]
    BY <1>0, <1>n, <2>1 DEF TypeOK
  <2>4. \A b \in Boxes \ {<<"list", NULL>>, <<"task", t>>} : Box(b)' = Box(b)
    BY <1>7, <2>3, OtherBoxes DEF FetchTask
  <2>5. Box(<<"task", t>>) = {} /\ Box(<<"task", t>>)' = {d.no}
    BY <2>2, <2>3, ThreadBoxFacts
  <2>6. Shift(<<"list", NULL>>, <<"task", t>>, {d.no})
    BY <1>7, <2>1, <2>4, <2>5, BoxFacts DEF Shift, FetchTask
  <2>7. d.no \notin recurring
    BY <2>1, NotRecurring
  <2>8. QED
    BY <1>7, <2>2, <2>6, <2>7 DEF Begins, FetchTask
<1>8. ASSUME BodyEnd(t) PROVE Ends
  <2>1. task[t] # NULL /\ task[t] \in Task
    BY <1>0, <1>8 DEF BodyEnd, At, ThreadOK, Place, TypeOK
  <2>2. task[t].no \in Work
    BY <2>1 DEF Task
  <2>3. task'[t] = NULL /\ \A u \in Threads \ {t} : task'[u] = task[u]
    BY <1>0, <1>8 DEF BodyEnd, TypeOK
  <2>4. \A b \in Boxes \ {<<"task", t>>, <<"done", NULL>>} : Box(b)' = Box(b)
    BY <1>8, <2>3, OtherBoxes DEF BodyEnd
  <2>5. Box(<<"task", t>>) = {task[t].no} /\ Box(<<"task", t>>)' = {}
    BY <2>1, <2>3, ThreadBoxFacts
  <2>6. Shift(<<"task", t>>, <<"done", NULL>>, {task[t].no})
    BY <1>8, <2>4, <2>5, BoxFacts DEF Shift, BodyEnd
  <2>7. QED
    BY <1>8, <2>2, <2>6 DEF Ends, BodyEnd
<1>9. ASSUME ListExpiredCb(t) PROVE Renews
  <2>1. cbs[t] = {} /\ due \subseteq m_timers
    BY <1>0, <1>9 DEF ListExpiredCb, At, ThreadOK, Place, TypeOK
  <2>2. cbs'[t] = due /\ \A u \in Threads \ {t} : cbs'[u] = cbs[u]
    BY <1>0, <1>9 DEF ListExpiredCb, TypeOK
  <2>3. \A b \in Boxes \ {<<"timers", NULL>>, <<"cbs", t>>} : Box(b)' = Box(b)
    BY <1>9, <2>2, OtherBoxes DEF ListExpiredCb
  <2>4. Box(<<"cbs", t>>) = {} /\ Box(<<"cbs", t>>)' = due
    BY <2>1, <2>2, ThreadBoxFacts
  <2>5. PICK k \in 0..Cardinality(due \cap recurring) :
          /\ work + k <= MaxWork /\ work' = work + k
          /\ m_timers' = (m_timers \ due) \cup Again(k)
          /\ recurring' = (recurring \ due) \cup Again(k)
    BY <1>9 DEF ListExpiredCb, Again
  <2>6. Renewal(<<"timers", NULL>>, <<"cbs", t>>, due, k)
    BY <2>1, <2>3, <2>4, <2>5, BoxFacts DEF Renewal
  <2>7. QED
    BY <1>9, <2>5, <2>6 DEF Renews, ListExpiredCb
<1>10. ASSUME NEW n \in Work, PostCb(t, n) PROVE Passes
  <2>1. Listed' = Listed \cup {n}
    BY <1>0, <1>10, PostLists DEF PostCb, PC, IdlePC
  <2>2. /\ n \in cbs[t] /\ cbs'[t] = cbs[t] \ {n}
        /\ \A u \in Threads \ {t} : cbs'[u] = cbs[u]
    BY <1>0, <1>10 DEF PostCb, TypeOK
  <2>3. \A b \in Boxes \ {<<"cbs", t>>, <<"list", NULL>>} : Box(b)' = Box(b)
    BY <1>10, <2>2, OtherBoxes DEF PostCb
  <2>4. Box(<<"cbs", t>>) = cbs[t] /\ Box(<<"cbs", t>>)' = cbs[t] \ {n}
    BY <2>2, ThreadBoxFacts
  <2>5. Shift(<<"cbs", t>>, <<"list", NULL>>, {n})
    BY <1>10, <2>1, <2>2, <2>3, <2>4, BoxFacts DEF Shift, PostCb
  <2>6. QED
    BY <1>10, <2>5, WaitsCases DEF Passes, PostCb
<1>11. ASSUME NEW n \in Work, TriggerEvent(t, n) PROVE Passes
  <2>1. Listed' = Listed \cup {n}
    BY <1>0, <1>11, PostLists DEF TriggerEvent, PC, IdlePC
  <2>2. \A b \in Boxes \ {<<"events", NULL>>, <<"list", NULL>>} : Box(b)' = Box(b)
    BY <1>11, OtherBoxes DEF TriggerEvent
  <2>3. Shift(<<"events", NULL>>, <<"list", NULL>>, {n})
    BY <1>11, <2>1, <2>2, BoxFacts DEF Shift, TriggerEvent
  <2>4. QED
    BY <1>11, <2>3, WaitsCases DEF Passes, TriggerEvent
<1>12. QED
  BY <1>2, <1>3, <1>4, <1>5, <1>6, <1>r, <1>7, <1>8, <1>9, <1>10, <1>11
     DEF ThreadStep

(* Every step of the program does one of these things to the work.         *)
LEMMA Moves ==
  ASSUME IInv, ListedOnce, OneBox, RecurringOK, [Next]_vars
  PROVE  Still \/ Arrives \/ Passes \/ Begins \/ Ends \/ Withdraws \/ Renews
<1>1. ASSUME UNCHANGED <<m_tasks, m_timers, events, done, cbs, hand, task, work,
                         recurring>>
      PROVE  Still
  <2>1. \A b \in Boxes \ {} : Box(b)' = Box(b)
    BY <1>1, OtherBoxes
  <2>2. QED
    BY <1>1, <2>1 DEF Still
<1>2. ASSUME UNCHANGED vars \/ StopStep \/ EnvStep PROVE Still
  BY <1>1, <1>2 DEF vars, dataVars, runVars, timerVars, eventVars, handVars,
     wakeVars, workVars, StopStep, Stop, StopTickle, StopRun, StopJoin, EnvStep,
     TimerDue, EventReady
<1>3. QED
  BY <1>2, ClientMoves, ThreadMoves DEF Next

(* Every step keeps each piece of work in one box.                         *)
LEMMA OneBoxStep ==
  IInv /\ ListedOnce /\ OneBox /\ RecurringOK /\ [Next]_vars => OneBox'
<1> SUFFICES ASSUME IInv, ListedOnce, OneBox, RecurringOK, [Next]_vars PROVE OneBox'
  OBVIOUS
<1>1. work \in Nat
  BY DEF IInv, TypeOK
<1>2. \A t \in Threads : <<"task", t>> \in Boxes
  BY BoxCases
<1>3. <<"done", NULL>> \in Boxes /\ Waits \subseteq Boxes
  BY BoxCases, WaitsCases
<1>4. CASE Still
  BY <1>4 DEF Still, OneBox
<1>5. CASE Arrives
  BY <1>1, <1>3, <1>5, ArrivalKeeps DEF Arrives
<1>6. CASE Passes
  BY <1>3, <1>6, ShiftKeeps DEF Passes
<1>7. CASE Begins
  BY <1>2, <1>7, ShiftKeeps, BoxCases DEF Begins
<1>8. CASE Ends
  BY <1>2, <1>3, <1>8, ShiftKeeps DEF Ends
<1>9. CASE Withdraws
  BY <1>3, <1>9, ShiftKeeps DEF Withdraws
<1>10. CASE Renews
  <2>1. PICK t \in Threads, k \in 0..Cardinality(due \cap recurring) :
          Renewal(<<"timers", NULL>>, <<"cbs", t>>, due, k)
    BY <1>10 DEF Renews
  <2>2. k \in Nat
    BY SpareFacts DEF IInv
  <2>3. <<"timers", NULL>> \in Boxes /\ <<"cbs", t>> \in Boxes
    BY BoxCases
  <2>4. QED
    BY <1>1, <2>1, <2>2, <2>3, RenewalKeeps
<1>11. QED
  BY <1>4, <1>5, <1>6, <1>7, <1>8, <1>9, <1>10, Moves

(* Every step keeps the numbers in the list distinct: what is posted was   *)
(* in the hands of a thread, registered, or new.                           *)
LEMMA ListedStep == IInv /\ ListedOnce /\ OneBox /\ [Next]_vars => ListedOnce'
<1> SUFFICES ASSUME IInv, ListedOnce, OneBox, [Next]_vars PROVE ListedOnce'
  OBVIOUS
<1> USE DEF vars, dataVars, runVars, timerVars, eventVars, handVars, wakeVars,
        workVars
<1>0. TypeOK /\ \A t \in Threads : ThreadOK(t)
  BY DEF IInv
<1>n. NULL \notin Work
  BY IOManagerAssumption
<1>b. ASSUME NEW b \in Boxes, b # <<"list", NULL>>, NEW n \in Box(b)
      PROVE  n \notin Listed
  BY <1>b, BoxFacts, BoxCases DEF OneBox
<1>1. CASE UNCHANGED m_tasks
  BY <1>1 DEF ListedOnce
<1>2. ASSUME NEW t \in Threads, NEW thr \in Pins, Schedule(t, thr)
      PROVE  ListedOnce'
  <2>1. Client(t) /\ work < MaxWork /\ work \in Nat
    BY <1>0, <1>2, SpareFacts DEF Schedule, NewWork
  <2>2. work + 1 \in Work
    BY <1>0, <2>1, SpareFacts
  <2>3. Listed \subseteq 1..work
    BY BoxFacts, BoxCases DEF OneBox
  <2>4. work + 1 \notin Listed
    BY <2>1, <2>3
  <2>5. QED
    BY <1>0, <1>2, <2>1, <2>2, <2>4, ClientActs, PostLists DEF Schedule
<1>3. ASSUME NEW t \in Threads, CancelTrigger(t) PROVE ListedOnce'
  <2>1. hand[t] \in Work /\ Home(t) \in PC \ {"tickle"}
    BY <1>0, <1>3 DEF CancelTrigger, At, ThreadOK, TypeOK, Home, PC
  <2>2. hand[t] \in Box(<<"hand", t>>) /\ <<"hand", t>> \in Boxes
    BY <1>n, <2>1, ThreadBoxFacts, BoxCases
  <2>3. QED
    BY <1>0, <1>b, <1>3, <2>1, <2>2, PostLists DEF CancelTrigger
<1>4. ASSUME NEW t \in Threads, NEW n \in Work, PostCb(t, n) PROVE ListedOnce'
  <2>1. n \in Box(<<"cbs", t>>) /\ <<"cbs", t>> \in Boxes
    BY <1>4, ThreadBoxFacts, BoxCases DEF PostCb
  <2>2. "cbs" \in PC \ {"tickle"}
    BY DEF PC, IdlePC
  <2>3. QED
    BY <1>0, <1>b, <1>4, <2>1, <2>2, PostLists DEF PostCb
<1>5. ASSUME NEW t \in Threads, NEW n \in Work, TriggerEvent(t, n) PROVE ListedOnce'
  <2>1. n \in Box(<<"events", NULL>>) /\ <<"events", NULL>> \in Boxes
    BY <1>5, BoxFacts, BoxCases DEF TriggerEvent
  <2>2. "count" \in PC \ {"tickle"}
    BY DEF PC, IdlePC
  <2>3. QED
    BY <1>0, <1>b, <1>5, <2>1, <2>2, PostLists DEF TriggerEvent
<1>c. ASSUME NEW t \in Threads, NEW n \in Work, CancelAll(t, n) PROVE ListedOnce'
  <2>1. n \in Box(<<"events", NULL>>) /\ <<"events", NULL>> \in Boxes
    BY <1>c, BoxFacts, BoxCases DEF CancelAll
  <2>2. "off" \in PC \ {"tickle"}
    BY DEF PC
  <2>3. QED
    BY <1>0, <1>b, <1>c, <2>1, <2>2, PostLists DEF CancelAll
<1>6. ASSUME NEW t \in Threads, FetchTask(t) PROVE ListedOnce'
  BY <1>0, <1>6, FetchUnlists
<1>7. ASSUME NEW t \in Threads, ClientStep(t) PROVE ListedOnce'
  BY <1>1, <1>2, <1>c, <1>7 DEF ClientStep, AddTimer, AddEvent, CancelTimer, Refresh,
     ResetErase, DelEvent, CancelEvent
<1>8. ASSUME NEW t \in Threads, BodyEnd(t) \/ EpollTimeout(t) PROVE ListedOnce'
  BY <1>1, <1>8 DEF BodyEnd, EpollTimeout
<1>9. ASSUME NEW t \in Threads, ThreadStep(t) PROVE ListedOnce'
  <2>1. CASE Tickle(t) \/ FetchNone(t) \/ IdleResume(t) \/ RunExit(t)
             \/ ReadTimers(t) \/ ReadPending(t) \/ ReadScheduler(t)
    BY <1>1, <2>1 DEF Tickle, FetchNone, IdleResume, RunExit, ReadTimers,
       ReadPending, ReadScheduler
  <2>2. CASE EpollWait(t) \/ ListExpiredCb(t) \/ CbsEnd(t) \/ DrainPipe(t)
             \/ CountEvent(t) \/ IdleYield(t) \/ CountOff(t) \/ ResetInsert(t)
             \/ \E n \in Work : SkipEvent(t, n)
    BY <1>1, <2>2 DEF EpollWait, ListExpiredCb, CbsEnd, DrainPipe, CountEvent,
       IdleYield, SkipEvent, CountOff, ResetInsert
  <2>3. QED
    BY <1>3, <1>4, <1>5, <1>6, <1>9, <2>1, <2>2 DEF ThreadStep
<1>10. CASE StopStep
  BY <1>1, <1>10 DEF StopStep, Stop, StopTickle, StopRun, StopJoin
<1>11. CASE EnvStep
  BY <1>1, <1>11 DEF EnvStep, TimerDue, EventReady
<1>12. QED
  BY <1>1, <1>7, <1>8, <1>9, <1>10, <1>11 DEF Next

(* Timer n is in the set or in the hands of reset().                       *)
Held(n) == n \in m_timers \/ \E u \in Threads : pc[u] = "reset" /\ hand[u] = n

(* RecurringOK, timer by timer, before and after a step.                   *)
LEMMA HeldFacts ==
  /\ RecurringOK <=> \A n \in recurring : Held(n)
  /\ RecurringOK' <=> \A n \in recurring' : Held(n)'
<1>1. RecurringOK <=> \A n \in recurring : Held(n)
  BY Zenon DEF RecurringOK, Held
<1>2. RecurringOK' <=> \A n \in recurring' : Held(n)'
  BY Zenon DEF RecurringOK, Held
<1>3. QED
  BY <1>1, <1>2

(* Whatever happens, a recurring timer stays in the set or in the hands of *)
(* reset(), or is recurring no more.                                       *)
LEMMA RecurringStep == IInv /\ RecurringOK /\ [Next]_vars => RecurringOK'
<1> SUFFICES ASSUME IInv, RecurringOK, [Next]_vars PROVE RecurringOK'
  OBVIOUS
<1> USE DEF vars, dataVars, runVars, timerVars, eventVars, handVars, wakeVars,
        workVars
<1>0. TypeOK /\ \A t \in Threads : ThreadOK(t)
  BY DEF IInv
<1>t. pc \in [Threads -> PC] /\ hand \in [Threads -> Work \cup {NULL}]
  BY <1>0 DEF TypeOK
<1>h. \A n \in recurring : Held(n)
  BY HeldFacts
<1>1. ASSUME \A n \in recurring' \ m_timers' : n \in recurring \ m_timers,
             \A u \in Threads : pc[u] = "reset" => pc'[u] = "reset" /\ hand'[u] = hand[u]
      PROVE  RecurringOK'
  <2>1. ASSUME NEW n \in recurring' PROVE Held(n)'
    BY <1>h, <1>1 DEF Held
  <2>2. QED
    BY <2>1, HeldFacts
<1>2. ASSUME NEW t \in Threads, NEW l, Goto(t, l) \/ CallTickle(t, l),
             pc[t] # "reset", \A u \in Threads \ {t} : hand'[u] = hand[u],
             \A n \in recurring' \ m_timers' : n \in recurring \ m_timers
      PROVE  RecurringOK'
  <2>1. \A u \in Threads : pc[u] = "reset" => pc'[u] = "reset" /\ hand'[u] = hand[u]
    BY <1>2, <1>t DEF Goto, CallTickle
  <2>2. QED
    BY <1>1, <1>2, <2>1
<1>3. ASSUME NEW t \in Threads, ClientStep(t) PROVE RecurringOK'
  <2>1. ASSUME NEW thr \in Pins, Schedule(t, thr) PROVE RecurringOK'
    BY <1>2, <2>1 DEF Schedule, Post, Client
  <2>2. ASSUME NEW r \in Recurs, AddTimer(t, r) PROVE RecurringOK'
    <3>1. \A n \in recurring' \ m_timers' : n \in recurring \ m_timers
      BY <2>2 DEF AddTimer
    <3>2. QED
      BY <1>2, <2>2, <3>1 DEF AddTimer, TickleOrNot, Client
  <2>3. CASE AddEvent(t)
    BY <1>1, <2>3 DEF AddEvent
  <2>4. ASSUME NEW n \in Work, CancelTimer(t, n) \/ Refresh(t, n) \/ DelEvent(t, n)
        PROVE  RecurringOK'
    BY <1>1, <2>4 DEF CancelTimer, Refresh, Drop, DelEvent
  <2>5. ASSUME NEW n \in Work, ResetErase(t, n) PROVE RecurringOK'
    <3>1. /\ pc'[t] = "reset" /\ hand'[t] = n /\ recurring' = recurring
          /\ m_timers' = m_timers \ {n} /\ pc[t] # "reset"
          /\ \A u \in Threads \ {t} : pc'[u] = pc[u] /\ hand'[u] = hand[u]
      BY <1>t, <2>5 DEF ResetErase, Goto, Client
    <3>2. ASSUME NEW m \in recurring' PROVE Held(m)'
      BY <1>h, <3>1 DEF Held
    <3>3. QED
      BY <3>2, HeldFacts
  <2>6. ASSUME NEW n \in Work, CancelEvent(t, n) PROVE RecurringOK'
    BY <1>2, <1>t, <2>6 DEF CancelEvent, Unregister, Client
  <2>7. ASSUME NEW n \in Work, CancelAll(t, n) PROVE RecurringOK'
    BY <1>2, <2>7 DEF CancelAll, Post, Client
  <2>8. QED
    BY <1>3, <2>1, <2>2, <2>3, <2>4, <2>5, <2>6, <2>7 DEF ClientStep
<1>4. ASSUME NEW t \in Threads, ResetInsert(t) PROVE RecurringOK'
  <2>1. /\ \/ m_timers' = m_timers \cup {hand[t]} /\ recurring' = recurring
           \/ m_timers' = m_timers /\ recurring' = recurring \ {hand[t]}
        /\ \A u \in Threads \ {t} : pc'[u] = pc[u] /\ hand'[u] = hand[u]
    BY <1>t, <1>4 DEF ResetInsert, TickleOrNot, Goto, CallTickle
  <2>2. ASSUME NEW m \in recurring' PROVE Held(m)'
    BY <1>h, <2>1 DEF Held
  <2>3. QED
    BY <2>2, HeldFacts
<1>5. ASSUME NEW t \in Threads,
             Tickle(t) \/ CancelTrigger(t) \/ CountOff(t) \/ FetchTask(t)
               \/ FetchNone(t) \/ IdleResume(t) \/ RunExit(t) \/ BodyEnd(t)
      PROVE  RecurringOK'
  <2>1. /\ pc[t] # "reset" /\ UNCHANGED <<m_timers, recurring>>
        /\ \A u \in Threads \ {t} : hand'[u] = hand[u]
    BY <1>5, <1>t DEF Tickle, CancelTrigger, CountOff, FetchTask, FetchNone,
       IdleResume, RunExit, BodyEnd, At
  <2>2. \E l : Goto(t, l) \/ CallTickle(t, l)
    BY <1>5 DEF Tickle, CancelTrigger, CountOff, FetchTask, FetchNone, IdleResume,
       RunExit, BodyEnd, Post
  <2>3. QED
    BY <1>2, <2>1, <2>2
<1>6. ASSUME NEW t \in Threads,
             ReadTimers(t) \/ ReadPending(t) \/ ReadScheduler(t) \/ EpollWait(t)
               \/ EpollTimeout(t) \/ CbsEnd(t) \/ CountEvent(t) \/ IdleYield(t)
      PROVE  RecurringOK'
  <2>1. pc[t] # "reset" /\ UNCHANGED <<m_timers, recurring, hand>>
    BY <1>6 DEF ReadTimers, ReadPending, ReadScheduler, EpollWait, EpollTimeout,
       CbsEnd, CountEvent, IdleYield, At
  <2>2. \E l : Goto(t, l)
    BY <1>6 DEF ReadTimers, ReadPending, ReadScheduler, EpollWait, EpollTimeout,
       CbsEnd, CountEvent, IdleYield
  <2>3. QED
    BY <1>2, <2>1, <2>2
<1>7. ASSUME NEW t \in Threads, ListExpiredCb(t) PROVE RecurringOK'
  <2>1. \A n \in recurring' \ m_timers' : n \in recurring \ m_timers
    BY <1>7 DEF ListExpiredCb
  <2>2. QED
    BY <1>2, <1>7, <2>1 DEF ListExpiredCb, At
<1>8. ASSUME NEW t \in Threads, NEW n \in Work, PostCb(t, n) \/ TriggerEvent(t, n)
      PROVE  RecurringOK'
  BY <1>2, <1>8 DEF PostCb, TriggerEvent, Post, At
<1>9. ASSUME NEW t \in Threads, DrainPipe(t) \/ \E n \in Work : SkipEvent(t, n)
      PROVE  RecurringOK'
  BY <1>1, <1>9 DEF DrainPipe, SkipEvent
<1>10. CASE Stop \/ StopRun \/ StopJoin
  BY <1>2, <1>10, PoolFacts DEF Stop, StopRun, StopJoin, At
<1>11. CASE StopTickle \/ EnvStep \/ UNCHANGED vars
  BY <1>1, <1>11 DEF StopTickle, EnvStep, TimerDue, EventReady
<1>12. ASSUME NEW t \in Threads, ThreadStep(t) PROVE RecurringOK'
  BY <1>4, <1>5, <1>6, <1>7, <1>8, <1>9, <1>12 DEF ThreadStep
<1>13. QED
  BY <1>3, <1>5, <1>6, <1>10, <1>11, <1>12 DEF Next, StopStep

(* At first there is no work, and no box holds any.                        *)
LEMMA InitOneBox == Init => ListedOnce /\ OneBox /\ RecurringOK
<1> SUFFICES ASSUME Init PROVE ListedOnce /\ OneBox /\ RecurringOK
  OBVIOUS
<1>1. Listed = {} /\ ListedOnce
  BY DEF Init, Listed, ListedOnce
<1>2. \A t \in Threads : Box(<<"cbs", t>>) = {} /\ Box(<<"hand", t>>) = {}
                         /\ Box(<<"task", t>>) = {}
  BY ThreadBoxFacts DEF Init
<1>3. \A b \in Boxes : Box(b) = {}
  BY <1>1, <1>2, BoxFacts, BoxCases DEF Init
<1>4. work = 0 /\ recurring = {}
  BY DEF Init
<1>5. RecurringOK
  BY <1>4 DEF RecurringOK
<1>6. QED
  BY <1>1, <1>3, <1>4, <1>5 DEF OneBox

(* No task, entry of the timer set or registration is ever lost or executed*)
(* twice on its way through timers, epoll, callbacks in hand, reset(),     *)
(* cancelEvent(), the task list and the threads: it is in exactly one of   *)
(* these places, once, or over; and only a timer of the set, or one that   *)
(* reset() is about to put back, is recurring.                             *)
THEOREM WorkConserved == Spec => [](ListedOnce /\ OneBox /\ RecurringOK)
<1>1. IInv /\ ListedOnce /\ OneBox /\ RecurringOK /\ [Next]_vars
        => (ListedOnce /\ OneBox /\ RecurringOK)'
  BY OneBoxStep, ListedStep, RecurringStep
<1>2. QED
  BY Invariance, InitOneBox, <1>1, PTL DEF Spec

-----------------------------------------------------------------------------
(* The pool of the default constructor: one thread, the caller's own.      *)

(* It goes to sleep, and ends its idle fiber, only with an empty list.     *)
SoleOK ==
  /\ Place(Caller) \in {"idle?", "timers", "pending", "sched", "wait"} => m_tasks = <<>>
  /\ Caller \in idleEnded => /\ m_tasks = <<>>
                             /\ pc[Caller] \in {"fetch", "idle?", "join", "stopped"}

(* The only thread may take every task of the list.                        *)
LEMMA SoleTakes ==
  ASSUME Workers = {}, TypeOK, m_tasks # <<>>, NEW t \in Threads
  PROVE  Eligible(t) # {}
<1>1. t = Caller /\ Pool \subseteq {Caller}
  BY DEF Threads, Pool
<1>2. Len(m_tasks) \in Nat /\ Len(m_tasks) # 0
  BY LenProperties, EmptySeq DEF TypeOK
<1>3. 1 \in 1..Len(m_tasks) /\ m_tasks[1] \in Task
  BY <1>2, ElementOfSeq DEF TypeOK
<1>4. m_tasks[1].thread \in {NULL, t}
  BY <1>1, <1>3, IOManagerAssumption DEF Task
<1>5. 1 \in Eligible(t)
  BY <1>3, <1>4 DEF Eligible
<1>6. QED
  BY <1>5

(* Nobody else posts while the only thread is in its idle fiber.           *)
LEMMA SoleStep ==
  ASSUME Workers = {}, IInv, SoleOK, [Next]_vars
  PROVE  SoleOK'
<1> USE DEF vars, dataVars, runVars, timerVars, eventVars, handVars, wakeVars,
        workVars
<1>0. TypeOK /\ \A t \in Threads : ThreadOK(t)
  BY DEF IInv
<1>t. pc \in [Threads -> PC] /\ ret \in [Threads -> PC] /\ Threads = {Caller}
  BY <1>0 DEF TypeOK, Threads
<1> DEFINE quiet == {"idle?", "timers", "pending", "sched", "wait"}
           ended == {"fetch", "idle?", "join", "stopped"}
<1>1. ASSUME UNCHANGED <<pc, ret, m_tasks, idleEnded>> PROVE SoleOK'
  BY <1>1 DEF SoleOK, Place
<1>2. ASSUME NEW t \in Threads, NEW l, Goto(t, l) \/ CallTickle(t, l),
             l \notin quiet \cup {"tickle"}, pc[t] \notin ended, UNCHANGED idleEnded
      PROVE  SoleOK'
  <2>1. Place(Caller)' \notin quiet /\ Caller \notin idleEnded'
    BY <1>2, <1>t DEF Goto, CallTickle, SoleOK, Place
  <2>2. QED
    BY <2>1 DEF SoleOK, Place
<1>3. ASSUME NEW t \in Threads, ClientStep(t) PROVE SoleOK'
  <2>h. Home(t) \notin quiet \cup {"tickle"} /\ (Client(t) => pc[t] \notin ended)
    BY DEF Home, Client
  <2>1. ASSUME NEW thr \in Pins, Schedule(t, thr) PROVE SoleOK'
    BY <1>2, <2>h, <2>1 DEF Schedule, Post
  <2>2. ASSUME NEW r \in Recurs, AddTimer(t, r) PROVE SoleOK'
    BY <1>2, <2>h, <2>2 DEF AddTimer, TickleOrNot
  <2>3. CASE AddEvent(t)
    BY <1>1, <2>3 DEF AddEvent
  <2>4. ASSUME NEW n \in Work, CancelTimer(t, n) \/ Refresh(t, n) \/ DelEvent(t, n)
        PROVE  SoleOK'
    BY <1>1, <2>4 DEF CancelTimer, Refresh, DelEvent
  <2>5. ASSUME NEW n \in Work, CancelEvent(t, n) \/ ResetErase(t, n) PROVE SoleOK'
    BY <1>2, <2>h, <2>5 DEF CancelEvent, Unregister, ResetErase
  <2>6. ASSUME NEW n \in Work, CancelAll(t, n) PROVE SoleOK'
    BY <1>2, <2>h, <2>6 DEF CancelAll, Post
  <2>7. QED
    BY <1>3, <2>1, <2>2, <2>3, <2>4, <2>5, <2>6 DEF ClientStep
<1>4. ASSUME NEW t \in Threads, Tickle(t) PROVE SoleOK'
  <2>1. /\ pc[t] = "tickle" /\ UNCHANGED <<m_tasks, idleEnded>>
        /\ pc' = [pc EXCEPT ![t] = ret[t]]
        /\ ret[t] \in {"main", "body", "off", "idle?", "cbs", "count"}
    BY <1>0, <1>4 DEF Tickle, At, Goto, ThreadOK
  <2>2. Caller \notin idleEnded
    BY <1>t, <2>1 DEF SoleOK
  <2>3. Place(Caller)' = Place(Caller)
    BY <1>t, <2>1 DEF Place
  <2>4. QED
    BY <2>1, <2>2, <2>3 DEF SoleOK
<1>5. ASSUME NEW t \in Threads, CancelTrigger(t) \/ ResetInsert(t) \/ CountOff(t)
      PROVE  SoleOK'
  <2>1. Home(t) \notin quiet \cup {"tickle"}
    BY DEF Home
  <2>2. QED
    BY <1>2, <1>5, <2>1 DEF CancelTrigger, ResetInsert, CountOff, Post,
       TickleOrNot, At
<1>6. ASSUME NEW t \in Threads, FetchTask(t) PROVE SoleOK'
  <2>1. m_tasks # <<>>
    BY <1>6, EmptySeq DEF FetchTask, Eligible
  <2>2. Caller \notin idleEnded' /\ Place(Caller)' = "body"
    BY <1>6, <1>t, <2>1 DEF FetchTask, CallTickle, SoleOK, Place
  <2>3. QED
    BY <2>2 DEF SoleOK
<1>7. ASSUME NEW t \in Threads, FetchNone(t) PROVE SoleOK'
  <2>1. m_tasks = <<>>
    BY <1>0, <1>7, SoleTakes DEF FetchNone
  <2>2. UNCHANGED <<m_tasks, idleEnded>> /\ pc'[Caller] = "idle?"
    BY <1>7, <1>t, <2>1 DEF FetchNone, Goto
  <2>3. QED
    BY <2>1, <2>2 DEF SoleOK, Place
<1>8. ASSUME NEW t \in Threads, BodyEnd(t) PROVE SoleOK'
  BY <1>2, <1>8 DEF BodyEnd, At
<1>9. ASSUME NEW t \in Threads, IdleResume(t) \/ RunExit(t) PROVE SoleOK'
  <2>1. UNCHANGED <<m_tasks, idleEnded>> /\ pc[Caller] = "idle?"
    BY <1>9, <1>t DEF IdleResume, RunExit, At
  <2>2. IF Caller \in idleEnded THEN pc'[Caller] = "join" ELSE pc'[Caller] = "timers"
    BY <1>9, <1>t DEF IdleResume, RunExit, At, Goto
  <2>3. QED
    BY <2>1, <2>2 DEF SoleOK, Place
<1>10. ASSUME NEW t \in Threads, ReadTimers(t) \/ ReadPending(t) PROVE SoleOK'
  <2>1. /\ UNCHANGED <<m_tasks, idleEnded>> /\ pc[Caller] \in {"timers", "pending"}
        /\ pc'[Caller] \in {"pending", "sched", "wait"}
    BY <1>10, <1>t DEF ReadTimers, ReadPending, At, Goto
  <2>2. QED
    BY <2>1 DEF SoleOK, Place
<1>11. ASSUME NEW t \in Threads, ReadScheduler(t) PROVE SoleOK'
  <2>1. m_tasks = <<>> /\ m_tasks' = m_tasks /\ Caller \notin idleEnded
    BY <1>11, <1>t DEF ReadScheduler, At, SoleOK, Place
  <2>2. IF SchedulerStopping THEN pc'[Caller] = "fetch" ELSE UNCHANGED idleEnded
    BY <1>11, <1>t DEF ReadScheduler, Goto
  <2>3. QED
    BY <2>1, <2>2 DEF SoleOK, Place
<1>12. ASSUME NEW t \in Threads,
              EpollWait(t) \/ EpollTimeout(t) \/ ListExpiredCb(t) \/ CbsEnd(t)
                \/ CountEvent(t) \/ IdleYield(t)
       PROVE  SoleOK'
  BY <1>2, <1>12 DEF EpollWait, EpollTimeout, ListExpiredCb, CbsEnd, CountEvent,
     IdleYield, At
<1>13. ASSUME NEW t \in Threads, NEW n \in Work, PostCb(t, n) \/ TriggerEvent(t, n)
       PROVE  SoleOK'
  BY <1>2, <1>13 DEF PostCb, TriggerEvent, Post, At
<1>14. ASSUME NEW t \in Threads, DrainPipe(t) \/ \E n \in Work : SkipEvent(t, n)
       PROVE  SoleOK'
  BY <1>1, <1>14 DEF DrainPipe, SkipEvent
<1>15. CASE Stop \/ StopRun
  <2>1. /\ UNCHANGED <<m_tasks, idleEnded>> /\ pc[Caller] \in {"main", "stop"}
        /\ pc'[Caller] \in {"stop", "fetch", "join"}
    BY <1>15, <1>t DEF Stop, StopRun, At, Goto
  <2>2. QED
    BY <2>1 DEF SoleOK, Place
<1>16. CASE StopTickle \/ EnvStep \/ UNCHANGED vars
  BY <1>1, <1>16 DEF StopTickle, EnvStep, TimerDue, EventReady
<1>17. CASE StopJoin
  <2>1. UNCHANGED <<m_tasks, idleEnded>> /\ pc[Caller] = "join" /\ pc'[Caller] = "stopped"
    BY <1>17, <1>t DEF StopJoin, At, Goto
  <2>2. QED
    BY <2>1 DEF SoleOK, Place
<1>18. ASSUME NEW t \in Threads, ThreadStep(t) PROVE SoleOK'
  BY <1>4, <1>5, <1>6, <1>7, <1>9, <1>10, <1>11, <1>12, <1>13, <1>14, <1>18
     DEF ThreadStep
<1>19. QED
  BY <1>3, <1>8, <1>12, <1>15, <1>16, <1>17, <1>18 DEF Next, StopStep

(* A pool whose only thread is the caller, as IOManager() makes it, never  *)
(* waits in epoll_wait with a task in the list: the wake-up that           *)
(* IOManagerSleep sees dropped takes a second thread to be missed.         *)
THEOREM SoleInvariance == Workers = {} => (Spec => []SoleOK)
<1> SUFFICES ASSUME Workers = {} PROVE Spec => []SoleOK
  OBVIOUS
<1>1. Init => SoleOK
  BY DEF Init, SoleOK, Place, Threads
<1>2. QED
  BY Invariance, <1>1, SoleStep, PTL DEF Spec

-----------------------------------------------------------------------------
(* From here on the caller is a thread of the pool: the only one, or one   *)
(* of several whose bodies add no timers or events after stop() and pin no *)
(* task to a thread.  What the counterexamples to WorkHasThread and to the *)
(* refinement have in common is that this does not hold.                   *)
Drains ==
  UseCaller /\ (Workers = {} \/ (~LateWork /\ Pins \subseteq {NULL}))

(* A thread that would scan the list goes on to do so while it has tasks.  *)
LEMMA LiveStep ==
  ASSUME Drains, IInv, [Next]_vars, m_tasks # <<>>, NEW u \in Threads, Live(u)
  PROVE  Live(u)'
<1> USE DEF vars, dataVars, runVars, timerVars, eventVars, handVars, wakeVars,
        workVars
<1>0. TypeOK /\ ThreadOK(u) /\ CallerOK /\ \A t \in Threads : ThreadOK(t)
  BY DEF IInv
<1>t. pc \in [Threads -> PC] /\ ret \in [Threads -> PC] /\ idleEnded \subseteq Threads
  BY <1>0, PoolFacts DEF TypeOK
<1>1. ASSUME UNCHANGED idleEnded, pc'[u] = pc[u], ret'[u] = ret[u] PROVE Live(u)'
  BY <1>1 DEF Live, Gone, Place
<1>2. ASSUME NEW t \in Threads, NEW l, Goto(t, l) \/ CallTickle(t, l),
             l \notin {"tickle", "idle?", "exit", "join", "stopped"},
             UNCHANGED idleEnded
      PROVE  Live(u)'
  BY <1>1, <1>2, <1>t DEF Live, Gone, Place, Goto, CallTickle
<1>3. ASSUME NEW t \in Threads, ClientStep(t) PROVE Live(u)'
  <2>h. Home(t) \in {"main", "body"}
    BY DEF Home
  <2>1. ASSUME NEW thr \in Pins, Schedule(t, thr) PROVE Live(u)'
    BY <1>2, <2>h, <2>1 DEF Schedule, Post
  <2>2. ASSUME NEW r \in Recurs, AddTimer(t, r) PROVE Live(u)'
    BY <1>2, <2>h, <2>2 DEF AddTimer, TickleOrNot
  <2>3. CASE AddEvent(t)
    BY <1>1, <2>3 DEF AddEvent
  <2>4. ASSUME NEW n \in Work, CancelTimer(t, n) \/ Refresh(t, n) \/ DelEvent(t, n)
        PROVE  Live(u)'
    BY <1>1, <2>4 DEF CancelTimer, Refresh, DelEvent
  <2>5. ASSUME NEW n \in Work, CancelEvent(t, n) \/ ResetErase(t, n) PROVE Live(u)'
    BY <1>2, <2>5 DEF CancelEvent, ResetErase
  <2>6. ASSUME NEW n \in Work, CancelAll(t, n) PROVE Live(u)'
    BY <1>2, <2>6 DEF CancelAll, Post
  <2>7. QED
    BY <1>3, <2>1, <2>2, <2>3, <2>4, <2>5, <2>6 DEF ClientStep
<1>4. ASSUME NEW t \in Threads, Tickle(t) PROVE Live(u)'
  <2>1. ret[t] \in {"main", "body", "off", "idle?", "cbs", "count"}
    BY <1>0, <1>4 DEF Tickle, At, ThreadOK
  <2>2. Place(u)' = Place(u) /\ UNCHANGED idleEnded
    BY <1>4, <1>t, <2>1 DEF Tickle, At, Goto, Place
  <2>3. ~Gone(u)'
    BY <1>4, <1>t, <2>1 DEF Tickle, At, Goto, Gone, Live
  <2>4. QED
    BY <2>2, <2>3 DEF Live
<1>5. ASSUME NEW t \in Threads, CancelTrigger(t) \/ ResetInsert(t) \/ CountOff(t)
      PROVE  Live(u)'
  <2>1. Home(t) \in {"main", "body"}
    BY DEF Home
  <2>2. QED
    BY <1>2, <1>5, <2>1 DEF CancelTrigger, ResetInsert, CountOff, Post,
       TickleOrNot
<1>6. ASSUME NEW t \in Threads, FetchTask(t) \/ BodyEnd(t) PROVE Live(u)'
  BY <1>2, <1>6 DEF FetchTask, BodyEnd
<1>7. ASSUME NEW t \in Threads, FetchNone(t) PROVE Live(u)'
  <2>1. Len(m_tasks) \in Nat /\ Len(m_tasks) # 0
    BY <1>0, LenProperties, EmptySeq DEF TypeOK
  <2>2. 1 \in 1..Len(m_tasks) /\ m_tasks[1] \in Task
    BY <1>0, <2>1, ElementOfSeq DEF TypeOK
  <2>3. CASE Workers = {}
    BY <1>0, <1>7, <2>3, SoleTakes DEF FetchNone
  <2>4. CASE Pins \subseteq {NULL}
    <3>1. m_tasks[1].thread = NULL
      BY <2>2, <2>4 DEF Task
    <3>2. 1 \in Eligible(t)
      BY <2>2, <3>1 DEF Eligible
    <3>3. QED
      BY <1>7, <3>2 DEF FetchNone
  <2>5. QED
    BY <2>3, <2>4 DEF Drains
<1>8. ASSUME NEW t \in Threads, IdleResume(t) PROVE Live(u)'
  BY <1>2, <1>8 DEF IdleResume
<1>9. ASSUME NEW t \in Threads, RunExit(t) PROVE Live(u)'
  <2>1. t # u
    BY <1>9 DEF RunExit, At, Live, Place
  <2>2. QED
    BY <1>1, <1>9, <1>t, <2>1 DEF RunExit, Goto
<1>10. ASSUME NEW t \in Threads,
              ReadTimers(t) \/ ReadPending(t) \/ EpollWait(t) \/ EpollTimeout(t)
       PROVE  Live(u)'
  BY <1>2, <1>10 DEF ReadTimers, ReadPending, EpollWait, EpollTimeout
<1>11. ASSUME NEW t \in Threads, ReadScheduler(t) PROVE Live(u)'
  <2>1. idleEnded' \subseteq idleEnded \cup {t}
    BY <1>11 DEF ReadScheduler
  <2>2. pc'[t] \in {"fetch", "wait"} /\ \A v \in Threads \ {t} : pc'[v] = pc[v]
    BY <1>11, <1>t DEF ReadScheduler, Goto
  <2>3. UNCHANGED ret
    BY <1>11 DEF ReadScheduler, Goto
  <2>4. QED
    BY <2>1, <2>2, <2>3 DEF Live, Gone, Place
<1>12. ASSUME NEW t \in Threads, ListExpiredCb(t) \/ CbsEnd(t) \/ IdleYield(t)
       PROVE  Live(u)'
  BY <1>2, <1>12 DEF ListExpiredCb, CbsEnd, IdleYield
<1>13. ASSUME NEW t \in Threads, DrainPipe(t) PROVE Live(u)'
  BY <1>1, <1>13 DEF DrainPipe
<1>14. ASSUME NEW t \in Threads, CountEvent(t) PROVE Live(u)'
  BY <1>2, <1>14 DEF CountEvent
<1>15. ASSUME NEW t \in Threads, NEW n \in Work, PostCb(t, n) \/ TriggerEvent(t, n)
       PROVE  Live(u)'
  BY <1>2, <1>15 DEF PostCb, TriggerEvent, Post
<1>16. ASSUME NEW t \in Threads, NEW n \in Work, SkipEvent(t, n) PROVE Live(u)'
  BY <1>1, <1>16 DEF SkipEvent
<1>17. CASE Stop \/ StopRun
  BY <1>2, <1>17, PoolFacts DEF Stop, StopRun, Drains
<1>18. CASE StopTickle
  BY <1>1, <1>18 DEF StopTickle
<1>19. CASE StopJoin
  <2>1. u # Caller
    BY <1>19 DEF StopJoin, At, Live, Gone
  <2>2. QED
    BY <1>1, <1>19, <1>t, <2>1 DEF StopJoin, Goto
<1>20. CASE EnvStep
  BY <1>1, <1>20 DEF EnvStep, TimerDue, EventReady
<1>21. CASE UNCHANGED vars
  BY <1>1, <1>21
<1>22. ASSUME NEW t \in Threads, ThreadStep(t) PROVE Live(u)'
  BY <1>4, <1>5, <1>6, <1>7, <1>8, <1>9, <1>10, <1>11, <1>12, <1>13, <1>14,
     <1>15, <1>16, <1>22 DEF ThreadStep
<1>23. QED
  BY <1>3, <1>6, <1>10, <1>17, <1>18, <1>19, <1>20, <1>21, <1>22
     DEF Next, StopStep

(* A thread that posts a task scans the list afterwards.                   *)
LEMMA PosterLives ==
  ASSUME IInv, [Next]_vars, m_tasks = <<>>, m_tasks' # <<>>
  PROVE  \E t \in Threads : Live(t)'
<1> USE DEF vars, dataVars, runVars, timerVars, eventVars, handVars, wakeVars,
        workVars
<1>0. TypeOK
  BY DEF IInv
<1>t. pc \in [Threads -> PC] /\ ret \in [Threads -> PC]
  BY <1>0 DEF TypeOK
<1>1. ASSUME NEW t \in Threads, NEW l \in {"main", "body", "off", "cbs", "count"},
             CallTickle(t, l) \/ Goto(t, l)
      PROVE  \E v \in Threads : Live(v)'
  BY <1>1, <1>t DEF CallTickle, Goto, Live, Gone, Place
<1>2. ASSUME NEW t \in Threads, NEW thr \in Pins, Schedule(t, thr)
      PROVE  \E v \in Threads : Live(v)'
  BY <1>1, <1>2 DEF Schedule, Post, Home
<1>3. ASSUME NEW t \in Threads, CancelTrigger(t) PROVE \E v \in Threads : Live(v)'
  BY <1>1, <1>3 DEF CancelTrigger, Post, Home
<1>c. ASSUME NEW t \in Threads, NEW n \in Work, CancelAll(t, n)
      PROVE  \E v \in Threads : Live(v)'
  BY <1>1, <1>c DEF CancelAll, Post
<1>4. ASSUME NEW t \in Threads, NEW n \in Work, PostCb(t, n) \/ TriggerEvent(t, n)
      PROVE  \E v \in Threads : Live(v)'
  BY <1>1, <1>4 DEF PostCb, TriggerEvent, Post
<1>5. ASSUME NEW t \in Threads, FetchTask(t) PROVE FALSE
  <2>1. Eligible(t) = {}
    BY EmptySeq DEF Eligible
  <2>2. QED
    BY <1>5, <2>1 DEF FetchTask
<1>6. ASSUME NEW t \in Threads, ClientStep(t) PROVE \E v \in Threads : Live(v)'
  BY <1>2, <1>c, <1>6 DEF ClientStep, AddTimer, AddEvent, CancelTimer, Refresh,
     ResetErase, DelEvent, CancelEvent
<1>7. ASSUME NEW t \in Threads, ThreadStep(t) PROVE \E v \in Threads : Live(v)'
  <2>1. ~(\/ Tickle(t) \/ FetchNone(t) \/ IdleResume(t) \/ RunExit(t)
          \/ ReadTimers(t) \/ ReadPending(t) \/ ReadScheduler(t))
    BY DEF Tickle, FetchNone, IdleResume, RunExit, ReadTimers, ReadPending,
       ReadScheduler
  <2>2. ~(\/ EpollWait(t) \/ ListExpiredCb(t) \/ CbsEnd(t) \/ DrainPipe(t)
          \/ CountEvent(t) \/ IdleYield(t) \/ CountOff(t) \/ ResetInsert(t)
          \/ \E n \in Work : SkipEvent(t, n))
    BY DEF EpollWait, ListExpiredCb, CbsEnd, DrainPipe, CountEvent, IdleYield,
       CountOff, ResetInsert, SkipEvent
  <2>3. QED
    BY <1>3, <1>4, <1>5, <1>7, <2>1, <2>2 DEF ThreadStep
<1>8. ~(UNCHANGED vars \/ StopStep \/ EnvStep)
  BY DEF StopStep, Stop, StopTickle, StopRun, StopJoin, EnvStep, TimerDue, EventReady
<1>9. ASSUME NEW t \in Threads PROVE ~(BodyEnd(t) \/ EpollTimeout(t))
  BY DEF BodyEnd, EpollTimeout
<1>10. QED
  BY <1>6, <1>7, <1>8, <1>9 DEF Next

(* Only stop() sets m_stopping, and the destructor returns from the joins. *)
LEMMA ClosedStep ==
  ASSUME IInv, [Next]_vars, ~Stop, ~StopJoin
  PROVE  m_stopping' = m_stopping /\ (pc'[Caller] = "stopped" <=> pc[Caller] = "stopped")
<1> USE DEF vars, dataVars, runVars, timerVars, eventVars, handVars, wakeVars,
        workVars
<1> DEFINE Goal == /\ m_stopping' = m_stopping
                   /\ pc'[Caller] = "stopped" <=> pc[Caller] = "stopped"
<1>0. TypeOK /\ \A t \in Threads : ThreadOK(t)
  BY DEF IInv
<1>t. pc \in [Threads -> PC] /\ Caller \in Threads
  BY <1>0, PoolFacts DEF TypeOK
<1>1. ASSUME UNCHANGED <<pc, m_stopping>> PROVE Goal
  BY <1>1
<1>2. ASSUME NEW t \in Threads, NEW l, Goto(t, l) \/ CallTickle(t, l),
             l # "stopped", pc[t] # "stopped", UNCHANGED m_stopping
      PROVE  Goal
  BY <1>2, <1>t DEF Goto, CallTickle
<1>3. ASSUME NEW t \in Threads, ClientStep(t) PROVE Goal
  <2>h. Home(t) # "stopped" /\ (Client(t) => pc[t] # "stopped")
    BY DEF Home, Client
  <2>1. ASSUME NEW thr \in Pins, Schedule(t, thr) PROVE Goal
    BY <1>2, <2>h, <2>1 DEF Schedule, Post
  <2>2. ASSUME NEW r \in Recurs, AddTimer(t, r) PROVE Goal
    BY <1>2, <2>h, <2>2 DEF AddTimer, TickleOrNot
  <2>3. CASE AddEvent(t)
    BY <1>1, <2>3 DEF AddEvent
  <2>4. ASSUME NEW n \in Work, CancelTimer(t, n) \/ Refresh(t, n) \/ DelEvent(t, n)
        PROVE  Goal
    BY <1>1, <2>4 DEF CancelTimer, Refresh, DelEvent
  <2>5. ASSUME NEW n \in Work, CancelEvent(t, n) \/ ResetErase(t, n) PROVE Goal
    BY <1>2, <2>h, <2>5 DEF CancelEvent, Unregister, ResetErase
  <2>6. ASSUME NEW n \in Work, CancelAll(t, n) PROVE Goal
    BY <1>2, <2>h, <2>6 DEF CancelAll, Post
  <2>7. QED
    BY <1>3, <2>1, <2>2, <2>3, <2>4, <2>5, <2>6 DEF ClientStep
<1>4. ASSUME NEW t \in Threads, Tickle(t) PROVE Goal
  <2>1. ret[t] \in {"main", "body", "off", "idle?", "cbs", "count"}
    BY <1>0, <1>4 DEF Tickle, At, ThreadOK
  <2>2. QED
    BY <1>2, <1>4, <2>1 DEF Tickle, At
<1>5. ASSUME NEW t \in Threads, CancelTrigger(t) \/ ResetInsert(t) \/ CountOff(t)
      PROVE  Goal
  <2>1. Home(t) # "stopped"
    BY DEF Home
  <2>2. QED
    BY <1>2, <1>5, <2>1 DEF CancelTrigger, ResetInsert, CountOff, Post,
       TickleOrNot, At
<1>6. ASSUME NEW t \in Threads,
             FetchTask(t) \/ FetchNone(t) \/ BodyEnd(t) \/ IdleResume(t) \/ RunExit(t)
      PROVE  Goal
  BY <1>2, <1>6 DEF FetchTask, FetchNone, BodyEnd, IdleResume, RunExit, At
<1>7. ASSUME NEW t \in Threads, ReadTimers(t) \/ ReadPending(t) \/ ReadScheduler(t)
      PROVE  Goal
  BY <1>2, <1>7 DEF ReadTimers, ReadPending, ReadScheduler, At
<1>8. ASSUME NEW t \in Threads,
             EpollWait(t) \/ EpollTimeout(t) \/ ListExpiredCb(t) \/ CbsEnd(t)
               \/ CountEvent(t) \/ IdleYield(t)
      PROVE  Goal
  BY <1>2, <1>8 DEF EpollWait, EpollTimeout, ListExpiredCb, CbsEnd, CountEvent,
     IdleYield, At
<1>9. ASSUME NEW t \in Threads, DrainPipe(t) PROVE Goal
  BY <1>1, <1>9 DEF DrainPipe
<1>10. ASSUME NEW t \in Threads, NEW n \in Work, PostCb(t, n) \/ TriggerEvent(t, n)
       PROVE  Goal
  BY <1>2, <1>10 DEF PostCb, TriggerEvent, Post, At
<1>11. ASSUME NEW t \in Threads, NEW n \in Work, SkipEvent(t, n) PROVE Goal
  BY <1>1, <1>11 DEF SkipEvent
<1>12. CASE StopRun
  BY <1>2, <1>t, <1>12 DEF StopRun, At
<1>13. CASE StopTickle \/ EnvStep \/ UNCHANGED vars
  BY <1>1, <1>13 DEF StopTickle, EnvStep, TimerDue, EventReady
<1>14. ASSUME NEW t \in Threads, ThreadStep(t) PROVE Goal
  BY <1>4, <1>5, <1>6, <1>7, <1>8, <1>9, <1>10, <1>11, <1>14 DEF ThreadStep
<1>15. QED
  BY <1>3, <1>6, <1>8, <1>12, <1>13, <1>14 DEF Next, StopStep

(* Who puts the first timer into the set or registers the first event: a   *)
(* client, before stop() or with late work, or reset().                    *)
LEMMA Adder ==
  ASSUME IInv, [Next]_vars,
         (m_timers = {} /\ m_timers' # {}) \/ (events = {} /\ events' # {})
  PROVE  \E t \in Threads : /\ UNCHANGED idleEnded
                            /\ pc'[t] \in {"main", "body", "tickle"}
                            /\ pc[t] = "reset" \/ (Client(t) /\ Late)
<1> USE DEF vars, dataVars, runVars, timerVars, eventVars, handVars, wakeVars,
        workVars
<1> DEFINE Added == \/ m_timers = {} /\ m_timers' # {}
                    \/ events = {} /\ events' # {}
           Goal == \E t \in Threads : /\ UNCHANGED idleEnded
                                      /\ pc'[t] \in {"main", "body", "tickle"}
                                      /\ pc[t] = "reset" \/ (Client(t) /\ Late)
<1>0. TypeOK
  BY DEF IInv
<1>t. pc \in [Threads -> PC]
  BY <1>0 DEF TypeOK
<1>1. ASSUME NEW t \in Threads, ClientStep(t) PROVE Goal
  <2>1. ASSUME NEW r \in Recurs, AddTimer(t, r) PROVE Goal
    <3>1. pc'[t] \in {"main", "body", "tickle"}
      BY <1>t, <2>1 DEF AddTimer, TickleOrNot, CallTickle, Goto, Home
    <3>2. QED
      BY <2>1, <3>1 DEF AddTimer
  <2>2. CASE AddEvent(t)
    BY <2>2 DEF AddEvent, Client
  <2>3. ASSUME NEW thr \in Pins, Schedule(t, thr) PROVE FALSE
    BY <2>3 DEF Schedule
  <2>4. ASSUME NEW n \in Work, CancelTimer(t, n) \/ Refresh(t, n) \/ ResetErase(t, n)
        PROVE  FALSE
    BY <2>4 DEF CancelTimer, Refresh, Drop, ResetErase
  <2>5. ASSUME NEW n \in Work, DelEvent(t, n) \/ CancelEvent(t, n) \/ CancelAll(t, n)
        PROVE  FALSE
    BY <2>5 DEF DelEvent, CancelEvent, CancelAll, Unregister
  <2>6. QED
    BY <1>1, <2>1, <2>2, <2>3, <2>4, <2>5 DEF ClientStep
<1>2. ASSUME NEW t \in Threads, ResetInsert(t) PROVE Goal
  <2>1. pc'[t] \in {"main", "body", "tickle"}
    BY <1>t, <1>2 DEF ResetInsert, TickleOrNot, CallTickle, Goto, Home
  <2>2. QED
    BY <1>2, <2>1 DEF ResetInsert, At
<1>3. ASSUME NEW t \in Threads,
             Tickle(t) \/ CancelTrigger(t) \/ CountOff(t) \/ FetchTask(t)
               \/ FetchNone(t) \/ BodyEnd(t) \/ IdleResume(t) \/ RunExit(t)
      PROVE  FALSE
  BY <1>3 DEF Tickle, CancelTrigger, CountOff, FetchTask, FetchNone, BodyEnd,
     IdleResume, RunExit
<1>4. ASSUME NEW t \in Threads,
             ReadTimers(t) \/ ReadPending(t) \/ ReadScheduler(t) \/ EpollWait(t)
               \/ EpollTimeout(t) \/ CbsEnd(t) \/ DrainPipe(t) \/ CountEvent(t)
               \/ IdleYield(t)
      PROVE  FALSE
  BY <1>4 DEF ReadTimers, ReadPending, ReadScheduler, EpollWait, EpollTimeout,
     CbsEnd, DrainPipe, CountEvent, IdleYield
<1>5. ASSUME NEW t \in Threads, ListExpiredCb(t) PROVE FALSE
  <2>1. PICK k \in 0..Cardinality(due \cap recurring) :
          m_timers' = (m_timers \ due) \cup ((work + 1)..(work + k))
    BY <1>5 DEF ListExpiredCb
  <2>2. m_timers = {} /\ due = {}
    BY <1>0, <1>5 DEF ListExpiredCb, TypeOK
  <2>3. k = 0
    BY <2>2, FS_EmptySet
  <2>4. m_timers' = {}
    BY <1>0, <2>1, <2>2, <2>3, SpareFacts
  <2>5. QED
    BY <1>5, <2>4 DEF ListExpiredCb
<1>6. ASSUME NEW t \in Threads, NEW n \in Work,
             PostCb(t, n) \/ TriggerEvent(t, n) \/ SkipEvent(t, n)
      PROVE  FALSE
  BY <1>6 DEF PostCb, TriggerEvent, SkipEvent
<1>7. CASE StopStep \/ EnvStep \/ UNCHANGED vars
  BY <1>7 DEF StopStep, Stop, StopTickle, StopRun, StopJoin, EnvStep, TimerDue,
     EventReady
<1>8. QED
  BY <1>1, <1>2, <1>3, <1>4, <1>5, <1>6, <1>7 DEF Next, ThreadStep

(* How a thread comes to be past a read of stopping(), to have ended its   *)
(* idle fiber, or to have left run().                                      *)
LEMMA LeaveSteps ==
  ASSUME Drains, IInv, [Next]_vars, NEW u \in Threads
  PROVE  /\ pc'[u] = "pending" => pc[u] = "pending" \/ ReadTimers(u)
         /\ pc'[u] = "sched" => pc[u] = "sched" \/ ReadPending(u)
         /\ u \in idleEnded' => u \in idleEnded \/ (ReadScheduler(u) /\ SchedulerStopping)
         /\ Gone(u)' => Gone(u) \/ RunExit(u)
         /\ idleEnded \subseteq idleEnded'
<1> USE DEF vars, dataVars, runVars, timerVars, eventVars, handVars, wakeVars,
        workVars
<1> DEFINE Goal == /\ pc'[u] = "pending" => pc[u] = "pending" \/ ReadTimers(u)
                   /\ pc'[u] = "sched" => pc[u] = "sched" \/ ReadPending(u)
                   /\ u \in idleEnded' =>
                        u \in idleEnded \/ (ReadScheduler(u) /\ SchedulerStopping)
                   /\ Gone(u)' => Gone(u) \/ RunExit(u)
                   /\ idleEnded \subseteq idleEnded'
<1>0. TypeOK /\ \A t \in Threads : ThreadOK(t)
  BY DEF IInv
<1>t. pc \in [Threads -> PC]
  BY <1>0 DEF TypeOK
<1>1. ASSUME UNCHANGED <<idleEnded, pc>> PROVE Goal
  BY <1>1 DEF Gone
<1>2. ASSUME NEW t \in Threads, NEW l, Goto(t, l) \/ CallTickle(t, l),
             l \notin {"pending", "sched", "exit", "join", "stopped"},
             UNCHANGED idleEnded
      PROVE  Goal
  <2>1. pc'[u] = pc[u] \/ pc'[u] = l \/ pc'[u] = "tickle"
    BY <1>2, <1>t DEF Goto, CallTickle
  <2>2. QED
    BY <1>2, <2>1 DEF Gone
<1>3. ASSUME NEW t \in Threads, ClientStep(t) PROVE Goal
  <2>h. Home(t) \in {"main", "body"}
    BY DEF Home
  <2>1. ASSUME NEW thr \in Pins, Schedule(t, thr) PROVE Goal
    BY <1>2, <2>h, <2>1 DEF Schedule, Post
  <2>2. ASSUME NEW r \in Recurs, AddTimer(t, r) PROVE Goal
    BY <1>2, <2>h, <2>2 DEF AddTimer, TickleOrNot
  <2>3. CASE AddEvent(t)
    BY <1>1, <2>3 DEF AddEvent
  <2>4. ASSUME NEW n \in Work, CancelTimer(t, n) \/ Refresh(t, n) \/ DelEvent(t, n)
        PROVE  Goal
    BY <1>1, <2>4 DEF CancelTimer, Refresh, DelEvent
  <2>5. ASSUME NEW n \in Work, CancelEvent(t, n) \/ ResetErase(t, n) PROVE Goal
    BY <1>2, <2>5 DEF CancelEvent, ResetErase
  <2>6. ASSUME NEW n \in Work, CancelAll(t, n) PROVE Goal
    BY <1>2, <2>6 DEF CancelAll, Post
  <2>7. QED
    BY <1>3, <2>1, <2>2, <2>3, <2>4, <2>5, <2>6 DEF ClientStep
<1>4. ASSUME NEW t \in Threads, Tickle(t) PROVE Goal
  <2>1. ret[t] \in {"main", "body", "off", "idle?", "cbs", "count"}
    BY <1>0, <1>4 DEF Tickle, At, ThreadOK
  <2>2. QED
    BY <1>2, <1>4, <2>1 DEF Tickle
<1>5. ASSUME NEW t \in Threads, CancelTrigger(t) \/ ResetInsert(t) \/ CountOff(t)
      PROVE  Goal
  <2>1. Home(t) \in {"main", "body"}
    BY DEF Home
  <2>2. QED
    BY <1>2, <1>5, <2>1 DEF CancelTrigger, ResetInsert, CountOff, Post,
       TickleOrNot
<1>6. ASSUME NEW t \in Threads,
             FetchTask(t) \/ FetchNone(t) \/ BodyEnd(t) \/ IdleResume(t)
      PROVE  Goal
  BY <1>2, <1>6 DEF FetchTask, FetchNone, BodyEnd, IdleResume
<1>7. ASSUME NEW t \in Threads, ReadTimers(t) \/ ReadPending(t) \/ RunExit(t)
      PROVE  Goal
  <2>1. CASE t = u
    BY <1>7, <1>t, <2>1 DEF ReadTimers, ReadPending, RunExit, Goto, Gone
  <2>2. CASE t # u
    BY <1>7, <1>t, <2>2 DEF ReadTimers, ReadPending, RunExit, Goto, Gone
  <2>3. QED
    BY <2>1, <2>2
<1>8. ASSUME NEW t \in Threads, ReadScheduler(t) PROVE Goal
  <2>1. /\ idleEnded' = IF SchedulerStopping THEN idleEnded \cup {t} ELSE idleEnded
        /\ pc'[u] = pc[u] \/ pc'[u] \in {"fetch", "wait"}
    BY <1>8, <1>t DEF ReadScheduler, Goto
  <2>2. QED
    BY <1>8, <2>1 DEF Gone
<1>9. ASSUME NEW t \in Threads,
             EpollWait(t) \/ EpollTimeout(t) \/ ListExpiredCb(t) \/ CbsEnd(t)
               \/ CountEvent(t) \/ IdleYield(t)
      PROVE  Goal
  BY <1>2, <1>9 DEF EpollWait, EpollTimeout, ListExpiredCb, CbsEnd, CountEvent,
     IdleYield
<1>10. ASSUME NEW t \in Threads, DrainPipe(t) PROVE Goal
  BY <1>1, <1>10 DEF DrainPipe
<1>11. ASSUME NEW t \in Threads, NEW n \in Work, PostCb(t, n) \/ TriggerEvent(t, n)
       PROVE  Goal
  BY <1>2, <1>11 DEF PostCb, TriggerEvent, Post
<1>12. ASSUME NEW t \in Threads, NEW n \in Work, SkipEvent(t, n) PROVE Goal
  BY <1>1, <1>12 DEF SkipEvent
<1>13. CASE Stop \/ StopRun
  BY <1>2, <1>13, PoolFacts DEF Stop, StopRun, Drains
<1>14. CASE StopTickle \/ EnvStep \/ UNCHANGED vars
  BY <1>1, <1>14 DEF StopTickle, EnvStep, TimerDue, EventReady
<1>15. CASE StopJoin
  BY <1>15, <1>t DEF StopJoin, At, Goto, Gone
<1>16. ASSUME NEW t \in Threads, ThreadStep(t) PROVE Goal
  BY <1>4, <1>5, <1>6, <1>7, <1>8, <1>9, <1>10, <1>11, <1>12, <1>16 DEF ThreadStep
<1>17. QED
  BY <1>3, <1>6, <1>9, <1>13, <1>14, <1>15, <1>16 DEF Next, StopStep

(* The places at which a thread goes on to look at the timers again, or is *)
(* about to put one back.                                                  *)
Busy == IdlePC \cup {"reset"}

(* How a thread comes to be at one of them.                                *)
LEMMA BusySteps ==
  ASSUME IInv, [Next]_vars, NEW u \in Threads, Place(u)' \in Busy
  PROVE  Place(u) \in Busy \/ IdleResume(u) \/ \E n \in Work : ResetErase(u, n)
<1> USE DEF vars, dataVars, runVars, timerVars, eventVars, handVars, wakeVars,
        workVars
<1> DEFINE Goal == \/ Place(u) \in Busy \/ IdleResume(u)
                   \/ \E n \in Work : ResetErase(u, n)
<1>0. TypeOK /\ \A t \in Threads : ThreadOK(t)
  BY DEF IInv
<1>1. ASSUME UNCHANGED <<pc, ret>> PROVE Goal
  BY <1>1 DEF Place
<1>2. ASSUME NEW t \in Threads, NEW l \in PC \ {"tickle"},
             Goto(t, l) \/ CallTickle(t, l), l \notin Busy \/ Place(t) \in Busy
      PROVE  Goal
  <2>1. CASE u = t
    BY <1>0, <1>2, <2>1, Moved
  <2>2. CASE u # t
    BY <1>0, <1>2, <2>2, Moved
  <2>3. QED
    BY <2>1, <2>2
<1>l. /\ {"main", "body", "off", "cancel", "idle?", "fetch", "exit", "join", "stop",
          "stopped"} \subseteq PC \ ({"tickle"} \cup Busy)
      /\ IdlePC \subseteq PC \ {"tickle"} /\ IdlePC \subseteq Busy
      /\ "reset" \in PC \ {"tickle"}
  BY DEF PC, IdlePC, Busy
<1>h. \A t \in Threads : Home(t) \in PC \ ({"tickle"} \cup Busy)
  BY <1>l DEF Home
<1>3. ASSUME NEW t \in Threads, ClientStep(t) PROVE Goal
  <2>1. ASSUME NEW thr \in Pins, Schedule(t, thr) PROVE Goal
    BY <1>2, <1>h, <2>1 DEF Schedule, Post
  <2>2. ASSUME NEW r \in Recurs, AddTimer(t, r) PROVE Goal
    BY <1>2, <1>h, <2>2 DEF AddTimer, TickleOrNot
  <2>3. CASE AddEvent(t)
    BY <1>1, <2>3 DEF AddEvent
  <2>4. ASSUME NEW n \in Work, CancelTimer(t, n) \/ Refresh(t, n) \/ DelEvent(t, n)
        PROVE  Goal
    BY <1>1, <2>4 DEF CancelTimer, Refresh, DelEvent
  <2>5. ASSUME NEW n \in Work, ResetErase(t, n) PROVE Goal
    <3>1. CASE u = t
      BY <2>5, <3>1
    <3>2. CASE u # t
      BY <1>0, <1>l, <2>5, <3>2, Moved DEF ResetErase
    <3>3. QED
      BY <3>1, <3>2
  <2>6. ASSUME NEW n \in Work, CancelEvent(t, n) \/ CancelAll(t, n) PROVE Goal
    BY <1>2, <1>l, <2>6 DEF CancelEvent, CancelAll, Post
  <2>7. QED
    BY <1>3, <2>1, <2>2, <2>3, <2>4, <2>5, <2>6 DEF ClientStep
<1>4. ASSUME NEW t \in Threads, Tickle(t) PROVE Goal
  <2>1. /\ ret[t] \in {"main", "body", "off", "idle?", "cbs", "count"}
        /\ Place(t) = ret[t] /\ Goto(t, ret[t])
    BY <1>0, <1>4 DEF Tickle, At, ThreadOK, Place
  <2>2. ret[t] \in PC \ {"tickle"}
    BY <2>1 DEF PC, IdlePC
  <2>3. QED
    BY <1>2, <2>1, <2>2
<1>5. ASSUME NEW t \in Threads, CancelTrigger(t) \/ ResetInsert(t) \/ CountOff(t)
      PROVE  Goal
  BY <1>2, <1>h, <1>5 DEF CancelTrigger, ResetInsert, CountOff, Post, TickleOrNot
<1>6. ASSUME NEW t \in Threads,
             FetchTask(t) \/ FetchNone(t) \/ BodyEnd(t) \/ RunExit(t) \/ IdleYield(t)
      PROVE  Goal
  BY <1>2, <1>l, <1>6 DEF FetchTask, FetchNone, BodyEnd, RunExit, IdleYield
<1>7. ASSUME NEW t \in Threads, IdleResume(t) PROVE Goal
  <2>1. CASE u = t
    BY <1>7, <2>1
  <2>2. CASE u # t
    <3>1. "timers" \in PC \ {"tickle"}
      BY DEF PC, IdlePC
    <3>2. QED
      BY <1>0, <1>7, <2>2, <3>1, Moved DEF IdleResume
  <2>3. QED
    BY <2>1, <2>2
<1>8. ASSUME NEW t \in Threads,
             ReadTimers(t) \/ ReadPending(t) \/ ReadScheduler(t) \/ EpollWait(t)
               \/ EpollTimeout(t) \/ ListExpiredCb(t) \/ CbsEnd(t) \/ CountEvent(t)
               \/ \E n \in Work : PostCb(t, n) \/ TriggerEvent(t, n)
      PROVE  Goal
  <2>1. pc[t] \in IdlePC
    BY <1>8 DEF ReadTimers, ReadPending, ReadScheduler, EpollWait, EpollTimeout,
       ListExpiredCb, CbsEnd, CountEvent, PostCb, TriggerEvent, At, IdlePC
  <2>2. \E l \in IdlePC \cup {"fetch"} : Goto(t, l) \/ CallTickle(t, l)
    BY <1>8 DEF ReadTimers, ReadPending, ReadScheduler, EpollWait, EpollTimeout,
       ListExpiredCb, CbsEnd, CountEvent, PostCb, TriggerEvent, Post, IdlePC
  <2>3. Place(t) \in Busy
    BY <1>l, <2>1 DEF Place
  <2>4. QED
    BY <1>2, <1>l, <2>2, <2>3
<1>9. ASSUME NEW t \in Threads, DrainPipe(t) \/ \E n \in Work : SkipEvent(t, n)
      PROVE  Goal
  BY <1>1, <1>9 DEF DrainPipe, SkipEvent
<1>10. CASE Stop \/ StopRun \/ StopJoin
  BY <1>2, <1>l, <1>10, PoolFacts DEF Stop, StopRun, StopJoin
<1>11. CASE StopTickle \/ EnvStep \/ UNCHANGED vars
  BY <1>1, <1>11 DEF StopTickle, EnvStep, TimerDue, EventReady
<1>12. ASSUME NEW t \in Threads, ThreadStep(t) PROVE Goal
  BY <1>4, <1>5, <1>6, <1>7, <1>8, <1>9, <1>12 DEF ThreadStep
<1>13. QED
  BY <1>3, <1>6, <1>8, <1>10, <1>11, <1>12 DEF Next, StopStep

(* A timer and an event go on having a thread that will look at them       *)
(* again, and the list one that will scan it.                              *)
LEMMA LeaveStep ==
  ASSUME Drains, IInv, Workers = {} => SoleOK, LeaveOK, [Next]_vars
  PROVE  LeaveOK'
<1>0. TypeOK /\ CallerOK /\ CountOK
  BY DEF IInv
<1>p. Pool = Threads /\ Caller \in Threads
  BY DEF Drains, Pool, Threads
<1>t. pc \in [Threads -> PC] /\ idleEnded \subseteq Threads /\ idleEnded' \subseteq Threads
  BY <1>0, <1>p, TypeStep DEF TypeOK
<1>1. (~m_stopping)' => idleEnded' = {}
  <2> SUFFICES ASSUME (~m_stopping)' PROVE idleEnded' = {}
    OBVIOUS
  <2>1. ~m_stopping
    <3>1. ~Stop
      BY DEF Stop
    <3>2. StopJoin => m_stopping' = m_stopping
      BY DEF StopJoin, dataVars, runVars
    <3>3. QED
      BY <3>1, <3>2, ClosedStep
  <2>2. ASSUME NEW u \in idleEnded' PROVE FALSE
    <3>1. idleEnded = {} /\ u \in Threads
      BY <1>t, <2>1, <2>2 DEF LeaveOK
    <3>2. SchedulerStopping
      BY <2>2, <3>1, LeaveSteps
    <3>3. QED
      BY <2>1, <3>2 DEF SchedulerStopping
  <2>3. QED
    BY <2>2
<1>2. ASSUME NEW t \in Pool, Gone(t)' PROVE t \in idleEnded'
  <2>1. CASE Gone(t)
    BY <1>p, <2>1, LeaveSteps DEF LeaveOK
  <2>2. CASE RunExit(t)
    BY <1>p, <2>2, LeaveSteps DEF RunExit
  <2>3. QED
    BY <1>p, <1>2, <2>1, <2>2, LeaveSteps
<1>c. ASSUME NEW t \in Threads, Client(t), Late PROVE t \notin idleEnded
  <2>1. CASE ~m_stopping
    BY <2>1 DEF LeaveOK
  <2>2. CASE Workers = {}
    <3>1. t = Caller
      BY <2>2 DEF Threads
    <3>2. QED
      BY <1>c, <2>2, <3>1 DEF SoleOK, Client
  <2>3. QED
    BY <1>c, <2>1, <2>2 DEF Late, Drains
<1>3. ASSUME NEW t \in idleEnded' PROVE Place(t)' \notin Busy
  <2> SUFFICES ASSUME Place(t)' \in Busy PROVE FALSE
    OBVIOUS
  <2>1. CASE t \in idleEnded
    <3>1. Place(t) \notin Busy
      BY <2>1 DEF LeaveOK, Busy
    <3>2. ~IdleResume(t)
      BY <2>1 DEF IdleResume
    <3>3. \A n \in Work : ~ResetErase(t, n)
      BY <1>c, <1>t, <2>1 DEF ResetErase
    <3>4. QED
      BY <1>t, <3>1, <3>2, <3>3, BusySteps
  <2>2. CASE ReadScheduler(t) /\ SchedulerStopping
    BY <1>t, <2>2 DEF ReadScheduler, Goto, Place, Busy, IdlePC
  <2>3. QED
    BY <1>t, <2>1, <2>2, LeaveSteps
<1>a. ASSUME \/ m_timers = {} /\ m_timers' # {}
             \/ events = {} /\ events' # {}
      PROVE  \E t \in Threads \ idleEnded' : pc'[t] \notin {"pending", "sched"}
  <2>1. PICK t \in Threads : /\ UNCHANGED idleEnded
                             /\ pc'[t] \in {"main", "body", "tickle"}
                             /\ pc[t] = "reset" \/ (Client(t) /\ Late)
    BY <1>a, Adder
  <2>2. t \notin idleEnded
    BY <1>c, <2>1 DEF LeaveOK, Place
  <2>3. QED
    BY <2>1, <2>2
<1>4. ASSUME m_timers' # {}
      PROVE  \E t \in Threads \ idleEnded' : pc'[t] \notin {"pending", "sched"}
  <2>1. CASE m_timers = {}
    BY <1>a, <1>4, <2>1
  <2>2. CASE m_timers # {}
    <3>1. PICK t \in Threads \ idleEnded : pc[t] \notin {"pending", "sched"}
      BY <1>p, <2>2 DEF LeaveOK
    <3>2. ReadTimers(t) => pc'[t] # "pending"
      BY <1>t, <2>2 DEF ReadTimers, Goto
    <3>3. ~ReadPending(t) /\ ~ReadScheduler(t)
      BY <3>1 DEF ReadPending, ReadScheduler, At
    <3>4. t \notin idleEnded' /\ pc'[t] \notin {"pending", "sched"}
      BY <3>1, <3>2, <3>3, LeaveSteps
    <3>5. QED
      BY <3>4
  <2>3. QED
    BY <2>1, <2>2
<1>5. ASSUME events' # {}
      PROVE  \E t \in Threads \ idleEnded' : pc'[t] # "sched"
  <2>1. CASE events = {}
    BY <1>a, <1>5, <2>1
  <2>2. CASE events # {}
    <3>1. PICK t \in Threads \ idleEnded : pc[t] # "sched"
      BY <1>p, <2>2 DEF LeaveOK
    <3>2. Cardinality(events) # 0
      BY <1>0, <2>2, CountFacts, FS_EmptySet
    <3>3. m_pendingEventCount # 0
      BY <1>0, <3>2, CountFacts DEF CountOK
    <3>4. ReadPending(t) => pc'[t] # "sched"
      BY <1>t, <3>3 DEF ReadPending, Goto
    <3>5. ~ReadScheduler(t)
      BY <3>1 DEF ReadScheduler, At
    <3>6. t \notin idleEnded' /\ pc'[t] # "sched"
      BY <3>1, <3>4, <3>5, LeaveSteps
    <3>7. QED
      BY <3>6
  <2>3. QED
    BY <2>1, <2>2
<1>6. ASSUME m_tasks' # <<>> PROVE \E t \in Threads : Live(t)'
  <2>1. CASE m_tasks = <<>>
    BY <1>6, <2>1, PosterLives
  <2>2. CASE m_tasks # <<>>
    <3>1. PICK t \in Threads : Live(t)
      BY <1>p, <2>2 DEF LeaveOK
    <3>2. QED
      BY <2>2, <3>1, LiveStep
  <2>3. QED
    BY <2>1, <2>2
<1>7. QED
  BY <1>1, <1>2, <1>3, <1>4, <1>5, <1>6, <1>p DEF LeaveOK, Busy

(* Once all threads have left, all work is over.                           *)
LEMMA AllGone ==
  ASSUME Drains, IInv, LeaveOK, \A t \in Threads : Gone(t)
  PROVE  \A b \in Boxes : b # <<"done", NULL>> => Box(b) = {}
<1>p. Pool = Threads /\ Caller \in Threads
  BY DEF Drains, Pool, Threads
<1>1. m_timers = {} /\ events = {}
  BY <1>p DEF LeaveOK
<1>2. m_tasks = <<>>
  BY <1>p DEF LeaveOK, Live
<1>3. Listed = {}
  BY <1>2, EmptySeq DEF Listed
<1>4. ASSUME NEW t \in Threads PROVE cbs[t] = {} /\ hand[t] = NULL /\ task[t] = NULL
  BY DEF IInv, ThreadOK, CallPC, Gone, Place
<1>5. \A t \in Threads : Box(<<"cbs", t>>) = {} /\ Box(<<"hand", t>>) = {}
                         /\ Box(<<"task", t>>) = {}
  BY <1>4, ThreadBoxFacts
<1>6. QED
  BY <1>1, <1>3, <1>5, BoxFacts, BoxCases

(* Waiting and the work that runs, box by box.                             *)
LEMMA WaitingFacts ==
  /\ \A n : n \in Waiting <=> \E b \in Waits : n \in Box(b)
  /\ \A n : n \in Waiting' <=> \E b \in Waits : n \in Box(b)'
<1>0. \A n : n \in Waiting <=> \/ n \in Listed \cup m_timers \cup events
                               \/ \E t \in Threads : n \in cbs[t]
                               \/ \E t \in Threads : n = hand[t] /\ n # NULL
  <2> DEFINE C == UNION {cbs[t] : t \in Threads}
             H == {hand[t] : t \in Threads}
  <2>1. Waiting = Listed \cup m_timers \cup events \cup C \cup (H \ {NULL})
    BY DEF Waiting, Listed
  <2>2. \A n : n \in C <=> \E t \in Threads : n \in cbs[t]
    BY Zenon
  <2>3. \A n : n \in H <=> \E t \in Threads : n = hand[t]
    BY Zenon
  <2> HIDE DEF C, H
  <2>4. QED
    BY <2>1, <2>2, <2>3
<1>1. \A n : n \in Waiting' <=> \/ n \in Listed' \cup m_timers' \cup events'
                                \/ \E t \in Threads : n \in cbs'[t]
                                \/ \E t \in Threads : n = hand'[t] /\ n # NULL
  <2> DEFINE C == UNION {cbs'[t] : t \in Threads}
             H == {hand'[t] : t \in Threads}
  <2>1. Waiting' = Listed' \cup m_timers' \cup events' \cup C \cup (H \ {NULL})
    BY DEF Waiting, Listed
  <2>2. \A n : n \in C <=> \E t \in Threads : n \in cbs'[t]
    BY Zenon
  <2>3. \A n : n \in H <=> \E t \in Threads : n = hand'[t]
    BY Zenon
  <2> HIDE DEF C, H
  <2>4. QED
    BY <2>1, <2>2, <2>3
<1>2. ASSUME NEW b \in Waits
      PROVE  \/ b \in {<<"list", NULL>>, <<"timers", NULL>>, <<"events", NULL>>}
             \/ \E t \in Threads : b \in {<<"cbs", t>>, <<"hand", t>>}
  <2>1. b \in Boxes /\ b # <<"done", NULL>> /\ \A t \in Threads : b # <<"task", t>>
    BY WaitsCases
  <2>2. QED
    BY <2>1, BoxCases
<1>3. ASSUME NEW n, n \in Waiting PROVE \E b \in Waits : n \in Box(b)
  <2>1. CASE n \in Listed \cup m_timers \cup events
    BY <2>1, BoxFacts, WaitsCases
  <2>2. ASSUME NEW t \in Threads, n \in cbs[t] PROVE \E b \in Waits : n \in Box(b)
    <3>1. n \in Box(<<"cbs", t>>) /\ <<"cbs", t>> \in Waits
      BY <2>2, ThreadBoxFacts, WaitsCases
    <3>2. QED
      BY <3>1
  <2>3. ASSUME NEW t \in Threads, n = hand[t], n # NULL
        PROVE  \E b \in Waits : n \in Box(b)
    <3>1. n \in Box(<<"hand", t>>) /\ <<"hand", t>> \in Waits
      BY <2>3, ThreadBoxFacts, WaitsCases
    <3>2. QED
      BY <3>1
  <2>4. QED
    BY <1>0, <1>3, <2>1, <2>2, <2>3
<1>4. ASSUME NEW n, n \in Waiting' PROVE \E b \in Waits : n \in Box(b)'
  <2>1. CASE n \in Listed' \cup m_timers' \cup events'
    BY <2>1, BoxFacts, WaitsCases
  <2>2. ASSUME NEW t \in Threads, n \in cbs'[t] PROVE \E b \in Waits : n \in Box(b)'
    <3>1. n \in Box(<<"cbs", t>>)' /\ <<"cbs", t>> \in Waits
      BY <2>2, ThreadBoxFacts, WaitsCases
    <3>2. QED
      BY <3>1
  <2>3. ASSUME NEW t \in Threads, n = hand'[t], n # NULL
        PROVE  \E b \in Waits : n \in Box(b)'
    <3>1. n \in Box(<<"hand", t>>)' /\ <<"hand", t>> \in Waits
      BY <2>3, ThreadBoxFacts, WaitsCases
    <3>2. QED
      BY <3>1
  <2>4. QED
    BY <1>1, <1>4, <2>1, <2>2, <2>3
<1>5. ASSUME NEW b \in Waits, NEW n \in Box(b) PROVE n \in Waiting
  <2>1. CASE b \in {<<"list", NULL>>, <<"timers", NULL>>, <<"events", NULL>>}
    BY <1>0, <1>5, <2>1, BoxFacts
  <2>2. ASSUME NEW t \in Threads, b = <<"cbs", t>> PROVE n \in Waiting
    <3>1. n \in cbs[t]
      BY <1>5, <2>2, ThreadBoxFacts
    <3>2. QED
      BY <1>0, <3>1
  <2>3. ASSUME NEW t \in Threads, b = <<"hand", t>> PROVE n \in Waiting
    <3>1. n = hand[t] /\ n # NULL
      BY <1>5, <2>3, ThreadBoxFacts
    <3>2. QED
      BY <1>0, <3>1
  <2>4. QED
    BY <1>2, <2>1, <2>2, <2>3
<1>6. ASSUME NEW b \in Waits, NEW n \in Box(b)' PROVE n \in Waiting'
  <2>1. CASE b \in {<<"list", NULL>>, <<"timers", NULL>>, <<"events", NULL>>}
    BY <1>1, <1>6, <2>1, BoxFacts
  <2>2. ASSUME NEW t \in Threads, b = <<"cbs", t>> PROVE n \in Waiting'
    <3>1. n \in cbs'[t]
      BY <1>6, <2>2, ThreadBoxFacts
    <3>2. QED
      BY <1>1, <3>1
  <2>3. ASSUME NEW t \in Threads, b = <<"hand", t>> PROVE n \in Waiting'
    <3>1. n = hand'[t] /\ n # NULL
      BY <1>6, <2>3, ThreadBoxFacts
    <3>2. QED
      BY <1>1, <3>1
  <2>4. QED
    BY <1>2, <2>1, <2>2, <2>3
<1>7. QED
  BY <1>3, <1>4, <1>5, <1>6

(* The work whose body has begun.                                          *)
Running == {task[t].no : t \in {u \in Pool : task[u] # NULL}}

(* With the caller in the pool, every thread's task counts.                *)
LEMMA RunningFacts ==
  ASSUME Drains
  PROVE  /\ \A n : n \in Running <=> \E t \in Threads : n \in Box(<<"task", t>>)
         /\ \A n : n \in Running' <=> \E t \in Threads : n \in Box(<<"task", t>>)'
<1>1. Pool = Threads
  BY DEF Drains, Pool, Threads
<1>2. \A t \in Threads :
        /\ \A n : n \in Box(<<"task", t>>) <=> task[t] # NULL /\ n = task[t].no
        /\ \A n : n \in Box(<<"task", t>>)' <=> task'[t] # NULL /\ n = task'[t].no
  BY ThreadBoxFacts
<1>3. \A n : n \in Running <=> \E t \in Threads : task[t] # NULL /\ n = task[t].no
  BY <1>1, Zenon DEF Running
<1>4. \A n : n \in Running' <=> \E t \in Threads : task'[t] # NULL /\ n = task'[t].no
  BY <1>1, Zenon DEF Running
<1>5. ASSUME NEW n PROVE n \in Running <=> \E t \in Threads : n \in Box(<<"task", t>>)
  BY <1>2, <1>3
<1>6. ASSUME NEW n PROVE n \in Running' <=> \E t \in Threads : n \in Box(<<"task", t>>)'
  BY <1>2, <1>4
<1>7. QED
  BY <1>5, <1>6

-----------------------------------------------------------------------------
(* The reads of stopping() that a thread leaves on may be stale, and       *)
(* listExpiredCb() and reset() take timers out and put them back: yet as   *)
(* long as a timer or an event is left there is a thread that does not     *)
(* leave before it has looked again, and the list always keeps one that    *)
(* will scan it: the invariant of the orderly shutdown.                    *)
THEOREM WorkInvariance == Drains => (Spec => []WorkInv)
<1> SUFFICES ASSUME Drains PROVE Spec => []WorkInv
  OBVIOUS
<1>1. Init => LeaveOK
  BY EmptySeq DEF Init, LeaveOK, Gone, Drains, Pool, Threads
<1>2. Spec => [](Workers = {} => SoleOK)
  <2>1. CASE Workers = {}
    <3>1. SoleOK => (Workers = {} => SoleOK)
      OBVIOUS
    <3>2. QED
      BY <2>1, <3>1, SoleInvariance, PTL
  <2>2. CASE Workers # {}
    <3>1. Workers = {} => SoleOK
      BY <2>2
    <3>2. QED
      BY <3>1, PTL
  <2>3. QED
    BY <2>1, <2>2
<1>3. IInv /\ (Workers = {} => SoleOK) /\ LeaveOK /\ [Next]_vars => LeaveOK'
  BY LeaveStep
<1>4. Spec => []LeaveOK
  BY Invariance, <1>1, <1>2, <1>3, PTL DEF Spec
<1>5. IInv /\ (ListedOnce /\ OneBox /\ RecurringOK) /\ LeaveOK => WorkInv
  BY DEF WorkInv
<1>6. QED
  BY Invariance, WorkConserved, <1>4, <1>5, PTL

(* With the caller in the pool, the last thread does not leave while there *)
(* is work: the property that IOManagerLeave finds violated without it.    *)
THEOREM WorkKeepsAThread == Drains => (Spec => []WorkHasThread)
<1> SUFFICES ASSUME Drains PROVE Spec => []WorkHasThread
  OBVIOUS
<1>1. WorkInv => WorkHasThread
  <2> SUFFICES ASSUME WorkInv, \A t \in Pool : Gone(t), NEW n \in Waiting PROVE FALSE
    BY DEF WorkHasThread
  <2>1. \A t \in Threads : Gone(t)
    BY DEF Drains, Pool, Threads
  <2>2. PICK b \in Waits : n \in Box(b)
    BY WaitingFacts
  <2>3. b \in Boxes /\ b # <<"done", NULL>>
    BY WaitsCases
  <2>4. Box(b) = {}
    BY <2>1, <2>3, AllGone DEF WorkInv
  <2>5. QED
    BY <2>2, <2>4
<1>2. QED
  BY WorkInvariance, <1>1, PTL

(* What a step does to the three sets of the abstract pool.                *)
LEMMA PoolStep ==
  ASSUME Drains, WorkInv, [Next]_vars
  PROVE  \/ UNCHANGED <<Waiting, Running, done, work, recurring>>
         \/ /\ ~m_stopping \/ Running # {}
            /\ work < MaxWork /\ work' = work + 1
            /\ Waiting' = Waiting \cup {work + 1} /\ UNCHANGED <<Running, done>>
            /\ recurring' \in {recurring, recurring \cup {work + 1}}
         \/ \E n \in Work : /\ n \in Waiting \ recurring /\ Waiting' = Waiting \ {n}
                            /\ Running' = Running \cup {n}
                            /\ UNCHANGED <<done, work, recurring>>
         \/ \E n \in Work : /\ n \in Running /\ Running' = Running \ {n}
                            /\ done' = done \cup {n}
                            /\ UNCHANGED <<Waiting, work, recurring>>
         \/ \E n \in Work : /\ n \in Waiting /\ Waiting' = Waiting \ {n}
                            /\ done' = done \cup {n} /\ recurring' = recurring \ {n}
                            /\ UNCHANGED <<Running, work>>
         \/ \E R \in SUBSET recurring, k \in 0..MaxWork :
              /\ R # {} /\ k <= Cardinality(R) /\ work + k <= MaxWork
              /\ k = 0 => Waiting # R
              /\ work' = work + k /\ Waiting' = Waiting \cup Again(k)
              /\ recurring' = (recurring \ R) \cup Again(k)
              /\ UNCHANGED <<Running, done>>
<1> DEFINE T(t) == <<"task", t>>
           D == <<"done", NULL>>
           L == <<"list", NULL>>
           M == <<"timers", NULL>>
           C(t) == <<"cbs", t>>
<1>0. IInv /\ ListedOnce /\ OneBox /\ RecurringOK
  BY DEF WorkInv
<1>b. /\ Waits \subseteq Boxes /\ D \in Boxes /\ D \notin Waits
      /\ L \in Waits /\ M \in Waits /\ \A t \in Threads : C(t) \in Waits
      /\ \A t \in Threads : T(t) \in Boxes /\ T(t) \notin Waits /\ T(t) # D
  BY WaitsCases, BoxCases
<1>d. done = Box(D) /\ done' = Box(D)'
  BY BoxFacts
<1>o. \A b, c \in Boxes : b # c => Box(b) \cap Box(c) = {}
  BY <1>0 DEF OneBox
<1>w. /\ \A n : n \in Waiting <=> \E b \in Waits : n \in Box(b)
      /\ \A n : n \in Waiting' <=> \E b \in Waits : n \in Box(b)'
  BY WaitingFacts
<1>r. /\ \A n : n \in Running <=> \E t \in Threads : n \in Box(T(t))
      /\ \A n : n \in Running' <=> \E t \in Threads : n \in Box(T(t))'
  BY RunningFacts
<1>t. \A t, u \in Threads : T(t) = T(u) => t = u
  OBVIOUS
<1> HIDE DEF T, D, L, M, C
<1>1. ASSUME \A b \in Waits : Box(b)' = Box(b) PROVE Waiting' = Waiting
  BY <1>w, <1>1
<1>2. ASSUME \A t \in Threads : Box(T(t))' = Box(T(t)) PROVE Running' = Running
  BY <1>r, <1>2
<1>3. CASE Still
  <2>1. UNCHANGED <<Waiting, Running, done, work, recurring>>
    BY <1>1, <1>2, <1>3, <1>b, <1>d DEF Still
  <2>2. QED
    BY <2>1
<1>4. CASE Arrives
  <2>1. PICK b \in Waits : /\ Arrival(b) /\ work < MaxWork
                           /\ recurring' \in {recurring, recurring \cup {work + 1}}
                           /\ ~m_stopping \/ \E t \in Threads : Box(T(t)) # {}
    BY <1>4 DEF Arrives, T
  <2>2. Running' = Running /\ done' = done
    BY <1>2, <1>b, <1>d, <2>1 DEF Arrival
  <2>3. Waiting' = Waiting \cup {work + 1}
    BY <1>w, <1>b, <2>1 DEF Arrival
  <2>4. ~m_stopping \/ Running # {}
    BY <1>r, <2>1
  <2>5. QED
    BY <2>1, <2>2, <2>3, <2>4 DEF Arrival
<1>5. CASE Passes
  <2>1. PICK a \in Waits, b \in Waits : (\E S : Shift(a, b, S)) /\ UNCHANGED recurring
    BY <1>5 DEF Passes
  <2>2. PICK S : Shift(a, b, S)
    BY <2>1
  <2>3. Running' = Running /\ done' = done /\ work' = work
    BY <1>2, <1>b, <1>d, <2>2 DEF Shift
  <2>4. Waiting' = Waiting
    <3>1. \A n : (\E c \in Waits : n \in Box(c)') <=> \E c \in Waits : n \in Box(c)
      BY <1>b, <2>2 DEF Shift
    <3>2. QED
      BY <1>w, <3>1
  <2>5. QED
    BY <2>1, <2>3, <2>4
<1>6. CASE Begins
  <2>1. PICK t \in Threads, n \in Work : /\ Shift(L, T(t), {n})
                                         /\ n \notin recurring /\ UNCHANGED recurring
    BY <1>6 DEF Begins, T, L
  <2>2. done' = done /\ work' = work /\ n \in Waiting
    BY <1>b, <1>d, <1>w, <2>1 DEF Shift
  <2>3. Waiting' = Waiting \ {n}
    BY <1>b, <1>w, <1>o, <2>1 DEF Shift
  <2>4. Running' = Running \cup {n}
    BY <1>b, <1>r, <1>t, <2>1 DEF Shift
  <2>5. QED
    BY <2>1, <2>2, <2>3, <2>4
<1>7. CASE Ends
  <2>1. PICK t \in Threads, n \in Work : Shift(T(t), D, {n}) /\ UNCHANGED recurring
    BY <1>7 DEF Ends, T, D
  <2>2. done' = done \cup {n} /\ work' = work /\ n \in Running
    BY <1>d, <1>r, <2>1 DEF Shift
  <2>3. Waiting' = Waiting
    BY <1>1, <1>b, <2>1 DEF Shift
  <2>4. Running' = Running \ {n}
    BY <1>b, <1>r, <1>t, <1>o, <2>1 DEF Shift
  <2>5. QED
    BY <2>1, <2>2, <2>3, <2>4
<1>8. CASE Withdraws
  <2>1. PICK a \in Waits, n \in Work : /\ Shift(a, D, {n})
                                       /\ recurring' = recurring \ {n}
    BY <1>8 DEF Withdraws, D
  <2>2. done' = done \cup {n} /\ work' = work /\ n \in Waiting
    BY <1>d, <1>w, <2>1 DEF Shift
  <2>3. Running' = Running
    BY <1>2, <1>b, <2>1 DEF Shift
  <2>4. Waiting' = Waiting \ {n}
    BY <1>b, <1>w, <1>o, <2>1 DEF Shift
  <2>5. QED
    BY <2>1, <2>2, <2>3, <2>4
<1>9. CASE Renews
  <2> DEFINE R == due \cap recurring
  <2>1. PICK t \in Threads, k \in 0..Cardinality(R) :
          /\ Renewal(M, C(t), due, k) /\ work + k <= MaxWork
          /\ R # {} => m_timers' # {}
          /\ recurring' = (recurring \ due) \cup Again(k)
    BY <1>9 DEF Renews, M, C
  <2>2. k \in Nat /\ work \in Nat /\ MaxWork \in Nat
    BY <1>0, SpareFacts, IOManagerAssumption DEF IInv
  <2>3. Running' = Running /\ done' = done /\ work' = work + k
    BY <1>2, <1>b, <1>d, <2>1 DEF Renewal
  <2>4. Waiting' = Waiting \cup Again(k)
    <3>1. \A n : (\E c \in Waits : n \in Box(c)')
                 <=> n \in Again(k) \/ \E c \in Waits : n \in Box(c)
      BY <1>b, <2>1 DEF Renewal
    <3>2. QED
      BY <1>w, <3>1
  <2>5. recurring' = (recurring \ R) \cup Again(k)
    BY <2>1
  <2>6. k = 0 => Again(k) = {}
    BY <2>2 DEF Again
  <2>7. CASE R = {}
    <3>1. k = 0
      BY <2>2, <2>7, FS_EmptySet
    <3>2. UNCHANGED <<Waiting, Running, done, work, recurring>>
      BY <2>2, <2>3, <2>4, <2>5, <2>6, <2>7, <3>1
    <3>3. QED
      BY <3>2
  <2>8. CASE R # {}
    <3>1. k = 0 => Waiting # R
      <4> SUFFICES ASSUME k = 0 PROVE Waiting # R
        OBVIOUS
      <4>1. m_timers' = m_timers \ due
        BY <2>1, <2>6, BoxFacts DEF Renewal, M
      <4>2. PICK n \in m_timers : n \notin due
        BY <2>1, <2>8, <4>1
      <4>3. n \in Waiting
        BY <4>2 DEF Waiting
      <4>4. QED
        BY <4>2, <4>3
    <3>2. k <= Cardinality(R) /\ k \in 0..MaxWork
      BY <1>0, <2>1, <2>2, SpareFacts DEF IInv
    <3>3. R \in SUBSET recurring
      OBVIOUS
    <3> HIDE DEF R
    <3>4. QED
      BY <2>1, <2>3, <2>4, <2>5, <2>8, <3>1, <3>2, <3>3
  <2>9. QED
    BY <2>7, <2>8
<1>10. QED
  BY <1>0, <1>3, <1>4, <1>5, <1>6, <1>7, <1>8, <1>9, Moves

(* "Before it exits all IO events have to be scheduled": with the caller   *)
(* in the pool IOManager is the abstract pool whose tasks are the tasks,   *)
(* the entries of the timer set and the events together: each is executed  *)
(* once or withdrawn, a recurring timer whose turn has come is put back    *)
(* unless its deadline is taken, and stop() returns only when nothing is   *)
(* left.                                                                   *)
THEOREM Refinement == Drains => (Spec => ImplementsTaskPool)
<1> SUFFICES ASSUME Drains PROVE Spec => ImplementsTaskPool
  OBVIOUS
<1> DEFINE clos == pc[Caller] = "stopped"
<1>1. Init => Abstract!Init
  <2> SUFFICES ASSUME Init PROVE Abstract!Init
    OBVIOUS
  <2>1. \A b \in Boxes : Box(b) \subseteq 1..0
    BY InitOneBox DEF OneBox, Init
  <2>2. \A b \in Boxes : Box(b) = {}
    BY <2>1
  <2>3. Waiting = {} /\ Running = {}
    BY <2>2, WaitingFacts, RunningFacts, WaitsCases, BoxCases
  <2>4. work = 0 /\ done = {} /\ recurring = {} /\ m_stopping = FALSE /\ pc[Caller] = "main"
    BY PoolFacts, Zenon DEF Init
  <2>5. (~m_stopping) = TRUE /\ clos = FALSE
    BY <2>4
  <2>6. QED
    BY <2>3, <2>4, <2>5 DEF Abstract!Init, Running
<1>2. ASSUME WorkInv, [Next]_vars PROVE [Abstract!Next]_Abstract!vars
  <2>0. IInv /\ TypeOK /\ CallerOK /\ OneBox /\ LeaveOK
    BY <1>2 DEF WorkInv, IInv
  <2>w. Work = 1..MaxWork
    BY DEF Work
  <2>1. ASSUME Stop PROVE Abstract!Shut
    <3>1. ~m_stopping /\ m_stopping' /\ pc[Caller] = "main" /\ pc'[Caller] = "stop"
      BY <2>0, <2>1, PoolFacts DEF Stop, At, Goto, CallerOK, Place, TypeOK
    <3>2. clos' = clos
      BY <3>1
    <3>3. UNCHANGED <<Waiting, Running, done, work, recurring>>
      BY <2>1 DEF Stop, Waiting, Running, timerVars, eventVars, handVars, workVars
    <3>4. QED
      BY <3>1, <3>2, <3>3 DEF Abstract!Shut, Running
  <2>2. ASSUME StopJoin PROVE Abstract!Close
    <3>1. pc[Caller] = "join" /\ pc'[Caller] = "stopped"
      BY <2>0, <2>2, PoolFacts DEF StopJoin, At, Goto, TypeOK
    <3>2. m_stopping
      BY <2>0, <3>1 DEF CallerOK, CallPC, Place
    <3>3. \A t \in Threads : Gone(t)
      BY <2>2, <3>1 DEF StopJoin, At, Gone, Threads
    <3>4. \A b \in Boxes : b # <<"done", NULL>> => Box(b) = {}
      BY <2>0, <3>3, AllGone
    <3>5. Waiting = {} /\ Running = {}
      BY <3>4, WaitingFacts, RunningFacts, WaitsCases, BoxCases
    <3>6. done = 1..work
      BY <2>0, <3>4, BoxFacts, BoxCases DEF OneBox
    <3>7. UNCHANGED <<Waiting, Running, done, work, recurring, m_stopping>>
      BY <2>2 DEF StopJoin, Waiting, Running, dataVars, runVars, timerVars,
         eventVars, handVars, workVars
    <3>8. ~clos /\ clos'
      BY <3>1
    <3>9. QED
      BY <3>2, <3>5, <3>6, <3>7, <3>8 DEF Abstract!Close, Running
  <2>3. ASSUME ~Stop, ~StopJoin PROVE [Abstract!Next]_Abstract!vars
    <3>1. m_stopping' = m_stopping /\ clos' = clos
      BY <1>2, <2>0, <2>3, ClosedStep
    <3>2. (~m_stopping)' = ~m_stopping
      BY <3>1
    <3> HIDE DEF clos
    <3>3. CASE UNCHANGED <<Waiting, Running, done, work, recurring>>
      BY <3>1, <3>2, <3>3 DEF Abstract!vars, Running, clos
    <3>4. ASSUME ~m_stopping \/ Running # {}, work < MaxWork, work' = work + 1,
                 Waiting' = Waiting \cup {work + 1}, UNCHANGED <<Running, done>>,
                 recurring' \in {recurring, recurring \cup {work + 1}}
          PROVE  Abstract!Submit
      BY <3>1, <3>2, <3>4 DEF Abstract!Submit, Running, clos
    <3>5. ASSUME NEW n \in Work, n \in Waiting \ recurring, Waiting' = Waiting \ {n},
                 Running' = Running \cup {n}, UNCHANGED <<done, work, recurring>>
          PROVE  Abstract!Begin(n)
      BY <3>1, <3>2, <3>5 DEF Abstract!Begin, Running, clos
    <3>6. ASSUME NEW n \in Work, n \in Running, Running' = Running \ {n},
                 done' = done \cup {n}, UNCHANGED <<Waiting, work, recurring>>
          PROVE  Abstract!End(n)
      BY <3>1, <3>2, <3>6 DEF Abstract!End, Running, clos
    <3>7. ASSUME NEW n \in Work, n \in Waiting, Waiting' = Waiting \ {n},
                 done' = done \cup {n}, recurring' = recurring \ {n},
                 UNCHANGED <<Running, work>>
          PROVE  Abstract!Withdraw(n)
      BY <3>1, <3>2, <3>7 DEF Abstract!Withdraw, Running, clos
    <3>8. ASSUME NEW R \in SUBSET recurring, NEW k \in 0..MaxWork,
                 R # {}, k <= Cardinality(R), work + k <= MaxWork,
                 k = 0 => Waiting # R, work' = work + k,
                 Waiting' = Waiting \cup Again(k),
                 recurring' = (recurring \ R) \cup Again(k),
                 UNCHANGED <<Running, done>>
          PROVE  Abstract!Renew(R, k)
      <4>1. Abstract!Cardinality(R) = Cardinality(R)
        BY DEF Abstract!Cardinality, Cardinality
      <4>2. QED
        BY <4>1, <3>1, <3>2, <3>8 DEF Abstract!Renew, Again, Running, clos
    <3>9. QED
      BY <1>2, <2>w, <3>3, <3>4, <3>5, <3>6, <3>7, <3>8, PoolStep DEF Abstract!Next
  <2>4. QED
    BY <2>1, <2>2, <2>3 DEF Abstract!Next
<1>3. QED
  BY WorkInvariance, <1>1, <1>2, PTL DEF Spec, ImplementsTaskPool, Abstract!Spec
=============================================================================
