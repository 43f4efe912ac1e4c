--------------------------- MODULE SchedulerProofs ---------------------------
(***************************************************************************)
(* The safety properties of Scheduler, proved for every number of workers, *)
(* fibers, callbacks and posts, with and without use_caller.               *)
(*                                                                         *)
(* Each part of IInv is preserved by every step (TypeStep, ControlStep,    *)
(* TaskStep, FiberStep, NumbersStep, CountersStep, DrainStep); Invariance  *)
(* puts them together, and the properties follow from IInv.  DrainStep     *)
(* rests on StoppingStep: once the list is empty and no thread has a task  *)
(* while m_stopping is set, no step can add one.                           *)
(***************************************************************************)
EXTENDS SchedulerInv, TaskListLemmas, FiniteSetTheorems, TLAPS

(* The threads of the pool are finitely many threads, none of them NULL.   *)
LEMMA PoolFacts ==
  /\ IsFiniteSet(Pool) /\ Pool \subseteq Threads /\ Workers \subseteq Pool
  /\ NULL \notin Threads /\ NULL \notin Jobs /\ NULL \notin Task
  /\ Caller \in Pool <=> UseCaller
<1>1. IsFiniteSet({Caller}) /\ IsFiniteSet({})
  BY FS_Singleton, FS_EmptySet
<1>2. IsFiniteSet(IF UseCaller THEN {Caller} ELSE {})
  BY <1>1
<1>3. IsFiniteSet(Pool)
  BY <1>2, SchedulerAssumption, FS_Union DEF Pool
<1>4. QED
  BY <1>3, SchedulerAssumption DEF Pool, Threads

(* The initial states satisfy the invariant.                               *)
LEMMA InitIInv == Init => IInv
<1> SUFFICES ASSUME Init PROVE IInv
  OBVIOUS
<1> USE SchedulerAssumption, PoolFacts
<1>1. TypeOK
  <2>1. pc \in [Threads -> PC] /\ task \in [Threads -> Task \cup {NULL}]
    BY DEF Init, PC, CallerPC, RunPC
  <2>2. m_tasks \in Seq(Task)
    BY DEF Init
  <2>3. /\ m_state \in [Jobs -> JobState]
        /\ fiberMutex \in [Jobs -> Threads \cup {NULL}]
        /\ idleState \in [Pool -> FiberState]
    BY DEF Init, JobState, FiberState
  <2>4. m_stopping \in BOOLEAN /\ aborted \in BOOLEAN
    BY Zenon DEF Init
  <2>5. /\ m_mutex \in {NULL, Caller} /\ schedulerFiber \in FiberState
        /\ m_threads \in SUBSET Workers /\ thrs \in SUBSET Workers
        /\ m_activeThreadCount \in Nat /\ m_idleThreadCount \in Nat
        /\ posts \in 0..MaxPosts /\ served \in SUBSET (1..MaxPosts)
    BY DEF Init, FiberState
  <2>6. QED
    BY <2>1, <2>2, <2>3, <2>4, <2>5 DEF TypeOK
<1>2. ControlOK /\ TaskOK
  BY DEF Init, ControlOK, TaskOK, CallerPC, RunPC, BeforeStop, HasTask, Threads
<1>3. FiberOK /\ NumbersOK
  BY DEF Init, FiberOK, NumbersOK, ListedOnce, HeldOnce, NoneLost, HoldsFiber, HasTask, Threads, Jobs
<1>4. CountersExact
  <2>1. {t \in Pool : task[t] # NULL} = {}
    BY DEF Init
  <2>2. {t \in Pool : pc[t] \in {"idle", "sleep", "idled"}} = {}
    BY DEF Init
  <2>3. QED
    BY <2>1, <2>2, FS_EmptySet DEF Init, CountersExact
<1>5. DrainOK
  BY DEF Init, DrainOK, Gone
<1>6. QED
  BY <1>1, <1>2, <1>3, <1>4, <1>5 DEF IInv

(* The caller, when it is not in the pool, never executes run().           *)
LEMMA PoolSteps ==
  ASSUME IInv, NEW t \in Threads, pc[t] \in RunPC PROVE t \in Pool
BY SchedulerAssumption, PoolFacts
   DEF IInv, ControlOK, Threads, CallerPC, RunPC

(* m_activeThreadCount is positive while a thread holds a task.            *)
LEMMA ActivePositive ==
  ASSUME IInv, NEW t \in Pool, task[t] # NULL
  PROVE  m_activeThreadCount > 0 /\ ~Stopping
<1> DEFINE A == {u \in Pool : task[u] # NULL}
<1>1. IsFiniteSet(A) /\ A # {}
  BY PoolFacts, FS_Subset
<1>2. Cardinality(A) \in Nat /\ Cardinality(A) # 0
  BY <1>1, FS_CardinalityType, FS_EmptySet
<1>3. m_activeThreadCount = Cardinality(A)
  BY DEF IInv, CountersExact
<1>4. QED
  BY <1>2, <1>3 DEF Stopping

(* m_idleThreadCount is positive while a thread is in its idle fiber.      *)
LEMMA IdlePositive ==
  ASSUME IInv, NEW t \in Pool, pc[t] \in InIdle PROVE m_idleThreadCount > 0
<1> DEFINE A == {u \in Pool : pc[u] \in {"idle", "sleep", "idled"}}
<1>1. IsFiniteSet(A) /\ A # {}
  BY PoolFacts, FS_Subset DEF InIdle
<1>2. Cardinality(A) \in Nat /\ Cardinality(A) # 0
  BY <1>1, FS_CardinalityType, FS_EmptySet
<1>3. m_idleThreadCount = Cardinality(A)
  BY DEF IInv, CountersExact
<1>4. QED
  BY <1>2, <1>3

(* What the locked scan of run() does to the list when it finds a task.    *)
LEMMA FetchFacts ==
  ASSUME TypeOK, NEW t \in Pool, FetchTask(t)
  PROVE  \E i \in 1..Len(m_tasks) :
           /\ m_tasks[i] \in Task
           /\ task' = [task EXCEPT ![t] = m_tasks[i]]
           /\ m_tasks' \in Seq(Task)
           /\ Len(m_tasks') = Len(m_tasks) - 1
           /\ \A k \in 1..(Len(m_tasks) - 1) :
                m_tasks'[k] = IF k < i THEN m_tasks[k] ELSE m_tasks[k + 1]
<1>1. PICK i \in Eligible(t) : /\ task' = [task EXCEPT ![t] = m_tasks[i]]
                               /\ m_tasks' = RemoveAt(m_tasks, i)
  BY DEF FetchTask
<1>2. i \in 1..Len(m_tasks) /\ m_tasks \in Seq(Task)
  BY DEF Eligible, TypeOK
<1>3. m_tasks[i] \in Task
  BY <1>2, ElementOfSeq
<1>4. QED
  BY <1>1, <1>2, <1>3, RemoveAtFacts

-----------------------------------------------------------------------------
(* A step keeps the variables in their types.                              *)
LEMMA TypeStep == IInv /\ [Next]_vars => TypeOK'
<1> SUFFICES ASSUME IInv, [Next]_vars PROVE TypeOK'
  OBVIOUS
<1> USE SchedulerAssumption, PoolFacts DEF vars, dataVars, lifeVars, queueVars,
        execVars, fiberVars, idleVars
<1>0. TypeOK
  BY DEF IInv
<1>1. CASE UNCHANGED vars
  BY <1>0, <1>1 DEF TypeOK
<1>2. CASE StartLock \/ StartUnlock
  BY <1>0, <1>2 DEF TypeOK, StartLock, StartUnlock, Goto, PC, CallerPC
<1>3. ASSUME NEW w \in Workers, StartCreate(w) \/ StartReady(w) \/ Boot(w)
      PROVE  TypeOK'
  <2>1. CASE StartCreate(w) \/ Boot(w)
    BY <1>0, <2>1 DEF TypeOK, StartCreate, Boot, Goto, PC, CallerPC, RunPC
  <2>2. CASE StartReady(w)
    BY <1>0, <2>2 DEF TypeOK, StartReady, Goto, PC, CallerPC
  <2>3. QED
    BY <1>3, <2>1, <2>2
<1>4. ASSUME NEW w \in Workers, StopJoin(w) PROVE TypeOK'
  BY <1>0, <1>4 DEF TypeOK, StopJoin
<1>5. CASE StopSwap \/ StopReturn
  BY <1>0, <1>5 DEF TypeOK, StopSwap, StopReturn, Goto, PC, CallerPC
<1>6. CASE StopBegin
  BY <1>0, <1>6 DEF TypeOK, StopBegin, Goto, PC, CallerPC, RunPC, FiberState
<1>7. CASE Destroy
  BY <1>0, <1>7 DEF TypeOK, Destroy, Goto, PC, CallerPC
<1>8. ASSUME NEW t \in Pool, FetchNone(t) \/ SkipTerm(t) \/ IdleStay(t)
      PROVE  TypeOK'
  BY <1>0, <1>8 DEF TypeOK, FetchNone, SkipTerm, IdleStay, Goto, PC, RunPC
<1>9. ASSUME NEW t \in Pool, FetchTask(t) PROVE TypeOK'
  <2>1. m_tasks' \in Seq(Task) /\ task' \in [Threads -> Task \cup {NULL}]
    BY <1>0, <1>9, FetchFacts DEF TypeOK
  <2>2. QED
    BY <1>0, <1>9, <2>1 DEF TypeOK, FetchTask, Goto, PC, RunPC
<1>10. ASSUME NEW t \in Pool, Resume(t) PROVE TypeOK'
  BY <1>0, <1>10 DEF TypeOK, Resume, Goto, PC, RunPC, JobState, FiberState
<1>11. ASSUME NEW t \in Pool, Yield(t) \/ Finish(t) PROVE TypeOK'
  BY <1>0, <1>11 DEF TypeOK, Yield, Finish, SwitchBack, Goto, PC, RunPC, JobState, FiberState
<1>12. ASSUME NEW t \in Pool, Unlock(t) PROVE TypeOK'
  BY <1>0, <1>12 DEF TypeOK, Unlock, Goto, PC, RunPC
<1>13. ASSUME NEW t \in Pool, Dec(t) PROVE TypeOK'
  <2>1. task[t] # NULL
    BY <1>13 DEF IInv, TaskOK, HasTask, Dec, Goto
  <2>2. m_activeThreadCount > 0
    BY <2>1, ActivePositive
  <2>3. m_activeThreadCount' \in Nat
    BY <1>0, <1>13, <2>2 DEF TypeOK, Dec
  <2>4. served' \in SUBSET (1..MaxPosts)
    BY <1>0, <1>13, <2>1 DEF TypeOK, Dec, Task
  <2>5. QED
    BY <1>0, <1>13, <2>3, <2>4 DEF TypeOK, Dec, Goto, PC, RunPC
<1>14. ASSUME NEW t \in Pool, IdleResume(t) \/ IdleEnd(t) \/ IdleYield(t)
      PROVE  TypeOK'
  <2>1. CASE IdleResume(t)
    BY <1>0, <2>1 DEF TypeOK, IdleResume, Goto, PC, RunPC, FiberState
  <2>2. CASE IdleEnd(t)
    BY <1>0, <2>2 DEF TypeOK, IdleEnd, Goto, PC, RunPC, FiberState
  <2>3. CASE IdleYield(t)
    BY <1>0, <2>3 DEF TypeOK, IdleYield, Goto, PC, RunPC, FiberState
  <2>4. QED
    BY <1>14, <2>1, <2>2, <2>3
<1>15. ASSUME NEW t \in Pool, IdleReturn(t) PROVE TypeOK'
  BY <1>0, <1>15, IdlePositive DEF TypeOK, IdleReturn, Goto, PC, RunPC, InIdle
<1>16. ASSUME NEW t \in Pool, RunExit(t) PROVE TypeOK'
  BY <1>0, <1>16 DEF TypeOK, RunExit, Goto, PC, CallerPC, RunPC, FiberState
<1>17. ASSUME NEW j \in Jobs, NEW thr \in Pool \cup {NULL}, ScheduleLock(j, thr),
              UNCHANGED <<lifeVars, execVars, idleVars, pc, fiberMutex, aborted>>
      PROVE  TypeOK'
  BY <1>0, <1>17, AppendProperties DEF TypeOK, ScheduleLock, Task, JobState
<1>18. QED
  BY <1>1, <1>2, <1>3, <1>4, <1>5, <1>6, <1>7, <1>8, <1>9, <1>10, <1>11,
     <1>12, <1>13, <1>14, <1>15, <1>16, <1>17
     DEF Next, Step, CallerStep, RunStep, BodyEnd, CallerPost, BodyPost

(* A step keeps the phases of start() and stop() in order.                 *)
LEMMA ControlStep == IInv /\ [Next]_vars => ControlOK'
<1> SUFFICES ASSUME IInv, [Next]_vars PROVE ControlOK'
  OBVIOUS
<1> USE SchedulerAssumption, PoolFacts DEF vars, dataVars, lifeVars, queueVars,
        execVars, fiberVars, idleVars
<1>0. TypeOK /\ ControlOK
  BY DEF IInv
<1>1. CASE UNCHANGED <<pc, lifeVars>>
  BY <1>0, <1>1 DEF ControlOK
<1>2. ASSUME NEW t \in Pool, NEW to \in RunPC, pc[t] \in RunPC,
             pc' = [pc EXCEPT ![t] = to], UNCHANGED lifeVars
      PROVE  ControlOK'
  BY <1>0, <1>2 DEF TypeOK, ControlOK, Threads, CallerPC, RunPC, BeforeStop
<1>3. CASE StartLock \/ StartUnlock
  BY <1>0, <1>3 DEF TypeOK, ControlOK, Threads, StartLock, StartUnlock, Goto,
     CallerPC, RunPC, BeforeStop
<1>4. ASSUME NEW w \in Workers, StartCreate(w) \/ StartReady(w) \/ Boot(w)
      PROVE  ControlOK'
  BY <1>0, <1>4 DEF TypeOK, ControlOK, Threads, StartCreate, StartReady, Boot,
     Goto, CallerPC, RunPC, BeforeStop
<1>5. CASE StopBegin
  BY <1>0, <1>5 DEF TypeOK, ControlOK, Threads, StopBegin, Goto, CallerPC, RunPC,
     BeforeStop
<1>6. CASE StopSwap \/ StopReturn \/ Destroy
  BY <1>0, <1>6 DEF TypeOK, ControlOK, Threads, StopSwap, StopReturn, Destroy, Goto,
     CallerPC, RunPC, BeforeStop
<1>7. ASSUME NEW w \in Workers, StopJoin(w) PROVE ControlOK'
  BY <1>0, <1>7 DEF TypeOK, ControlOK, Threads, StopJoin, CallerPC, RunPC, BeforeStop
<1>8. ASSUME NEW t \in Pool, RunExit(t) PROVE ControlOK'
  BY <1>0, <1>8 DEF TypeOK, ControlOK, Threads, RunExit, Goto, CallerPC, RunPC,
     BeforeStop
<1>9. ASSUME NEW t \in Pool, RunStep(t) \/ BodyEnd(t) PROVE ControlOK'
  BY <1>2, <1>8, <1>9 DEF RunStep, BodyEnd, FetchTask, FetchNone, Resume, SkipTerm,
     Unlock, Dec, IdleResume, IdleEnd, IdleStay, IdleYield, IdleReturn, Yield,
     Finish, SwitchBack, Goto, RunPC
<1>10. QED
  BY <1>1, <1>3, <1>4, <1>5, <1>6, <1>7, <1>9
     DEF Next, Step, CallerStep, CallerPost, BodyPost

(* A step keeps run()'s local task in line with where the thread is.       *)
LEMMA TaskStep == IInv /\ [Next]_vars => TaskOK'
<1> SUFFICES ASSUME IInv, [Next]_vars PROVE TaskOK'
  OBVIOUS
<1> USE SchedulerAssumption, PoolFacts DEF vars, dataVars, lifeVars, queueVars,
        execVars, fiberVars, idleVars
<1>0. TypeOK /\ TaskOK
  BY DEF IInv
<1>1. CASE UNCHANGED <<pc, task>>
  BY <1>0, <1>1 DEF TaskOK
<1>2. ASSUME NEW t \in Threads, NEW to, pc[t] \in HasTask <=> to \in HasTask,
             pc' = [pc EXCEPT ![t] = to], UNCHANGED task
      PROVE  TaskOK'
  BY <1>0, <1>2 DEF TypeOK, TaskOK
<1>3. CASE CallerStep
  BY <1>0, <1>1, <1>2, <1>3 DEF TypeOK, TaskOK, HasTask, CallerStep, StartLock,
     StartUnlock, StartCreate, StartReady, StopJoin, StopBegin, StopSwap,
     StopReturn, Destroy, Goto, Threads
<1>4. ASSUME NEW w \in Workers, Boot(w) PROVE TaskOK'
  BY <1>2, <1>4 DEF HasTask, Boot, Goto
<1>5. ASSUME NEW t \in Pool, FetchTask(t) PROVE TaskOK'
  BY <1>0, <1>5 DEF TypeOK, TaskOK, HasTask, FetchTask, Eligible, Goto
<1>6. ASSUME NEW t \in Pool, Dec(t) PROVE TaskOK'
  BY <1>0, <1>6 DEF TypeOK, TaskOK, HasTask, Dec, Goto
<1>7. ASSUME NEW t \in Pool, RunExit(t) PROVE TaskOK'
  BY <1>2, <1>7 DEF HasTask, RunExit, Goto
<1>8. ASSUME NEW t \in Pool, RunStep(t) \/ BodyEnd(t) PROVE TaskOK'
  BY <1>2, <1>5, <1>6, <1>7, <1>8 DEF HasTask, RunStep, BodyEnd, FetchNone, Resume,
     SkipTerm, Unlock, IdleResume, IdleEnd, IdleStay, IdleYield, IdleReturn, Yield,
     Finish, SwitchBack, Goto
<1>9. QED
  BY <1>1, <1>3, <1>4, <1>8 DEF Next, Step, CallerPost, BodyPost

(* A step keeps fibers, their mutexes and the threads that run them        *)
(* consistent.                                                             *)
LEMMA FiberStep == IInv /\ [Next]_vars => FiberOK'
<1> SUFFICES ASSUME IInv, [Next]_vars PROVE FiberOK'
  OBVIOUS
<1> USE SchedulerAssumption, PoolFacts DEF vars, dataVars, lifeVars, queueVars,
        execVars, fiberVars, idleVars
<1>0. TypeOK /\ TaskOK /\ FiberOK
  BY DEF IInv
<1>1. CASE UNCHANGED <<pc, task, m_tasks, fiberVars>>
  BY <1>0, <1>1 DEF FiberOK
<1>2. ASSUME NEW t \in Threads, NEW to, pc[t] \in HasTask <=> to \in HasTask,
             pc[t] \notin HoldsFiber, to \notin HoldsFiber,
             pc' = [pc EXCEPT ![t] = to],
             UNCHANGED <<task, m_tasks, fiberVars>>
      PROVE  FiberOK'
  BY <1>0, <1>2 DEF TypeOK, FiberOK, HoldsFiber
<1>3. CASE CallerStep
  <2>1. ASSUME NEW w \in Workers, StartCreate(w) PROVE FiberOK'
    BY <1>0, <2>1 DEF TypeOK, FiberOK, HasTask, HoldsFiber, StartCreate, Threads
  <2>2. QED
    BY <1>1, <1>2, <1>3, <2>1 DEF HasTask, HoldsFiber, CallerStep, StartLock,
       StartUnlock, StartReady, StopJoin, StopBegin, StopSwap, StopReturn,
       Destroy, Goto, Threads
<1>4. ASSUME NEW w \in Workers, Boot(w) PROVE FiberOK'
  BY <1>2, <1>4 DEF HasTask, HoldsFiber, Boot, Goto
<1>5. ASSUME NEW t \in Pool, FetchTask(t) PROVE FiberOK'
  <2>1. PICK i \in 1..Len(m_tasks) :
          /\ task' = [task EXCEPT ![t] = m_tasks[i]]
          /\ Len(m_tasks') = Len(m_tasks) - 1
          /\ \A k \in 1..(Len(m_tasks) - 1) :
               m_tasks'[k] = IF k < i THEN m_tasks[k] ELSE m_tasks[k + 1]
    BY <1>0, <1>5, FetchFacts
  <2>2. Len(m_tasks) \in Nat
    BY <1>0, LenProperties DEF TypeOK
  <2>3. \A k \in 1..Len(m_tasks') : \E n \in 1..Len(m_tasks) : m_tasks'[k] = m_tasks[n]
    BY <2>1, <2>2
  <2>4. pc' = [pc EXCEPT ![t] = "lock"] /\ pc[t] = "fetch" /\ UNCHANGED fiberVars
    BY <1>5 DEF FetchTask, Goto
  <2>5. m_state[m_tasks[i].job] # "NONE"
    BY <1>0, <2>1 DEF FiberOK
  <2>6. QED
    BY <1>0, <2>1, <2>3, <2>4, <2>5 DEF TypeOK, FiberOK, HasTask, HoldsFiber
<1>6. ASSUME NEW t \in Pool, Resume(t) PROVE FiberOK'
  BY <1>0, <1>6 DEF TypeOK, TaskOK, FiberOK, HasTask, HoldsFiber, Resume, FiberFree, Goto, Task
<1>7. ASSUME NEW t \in Pool, NEW s \in {"READY", "TERM"}, SwitchBack(t, s)
      PROVE  FiberOK'
  BY <1>0, <1>7 DEF TypeOK, TaskOK, FiberOK, HasTask, HoldsFiber, SwitchBack, Goto, Task
<1>8. ASSUME NEW t \in Pool, Unlock(t) PROVE FiberOK'
  BY <1>0, <1>8 DEF TypeOK, TaskOK, FiberOK, HasTask, HoldsFiber, Unlock, Goto, Task
<1>9. ASSUME NEW t \in Pool, Dec(t) PROVE FiberOK'
  BY <1>0, <1>9 DEF TypeOK, TaskOK, FiberOK, HasTask, HoldsFiber, Dec, Goto
<1>10. ASSUME NEW t \in Pool, RunStep(t) \/ BodyEnd(t) PROVE FiberOK'
  BY <1>2, <1>5, <1>6, <1>7, <1>8, <1>9, <1>10 DEF HasTask, HoldsFiber, RunStep,
     BodyEnd, FetchNone, SkipTerm, IdleResume, IdleEnd, IdleStay, IdleYield,
     IdleReturn, RunExit, Yield, Finish, Goto
<1>11. ASSUME NEW j \in Jobs, NEW thr \in Pool \cup {NULL}, ScheduleLock(j, thr),
              UNCHANGED <<lifeVars, execVars, idleVars, pc, fiberMutex, aborted>>
       PROVE  FiberOK'
  BY <1>0, <1>11, AppendProperties DEF TypeOK, FiberOK, ScheduleLock, Task, HoldsFiber, HasTask
<1>12. QED
  BY <1>1, <1>3, <1>4, <1>10, <1>11 DEF Next, Step, CallerPost, BodyPost

(* A step keeps every post at exactly one place: nothing is lost in the    *)
(* hand-over from the list to a thread and nothing is served twice.        *)
LEMMA NumbersStep == IInv /\ [Next]_vars => NumbersOK'
<1> SUFFICES ASSUME IInv, [Next]_vars PROVE NumbersOK'
  OBVIOUS
<1> USE SchedulerAssumption, PoolFacts DEF vars, dataVars, lifeVars, queueVars,
        execVars, fiberVars, idleVars
<1>0. TypeOK /\ TaskOK /\ NumbersOK /\ Len(m_tasks) \in Nat
  BY LenProperties DEF IInv, TypeOK
<1>1. CASE UNCHANGED <<queueVars, task, served>>
  BY <1>0, <1>1 DEF NumbersOK, ListedOnce, HeldOnce, NoneLost
<1>2. ASSUME NEW j \in Jobs, NEW thr \in Pool \cup {NULL}, ScheduleLock(j, thr),
             UNCHANGED <<task, served>>
      PROVE  NumbersOK'
  <2> DEFINE new == [no |-> posts + 1, job |-> j, thread |-> thr]
  <2>1. /\ Len(m_tasks') = Len(m_tasks) + 1
        /\ \A i \in 1..Len(m_tasks) : m_tasks'[i] = m_tasks[i]
        /\ m_tasks'[Len(m_tasks) + 1] = new
    BY <1>0, <1>2, AppendProperties DEF TypeOK, ScheduleLock, Task
  <2>2. posts' = posts + 1 /\ posts \in Nat /\ new.no = posts + 1
    BY <1>0, <1>2 DEF TypeOK, ScheduleLock
  <2> HIDE DEF new
  <2>3. served' \subseteq 1..posts'
    BY <1>0, <1>2, <2>2 DEF NumbersOK
  <2>4. ListedOnce'
    BY <1>0, <1>2, <2>1, <2>2 DEF NumbersOK, ListedOnce
  <2>5. HeldOnce'
    BY <1>0, <1>2, <2>1, <2>2 DEF NumbersOK, HeldOnce
  <2>6. NoneLost'
    BY <1>0, <1>2, <2>1, <2>2 DEF NumbersOK, NoneLost
  <2>7. QED
    BY <2>3, <2>4, <2>5, <2>6 DEF NumbersOK
<1>3. ASSUME NEW t \in Pool, FetchTask(t) PROVE NumbersOK'
  <2>1. PICK i \in 1..Len(m_tasks) :
          /\ m_tasks[i] \in Task
          /\ task' = [task EXCEPT ![t] = m_tasks[i]]
          /\ Len(m_tasks') = Len(m_tasks) - 1
          /\ \A k \in 1..(Len(m_tasks) - 1) :
               m_tasks'[k] = IF k < i THEN m_tasks[k] ELSE m_tasks[k + 1]
    BY <1>0, <1>3, FetchFacts
  <2>2. task[t] = NULL /\ m_tasks[i] # NULL /\ UNCHANGED <<posts, served>>
    BY <1>0, <1>3, <2>1 DEF FetchTask, Goto, TaskOK, HasTask
  <2>3. task'[t] = m_tasks[i] /\ \A u \in Threads : u # t => task'[u] = task[u]
    BY <1>0, <2>1 DEF TypeOK
  <2>0. ListedOnce /\ HeldOnce /\ NoneLost
    BY <1>0 DEF NumbersOK
  <2>4. ListedOnce'
    <3> DEFINE old(k) == IF k < i THEN k ELSE k + 1
    <3>1. \A k \in 1..Len(m_tasks') :
            old(k) \in 1..Len(m_tasks) /\ m_tasks'[k] = m_tasks[old(k)]
      BY <1>0, <2>1
    <3>2. \A k, l \in 1..Len(m_tasks') : old(k) = old(l) => k = l
      BY <1>0, <2>1
    <3> HIDE DEF old
    <3>3. ASSUME NEW k \in 1..Len(m_tasks')
          PROVE  m_tasks'[k].no \in (1..posts') \ served'
      BY <2>0, <2>2, <3>1 DEF ListedOnce
    <3>4. ASSUME NEW k \in 1..Len(m_tasks'), NEW l \in 1..Len(m_tasks'),
                 m_tasks'[k].no = m_tasks'[l].no
          PROVE  k = l
      <4>1. old(k) = old(l)
        BY <2>0, <3>1, <3>4 DEF ListedOnce
      <4>2. QED
        BY <3>2, <4>1
    <3>5. QED
      BY <3>3, <3>4 DEF ListedOnce
  <2>5. HeldOnce'
    <3>1. ASSUME NEW k \in 1..Len(m_tasks')
          PROVE  \E n \in 1..Len(m_tasks) : n # i /\ m_tasks'[k] = m_tasks[n]
      BY <1>0, <2>1
    <3>2. ASSUME NEW u \in Threads, task'[u] # NULL
          PROVE  /\ task'[u].no \in (1..posts') \ served'
                 /\ \A k \in 1..Len(m_tasks') : m_tasks'[k].no # task'[u].no
                 /\ \A v \in Threads : task'[v] # NULL /\ task'[v].no = task'[u].no
                                      => v = u
      <4>1. CASE u = t
        <5>1. task'[u] = m_tasks[i]
          BY <2>3, <4>1
        <5>2. task'[u].no \in (1..posts') \ served'
          BY <2>0, <2>2, <5>1 DEF ListedOnce
        <5>3. ASSUME NEW k \in 1..Len(m_tasks') PROVE m_tasks'[k].no # task'[u].no
          BY <2>0, <3>1, <5>1 DEF ListedOnce
        <5>4. ASSUME NEW v \in Threads, v # t, task'[v] # NULL
              PROVE  task'[v].no # task'[u].no
          BY <2>0, <2>3, <5>1, <5>4 DEF HeldOnce
        <5>5. QED
          BY <4>1, <5>2, <5>3, <5>4
      <4>2. CASE u # t
        <5>1. task'[u] = task[u] /\ task[u] # NULL
          BY <2>3, <3>2, <4>2
        <5>2. task'[u].no \in (1..posts') \ served'
          BY <2>0, <2>2, <5>1 DEF HeldOnce
        <5>3. ASSUME NEW k \in 1..Len(m_tasks') PROVE m_tasks'[k].no # task'[u].no
          BY <2>0, <3>1, <5>1 DEF HeldOnce
        <5>4. task'[t].no # task'[u].no
          BY <2>0, <2>3, <5>1 DEF HeldOnce
        <5>5. ASSUME NEW v \in Threads, v # t, task'[v] # NULL,
                     task'[v].no = task'[u].no
              PROVE  v = u
          BY <2>0, <2>3, <5>1, <5>5 DEF HeldOnce
        <5>6. QED
          BY <5>2, <5>3, <5>4, <5>5
      <4>3. QED
        BY <4>1, <4>2
    <3>3. QED
      BY <3>2 DEF HeldOnce
  <2>6. NoneLost'
    <3>1. ASSUME NEW n \in 1..Len(m_tasks), n # i
          PROVE  \E k \in 1..Len(m_tasks') : m_tasks'[k] = m_tasks[n]
      <4>1. CASE n < i
        BY <1>0, <2>1, <4>1
      <4>2. CASE n > i
        <5>1. n - 1 \in 1..(Len(m_tasks) - 1) /\ ~(n - 1 < i) /\ (n - 1) + 1 = n
          BY <1>0, <2>1, <4>2
        <5>2. m_tasks'[n - 1] = m_tasks[n]
          BY <2>1, <5>1
        <5>3. QED
          BY <2>1, <5>1, <5>2
      <4>3. QED
        BY <1>0, <3>1, <4>1, <4>2
    <3>2. ASSUME NEW m \in (1..posts') \ served'
          PROVE  \/ \E k \in 1..Len(m_tasks') : m_tasks'[k].no = m
                 \/ \E u \in Threads : task'[u] # NULL /\ task'[u].no = m
      <4>0. \/ \E n \in 1..Len(m_tasks) : m_tasks[n].no = m
            \/ \E u \in Threads : task[u] # NULL /\ task[u].no = m
        BY <2>0, <2>2, <3>2 DEF NoneLost
      <4>1. ASSUME NEW n \in 1..Len(m_tasks), m_tasks[n].no = m, n = i
            PROVE  task'[t] # NULL /\ task'[t].no = m
        BY <2>2, <2>3, <4>1
      <4>2. ASSUME NEW n \in 1..Len(m_tasks), m_tasks[n].no = m, n # i
            PROVE  \E k \in 1..Len(m_tasks') : m_tasks'[k].no = m
        BY <3>1, <4>2
      <4>3. ASSUME NEW u \in Threads, task[u] # NULL, task[u].no = m
            PROVE  task'[u] # NULL /\ task'[u].no = m
        BY <2>2, <2>3, <4>3
      <4>4. t \in Threads
        BY DEF Threads, Pool
      <4>5. QED
        BY <4>0, <4>1, <4>2, <4>3, <4>4
    <3>3. QED
      BY <3>2 DEF NoneLost
  <2>7. QED
    BY <1>0, <2>2, <2>4, <2>5, <2>6 DEF NumbersOK
<1>4. ASSUME NEW t \in Pool, Dec(t) PROVE NumbersOK'
  <2>0. ListedOnce /\ HeldOnce /\ NoneLost /\ served \subseteq 1..posts
    BY <1>0 DEF NumbersOK
  <2>1. t \in Threads /\ task[t] # NULL
    BY <1>0, <1>4 DEF Threads, Pool, TaskOK, HasTask, Dec, Goto
  <2>2. UNCHANGED <<m_tasks, posts>> /\ served' = served \cup {task[t].no}
    BY <1>4 DEF Dec
  <2>3. task'[t] = NULL /\ \A u \in Threads : u # t => task'[u] = task[u]
    BY <1>0, <1>4 DEF TypeOK, Dec
  <2>4. served' \subseteq 1..posts'
    BY <2>0, <2>1, <2>2 DEF HeldOnce
  <2>5. ListedOnce'
    <3>1. \A k \in 1..Len(m_tasks) : m_tasks[k].no # task[t].no
      BY <2>0, <2>1 DEF HeldOnce
    <3>2. QED
      BY <2>0, <2>2, <3>1 DEF ListedOnce
  <2>6. HeldOnce'
    <3>1. ASSUME NEW u \in Threads, task'[u] # NULL
          PROVE  u # t /\ task'[u] = task[u] /\ task[u].no # task[t].no
      BY <2>0, <2>1, <2>3, <3>1 DEF HeldOnce
    <3>2. QED
      BY <2>0, <2>2, <3>1 DEF HeldOnce
  <2>7. NoneLost'
    <3>1. ASSUME NEW m \in (1..posts') \ served'
          PROVE  \/ \E k \in 1..Len(m_tasks') : m_tasks'[k].no = m
                 \/ \E u \in Threads : task'[u] # NULL /\ task'[u].no = m
      <4>1. m \in (1..posts) \ served /\ m # task[t].no
        BY <2>2, <3>1
      <4>2. \/ \E k \in 1..Len(m_tasks) : m_tasks[k].no = m
            \/ \E u \in Threads : u # t /\ task[u] # NULL /\ task[u].no = m
        BY <2>0, <4>1 DEF NoneLost
      <4>3. QED
        BY <2>2, <2>3, <4>2
    <3>2. QED
      BY <3>1 DEF NoneLost
  <2>8. QED
    BY <2>4, <2>5, <2>6, <2>7 DEF NumbersOK
<1>5. QED
  BY <1>1, <1>2, <1>3, <1>4 DEF Next, Step, CallerStep, CallerPost, BodyPost, RunStep,
     BodyEnd, StartLock, StartUnlock, StartCreate, StartReady, StopJoin, Boot,
     StopBegin, StopSwap, StopReturn, Destroy, FetchNone, Resume, SkipTerm, Unlock,
     IdleResume, IdleEnd, IdleStay, IdleYield, IdleReturn, RunExit, Yield, Finish,
     SwitchBack

(* A step keeps both counters exact.                                       *)
LEMMA CountersStep == IInv /\ [Next]_vars => CountersExact'
<1> SUFFICES ASSUME IInv, [Next]_vars PROVE CountersExact'
  OBVIOUS
<1> USE SchedulerAssumption, PoolFacts DEF vars, dataVars, lifeVars, queueVars,
        execVars, fiberVars, idleVars
<1> DEFINE A == {t \in Pool : task[t] # NULL}
           I == {t \in Pool : pc[t] \in {"idle", "sleep", "idled"}}
<1>0. /\ TypeOK /\ TaskOK /\ IsFiniteSet(A) /\ IsFiniteSet(I)
      /\ m_activeThreadCount = Cardinality(A)
      /\ m_idleThreadCount = Cardinality(I)
  BY FS_Subset DEF IInv, CountersExact
<1>1. CASE UNCHANGED <<pc, task, m_activeThreadCount, m_idleThreadCount>>
  BY <1>0, <1>1 DEF CountersExact
<1>2. ASSUME NEW t \in Threads, NEW to, pc[t] \in InIdle <=> to \in InIdle,
             pc' = [pc EXCEPT ![t] = to],
             UNCHANGED <<task, m_activeThreadCount, m_idleThreadCount>>
      PROVE  CountersExact'
  <2>1. A' = A /\ I' = I
    BY <1>0, <1>2 DEF TypeOK, InIdle
  <2>2. QED
    BY <1>0, <1>2, <2>1 DEF CountersExact
<1>3. CASE CallerStep
  <2>1. ASSUME NEW w \in Workers, StartCreate(w) PROVE CountersExact'
    <3>1. A' = A /\ I' = I
      BY <1>0, <2>1 DEF TypeOK, StartCreate
    <3>2. QED
      BY <1>0, <2>1, <3>1 DEF CountersExact, StartCreate
  <2>2. QED
    BY <1>1, <1>2, <1>3, <2>1 DEF InIdle, CallerStep, StartLock, StartUnlock,
       StartReady, StopJoin, StopBegin, StopSwap, StopReturn, Destroy, Goto, Threads
<1>4. ASSUME NEW t \in Pool, FetchTask(t) PROVE CountersExact'
  <2>1. PICK i \in 1..Len(m_tasks) :
          m_tasks[i] \in Task /\ task' = [task EXCEPT ![t] = m_tasks[i]]
    BY <1>0, <1>4, FetchFacts
  <2>2. A' = A \cup {t} /\ t \notin A
    BY <1>0, <1>4, <2>1 DEF TypeOK, TaskOK, FetchTask, Goto, HasTask
  <2>3. I' = I
    BY <1>0, <1>4 DEF TypeOK, FetchTask, Goto
  <2> HIDE DEF A, I
  <2>4. Cardinality(A') = Cardinality(A) + 1
    BY <1>0, <2>2, FS_AddElement
  <2>5. QED
    BY <1>0, <1>4, <2>3, <2>4 DEF CountersExact, FetchTask, A, I
<1>5. ASSUME NEW t \in Pool, Dec(t) PROVE CountersExact'
  <2>1. A' = A \ {t} /\ t \in A
    BY <1>0, <1>5 DEF TypeOK, TaskOK, Dec, Goto, HasTask
  <2>2. I' = I
    BY <1>0, <1>5 DEF TypeOK, Dec, Goto
  <2> HIDE DEF A, I
  <2>3. Cardinality(A') = Cardinality(A) - 1
    BY <1>0, <2>1, FS_RemoveElement
  <2>4. QED
    BY <1>0, <1>5, <2>2, <2>3 DEF CountersExact, Dec, A, I
<1>6. ASSUME NEW t \in Pool, IdleResume(t) PROVE CountersExact'
  <2>1. I' = I \cup {t} /\ t \notin I /\ A' = A
    BY <1>0, <1>6 DEF TypeOK, IdleResume, Goto
  <2> HIDE DEF A, I
  <2>2. Cardinality(I') = Cardinality(I) + 1
    BY <1>0, <2>1, FS_AddElement
  <2>3. QED
    BY <1>0, <1>6, <2>1, <2>2 DEF CountersExact, IdleResume, A, I
<1>7. ASSUME NEW t \in Pool, IdleReturn(t) PROVE CountersExact'
  <2>1. I' = I \ {t} /\ t \in I /\ A' = A
    BY <1>0, <1>7 DEF TypeOK, IdleReturn, Goto
  <2> HIDE DEF A, I
  <2>2. Cardinality(I') = Cardinality(I) - 1
    BY <1>0, <2>1, FS_RemoveElement
  <2>3. QED
    BY <1>0, <1>7, <2>1, <2>2 DEF CountersExact, IdleReturn, A, I
<1>8. ASSUME NEW w \in Workers, Boot(w) PROVE CountersExact'
  BY <1>2, <1>8 DEF InIdle, Boot, Goto
<1>9. ASSUME NEW t \in Pool, RunStep(t) \/ BodyEnd(t) PROVE CountersExact'
  BY <1>2, <1>4, <1>5, <1>6, <1>7, <1>9 DEF InIdle, RunStep, BodyEnd, FetchNone,
     Resume, SkipTerm, Unlock, IdleEnd, IdleStay, IdleYield, RunExit, Yield, Finish,
     SwitchBack, Goto
<1>10. QED
  BY <1>1, <1>3, <1>8, <1>9 DEF Next, Step, CallerPost, BodyPost

(* Once stopping() holds, a step keeps it: the list is empty, no thread    *)
(* holds a task, hence no body runs that could schedule more.              *)
LEMMA StoppingStep == IInv /\ [Next]_vars /\ Stopping => Stopping'
<1> SUFFICES ASSUME IInv, [Next]_vars, Stopping PROVE Stopping'
  OBVIOUS
<1> USE SchedulerAssumption, PoolFacts DEF vars, dataVars, lifeVars, queueVars,
        execVars, fiberVars, idleVars
<1>1. m_stopping /\ m_tasks = <<>> /\ m_activeThreadCount = 0
  BY DEF Stopping
<1>2. \A t \in Pool : task[t] = NULL /\ pc[t] \notin HasTask
  BY ActivePositive DEF IInv, TaskOK
<1>3. pc[Caller] \notin BeforeStop
  BY <1>1 DEF IInv, ControlOK
<1>4. CASE UNCHANGED <<m_stopping, m_tasks, m_activeThreadCount>>
  BY <1>1, <1>4 DEF Stopping
<1>5. ASSUME NEW t \in Pool PROVE ~FetchTask(t) /\ ~Dec(t)
  <2>1. Eligible(t) = {}
    BY <1>1, EmptySeq DEF Eligible
  <2>2. QED
    BY <1>2, <2>1 DEF FetchTask, Dec, Goto, HasTask
<1>6. ASSUME NEW j \in Jobs, NEW thr \in Pool \cup {NULL}
      PROVE  ~CallerPost(j, thr) /\ \A t \in Pool : ~BodyPost(t, j, thr)
  BY <1>2, <1>3 DEF CallerPost, BodyPost, HasTask, BeforeStop
<1>7. ~StopBegin
  BY DEF StopBegin
<1>8. QED
  BY <1>4, <1>5, <1>6, <1>7 DEF Next, Step, CallerStep, RunStep, BodyEnd, StartLock,
     StartUnlock, StartCreate, StartReady, StopJoin, Boot, StopSwap, StopReturn,
     Destroy, FetchNone, Resume, SkipTerm, Unlock, IdleResume, IdleEnd, IdleStay,
     IdleYield, IdleReturn, RunExit, Yield, Finish, SwitchBack

(* A step ends an idle fiber, or a thread, only when stopping() holds.     *)
LEMMA DrainStep == IInv /\ [Next]_vars => DrainOK'
<1> SUFFICES ASSUME IInv, [Next]_vars PROVE DrainOK'
  OBVIOUS
<1> USE SchedulerAssumption, PoolFacts DEF vars, dataVars, lifeVars, queueVars,
        execVars, fiberVars, idleVars
<1>0. TypeOK /\ ControlOK /\ DrainOK
  BY DEF IInv
<1>1. Stopping => Stopping'
  BY StoppingStep
<1>2. CASE UNCHANGED <<pc, idleState>>
  BY <1>0, <1>1, <1>2 DEF DrainOK, Gone
<1>3. ASSUME NEW t \in Threads, NEW to, UNCHANGED idleState,
             pc' = [pc EXCEPT ![t] = to],
             to \notin {"exit"} \cup AfterRun \/ pc[t] \in AfterRun
                \/ (t \in Pool /\ idleState[t] = "TERM") \/ t \notin Pool
      PROVE  DrainOK'
  BY <1>0, <1>1, <1>3 DEF TypeOK, DrainOK, Gone, AfterRun
<1>4. CASE CallerStep
  <2>1. ASSUME NEW w \in Workers, StartCreate(w) PROVE DrainOK'
    BY <1>0, <1>1, <2>1 DEF TypeOK, DrainOK, Gone, StartCreate
  <2>2. QED
    BY <1>2, <1>3, <1>4, <2>1 DEF AfterRun, CallerStep, StartLock, StartUnlock,
       StartReady, StopJoin, StopBegin, StopSwap, StopReturn, Destroy, Goto, Threads
<1>5. ASSUME NEW w \in Workers, Boot(w) PROVE DrainOK'
  BY <1>3, <1>5 DEF AfterRun, Boot, Goto
<1>6. ASSUME NEW t \in Pool, IdleResume(t) PROVE DrainOK'
  BY <1>0, <1>1, <1>6 DEF TypeOK, DrainOK, Gone, IdleResume, Goto
<1>7. ASSUME NEW t \in Pool, IdleEnd(t) PROVE DrainOK'
  BY <1>0, <1>1, <1>7 DEF TypeOK, DrainOK, Gone, IdleEnd, Goto
<1>8. ASSUME NEW t \in Pool, IdleYield(t) PROVE DrainOK'
  BY <1>0, <1>1, <1>8 DEF TypeOK, DrainOK, Gone, IdleYield, Goto
<1>9. ASSUME NEW t \in Pool, RunStep(t) \/ BodyEnd(t) PROVE DrainOK'
  BY <1>3, <1>6, <1>7, <1>8, <1>9 DEF AfterRun, RunStep, BodyEnd, FetchTask, FetchNone,
     Resume, SkipTerm, Unlock, Dec, IdleStay, IdleReturn, RunExit, Yield, Finish,
     SwitchBack, Goto
<1>10. QED
  BY <1>2, <1>4, <1>5, <1>9 DEF Next, Step, CallerPost, BodyPost

-----------------------------------------------------------------------------
(* Every reachable state satisfies the invariant.                          *)
THEOREM Invariance == Spec => []IInv
<1>1. IInv /\ [Next]_vars => IInv'
  BY TypeStep, ControlStep, TaskStep, FiberStep, NumbersStep, CountersStep, DrainStep
     DEF IInv
<1>2. QED
  BY InitIInv, <1>1, PTL DEF Spec

(* The variables keep their types; the two counters, which the code keeps  *)
(* in unsigned atomics, never go below zero.                               *)
THEOREM TypeCorrect == Spec => []TypeOK
<1>1. IInv => TypeOK
  BY DEF IInv
<1>2. QED
  BY Invariance, <1>1, PTL

(* No two threads ever execute the same fiber.                             *)
THEOREM FiberExclusion == Spec => []FiberExclusive
<1>1. ASSUME IInv PROVE FiberExclusive
  <2>0. TypeOK /\ TaskOK /\ FiberOK
    BY <1>1 DEF IInv
  <2>1. ASSUME NEW t \in Pool, NEW u \in Pool, pc[t] = "body", pc[u] = "body",
               task[t].job = task[u].job
        PROVE  t = u
    BY <2>0, <2>1, PoolFacts DEF FiberOK, HoldsFiber
  <2>2. ASSUME NEW j \in Jobs, m_state[j] = "RUNNING"
        PROVE  \E t \in Pool : pc[t] = "body" /\ task[t].job = j
    <3>1. /\ fiberMutex[j] \in Threads /\ pc[fiberMutex[j]] = "body"
          /\ task[fiberMutex[j]].job = j
      BY <2>0, <2>2 DEF TypeOK, FiberOK
    <3>2. fiberMutex[j] \in Pool
      BY <1>1, <3>1, PoolSteps DEF RunPC
    <3>3. QED
      BY <3>1, <3>2
  <2>3. ASSUME NEW t \in Pool, pc[t] = "body"
        PROVE  m_state[task[t].job] = "RUNNING"
    BY <2>0, <2>3, PoolFacts DEF TypeOK, TaskOK, FiberOK, HasTask, HoldsFiber, Task
  <2>4. QED
    BY <2>1, <2>2, <2>3 DEF FiberExclusive
<1>2. QED
  BY Invariance, <1>1, PTL

(* Both counters are exact in every state.                                 *)
THEOREM ExactCounters == Spec => []CountersExact
<1>1. IInv => CountersExact
  BY DEF IInv
<1>2. QED
  BY Invariance, <1>1, PTL

(* A listed task never lacks a thread that will come to take it.           *)
THEOREM TasksKeepAThread == Spec => []TaskHasThread
<1>1. ASSUME IInv PROVE TaskHasThread
  <2> SUFFICES ASSUME NEW i \in 1..Len(m_tasks)
               PROVE  \E t \in Pool : m_tasks[i].thread \in {NULL, t} /\ ~Gone(t)
    BY DEF TaskHasThread
  <2>0. m_tasks[i] \in Task
    BY <1>1, ElementOfSeq DEF IInv, TypeOK
  <2>1. m_tasks # <<>> /\ m_tasks[i].thread \in Pool \cup {NULL}
    BY <2>0, EmptySeq DEF Task
  <2>2. \A t \in Pool : ~Gone(t)
    BY <1>1, <2>1 DEF IInv, DrainOK, Stopping
  <2>3. QED
    BY <2>1, <2>2, SchedulerAssumption
<1>2. QED
  BY Invariance, <1>1, PTL

(* When every thread of the pool is gone, no work is left.                 *)
LEMMA GoneDrained ==
  ASSUME IInv, pc[Caller] \in AfterRun, \A t \in Pool : Gone(t)
  PROVE  /\ Stopping /\ m_tasks = <<>> /\ served = 1..posts
         /\ \A t \in Pool : task[t] = NULL
<1>1. Stopping /\ m_tasks = <<>>
  BY SchedulerAssumption DEF IInv, DrainOK, Stopping
<1>2. \A t \in Threads : task[t] = NULL
  BY DEF IInv, TaskOK, HasTask, Gone, AfterRun, Threads, Pool
<1>3. (1..posts) \ served = {}
  BY <1>1, <1>2, EmptySeq DEF IInv, NumbersOK, NoneLost
<1>4. QED
  BY <1>1, <1>2, <1>3, PoolFacts DEF IInv, NumbersOK

(* When stop() has returned, or is about to, every thread is gone.         *)
LEMMA StopGone ==
  ASSUME IInv,
         pc[Caller] \in {"stopped", "destroyed"} \/ (pc[Caller] = "join" /\ thrs = {})
  PROVE  pc[Caller] \in AfterRun /\ \A t \in Pool : Gone(t)
BY DEF IInv, ControlOK, AfterRun, Gone, Pool

(* "The scheduler executes all scheduled tasks before it exits."           *)
THEOREM StopIsDrained == Spec => []StopDrains
<1>1. IInv => StopDrains
  BY GoneDrained, StopGone DEF StopDrains
<1>2. QED
  BY Invariance, <1>1, PTL

(* stopping() never becomes false again.                                   *)
THEOREM StoppingIsStable == Spec => StoppingStable
<1>1. IInv /\ [Next]_vars => [Stopping => Stopping']_vars
  BY StoppingStep
<1>2. QED
  BY Invariance, <1>1, PTL DEF Spec, StoppingStable

(* With m_useCaller read as true, no assert of the code can fail.          *)
THEOREM AssertsHold == ASSUME UseCallerReads = {TRUE} PROVE Spec => []NoAssertFails
<1>1. Init => NoAssertFails
  BY DEF Init, NoAssertFails
<1>2. ASSUME IInv, NoAssertFails, [Next]_vars PROVE NoAssertFails'
  <2> USE DEF vars, dataVars, lifeVars, queueVars, execVars, fiberVars, idleVars
  <2>1. CASE UNCHANGED aborted
    BY <1>2, <2>1 DEF NoAssertFails
  <2>2. ASSUME NEW t \in Pool, Resume(t) PROVE NoAssertFails'
    <3>1. task[t].job \in Jobs /\ m_state[task[t].job] \notin {"NONE", "RUNNING", "TERM"}
      BY <1>2, <2>2, PoolFacts
         DEF IInv, TypeOK, TaskOK, FiberOK, HasTask, Resume, FiberFree, Goto, Task
    <3>2. m_state[task[t].job] \in {"READY", "CB"}
      BY <1>2, <3>1 DEF IInv, TypeOK, JobState, FiberState
    <3>3. QED
      BY <2>2, <3>2 DEF Resume, NoAssertFails
  <2>3. CASE StopBegin
    BY <1>2, <2>3 DEF IInv, ControlOK, StopBegin, Goto, BeforeStop, NoAssertFails
  <2>4. CASE Destroy
    BY <1>2, <2>4, GoneDrained, StopGone DEF Destroy, Goto, NoAssertFails
  <2>5. QED
    BY <1>2, <2>1, <2>2, <2>3, <2>4 DEF Next, Step, CallerStep, RunStep, BodyEnd,
       StartLock, StartUnlock, StartCreate, StartReady, StopJoin, Boot, StopSwap,
       StopReturn, CallerPost, BodyPost, FetchTask, FetchNone, SkipTerm, Unlock, Dec,
       IdleResume, IdleEnd, IdleStay, IdleYield, IdleReturn, RunExit, Yield, Finish,
       SwitchBack
<1>3. QED
  BY Invariance, <1>1, <1>2, PTL DEF Spec

-----------------------------------------------------------------------------
(* The scheduler implements TaskPool: each scheduleLock is one submission, *)
(* each task taken from the list a beginning, each decrement an end, and   *)
(* the return of stop() the closing of the pool.                           *)
THEOREM Refinement == Spec => ImplementsTaskPool
<1> DEFINE pend == {m_tasks[i].no : i \in 1..Len(m_tasks)}
           runs == {task[t].no : t \in {u \in Pool : task[u] # NULL}}
           clos == pc[Caller] \in {"stopped", "destroyed"}
<1>1. Init => Abstract!Init
  <2> SUFFICES ASSUME Init PROVE Abstract!Init
    OBVIOUS
  <2>1. pend = {} /\ runs = {}
    BY EmptySeq, PoolFacts DEF Init
  <2>2. m_stopping = FALSE /\ pc[Caller] = "init" /\ posts = 0 /\ served = {}
    BY Zenon DEF Init, Threads
  <2>3. (~m_stopping) = TRUE /\ clos = FALSE
    BY <2>2
  <2>4. QED
    BY <2>1, <2>2, <2>3 DEF Abstract!Init
<1>2. ASSUME IInv, [Next]_vars PROVE [Abstract!Next]_Abstract!vars
  <2> USE SchedulerAssumption, PoolFacts DEF vars, dataVars, lifeVars, queueVars,
          execVars, fiberVars, idleVars
  <2>0. /\ TypeOK /\ ControlOK /\ TaskOK /\ NumbersOK /\ Len(m_tasks) \in Nat
        /\ posts \in Nat
    BY <1>2, LenProperties DEF IInv, TypeOK
  <2>1. ASSUME UNCHANGED <<queueVars, execVars, m_stopping>>, clos' = clos
        PROVE  UNCHANGED Abstract!vars
    BY <2>1 DEF Abstract!vars
  <2>2. ASSUME NEW j \in Jobs, NEW thr \in Pool \cup {NULL}, ScheduleLock(j, thr),
               UNCHANGED <<lifeVars, execVars, pc>>, ~m_stopping \/ runs # {}
        PROVE  Abstract!Submit
    <3>1. /\ Len(m_tasks') = Len(m_tasks) + 1
          /\ \A i \in 1..Len(m_tasks) : m_tasks'[i] = m_tasks[i]
          /\ m_tasks'[Len(m_tasks) + 1].no = posts + 1
      BY <2>0, <2>2, AppendProperties DEF TypeOK, ScheduleLock, Task
    <3>2. pend' = pend \cup {posts + 1}
      BY <2>0, <3>1
    <3>3. runs' = runs /\ clos' = clos /\ served' = served /\ m_stopping' = m_stopping
      BY <2>2
    <3>4. posts < MaxPosts /\ posts' = posts + 1
      BY <2>2 DEF ScheduleLock
    <3>5. (~m_stopping)' = ~m_stopping /\ (~m_stopping \/ runs # {})
      BY <2>2, <3>3
    <3> HIDE DEF lifeVars, execVars
    <3>6. QED
      BY <3>2, <3>3, <3>4, <3>5 DEF Abstract!Submit
  <2>3. ASSUME NEW t \in Pool, FetchTask(t)
        PROVE  \E n \in 1..MaxPosts : Abstract!Begin(n)
    <3>1. PICK i \in 1..Len(m_tasks) :
            /\ m_tasks[i] \in Task
            /\ task' = [task EXCEPT ![t] = m_tasks[i]]
            /\ Len(m_tasks') = Len(m_tasks) - 1
            /\ \A k \in 1..(Len(m_tasks) - 1) :
                 m_tasks'[k] = IF k < i THEN m_tasks[k] ELSE m_tasks[k + 1]
      BY <2>0, <2>3, FetchFacts
    <3>2. pend' = pend \ {m_tasks[i].no}
      <4>1. ASSUME NEW k \in 1..Len(m_tasks') PROVE m_tasks'[k].no \in pend \ {m_tasks[i].no}
        <5>1. PICK n \in 1..Len(m_tasks) : n # i /\ m_tasks'[k] = m_tasks[n]
          BY <2>0, <3>1
        <5>2. QED
          BY <2>0, <5>1 DEF NumbersOK, ListedOnce
      <4>2. ASSUME NEW n \in 1..Len(m_tasks), n # i PROVE m_tasks[n].no \in pend'
        <5>1. CASE n < i
          BY <2>0, <3>1, <5>1
        <5>2. CASE n > i
          <6>1. /\ n - 1 \in 1..(Len(m_tasks) - 1) /\ ~(n - 1 < i)
                /\ (n - 1) + 1 = n
            BY <2>0, <3>1, <5>2
          <6>2. m_tasks'[n - 1] = m_tasks[n]
            BY <3>1, <6>1
          <6>3. QED
            BY <3>1, <6>1, <6>2
        <5>3. QED
          BY <2>0, <4>2, <5>1, <5>2
      <4>3. pend' \subseteq pend \ {m_tasks[i].no}
        BY <4>1
      <4>4. ASSUME NEW m \in pend \ {m_tasks[i].no} PROVE m \in pend'
        <5>1. PICK n \in 1..Len(m_tasks) : m = m_tasks[n].no
          OBVIOUS
        <5>2. QED
          BY <4>2, <4>4, <5>1
      <4> HIDE DEF pend
      <4>5. QED
        BY <4>3, <4>4
    <3>3. runs' = runs \cup {m_tasks[i].no}
      <4>1. task[t] = NULL /\ m_tasks[i] # NULL /\ t \in Threads
        BY <2>0, <2>3, <3>1 DEF Threads, Pool, TaskOK, HasTask, FetchTask, Goto
      <4>2. task'[t] = m_tasks[i] /\ \A u \in Pool : u # t => task'[u] = task[u]
        BY <2>0, <3>1, <4>1 DEF TypeOK, Threads, Pool
      <4>3. {u \in Pool : task'[u] # NULL} = {u \in Pool : task[u] # NULL} \cup {t}
        BY <4>1, <4>2
      <4>4. \A u \in {v \in Pool : task[v] # NULL} : task'[u] = task[u]
        BY <4>1, <4>2
      <4>5. QED
        BY <4>2, <4>3, <4>4
    <3>4. clos' = clos
      BY <2>0, <2>3 DEF TypeOK, FetchTask, Goto
    <3>5. m_tasks[i].no \in 1..MaxPosts /\ m_tasks[i].no \in pend
      BY <3>1 DEF Task
    <3>6. PICK n \in 1..MaxPosts : n = m_tasks[i].no
      BY <3>5
    <3>7. Abstract!Begin(n)
      BY <2>3, <3>2, <3>3, <3>4, <3>5, <3>6 DEF Abstract!Begin, FetchTask
    <3>8. QED
      BY <3>7
  <2>4. ASSUME NEW t \in Pool, Dec(t) PROVE \E n \in 1..MaxPosts : Abstract!End(n)
    <3>1. task[t] # NULL /\ task[t] \in Task
      BY <2>0, <2>4 DEF TypeOK, TaskOK, HasTask, Dec, Goto
    <3>2. runs' = runs \ {task[t].no}
      BY <2>0, <2>4, <3>1 DEF TypeOK, NumbersOK, HeldOnce, Dec
    <3>3. clos' = clos /\ pend' = pend
      BY <2>0, <2>4 DEF TypeOK, Dec, Goto
    <3>4. task[t].no \in 1..MaxPosts /\ task[t].no \in runs
      BY <3>1 DEF Task
    <3>5. PICK n \in 1..MaxPosts : n = task[t].no
      BY <3>4
    <3>6. Abstract!End(n)
      BY <2>4, <3>2, <3>3, <3>4, <3>5 DEF Abstract!End, Dec
    <3>7. QED
      BY <3>6
  <2>5. ASSUME StopBegin PROVE Abstract!Shut
    <3>1. clos' = clos /\ ~m_stopping
      BY <2>0, <2>5 DEF TypeOK, ControlOK, BeforeStop, StopBegin, Goto, Threads
    <3>2. QED
      BY <2>5, <3>1 DEF Abstract!Shut, StopBegin
  <2>6. ASSUME StopReturn PROVE Abstract!Close
    <3>1. pend = {} /\ runs = {} /\ served = 1..posts
      BY <1>2, <2>6, GoneDrained, StopGone, EmptySeq DEF StopReturn, Goto
    <3>2. ~clos /\ clos' /\ m_stopping
      BY <2>0, <2>6 DEF TypeOK, ControlOK, BeforeStop, StopReturn, Goto, Threads
    <3>3. QED
      BY <2>6, <3>1, <3>2 DEF Abstract!Close, StopReturn
  <2>7. ASSUME NEW t \in Pool, RunStep(t) \/ BodyEnd(t),
               ~FetchTask(t), ~Dec(t)
        PROVE  UNCHANGED Abstract!vars
    <3>1. /\ UNCHANGED <<queueVars, execVars, m_stopping>>
          /\ pc[t] \in RunPC /\ pc'[t] \notin {"stopped", "destroyed"}
          /\ \A u \in Threads : u # t => pc'[u] = pc[u]
      BY <2>0, <2>7 DEF TypeOK, RunPC, RunStep, BodyEnd, FetchNone, Resume, SkipTerm,
         Unlock, IdleResume, IdleEnd, IdleStay, IdleYield, IdleReturn, RunExit,
         Yield, Finish, SwitchBack, Goto
    <3>2. clos' = clos
      BY <3>1 DEF Threads, RunPC
    <3>3. QED
      BY <2>1, <3>1, <3>2
  <2>8. ASSUME CallerStep, ~StopBegin, ~StopReturn PROVE UNCHANGED Abstract!vars
    <3>1. UNCHANGED <<queueVars, execVars, m_stopping>>
      BY <2>8 DEF CallerStep, StartLock, StartUnlock, StartCreate, StartReady,
         StopJoin, StopSwap, Destroy
    <3>2. clos' = clos
      BY <2>0, <2>8 DEF TypeOK, CallerStep, StartLock, StartUnlock, StartCreate,
         StartReady, StopJoin, StopSwap, Destroy, Goto, Threads
    <3>3. QED
      BY <2>1, <3>1, <3>2
  <2>9. ASSUME NEW w \in Workers, Boot(w) PROVE UNCHANGED Abstract!vars
    <3>1. UNCHANGED <<queueVars, execVars, m_stopping>> /\ clos' = clos
      BY <2>0, <2>9 DEF TypeOK, Boot, Goto, Threads
    <3>2. QED
      BY <2>1, <3>1
  <2>10. ASSUME NEW j \in Jobs, NEW thr \in Pool \cup {NULL}, CallerPost(j, thr)
         PROVE  Abstract!Submit
    BY <2>0, <2>2, <2>10 DEF CallerPost, ControlOK, BeforeStop
  <2>11. ASSUME NEW j \in Jobs, NEW thr \in Pool \cup {NULL}, NEW t \in Pool,
                BodyPost(t, j, thr)
         PROVE  Abstract!Submit
    <3>1. task[t].no \in runs
      BY <2>0, <2>11 DEF BodyPost, TaskOK, HasTask
    <3>2. QED
      BY <2>2, <2>11, <3>1 DEF BodyPost
  <2>12. CASE UNCHANGED vars
    BY <2>1, <2>12
  <2>13. QED
    BY <1>2, <2>3, <2>4, <2>5, <2>6, <2>7, <2>8, <2>9, <2>10, <2>11, <2>12
       DEF Next, Step, RunStep, Abstract!Next
<1>3. QED
  BY Invariance, <1>1, <1>2, PTL DEF Spec, ImplementsTaskPool, Abstract!Spec
=============================================================================
