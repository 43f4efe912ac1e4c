----------------------------- MODULE HookProofs ------------------------------
(***************************************************************************)
(* What Fiber promises holds with sleeping fibers too, and a sleep ends no *)
(* earlier than asked for.                                                 *)
(***************************************************************************)
EXTENDS Hook, FiberProofs

(* Products, quotients and remainders of natural numbers.                  *)
LEMMA ProductNat ==
  ASSUME NEW a \in Nat, NEW b \in Nat
  PROVE  a * b \in Nat
OBVIOUS

(* The arithmetic of the conversions between units.                        *)
LEMMA ProductMonotone ==
  ASSUME NEW a \in Int, NEW b \in Int, NEW c \in Nat \ {0}
  PROVE  a <= b <=> a * c <= b * c
<1>1. ASSUME a <= b PROVE a * c <= b * c
  BY <1>1
<1>2. ASSUME b + 1 <= a PROVE b * c + c <= a * c
  <2>1. (b + 1) * c <= a * c
    BY <1>2
  <2>2. QED
    BY <2>1
<1>3. a * c \in Int /\ b * c \in Int
  OBVIOUS
<1>4. QED
  BY <1>1, <1>2, <1>3

(* A product distributes over a sum of times.                              *)
LEMMA ProductAdds ==
  ASSUME NEW a \in Int, NEW b \in Int, NEW c \in Nat
  PROVE  (a + b) * c = a * c + b * c /\ a * c \in Int /\ b * c \in Int
OBVIOUS

(* A whole quotient and its remainder are natural numbers.                 *)
LEMMA Quotient ==
  ASSUME NEW a \in Nat, NEW b \in Nat \ {0}
  PROVE  a \div b \in Nat /\ a % b \in Nat
OBVIOUS

(* A division loses nothing if there is no remainder, and only then.      *)
LEMMA QuotientExact ==
  ASSUME NEW a \in Nat, NEW b \in Nat \ {0}
  PROVE  /\ (a \div b) * b <= a
         /\ a % b = 0 <=> (a \div b) * b >= a
<1>1. a = (a \div b) * b + (a % b)
  OBVIOUS
<1>2. (a \div b) * b \in Nat /\ a % b \in Nat
  BY Quotient, ProductNat
<1>3. QED
  BY <1>1, <1>2

(* A value wraps if it is not below the modulus, and only then.            *)
LEMMA RemainderSmall ==
  ASSUME NEW a \in Nat, NEW b \in Nat \ {0}
  PROVE  a % b <= a /\ a % b < b /\ (a < b <=> a % b >= a)
OBVIOUS

(* The times of a call.                                                    *)
LEMMA CallTimes ==
  ASSUME NEW c \in Call
  PROVE  Asked(c) \in Nat /\ TimerMs(c) \in Int /\ WholeMs(c) \in BOOLEAN
<1> USE HookAssumption
<1>0. /\ c.s \in Nat /\ c.u \in Nat /\ c.name \in {"sleep", "usleep", "nanosleep"}
      /\ MS \in Nat /\ US \in Nat \ {0} /\ UINT \in Nat \ {0} /\ INT \in Nat
  BY DEF Call
<1>1. c.s * MS \in Nat
  BY <1>0, ProductNat
<1>2. c.s * MS * US \in Nat
  BY <1>0, <1>1, ProductNat
<1>3. Asked(c) \in Nat
  BY <1>0, <1>2 DEF Asked
<1>4. c.u \div US \in Nat /\ (c.s * MS) % UINT \in Nat
  BY <1>0, <1>1, Quotient
<1>5. ASSUME NEW v \in Nat PROVE IntMs(v) \in Int
  <2>1. v % UINT \in Nat
    BY <1>0, Quotient
  <2>2. QED
    BY <1>0, <2>1 DEF IntMs
<1>6. c.s * MS + c.u \div US \in Nat
  BY <1>1, <1>4
<1>7. TimerMs(c) \in Int
  BY <1>0, <1>4, <1>5, <1>6 DEF TimerMs
<1>8. WholeMs(c) \in BOOLEAN
  BY <1>0 DEF WholeMs
<1>9. QED
  BY <1>3, <1>7, <1>8

-----------------------------------------------------------------------------
(* Every step of Hook is one of Fiber, or leaves Fiber's state alone, or   *)
(* schedules a fiber that exists.                                          *)
LEMMA IInvStep ==
  ASSUME EarlyReset = FALSE, HookInv, [HookNext]_allVars
  PROVE  IInv'
<1>0. IInv /\ SleepOK
  BY DEF HookInv
<1>1. CASE [Next]_vars
  BY <1>0, <1>1, FiberStep
<1>2. ASSUME NEW f \in Tasks, TimerFires(f) PROVE IInv'
  <2>1. deadline[f] # NULL
    BY <1>2 DEF TimerFires
  <2>2. m_state[f] # "NONE"
    BY <1>0, <2>1 DEF SleepOK
  <2>3. QED
    BY <1>0, <1>2, <2>2, ScheduleStep DEF TimerFires
<1>3. ASSUME NEW t \in Threads, Turn(t) \/ ClientStep(t) PROVE [Next]_vars
  BY <1>3 DEF Turn, ClientStep, SleepYield, SleepReturn, BlockingReturn, Returned, BodyStep, Next
<1>4. ASSUME NEW t \in Threads, NEW c \in Calls, HookedSleep(t, c) \/ BlockingSleep(t, c)
      PROVE  UNCHANGED vars
  BY <1>4 DEF HookedSleep, BlockingSleep, Sleeps
<1>5. QED
  BY <1>1, <1>2, <1>3, <1>4 DEF HookNext, Next, Tick, allVars

(* The types of the sleeping fibers.                                       *)
LEMMA HookTypesStep ==
  ASSUME EarlyReset = FALSE, HookInv, [HookNext]_allVars
  PROVE  HookTypeOK'
<1> USE HookAssumption DEF hookVars
<1>0. HookTypeOK /\ TypeOK' /\ IInv
  BY IInvStep DEF HookInv, IInv
<1>1. CASE UNCHANGED hookVars
  BY <1>0, <1>1 DEF HookTypeOK
<1>2. CASE Tick
  BY <1>0, <1>2 DEF Tick, HookTypeOK
<1>3. ASSUME NEW f \in Tasks, TimerFires(f) PROVE HookTypeOK'
  BY <1>0, <1>3 DEF TimerFires, HookTypeOK
<1>4. ASSUME NEW t \in Threads, SleepYield(t) \/ SleepReturn(t) \/ BlockingReturn(t)
      PROVE  HookTypeOK'
  <2>1. CASE SleepYield(t)
    <3>1. /\ UNCHANGED <<now, deadline, until, whole>>
          /\ sleep' = [sleep EXCEPT ![stack[t]] = "yielded"]
      BY <2>1 DEF SleepYield
    <3>2. QED
      BY <1>0, <3>1 DEF HookTypeOK
  <2>2. CASE SleepReturn(t) \/ BlockingReturn(t)
    <3>1. Returned(t)
      BY <2>2 DEF SleepReturn, BlockingReturn
    <3>2. QED
      BY <1>0, <3>1 DEF HookTypeOK, Returned
  <2>3. QED
    BY <1>4, <2>1, <2>2
<1>5. ASSUME NEW t \in Threads, NEW c \in Calls, Sleeps(t, c)
      PROVE  /\ until' \in [Tasks -> Nat] /\ whole' \in [Tasks -> BOOLEAN]
             /\ now' = now /\ now + TimerMs(c) \in Int
  <2>1. now \in Nat /\ Asked(c) \in Nat /\ TimerMs(c) \in Int /\ WholeMs(c) \in BOOLEAN
    BY <1>0, CallTimes DEF HookTypeOK
  <2>2. now * US + Asked(c) \in Nat
    BY <2>1, ProductNat
  <2>3. /\ until' = [until EXCEPT ![stack[t]] = now * US + Asked(c)]
        /\ whole' = [whole EXCEPT ![stack[t]] = WholeMs(c)] /\ now' = now
    BY <1>5 DEF Sleeps
  <2>4. until' \in [Tasks -> Nat]
    BY <1>0, <2>2, <2>3 DEF HookTypeOK
  <2>5. whole' \in [Tasks -> BOOLEAN]
    BY <1>0, <2>1, <2>3 DEF HookTypeOK
  <2>6. QED
    BY <2>1, <2>3, <2>4, <2>5
<1>6. ASSUME NEW t \in Threads, NEW c \in Calls, HookedSleep(t, c) PROVE HookTypeOK'
  <2>1. /\ until' \in [Tasks -> Nat] /\ whole' \in [Tasks -> BOOLEAN]
        /\ now' = now /\ now + TimerMs(c) \in Int
    BY <1>5, <1>6 DEF HookedSleep
  <2>2. /\ sleep' = [sleep EXCEPT ![stack[t]] = "armed"]
        /\ deadline' = [deadline EXCEPT ![stack[t]] = now + TimerMs(c)]
    BY <1>6 DEF HookedSleep
  <2>3. /\ sleep' \in [Tasks -> {"no", "armed", "yielded", "blocked"}]
        /\ deadline' \in [Tasks -> Int \cup {NULL}]
    BY <1>0, <2>1, <2>2 DEF HookTypeOK
  <2>4. QED
    BY <1>0, <2>1, <2>3 DEF HookTypeOK
<1>7. ASSUME NEW t \in Threads, NEW c \in Calls, BlockingSleep(t, c) PROVE HookTypeOK'
  <2>1. until' \in [Tasks -> Nat] /\ whole' \in [Tasks -> BOOLEAN] /\ now' = now
    BY <1>5, <1>7 DEF BlockingSleep
  <2>2. sleep' = [sleep EXCEPT ![stack[t]] = "blocked"] /\ deadline' = deadline
    BY <1>7 DEF BlockingSleep
  <2>3. sleep' \in [Tasks -> {"no", "armed", "yielded", "blocked"}]
    BY <1>0, <2>2 DEF HookTypeOK
  <2>4. QED
    BY <1>0, <2>1, <2>2, <2>3 DEF HookTypeOK
<1>8. QED
  BY <1>1, <1>2, <1>3, <1>4, <1>6, <1>7
     DEF HookNext, Turn, BodyStep, ClientStep, allVars

-----------------------------------------------------------------------------
(* The elements of the task list.                                          *)
LEMMA RangeFacts ==
  ASSUME NEW s \in Seq(Tasks), NEW f \in Tasks
  PROVE  /\ Range(Append(s, f)) = Range(s) \cup {f}
         /\ s # <<>> => Head(s) \in Range(s) /\ Range(Tail(s)) \subseteq Range(s)
<1>1. /\ Append(s, f) \in Seq(Tasks) /\ Len(Append(s, f)) = Len(s) + 1
      /\ \A i \in 1..Len(s) : Append(s, f)[i] = s[i]
      /\ Append(s, f)[Len(s) + 1] = f
  OBVIOUS
<1>0. ASSUME NEW r \in Seq(Tasks) PROVE Range(r) = {r[i] : i \in 1..Len(r)}
  BY DEF Range
<1>2. Range(s) = {s[i] : i \in 1..Len(s)}
  BY <1>0
<1>3. Range(Append(s, f)) = {Append(s, f)[i] : i \in 1..(Len(s) + 1)}
  BY <1>0, <1>1
<1>4. Range(Append(s, f)) = Range(s) \cup {f}
  BY <1>1, <1>2, <1>3
<1>5. ASSUME s # <<>> PROVE Head(s) \in Range(s) /\ Range(Tail(s)) \subseteq Range(s)
  <2>1. /\ Head(s) = s[1] /\ 1 \in 1..Len(s)
        /\ Tail(s) \in Seq(Tasks) /\ Len(Tail(s)) = Len(s) - 1
        /\ \A i \in 1..Len(Tail(s)) : Tail(s)[i] = s[i + 1] /\ i + 1 \in 1..Len(s)
    BY <1>5
  <2>2. Range(Tail(s)) = {Tail(s)[i] : i \in 1..Len(Tail(s))}
    BY <1>0, <2>1
  <2>3. QED
    BY <1>2, <2>1, <2>2
<1>6. QED
  BY <1>4, <1>5

(* A step of Fiber that does not schedule f: f stays constructed, nobody   *)
(* new comes to know of it, and nobody resumes it.                         *)
Kept(f) ==
  /\ m_state[f] # "NONE" => m_state'[f] # "NONE"
  /\ Alone(f) => Alone(f)'
  /\ Alone(f) /\ m_state[f] = "READY" => m_state'[f] = "READY"

(* Setting up threads and fibers leaves the sleep of a fiber alone.        *)
LEMMA SetUpKeeps ==
  ASSUME IInv, NEW f \in Tasks, SetUp
  PROVE  Kept(f)
<1> USE FiberAssumption
<1>0. TypeOK /\ f # Caller /\ f # Scheduling /\ f \in Fibers
  BY DEF IInv, Fibers, Threads
<1>1. UNCHANGED <<m_tasks, task, m_mutex>>
  BY DEF SetUp, Construct, StopResume, Resume, RunEnd, SwitchBack, WorkerStart, New
<1>2. CASE Construct
  BY <1>0, <1>1, <1>2 DEF Construct, Kept, Alone, TypeOK
<1>3. CASE StopResume \/ RunEnd
  BY <1>0, <1>1, <1>3 DEF StopResume, Resume, RunEnd, SwitchBack, Kept, Alone, TypeOK
<1>4. ASSUME NEW w \in Workers, WorkerStart(w) PROVE Kept(f)
  BY <1>0, <1>1, <1>4 DEF WorkerStart, Kept, Alone, TypeOK, Threads
<1>5. ASSUME NEW g \in Tasks, New(g) PROVE Kept(f)
  BY <1>0, <1>1, <1>5 DEF New, Kept, Alone, TypeOK
<1>6. QED
  BY <1>2, <1>3, <1>4, <1>5 DEF SetUp

(* So do the steps of run().                                               *)
LEMMA RunKeeps ==
  ASSUME IInv, NEW f \in Tasks, NEW t \in Threads, RunStep(t)
  PROVE  Kept(f)
<1> USE FiberAssumption DEF pointers, fiberVars
<1>0. TypeOK /\ MutexOK /\ f \in Fibers /\ NULL \notin Tasks /\ NULL \notin Threads
  BY DEF IInv, Fibers
<1>1. CASE SwapContext(t)
  BY <1>1 DEF SwapContext, Kept, Alone
<1>2. CASE Take(t)
  <2>1. m_tasks \in Seq(Tasks) /\ m_tasks # <<>> /\ m_tasks' = Tail(m_tasks)
        /\ task' = [task EXCEPT ![t] = Head(m_tasks)] /\ UNCHANGED <<m_state, m_mutex>>
    BY <1>0, <1>2 DEF Take, TypeOK
  <2>2. Head(m_tasks) \in Range(m_tasks) /\ Range(m_tasks') \subseteq Range(m_tasks)
    BY <2>1, RangeFacts
  <2>3. QED
    BY <1>0, <2>1, <2>2 DEF Kept, Alone, TypeOK
<1>3. CASE RunResume(t)
  <2>1. /\ m_mutex[task[t]] = NULL /\ task[t] \in Tasks
        /\ m_state' = [m_state EXCEPT ![task[t]] = "RUNNING"]
        /\ m_mutex' = [m_mutex EXCEPT ![task[t]] = t]
        /\ UNCHANGED <<m_tasks, task>>
    BY <1>0, <1>3 DEF RunResume, Resume, Free, TypeOK
  <2>2. CASE task[t] = f
    BY <1>0, <2>1, <2>2 DEF Kept, Alone, TypeOK
  <2>3. CASE task[t] # f
    BY <1>0, <2>1, <2>3 DEF Kept, Alone, TypeOK
  <2>4. QED
    BY <2>2, <2>3
<1>4. CASE RunSkip(t)
  BY <1>0, <1>4 DEF RunSkip, Kept, Alone, TypeOK
<1>5. CASE RunReturn(t)
  <2>1. /\ m_mutex[task[t]] = t /\ task[t] \in Tasks
        /\ m_mutex' = [m_mutex EXCEPT ![task[t]] = NULL]
        /\ task' = [task EXCEPT ![t] = NULL] /\ UNCHANGED <<m_tasks, m_state>>
    BY <1>0, <1>5 DEF RunReturn, TypeOK
  <2>2. \A u \in Threads : task'[u] = f => u # t /\ task[u] = f
    BY <1>0, <2>1 DEF TypeOK
  <2>3. \A g \in Fibers : g # task[t] => m_mutex'[g] = m_mutex[g]
    BY <1>0, <2>1 DEF TypeOK
  <2>4. QED
    BY <1>0, <2>1, <2>2, <2>3 DEF Kept, Alone
<1>6. QED
  BY <1>1, <1>2, <1>3, <1>4, <1>5 DEF RunStep

(* A yield or the end of a body touches only the fiber of its own thread.  *)
LEMMA BodyKeeps ==
  ASSUME IInv, NEW f \in Tasks, NEW t \in Threads, Yield(t) \/ BodyEnd(t)
  PROVE  /\ Kept(f) /\ Inside(t)
         /\ UNCHANGED <<m_tasks, task, m_mutex>>
         /\ Yield(t) => m_state' = [m_state EXCEPT ![stack[t]] = "READY"]
<1> USE FiberAssumption
<1>0. TypeOK /\ f \in Fibers
  BY DEF IInv, Fibers
<1>1. Inside(t)
  BY InBodyFacts DEF Yield, BodyEnd
<1>2. t_fiber[t] = stack[t] /\ m_state[stack[t]] = "RUNNING" /\ stack[t] \in Tasks
  BY <1>1 DEF Inside, At, Holds
<1>3. /\ UNCHANGED <<m_tasks, task, m_mutex>>
      /\ \/ m_state' = [m_state EXCEPT ![stack[t]] = "READY"]
         \/ m_state' = [m_state EXCEPT ![stack[t]] = "TERM"]
      /\ Yield(t) => m_state' = [m_state EXCEPT ![stack[t]] = "READY"]
  BY <1>2 DEF Yield, BodyEnd, SwitchBack
<1>4. Kept(f)
  BY <1>0, <1>2, <1>3 DEF Kept, Alone, TypeOK
<1>5. QED
  BY <1>1, <1>3, <1>4

(* Scheduling another fiber, or resetting one that is over, does not touch *)
(* f.                                                                      *)
LEMMA ClientKeeps ==
  ASSUME IInv, NEW f \in Tasks, NEW t \in Threads, NEW g \in Tasks,
         (Post(t, g) /\ g # f) \/ Reset(t, g)
  PROVE  Kept(f)
<1> USE FiberAssumption DEF pointers, fiberVars
<1>0. TypeOK /\ f \in Fibers
  BY DEF IInv, Fibers
<1>1. CASE Post(t, g) /\ g # f
  <2>1. m_tasks \in Seq(Tasks) /\ m_tasks' = Append(m_tasks, g)
        /\ UNCHANGED <<task, m_mutex, m_state>>
    BY <1>0, <1>1 DEF Post, TypeOK
  <2>2. Range(m_tasks') = Range(m_tasks) \cup {g}
    BY <2>1, RangeFacts
  <2>3. QED
    BY <1>1, <2>1, <2>2 DEF Kept, Alone
<1>2. CASE Reset(t, g)
  BY <1>0, <1>2 DEF Reset, Kept, Alone, TypeOK
<1>3. QED
  BY <1>1, <1>2

(* Every step of Hook keeps SleepOK.                                       *)
LEMMA SleepStep ==
  ASSUME HookInv, [HookNext]_allVars
  PROVE  SleepOK'
<1> USE FiberAssumption, HookAssumption DEF hookVars
<1>0. IInv /\ TypeOK /\ HookTypeOK /\ SleepOK
  BY DEF HookInv, IInv
<1>1. ASSUME UNCHANGED hookVars,
             \A f \in Tasks : sleep[f] # "no" => Kept(f)
      PROVE  SleepOK'
  BY <1>0, <1>1 DEF SleepOK, Kept
<1>2. CASE SetUp /\ UNCHANGED hookVars
  BY <1>0, <1>1, <1>2, SetUpKeeps
<1>3. ASSUME NEW t \in Threads, RunStep(t) /\ UNCHANGED hookVars PROVE SleepOK'
  BY <1>0, <1>1, <1>3, RunKeeps
<1>4. ASSUME NEW t \in Threads, BodyStep(t) PROVE SleepOK'
  BY <1>0, <1>1, <1>4, BodyKeeps DEF BodyStep
<1>5. ASSUME NEW t \in Threads, ClientStep(t) PROVE SleepOK'
  BY <1>0, <1>1, <1>5, ClientKeeps DEF ClientStep
<1>6. ASSUME UNCHANGED <<vars, deadline, sleep>> PROVE SleepOK'
  <2>1. UNCHANGED <<m_state, m_tasks, task, m_mutex>>
    BY <1>6 DEF vars, fiberVars
  <2>2. QED
    BY <1>0, <1>6, <2>1 DEF SleepOK, Alone
<1>7. ASSUME NEW f \in Tasks, TimerFires(f) PROVE SleepOK'
  <2>1. /\ m_tasks \in Seq(Tasks) /\ m_tasks' = Append(m_tasks, f)
        /\ deadline' = [deadline EXCEPT ![f] = NULL]
        /\ UNCHANGED <<task, m_mutex, m_state, sleep>>
    BY <1>0, <1>7 DEF TimerFires, TypeOK, fiberVars
  <2>2. Range(m_tasks') = Range(m_tasks) \cup {f}
    BY <2>1, RangeFacts
  <2>3. \A g \in Tasks : g # f /\ Alone(g) => Alone(g)'
    BY <2>1, <2>2 DEF Alone
  <2>4. \A g \in Tasks : deadline'[g] = IF g = f THEN NULL ELSE deadline[g]
    BY <1>0, <2>1 DEF HookTypeOK
  <2>5. QED
    BY <1>0, <2>1, <2>3, <2>4 DEF SleepOK
<1>8. ASSUME NEW t \in Threads, SleepYield(t) PROVE SleepOK'
  <2>1. Inside(t)
    BY <1>0, <1>8, InBodyFacts DEF SleepYield
  <2>2. stack[t] \in Tasks
    BY <2>1 DEF Inside, At, Holds
  <2>3. /\ UNCHANGED <<m_tasks, task, m_mutex, deadline>>
        /\ m_state' = [m_state EXCEPT ![stack[t]] = "READY"]
        /\ sleep' = [sleep EXCEPT ![stack[t]] = "yielded"] /\ sleep[stack[t]] = "armed"
    BY <1>0, <1>8, <2>2, BodyKeeps DEF SleepYield
  <2>4. \A g \in Tasks : /\ m_state'[g] = IF g = stack[t] THEN "READY" ELSE m_state[g]
                         /\ sleep'[g] = IF g = stack[t] THEN "yielded" ELSE sleep[g]
                         /\ Alone(g) => Alone(g)'
    BY <1>0, <2>2, <2>3 DEF HookTypeOK, TypeOK, Alone, Fibers
  <2>5. QED
    BY <1>0, <2>2, <2>3, <2>4 DEF SleepOK
<1>9. ASSUME NEW t \in Threads, SleepReturn(t) \/ BlockingReturn(t)
      PROVE  SleepOK' /\ deadline[stack[t]] = NULL
  <2>1. Inside(t)
    BY <1>0, <1>9, InBodyFacts DEF SleepReturn, BlockingReturn
  <2>2. stack[t] \in Tasks /\ m_state[stack[t]] = "RUNNING"
    BY <2>1 DEF Inside, At, Holds
  <2>3. /\ UNCHANGED <<m_state, m_tasks, task, m_mutex, deadline>>
        /\ sleep' = [sleep EXCEPT ![stack[t]] = "no"]
        /\ sleep[stack[t]] \in {"yielded", "blocked"}
    BY <1>9 DEF SleepReturn, BlockingReturn, Returned, vars, fiberVars
  <2>4. deadline[stack[t]] = NULL
    BY <1>0, <2>2, <2>3 DEF SleepOK
  <2>5. \A g \in Tasks : sleep'[g] = IF g = stack[t] THEN "no" ELSE sleep[g]
    BY <1>0, <2>3 DEF HookTypeOK
  <2>6. QED
    BY <1>0, <2>2, <2>3, <2>4, <2>5 DEF SleepOK, Alone
<1>10. ASSUME NEW t \in Threads, NEW c \in Calls, Sleeps(t, c)
       PROVE  /\ stack[t] \in Tasks /\ m_state[stack[t]] # "NONE" /\ Alone(stack[t])
              /\ sleep[stack[t]] = "no" /\ UNCHANGED <<m_state, m_tasks, task, m_mutex>>
  <2>1. Inside(t)
    BY <1>0, <1>10, InBodyFacts DEF Sleeps
  <2>2. /\ stack[t] \in Tasks /\ m_state[stack[t]] = "RUNNING" /\ m_mutex[stack[t]] = t
    BY <2>1 DEF Inside, At, Holds
  <2>3. Alone(stack[t])
    BY <1>10, <2>2 DEF Sleeps, Alone
  <2>4. QED
    BY <1>10, <2>2, <2>3 DEF Sleeps, vars, fiberVars
<1>11. ASSUME NEW t \in Threads, NEW c \in Calls, HookedSleep(t, c) PROVE SleepOK'
  <2>1. /\ stack[t] \in Tasks /\ m_state[stack[t]] # "NONE" /\ Alone(stack[t])
        /\ sleep[stack[t]] = "no" /\ UNCHANGED <<m_state, m_tasks, task, m_mutex>>
    BY <1>10, <1>11 DEF HookedSleep
  <2>2. \A g \in Tasks :
          /\ sleep'[g] = IF g = stack[t] THEN "armed" ELSE sleep[g]
          /\ g # stack[t] => deadline'[g] = deadline[g]
          /\ Alone(g) => Alone(g)'
    BY <1>0, <1>11, <2>1 DEF HookedSleep, HookTypeOK, Alone
  <2>3. QED
    BY <1>0, <2>1, <2>2 DEF SleepOK
<1>12. ASSUME NEW t \in Threads, NEW c \in Calls, BlockingSleep(t, c) PROVE SleepOK'
  <2>1. /\ stack[t] \in Tasks /\ m_state[stack[t]] # "NONE"
        /\ sleep[stack[t]] = "no" /\ UNCHANGED <<m_state, m_tasks, task, m_mutex>>
    BY <1>10, <1>12 DEF BlockingSleep
  <2>2. \A g \in Tasks :
          /\ sleep'[g] = IF g = stack[t] THEN "blocked" ELSE sleep[g]
          /\ deadline'[g] = deadline[g]
          /\ Alone(g) => Alone(g)'
    BY <1>0, <1>12, <2>1 DEF BlockingSleep, HookTypeOK, Alone
  <2>3. deadline[stack[t]] = NULL
    BY <1>0, <2>1 DEF SleepOK
  <2>4. QED
    BY <1>0, <2>1, <2>2, <2>3 DEF SleepOK
<1>13. CASE Tick \/ UNCHANGED allVars
  BY <1>6, <1>13 DEF Tick, allVars
<1>14. QED
  BY <1>2, <1>3, <1>4, <1>5, <1>7, <1>8, <1>9, <1>11, <1>12, <1>13
     DEF HookNext, Turn

-----------------------------------------------------------------------------
(* The initial states.                                                     *)
LEMMA HookInitInv == HookInit => HookInv /\ InTime
<1> SUFFICES ASSUME HookInit PROVE HookInv /\ InTime
  OBVIOUS
<1> USE HookAssumption DEF HookInit
<1>1. IInv /\ TypeOK
  BY InitInv DEF IInv
<1>2. HookTypeOK
  BY <1>1 DEF HookTypeOK
<1>3. SleepOK
  BY DEF SleepOK
<1>4. InTime
  BY DEF InTime
<1>5. QED
  BY <1>1, <1>2, <1>3, <1>4 DEF HookInv

(* The invariant of Fiber with sleeping fibers.                            *)
LEMMA HookInvariance == EarlyReset = FALSE => (HookSafety => []HookInv)
<1>1. SUFFICES ASSUME EarlyReset = FALSE PROVE HookSafety => []HookInv
  OBVIOUS
<1>2. HookInit => HookInv
  BY HookInitInv
<1>3. HookInv /\ [HookNext]_allVars => HookInv'
  BY <1>1, IInvStep, HookTypesStep, SleepStep DEF HookInv
<1>4. QED
  BY <1>2, <1>3, PTL DEF HookSafety

(* A timer that fires before its fiber has yielded, or on another thread,  *)
(* finds a fiber that nobody else has: the inductive invariant behind the  *)
(* hooked sleep, for any threads, fibers and calls.                        *)
THEOREM SleeperIsAlone == EarlyReset = FALSE => (HookSpec => []HookInv)
<1>1. HookSpec => HookSafety
  BY DEF HookSpec
<1>2. QED
  BY <1>1, HookInvariance, PTL

(* Every variable keeps its type, and what is given to addTimer() is a     *)
(* number of ms whatever the call, while fibers sleep on any threads.      *)
THEOREM HookTypes == EarlyReset = FALSE => (HookSpec => []HookTypeOK)
<1>1. SUFFICES ASSUME EarlyReset = FALSE PROVE HookSpec => []HookTypeOK
  OBVIOUS
<1>2. HookSpec => HookSafety
  BY DEF HookSpec
<1>3. HookSafety => []HookInv
  BY <1>1, HookInvariance
<1>4. HookInv => HookTypeOK
  BY DEF HookInv
<1>5. QED
  BY <1>2, <1>3, <1>4, PTL

(* What FiberSafe says holds while fibers sleep and timers schedule them,  *)
(* before they have yielded too: the bodies' GetThis() is right ...        *)
THEOREM CurrentFiberRight == EarlyReset = FALSE => (HookSpec => []CurrentFiber)
<1>1. SUFFICES ASSUME EarlyReset = FALSE PROVE HookSpec => []CurrentFiber
  OBVIOUS
<1>2. HookSpec => HookSafety
  BY DEF HookSpec
<1>3. HookSafety => []HookInv
  BY <1>1, HookInvariance
<1>4. HookInv => CurrentFiber
  BY FiberSafety DEF HookInv
<1>5. QED
  BY <1>2, <1>3, <1>4, PTL

(* ... no switch goes to a context that is stale or of an ended fiber ...  *)
THEOREM NoStaleJumps == EarlyReset = FALSE => (HookSpec => []NoStaleJump)
<1>1. SUFFICES ASSUME EarlyReset = FALSE PROVE HookSpec => []NoStaleJump
  OBVIOUS
<1>2. HookSpec => HookSafety
  BY DEF HookSpec
<1>3. HookSafety => []HookInv
  BY <1>1, HookInvariance
<1>4. HookInv => NoStaleJump
  BY FiberSafety DEF HookInv
<1>5. QED
  BY <1>2, <1>3, <1>4, PTL

(* ... neither assert fails ...                                            *)
THEOREM FiberAsserts == EarlyReset = FALSE => (HookSpec => []NoAssertFails)
<1>1. SUFFICES ASSUME EarlyReset = FALSE PROVE HookSpec => []NoAssertFails
  OBVIOUS
<1>2. HookSpec => HookSafety
  BY DEF HookSpec
<1>3. HookSafety => []HookInv
  BY <1>1, HookInvariance
<1>4. HookInv => NoAssertFails
  BY FiberSafety DEF HookInv
<1>5. QED
  BY <1>2, <1>3, <1>4, PTL

(* ... and a READY fiber whose mutex is free can be continued.             *)
THEOREM FreeFiberSaved == EarlyReset = FALSE => (HookSpec => []FreeIsSaved)
<1>1. SUFFICES ASSUME EarlyReset = FALSE PROVE HookSpec => []FreeIsSaved
  OBVIOUS
<1>2. HookSpec => HookSafety
  BY DEF HookSpec
<1>3. HookSafety => []HookInv
  BY <1>1, HookInvariance
<1>4. HookInv => FreeIsSaved
  BY FiberSafety DEF HookInv
<1>5. QED
  BY <1>2, <1>3, <1>4, PTL

-----------------------------------------------------------------------------
(* Sleeping long enough.                                                   *)

(* sleep(), usleep() and nanosleep() give addTimer() no less than what was *)
(* asked for exactly when it was a whole number of ms that their integers  *)
(* can hold; every other call of a hooked thread is cut short.             *)
THEOREM WholeCallsExact ==
  \A c \in Call : WholeMs(c) <=> LongEnough(c)
<1> SUFFICES ASSUME NEW c \in Call PROVE WholeMs(c) <=> LongEnough(c)
  OBVIOUS
<1> USE HookAssumption
<1>0. /\ c.s \in Nat /\ c.u \in Nat /\ c.name \in {"sleep", "usleep", "nanosleep"}
      /\ MS \in Nat /\ US \in Nat \ {0} /\ UINT \in Nat \ {0} /\ INT \in Nat
      /\ INT <= UINT
  BY DEF Call
<1>1. c.s * MS \in Nat
  BY <1>0, ProductNat
<1>2. CASE c.name = "sleep"
  <2>1. (c.s * MS) % UINT \in Nat
    BY <1>0, <1>1, Quotient
  <2>2. c.s * MS < UINT <=> c.s * MS <= (c.s * MS) % UINT
    BY <1>0, <1>1, <2>1, RemainderSmall
  <2> DEFINE sm == c.s * MS
             w  == (c.s * MS) % UINT
  <2>3. sm <= w <=> sm * US <= w * US
    BY <1>0, <1>1, <2>1, ProductMonotone
  <2>4. TimerMs(c) = w /\ Asked(c) = sm * US /\ (WholeMs(c) <=> sm < UINT)
    BY <1>2 DEF TimerMs, Asked, WholeMs
  <2>5. w * US \in Nat /\ sm * US \in Nat
    BY <1>0, <1>1, <2>1, ProductNat
  <2> HIDE DEF sm, w
  <2>6. LongEnough(c) <=> sm * US <= w * US
    BY <2>4, <2>5 DEF LongEnough
  <2>7. QED
    BY <2>2, <2>3, <2>4, <2>6 DEF sm, w
<1>3. CASE c.name = "usleep"
  <2>1. TimerMs(c) = c.u \div US /\ Asked(c) = c.u /\ (WholeMs(c) <=> c.u % US = 0)
    BY <1>3 DEF TimerMs, Asked, WholeMs
  <2>2. QED
    BY <1>0, <2>1, QuotientExact DEF LongEnough
<1>4. CASE c.name = "nanosleep"
  <2> DEFINE q  == c.u \div US
             ms == c.s * MS + c.u \div US
  <2>1. /\ TimerMs(c) = IntMs(ms) /\ Asked(c) = c.s * MS * US + c.u
        /\ (WholeMs(c) <=> c.u % US = 0 /\ ms < INT)
    BY <1>4 DEF TimerMs, Asked, WholeMs
  <2>2. q \in Nat /\ q * US \in Nat /\ c.s * MS * US \in Nat
    BY <1>0, <1>1, Quotient, ProductNat
  <2>3. ms \in Nat /\ ms * US = c.s * MS * US + q * US
    BY <1>0, <1>1, <2>2, ProductAdds
  <2>4. q * US <= c.u /\ (c.u % US = 0 <=> q * US >= c.u)
    BY <1>0, QuotientExact
  <2>5. ms * US <= Asked(c) /\ (c.u % US = 0 <=> ms * US >= Asked(c)) /\ Asked(c) \in Nat
    BY <1>0, <2>1, <2>2, <2>3, <2>4
  <2>6. /\ IntMs(ms) \in Int /\ IntMs(ms) <= ms
        /\ ms < INT <=> ms <= IntMs(ms)
    <3>1. ms % UINT \in Nat /\ ms % UINT <= ms /\ (ms < UINT <=> ms % UINT >= ms)
      BY <1>0, <2>3, Quotient, RemainderSmall
    <3>2. ms % UINT < UINT
      BY <1>0, <2>3, RemainderSmall
    <3> HIDE DEF ms
    <3>3. QED
      BY <1>0, <2>3, <3>1, <3>2 DEF IntMs
  <2>7. /\ IntMs(ms) * US <= ms * US /\ (ms < INT <=> ms * US <= IntMs(ms) * US)
        /\ IntMs(ms) * US \in Int /\ ms * US \in Int
    BY <1>0, <2>3, <2>6, ProductMonotone, ProductAdds
  <2> HIDE DEF ms, q
  <2>8. QED
    BY <2>1, <2>5, <2>7 DEF LongEnough
<1>5. QED
  BY <1>0, <1>2, <1>3, <1>4

(* A fiber that returns from a sleep runs, so its timer has fired.         *)
LEMMA ReturnsByTimer ==
  ASSUME IInv, SleepOK, NEW t \in Threads, SleepReturn(t) \/ BlockingReturn(t)
  PROVE  deadline[stack[t]] = NULL
<1>1. /\ stack[t] \in Tasks /\ InBody(t)
      /\ sleep[stack[t]] \in {"yielded", "blocked"}
  BY DEF SleepReturn, BlockingReturn, InBody
<1>2. Inside(t)
  BY <1>1, InBodyFacts
<1>3. m_state[stack[t]] = "RUNNING"
  BY <1>2 DEF Inside, At, Holds
<1>4. QED
  BY <1>1, <1>3 DEF SleepOK

(* Every step keeps InTime.                                                *)
LEMMA InTimeStep ==
  ASSUME HookInv, InTime, [HookNext]_allVars
  PROVE  InTime'
<1> USE HookAssumption DEF hookVars
<1>0. HookTypeOK /\ SleepOK /\ IInv /\ US \in Nat \ {0} /\ now \in Nat
  BY DEF HookInv, HookTypeOK
<1>1. CASE UNCHANGED hookVars
  BY <1>1 DEF InTime
<1>2. CASE Tick
  <2>1. now' = now + 1 /\ UNCHANGED <<deadline, sleep, until, whole>>
    BY <1>2 DEF Tick
  <2>2. now * US <= now' * US /\ now * US \in Nat /\ now' * US \in Nat
    BY <1>0, <2>1, ProductMonotone, ProductNat
  <2>3. \A f \in Tasks : until[f] \in Nat
    BY <1>0 DEF HookTypeOK
  <2>4. QED
    BY <2>1, <2>2, <2>3 DEF InTime
<1>3. ASSUME NEW f \in Tasks, TimerFires(f) PROVE InTime'
  <2>1. /\ deadline[f] # NULL /\ deadline[f] <= now
        /\ deadline' = [deadline EXCEPT ![f] = NULL] /\ UNCHANGED <<now, sleep, until, whole>>
    BY <1>3 DEF TimerFires
  <2>2. deadline[f] \in Int /\ until[f] \in Nat
    BY <1>0, <2>1 DEF HookTypeOK
  <2>3. deadline[f] * US <= now * US /\ deadline[f] * US \in Int /\ now * US \in Int
    BY <1>0, <2>1, <2>2, ProductMonotone, ProductAdds
  <2>4. whole[f] => until[f] <= now * US
    BY <2>1, <2>2, <2>3 DEF InTime
  <2>5. \A g \in Tasks : deadline'[g] = IF g = f THEN NULL ELSE deadline[g]
    BY <1>0, <2>1 DEF HookTypeOK
  <2>6. QED
    BY <2>1, <2>2, <2>3, <2>4, <2>5 DEF InTime
<1>4. ASSUME NEW t \in Threads, SleepYield(t) PROVE InTime'
  <2>1. /\ UNCHANGED <<now, deadline, until, whole>> /\ sleep[stack[t]] = "armed"
        /\ sleep' = [sleep EXCEPT ![stack[t]] = "yielded"] /\ stack[t] \in Tasks
    BY <1>4 DEF SleepYield, InBody
  <2>2. \A g \in Tasks : sleep'[g] = IF g = stack[t] THEN "yielded" ELSE sleep[g]
    BY <1>0, <2>1 DEF HookTypeOK
  <2>3. QED
    BY <2>1, <2>2 DEF InTime
<1>5. ASSUME NEW t \in Threads, SleepReturn(t) \/ BlockingReturn(t) PROVE InTime'
  <2>1. /\ UNCHANGED <<now, deadline>> /\ stack[t] \in Tasks
        /\ sleep' = [sleep EXCEPT ![stack[t]] = "no"]
        /\ until' = [until EXCEPT ![stack[t]] = 0]
        /\ whole' = [whole EXCEPT ![stack[t]] = TRUE]
    BY <1>5 DEF SleepReturn, BlockingReturn, Returned, InBody
  <2>2. deadline[stack[t]] = NULL
    BY <1>0, <1>5, ReturnsByTimer
  <2>3. \A g \in Tasks : /\ sleep'[g] = IF g = stack[t] THEN "no" ELSE sleep[g]
                         /\ g # stack[t] => until'[g] = until[g] /\ whole'[g] = whole[g]
    BY <1>0, <2>1 DEF HookTypeOK
  <2>4. now' = now /\ deadline' = deadline
    BY <2>1
  <2>5. QED
    BY <2>2, <2>3, <2>4 DEF InTime
<1>6. ASSUME NEW t \in Threads, NEW c \in Calls, HookedSleep(t, c) PROVE InTime'
  <2>1. /\ stack[t] \in Tasks /\ now' = now
        /\ until' = [until EXCEPT ![stack[t]] = now * US + Asked(c)]
        /\ whole' = [whole EXCEPT ![stack[t]] = WholeMs(c)]
        /\ sleep' = [sleep EXCEPT ![stack[t]] = "armed"]
        /\ deadline' = [deadline EXCEPT ![stack[t]] = now + TimerMs(c)]
    BY <1>6 DEF HookedSleep, Sleeps, InBody
  <2>2. /\ Asked(c) \in Nat /\ TimerMs(c) \in Int
        /\ WholeMs(c) => TimerMs(c) * US >= Asked(c)
    BY CallTimes, WholeCallsExact DEF LongEnough
  <2>3. /\ (now + TimerMs(c)) * US = now * US + TimerMs(c) * US
        /\ now * US \in Int /\ TimerMs(c) * US \in Int
    BY <1>0, <2>2, ProductAdds
  <2>4. WholeMs(c) => (now + TimerMs(c)) * US >= now * US + Asked(c)
    BY <2>2, <2>3
  <2>5. ASSUME NEW g \in Tasks
        PROVE  /\ deadline'[g] = IF g = stack[t] THEN now + TimerMs(c) ELSE deadline[g]
               /\ until'[g] = IF g = stack[t] THEN now * US + Asked(c) ELSE until[g]
               /\ whole'[g] = IF g = stack[t] THEN WholeMs(c) ELSE whole[g]
               /\ g # stack[t] => sleep'[g] = sleep[g]
    BY <1>0, <2>1 DEF HookTypeOK
  <2>6. now + TimerMs(c) # NULL
    BY <1>0, <2>2
  <2>7. ASSUME NEW g \in Tasks, whole'[g]
        PROVE  IF deadline'[g] # NULL THEN deadline'[g] * US >= until'[g]
               ELSE sleep'[g] \in {"armed", "yielded"} => now' * US >= until'[g]
    <3>1. CASE g = stack[t]
      BY <2>4, <2>5, <2>6, <2>7, <3>1
    <3>2. CASE g # stack[t]
      BY <2>1, <2>5, <2>7, <3>2 DEF InTime
    <3>3. QED
      BY <3>1, <3>2
  <2>8. QED
    BY <2>7 DEF InTime
<1>7. ASSUME NEW t \in Threads, NEW c \in Calls, BlockingSleep(t, c) PROVE InTime'
  <2>1. /\ stack[t] \in Tasks /\ now' = now /\ deadline' = deadline
        /\ until' = [until EXCEPT ![stack[t]] = now * US + Asked(c)]
        /\ whole' = [whole EXCEPT ![stack[t]] = WholeMs(c)]
        /\ sleep' = [sleep EXCEPT ![stack[t]] = "blocked"] /\ sleep[stack[t]] = "no"
    BY <1>7 DEF BlockingSleep, Sleeps, InBody
  <2>2. deadline[stack[t]] = NULL
    BY <1>0, <2>1 DEF SleepOK
  <2>3. \A g \in Tasks : /\ sleep'[g] = IF g = stack[t] THEN "blocked" ELSE sleep[g]
                         /\ g # stack[t] => until'[g] = until[g] /\ whole'[g] = whole[g]
    BY <1>0, <2>1 DEF HookTypeOK
  <2>4. QED
    BY <2>1, <2>2, <2>3 DEF InTime
<1>8. QED
  BY <1>1, <1>2, <1>3, <1>4, <1>5, <1>6, <1>7
     DEF HookNext, Turn, BodyStep, ClientStep, allVars

(* A sleep ends, on whatever thread and however the timer races with the   *)
(* yield, by its own timer, and no earlier than asked for if the call is   *)
(* in whole ms or the thread is not hooked: for any set of calls, the ones *)
(* that are cut short among them.                                          *)
THEOREM SleepsLongEnough ==
  EarlyReset = FALSE => (HookSpec => SleepEndsInTime)
<1>1. SUFFICES ASSUME EarlyReset = FALSE PROVE HookSpec => SleepEndsInTime
  OBVIOUS
<1> DEFINE InTimeFor(f) == /\ deadline[f] = NULL
                           /\ sleep[f] = "blocked" \/ whole[f] => now * US >= until[f]
           Ends == \A f \in Tasks : sleep[f] # "no" /\ sleep'[f] = "no" => InTimeFor(f)
<1>2. HookInv /\ InTime /\ [HookNext]_allVars => [Ends]_allVars
  <2> SUFFICES ASSUME HookInv, InTime, HookNext,
                      NEW f \in Tasks, sleep[f] # "no", sleep'[f] = "no"
               PROVE  InTimeFor(f)
    OBVIOUS
  <2>0. HookTypeOK /\ SleepOK /\ IInv
    BY DEF HookInv
  <2>1. ~UNCHANGED sleep
    OBVIOUS
  <2>2. ASSUME NEW t \in Threads, sleep' = [sleep EXCEPT ![stack[t]] = "no"] PROVE f = stack[t]
    BY <2>0, <2>2 DEF HookTypeOK
  <2>3. ASSUME NEW t \in Threads, SleepReturn(t) PROVE InTimeFor(f)
    <3>1. f = stack[t] /\ sleep[f] = "yielded"
      BY <2>2, <2>3 DEF SleepReturn, Returned
    <3>2. deadline[f] = NULL
      BY <2>0, <2>3, <3>1, ReturnsByTimer
    <3>3. QED
      BY <3>1, <3>2 DEF InTime
  <2>4. ASSUME NEW t \in Threads, BlockingReturn(t) PROVE InTimeFor(f)
    <3>1. f = stack[t] /\ now * US >= until[f]
      BY <2>2, <2>4 DEF BlockingReturn, Returned
    <3>2. QED
      BY <2>0, <2>4, <3>1, ReturnsByTimer
  <2>5. ASSUME NEW t \in Threads, \/ sleep' = [sleep EXCEPT ![stack[t]] = "armed"]
                                  \/ sleep' = [sleep EXCEPT ![stack[t]] = "yielded"]
                                  \/ sleep' = [sleep EXCEPT ![stack[t]] = "blocked"]
        PROVE  FALSE
    BY <2>0, <2>5 DEF HookTypeOK
  <2>6. ~\E t \in Threads : SleepYield(t)
    BY <2>5 DEF SleepYield
  <2>7. ~\E t \in Threads, c \in Calls : HookedSleep(t, c) \/ BlockingSleep(t, c)
    BY <2>5 DEF HookedSleep, BlockingSleep
  <2> HIDE DEF InTimeFor
  <2>8. QED
    BY <2>1, <2>3, <2>4, <2>6, <2>7
       DEF HookNext, Tick, TimerFires, Turn, BodyStep, ClientStep, hookVars
<1>3. HookInv /\ InTime /\ [HookNext]_allVars => InTime'
  BY InTimeStep
<1>4. HookInit => InTime
  BY HookInitInv
<1>5. HookSafety => []HookInv
  BY <1>1, HookInvariance
<1>6. HookSafety => [][Ends]_allVars
  BY <1>2, <1>3, <1>4, <1>5, PTL DEF HookSafety
<1>7. QED
  BY <1>6 DEF HookSpec, SleepEndsInTime
=============================================================================
