------------------------------ MODULE TimerProofs ----------------------------
(***************************************************************************)
(* The safety properties of Timer, proved for every set of users, waiters, *)
(* timers and periods.                                                     *)
(***************************************************************************)
EXTENDS Timer, WellFoundedInduction, TLAPS

(* A set of naturals that is not empty has a minimum, and Min is it.       *)
LEMMA MinFacts ==
  ASSUME NEW S \in SUBSET Nat, S # {}
  PROVE  Min(S) \in S /\ \A x \in S : Min(S) <= x
<1>1. PICK m \in S : \A y \in S : ~(<<y, m>> \in OpToRel(<, Nat))
  BY NatLessThanWellFounded, WFMin, Zenon
<1>2. ASSUME NEW y \in S PROVE m <= y
  <2>1. ~(y < m)
    BY <1>1 DEF OpToRel
  <2>2. QED
    BY <2>1
<1>3. QED
  BY <1>2 DEF Min

(* getNextTimer() gives a time that epoll_wait accepts, and that is up     *)
(* before the first deadline.                                              *)
LEMMA RemainingFacts ==
  ASSUME TypeOK
  PROVE  /\ Remaining \in 0..MaxTimeout
         /\ Remaining = 0 \/ \A t \in m_timers : clock + Remaining <= m_next[t]
<1> USE TimerAssumption
<1>0. clock \in Nat /\ MaxTimeout \in Nat /\ \A t \in m_timers : m_next[t] \in Nat
  BY DEF TypeOK
<1>1. CASE m_timers = {}
  BY <1>0, <1>1 DEF Remaining
<1>2. CASE m_timers # {}
  <2> DEFINE keys == {m_next[t] : t \in m_timers}
             first == Min(keys)
  <2>1. keys \in SUBSET Nat /\ keys # {}
    BY <1>0, <1>2
  <2>2. first \in Nat /\ \A t \in m_timers : first <= m_next[t]
    <3>1. \A t \in m_timers : m_next[t] \in keys
      OBVIOUS
    <3> HIDE DEF keys
    <3>2. QED
      BY <2>1, <3>1, MinFacts
  <2>3. Remaining = IF clock >= first THEN 0 ELSE Min({first - clock, MaxTimeout})
    BY <1>2 DEF Remaining
  <2> HIDE DEF first
  <2>4. CASE clock >= first
    BY <1>0, <2>3, <2>4
  <2>5. CASE ~(clock >= first)
    <3>1. {first - clock, MaxTimeout} \in SUBSET Nat
      BY <1>0, <2>2, <2>5
    <3>2. Remaining \in {first - clock, MaxTimeout} /\ Remaining <= MaxTimeout
                                                   /\ Remaining <= first - clock
      BY <2>3, <2>5, <3>1, MinFacts
    <3>3. QED
      BY <1>0, <2>2, <3>1, <3>2
  <2>6. QED
    BY <2>4, <2>5
<1>3. QED
  BY <1>1, <1>2

(* Times are natural numbers.                                              *)
LEMMA Times ==
  ASSUME TypeOK
  PROVE  /\ clock \in Nat
         /\ \A t \in Timers : m_next[t] \in Nat /\ m_ms[t] \in Nat
         /\ \A w \in Waiters : now[w] \in Nat /\ left[w] \in Nat
<1> USE TimerAssumption
<1>1. ASSUME NEW t \in Timers PROVE m_next[t] \in Nat /\ m_ms[t] \in Nat
  <2>1. m_next[t] \in Nat /\ m_ms[t] \in Periods \cup {0}
    BY DEF TypeOK
  <2>2. Periods \cup {0} \subseteq Nat
    OBVIOUS
  <2>3. QED
    BY <2>1, <2>2
<1>2. ASSUME NEW w \in Waiters PROVE now[w] \in Nat /\ left[w] \in Nat
  <2>1. now[w] \in 0..MaxClock /\ left[w] \in 0..MaxTimeout
    BY DEF TypeOK
  <2>2. QED
    BY <2>1
<1>3. clock \in Nat
  BY DEF TypeOK
<1>4. QED
  BY <1>1, <1>2, <1>3

-----------------------------------------------------------------------------
(* Every step keeps the types.                                             *)
LEMMA UserTypes ==
  ASSUME IInv, NEW u \in Users, UserStep(u) \/ UserCall(u)
  PROVE  TypeOK'
<1> USE TimerAssumption DEF timerVars, setVars, userVars, waitVars, envVars
<1>0. TypeOK /\ CurOK /\ StartOK
  BY DEF IInv
<1>1. ASSUME NEW t \in Timers, NEW ms \in Periods, NewTimer(u, t, ms) PROVE TypeOK'
  <2>1. clock + ms \in Nat
    BY <1>0 DEF TypeOK
  <2>2. /\ m_next' \in [Timers -> Nat] /\ m_ms' \in [Timers -> Periods \cup {0}]
        /\ upc' \in [Users -> {"ready", "new", "write", "insert", "tickle"}]
        /\ cur' \in [Users -> Timers \cup {NULL}]
    BY <1>0, <1>1, <2>1 DEF TypeOK, NewTimer
  <2>3. QED
    BY <1>0, <1>1, <2>2 DEF TypeOK, NewTimer
<1>2. ASSUME AddTimer(u) PROVE TypeOK'
  <2>1. cur[u] \in created /\ cur[u] \in Timers
    BY <1>0, <1>2 DEF CurOK, TypeOK, AddTimer
  <2>2. m_timers' \subseteq created
    BY <1>0, <1>2, <2>1 DEF TypeOK, AddTimer, Insert
  <2>3. /\ upc' \in [Users -> {"ready", "new", "write", "insert", "tickle"}]
        /\ cur' \in [Users -> Timers \cup {NULL}] /\ m_tickled' \in BOOLEAN
    BY <1>0, <1>2 DEF TypeOK, AddTimer, InsertedAtFront
  <2>4. UNCHANGED <<timerVars, waitVars, envVars, m_previouseTime, m_mutex, pipe,
                    cancelled, ops, arg>>
    BY <1>2 DEF AddTimer
  <2>5. QED
    BY <1>0, <2>2, <2>3, <2>4 DEF TypeOK
<1>3. ASSUME OnTimerInsertedAtFront(u) PROVE TypeOK'
  BY <1>0, <1>3 DEF TypeOK, OnTimerInsertedAtFront
<1>4. ASSUME NEW t \in Timers, Call(u, t) PROVE ops' \in 0..MaxOps /\ t \in created
  BY <1>0, <1>4 DEF TypeOK, Call
<1>5. ASSUME NEW t \in Timers, Cancel(u, t) PROVE TypeOK'
  <2>1. ops' \in 0..MaxOps /\ t \in created
    BY <1>4, <1>5 DEF Cancel
  <2>2. QED
    BY <1>0, <1>5, <2>1 DEF TypeOK, Cancel
<1>6. ASSUME NEW t \in Timers, Refresh(u, t) PROVE TypeOK'
  <2>1. ops' \in 0..MaxOps /\ t \in created
    BY <1>4, <1>6 DEF Refresh
  <2>2. clock + m_ms[t] \in Nat
    BY <1>0, Times
  <2>3. m_next' \in [Timers -> Nat]
    BY <1>0, <1>6, <2>2 DEF TypeOK, Refresh
  <2>4. m_timers' \subseteq created
    BY <1>0, <1>6, <2>1 DEF TypeOK, Refresh, Insert
  <2>5. QED
    BY <1>0, <1>6, <2>1, <2>3, <2>4 DEF TypeOK, Refresh
<1>7. ASSUME NEW t \in Timers, NEW a \in Arg, ResetErase(u, t, a) PROVE TypeOK'
  <2>1. ops' \in 0..MaxOps /\ t \in created
    BY <1>4, <1>7 DEF ResetErase
  <2>2. /\ upc' \in [Users -> {"ready", "new", "write", "insert", "tickle"}]
        /\ cur' \in [Users -> Timers \cup {NULL}]
        /\ arg' \in [Users -> Arg \cup {NULL}]
    BY <1>0, <1>7 DEF TypeOK, ResetErase
  <2>3. m_timers' \subseteq created
    BY <1>0, <1>7 DEF TypeOK, ResetErase
  <2>4. UNCHANGED <<timerVars, waitVars, envVars, m_tickled, m_previouseTime,
                    m_mutex, pipe, cancelled>>
    BY <1>7 DEF ResetErase
  <2>5. QED
    BY <1>0, <2>1, <2>2, <2>3, <2>4 DEF TypeOK
<1>8. ASSUME ResetWrite(u) PROVE TypeOK'
  <2>1. cur[u] \in Timers /\ arg[u] \in Arg
    BY <1>0, <1>8 DEF CurOK, TypeOK, ResetWrite
  <2>2. arg[u].ms \in Periods /\ arg[u].ms \in Nat
    BY <2>1 DEF Arg
  <2>3. m_next[cur[u]] - m_ms[cur[u]] \in Nat /\ clock \in Nat
    BY <1>0, <2>1, Times DEF StartOK
  <2>4. (IF arg[u].from_now THEN clock ELSE m_next[cur[u]] - m_ms[cur[u]])
           + arg[u].ms \in Nat
    BY <2>2, <2>3
  <2>5. m_next' \in [Timers -> Nat]
    BY <1>0, <1>8, <2>4 DEF TypeOK, ResetWrite
  <2>6. /\ m_ms' \in [Timers -> Periods \cup {0}]
        /\ upc' \in [Users -> {"ready", "new", "write", "insert", "tickle"}]
        /\ arg' \in [Users -> Arg \cup {NULL}]
    BY <1>0, <1>8, <2>2 DEF TypeOK, ResetWrite
  <2>7. UNCHANGED <<setVars, waitVars, envVars, created, m_cb, cur,
                    m_previouseTime, m_mutex, pipe, cancelled, ops>>
    BY <1>8 DEF ResetWrite
  <2>8. QED
    BY <1>0, <2>5, <2>6, <2>7 DEF TypeOK
<1>9. QED
  BY <1>1, <1>2, <1>3, <1>5, <1>6, <1>7, <1>8 DEF UserStep, UserCall

(* The steps of a waiter keep the types.                                   *)
LEMMA WaiterTypes ==
  ASSUME TypeOK, NEW w \in Waiters, WaiterStep(w)
  PROVE  TypeOK'
<1> USE TimerAssumption DEF timerVars, setVars, userVars, waitVars, envVars
<1>1. CASE Check(w)
  BY <1>1 DEF TypeOK, Check, Move
<1>8. CASE WakeTickled(w)
  <2>1. /\ wpc' \in [Waiters -> {"check", "peek", "sleep", "now", "lock", "expire",
                                 "drain", "busy"}]
        /\ left' \in [Waiters -> 0..MaxTimeout]
    BY <1>8 DEF TypeOK, WakeTickled, Move
  <2>2. woken' \subseteq Waiters /\ pipe' \in BOOLEAN
    BY <1>8 DEF TypeOK, WakeTickled
  <2>3. UNCHANGED <<timerVars, setVars, userVars, envVars, m_previouseTime,
                    m_mutex, cancelled, ops, now, rollover>>
    BY <1>8 DEF WakeTickled
  <2>4. QED
    BY <2>1, <2>2, <2>3 DEF TypeOK
<1>9. CASE WakeTimeout(w)
  BY <1>9 DEF TypeOK, WakeTimeout, Move
<1>10. CASE ReadNow(w)
  BY <1>10 DEF TypeOK, ReadNow, Move
<1>2. CASE Peek(w)
  BY <1>2, RemainingFacts DEF TypeOK, Peek, Move
<1>3. CASE DetectClockRollover(w)
  BY <1>3 DEF TypeOK, DetectClockRollover, Move
<1>4. ASSUME NEW t \in Timers, Expire(w, t) PROVE TypeOK'
  <2>0. t \in created
    BY <1>4 DEF TypeOK, Expire, Expired, Front
  <2>1. now[w] + m_ms[t] \in Nat /\ t \in created
    BY <2>0, Times
  <2>2. m_next' \in [Timers -> Nat]
    BY <1>4, <2>1 DEF TypeOK, Expire
  <2>3. m_timers' \subseteq created /\ m_cb' \subseteq created
    BY <1>4, <2>1 DEF TypeOK, Expire, Insert
  <2>4. QED
    BY <1>4, <2>2, <2>3 DEF TypeOK, Expire
<1>5. CASE ListEnd(w)
  BY <1>5 DEF TypeOK, ListEnd, Move
<1>6. CASE DrainPipe(w)
  BY <1>6 DEF TypeOK, DrainPipe, Move
<1>11. CASE IdleAgain(w)
  BY <1>11 DEF TypeOK, IdleAgain, Move
<1>7. QED
  BY <1>1, <1>2, <1>3, <1>4, <1>5, <1>6, <1>11, <1>8, <1>9, <1>10 DEF WaiterStep

(* A step keeps the variables in their types.                              *)
LEMMA TypeStep == IInv /\ [Next]_vars => TypeOK'
<1> SUFFICES ASSUME IInv, [Next]_vars PROVE TypeOK'
  OBVIOUS
<1> USE TimerAssumption DEF timerVars, setVars, userVars, waitVars, envVars
<1>0. TypeOK
  BY DEF IInv
<1>1. CASE Tick
  <2>1. left' \in [Waiters -> 0..MaxTimeout]
    BY <1>0, <1>1 DEF TypeOK, Tick
  <2>2. clock' \in 0..MaxClock
    BY <1>0, <1>1 DEF TypeOK, Tick
  <2>3. QED
    BY <1>0, <1>1, <2>1, <2>2 DEF TypeOK, Tick
<1>2. CASE Rollback
  <2>1. clock' \in 0..MaxClock /\ rollbacks' \in 0..MaxRollbacks
    BY <1>0, <1>2 DEF TypeOK, Rollback
  <2>2. QED
    BY <1>0, <1>2, <2>1 DEF TypeOK, Rollback
<1>3. CASE UNCHANGED vars
  BY <1>0, <1>3 DEF TypeOK, vars
<1>4. QED
  BY <1>0, <1>1, <1>2, <1>3, UserTypes, WaiterTypes DEF Next

-----------------------------------------------------------------------------
(* A timer that listExpiredCb() puts back was in the set.                  *)
LEMMA ExpireShrinks ==
  ASSUME NEW w \in Waiters, NEW t \in Timers, Expire(w, t)
  PROVE  t \in m_timers /\ m_timers' \subseteq m_timers
<1>1. t \in m_timers
  BY DEF Expire, Expired, Front
<1>2. m_timers' \subseteq m_timers
  BY <1>1 DEF Expire, Insert
<1>3. QED
  BY <1>1, <1>2

(* What no step of a waiter does: it makes no timer, touches no user, and  *)
(* adds no timer to the set.                                               *)
LEMMA WaiterFrame ==
  ASSUME NEW w \in Waiters, WaiterStep(w)
  PROVE  /\ UNCHANGED <<userVars, created, m_ms, clock, rollbacks>>
         /\ m_timers' \subseteq m_timers
<1> USE DEF timerVars, setVars, waitVars, envVars
<1>1. CASE Check(w) \/ Peek(w)
  BY <1>1 DEF Check, Peek
<1>2. CASE WakeTickled(w) \/ WakeTimeout(w)
  BY <1>2 DEF WakeTickled, WakeTimeout
<1>3. CASE ReadNow(w) \/ DetectClockRollover(w)
  BY <1>3 DEF ReadNow, DetectClockRollover
<1>4. ASSUME NEW t \in Timers, Expire(w, t)
      PROVE  /\ UNCHANGED <<userVars, created, m_ms, clock, rollbacks>>
             /\ m_timers' \subseteq m_timers
  BY <1>4, ExpireShrinks DEF Expire
<1>5. CASE ListEnd(w) \/ DrainPipe(w) \/ IdleAgain(w)
  BY <1>5 DEF ListEnd, DrainPipe, IdleAgain
<1>6. QED
  BY <1>1, <1>2, <1>3, <1>4, <1>5 DEF WaiterStep

(* Every step keeps timers in hand out of the set, and in one hand.        *)
LEMMA CurStep == IInv /\ [Next]_vars => CurOK'
<1> SUFFICES ASSUME IInv, [Next]_vars PROVE CurOK'
  OBVIOUS
<1> USE TimerAssumption DEF timerVars, setVars, userVars, waitVars, envVars
<1>0. TypeOK /\ CurOK
  BY DEF IInv
<1>1. ASSUME NEW u \in Users, NEW t \in Timers, NEW ms \in Periods, NewTimer(u, t, ms)
      PROVE  CurOK'
  <2>1. /\ t # NULL /\ t \in created' \ m_timers'
        /\ created \subseteq created' /\ m_timers' = m_timers
        /\ \A v \in Users : cur[v] # t
    BY <1>0, <1>1 DEF NewTimer, TypeOK, CurOK
  <2>2. /\ cur' = [cur EXCEPT ![u] = t] /\ upc' = [upc EXCEPT ![u] = "new"]
        /\ arg' = arg
    BY <1>1 DEF NewTimer
  <2>3. QED
    BY <1>0, <2>1, <2>2 DEF TypeOK, CurOK
<1>2. ASSUME NEW u \in Users, AddTimer(u) PROVE CurOK'
  <2>1. cur[u] # NULL
    BY <1>0, <1>2 DEF AddTimer, CurOK
  <2>2. /\ m_timers' \subseteq m_timers \cup {cur[u]}
        /\ created' = created /\ arg' = arg
        /\ cur' = [cur EXCEPT ![u] = NULL]
    BY <1>2 DEF AddTimer, Insert
  <2>3. upc' = [upc EXCEPT ![u] = "tickle"] \/ upc' = [upc EXCEPT ![u] = "ready"]
    BY <1>2 DEF AddTimer
  <2>4. QED
    BY <1>0, <2>1, <2>2, <2>3 DEF TypeOK, CurOK
<1>3. ASSUME NEW u \in Users, OnTimerInsertedAtFront(u) PROVE CurOK'
  BY <1>0, <1>3 DEF OnTimerInsertedAtFront, TypeOK, CurOK
<1>4. ASSUME NEW u \in Users, NEW t \in Timers, Cancel(u, t) PROVE CurOK'
  <2>1. UNCHANGED <<userVars, created>> /\ m_timers' \subseteq m_timers
    BY <1>4 DEF Cancel
  <2>2. QED
    BY <1>0, <2>1 DEF CurOK
<1>5. ASSUME NEW u \in Users, NEW t \in Timers, Refresh(u, t) PROVE CurOK'
  <2>1. /\ UNCHANGED <<userVars, created>> /\ m_timers' \subseteq m_timers \cup {t}
        /\ \A v \in Users : cur[v] # t
    BY <1>5 DEF Refresh, Insert, Resetting
  <2>2. QED
    BY <1>0, <2>1 DEF CurOK
<1>6. ASSUME NEW u \in Users, NEW t \in Timers, NEW a \in Arg, ResetErase(u, t, a)
      PROVE  CurOK'
  <2>1. /\ t # NULL /\ a # NULL /\ t \in created'
        /\ created' = created
        /\ \A v \in Users : cur[v] # t
    BY <1>6 DEF ResetErase, Resetting, Call
  <2>2. t \notin m_timers' /\ m_timers' \subseteq m_timers
    BY <1>6 DEF ResetErase, Find
  <2>3. /\ cur' = [cur EXCEPT ![u] = t] /\ upc' = [upc EXCEPT ![u] = "write"]
        /\ arg' = [arg EXCEPT ![u] = a]
    BY <1>6 DEF ResetErase
  <2>4. QED
    BY <1>0, <2>1, <2>2, <2>3 DEF TypeOK, CurOK
<1>7. ASSUME NEW u \in Users, ResetWrite(u) PROVE CurOK'
  <2>1. /\ cur' = cur /\ upc' = [upc EXCEPT ![u] = "insert"]
        /\ arg' = [arg EXCEPT ![u] = NULL]
        /\ UNCHANGED <<created, m_timers>> /\ upc[u] = "write"
    BY <1>7 DEF ResetWrite
  <2>2. QED
    BY <1>0, <2>1 DEF TypeOK, CurOK
<1>8. ASSUME NEW w \in Waiters, WaiterStep(w) PROVE CurOK'
  <2>1. UNCHANGED <<userVars, created>> /\ m_timers' \subseteq m_timers
    BY <1>8, WaiterFrame
  <2>2. QED
    BY <1>0, <2>1 DEF CurOK
<1>9. CASE Tick \/ Rollback \/ UNCHANGED vars
  <2>1. UNCHANGED <<userVars, created, m_timers>>
    BY <1>9 DEF Tick, Rollback, vars
  <2>2. QED
    BY <1>0, <2>1 DEF CurOK
<1>10. QED
  BY <1>1, <1>2, <1>3, <1>4, <1>5, <1>6, <1>7, <1>8, <1>9
     DEF Next, UserStep, UserCall

-----------------------------------------------------------------------------
(* The new deadline that ResetWrite computes is the argument's ms after a  *)
(* natural number.                                                         *)
LEMMA ResetFacts ==
  ASSUME IInv, NEW u \in Users, ResetWrite(u)
  PROVE  /\ cur[u] \in Timers /\ cur[u] \notin m_timers
         /\ \E start, ms \in Nat :
              /\ m_next' = [m_next EXCEPT ![cur[u]] = start + ms]
              /\ m_ms' = [m_ms EXCEPT ![cur[u]] = ms]
              /\ start = clock \/ start = m_next[cur[u]] - m_ms[cur[u]]
<1> USE TimerAssumption
<1>0. TypeOK /\ CurOK /\ StartOK
  BY DEF IInv
<1>1. cur[u] \in Timers /\ cur[u] \notin m_timers /\ arg[u] \in Arg
  BY <1>0 DEF ResetWrite, CurOK, TypeOK
<1>2. arg[u].ms \in Nat
  BY <1>1 DEF Arg
<1> DEFINE start == IF arg[u].from_now THEN clock ELSE m_next[cur[u]] - m_ms[cur[u]]
<1>3. start \in Nat
  BY <1>0, <1>1, Times DEF StartOK
<1>4. /\ m_next' = [m_next EXCEPT ![cur[u]] = start + arg[u].ms]
      /\ m_ms' = [m_ms EXCEPT ![cur[u]] = arg[u].ms]
  BY DEF ResetWrite
<1>5. start = clock \/ start = m_next[cur[u]] - m_ms[cur[u]]
  OBVIOUS
<1> HIDE DEF start
<1>6. QED
  BY <1>1, <1>2, <1>3, <1>4, <1>5

(* It writes a timer that is not in the set: no deadline there changes.    *)
LEMMA ResetOthers ==
  ASSUME IInv, NEW u \in Users, ResetWrite(u)
  PROVE  \A s \in m_timers : m_next'[s] = m_next[s]
<1>1. PICK d : m_next' = [m_next EXCEPT ![cur[u]] = d]
  BY ResetFacts
<1>2. m_next \in [Timers -> Nat] /\ m_timers \subseteq Timers /\ cur[u] \notin m_timers
  BY ResetFacts DEF IInv, TypeOK
<1>3. QED
  BY <1>1, <1>2

(* Every step keeps a deadline at least its period.                        *)
LEMMA StartStep == IInv /\ [Next]_vars => StartOK'
<1> SUFFICES ASSUME IInv, [Next]_vars PROVE StartOK'
  OBVIOUS
<1> USE TimerAssumption DEF timerVars, setVars, userVars, waitVars, envVars
<1>0. TypeOK /\ StartOK
  BY DEF IInv
<1>1. ASSUME NEW u \in Users, NEW t \in Timers, NEW ms \in Periods, NewTimer(u, t, ms)
      PROVE  StartOK'
  <2>1. /\ m_next' = [m_next EXCEPT ![t] = clock + ms]
        /\ m_ms' = [m_ms EXCEPT ![t] = ms]
    BY <1>1 DEF NewTimer
  <2>2. ms \in Nat /\ clock \in Nat
    BY <1>0, Times
  <2>3. QED
    BY <1>0, <2>1, <2>2 DEF StartOK, TypeOK
<1>2. ASSUME NEW t \in Timers, NEW n \in Nat, m_ms' = m_ms,
             m_next' = [m_next EXCEPT ![t] = n + m_ms[t]]
      PROVE  StartOK'
  <2>1. \A s \in Timers : m_ms[s] \in Nat
    BY <1>0, Times
  <2>2. QED
    BY <1>0, <1>2, <2>1 DEF StartOK, TypeOK
<1>3. CASE UNCHANGED <<m_next, m_ms>>
  BY <1>0, <1>3 DEF StartOK
<1>4. ASSUME NEW u \in Users, NEW t \in Timers, Refresh(u, t) PROVE StartOK'
  <2>1. /\ m_next' = [m_next EXCEPT ![t] = clock + m_ms[t]]
        /\ m_ms' = m_ms /\ clock \in Nat
    BY <1>0, <1>4, Times DEF Refresh
  <2>2. QED
    BY <1>2, <2>1
<1>5. ASSUME NEW u \in Users, ResetWrite(u) PROVE StartOK'
  <2>1. PICK start \in Nat, ms \in Nat :
          /\ m_next' = [m_next EXCEPT ![cur[u]] = start + ms]
          /\ m_ms' = [m_ms EXCEPT ![cur[u]] = ms]
    BY <1>5, ResetFacts
  <2>2. QED
    BY <1>0, <2>1 DEF StartOK, TypeOK
<1>6. ASSUME NEW w \in Waiters, NEW t \in Timers, Expire(w, t) PROVE StartOK'
  <2>1. CASE t \in Recurring
    <3>1. /\ m_next' = [m_next EXCEPT ![t] = now[w] + m_ms[t]]
          /\ m_ms' = m_ms /\ now[w] \in Nat
      BY <1>0, <1>6, <2>1, Times DEF Expire
    <3>2. QED
      BY <1>2, <3>1
  <2>2. CASE t \notin Recurring
    BY <1>3, <1>6, <2>2 DEF Expire
  <2>3. QED
    BY <2>1, <2>2
<1>7. ASSUME NEW u \in Users, AddTimer(u) \/ OnTimerInsertedAtFront(u) PROVE StartOK'
  BY <1>3, <1>7 DEF AddTimer, OnTimerInsertedAtFront
<1>8. ASSUME NEW u \in Users, NEW t \in Timers, Cancel(u, t) PROVE StartOK'
  BY <1>3, <1>8 DEF Cancel
<1>9. ASSUME NEW u \in Users, NEW t \in Timers, NEW a \in Arg, ResetErase(u, t, a)
      PROVE  StartOK'
  BY <1>3, <1>9 DEF ResetErase
<1>10. ASSUME NEW w \in Waiters, WaiterStep(w) PROVE StartOK'
  <2>1. (\E t \in Timers : Expire(w, t)) \/ UNCHANGED <<m_next, m_ms>>
    BY <1>10 DEF WaiterStep, Check, Peek, WakeTickled, WakeTimeout, ReadNow,
                 DetectClockRollover, ListEnd, DrainPipe, IdleAgain
  <2>2. QED
    BY <1>3, <1>6, <2>1
<1>11. CASE Tick \/ Rollback \/ UNCHANGED vars
  BY <1>3, <1>11 DEF Tick, Rollback, vars
<1>12. QED
  BY <1>1, <1>4, <1>5, <1>7, <1>8, <1>9, <1>10, <1>11
     DEF Next, UserStep, UserCall

-----------------------------------------------------------------------------
(* Inserting keeps the keys distinct: only the timer that is inserted has  *)
(* a new key, and it comes in only if that key is free.                    *)
LEMMA InsertKeys ==
  ASSUME TypeOK, KeysDistinct, NEW S \in SUBSET m_timers, NEW t \in Timers,
         t \notin S, NEW n \in Nat, m_next' = [m_next EXCEPT ![t] = n],
         m_timers' = Insert(S, t, n)
  PROVE  KeysDistinct'
<1>1. /\ \A s \in S : m_next'[s] = m_next[s]
      /\ m_next'[t] = n
  BY DEF TypeOK
<1>2. CASE \E s \in S : m_next[s] = n
  BY <1>1, <1>2 DEF Insert, KeysDistinct
<1>3. CASE ~\E s \in S : m_next[s] = n
  <2>1. m_timers' = S \cup {t}
    BY <1>3 DEF Insert
  <2>2. QED
    BY <1>1, <1>3, <2>1 DEF KeysDistinct
<1>4. QED
  BY <1>2, <1>3

(* A step that adds no timer, and no new deadline to one that stays.       *)
LEMMA FewerKeys ==
  ASSUME KeysDistinct, m_timers' \subseteq m_timers,
         \A s \in m_timers' : m_next'[s] = m_next[s]
  PROVE  KeysDistinct'
BY DEF KeysDistinct

(* Every step keeps the keys distinct.                                     *)
LEMMA KeysStep == IInv /\ [Next]_vars => KeysDistinct'
<1> SUFFICES ASSUME IInv, [Next]_vars PROVE KeysDistinct'
  OBVIOUS
<1> USE TimerAssumption DEF timerVars, setVars, userVars, waitVars, envVars
<1>0. TypeOK /\ CurOK /\ KeysDistinct
  BY DEF IInv
<1>1. ASSUME NEW u \in Users, NEW t \in Timers, NEW ms \in Periods, NewTimer(u, t, ms)
      PROVE  KeysDistinct'
  <2>1. m_next' = [m_next EXCEPT ![t] = clock + ms] /\ m_timers' = m_timers
    BY <1>1 DEF NewTimer
  <2>2. t \notin m_timers
    BY <1>0, <1>1 DEF NewTimer, TypeOK
  <2>3. \A s \in m_timers' : m_next'[s] = m_next[s]
    BY <1>0, <2>1, <2>2 DEF TypeOK
  <2>4. QED
    BY <1>0, <2>1, <2>3, FewerKeys
<1>2. ASSUME NEW u \in Users, AddTimer(u) PROVE KeysDistinct'
  <2>1. cur[u] \in Timers /\ cur[u] \notin m_timers
    BY <1>0, <1>2 DEF AddTimer, CurOK, TypeOK
  <2>2. /\ m_timers' = Insert(m_timers, cur[u], m_next[cur[u]])
        /\ m_next' = m_next
    BY <1>2 DEF AddTimer
  <2>3. m_next' = [m_next EXCEPT ![cur[u]] = m_next[cur[u]]]
    BY <1>0, <2>1, <2>2 DEF TypeOK
  <2>4. m_next[cur[u]] \in Nat
    BY <1>0, <2>1, Times
  <2>5. QED
    BY <1>0, <2>1, <2>2, <2>3, <2>4, InsertKeys
<1>3. ASSUME NEW u \in Users, NEW t \in Timers, Refresh(u, t) PROVE KeysDistinct'
  <2> DEFINE S == m_timers \ Find(t)
  <2>1. /\ m_next' = [m_next EXCEPT ![t] = clock + m_ms[t]]
        /\ m_timers' = Insert(S, t, clock + m_ms[t])
    BY <1>3 DEF Refresh
  <2>2. S \in SUBSET m_timers /\ t \notin S
    BY DEF Find
  <2>3. clock + m_ms[t] \in Nat
    BY <1>0, Times
  <2> HIDE DEF S
  <2>4. QED
    BY <1>0, <2>1, <2>2, <2>3, InsertKeys
<1>4. ASSUME NEW u \in Users, ResetWrite(u) PROVE KeysDistinct'
  <2>1. \A s \in m_timers' : m_next'[s] = m_next[s]
    BY <1>4, ResetOthers DEF ResetWrite, setVars
  <2>2. m_timers' = m_timers
    BY <1>4 DEF ResetWrite
  <2>3. QED
    BY <1>0, <2>1, <2>2, FewerKeys
<1>5. ASSUME NEW w \in Waiters, NEW t \in Timers, Expire(w, t) PROVE KeysDistinct'
  <2>1. CASE t \in Recurring
    <3> DEFINE S == m_timers \ {t}
    <3>1. /\ m_next' = [m_next EXCEPT ![t] = now[w] + m_ms[t]]
          /\ m_timers' = Insert(S, t, now[w] + m_ms[t])
      BY <1>5, <2>1 DEF Expire
    <3>2. S \in SUBSET m_timers /\ t \notin S /\ now[w] + m_ms[t] \in Nat
      BY <1>0, Times
    <3> HIDE DEF S
    <3>3. QED
      BY <1>0, <3>1, <3>2, InsertKeys
  <2>2. CASE t \notin Recurring
    BY <1>0, <1>5, <2>2, FewerKeys DEF Expire
  <2>3. QED
    BY <2>1, <2>2
<1>6. CASE m_next' = m_next /\ m_timers' \subseteq m_timers
  BY <1>0, <1>6, FewerKeys
<1>7. ASSUME NEW u \in Users, NEW t \in Timers, Cancel(u, t) PROVE KeysDistinct'
  BY <1>6, <1>7 DEF Cancel
<1>8. ASSUME NEW u \in Users, NEW t \in Timers, NEW a \in Arg, ResetErase(u, t, a)
      PROVE  KeysDistinct'
  BY <1>6, <1>8 DEF ResetErase
<1>9. ASSUME NEW u \in Users, OnTimerInsertedAtFront(u) PROVE KeysDistinct'
  BY <1>6, <1>9 DEF OnTimerInsertedAtFront
<1>10. ASSUME NEW w \in Waiters, WaiterStep(w) PROVE KeysDistinct'
  <2>1. (\E t \in Timers : Expire(w, t)) \/ UNCHANGED <<m_next, m_timers>>
    BY <1>10 DEF WaiterStep, Check, Peek, WakeTickled, WakeTimeout, ReadNow,
                 DetectClockRollover, ListEnd, DrainPipe, IdleAgain
  <2>2. QED
    BY <1>5, <1>6, <2>1
<1>11. CASE Tick \/ Rollback \/ UNCHANGED vars
  BY <1>6, <1>11 DEF Tick, Rollback, vars
<1>12. QED
  BY <1>1, <1>2, <1>3, <1>4, <1>7, <1>8, <1>9, <1>10, <1>11
     DEF Next, UserStep, UserCall

-----------------------------------------------------------------------------
(* The initial states.                                                     *)
LEMMA InitInv == Init => IInv
<1> SUFFICES ASSUME Init PROVE IInv
  OBVIOUS
<1> USE TimerAssumption
<1>1. TypeOK
  <2>1. /\ clock \in 0..MaxClock /\ rollbacks \in 0..MaxRollbacks
        /\ m_previouseTime \in 0..MaxClock /\ ops \in 0..MaxOps
        /\ m_next \in [Timers -> Nat] /\ m_ms \in [Timers -> Periods \cup {0}]
    BY DEF Init
  <2>2. /\ left \in [Waiters -> 0..MaxTimeout] /\ now \in [Waiters -> 0..MaxClock]
        /\ rollover \in [Waiters -> BOOLEAN] /\ woken \subseteq Waiters
    BY DEF Init
  <2>3. /\ upc \in [Users -> {"ready", "new", "write", "insert", "tickle"}]
        /\ cur \in [Users -> Timers \cup {NULL}]
        /\ arg \in [Users -> Arg \cup {NULL}]
        /\ wpc \in [Waiters -> {"check", "peek", "sleep", "now", "lock", "expire",
                                "drain", "busy"}]
    BY DEF Init
  <2>4. QED
    BY <2>1, <2>2, <2>3 DEF Init, TypeOK
<1>2. CurOK /\ StartOK /\ KeysDistinct
  BY DEF Init, CurOK, StartOK, KeysDistinct
<1>3. QED
  BY <1>1, <1>2 DEF IInv

(* The inductive invariant holds throughout.                               *)
THEOREM Invariance == Spec => []IInv
<1>1. IInv /\ [Next]_vars => IInv'
  BY TypeStep, CurStep, StartStep, KeysStep DEF IInv
<1>2. QED
  BY <1>1, InitInv, PTL DEF Spec

(* Every variable keeps its type; in particular epoll_wait gets a timeout  *)
(* between 0 and MAX_TIMEOUT, and reset() computes no deadline below zero. *)
THEOREM TypeCorrect == Spec => []TypeOK
<1>1. IInv => TypeOK
  BY DEF IInv
<1>2. QED
  BY <1>1, Invariance, PTL

(* Whatever users and waiters do with a timer, and in whatever order, no   *)
(* two elements of the set, which is ordered by deadline alone, ever have  *)
(* the same deadline, the unlocked write of reset() included.              *)
THEOREM KeysStayDistinct == Spec => []KeysDistinct
<1>1. IInv => KeysDistinct
  BY DEF IInv
<1>2. QED
  BY <1>1, Invariance, PTL

-----------------------------------------------------------------------------
(* The wake-up of epoll_wait, for a system clock that is not set back.     *)

(* The deadlines stay within their period from now.                        *)
LEMMA NotLateStep ==
  ASSUME MaxRollbacks = 0, IInv, NotLate, [Next]_vars
  PROVE  NotLate'
<1> USE TimerAssumption DEF timerVars, setVars, userVars, waitVars, envVars
<1>0. TypeOK /\ TypeOK'
  BY TypeStep DEF IInv
<1>1. /\ clock \in Nat /\ \A t \in Timers : m_next[t] \in Nat /\ m_ms[t] \in Nat
      /\ \A w \in Waiters : now[w] \in Nat
  BY <1>0, Times
<1>2. ~Rollback
  BY <1>0 DEF TypeOK, Rollback
<1>3. CASE UNCHANGED <<clock, m_next, m_ms, now>>
  BY <1>3 DEF NotLate
<1>4. ASSUME NEW t \in Timers, NEW n \in Nat, NEW ms \in Nat, n <= clock,
             UNCHANGED <<clock, now>>, m_next' = [m_next EXCEPT ![t] = n + ms],
             m_ms' = [m_ms EXCEPT ![t] = ms]
      PROVE  NotLate'
  <2>1. ASSUME NEW s \in Timers PROVE m_next'[s] <= clock' + m_ms'[s]
    <3>1. CASE s = t
      BY <1>0, <1>1, <1>4, <3>1 DEF TypeOK
    <3>2. CASE s # t
      BY <1>0, <1>1, <1>4, <3>2 DEF TypeOK, NotLate
    <3>3. QED
      BY <3>1, <3>2
  <2>2. QED
    BY <1>4, <2>1 DEF NotLate
<1>5. ASSUME NEW t \in Timers, NEW n \in Nat, n <= clock, UNCHANGED <<clock, now, m_ms>>,
             m_next' = [m_next EXCEPT ![t] = n + m_ms[t]]
      PROVE  NotLate'
  <2>1. m_ms' = [m_ms EXCEPT ![t] = m_ms[t]]
    BY <1>0, <1>5 DEF TypeOK
  <2>2. QED
    BY <1>1, <1>4, <1>5, <2>1
<1>6. ASSUME NEW u \in Users, NEW t \in Timers, NEW ms \in Periods, NewTimer(u, t, ms)
      PROVE  NotLate'
  <2>1. ms \in Nat /\ clock <= clock
    BY <1>1
  <2>2. /\ m_next' = [m_next EXCEPT ![t] = clock + ms]
        /\ m_ms' = [m_ms EXCEPT ![t] = ms] /\ UNCHANGED <<clock, now>>
    BY <1>6 DEF NewTimer
  <2>3. QED
    BY <1>1, <1>4, <2>1, <2>2
<1>7. ASSUME NEW u \in Users, NEW t \in Timers, Refresh(u, t) PROVE NotLate'
  <2>1. /\ m_next' = [m_next EXCEPT ![t] = clock + m_ms[t]]
        /\ UNCHANGED <<clock, now, m_ms>> /\ clock <= clock
    BY <1>1, <1>7 DEF Refresh
  <2>2. QED
    BY <1>1, <1>5, <2>1
<1>8. ASSUME NEW u \in Users, ResetWrite(u) PROVE NotLate'
  <2>1. PICK start \in Nat, ms \in Nat :
          /\ m_next' = [m_next EXCEPT ![cur[u]] = start + ms]
          /\ m_ms' = [m_ms EXCEPT ![cur[u]] = ms]
          /\ start = clock \/ start = m_next[cur[u]] - m_ms[cur[u]]
    BY <1>8, ResetFacts
  <2>2. cur[u] \in Timers
    BY <1>8, ResetFacts
  <2>3. start <= clock
    BY <1>1, <2>1, <2>2 DEF NotLate
  <2>4. UNCHANGED <<clock, now>>
    BY <1>8 DEF ResetWrite
  <2>5. QED
    BY <1>4, <2>1, <2>2, <2>3, <2>4
<1>9. ASSUME NEW w \in Waiters, NEW t \in Timers, Expire(w, t) PROVE NotLate'
  <2>1. UNCHANGED <<clock, now, m_ms>>
    BY <1>9 DEF Expire
  <2>2. m_next' = m_next \/ m_next' = [m_next EXCEPT ![t] = now[w] + m_ms[t]]
    BY <1>9 DEF Expire
  <2>3. now[w] \in Nat /\ now[w] <= clock
    BY <1>1 DEF NotLate
  <2>4. QED
    BY <1>3, <1>5, <2>1, <2>2, <2>3
<1>10. ASSUME NEW w \in Waiters, ReadNow(w) \/ ListEnd(w) PROVE NotLate'
  <2>1. UNCHANGED <<clock, m_next, m_ms>>
    BY <1>10 DEF ReadNow, ListEnd
  <2>2. now' = [now EXCEPT ![w] = clock] \/ now' = [now EXCEPT ![w] = 0]
    BY <1>10 DEF ReadNow, ListEnd
  <2>3. \A v \in Waiters : now'[v] <= clock
    BY <1>0, <1>1, <2>2 DEF TypeOK, NotLate
  <2>4. QED
    BY <2>1, <2>3 DEF NotLate
<1>11. CASE Tick
  <2>1. clock' = clock + 1 /\ UNCHANGED <<m_next, m_ms, now>>
    BY <1>11 DEF Tick
  <2>2. QED
    BY <1>1, <2>1 DEF NotLate
<1>12. ASSUME NEW u \in Users, UserStep(u) \/ UserCall(u) PROVE NotLate'
  BY <1>3, <1>6, <1>7, <1>8, <1>12
     DEF UserStep, UserCall, AddTimer, OnTimerInsertedAtFront, Cancel, ResetErase
<1>13. ASSUME NEW w \in Waiters, WaiterStep(w) PROVE NotLate'
  <2>1. \/ (\E t \in Timers : Expire(w, t)) \/ ReadNow(w) \/ ListEnd(w)
        \/ UNCHANGED <<clock, m_next, m_ms, now>>
    BY <1>13 DEF WaiterStep, Check, Peek, WakeTickled, WakeTimeout,
                 DetectClockRollover, DrainPipe, IdleAgain
  <2>2. QED
    BY <1>3, <1>9, <1>10, <2>1
<1>14. CASE UNCHANGED vars
  BY <1>3, <1>14 DEF vars
<1>15. QED
  BY <1>2, <1>11, <1>12, <1>13, <1>14 DEF Next

(* Every refresh() that takes effect moves the deadline to a later time,   *)
(* or leaves it.                                                           *)
RefreshPostpones ==
  \A u \in Users, t \in Timers : Refresh(u, t) => m_next'[t] >= m_next[t]

(* So it is when no deadline is further away than its period.              *)
LEMMA NotLatePostpones == TypeOK /\ NotLate => RefreshPostpones
<1> SUFFICES ASSUME TypeOK, NotLate, NEW u \in Users, NEW t \in Timers, Refresh(u, t)
             PROVE  m_next'[t] >= m_next[t]
  BY DEF RefreshPostpones
<1>1. m_next'[t] = clock + m_ms[t]
  BY DEF Refresh, TypeOK
<1>2. clock \in Nat /\ m_next[t] \in Nat /\ m_ms[t] \in Nat
  BY Times
<1>3. m_next[t] <= clock + m_ms[t]
  BY DEF NotLate
<1>4. QED
  BY <1>1, <1>2, <1>3

(* A step that leaves the waiters, the pipe and the users about to tickle  *)
(* alone, and adds no timer to the set.                                    *)
LEMMA CoverFrame ==
  ASSUME TickledOK, EarliestCovered, UNCHANGED <<wpc, left, clock, pipe, m_tickled>>,
         \A u \in Users : upc[u] = "tickle" => upc'[u] = "tickle",
         m_timers' \subseteq m_timers, \A t \in m_timers' : m_next'[t] = m_next[t]
  PROVE  TickledOK' /\ EarliestCovered'
<1>1. TickledOK'
  BY DEF TickledOK
<1>2. EarliestCovered'
  BY DEF EarliestCovered
<1>3. QED
  BY <1>1, <1>2

(* Every step of a user keeps the earliest deadline covered.               *)
LEMMA UserCover ==
  ASSUME IInv, TickledOK, EarliestCovered, NEW u \in Users,
         UserStep(u) \/ UserCall(u), RefreshPostpones
  PROVE  TickledOK' /\ EarliestCovered'
<1> USE TimerAssumption DEF timerVars, setVars, userVars, waitVars, envVars
<1>0. TypeOK /\ CurOK
  BY DEF IInv
<1>1. /\ clock \in Nat /\ \A t \in Timers : m_next[t] \in Nat /\ m_ms[t] \in Nat
      /\ \A w \in Waiters : left[w] \in Nat
  BY <1>0, Times
<1>2. ASSUME NEW t \in Timers, NEW ms \in Periods, NewTimer(u, t, ms)
      PROVE  TickledOK' /\ EarliestCovered'
  <2>1. UNCHANGED <<wpc, left, clock, pipe, m_tickled, m_timers>>
    BY <1>2 DEF NewTimer
  <2>2. \A v \in Users : upc[v] = "tickle" => upc'[v] = "tickle"
    BY <1>0, <1>2 DEF NewTimer, TypeOK
  <2>3. t \notin m_timers
    BY <1>0, <1>2 DEF NewTimer, TypeOK
  <2>4. \A s \in m_timers' : m_next'[s] = m_next[s]
    BY <1>0, <1>2, <2>1, <2>3 DEF NewTimer, TypeOK
  <2>5. QED
    BY <1>0, <2>1, <2>2, <2>4, CoverFrame
<1>3. ASSUME AddTimer(u) PROVE TickledOK' /\ EarliestCovered'
  <2> DEFINE t == cur[u]
             S == Insert(m_timers, t, m_next[t])
  <2>1. /\ UNCHANGED <<wpc, left, clock, pipe, m_next>>
        /\ m_timers' = S
        /\ S \subseteq m_timers \cup {t} /\ upc[u] # "tickle"
    BY <1>3 DEF AddTimer, Insert
  <2>2. t \in Timers /\ m_next[t] \in Nat /\ m_timers \subseteq Timers
    BY <1>0, <1>1, <1>3 DEF AddTimer, CurOK, TypeOK
  <2>3. CASE InsertedAtFront(t, S)
    <3>1. upc'[u] = "tickle"
      BY <1>0, <1>3, <2>3 DEF AddTimer, TypeOK
    <3>2. QED
      BY <3>1 DEF TickledOK, EarliestCovered
  <2>4. CASE ~InsertedAtFront(t, S)
    <3>1. m_tickled' = m_tickled
      BY <1>0, <1>3, <2>4 DEF AddTimer, TypeOK
    <3>2. \A v \in Users : upc[v] = "tickle" => upc'[v] = "tickle"
      BY <1>0, <1>3 DEF AddTimer, TypeOK
    <3>3. TickledOK'
      BY <1>0, <2>1, <3>1, <3>2 DEF TickledOK
    <3>4. CASE m_tickled
      BY <1>0, <2>1, <3>2, <3>4 DEF TickledOK, EarliestCovered
    <3>5. CASE ~m_tickled
      <4>1. PICK s \in S : ~(m_next[t] <= m_next[s])
        BY <2>4, <3>5 DEF InsertedAtFront
      <4>2. s \in m_timers /\ m_next[s] \in Nat /\ m_next[s] < m_next[t]
        BY <1>1, <2>1, <2>2, <4>1
      <4>3. ASSUME NEW w \in Waiters, \A r \in m_timers : clock + left[w] <= m_next[r]
            PROVE  \A r \in m_timers' : clock' + left'[w] <= m_next'[r]
        <5>1. clock + left[w] <= m_next[t]
          BY <1>1, <2>2, <4>2, <4>3
        <5>2. QED
          BY <2>1, <4>3, <5>1
      <4> HIDE DEF t, S
      <4>4. \/ pipe' \/ \E v \in Users : upc'[v] = "tickle"
            \/ \E w \in Waiters :
                 \/ wpc'[w] # "sleep" \/ left'[w] = 0
                 \/ \A r \in m_timers' : clock' + left'[w] <= m_next'[r]
        BY <1>0, <2>1, <3>2, <4>2, <4>3 DEF EarliestCovered
      <4>5. QED
        BY <3>3, <4>4 DEF EarliestCovered
    <3>6. QED
      BY <3>3, <3>4, <3>5
  <2>5. QED
    BY <2>3, <2>4
<1>4. ASSUME OnTimerInsertedAtFront(u) PROVE TickledOK' /\ EarliestCovered'
  <2>1. pipe' \/ \A w \in Waiters : wpc'[w] = "busy"
    BY <1>4 DEF OnTimerInsertedAtFront
  <2>2. pipe' \/ \E w \in Waiters : wpc'[w] # "sleep"
    BY <2>1
  <2>3. QED
    BY <2>2 DEF TickledOK, EarliestCovered
<1>5. ASSUME NEW t \in Timers, Refresh(u, t) PROVE TickledOK' /\ EarliestCovered'
  <2>1. /\ UNCHANGED <<wpc, left, clock, pipe, m_tickled, upc>>
        /\ m_timers' \subseteq m_timers \cup {t} /\ Find(t) # {}
        /\ m_next' = [m_next EXCEPT ![t] = clock + m_ms[t]]
    BY <1>5 DEF Refresh, Insert
  <2>2. TickledOK'
    BY <1>0, <2>1 DEF TickledOK
  <2>3. PICK f \in m_timers : m_next[f] = m_next[t]
    BY <2>1 DEF Find
  <2>4. \A r \in m_timers : m_next[r] \in Nat
    BY <1>0, <1>1 DEF TypeOK
  <2>5. /\ m_next'[t] >= m_next[t]
        /\ \A r \in m_timers : r # t => m_next'[r] = m_next[r]
    <3>1. m_next'[t] >= m_next[t]
      BY <1>5 DEF RefreshPostpones
    <3>2. \A r \in m_timers : r # t => m_next'[r] = m_next[r]
      BY <1>0, <2>1 DEF TypeOK
    <3>3. QED
      BY <3>1, <3>2
  <2>6. m_next'[t] \in Nat
    BY <1>0, <1>1, <2>1 DEF TypeOK
  <2>7. ASSUME NEW w \in Waiters, \A r \in m_timers : clock + left[w] <= m_next[r]
        PROVE  \A r \in m_timers' : clock' + left'[w] <= m_next'[r]
    <3>1. clock + left[w] <= m_next[t]
      BY <2>3, <2>7
    <3>2. clock + left[w] <= m_next'[t]
      BY <1>1, <2>5, <2>6, <3>1
    <3>3. QED
      BY <2>1, <2>5, <2>7, <3>2
  <2>8. EarliestCovered'
    BY <1>0, <2>1, <2>3, <2>7 DEF EarliestCovered
  <2>9. QED
    BY <2>2, <2>8
<1>6. ASSUME NEW t \in Timers, Cancel(u, t) PROVE TickledOK' /\ EarliestCovered'
  <2>1. /\ UNCHANGED <<wpc, left, clock, pipe, m_tickled, upc, m_next>>
        /\ m_timers' \subseteq m_timers
    BY <1>6 DEF Cancel
  <2>2. QED
    BY <1>0, <2>1, CoverFrame
<1>7. ASSUME NEW t \in Timers, NEW a \in Arg, ResetErase(u, t, a)
      PROVE  TickledOK' /\ EarliestCovered'
  <2>1. /\ UNCHANGED <<wpc, left, clock, pipe, m_tickled, m_next>>
        /\ m_timers' \subseteq m_timers
    BY <1>7 DEF ResetErase
  <2>2. \A v \in Users : upc[v] = "tickle" => upc'[v] = "tickle"
    BY <1>0, <1>7 DEF ResetErase, Call, TypeOK
  <2>3. QED
    BY <1>0, <2>1, <2>2, CoverFrame
<1>8. ASSUME ResetWrite(u) PROVE TickledOK' /\ EarliestCovered'
  <2>1. UNCHANGED <<wpc, left, clock, pipe, m_tickled, m_timers>>
    BY <1>8 DEF ResetWrite
  <2>2. \A v \in Users : upc[v] = "tickle" => upc'[v] = "tickle"
    BY <1>0, <1>8 DEF ResetWrite, TypeOK
  <2>3. \A s \in m_timers' : m_next'[s] = m_next[s]
    BY <1>8, <2>1, ResetOthers
  <2>4. QED
    BY <1>0, <2>1, <2>2, <2>3, CoverFrame
<1>9. QED
  BY <1>2, <1>3, <1>4, <1>5, <1>6, <1>7, <1>8 DEF UserStep, UserCall

(* A waiter that takes a step covers the earliest deadline itself.         *)
LEMMA WaiterCover ==
  ASSUME TypeOK, NEW w \in Waiters, WaiterStep(w)
  PROVE  TickledOK' /\ EarliestCovered'
<1> USE TimerAssumption DEF timerVars, setVars, userVars, waitVars, envVars
<1>1. CASE wpc'[w] # "sleep"
  BY <1>1 DEF TickledOK, EarliestCovered
<1>2. CASE Peek(w)
  <2>1. /\ m_tickled' = FALSE /\ left'[w] = Remaining
        /\ UNCHANGED <<clock, m_timers, m_next>>
    BY <1>2 DEF Peek, TypeOK
  <2>2. left'[w] = 0 \/ \A t \in m_timers' : clock' + left'[w] <= m_next'[t]
    BY <2>1, RemainingFacts
  <2>3. QED
    BY <2>1, <2>2 DEF TickledOK, EarliestCovered
<1>3. CASE Check(w) \/ WakeTickled(w) \/ WakeTimeout(w) \/ ReadNow(w)
  BY <1>1, <1>3 DEF TypeOK, Check, WakeTickled, WakeTimeout, ReadNow, Move
<1>4. CASE DetectClockRollover(w) \/ ListEnd(w) \/ DrainPipe(w) \/ IdleAgain(w)
  BY <1>1, <1>4 DEF TypeOK, DetectClockRollover, ListEnd, DrainPipe, IdleAgain, Move
<1>5. ASSUME NEW t \in Timers, Expire(w, t) PROVE TickledOK' /\ EarliestCovered'
  BY <1>1, <1>5 DEF Expire
<1>6. QED
  BY <1>2, <1>3, <1>4, <1>5 DEF WaiterStep

(* Time runs for the clock and for epoll_wait alike.                       *)
LEMMA TickCover ==
  ASSUME TypeOK, TickledOK, EarliestCovered, Tick
  PROVE  TickledOK' /\ EarliestCovered'
<1> USE DEF timerVars, setVars, userVars
<1>1. UNCHANGED <<wpc, pipe, m_tickled, m_timers, m_next, upc>> /\ clock' = clock + 1
  BY DEF Tick
<1>2. TickledOK'
  BY <1>1 DEF TickledOK
<1>3. /\ clock \in Nat /\ m_timers \subseteq Timers
      /\ \A t \in Timers : m_next[t] \in Nat
      /\ \A w \in Waiters : left[w] \in Nat
  BY Times DEF TypeOK
<1>4. ASSUME NEW w \in Waiters, wpc[w] = "sleep"
      PROVE  IF left[w] = 0 THEN left'[w] = 0
             ELSE clock' + left'[w] = clock + left[w]
  <2>1. left'[w] = IF left[w] > 0 THEN left[w] - 1 ELSE left[w]
    BY <1>4 DEF Tick
  <2>2. QED
    BY <1>1, <1>3, <2>1
<1>5. ASSUME NEW w \in Waiters, \/ wpc[w] # "sleep" \/ left[w] = 0
                               \/ \A t \in m_timers : clock + left[w] <= m_next[t]
      PROVE  \/ wpc'[w] # "sleep" \/ left'[w] = 0
             \/ \A t \in m_timers' : clock' + left'[w] <= m_next'[t]
  <2>1. CASE wpc[w] # "sleep"
    BY <1>1, <2>1
  <2>2. CASE wpc[w] = "sleep" /\ left[w] = 0
    BY <1>4, <2>2
  <2>3. CASE wpc[w] = "sleep" /\ left[w] # 0
    <3>1. clock' + left'[w] = clock + left[w]
      BY <1>4, <2>3
    <3>2. QED
      BY <1>1, <1>5, <2>3, <3>1
  <2>4. QED
    BY <2>1, <2>2, <2>3
<1>6. EarliestCovered'
  BY <1>1, <1>5 DEF EarliestCovered
<1>7. QED
  BY <1>2, <1>6

(* A clock that is set back lets every epoll_wait end early.               *)
LEMMA RollbackCover ==
  ASSUME TypeOK, TickledOK, EarliestCovered, Rollback
  PROVE  TickledOK' /\ EarliestCovered'
<1> USE DEF timerVars, setVars, userVars, waitVars
<1>1. UNCHANGED <<wpc, left, pipe, m_tickled, m_timers, m_next, upc>> /\ clock' = 0
  BY DEF Rollback
<1>2. TickledOK'
  BY <1>1 DEF TickledOK
<1>3. /\ clock \in Nat /\ m_timers \subseteq Timers
      /\ \A t \in Timers : m_next[t] \in Nat
      /\ \A w \in Waiters : left[w] \in Nat
  BY Times DEF TypeOK
<1>4. ASSUME NEW w \in Waiters, \A t \in m_timers : clock + left[w] <= m_next[t]
      PROVE  \A t \in m_timers' : clock' + left'[w] <= m_next'[t]
  BY <1>1, <1>3, <1>4
<1>5. EarliestCovered'
  BY <1>1, <1>4 DEF EarliestCovered
<1>6. QED
  BY <1>2, <1>5

(* A step keeps the earliest deadline covered unless it is a refresh()     *)
(* that moves a deadline forward.                                          *)
LEMMA CoverStep ==
  IInv /\ TickledOK /\ EarliestCovered /\ [Next]_vars /\ RefreshPostpones
    => TickledOK' /\ EarliestCovered'
<1> SUFFICES ASSUME IInv, TickledOK, EarliestCovered, [Next]_vars, RefreshPostpones
             PROVE  TickledOK' /\ EarliestCovered'
  OBVIOUS
<1>1. TypeOK
  BY DEF IInv
<1>2. CASE UNCHANGED vars
  <2>1. UNCHANGED <<wpc, left, clock, pipe, m_tickled, upc, m_timers, m_next>>
    BY <1>2 DEF vars, timerVars, setVars, userVars, waitVars, envVars
  <2>2. QED
    BY <2>1, CoverFrame
<1>3. CASE Next
  BY <1>1, <1>3, UserCover, WaiterCover, TickCover, RollbackCover DEF Next
<1>4. QED
  BY <1>2, <1>3

(* In the beginning there is no timer to cover.                            *)
LEMMA CoverInit == Init => CoverInv
<1>1. Init => NotLate
  BY DEF Init, NotLate
<1>2. Init => TickledOK /\ EarliestCovered
  BY DEF Init, TickledOK, EarliestCovered
<1>3. QED
  BY <1>1, <1>2 DEF CoverInv

(* As long as the clock is not set back, the timeouts of epoll_wait, the   *)
(* tickle of onTimerInsertedAtFront() and m_tickled agree: the inductive   *)
(* invariant behind the wake-ups.                                          *)
THEOREM CoverInvariance == MaxRollbacks = 0 => (Spec => []CoverInv)
<1>1. SUFFICES ASSUME MaxRollbacks = 0 PROVE Spec => []CoverInv
  OBVIOUS
<1>2. IInv /\ CoverInv /\ [Next]_vars => CoverInv'
  <2> SUFFICES ASSUME IInv, CoverInv, [Next]_vars PROVE CoverInv'
    OBVIOUS
  <2>1. TypeOK /\ NotLate /\ TickledOK /\ EarliestCovered
    BY DEF IInv, CoverInv
  <2>2. NotLate'
    BY <1>1, <2>1, NotLateStep
  <2>3. TickledOK' /\ EarliestCovered'
    BY <2>1, NotLatePostpones, CoverStep
  <2>4. QED
    BY <2>2, <2>3 DEF CoverInv
<1>3. QED
  BY <1>2, CoverInit, Invariance, PTL DEF Spec

(* The earliest deadline stays covered as long as the clock is not set     *)
(* back: there is always a waiter that is awake, or sleeps no longer than  *)
(* until that deadline, or a wake-up on its way to one.                    *)
THEOREM NeverSleptOver == MaxRollbacks = 0 => (Spec => []EarliestCovered)
<1>1. CoverInv => EarliestCovered
  BY DEF CoverInv
<1>2. QED
  BY <1>1, CoverInvariance, PTL

(* No waiter takes a clock that runs forward for one that was set back.    *)
NoRollover ==
  /\ m_previouseTime <= clock
  /\ \A w \in Waiters : ~rollover[w]

(* A clock that runs forward is never taken for one that was set back.     *)
LEMMA NoRolloverStep ==
  ASSUME MaxRollbacks = 0, TypeOK, NoRollover, [Next]_vars
  PROVE  NoRollover'
<1> USE TimerAssumption DEF timerVars, setVars, userVars, waitVars, envVars
<1>1. ~Rollback
  BY DEF TypeOK, Rollback
<1>2. CASE UNCHANGED <<clock, m_previouseTime, rollover>>
  BY <1>2 DEF NoRollover
<1>3. CASE Tick
  <2>1. clock' = clock + 1 /\ UNCHANGED <<m_previouseTime, rollover>>
    BY <1>3 DEF Tick
  <2>2. clock \in Nat /\ m_previouseTime \in Nat
    BY DEF TypeOK
  <2>3. QED
    BY <2>1, <2>2 DEF NoRollover
<1>4. ASSUME NEW w \in Waiters, DetectClockRollover(w) PROVE NoRollover'
  <2>1. /\ clock' = clock /\ m_previouseTime' = clock
        /\ rollover' = [rollover EXCEPT ![w] = clock + RolloverWindow < m_previouseTime]
    BY <1>4 DEF DetectClockRollover
  <2>2. clock \in Nat /\ m_previouseTime \in Nat /\ RolloverWindow \in Nat
    BY DEF TypeOK
  <2>3. ~(clock + RolloverWindow < m_previouseTime)
    BY <2>2 DEF NoRollover
  <2>4. \A v \in Waiters : ~rollover'[v]
    BY <2>1, <2>3 DEF TypeOK, NoRollover
  <2>5. QED
    BY <2>1, <2>2, <2>4 DEF NoRollover
<1>5. ASSUME NEW w \in Waiters, ListEnd(w) PROVE NoRollover'
  <2>1. /\ UNCHANGED <<clock, m_previouseTime>>
        /\ rollover' = [rollover EXCEPT ![w] = FALSE]
    BY <1>5 DEF ListEnd
  <2>2. QED
    BY <2>1 DEF TypeOK, NoRollover
<1>6. ASSUME NEW u \in Users, UserStep(u) \/ UserCall(u) PROVE NoRollover'
  <2>1. CASE UserStep(u)
    BY <1>2, <2>1 DEF UserStep, AddTimer, OnTimerInsertedAtFront, ResetWrite
  <2>2. CASE UserCall(u)
    BY <1>2, <2>2 DEF UserCall, NewTimer, Cancel, Refresh, ResetErase
  <2>3. QED
    BY <1>6, <2>1, <2>2
<1>7. ASSUME NEW w \in Waiters, WaiterStep(w) PROVE NoRollover'
  <2>1. \/ DetectClockRollover(w) \/ ListEnd(w)
        \/ UNCHANGED <<clock, m_previouseTime, rollover>>
    BY <1>7 DEF WaiterStep, Check, Peek, WakeTickled, WakeTimeout, ReadNow, Expire,
                DrainPipe, IdleAgain
  <2>2. QED
    BY <1>2, <1>4, <1>5, <2>1
<1>8. CASE UNCHANGED vars
  BY <1>2, <1>8 DEF vars
<1>9. QED
  BY <1>1, <1>3, <1>6, <1>7, <1>8 DEF Next

(* As long as the clock is not set back no timer is collected before its   *)
(* deadline: the time that listExpiredCb() read before it had the mutex is *)
(* never ahead, and no waiter sees a rollover that did not happen, however *)
(* old the m_previouseTime is that another waiter left behind.             *)
THEOREM CollectedWhenDue == MaxRollbacks = 0 => (Spec => NeverEarly)
<1>1. SUFFICES ASSUME MaxRollbacks = 0 PROVE Spec => NeverEarly
  OBVIOUS
<1>2. Init => NoRollover
  BY DEF Init, NoRollover
<1>3. IInv /\ NoRollover /\ [Next]_vars => NoRollover'
  BY <1>1, NoRolloverStep DEF IInv
<1>4. IInv /\ NoRollover /\ CoverInv
        => \A w \in Waiters, t \in Timers : Expire(w, t) => m_next[t] <= clock
  <2> SUFFICES ASSUME IInv, NoRollover, CoverInv, NEW w \in Waiters, NEW t \in Timers,
                      Expire(w, t)
               PROVE  m_next[t] <= clock
    OBVIOUS
  <2>1. m_next[t] <= now[w]
    BY DEF Expire, Expired, NoRollover
  <2>2. now[w] <= clock
    BY DEF CoverInv, NotLate
  <2>3. clock \in Nat /\ now[w] \in Nat /\ m_next[t] \in Nat
    BY Times DEF IInv
  <2>4. QED
    BY <2>1, <2>2, <2>3
<1>5. QED
  BY <1>1, <1>2, <1>3, <1>4, Invariance, CoverInvariance, PTL DEF Spec, NeverEarly

(* The earliest deadline stays covered however often the clock is set back *)
(* if each refresh() postpones its deadline: new timers, reset() and the   *)
(* recurring timers that listExpiredCb() puts back need no clock that runs *)
(* forward, and refresh() is the only operation that loses a wake-up,      *)
(* because it puts the timer back without onTimerInsertedAtFront().        *)
THEOREM ClockSetBack == Spec /\ [][RefreshPostpones]_vars => []EarliestCovered
<1>1. Init => TickledOK /\ EarliestCovered
  BY CoverInit DEF CoverInv
<1>2. IInv /\ TickledOK /\ EarliestCovered /\ [Next]_vars /\ [RefreshPostpones]_vars
        => TickledOK' /\ EarliestCovered'
  <2> SUFFICES ASSUME IInv, TickledOK, EarliestCovered, [Next]_vars, [RefreshPostpones]_vars
               PROVE  TickledOK' /\ EarliestCovered'
    OBVIOUS
  <2>1. CASE UNCHANGED vars
    <3>1. UNCHANGED <<wpc, left, clock, pipe, m_tickled, upc, m_timers, m_next>>
      BY <2>1 DEF vars, timerVars, setVars, userVars, waitVars, envVars
    <3>2. QED
      BY <3>1, CoverFrame
  <2>2. CASE RefreshPostpones
    BY <2>2, CoverStep
  <2>3. QED
    BY <2>1, <2>2
<1>3. QED
  BY <1>1, <1>2, Invariance, PTL DEF Spec

-----------------------------------------------------------------------------
(* cancel(), apart from the window that reset() leaves open.               *)

(* Nobody calls cancel() for a timer that reset() has in hand, out of the  *)
(* set and without the mutex.                                              *)
CancelOutsideReset ==
  \A u \in Users, t \in Timers : Cancel(u, t) => ~Resetting(t)

(* A timer that has been cancelled has no callback, is not in the set, and *)
(* nobody is about to put it there.                                        *)
CancelledOK ==
  /\ cancelled \subseteq created
  /\ cancelled \cap m_cb = {} /\ cancelled \cap m_timers = {}
  /\ \A u \in Users : cur[u] \notin cancelled

(* Every step keeps a cancelled timer out.                                 *)
LEMMA CancelledStep ==
  IInv /\ CancelledOK /\ [Next]_vars /\ [CancelOutsideReset]_vars => CancelledOK'
<1> SUFFICES ASSUME IInv, CancelledOK, [Next]_vars, [CancelOutsideReset]_vars
             PROVE  CancelledOK'
  OBVIOUS
<1> USE TimerAssumption DEF timerVars, setVars, userVars, waitVars, envVars
<1>0. TypeOK /\ CurOK
  BY DEF IInv
<1>1. ASSUME UNCHANGED <<cancelled, created, cur>>, m_cb' \subseteq m_cb,
             m_timers' \subseteq m_timers
      PROVE  CancelledOK'
  BY <1>1 DEF CancelledOK
<1>2. ASSUME NEW u \in Users, NEW t \in Timers, NEW ms \in Periods, NewTimer(u, t, ms)
      PROVE  CancelledOK'
  <2>1. /\ t \notin cancelled /\ UNCHANGED <<cancelled, m_timers>>
        /\ created' = created \cup {t} /\ m_cb' = m_cb \cup {t}
        /\ cur' = [cur EXCEPT ![u] = t]
    BY <1>2 DEF NewTimer, CancelledOK
  <2>2. QED
    BY <1>0, <2>1 DEF CancelledOK, TypeOK
<1>3. ASSUME NEW u \in Users, AddTimer(u) PROVE CancelledOK'
  <2>1. /\ UNCHANGED <<cancelled, created, m_cb>>
        /\ m_timers' \subseteq m_timers \cup {cur[u]}
        /\ cur' = [cur EXCEPT ![u] = NULL]
    BY <1>3 DEF AddTimer, Insert
  <2>2. NULL \notin cancelled
    BY <1>0 DEF TypeOK
  <2>3. QED
    BY <1>0, <2>1, <2>2 DEF CancelledOK, TypeOK
<1>4. ASSUME NEW u \in Users, NEW t \in Timers, Cancel(u, t) PROVE CancelledOK'
  <2>1. /\ UNCHANGED <<created, cur>> /\ m_cb' = m_cb \ {t} /\ t \in created
        /\ m_timers' = m_timers \ Find(t) /\ cancelled' = cancelled \cup {t}
    BY <1>4 DEF Cancel, Call
  <2>2. cancelled' # cancelled
    BY <1>4, <2>1 DEF CancelledOK, Cancel
  <2>3. \A v \in Users : cur[v] # t
    BY <1>4, <2>2 DEF CancelOutsideReset, Resetting, vars
  <2>4. t \notin m_timers'
    BY <2>1 DEF Find
  <2>5. QED
    BY <2>1, <2>3, <2>4 DEF CancelledOK
<1>5. ASSUME NEW u \in Users, NEW t \in Timers, Refresh(u, t) PROVE CancelledOK'
  <2>1. /\ UNCHANGED <<cancelled, created, m_cb, cur>> /\ t \in m_cb
        /\ m_timers' \subseteq m_timers \cup {t}
    BY <1>5 DEF Refresh, Insert
  <2>2. QED
    BY <2>1 DEF CancelledOK
<1>6. ASSUME NEW u \in Users, NEW t \in Timers, NEW a \in Arg, ResetErase(u, t, a)
      PROVE  CancelledOK'
  <2>1. /\ UNCHANGED <<cancelled, created, m_cb>> /\ t \in m_cb
        /\ m_timers' \subseteq m_timers /\ cur' = [cur EXCEPT ![u] = t]
    BY <1>6 DEF ResetErase
  <2>2. QED
    BY <1>0, <2>1 DEF CancelledOK, TypeOK
<1>7. ASSUME NEW u \in Users, OnTimerInsertedAtFront(u) \/ ResetWrite(u) PROVE CancelledOK'
  BY <1>1, <1>7 DEF OnTimerInsertedAtFront, ResetWrite
<1>8. ASSUME NEW w \in Waiters, NEW t \in Timers, Expire(w, t) PROVE CancelledOK'
  <2>1. UNCHANGED <<cancelled, created, cur>> /\ m_cb' \subseteq m_cb
    BY <1>8 DEF Expire
  <2>2. QED
    BY <1>1, <1>8, <2>1, ExpireShrinks
<1>9. ASSUME NEW w \in Waiters, WaiterStep(w) PROVE CancelledOK'
  <2>1. \/ \E t \in Timers : Expire(w, t)
        \/ UNCHANGED <<cancelled, created, cur, m_cb, m_timers>>
    BY <1>9 DEF WaiterStep, Check, Peek, WakeTickled, WakeTimeout, ReadNow,
                DetectClockRollover, ListEnd, DrainPipe, IdleAgain
  <2>2. QED
    BY <1>1, <1>8, <2>1
<1>10. CASE Tick \/ Rollback
  BY <1>1, <1>10 DEF Tick, Rollback
<1>11. CASE UNCHANGED vars
  BY <1>1, <1>11 DEF vars
<1>12. QED
  BY <1>2, <1>3, <1>4, <1>5, <1>6, <1>7, <1>9, <1>10, <1>11 DEF Next, UserStep, UserCall

(* A timer whose cancel() returned true never expires: it is not in the    *)
(* set from then on, whatever refresh(), reset(), the expiry of recurring  *)
(* timers and the clock do, as long as no cancel() falls into the window   *)
(* in which reset() of that timer works without the mutex.                 *)
THEOREM CancelIsFinal == Spec /\ [][CancelOutsideReset]_vars => []CancelRemoves
<1>1. Init => CancelledOK
  BY TimerAssumption DEF Init, CancelledOK
<1>2. CancelledOK => CancelRemoves
  BY DEF CancelledOK, CancelRemoves
<1>3. QED
  BY <1>1, <1>2, CancelledStep, Invariance, PTL DEF Spec
=============================================================================
