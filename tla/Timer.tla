-------------------------------- MODULE Timer --------------------------------
(***************************************************************************)
(* Timer and TimerManager of src/src/timer, driven as IOManager::idle()    *)
(* drives them.  Users are threads that add, cancel, refresh and reset     *)
(* timers; waiters are pool threads that ask for the next deadline, sleep  *)
(* in epoll_wait, and collect what has expired.                            *)
(*                                                                         *)
(* m_timers is a std::set ordered by m_next alone: two timers with the     *)
(* same m_next are the same key.  The critical sections of m_mutex are one *)
(* action each, except listExpiredCb(), whose loop is one action per       *)
(* expired timer with the mutex held.  Time is counted in ticks.           *)
(***************************************************************************)
EXTENDS Naturals, FiniteSetsExt

CONSTANTS
  Users,           \* threads that operate on timers
  Waiters,         \* threads that execute IOManager::idle()
  Timers,          \* the Timer objects created in a behaviour
  Recurring,       \* those of them created with recurring = true
  Periods,         \* values of the argument ms
  MaxTimeout,      \* MAX_TIMEOUT of IOManager::idle(), in ticks
  RolloverWindow,  \* the hour of detectClockRollover(), in ticks
  MaxClock,        \* bound: the clock stops here
  MaxOps,          \* bound: calls of cancel, refresh and reset
  MaxRollbacks,    \* bound: times the system clock is set to 0
  NULL             \* no timer, no holder

(* Arguments of reset().                                                   *)
Arg == [ms : Periods, from_now : BOOLEAN]

ASSUME TimerAssumption ==
  /\ IsFiniteSet(Timers) /\ Recurring \subseteq Timers
  /\ Periods \subseteq Nat
  /\ MaxTimeout \in Nat /\ RolloverWindow \in Nat
  /\ MaxClock \in Nat /\ MaxOps \in Nat /\ MaxRollbacks \in Nat
  /\ Waiters # {} /\ Users \cap Waiters = {}
  /\ NULL \notin Timers \cup Waiters \cup Arg

VARIABLES
  clock,            \* std::chrono::system_clock::now()
  created,          \* timers constructed so far
  m_next, m_ms,     \* of each timer
  m_cb,             \* the timers whose callback is not null
  m_timers,         \* the timers in the set
  m_tickled,
  m_previouseTime,
  m_mutex,          \* waiter inside listExpiredCb(), or NULL
  upc, cur, arg,    \* of each user: step, timer, arguments of reset
  wpc,              \* of each waiter: step
  left,             \* ticks until its epoll_wait times out
  woken,            \* waiters whose epoll_wait has reported the pipe
  now, rollover,    \* listExpiredCb()'s locals
  pipe,             \* the tickle pipe has an unseen edge
  cancelled,        \* history: timers for which cancel() returned true
  ops, rollbacks    \* bounds

timerVars == <<m_next, m_ms, m_cb, created>>
setVars   == <<m_timers, m_tickled>>
userVars  == <<upc, cur, arg>>
waitVars  == <<wpc, left, woken, now, rollover>>
envVars   == <<clock, rollbacks>>
vars == <<timerVars, setVars, userVars, waitVars, envVars, m_previouseTime,
          m_mutex, pipe, cancelled, ops>>

(* The types; neither the time getNextTimer() gives to epoll_wait nor a    *)
(* deadline that reset() computes from the old one goes below zero.        *)
TypeOK ==
  /\ clock \in 0..MaxClock /\ rollbacks \in 0..MaxRollbacks
  /\ created \subseteq Timers /\ m_cb \subseteq created
  /\ m_next \in [Timers -> Nat]
  /\ m_ms \in [Timers -> Periods \cup {0}]
  /\ m_timers \subseteq created
  /\ m_tickled \in BOOLEAN /\ pipe \in BOOLEAN
  /\ m_previouseTime \in 0..MaxClock
  /\ m_mutex \in Waiters \cup {NULL}
  /\ upc \in [Users -> {"ready", "new", "write", "insert", "tickle"}]
  /\ cur \in [Users -> Timers \cup {NULL}]
  /\ arg \in [Users -> Arg \cup {NULL}]
  /\ wpc \in [Waiters -> {"check", "peek", "sleep", "now", "lock", "expire",
                          "drain", "busy"}]
  /\ left \in [Waiters -> 0..MaxTimeout] /\ woken \subseteq Waiters
  /\ now \in [Waiters -> 0..MaxClock] /\ rollover \in [Waiters -> BOOLEAN]
  /\ cancelled \subseteq created
  /\ ops \in 0..MaxOps

Init ==
  /\ clock = 0 /\ rollbacks = 0
  /\ created = {} /\ m_cb = {} /\ m_timers = {}
  /\ m_next = [t \in Timers |-> 0] /\ m_ms = [t \in Timers |-> 0]
  /\ m_tickled = FALSE /\ pipe = FALSE
  /\ m_previouseTime = 0 /\ m_mutex = NULL
  /\ upc = [u \in Users |-> "ready"]
  /\ cur = [u \in Users |-> NULL] /\ arg = [u \in Users |-> NULL]
  /\ wpc = [w \in Waiters |-> "check"] /\ left = [w \in Waiters |-> 0]
  /\ woken = {}
  /\ now = [w \in Waiters |-> 0] /\ rollover = [w \in Waiters |-> FALSE]
  /\ cancelled = {} /\ ops = 0

-----------------------------------------------------------------------------
(* The set as the code uses it.                                            *)

(* m_timers.find(t): the timer with t's key, which need not be t.          *)
Find(t) == {s \in m_timers : m_next[s] = m_next[t]}

(* S.insert(t) with key n does nothing when the key is taken.              *)
Insert(S, t, n) == IF \E s \in S : m_next[s] = n THEN S ELSE S \cup {t}

(* m_timers.begin().                                                       *)
Front == {s \in m_timers : \A r \in m_timers : m_next[s] <= m_next[r]}

-----------------------------------------------------------------------------
(* Users.                                                                  *)

(* addTimer(ms, cb, recurring): the constructor reads the clock ...        *)
NewTimer(u, t, ms) ==
  /\ upc[u] = "ready" /\ t \notin created
  /\ created' = created \cup {t} /\ m_cb' = m_cb \cup {t}
  /\ m_ms' = [m_ms EXCEPT ![t] = ms]
  /\ m_next' = [m_next EXCEPT ![t] = clock + ms]
  /\ upc' = [upc EXCEPT ![u] = "new"] /\ cur' = [cur EXCEPT ![u] = t]
  /\ UNCHANGED <<setVars, waitVars, envVars, m_previouseTime, m_mutex, pipe,
                 cancelled, ops, arg>>

(* Faulty variant: only the insertion into an empty set counts.            *)
InsertedIntoEmpty(t, S) == ~m_tickled /\ S = {t}

(* at_front: the iterator insert() returns is begin(), and nobody has been *)
(* told yet.  The iterator points to the timer with t's key.               *)
InsertedAtFront(t, S) == ~m_tickled /\ \A s \in S : m_next[t] <= m_next[s]

(* addTimer(timer): the part under the mutex.                              *)
AddTimer(u) ==
  LET t == cur[u]
      S == Insert(m_timers, t, m_next[t])
      at_front == InsertedAtFront(t, S) IN
  /\ upc[u] \in {"new", "insert"} /\ m_mutex = NULL
  /\ m_timers' = S
  /\ m_tickled' = (m_tickled \/ at_front)
  /\ upc' = [upc EXCEPT ![u] = IF at_front THEN "tickle" ELSE "ready"]
  /\ cur' = [cur EXCEPT ![u] = NULL]
  /\ UNCHANGED <<timerVars, waitVars, envVars, m_previouseTime, m_mutex, pipe,
                 cancelled, ops, arg>>

(* onTimerInsertedAtFront(): IOManager::tickle(), which writes to the pipe *)
(* if some thread is in its idle fiber.                                    *)
OnTimerInsertedAtFront(u) ==
  /\ upc[u] = "tickle"
  /\ pipe' = (pipe \/ \E w \in Waiters : wpc[w] # "busy")
  /\ upc' = [upc EXCEPT ![u] = "ready"]
  /\ UNCHANGED <<timerVars, setVars, waitVars, envVars, m_previouseTime,
                 m_mutex, cancelled, ops, cur, arg>>

(* A call for a timer that its addTimer() has put into the set: nobody     *)
(* else has a pointer to it before.                                        *)
Call(u, t) ==
  /\ upc[u] = "ready" /\ t \in created /\ m_mutex = NULL
  /\ \A v \in Users : upc[v] = "new" => cur[v] # t
  /\ ops < MaxOps /\ ops' = ops + 1

(* Timer::cancel() returning true; with a null callback it does nothing.   *)
Cancel(u, t) ==
  /\ Call(u, t)
  /\ t \in m_cb
  /\ m_cb' = m_cb \ {t}
  /\ m_timers' = m_timers \ Find(t)
  /\ cancelled' = cancelled \cup {t}
  /\ UNCHANGED <<userVars, waitVars, envVars, created, m_next, m_ms,
                 m_tickled, m_previouseTime, m_mutex, pipe>>

(* The timer is in the hands of addTimer() or reset().                     *)
Resetting(t) == \E u \in Users : cur[u] = t

(* Timer::refresh().  Not called while a reset() of the same timer is      *)
(* under way: that one writes m_next without the mutex.                    *)
Refresh(u, t) ==
  /\ Call(u, t) /\ ~Resetting(t)
  /\ t \in m_cb /\ Find(t) # {}
  /\ m_next' = [m_next EXCEPT ![t] = clock + m_ms[t]]
  /\ m_timers' = Insert(m_timers \ Find(t), t, clock + m_ms[t])
  /\ UNCHANGED <<userVars, waitVars, envVars, created, m_ms, m_cb, m_tickled,
                 m_previouseTime, m_mutex, pipe, cancelled>>

(* Faulty variant: the old entry stays in the set.                         *)
ResetNoErase(u, t, a) ==
  /\ Call(u, t) /\ ~Resetting(t)
  /\ a.ms # m_ms[t] \/ a.from_now
  /\ t \in m_cb /\ Find(t) # {}
  /\ upc' = [upc EXCEPT ![u] = "write"]
  /\ cur' = [cur EXCEPT ![u] = t] /\ arg' = [arg EXCEPT ![u] = a]
  /\ UNCHANGED <<timerVars, setVars, waitVars, envVars, m_previouseTime,
                 m_mutex, pipe, cancelled>>

(* Timer::reset(ms, from_now): the locked part takes the timer out ...     *)
ResetErase(u, t, a) ==
  /\ Call(u, t) /\ ~Resetting(t)
  /\ a.ms # m_ms[t] \/ a.from_now
  /\ t \in m_cb /\ Find(t) # {}
  /\ m_timers' = m_timers \ Find(t)
  /\ upc' = [upc EXCEPT ![u] = "write"]
  /\ cur' = [cur EXCEPT ![u] = t] /\ arg' = [arg EXCEPT ![u] = a]
  /\ UNCHANGED <<timerVars, waitVars, envVars, m_tickled, m_previouseTime,
                 m_mutex, pipe, cancelled>>

(* ... the new deadline is written without the mutex, then addTimer().     *)
ResetWrite(u) ==
  LET t == cur[u]
      start == IF arg[u].from_now THEN clock ELSE m_next[t] - m_ms[t] IN
  /\ upc[u] = "write"
  /\ m_ms' = [m_ms EXCEPT ![t] = arg[u].ms]
  /\ m_next' = [m_next EXCEPT ![t] = start + arg[u].ms]
  /\ upc' = [upc EXCEPT ![u] = "insert"] /\ arg' = [arg EXCEPT ![u] = NULL]
  /\ UNCHANGED <<setVars, waitVars, envVars, created, m_cb, cur,
                 m_previouseTime, m_mutex, pipe, cancelled, ops>>

-----------------------------------------------------------------------------
(* Waiters: the loop of IOManager::idle().                                 *)

Move(w, from, to) == wpc[w] = from /\ wpc' = [wpc EXCEPT ![w] = to]

(* Faulty variant: a deadline that has passed is not singled out, and the  *)
(* difference goes below zero.                                             *)
RemainingSigned ==
  IF m_timers = {} THEN MaxTimeout
  ELSE Min({Min({m_next[t] : t \in m_timers}) - clock, MaxTimeout})

(* getNextTimer(), under the shared lock: nobody is inside listExpiredCb().*)
Remaining ==
  IF m_timers = {} THEN MaxTimeout
  ELSE LET first == Min({m_next[t] : t \in m_timers}) IN
       IF clock >= first THEN 0 ELSE Min({first - clock, MaxTimeout})

(* stopping() calls it first and uses only whether there is a timer.       *)
Check(w) ==
  /\ Move(w, "check", "peek") /\ m_mutex = NULL
  /\ m_tickled' = FALSE
  /\ UNCHANGED <<timerVars, userVars, envVars, m_timers, m_previouseTime,
                 m_mutex, pipe, cancelled, ops, left, woken, now, rollover>>

(* The timeout for epoll_wait, at most MAX_TIMEOUT.                        *)
Peek(w) ==
  /\ Move(w, "peek", "sleep") /\ m_mutex = NULL
  /\ m_tickled' = FALSE
  /\ left' = [left EXCEPT ![w] = Remaining]
  /\ UNCHANGED <<timerVars, userVars, envVars, m_timers, m_previouseTime,
                 m_mutex, pipe, cancelled, ops, woken, now, rollover>>

(* epoll_wait returns: for an edge on the pipe, which one waiter sees ...  *)
WakeTickled(w) ==
  /\ Move(w, "sleep", "now") /\ pipe
  /\ pipe' = FALSE /\ woken' = woken \cup {w}
  /\ left' = [left EXCEPT ![w] = 0]
  /\ UNCHANGED <<timerVars, setVars, userVars, envVars, m_previouseTime,
                 m_mutex, cancelled, ops, now, rollover>>

(* ... or because the time is up.                                          *)
WakeTimeout(w) ==
  /\ Move(w, "sleep", "now") /\ left[w] = 0
  /\ UNCHANGED <<timerVars, setVars, userVars, envVars, m_previouseTime,
                 m_mutex, pipe, cancelled, ops, left, woken, now, rollover>>

(* listExpiredCb(): the clock is read before the mutex is taken ...        *)
ReadNow(w) ==
  /\ Move(w, "now", "lock")
  /\ now' = [now EXCEPT ![w] = clock]
  /\ UNCHANGED <<timerVars, setVars, userVars, envVars, m_previouseTime,
                 m_mutex, pipe, cancelled, ops, left, woken, rollover>>

(* Faulty variant: the hour is added on the wrong side.                    *)
DetectNoHour(w) ==
  /\ Move(w, "lock", "expire") /\ m_mutex = NULL
  /\ m_mutex' = w
  /\ rollover' = [rollover EXCEPT ![w] =
                    clock < m_previouseTime + RolloverWindow]
  /\ m_previouseTime' = clock
  /\ UNCHANGED <<timerVars, setVars, userVars, envVars, pipe, cancelled,
                 ops, left, woken, now>>

(* ... and again in detectClockRollover(), with the mutex held.            *)
DetectClockRollover(w) ==
  /\ Move(w, "lock", "expire") /\ m_mutex = NULL
  /\ m_mutex' = w
  /\ rollover' = [rollover EXCEPT ![w] =
                    clock + RolloverWindow < m_previouseTime]
  /\ m_previouseTime' = clock
  /\ UNCHANGED <<timerVars, setVars, userVars, envVars, pipe, cancelled,
                 ops, left, woken, now>>

(* The condition of the loop for the timer at the front.                   *)
Expired(w, t) == t \in Front /\ (rollover[w] \/ m_next[t] <= now[w])

(* Faulty variant: a recurring timer goes back with its old deadline.      *)
ExpireNoAdvance(w, t) ==
  /\ wpc[w] = "expire" /\ Expired(w, t)
  /\ m_timers' = IF t \in Recurring THEN m_timers ELSE m_timers \ {t}
  /\ m_cb' = IF t \in Recurring THEN m_cb ELSE m_cb \ {t}
  /\ UNCHANGED <<userVars, waitVars, envVars, created, m_ms, m_next, m_tickled,
                 m_previouseTime, m_mutex, pipe, cancelled, ops>>

(* One iteration: take the front timer out, collect its callback, and put  *)
(* it back if it recurs.                                                   *)
Expire(w, t) ==
  /\ wpc[w] = "expire" /\ Expired(w, t)
  /\ IF t \in Recurring
     THEN /\ m_next' = [m_next EXCEPT ![t] = now[w] + m_ms[t]]
          /\ m_timers' = Insert(m_timers \ {t}, t, now[w] + m_ms[t])
          /\ UNCHANGED m_cb
     ELSE /\ m_timers' = m_timers \ {t}
          /\ m_cb' = m_cb \ {t}
          /\ UNCHANGED m_next
  /\ UNCHANGED <<userVars, waitVars, envVars, created, m_ms, m_tickled,
                 m_previouseTime, m_mutex, pipe, cancelled, ops>>

(* The loop ends, the mutex is released, the callbacks are scheduled and,  *)
(* unless the pipe is to be read first, the idle fiber yields to run().    *)
ListEnd(w) ==
  /\ Move(w, "expire", IF w \in woken THEN "drain" ELSE "busy")
  /\ \A t \in m_timers : ~Expired(w, t)
  /\ m_mutex' = NULL
  /\ now' = [now EXCEPT ![w] = 0]
  /\ rollover' = [rollover EXCEPT ![w] = FALSE]
  /\ UNCHANGED <<timerVars, setVars, userVars, envVars, m_previouseTime, pipe,
                 cancelled, ops, left, woken>>

(* The waiter that was told of the pipe reads it until it is empty: a byte *)
(* written since then goes too, and its edge is no longer reported.        *)
DrainPipe(w) ==
  /\ Move(w, "drain", "busy")
  /\ woken' = woken \ {w} /\ pipe' = FALSE
  /\ UNCHANGED <<timerVars, setVars, userVars, envVars, m_previouseTime,
                 m_mutex, cancelled, ops, left, now, rollover>>

(* run() has executed what was scheduled and resumes the idle fiber.       *)
IdleAgain(w) ==
  /\ Move(w, "busy", "check")
  /\ UNCHANGED <<timerVars, setVars, userVars, envVars, m_previouseTime,
                 m_mutex, pipe, cancelled, ops, left, woken, now, rollover>>

-----------------------------------------------------------------------------
(* Time passes, for the system clock and for every epoll_wait.             *)
Tick ==
  /\ clock < MaxClock
  /\ clock' = clock + 1
  /\ left' = [w \in Waiters |-> IF wpc[w] = "sleep" /\ left[w] > 0
                                THEN left[w] - 1 ELSE left[w]]
  /\ UNCHANGED <<timerVars, setVars, userVars, wpc, woken, now, rollover,
                 rollbacks, m_previouseTime, m_mutex, pipe, cancelled, ops>>

(* The system clock, which is not monotonic, is set back.                  *)
Rollback ==
  /\ rollbacks < MaxRollbacks /\ clock > 0
  /\ clock' = 0 /\ rollbacks' = rollbacks + 1
  /\ UNCHANGED <<timerVars, setVars, userVars, waitVars, m_previouseTime,
                 m_mutex, pipe, cancelled, ops>>

UserStep(u) == AddTimer(u) \/ OnTimerInsertedAtFront(u) \/ ResetWrite(u)

UserCall(u) ==
  \E t \in Timers :
    \/ \E ms \in Periods : NewTimer(u, t, ms)
    \/ Cancel(u, t) \/ Refresh(u, t)
    \/ \E a \in Arg : ResetErase(u, t, a)

WaiterStep(w) ==
  \/ Check(w) \/ Peek(w) \/ WakeTickled(w) \/ WakeTimeout(w) \/ ReadNow(w)
  \/ DetectClockRollover(w) \/ (\E t \in Timers : Expire(w, t)) \/ ListEnd(w)
  \/ DrainPipe(w) \/ IdleAgain(w)

Next ==
  \/ \E u \in Users : UserStep(u) \/ UserCall(u)
  \/ \E w \in Waiters : WaiterStep(w)
  \/ Tick \/ Rollback

Spec == Init /\ [][Next]_vars

(* Threads that can run do run, and time goes on; nobody has to call.      *)
Fairness ==
  /\ \A u \in Users : WF_vars(UserStep(u))
  /\ \A w \in Waiters : WF_vars(WaiterStep(w))
  /\ WF_vars(Tick)

FairSpec == Spec /\ Fairness

-----------------------------------------------------------------------------
(* Properties.                                                             *)

(* The set is ordered by deadline alone: no two elements ever have the     *)
(* same one, although refresh() changes a deadline and reset() writes      *)
(* m_next without the mutex.                                               *)
KeysDistinct == \A s, t \in m_timers : m_next[s] = m_next[t] => s = t

(* The earliest deadline is never slept over.  A waiter is awake, or sleeps*)
(* no longer than until that deadline, or a wake-up is on its way:         *)
(* m_tickled suppresses only the second of two wake-ups, and a waiter that *)
(* empties the pipe looks at the set again itself.  One that is awake, in  *)
(* idle() or busy in run(), does so before it sleeps; how long a body keeps*)
(* it from that is not bounded.                                            *)
EarliestCovered ==
  m_timers # {} =>
    \/ pipe \/ \E u \in Users : upc[u] = "tickle"
    \/ \E w \in Waiters :
         \/ wpc[w] # "sleep" \/ left[w] = 0
         \/ \A t \in m_timers : clock + left[w] <= m_next[t]

(* A timer is never collected before its deadline, although listExpiredCb()*)
(* compares with a time read before it had the mutex, a reset() may have   *)
(* postponed the deadline meanwhile, and a clock that seems to have been   *)
(* set back makes every timer expire.                                      *)
NeverEarly ==
  [][\A w \in Waiters, t \in Timers : Expire(w, t) => m_next[t] <= clock]_vars

(* listExpiredCb() goes round for ever: the timer that it puts back is     *)
(* expired again, for its period is 0 or the clock has been set back.      *)
Endless(w) ==
  /\ wpc[w] = "expire"
  /\ \E t \in m_timers \cap Recurring : rollover[w] \/ m_ms[t] = 0

(* A timer that is due before the clock stops does not stay in the set,    *)
(* unless a waiter never leaves listExpiredCb().                           *)
DueIsServed ==
  \A t \in Timers :
    (t \in m_timers /\ m_next[t] <= MaxClock)
      ~> (t \notin m_timers \/ m_next[t] > MaxClock \/ \E w \in Waiters : Endless(w))

(* cancel() removes the timer from the manager: a timer whose cancel()     *)
(* returned true is not in the set.                                        *)
CancelRemoves == cancelled \cap m_timers = {}

(* A recurring timer that has been collected joins the set again.          *)
RecurringRejoins ==
  [][\A w \in Waiters, t \in Recurring : Expire(w, t) => t \in m_timers']_vars

(* listExpiredCb() returns, whatever has expired and even if the clock has *)
(* been set back; only a recurring timer that is expired again as soon as  *)
(* it is put back keeps it.                                                *)
ListingEnds ==
  \A w \in Waiters : wpc[w] = "expire" ~> (wpc[w] # "expire" \/ Endless(w))

-----------------------------------------------------------------------------
(* The inductive invariants; see TimerProofs.                              *)

(* A timer in the hands of addTimer() or reset() is not in the set, and in *)
(* nobody else's hands.                                                    *)
CurOK ==
  \A u \in Users :
    /\ cur[u] # NULL <=> upc[u] \in {"new", "write", "insert"}
    /\ cur[u] # NULL => cur[u] \in created \ m_timers
    /\ upc[u] = "write" => arg[u] # NULL
    /\ \A v \in Users : cur[u] # NULL /\ cur[u] = cur[v] => u = v

(* A deadline is its period after some instant of time.                    *)
StartOK == \A t \in Timers : m_ms[t] <= m_next[t]

(* All that holds whatever the clock does: the timers that addTimer() and  *)
(* reset() have in hand are apart from the set and from one another.       *)
IInv == TypeOK /\ CurOK /\ StartOK /\ KeysDistinct

(* That instant is not in the future, as long as the clock is not set back.*)
NotLate ==
  /\ \A t \in Timers : m_next[t] <= clock + m_ms[t]
  /\ \A w \in Waiters : now[w] <= clock

(* While m_tickled holds, the wake-up it stands for is under way, or some  *)
(* waiter is awake and will look at the set.                               *)
TickledOK ==
  m_tickled => \/ pipe \/ \E u \in Users : upc[u] = "tickle"
               \/ \E w \in Waiters : wpc[w] # "sleep"

(* All that makes a waiter wake in time when the clock is never set back:  *)
(* epoll_wait()'s timeout, the tickle of onTimerInsertedAtFront() and the  *)
(* flag m_tickled that suppresses it are never all out of step.            *)
CoverInv == NotLate /\ TickledOK /\ EarliestCovered
=============================================================================
