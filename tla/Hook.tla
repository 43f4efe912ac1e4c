-------------------------------- MODULE Hook ---------------------------------
(***************************************************************************)
(* The hooked sleep(), usleep() and nanosleep(): on a thread with the hook *)
(* enabled a fiber that sleeps adds a timer whose callback schedules it    *)
(* again, and yields; elsewhere the original function blocks the thread.   *)
(*                                                                         *)
(* Fibers and run() are those of module Fiber.  The way from the expired   *)
(* timer over its callback's own turn to the task list (modules Timer and  *)
(* IOManager) is one step, TimerFires, which may come at any time after    *)
(* the deadline, before the fiber has yielded too.  One tick is 1 ms.      *)
(***************************************************************************)
EXTENDS Fiber, Integers

CONSTANTS
  Hooked,      \* threads that have called set_hook_enable(true)
  Calls,       \* calls the bodies make, see Call
  MS, US,      \* 1000 ms to the second, 1000 us to the ms
  UINT, INT,   \* 2^32 and 2^31: unsigned int and int wrap
  MaxNow       \* bound: time

(* sleep(s), usleep(u), or nanosleep of s seconds and u microseconds.      *)
Call == [name : {"sleep", "usleep", "nanosleep"}, s : Nat, u : Nat]

ASSUME HookAssumption ==
  /\ Hooked \subseteq Threads /\ Calls \subseteq Call
  /\ {MS, US, UINT, INT} \subseteq Nat \ {0} /\ INT <= UINT /\ MaxNow \in Nat
  /\ NULL \notin Int

VARIABLES
  now,        \* the clock
  deadline,   \* m_next of the timer that will schedule the fiber, or NULL
  sleep,      \* where each fiber is: "no", "armed", "yielded", "blocked"
  until,      \* history: when the sleep asked for is over, in us
  whole       \* history: whether it was asked for in whole ms, see WholeMs

hookVars == <<now, deadline, sleep, until, whole>>

(* The types.                                                              *)
HookTypeOK ==
  /\ TypeOK
  /\ now \in 0..MaxNow /\ deadline \in [Tasks -> Int \cup {NULL}]
  /\ sleep \in [Tasks -> {"no", "armed", "yielded", "blocked"}]
  /\ until \in [Tasks -> Nat] /\ whole \in [Tasks -> BOOLEAN]

HookInit ==
  /\ Init
  /\ now = 0 /\ deadline = [f \in Tasks |-> NULL]
  /\ sleep = [f \in Tasks |-> "no"] /\ until = [f \in Tasks |-> 0]
  /\ whole = [f \in Tasks |-> TRUE]

-----------------------------------------------------------------------------
(* What the caller asks for, in us, and what it gets, in ms.               *)
Asked(c) ==
  CASE c.name = "sleep"     -> c.s * MS * US
    [] c.name = "usleep"    -> c.u
    [] c.name = "nanosleep" -> c.s * MS * US + c.u

(* nanosleep()'s int: too large a value is negative, and still is after    *)
(* uint64_t m_ms and the signed std::chrono::milliseconds of addTimer(),   *)
(* where it makes a deadline that is over.                                 *)
IntMs(v) == IF v % UINT < INT THEN v % UINT ELSE (v % UINT) - UINT

(* Faulty variant: the seconds are not converted.                          *)
TimerMsPlain(c) == IF c.name = "usleep" THEN c.u \div US ELSE c.s

TimerMs(c) ==
  CASE c.name = "sleep"     -> (c.s * MS) % UINT
    [] c.name = "usleep"    -> c.u \div US
    [] c.name = "nanosleep" -> IntMs(c.s * MS + c.u \div US)

(* A call for a number of ms that the integers of the code can hold.       *)
WholeMs(c) ==
  /\ c.name = "sleep" => c.s * MS < UINT
  /\ c.name = "usleep" => c.u % US = 0
  /\ c.name = "nanosleep" => c.u % US = 0 /\ c.s * MS + c.u \div US < INT

-----------------------------------------------------------------------------
(* A fiber that goes to sleep has not been scheduled by anyone else.       *)
Sleeps(t, c) ==
  /\ InBody(t) /\ sleep[stack[t]] = "no"
  /\ stack[t] \notin Range(m_tasks) /\ \A u \in Threads \ {t} : task[u] # stack[t]
  /\ until' = [until EXCEPT ![stack[t]] = now * US + Asked(c)]
  /\ whole' = [whole EXCEPT ![stack[t]] = WholeMs(c)]
  /\ UNCHANGED <<vars, now>>

(* addTimer() with a callback that schedules the fiber ...                 *)
HookedSleep(t, c) ==
  /\ t \in Hooked /\ Sleeps(t, c) /\ now + TimerMs(c) <= MaxNow
  /\ sleep' = [sleep EXCEPT ![stack[t]] = "armed"]
  /\ deadline' = [deadline EXCEPT ![stack[t]] = now + TimerMs(c)]

(* ... and fiber->yield().                                                 *)
SleepYield(t) ==
  /\ InBody(t) /\ sleep[stack[t]] = "armed"
  /\ Yield(t)
  /\ sleep' = [sleep EXCEPT ![stack[t]] = "yielded"]
  /\ UNCHANGED <<now, deadline, until, whole>>

Returned(t) ==
  /\ sleep' = [sleep EXCEPT ![stack[t]] = "no"]
  /\ until' = [until EXCEPT ![stack[t]] = 0]
  /\ whole' = [whole EXCEPT ![stack[t]] = TRUE]
  /\ UNCHANGED <<vars, now, deadline>>

SleepReturn(t) ==
  /\ InBody(t) /\ sleep[stack[t]] = "yielded"
  /\ Returned(t)

(* sleep_f(), usleep_f(), nanosleep_f(): the thread is blocked.            *)
BlockingSleep(t, c) ==
  /\ t \notin Hooked /\ Sleeps(t, c) /\ now * US + Asked(c) <= MaxNow * US
  /\ sleep' = [sleep EXCEPT ![stack[t]] = "blocked"]
  /\ UNCHANGED deadline

BlockingReturn(t) ==
  /\ InBody(t) /\ sleep[stack[t]] = "blocked" /\ now * US >= until[stack[t]]
  /\ Returned(t)

(* The timer expires and its callback calls scheduleLock(fiber).           *)
TimerFires(f) ==
  /\ deadline[f] # NULL /\ deadline[f] <= now
  /\ deadline' = [deadline EXCEPT ![f] = NULL]
  /\ m_tasks' = Append(m_tasks, f)
  /\ UNCHANGED <<pointers, fiberVars, stack, swap, task, aborted,
                 now, sleep, until, whole>>

Tick ==
  /\ now < MaxNow /\ now' = now + 1
  /\ UNCHANGED <<vars, deadline, sleep, until, whole>>

-----------------------------------------------------------------------------
(* A fiber does nothing else while it sleeps, nor does anybody schedule it.*)
Awake(t) == stack[t] \in Tasks => sleep[stack[t]] = "no"

BodyStep(t) == Awake(t) /\ (Yield(t) \/ BodyEnd(t)) /\ UNCHANGED hookVars

ClientStep(t) ==
  /\ Awake(t)
  /\ \E f \in Tasks : (Post(t, f) /\ sleep[f] = "no") \/ Reset(t, f)
  /\ UNCHANGED hookVars

(* What thread t goes on with by itself.                                   *)
Turn(t) ==
  \/ RunStep(t) /\ UNCHANGED hookVars
  \/ SleepYield(t) \/ SleepReturn(t) \/ BlockingReturn(t) \/ BodyStep(t)

HookNext ==
  \/ SetUp /\ UNCHANGED hookVars
  \/ Tick
  \/ \E f \in Tasks : TimerFires(f)
  \/ \E t \in Threads :
       \/ Turn(t) \/ ClientStep(t)
       \/ \E c \in Calls : HookedSleep(t, c) \/ BlockingSleep(t, c)

allVars == <<vars, hookVars>>

HookSafety == HookInit /\ [][HookNext]_allVars

(* Every thread that can go on does, bodies yield or end, time passes and  *)
(* an expired timer's callback gets its turn.                              *)
HookFairness ==
  /\ \A t \in Threads : WF_allVars(Turn(t))
  /\ \A w \in Workers : WF_allVars(WorkerStart(w) /\ UNCHANGED hookVars)
  /\ \A f \in Tasks : WF_allVars(TimerFires(f))
  /\ WF_allVars(Tick)

HookSpec == HookSafety /\ HookFairness

-----------------------------------------------------------------------------
(* Properties.                                                             *)

(* "Until the time has expired": a sleep ends by its own timer, and leaves *)
(* none behind that would end a later one; and it ends after the time      *)
(* asked for, unless the hook rounds a part of a ms away or its integers   *)
(* wrap.                                                                   *)
SleepEndsInTime ==
  [][\A f \in Tasks : sleep[f] # "no" /\ sleep'[f] = "no" =>
       /\ deadline[f] = NULL
       /\ sleep[f] = "blocked" \/ whole[f] => now * US >= until[f]]_allVars

(* A sleep ends: although the timer may fire before the fiber has yielded, *)
(* on another thread, the wake-up is not lost.                             *)
SleepEnds == \A f \in Tasks : sleep[f] # "no" ~> sleep[f] = "no"

-----------------------------------------------------------------------------
(* The inductive invariant; see HookProofs.                                *)

(* Only the thread that executes the fiber, or has just left it, knows it. *)
Alone(f) == f \notin Range(m_tasks) /\ \A t \in Threads : task[t] = f => m_mutex[f] = t

(* Until its timer has fired a sleeping fiber is not scheduled, and once   *)
(* it has yielded nobody executes it.                                      *)
SleepOK ==
  \A f \in Tasks :
    /\ sleep[f] # "no" => m_state[f] # "NONE"
    /\ deadline[f] # NULL => sleep[f] \in {"armed", "yielded"} /\ Alone(f)
    /\ deadline[f] # NULL /\ sleep[f] = "yielded" => m_state[f] = "READY"

(* All that makes the wake-up of a hooked sleep safe: the timer that is    *)
(* armed before the yield finds a fiber that nobody else has.              *)
HookInv == IInv /\ HookTypeOK /\ SleepOK

(* The timer of a call in whole ms does not fire before the time asked for *)
(* has passed ...                                                          *)
InTime ==
  \A f \in Tasks : whole[f] =>
    IF deadline[f] # NULL THEN deadline[f] * US >= until[f]
    ELSE sleep[f] \in {"armed", "yielded"} => now * US >= until[f]

(* ... for the ms given to addTimer() are no less than what was asked for. *)
LongEnough(c) == TimerMs(c) * US >= Asked(c)
=============================================================================
