# TLA+ verification of coroutinelib

coroutinelib is a C++ coroutine library: fibers on `ucontext`, an N:M scheduler
that runs them on a pool of threads, timers, and an epoll-based IO manager that
joins the two. This directory holds TLA+ models of its concurrent core, TLC
configurations that check them on small instances, and TLAPS proofs. Source
paths below are relative to the repository (`src/scheduler/scheduler.cc` is
`src/src/scheduler/scheduler.cc` in `PROJECT.json`).

## 1. Inventory

| component | state | operations | used by / uses |
|---|---|---|---|
| **Fiber** (`src/fiber`) | `m_state` (READY, RUNNING, TERM), context, stack, `m_mutex`; per thread `t_fiber`, `t_thread_fiber`, `t_scheduler_fiber` | constructor, `reset`, `resume`, `yield`, `MainFunc`, `GetThis` | resumed by `Scheduler::run`, yields back to it |
| **Thread, Semaphore** (`src/thread`) | pthread handle, callback, semaphore count | constructor (create and wait for the signal), `run`, `join` | the scheduler's pool |
| **Scheduler** (`src/scheduler`) | task list, thread vector, active and idle counters, `m_stopping`, `m_useCaller` | `start`, `scheduleLock`, `run`, `idle`, `stopping`, `stop`, destructor | clients and running fibers schedule; IOManager overrides `idle`, `tickle`, `stopping` |
| **Timer, TimerManager** (`src/timer`) | set of timers ordered by `m_next`, `m_tickled`, `m_previouseTime` | `addTimer`, `cancel`, `refresh`, `reset`, `getNextTimer`, `listExpiredCb`, `detectClockRollover` | IOManager derives from it; `idle()` polls it |
| **IOManager** (`src/iomanager`) | epoll instance, tickle pipe, table of `FdContext`, `m_pendingEventCount` | `addEvent`, `delEvent`, `cancelEvent`, `cancelAll`, `tickle`, `idle`, `stopping`, `contextResize` | schedules callbacks and fibers on the Scheduler |
| **Hook** (`src/hook`) | `t_hook_enable`, original function pointers | `sleep`, `usleep`, `nanosleep`; the others have empty bodies | not part of the build |
| tests, `20co`, `epoll` | | programs and exercises | |

How they interact. A task is a fiber or a callback, with or without a thread it
is pinned to. `run()` takes the first task it may take under `m_mutex`, locks the
fiber, resumes it, and comes back when the fiber yields or ends; without a task it
resumes the thread's idle fiber. The base `idle()` sleeps a second;
`IOManager::idle()` asks the timers how long it may sleep, waits in `epoll_wait`,
schedules expired callbacks and ready events, and yields. `tickle()` writes to a
pipe that epoll watches. `stop()` sets `m_stopping`, runs the caller's share of
the work when the caller belongs to the pool, and joins the threads, which leave
when `stopping()` is true in their idle fiber.

What is hard here, and the properties it calls for:

- *Scheduler.* A fiber scheduled twice must not run on two threads; counters are
  raised and lowered at different places, in part outside the lock; each thread
  decides on its own to leave; tasks pinned to a thread that left are lost; tasks
  are added while `stop()` waits. Properties: exclusion, exact counters, stability
  of `stopping()`, a thread for each listed task, drained when stopped, progress.
- *Timers.* A wake-up may be suppressed (`m_tickled`) or swallowed by a waiter that
  empties the pipe; `reset()` drops the lock half-way; the set compares deadlines
  only; the clock can be set back. Properties: the earliest deadline is covered,
  keys are distinct, due timers are served and none is early, the expiry loop ends.
- *IO events.* Edge-triggered reports are applied late, possibly by several
  pollers; registrations are removed meanwhile. Properties: no edge is lost, each
  registration is handed over once, the pending counter is exact.
- *IOManager as a whole.* `stopping()` combines three values read one after the
  other; a wake-up is written only if some thread is counted as idle. Properties:
  every task, timer and event is served or withdrawn before the destructor returns,
  it does return once no recurring timer is left, no thread sleeps over a task.
- *Fibers.* Contexts are found through thread-local pointers, fibers migrate, and
  `m_state` changes before the context is saved. Properties: `t_fiber` is right,
  every switch goes to a stack's last suspension point, a READY and free fiber can be
  continued.
- *Hook.* The timer of a sleep is armed before the fiber yields, and times go
  through `unsigned int` and `int`. Properties: a sleep ends, by its own timer, and not
  early if the time was a whole number of milliseconds that these integers can hold.

The full list of hazards, each with its line and the properties that cover it, is
in `PROJECT.json`.

## 2. Modules

| module | models | extends / instantiates |
|---|---|---|
| `Scheduler` | scheduler, thread start-up and join, the states of fibers | `INSTANCE TaskPool` (refinement) |
| `TaskPool` | abstract specification: each submitted task is executed once or withdrawn, recurring ones are submitted again, the pool closes empty | |
| `SchedulerInv` | the inductive invariant `IInv` as named parts | `Scheduler` |
| `SchedulerProofs` | theorems and proofs about `Scheduler` | `SchedulerInv`, `TaskListLemmas` |
| `TaskListLemmas` | what `erase` does to the task list | |
| `Timer` | timers, the timer side of `IOManager::idle()` and `tickle()` | |
| `IOEvents` | event table, the event side of `IOManager::idle()`, external epoll | |
| `IOManager` | task list, `run()`, timers, events, `tickle()`, `idle()`, `stopping()`, `stop()` together | `INSTANCE TaskPool` (refinement) |
| `Fiber` | contexts, thread-local pointers, `resume`, `yield`, `reset`, driven by `run()` | |
| `Hook` | `sleep`, `usleep`, `nanosleep` | `Fiber` |
| `MCTimer`, `MCIOEvents`, `MCHook` | symmetry sets and instances for TLC | |
| `TimerProofs`, `IOEventsProofs`, `FiberProofs` | theorems and proofs about the module of that name | the module, TLAPS |
| `IOManagerProofs` | theorems and proofs about `IOManager` | `IOManager`, `TaskListLemmas` |
| `HookProofs` | theorems and proofs about `Hook` | `Hook`, `FiberProofs` |

The inductive invariant of a component is the last section of its module
(`SchedulerInv` for the scheduler), so that its run checks what its proofs use.

### Scheduler

`pc[t]` is where a thread is. The caller goes `init` (constructed) → `start`,
`semwait` (inside `start()`, `m_mutex` held) → `main` → the steps of `run()` if
`UseCaller`, in `stop()` → `swap` → `join` → `stopped` → `destroyed`. A worker goes
`off` → `boot` → the steps of `run()` → `exit`. The steps of `run()`: `fetch` (the
locked scan), `lock` (the fiber's mutex, wanted), `body` (inside the fiber),
`unlock`, `dec` (counter still to be lowered), `idle?` (no task found), `idle`,
`sleep`, `idled` (in the idle fiber, and back from it with the counter still
raised). Every section under `m_mutex` is one action; what the code does outside
the mutex is separate from it.

A job is a `Fiber` of the client or a callback; the callback's fiber is created
when `run()` takes it (`CB` → `RUNNING`). Both may schedule any job, themselves
included, and both may yield without having scheduled themselves, as the code
allows. `tickle()` is empty in this class and has no action. `no` in a task and
`served` are history: they number the calls of `scheduleLock`, so that two posts of
one fiber can be told apart.

`m_useCaller` is assigned nowhere, so a read of it gives a member of
`UseCallerReads`: `{TRUE}` in the run, and see section 3 for `{TRUE, FALSE}`.

### Timer

`m_timers` is a set of timers of which two with one `m_next` cannot both be
members: `Insert` does nothing when the key is taken and `Find` returns whichever
timer has the key. Each locked section is one action; `reset()` is three
(`ResetErase`, `ResetWrite`, `AddTimer`), `addTimer` is constructor, insertion and
wake-up, and others know of the timer only after the insertion; `listExpiredCb()` reads the clock, takes the mutex, and then makes one
step per expired timer with the mutex held, so that its loop can be seen not to
end. A waiter goes `check` (`getNextTimer` in `stopping()`) → `peek` → `sleep` →
`now` → `lock` → `expire` → (`drain`, when the pipe woke it) → `busy` (run() serves
tasks) → `check`. `pipe` says that epoll has an edge of the tickle pipe to report;
one waiter gets it, and emptying the pipe removes it. `addConditionTimer` only
wraps the callback and `hasTimer` changes nothing.

Time is in ticks; `MAX_TIMEOUT` (5000 ms) and the hour of
`detectClockRollover()` become the constants `MaxTimeout` and `RolloverWindow`. The
truncation of the remaining time to milliseconds is below the tick.

### IOEvents

`events[fd]` and `ctx[fd][e]` are the `FdContext`; a registration is numbered by
the `addEvent` that made it, and its number stands for the callback or fiber.
`readyList`, `interest` and `io` model epoll with `EPOLLET`: a change of a
descriptor or an `epoll_ctl` that finds it ready puts it on the ready list,
`epoll_wait` takes descriptors off it and keeps what is still ready, and a poller
applies its batch one descriptor at a time. An error or hang-up stands for every
registered event, as in the code. `!(events)&event` is modelled as C++ parses it
(`NothingToRemove`). The counter is unsigned with width `CountMod`. A failed
`epoll_ctl` leaves everything as it is; it fails only where the descriptor is not
in epoll.

### IOManager

Each piece of work (a task, an entry of the timer set, a registration) has a number,
which it keeps when its callback moves to the list: `m_tasks`, `m_timers`, `events`, in the hands of a thread
(`cbs`, `hand`), in a body (`task`), and in the end in `done`. A thread goes `fetch` →
(`tickle`) → `body` → `fetch`, or `fetch` → `idle?` → the idle fiber: `timers`,
`pending`, `sched` (the three reads of `stopping()`) → `wait` (`epoll_wait`) → `list`
→ `cbs` → `events` (⇄ `count`) → `fetch`. `tickle` is the time between a push, or a
task taken, and the look at `m_idleThreadCount`; `ret` is where it returns to. The
caller goes `main` → `stop` → (`run()`, if `UseCaller`) → `join` → `stopped`.
`m_activeThreadCount` and `m_idleThreadCount` appear as what they count, which is
`CountersExact` of `Scheduler`, proved for the same `run()`. The comparison of the
erased iterator with `end()` (`scheduler.cc` 115) is true for every task taken: an
erased node of a `std::list` is not the end node. Whether a new timer comes first, and
so calls `tickle()`, is left open here; `Timer` decides it. A descriptor has one
event; `IOEvents` has both. `LateWork` says whether bodies add timers and events, or
reset timers, after `stop()` has begun.

A client and a body make every call of the two classes. `AddTimer` inserts a one-shot
or a recurring timer, or nothing: when the deadline is taken, `m_timers.insert` does
nothing, the timer is lost and no piece of work comes of the call. Which deadlines
coincide is decided in `Timer`; here it may happen whenever the set is not empty.
`Refresh` gives the timer a new deadline or, if that one is taken, loses it. `ResetErase`
takes the timer into the hands of `reset()`, with the mutex free, and `ResetInsert` puts
it back or loses it. `cancelEvent()` counts an event off before it posts the callback,
`CancelAll` posts first and `CountOff` follows, as `TriggerEvent` and `CountEvent` of
`idle()` do. `ListExpiredCb` takes out what is due and puts `k` of the recurring timers
back, each as a new entry with a new number; `k` is less than their number when next
deadlines are taken, and not all of the set can vanish that way. `recurring` has the
recurring timers in the set or in `reset()`'s hands. The loop ends here; when it does
not is `ListingEnds` of `Timer`. The number of entries is bounded by `MaxWork`; `Spare`
keeps a number for each recurring timer that is due, so that the bound never stands in
for a failed insert, and a recurring timer for which there is none left stays in the set
and is not due any more.

### Fiber

`stack[t]` is the stack thread `t` really executes on, `t_fiber[t]` what the code
believes. A context is `NULL` once the stack has been executed again after it was
saved, so that a jump through an outdated context is visible. `resume()` and `yield()`
are two steps: the changes to `m_state` and `t_fiber`, then `SwapContext`; the step in
between is where another thread can see a fiber READY whose context is not saved. The
thread's main fiber has the thread's name; on the caller `run()` executes on
`m_schedulerFiber`, which saves into the main fiber's context, and the task fibers
save into its own. The idle fiber is left out: one thread alone ever resumes it.

### Hook

`sleep[f]` goes `no` → `armed` (timer added) → `yielded` → `no`, or `no` → `blocked` →
`no` on a thread without the hook. `TimerMs` is the time the code hands to `addTimer`,
with the wrap of `unsigned int`, the truncation to milliseconds and the narrowing to
`int`. A negative `int` becomes a large `uint64_t m_ms` and, in
`std::chrono::milliseconds`, whose count is a signed 64-bit integer, negative again
(`timer.cc` 74): the deadline is in the past (`IntMs`). `until` is what was asked for,
and `whole` whether that was a whole number of milliseconds within the integers
(`WholeMs`). `MS`, `US`, `UINT`, `INT` stand for 1000, 1000, 2^32 and 2^31.

## 3. Runs

Passing runs:

| run | instance | shows |
|---|---|---|
| `SchedulerPool` | 1 worker and the caller in the pool, 1 fiber, 1 callback, 3 posts, fair | `TypeOK`, `IInv`, `FiberExclusive`, `CountersExact`, `NoAssertFails`, `TaskHasThread`, `StopDrains`, `StoppingStable`, `ImplementsTaskPool`, `EveryPostServed`, `StopReturns` |
| `TimerWakeup` | 2 users, 2 waiters, 2 timers (1 recurring), 1 operation | `TypeOK`, `IInv`, `CoverInv`, `EarliestCovered`, `KeysDistinct`, `NeverEarly` |
| `TimerLiveness` | 1 user, 1 waiter, 2 timers, periods 0, 1 and 2, clock set back once, within the rollover window and beyond it, fair | `DueIsServed`, `ListingEnds` |
| `IOEdges` | 1 client, 2 pollers, 1 descriptor with both events, 1 beyond the table, fair | `TypeOK`, `IInv`, `NoLostEdge`, `RegistrationOnce`, `ReadyIsTriggered` |
| `IOSingle` | 2 clients, 2 pollers, 2 descriptors with one event each | `SingleInv`, `PendingExact`, `NoAssertFails` |
| `IOManagerStop` | 1 worker and the caller, 2 pieces of work, one-shot and recurring timers, none late, fair | `TypeOK`, `WorkInv`, `WorkHasThread`, `ImplementsTaskPool`, `StopReturns` |
| `HookSleep` | 1 hooked worker, the unhooked caller, 2 fibers, calls that keep their time and calls that do not, fair | `HookTypeOK`, `HookInv`, `CurrentFiber`, `NoStaleJump`, `NoAssertFails`, `FreeIsSaved`, `SleepEndsInTime`, `SleepEnds` |

Runs that show a disagreement between the code and what a comment or an assert of the
repository says of it (`PROJECT.json`, "findings", has the quotations):

| run | property | what happens |
|---|---|---|
| `TimerCancel` | `CancelRemoves` | `cancel()` inside the unlocked window of `reset()`: the timer is in the set afterwards |
| `TimerSamePeriod` | `RecurringRejoins` | the second of two recurring timers with one deadline is lost |
| `IOIdleRace` | `NoAssertFails` | a late report for both events meets a context with one left |
| `IOManagerLeave` | `WorkHasThread` | the last thread leaves on an outdated answer of `stopping()`; an event or a timer is never served |
| `IOManagerSleep` | `NoSleepOverTask` | a wake-up is dropped before the thread is counted as idle; it sleeps over a task |

Four properties of passing runs name the case in which the code does not keep what it
promises, and demand it in all others. `ListingEnds` and `DueIsServed` except `Endless`:
`listExpiredCb()` meets a recurring timer whose period is 0, or any recurring timer after
a detected rollover, and goes round for ever with `m_mutex` held; `TimerLiveness` reaches
both. `StopReturns` of `IOManager` excepts a recurring timer that stays for ever: then
`stopping()` is never true. `SleepEndsInTime` demands the full time of `WholeMs` calls and of calls on
threads without the hook; the calls of `HookSleep` include a `sleep` that wraps, a
`usleep` below a millisecond and a `nanosleep` that becomes negative, all of which end
too early.

Further defects, each seen by changing constants or a property of a passing run, or by
reading:

| where | change | what happens |
|---|---|---|
| `scheduler.cc` 168 | `SchedulerPool` with `UseCallerReads = {TRUE, FALSE}` | `m_useCaller` is assigned nowhere; if it reads as false the wrong assert of `stop()` is evaluated (`NoAssertFails`) |
| `timer.cc` 142 | `TimerLiveness` with `ListingEnds` without `Endless` | after a rollover and with a recurring timer `listExpiredCb()` does not end |
| `timer.cc` 150 | the same | a recurring timer of 0 ms keeps the expiry loop busy for ever |
| `timer.cc` 168 | by reading, and in `AddTimer` of both modules | `addTimer()` returns a timer that is not in the set, because another has its deadline; its callback is never called |
| `timer.cc` 39 | `TimerWakeup` with `MaxRollbacks = 1` | `refresh()` after the clock was set back makes a deadline earlier without a wake-up (`EarliestCovered`) |
| `ioscheduler.cc` 157, 202 | `IOSingle` with both events on a descriptor | removing an event that is not there lowers the counter (`PendingExact`) |
| `ioscheduler.cc` 101 | | `addEvent` beyond the table asks for the exclusive lock while its thread holds the shared one; `AddEventGrow` blocks the client for good |
| `ioscheduler.cc` 294 | `IOManagerStop` with `LateWork = TRUE` | a body adds a timer during `stop()` after the last thread has read the timers (`ImplementsTaskPool`) |
| `ioscheduler.cc` 294 | `IOManagerStop` with `w1` in `Pins` | a thread leaves while another one's timer is left, the timer's body pins a task to it, `stop()` hangs (`StopReturns`) |
| `fiber.cc` 126 | `HookSleep` with `EarlyReset = TRUE` | `reset()` before the last switch: the ended stack is saved over the new entry (`FreeIsSaved`) |
| `fiber.cc` 156 | | `resume()` called by a body saves the body over the scheduler's return point; afterwards `t_fiber` is wrong |
| `hook.cc` 83, 97, 109 | `HookSleep` with `SleepEndsInTime` without `whole` | a `usleep` of half a millisecond ends at once, a `sleep` or `nanosleep` whose milliseconds do not fit ends early or at once |

**Bounds.** `MaxPosts = 3` allows a fiber to be listed twice while it runs and a
post by a body during `stop()`; the worker and the caller compete for a fiber and
decide on their own to leave. Larger pools are covered by the proofs. The timer runs
need two timers (equal, earlier and later deadlines), two periods, and `MaxClock = 2`
for a deadline to pass while a waiter sleeps; `MaxTimeout` above that makes every
wake-up that matters come from a deadline or the pipe and not from the periodic
look, so that `DueIsServed` and `EarliestCovered` do not hold by polling alone.
`TimerWakeup` keeps the clock monotonic
(see `refresh()` above). `TimerLiveness` sets it back once, by one tick or by two, with
`RolloverWindow = 1` so that the second is detected, and makes no `refresh()` or
`reset()` (221,425 states). A client's operations
are single steps, so one client makes every interleaving with the pollers that two
could. Three registrations allow an event to be registered again
while a poller still holds the report for the previous one. `CountMod = 16` is
above any count reached, so that a decrement below zero shows as 15. Two pieces of
work in `IOManagerStop` are a timer or event and what its body does during `stop()`,
or two that are handed over by two threads at once, or one recurring timer that expires
once and is put back (102,344 states). A recurring timer that is not put back needs a
third: with `MaxWork = 3` the same safety properties hold (1,411,166 states, too many for a
routine run), and with the caller as the only thread, late work and `MaxWork = 3` all
properties of the run (11,564 states). In `HookSleep` two
fibers and two pool threads let one fiber be taken while it still runs on the other
thread; with `MS = US = 2`, `UINT = 8` and `INT = 4` there are calls within and beyond
the integers of a few ticks, and `MaxNow = 2` is one sleep of the longest kind or two of
the shortest (113,956 states). The
proofs in section 4 have none of these bounds.

**Deadlock.** `SchedulerPool`, `IOManagerStop` and `HookSleep` check for deadlock:
nothing but the destroyed scheduler may stop. The timer and event runs do not, because they end when the
clock and the numbers of operations are used up.

**Fairness.** Scheduler: weak fairness of each thread's steps (the operating system
runs it), of the end of a body's turn (a body that never yields blocks its thread
by design), and of the caller (it does call `stop()`). No strong fairness is
needed for the fiber's mutex because the number of turns is bounded. Timer: weak
fairness of the threads and of time; nobody is obliged to call an operation.
IOEvents: pollers keep polling; the kernel hands out what is on the ready list.
IOManager: each thread goes on, `epoll_wait` returns after `MAX_TIMEOUT` at the
latest, timers expire and awaited descriptors become ready (without the
last one `stop()` waits for ever, by design). Bodies end and the client calls `stop()`
however many calls they make before: `refresh()` and `reset()` can be repeated without
bound, and each is a step away from the place where the body could end, so this is
strong fairness of `BodyEnd` and `StopStep`. Hook: threads go on, bodies yield or
end, an expired timer's callback gets its turn, time passes up to `MaxNow`.

**Assumptions about clients.** `stop()` is called by the thread that constructed
the scheduler, after `start()`, and posts come from that thread before `stop()` or
from running bodies. In `IOManagerStop` bodies add no timer or event, and reset no
timer, once `stop()` has begun, and the caller is in the pool. In `IOManager` a timer's
`cancel()`, `refresh()` and `reset()` are called for a timer that is in the set and not
in the window of another `reset()`; `Timer` has what they do otherwise. Only `run()` and `stop()` call `resume()`;
`reset()` comes after the fiber's last switch; nobody schedules a fiber that sleeps
or is about to. `refresh()` and `reset()` are not called on a timer while a
`reset()` or the `addTimer()` of that same timer is under way: the code would then
write a key of the ordered set without the mutex. `cancel()` may be called at any
time once `addTimer()` has put the timer into the set.

## 4. Proofs

`SchedulerProofs` proves for all finite sets of workers, all sets of fibers and
callbacks, all `MaxPosts`, with the caller in the pool or not
(`SchedulerAssumption` is the only assumption):

| theorem | states |
|---|---|
| `Invariance` | `Spec => []IInv` |
| `TypeCorrect` | `Spec => []TypeOK` |
| `FiberExclusion` | `Spec => []FiberExclusive` |
| `ExactCounters` | `Spec => []CountersExact` |
| `TasksKeepAThread` | `Spec => []TaskHasThread` |
| `StopIsDrained` | `Spec => []StopDrains` |
| `StoppingIsStable` | `Spec => StoppingStable` |
| `AssertsHold` | `UseCallerReads = {TRUE}` implies `Spec => []NoAssertFails` |
| `Refinement` | `Spec => ImplementsTaskPool` |

The argument. `IInv` (module `SchedulerInv`) has one part per idea. `ControlOK`
ties the caller's step to what `start()` and `stop()` have done. `TaskOK`: a thread
has a task exactly in the steps between taking and resetting it. `FiberOK`: a
fiber's mutex is held by the thread in its body or just out of it, and the fiber is
RUNNING exactly in its body; this gives exclusion. `NumbersOK`: each post is at one
place, the list, one thread, or `served`. `CountersExact` is needed with `TaskOK`
to read `m_activeThreadCount = 0` as "no thread has a task". `DrainOK`: an idle
fiber ends only when `stopping()` is true, and then it stays true. That last fact
(`StoppingStep`) is the heart of it: with `m_stopping` set, an empty list and no
thread with a task, nobody is left who could post, so what one thread saw when it
left is still true when the others leave. None of the properties is inductive
alone: `StopDrains` needs `DrainOK`, which needs `CountersExact` and `TaskOK`.
For the refinement each step maps to a step of `TaskPool` (posts to `Submit`,
`FetchTask` to `Begin`, `Dec` to `End`, `StopBegin` to `Shut`, `StopReturn` to
`Close`) or to a stutter; `NumbersOK` makes the hand-overs exact and `GoneDrained`
gives the guard of `Close`.

### Timer

`TimerProofs`, for any users, waiters, timers and bounds (`TimerAssumption`: finitely many
timers, natural numbers for periods and bounds, at least one waiter):

| theorem | states |
|---|---|
| `Invariance`, `TypeCorrect` | `Spec => []IInv`, `Spec => []TypeOK` |
| `KeysStayDistinct` | `Spec => []KeysDistinct` |
| `CoverInvariance` | `MaxRollbacks = 0` implies `Spec => []CoverInv` |
| `NeverSleptOver` | `MaxRollbacks = 0` implies `Spec => []EarliestCovered` |
| `ClockSetBack` | `Spec /\ [][RefreshPostpones]_vars => []EarliestCovered` |
| `CollectedWhenDue` | `MaxRollbacks = 0` implies `Spec => NeverEarly` |
| `CancelIsFinal` | `Spec /\ [][CancelOutsideReset]_vars => []CancelRemoves` |

`KeysDistinct` is not inductive alone: `ResetWrite` changes a deadline outside the
mutex, which is harmless because `CurOK` says that a timer in the hands of `addTimer()`
or `reset()` is not in the set and in nobody else's hands. This rests on the assumption
about clients in section 3. `EarliestCovered` needs two more facts (`CoverInv`).
`NotLate`: no deadline is further away than its period, so that a timer that
`listExpiredCb()` puts back is not before what the others wait for. `TickledOK`: while
`m_tickled` suppresses wake-ups, one is on its way or a waiter is awake and will look
at the set. The hypothesis on the clock is needed: section 3 lists what `refresh()`
does after the clock was set back. `ClockSetBack` says that nothing else goes wrong
then: setting the clock back only lets an `epoll_wait` end early, a new or reset timer
comes with its own wake-up, and `listExpiredCb()` is executed by a waiter that is awake;
so for any number of set-backs the earliest deadline is covered as long as each
`refresh()` that takes effect moves its deadline to a later time or leaves it, which is
what the comment at `timer.cc` 25 says it does. While the clock runs forward this follows
from `NotLate` (`NotLatePostpones`), and that is how `CoverInvariance` uses it.

`CollectedWhenDue` rests on `NotLate` and `NoRollover`: a waiter's `now`, read before it
had the mutex, is not ahead of the clock, and `m_previouseTime`, which another waiter may
have written since, is not ahead either, so that `detectClockRollover()` is not misled.
`CancelIsFinal` is the complement of the run `TimerCancel`: `CancelledOK` says that a
cancelled timer has no callback, which keeps `refresh()` and `reset()` off it, and is in
nobody's hands; only a `cancel()` in the window of `reset()` breaks the latter.

### IOEvents

`IOEventsProofs`, for any clients, pollers, descriptors and numbers of operations:

| theorem | states |
|---|---|
| `Invariance`, `TypeCorrect` | `Spec => []IInv`, `Spec => []TypeOK` |
| `RegistrationsOnce` | `Spec => []RegistrationOnce` |
| `EdgesKept` | `Spec => []NoLostEdge` |
| `SingleInvariance` | `SingleUse` implies `Spec => []SingleInv` |
| `PendingCountExact` | `SingleUse` implies `Spec => []PendingExact` |
| `AssertsHold` | `SingleUse` implies `Spec => []NoAssertFails` |
| `OnePollerCountExact` | `OnePoller` implies `Spec /\ [][Orderly]_vars => []PendingExact` |
| `OnePollerAssertsHold` | `OnePoller` implies `Spec /\ [][Orderly]_vars => []NoAssertFails` |

`TableOK` says that `events`, the filled contexts and epoll's interest list agree and
that no registration is in two contexts; with it `RegistrationOnce` and `NoLostEdge`
are inductive, for descriptors with both events too. `SingleUse` (no descriptor is used
for both events, and fewer registrations than the counter's width) is what the counter
and the asserts need: `IOIdleRace` shows the assert failing without it. `SingleInv` adds
that the reports in the pollers' hands are about events in use, so that a late report
meets the one event it is about or none.

The last two theorems are about descriptors with both events. `OnePoller`: at most one
thread executes `idle()`, and there are fewer registrations than the counter's width.
`Orderly`: clients remove an event only while it is registered (`delEvent` and
`cancelEvent` do not check it for a descriptor that has the other event) and not between
`epoll_wait` and the use of its report, which a body on the thread of `idle()` cannot do
anyway. Then a report in hand is about events that are all still registered
(`ReportsFresh`), so that `idle()` triggers what is there. With a second poller the
invariant fails, which is the run `IOIdleRace`; without the first part of `Orderly` the
counter goes wrong (section 3). `Counted` ties the counter to the number of registered
events; `CountOut` and `CountIn` are the arithmetic modulo the width, for both sets of
theorems.

### Fiber and Hook

`FiberProofs` and `HookProofs`, for any threads, fibers and calls, as long as `reset()`
comes after the fiber's last switch (`EarlyReset = FALSE`):

| theorem | states |
|---|---|
| `FiberProofs!Invariance`, `FiberSafe` | `IInv` and the four properties below, of the fibers without sleeps |
| `SleeperIsAlone` | `HookSpec => []HookInv` |
| `HookTypes` | `HookSpec => []HookTypeOK` |
| `CurrentFiberRight`, `NoStaleJumps`, `FiberAsserts`, `FreeFiberSaved` | `CurrentFiber`, `NoStaleJump`, `NoAssertFails`, `FreeIsSaved` while fibers sleep and are woken |
| `WholeCallsExact` | `WholeMs(c) <=> LongEnough(c)` for every call `c`: `addTimer` is given at least the time asked for by those calls and by no others |
| `SleepsLongEnough` | `HookSpec => SleepEndsInTime` |

The invariant ties together what the code keeps apart: the stack a thread really
executes on, `t_fiber`, the holder of the fiber's mutex and the owner of each context
(`ThreadOK`, `MutexOK`, `CtxOK`), for each step of `resume()` and `yield()`. A fiber
that is READY and not yet saved is in the hands of the thread that holds its mutex;
hence `FreeIsSaved`, and from it that the next `resume()` jumps to the right place.
`HookProofs` reuses the step lemmas of `FiberProofs` and adds `SleepOK`: a fiber with an
armed timer is nobody else's, so that a timer that fires before the yield schedules it
once. Without `EarlyReset = FALSE` the properties fail (section 3). `SleepsLongEnough` has
no condition on the calls: `SleepEndsInTime` itself demands the full time of whole
milliseconds only, and `WholeCallsExact` says that this leaves out no call that could have
it. The invariant behind it is `InTime`: the deadline of a whole call is not before the
time asked for, and once the timer has fired (`ReturnsByTimer`) that time has passed.

### IOManager

`IOManagerProofs`, for any finite set of workers, any pins and any amount of work
(`IOManagerAssumption`):

| theorem | states |
|---|---|
| `Invariance`, `TypeCorrect` | `Spec => []IInv`, `Spec => []TypeOK` |
| `WorkConserved` | `Spec => [](ListedOnce /\ OneBox /\ RecurringOK)` |
| `SoleInvariance` | `Workers = {}` implies `Spec => []SoleOK` |
| `WorkInvariance` | `Drains` implies `Spec => []WorkInv` |
| `WorkKeepsAThread` | `Drains` implies `Spec => []WorkHasThread` |
| `Refinement` | `Drains` implies `Spec => ImplementsTaskPool` |

`Invariance`, `TypeCorrect` and `WorkConserved` hold for all constants, the defective uses included. `CountOK` is what
makes `TypeCorrect` true of the unsigned counter: it is the number of events plus the
threads of `idle()` and `cancelAll()` between a post and its decrement. `OneBox` takes
the places a piece of work can be in as boxes and says that each piece is in exactly one;
every action moves one piece, or a batch of expired timers, from one box to another, and
`listExpiredCb()` puts new entries into the set as well (`RenewalKeeps`). `RecurringOK`: a
recurring timer is in the set or in the hands of `reset()`, so that one whose callback
waits to be executed is not recurring any more.

`SoleOK` is about the default `IOManager(threads = 1, use_caller = true)`
(`ioscheduler.h` 50), whose only thread is the caller: with bodies that add anything at
any time and pin tasks as they like, it never waits in `epoll_wait` and never ends its idle
fiber with a task in the list. The thread that finds the list empty is the only one that
could add to it before it sleeps, so that the wake-up dropped in `IOManagerSleep`, where
`main` schedules and a worker sleeps, has no one to be dropped for.

`Drains == UseCaller /\ (Workers = {} \/ (~LateWork /\ Pins \subseteq {NULL}))` is true of
that default pool, and for a pool with workers has one part for each way
in which the code loses work: the worker that leaves on an outdated answer when the
caller is not in the pool (`IOManagerLeave`), a body that adds a timer or event after
`stop()` has begun, and a task pinned to a thread that has left (both in section 3).
Under it `LeaveOK` is inductive. In the pool of one thread it follows from `SoleOK`:
nobody else can change what that thread has read. With workers, `LeaveOK` says that a
timer, an event and a task each have a thread that does not leave on account of what it
has read before. While timers come and go, that need not always be the same thread, nor
the caller: a recurring timer is put back by the thread in `listExpiredCb()`, and a
`reset()` that began before `stop()` ends by inserting a timer on a body's thread; both go
on to look at the set again (`Adder`, `BusySteps`). Nothing else adds a timer or an
event once `m_stopping` is set (`ClosedStep`). A thread may still leave on a stale answer,
but the one that has made it stale stays. A list that is not empty always has a thread
that will scan it again, because a body that posts is itself in such a thread. That
`reset()` falls under `LateWork` is needed: a body on a thread whose idle fiber has ended
would put a timer back after the others had seen none.

The refinement maps waiting work in all boxes to the pool's submitted tasks and bodies to
its running ones; `OneBox` makes `Begin`, `End` and `Withdraw` exact, an expired batch with
recurring timers is `Renew`, and `LeaveOK` gives the guard of `Close`. What the theorem says
of timers is said of entries of the set: each is executed once or withdrawn, a recurring
one is executed and followed by a new entry unless its next deadline is taken, a timer
that `refresh()` or `reset()` moves to a taken deadline counts as withdrawn, and a call of
`addTimer()` that inserts nothing makes no entry. The pool cannot close while a recurring
entry is pending, which is why `StopReturns` has its exception.

### What stays with TLC

The provers reach neither liveness under fairness nor `ENABLED`: `EveryPostServed`,
`StopReturns`, `DueIsServed`, `ListingEnds`, `ReadyIsTriggered` and `SleepEnds` are
model-checked only. The code violates `RecurringRejoins` and `NoSleepOverTask` (the
latter not with one thread, `SoleInvariance`); for `CancelRemoves`, `WorkHasThread` and
`NoAssertFails` of the events the theorems above give conditions under which they hold.
The conditions that are action formulas (`RefreshPostpones`, `CancelOutsideReset`,
`Orderly`) are about what clients do and are part of the theorems, not of the models: the
runs make every call.

## 5. Not modelled

Stack allocation and the lifetime of fibers, fiber ids (children share the counter's
value, `fiber.cc` 109), fibers resumed by bodies; thread names and ids, failures of
`pthread_create`; `MAX_EVENTS` (256 reports per `epoll_wait`; the models let it return
any part of the ready list); `EINTR`; contents of the tickle pipe; growth of the
descriptor table, which the code cannot reach; `addConditionTimer`, which only wraps
the callback; `hook_init` (function addresses) and the hooked socket, read, write and
control functions, whose bodies are empty; `fd_manager`, which is empty; tests, the
HTTP program `main.cc` and the exercises in `20co` and `epoll`.

## 6. Plan

Done: the scheduler with its abstract specification; timers and events, each with the
part of `idle()` that drives it; their composition `IOManager`; `Fiber` and `Hook`; and
for each of them an inductive invariant and theorems for the safety properties of its
runs, with the conditions under which the properties hold that the code violates in
general. What could be added: the sockets of `hook.cc` and `fd_manager`, once they have
bodies; pools without the caller in which a client adds no timer or event after the
workers' last look (a condition on the order of calls that no client can see to today).
