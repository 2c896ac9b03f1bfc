# Verification of IOmanager_epoll

TLA+ models, model-checking runs and machine-checked proofs for the coroutine
scheduler in this repository: a pool of worker threads that run coroutines
(`ucontext`), an epoll loop that turns fd events and timers into scheduled
work, hooked `sleep`/`usleep`, and a small TCP server on top.

Contents: [the system](#1-the-system) · [modules](#2-modules) ·
[runs](#3-runs) · [fairness](#4-fairness) · [proofs](#5-proofs) ·
[findings](#6-findings) · [observations](#7-other-observations) ·
[not modelled](#8-not-modelled) · [plan](#9-plan)

## 1. The system

| Part | State it keeps | Operations |
|---|---|---|
| `Scheduler` (scheduler.h, scheduler.cpp) | `m_fibers` under `m_mutex`; thread-local `t_scheduler`, `t_scheduler_fiber`, `now_fd` | `schedule`, `run` (the loop of every worker), `start`, `stop` |
| `Fiber` (fiber.h, fiber.cpp) | `m_state`, `m_ctx` with `uc_link`, `m_cb`; thread-local `t_fiber` | `swapIn`, `swapOut`, `reset`, `MainFunc`, `YieldToReady`, `YieldToHold` |
| Hooks (hook.cpp) | thread-local `t_hook_enable` | `sleep`, `usleep`: add a timer that reschedules the coroutine, then yield |
| `TimerManager` (timer.h, timer.cpp) | `m_timers` ordered by `m_next`, `m_tickled`, a read-write lock | `addTimer`, `getNextTimer`, `listExpiredCb` |
| `IOManager` (IOmanager.h, IOmanager.cpp) | `m_fdContexts` under `m_rw_mutex`; for each fd a mutex, the event mask and two `EventContext`s; `m_pendingEventCount`; the epoll tree; the tickle pipe | `addEvent`, `delEvent`, `contextResize`, `tickle`, `idle` |
| `Socket` (Socket.cpp, main.cpp) | `now_Socket`, `m_listenfd`, the user's callbacks | constructor, `Setthis`, `Accept`, `s_rd_cb`, `Revmsg`, `delEvent` |
| Locks (mutex.h) | `RWMutex`, `Mutex`, `Spinlock`, `Semaphore` | lock and unlock, not scoped |
| `Logger` (log.h, log.cpp) | a logger's level and appenders; each appender's mutex and output; the formatter's `m_items` | `Logger::log` and its five front ends, the appenders' `log`, `LogFormatter::init` and `format` |
| Load generator (10.client/client.cpp) | `n_count`, `ERR`, `time_usr` under a mutex | `tfn` in `C` threads; `main`, `get_time`, `QPS`, `Percent` |
| `Thread`, utilities | see section 8 | |

How they interact:

* **Workers and the list.** Each worker scans `m_fibers` for the first entry
  meant for it whose Fiber is not executing, switches into it, and decides from
  `m_state` after the switch whether to reschedule it, drop it, or hold it.
  With nothing to take it calls `idle()`.
* **`idle()`** asks `getNextTimer` for a timeout, blocks in `epoll_wait`,
  schedules the callbacks of `listExpiredCb`, and then, for each reported
  event, looks at the FdContext under its mutex and schedules its callback or
  fiber. One call of `idle()` serves one return of `epoll_wait`.
* **Sleeping coroutines** register their own wake-up (a timer whose callback is
  `schedule(fiber, -1)`) before they switch out.
* **`addTimer`** tickles the pipe when the new timer became the first one, so
  that a worker blocked in `epoll_wait` computes a new timeout. **`schedule()`**
  tickles when the list was empty. The pipe is watched edge-triggered; its write
  end blocks.
* **The server** watches the listening socket with `Accept`, each connection
  with `s_rd_cb`, which finds its descriptor in the thread-local `now_fd`.
* **Any thread** may log: the logger calls its appenders one after the other,
  each locks its own mutex, and two loggers may have appenders on one output.
* **The load generator** is a separate process and the server's client.

What makes this hard: the Fiber's state and context are protected by no lock;
wake-ups race with the switch-out; several early returns leave a lock held;
events reported by `epoll_wait` are dispatched after other threads went on;
descriptor numbers are reused; a check under a read lock is used under a write
lock; wake-ups go through a bounded pipe that only idle workers read. What
should hold in spite of this:

* Scheduler and Fiber: one stack, one worker; a callback is entered once; no
  coroutine is lost; a finished one stays out; list entries are served.
* TimerManager: the lock excludes writers; no timer is lost or fires twice;
  a blocked worker wakes for the first timer; every timer fires.
* Wake-up: no work waits for a wake-up nobody sends; every entry and every
  expired timer gets a worker.
* FdEvents: epoll, the mask and the EventContexts agree; the assertions of
  `addEvent` hold.
* Table: an index in range, one FdContext for each descriptor in use, calls
  that end.
* Server: it goes on listening; no callback blocks its worker; a callback works
  on the connection that started it; accepted connections are answered and
  closed.
* Logger: whole lines, one for each wanted event on each output, in order; calls
  return.
* Load generator: about `N` requests, percentiles over nearly all samples, the
  right rate, an end.

## 2. Modules

| Module | Models | Notes |
|---|---|---|
| `Scheduler` | scheduler.h `schedule`, `scheduleNoLock`; `Scheduler::run`; `Fiber` switches; what the hooks do to a coroutine | one action per access another thread can see |
| `SchedulerInv` | | the inductive invariant `IInv` |
| `CoroutinePool` | | abstract specification: coroutines are new, submitted, running, ready, parked or done |
| `SchedulerPool` | | refinement mapping from `Scheduler` to `CoroutinePool` |
| `RWLock` | mutex.h `RWMutex` with glibc's behaviour for a thread that locks twice or unlocks nothing | used by `TimerManager` and `ContextTable` |
| `TimerManager` | timer.cpp, and `IOManager::idle` as far as it drives timers | `TInv` is its inductive invariant |
| `FdEvents` | `addEvent`, `delEvent`, `triggerEvent`, the dispatch loop of `idle()` | critical sections of `FdContext::mutex` are one step |
| `ContextTable` | the look-up and `contextResize` under `m_rw_mutex` | uses `RWLock` |
| `Wakeup` | `schedule`, `tickle`, the pipe, the scan of `run` and `idle()` with its timeout | a job's run and its context switch are one step |
| `Logger` | log.h, log.cpp | writes to an output are steps |
| `LoadGenerator` | client.cpp | of the samples only their number |
| `SocketServer` | Socket.cpp, `rd_cb` of main.cpp, clients as in client.cpp | composes the actions of `FdEvents` |
| `SocketServerInv` | | the server's inductive invariants, which `ServerProofs` proves |
| `LoggerInv` | | the logger's inductive invariant, which `LoggerProofs` proves |
| `SchedulerProofs`, `TimerProofs`, `FdProofs`, `TableProofs`, `WakeupProofs`, `LoadProofs`, `ServerProofs`, `LoggerProofs` | | theorems |
| `MCScheduler`, `MCTimerManager`, `MCFdEvents`, `MCContextTable`, `MCSocketServer`, `MCWakeup`, `MCLoadGenerator`, `MCLogger` | | instances for TLC |

Operators whose comment begins with "Slip" (`PushFront`, `CollectNone`,
`AddMaskOnlyNew`, ...) are deliberate errors. The specifications do not use
them; each stands next to the definition it would replace and is there to show
that a property notices such a mistake.

### Scheduler

A *fiber* is one coroutine: the Fiber given to `schedule()`, or the one the
loop builds around a callback (`Wrap`). The list is a sequence of entries
(fiber, callback or not, thread). A worker's position `pc` follows
`Scheduler::run`: `Pick` is the scan under `m_mutex` (an entry for another
thread or with an executing Fiber is skipped), `Resume` and `Wrap` are the two
ways into `swapIn`, `After` reads `m_state` when the switch returned, `Requeue`
and `Hold` are what it decides. Inside a coroutine, `YieldToReady`, `ArmWake` +
`YieldToHold`, `Finish`, `Throw` write `m_state`; `SwapOut` and `Return` are
the actual switch, a step later, because another worker can run in between.
`Finish` includes the `reset()` at the end of `MainFunc`, which makes the Fiber
`INIT` and links it to the loop of the current worker.

`Schedule` appends under `m_mutex` and, if the list was empty, tickles. The write
of the tickle may block, and then the worker stays `blocked` until `Tickled`,
which no fairness promises: module `Wakeup` shows that the pipe may really fill
up. A worker wakes sleepers (`Wake`) in `idle()` or in a coroutine, and nothing
holds a wake-up back: it may come while its coroutine is still on its stack, or
between `SwapOut` and the loop's decision.

`m_threads` are the workers that were started, any number of them. The code is
safe against an early wake-up only when the worker that would act on it is the
one it overtakes. So `SharedSleep` says whether a coroutine may sleep in a
scheduler with several workers. If it may, two workers meet on one stack (run
`sched_race`); if coroutines sleep only where there is one worker, and otherwise
yield, migrate, return and throw, everything holds. This is a restriction on the
program that uses the library, not on the order of events.

### TimerManager

Time is relative: `left[x]` is `m_next` minus the clock, `Tick` lowers it for
all timers. `age` is how old the `now_ms` of a `listExpiredCb` is. Each lock
operation is a step. `NoTimer` and `NothingSet` are the two returns that keep
the read lock (`Abandon`); `Collect` is the end of `listExpiredCb`, which keeps
the *write* lock. The next `getNextTimer` of the same worker then fails to take
the read lock (EDEADLK), reads as the only thread inside, and its `unlock()`
releases the write lock. Why the timers work nevertheless is the content of
`WriteExclusive`, `LeakIsFinal` and `InsertedFires`.

`getNextTimer` reads `m_next` through a reference after it unlocked. `dangling`
are the workers whose node has been erased, or moved by a recurring timer's new
expiry, since then; `DerefDangling` lets the access crash, or return anything,
also a value that means "no limit" (`Forever`).

`TimeoutFor` has the casts of `idle()`: `(int)next_timeout` is taken before the
comparison with `MAX_TIMEOUT` and again for `epoll_wait`, of `Width` values. A
timer of `Width / 2` ms or more (2^31) may come out negative, and the worker waits
without limit (`Unlimited`). `FrontCovered` says that the timers get their worker
all the same, except those at or behind one so far away (`BehindFar`).

### Wakeup

The list of `<<job, thread>>` entries, the number of unread bytes in the pipe
and whether epoll has an unreported edge for it. `Schedule` is the append under
`m_mutex`, `Tickle` the `write` after it, which waits while the pipe is full.
A worker's round is `Pick`, then `Yield` or `Leave`, or, if the list has nothing
for it, `Idle` (the timeout), `Awake` (`epoll_wait`), `Expired`, `EventLoop`.
`getNextTimer` may return any of `NextTimers`; `Timeout` is the arithmetic of
`idle()` with the cast to `int`, of `Width` values. A `Yielder` may call
`YieldToReady` without end, and a recurring timer comes round (`TimerDue`)
whatever has become of its last callback.

### FdEvents

`interest` and `ready` are epoll's side, `events` and `ctx` the FdContext's.
`EpollWait` moves all edges into the batch of a worker; `Dispatch` handles one
of them, possibly after the descriptor was deleted, closed and reopened. The
`continue` of IOmanager.cpp:292 and the failing returns of `delEvent` leave the
FdContext's mutex locked: the descriptor joins `stuck`. Clients follow the
repository's README (item two): they add an event they do not have, delete one
they have, and delete before they close. `owned` is history for these rules. A
thread outside the pool has a scheduler only after `SetThis` (`t_scheduler`), and
`AddEvent` asserts that its caller has one; that such a thread calls `setThis`
first, as Socket.cpp:42 does, is one more rule.
`Edge`, `Quiet`, `Open` and `CtlOk` are the kernel.

### ContextTable

The look-up of `addEvent` and `delEvent`, step by step, over `RWLock`. The
FdContexts of a descriptor are numbered, so that a context that was dropped and
built again is told apart from the one epoll still points to. `shrunk` is
history: the table became smaller once.

### Logger

A thread logs an event: `Log` is the level test, then for each appender of the
logger `Lock`, `Format` once or several times, `Unlock`. `std::cout` receives
each item of the line as a write of its own, a file what has been formatted up
to the next `endl` or `close()`. `Stripped` and `m_items` are the two loops of
`LogFormatter::init`, `Kept` the places of the pattern the first one lets through.
Each `LoggerManager` has appenders, and mutexes, of its
own. `logged` is history.

### LoadGenerator

`Check` and `CountAnswer` (or `CountRefused`) are the two critical sections of
`tfn`; `Check` keeps the mutex when it leaves the loop. `Poll` is main's busy
loop without the mutex, `Size` the only look at the number of samples before
they are sorted and printed (`Percent`). `Written` and `Read` are what
`get_time` writes and `QPS` reads back of a clock reading.

### SocketServer

The main thread runs the constructor: it opens the listening socket, creates the
workers (`CreateIOManager`), calls `setThis` (`Bind`), watches the socket
(`WatchListen`, `Watch`), and then `Setthis` publishes it. A worker that finds the
work list empty goes to wait (`Idle`); what has been listed by the time
`epoll_wait` returns makes no difference (`Report`, `ReportNothing`). `Schedule`
dispatches an event of its batch, and `Take` starts a callback. Each server action
contains an action of `FdEvents`. `KeepsTheRules` is the refinement: a behaviour of
the server is one of `FdEvents`, so its client rules are not an assumption here
but a result. A descriptor is identified with the connection behind it (`peer`);
`for` is the connection whose edge started the callback.

A client connects, sends a request, waits for the reply and closes, like `tfn`
of client.cpp. It may hang up at any stage, because its process ends
(client.cpp:187) or its connection is reset; a server's reply to a client that
has closed resets the connection, and a reply to one that is reset may end the
server by SIGPIPE (`fate = "signal"`). `Read` has all its outcomes: a request, end
of file, and an error after which nothing is deleted or closed.

The code is not made for a client that hangs up between its request and the
reply: the request and the end of the connection are two edges, which can become
two callbacks of one descriptor. So `NeverBlocks`, `RightConnection`,
`DispatchesFresh`, `KeepsTheRules` and `AcceptedAreServed` are about behaviours in
which no client has done so yet (`Patient`); clients that hang up before they send
anything or when they have been answered are included, in any number and at any
time. Section 7 says what happens otherwise. `ListenSurvives` has no such
premise, in the run and in the theorem: whatever the clients do, the server goes
on listening.

A worker that has replied calls the hooked `sleep(1)` and never comes back:
`idle()` left the read lock of the timers behind when it found no timer
(run `timer_sleep` shows it), so `addTimer` waits for the
write lock for ever. `Reply` therefore ends in `asleep`, and `AcceptedAreServed`
promises something only while there is a worker left.

## 3. Runs

A violation run shows the finding of section 6 with the same name.

| Run | Instance | Checks |
|---|---|---|
| `sched_workers` | 1 or 2 workers, 2 coroutines that may yield, and with 1 worker sleep, for ever (one may throw), wake-ups at any time, blocking tickles, fair; 30 thousand states | the safety properties of the scheduler, `IInv`, `PoolSpec` (refinement of `CoroutinePool`), `NoStarvation` |
| `sched_race` | 2 workers, 1 coroutine that sleeps | violation of `StackExclusive` |
| `timer_shared` | 2 workers, 1 caller, a one-shot and a recurring timer, near or too far for an `int`, fair; 390 thousand states | lock, set and `m_tickled` invariants, `TInv`, `FrontCovered`, `InsertedFires` |
| `timer_sleep` | 1 worker, 1 timer, fair | violation of `SleepEnds` |
| `fd_two` | 2 workers, 1 other thread, 1 descriptor that is reused, callbacks and fibers; 160 thousand states | mask, contexts, epoll and assertions; `FdInv` |
| `fd_reuse` | 2 workers | violation of `Reusable` |
| `table_grow` | 2 threads that both enlarge the table, 4 descriptors, first size 3, fair; 120 thousand states | `InRange`, `OneContext`, `TableInv`, `CallsEnd` |
| `server_echo` | 2 workers, 2 clients that may hang up at any stage, 2 connection descriptors, fair; 300 thousand states | `NeverBlocks`, `RightConnection`, `DispatchesFresh`, `ListenSurvives`, `KeepsTheRules`, `AcceptedAreServed` |
| `wake_up` | 2 workers, 1 caller, 3 jobs (one yields for ever, one is a recurring timer's), entries for any thread and for one, fair; 99 thousand states | `NoLostWakeup`, `Served` |
| `wake_pipe` | 1 worker, 1 job that yields, fair | violation of `YieldedRunsAgain` |
| `load_generator` | 3 threads, 4 requests, 4 clock readings, fair; 18 thousand states | `AtMost`, `FewLateAnswers`, `SomethingToPrint`, `RateIsRight`, `LoadInv`, `MainEnds` |
| `logger_lines` | 2 threads, 2 loggers with both outputs in common, 4 events, fair; 110 thousand states | `LinesStayWhole`, `Delivered`, `CallsReturn` |

Bounds, and why they are enough:

* *Workers.* Two: the races here are between a thread in the middle of an
  operation and one other. The safety results hold for any number by proof.
* *Coroutines.* Two of them on two workers give every pair of a running, a
  queued and a finishing one, on one worker of a running, a queued and a sleeping
  one. A coroutine may yield and sleep without limit; there is no bound on the
  length of a behaviour.
* *Timers.* `MaxDelay` 2 bounds the `ms` argument, `MaxTimeout` 1 stands for
  `MAX_TIMEOUT`, `MaxLag` 1 for how late an instant can be told apart. A timer can be
  due at once, at the next tick, or overdue, and a new timer can become the first
  or not; a recurring timer re-enters the set. `Width` 4 (2^32) makes a delay of 2
  too far away for an `int`.
* *Descriptors.* One is enough for `fd_two`, where number reuse is the hazard
  (FdContexts are independent of each other). The server has two besides the
  listening one, so that the number of a closed connection meets a live one.
* *Server.* Two workers and two clients: both callbacks of one descriptor and
  the accept of the other connection meet. With three workers and patient clients
  the invariants hold, too (470 thousand states); the theorems are for any number.
* *`Word`* (8 for 2^64) is where `m_pendingEventCount` wraps.
* *Table.* Descriptors 2, 3, 5, 8 over a first size of 3 allow several
  enlargements (4, 7, 12) in both orders; `MaxBuilt` = 2 bounds the number of
  FdContexts of a descriptor, and only a table that has shrunk builds a second.
* *Pipe.* `PipeSize` 3 (65536 on Linux) is enough to have tickles from the
  caller, from a yield and from `idle()` in it at once; it does fill up in
  `wake_up`, and `Served` is about the behaviours in which it does not. In
  `wake_pipe` 2 is the number of yields it takes.
* *Timeouts.* `Width` 8 (2^32) with `MaxTimeout` 1 (100): of `NextTimers` 0 is a
  timer that is due, 2 one beyond `MAX_TIMEOUT`, 9 one whose low bits look like a
  short timeout.
* *Load generator.* Three threads can be in the three critical sections at once;
  four requests let a thread finish, fail and retry. The clock readings have
  milliseconds of one, two and three digits and lie on both sides of midnight.
* *Logger.* The pattern is short (a literal, the message, the new line): the
  items differ in nothing but in being a new line or not. The four events are
  above, at and below their loggers' levels.
* *Clients.* Two connections may share one edge of the listening socket.

Deadlock is checked except where the modelled system really stops: after an
escaped exception or a null scheduler ended the process, when a lock was left
behind (table), when the pipe is full and everyone waits for it, and when the
clients of the server, the load generator or the logging threads have come to
their end.

## 4. Fairness

* *Workers* (`Scheduler`, `TimerManager`, `SocketServer`): weak fairness of a
  worker's next step, that is the kernel runs every thread. Each scheduler step
  is enabled until it is taken, so nothing stronger is needed. It includes that
  a callback does not compute for ever between two yields. It does not include a
  worker inside a tickle, whose write may block for ever: `NoStarvation` says in so
  many words that no worker stays in one. Nothing is assumed about wake-ups.
* *`idle()`* (`TimerManager`): no fairness brings a worker from its work to
  `idle()` (scheduler.cpp:171) or a byte into the pipe. `InsertedFires` and
  `SleepEnds` say it as a premise, `Prompt`: every worker runs out of work again and
  again and no write waits for ever. Coroutines that keep yielding break it if
  there are as many as workers: `Served` of `Wakeup` makes that precise.
* *Time* passes (`Tick`). No fd event is assumed to arrive.
* *Wake-up* (`Wakeup`): weak fairness of a worker's round and of each `Tickle`:
  a job gives up its worker some day, `epoll_wait` returns when its time limit is
  over, a write to a pipe that stays writable gets through. A worker whose
  `epoll_wait` has no time limit needs the pipe.
* *Load generator*: weak fairness of main and of each thread, so `connect` and
  `read` come back. The mutex is not assumed to be fair in any other way.
* *Logger*: weak fairness of each thread. With finitely many events nobody is
  overtaken for ever.
* *Write lock* (`ContextTable`): strong fairness of `WriteLock`, a writer gets
  its turn among readers that come and go. glibc's default prefers readers, so
  this is an assumption about load.
* *Clients* (`SocketServer`): a connected client sends and, once answered,
  closes, as client.cpp does, unless it hangs up. Nothing is assumed about
  connecting, and nobody has to hang up.

## 5. Proofs

All theorems are checked by TLAPS for arbitrary constants that satisfy the
named assumptions (`ThreadAssumption`, `FiberAssumption`, `TimerAssumption`,
`FdAssumption`, `TableAssumption`, `WakeupAssumption`, `LoadAssumption`,
`ServerAssumption`, `LoggerAssumption`). These only say that special values
differ from ordinary ones, that numbers are numbers, for the server that there
are finitely many workers, and for the logger that no `LoggerManager` names a
file twice (the code does not check it; such a file would get every line twice,
from two appenders with a mutex each). TLC evaluates them in the runs.

| Module | Theorems | Argument |
|---|---|---|
| `SchedulerProofs` | `Invariance` (`IInv`), and from it `TypeCorrect`, `StackIsExclusive`, `RunsOnce`, `NobodyLost`, `AssertionsHold`, `AlwaysReturnsHome`, `NeverReuses`, `FinishedIsFinal`, `FirstRunIsWhereWanted`; `ImplementsPool` | invariant and step simulation, under `~SharedSleep` |
| `TimerProofs` | `TimerInvariance` (`TInv`), `WritersExclude`, `LeaksAreFinal`, `TimersHaveOnePlace`; `CoverInvariance` (`CoverInv`), `FirstTimerIsCovered` | for any delays, timers of 2^31 ms or more excepted |
| `FdProofs` | `FdInvariance` (`FdInv`), `EpollKnowsTheMask`, `MaskMatchesContexts`, `AddNeverAsserts` | for clients that follow the rules |
| `ServerProofs` | `ServerInvariance` (`ServerInv`), `ServerKeepsTheRules`, `ServerDispatchesFresh`, `ServerNeverBlocks`, `ServerServesTheRightOne`; `ServerListens` | invariant and step simulation, as long as no client hangs up on its request; `ServerListens` whatever the clients do |
| `TableProofs` | `TableInvariance` (`TableInv`), `NeverBeyondTheEnd`, `OneContextUntilShrunk` | |
| `WakeupProofs` | `WakeupTypes`, `NoWakeupIsLost` | |
| `LoadProofs` | `LoadInvariance` (`LoadInv`), `NotTooMany`, `FewAreLate`, `PercentHasSamples`, `RateFromClock` | |
| `LoggerProofs` | `LoggerInvariance` (`LInv`), `LinesAreWhole`, `EventsAreDelivered` | for loggers whose outputs differ |

* **`IInv`.** `StackExclusive` is not inductive: it says nothing about a
  coroutine that is both queued and being left. `IInv` gives each coroutine one
  place (list, one worker's hands, armed, done, not submitted), and for each
  place what `m_state`, `m_ctx`, `begun` and `uc_link` are. The one overlap is a
  coroutine whose wake-up is registered (`armed`) while its worker is still at
  `arm`, `yield`, `after` or `hold`. If that worker is the only one no wake-up
  comes meanwhile, since it would have to deliver it itself; with a second one it
  may come at any of these places, also between the switch and the loop's
  decision on `m_state`. Hence the hypothesis `~SharedSleep` of each theorem:
  coroutines sleep only where there is one worker. It is the negation of what
  `sched_race` exploits, and the actions have no guard in its stead.
* **`ImplementsPool`.** The pool's status of a coroutine is computed from its
  place. Taking an entry (`Pick`) is the pool's `Start` or `Continue`;
  `Requeue`, `Hold` and `Finish` are its `Leave` to ready, parked and done; the
  steps of the context switch in between stutter.
* **`TInv`.** `LockInv`: a thread in a writing section holds the write lock,
  and a leaked read lock implies that nobody writes and the set is empty.
  `AddInv`: a timer under construction belongs to one thread. Together with
  `OnePlace` they are inductive.
* **`FdInv`.** Adds `Owned` (what epoll watches is what a client owns or is
  about to delete), `CallsApart` (no two calls are about one event, and who adds one
  has a scheduler) and `ClosedIsForgotten` to the three properties it proves.
* **`ServerInv`** (module `SocketServerInv`) is `FdInv`, `SocketInv`, `Bound`
  (the main thread has a scheduler before it watches) and `Patient`. Patience,
  once lost, does not come back (`PatientBefore`), so the theorem is
  `[](ClientsOK /\ (Patient => ServerInv))`. `NeverBlocks` alone is far from
  inductive: an edge is reported, copied into a batch, becomes an entry of the work
  list and then a callback, and other workers go on all the while. The core is
  `OneJob`: for a connection's descriptor there is at any time one unreported edge,
  one worker with it in its batch, one entry or one worker in its callback or
  setting it up, and never two of these. It does not matter when `epoll_wait`
  returns or what is listed then: only a client's step, or watching a connection
  that is already waiting, makes an edge, and of the two things a client may do,
  send and hang up, a patient one does the second when nothing is left of the
  first. `EdgesFit` and `WorkFits` add what the holder may rely on: the event is
  still owned, there is something to read, and the connection is the one of the
  edge. For the listening descriptor there may be many edges, batches and accepts at
  once; `EnoughToAccept` bounds their number by the length of the backlog.
  `Schedule`, `Take` and `Accept` move one of them on, `Connect` adds at most one
  together with a connection to accept.
* **`ServerKeepsTheRules`.** From a `ServerInv` state each action of the server
  that ends in a patient one is an action of `FdEvents` (`KeepsToTheRules`): `Report` and `Schedule` are the
  worker's `EpollWait` and `Dispatch`, `Watch` and `Delete` the critical sections,
  and the guards `FdEvents` puts on its clients' calls, which Socket does not
  check (`WatchConn`, `CallDelete`, `CloseConn`), follow from `WorkFits` and
  `OneJob`. So `FdInv` is kept by `FdStep`, proved once in `FdProofs`, and
  `FdProofs`' theorems hold for the server while its clients are patient.
* **`ListenInv`** has no premise about clients. A dispatch may leave a mutex
  locked, a delete fail, a callback run for a descriptor that has become another
  connection's; what it says is that all this stays with the connections'
  descriptors. A worker between `watch` and `close` works on another descriptor
  than the listening one (`ListenAlone`), which is watched once, by a thread with
  a scheduler and before anybody connects (`ListenWatched`, `Bound`); what epoll
  reports for it is its one event and so never stale (`ListenEdges`);
  `EnoughToAccept` does the rest. Most steps leave all of this as it is
  (`Elsewhere`, `OtherDescriptor`).
* **`TableInv`.** Resizing is always for a descriptor of at least 2, so
  `1.5 * fd` exceeds it; every slot is filled; and until the table shrinks the
  FdContext in the table is the first and only one.
* **`CoverInv`.** `FrontCovered` speaks of the moment when all workers are in
  `epoll_wait`. The invariant says for every registered timer who takes care of
  it before that: a tickle (in the pipe or about to be written), a worker that
  has not called `getNextTimer` yet, one that holds a reference to a timer no
  later, or one whose timeout is short enough (`Covered`), unless it comes no
  earlier than a timer of 2^31 ms or more (`BehindFar`), which nobody takes care of. `Noticed` is what
  `m_tickled` stands for: while it is set, a tickle is on its way or a worker is
  going to look, and looking resets it. The delicate steps are `Collect`, which
  makes references dangle, so that their holders may crash or wait without limit,
  but leaves its own worker about to look, and `Insert`
  without a tickle: either the new timer is not the first, and whoever covers an
  earlier one covers it, or `m_tickled` is set and `Noticed` applies.
* **`NoLostWakeup`** is inductive given the types: the step that makes the list
  non-empty leaves its thread about to tickle; the byte, once written, makes the
  pipe ready until a worker takes the edge; that worker does not wait again
  without having looked at the list.
* **`LoadInv`** ties the counter to the samples, the refusals and the requests in
  flight, whose number is a cardinality: a thread that moves on either joins or
  leaves the set (`InFlightMoves`) or stays (`InFlightStays`).
* **`RateFromClock`** needs no induction over the digits: a reading below 10 ms
  comes back as 10 times the digit minus 48, any other one as it was
  (`ReadsBack`), and the rest is arithmetic modulo a day.
* **`LInv`** (module `LoggerInv`). `LinesStayWhole` says nothing about a line that
  is still being written. `Progress` says how much of an event's line stands on
  each output, from where its call has got to: all of it at the appenders already
  passed, `item` at the current one, nothing at those to come; `Written` that
  exactly so many items are there, in order (`OfLine`). `LastWritten` is the heart:
  while a thread holds an appender's mutex, what it has begun there is the last
  thing its logger wrote to that output. A write puts its items at the end
  (`Elsewhere`), so it extends its own line (`LineGrows`) and touches no other
  (`LineStays`); another thread that holds a mutex for the same output belongs to
  another logger (`OneWriter`), because a logger's appenders have different outputs
  (`AppendersDiffer`). No induction over the pattern is needed: the proof uses of
  `m_items` only that it is a sequence, which holds because `Stripped` counts
  (`Kept`) instead of looping.

Model-checked only: liveness (`NoStarvation`, `InsertedFires`, `CallsEnd`,
`AcceptedAreServed`, `Served`, `MainEnds`, `CallsReturn`), which TLAPS cannot
treat here. Every invariant and action property of a passing run has its
theorem. `TypeCorrect`, `AlwaysReturnsHome`, `NeverReuses`, `CoverInvariance`,
`WakeupTypes`, `ServerInvariance` and `LoggerInvariance` are proved without a run
of their own; `IInv` implies the first three.

## 6. Findings

* `sched_race`: `YieldToHold` writes `HOLD`, and `sleep` registers its wake-up,
  before `swapcontext` saved the stack. A second worker may enter the coroutine
  while the first is still on its stack; the assertion in `swapIn` looks at
  `m_state` and does not notice.
* `timer_sleep`: `getNextTimer` and `listExpiredCb` return without unlocking
  when there is no timer. A worker that was idle once without timers makes every
  later `addTimer`, and so every hooked `sleep`, wait for ever.
* `fd_reuse`: a stale event of a deleted descriptor meets the `continue` of
  IOmanager.cpp:292 with the FdContext's mutex locked; the number cannot be used
  again.
* `wake_pipe`: `schedule()` writes a byte whenever the list was empty, and only
  `idle()` reads the pipe. A worker that always finds something to take never
  calls it: a coroutine that yields often enough fills the pipe, and its worker
  blocks in `write()` inside `schedule()`. It takes one worker, or several that
  are busy or blocked.

## 7. Other observations

Met while modelling, and not the subject of a run:

* The thread argument of `schedule()` decides where a coroutine *starts*
  (`EnteredWhereWanted`). After its first yield or sleep it is rescheduled with
  -1 and may go on anywhere.
* `MainFunc` ends with `reset()`, so a finished Fiber is `INIT`, never `TERM`.
  The loop's branch for `TERM` and `EXCEPT` (scheduler.cpp:159), which would
  reuse the Fiber and its stack, is dead (`AfterState`).
* `m_pendingEventCount` is decremented at each trigger and again by `delEvent`,
  and wraps below zero. Only the unused `stopping(uint64_t&)` reads it.
* An event reported together with another one before it was deleted is
  triggered although its scheduler pointer is null (`fate = "null"`, reached by
  `fd_two`). `DispatchesFresh` excludes it for the server while its clients are
  patient.
* `getNextTimer` keeps a reference into the set, unlocks, and reads through it;
  another worker's `listExpiredCb` may have erased the node (`dangling`). The read
  may end the process or give any number. If it does not end the process that other
  worker looks at the timers itself, which is why `FrontCovered` holds.
* The table's size is checked under the read lock and the table resized under
  the write lock without looking again: of two threads that found it too small
  the one with the lower descriptor may come second and makes it smaller
  (`shrunk`), dropping FdContexts that epoll still points to.
* `Accept` accepts once for each edge. Two connections in one edge leave the
  second waiting for a third. `AcceptedAreServed` is about accepted ones.
* A connection before `Setthis` makes `Accept` use a null `now_Socket`.
* `delEvent` of a descriptor beyond the table keeps the read lock. Clients that
  delete what they added get there only after the table shrank (`OneContext`).
* A timer that is 2^31 ms or more away may make `epoll_wait` wait without a limit
  (`(int)next_timeout`). That worker learns of entries for itself only by the pipe,
  and of that timer and those after it not at all; `FrontCovered` and
  `InsertedFires` except them.
* A client that hangs up between its request and the reply gives the server two
  edges, and perhaps two callbacks of one descriptor. Without `Patient`, TLC finds
  `RightConnection`, `KeepsTheRules` and `AcceptedAreServed` violated with two workers
  and two clients: the slower callback deletes and closes a descriptor that already
  belongs to the next connection, or gets an error and never closes it
  (Socket.cpp:97). With three workers and one client also `NeverBlocks` (a read of a
  descriptor that is closed) and `DispatchesFresh` (the second edge is dispatched
  after the delete, IOmanager.cpp:292) fail.
* `addEvent` aborts in a thread without a scheduler (IOmanager.cpp:150). A
  thread outside the pool has to call `setThis` first, which only Socket.cpp:42
  shows.
* Entries for a particular thread may use up the tickle of entries behind them:
  `NoLostWakeup` is about lists without such entries. `MAX_TIMEOUT`, 100 ms, is
  what `Served` rests on then.
* The loggers: `ZYX_LOG_FATAL` calls `error()` (log.h:81), so a logger whose
  level is FATAL drops what it logs; `ZYX_LOG_WARN` names a macro that does not
  exist (log.h:58); in a pattern a letter of `mark` is replaced whether or not a
  `%` stands before it, and `%%` keeps one `%` and reads the second as a new
  mark. Two loggers on `std::cout` interleave inside a line. `localtime` returns
  a buffer all threads share. The macros use `Thread::GetThis()`, which is null
  in a thread the library did not create.
* The load generator: if all threads fail to connect before `N` requests are
  counted main spins for ever (`MainEnds` states the exception). With no sample
  `Percent` indexes `time_usr[-1]`. `Percent` sorts without the mutex while late
  answers may be appended, and main polls `n_count` without it. A start or end in
  the first ten milliseconds of a second shifts the printed rate's time span by
  up to 81 ms, and a test that runs over midnight gets a negative one.

## 8. Not modelled

* `stop()`, `~IOManager`, `use_caller`, `Thread::join`: `run()` has no exit, so
  joining never ends. Of `Thread` only the start of a worker is modelled. The root fiber
  of `use_caller` is built and never run.
* `seconds * 1000` and `usec / 1000` of the hooks, and a clock that is set back.
* Clients that connect before `Setthis`: `Accept` then uses a null pointer.
* Logger: the text of an item, `LogLevel::FromString` (no caller), appenders
  added while other threads log. Load generator: command line, a failing
  `pthread_create`. Utilities (backtrace, ids) are stateless.
* `Spinlock`, `Semaphore`: no user. `Mutex`: its critical sections are steps.
* Memory: stacks, reference counts, the thread-local `t_fiber` that still points
  to a freed Fiber after `MainFunc` returned.

## 9. Plan

1. `Scheduler` with `t_fiber`, so that `GetThis` from the loop is covered.
2. `Lifecycle`: `use_caller`, `stop`, the destructors, should `run()` get an exit.
