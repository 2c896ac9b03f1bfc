------------------------------- MODULE Wakeup -------------------------------
(***************************************************************************)
(* How work reaches a worker: the list m_fibers, the tickle of schedule(), *)
(* the pipe it writes to, and idle(), which waits in epoll_wait.           *)
(*                                                                         *)
(* schedule() tickles only if the list was empty, after it released        *)
(* m_mutex.  The pipe's read end is watched edge-triggered, so one worker  *)
(* learns of a tickle; its write end blocks when the pipe is full.  A      *)
(* worker calls idle() only when it found nothing to take, and one call    *)
(* serves one return of epoll_wait: first the expired timers, whose        *)
(* callbacks are scheduled (and tickled for), then the pipe.               *)
(*                                                                         *)
(* A job is a coroutine or callback.  The context switch is one step here; *)
(* module Scheduler takes it apart.  Fd events are the subject of          *)
(* FdEvents.                                                               *)
(***************************************************************************)
EXTENDS SequencesExt, Integers

CONSTANTS
  Workers,    \* the threads in Scheduler::run
  Callers,    \* other threads, which call schedule()
  Jobs,       \* what callers submit (each once) and timers start
  Yielders,   \* the jobs that may call YieldToReady, as often as they like
  Recurring,  \* the jobs that are callbacks of recurring timers
  Targets,    \* thread arguments in use
  AnyThread,  \* the thread argument -1
  NoJob,
  PipeSize,   \* bytes the pipe holds, 65536 on Linux
  NextTimers, \* what getNextTimer may return: NoTimer or milliseconds
  NoTimer,    \* ~0ull
  MaxTimeout, \* MAX_TIMEOUT
  Width       \* the number of values of an int, 2^32

ASSUME WakeupAssumption ==
  /\ AnyThread \notin Workers
  /\ Targets \subseteq Workers \cup {AnyThread}
  /\ Workers \cap Callers = {}
  /\ NoJob \notin Jobs /\ IsFiniteSet(Jobs)
  /\ Yielders \subseteq Jobs /\ Recurring \subseteq Jobs
  /\ PipeSize \in Nat \ {0}
  /\ NextTimers \subseteq Nat \cup {NoTimer}
  /\ NoTimer \notin Nat
  /\ MaxTimeout \in Nat
  /\ Width \in Nat /\ Width > 2 * MaxTimeout + 1

VARIABLES
  m_fibers,  \* entries <<job, thread>>, front first
  pc,        \* position of each thread
  cur,       \* the job each worker runs
  bytes,     \* unread bytes in the pipe
  edge,      \* written to since epoll_wait last reported the pipe
  bounded,   \* workers whose epoll_wait has a time limit
  reported,  \* workers whose epoll_wait returned the pipe
  due,       \* timers that have expired and were not collected
  fresh      \* jobs nobody has submitted yet

vars == <<m_fibers, pc, cur, bytes, edge, bounded, reported, due, fresh>>

Queued(j) == \E i \in DOMAIN m_fibers : m_fibers[i][1] = j
InHand(j) == \E w \in Workers : cur[w] = j

-----------------------------------------------------------------------------
\* scheduleNoLock: need_tickle is whether the list was empty before.
NeedTickle == m_fibers = << >>

\* schedule(): append under m_mutex, tickle afterwards if need be.
Schedule(p, entries, tickling, next) ==
  /\ m_fibers' = m_fibers \o entries
  /\ pc' = [pc EXCEPT ![p] = IF NeedTickle THEN tickling ELSE next]

\* Another thread submits a job.
Submit(c, j, th) ==
  /\ pc[c] = "out"
  /\ j \in fresh
  /\ Schedule(c, << <<j, th>> >>, "tickle", "out")
  /\ fresh' = fresh \ {j}
  /\ UNCHANGED <<cur, bytes, edge, bounded, reported, due>>

\* IOManager::tickle: one byte into the pipe; write waits while it is full.
Tickle(p) ==
  /\ pc[p] \in {"tickle", "idle tickle"}
  /\ bytes < PipeSize
  /\ bytes' = bytes + 1
  /\ edge' = TRUE
  /\ pc' = [pc EXCEPT ![p] = IF @ = "idle tickle" THEN "events"
                             ELSE IF p \in Workers THEN "pick" ELSE "out"]
  /\ UNCHANGED <<m_fibers, cur, bounded, reported, due, fresh>>

-----------------------------------------------------------------------------
\* The scan of Scheduler::run takes the first entry meant for this thread.
Meant(w, e) == e[2] \in {AnyThread, w}

Pick(w) ==
  /\ pc[w] = "pick"
  /\ \E i \in DOMAIN m_fibers :
       /\ Meant(w, m_fibers[i])
       /\ \A k \in 1 .. i-1 : ~Meant(w, m_fibers[k])
       /\ m_fibers' = RemoveAt(m_fibers, i)
       /\ cur' = [cur EXCEPT ![w] = m_fibers[i][1]]
  /\ pc' = [pc EXCEPT ![w] = "run"]
  /\ UNCHANGED <<bytes, edge, bounded, reported, due, fresh>>

\* A coroutine that yielded READY joins the list again, for any thread.
Yield(w) ==
  /\ pc[w] = "run"
  /\ cur[w] \in Yielders
  /\ Schedule(w, << <<cur[w], AnyThread>> >>, "tickle", "pick")
  /\ cur' = [cur EXCEPT ![w] = NoJob]
  /\ UNCHANGED <<bytes, edge, bounded, reported, due, fresh>>

\* The job returned or went to sleep.
Leave(w) ==
  /\ pc[w] = "run"
  /\ cur' = [cur EXCEPT ![w] = NoJob]
  /\ pc' = [pc EXCEPT ![w] = "pick"]
  /\ UNCHANGED <<m_fibers, bytes, edge, bounded, reported, due, fresh>>

-----------------------------------------------------------------------------
\* (int) of a 64-bit value.
AsInt(ms) ==
  IF ms % Width < Width \div 2 THEN ms % Width ELSE (ms % Width) - Width

\* Slip: without a timer epoll_wait waits for events only.
TimeoutTimersOnly(next) == IF next = NoTimer THEN -1 ELSE MaxTimeout

\* The timeout idle() computes; the cast comes before the comparison.  A
\* negative one means no limit to epoll_wait.
Timeout(next) ==
  IF next = NoTimer \/ AsInt(next) > MaxTimeout THEN MaxTimeout ELSE AsInt(next)

\* Nothing to take: idle().  (tickle_me is computed but not acted upon.)
Idle(w) ==
  /\ pc[w] = "pick"
  /\ \A i \in DOMAIN m_fibers : ~Meant(w, m_fibers[i])
  /\ pc' = [pc EXCEPT ![w] = "wait"]
  /\ \E next \in NextTimers :
       bounded' = IF Timeout(next) < 0 THEN bounded \ {w} ELSE bounded \cup {w}
  /\ UNCHANGED <<m_fibers, cur, bytes, edge, reported, due, fresh>>

PipeReady == edge /\ bytes > 0

\* epoll_wait returns: the pipe is readable or the time limit is over.
Awake(w) ==
  /\ pc[w] = "wait"
  /\ PipeReady \/ w \in bounded
  /\ reported' = IF PipeReady THEN reported \cup {w} ELSE reported
  /\ edge' = FALSE
  /\ pc' = [pc EXCEPT ![w] = "expired"]
  /\ UNCHANGED <<m_fibers, cur, bytes, bounded, due, fresh>>

\* listExpiredCb, and schedule(cbs) if there are any.
Expired(w) ==
  /\ pc[w] = "expired"
  /\ IF due = {}
     THEN pc' = [pc EXCEPT ![w] = "events"] /\ UNCHANGED m_fibers
     ELSE \E jobs \in SetToSeqs(due) :
            Schedule(w, [i \in DOMAIN jobs |-> <<jobs[i], AnyThread>>],
                     "idle tickle", "events")
  /\ due' = {}
  /\ UNCHANGED <<cur, bytes, edge, bounded, reported, fresh>>

\* Slip: a worker that was woken goes back to waiting without a look at the
\* list.
EventLoopWaits(w) ==
  /\ pc[w] = "events"
  /\ bytes' = IF w \in reported THEN 0 ELSE bytes
  /\ reported' = reported \ {w}
  /\ pc' = [pc EXCEPT ![w] = "wait"]
  /\ UNCHANGED <<m_fibers, cur, edge, bounded, due, fresh>>

\* The event loop: if the pipe was reported, read until it is empty.
EventLoop(w) ==
  /\ pc[w] = "events"
  /\ bytes' = IF w \in reported THEN 0 ELSE bytes
  /\ reported' = reported \ {w}
  /\ pc' = [pc EXCEPT ![w] = "pick"]
  /\ UNCHANGED <<m_fibers, cur, edge, bounded, due, fresh>>

\* A recurring timer comes round, whatever has become of its last callback.
TimerDue(j) ==
  /\ j \in Recurring /\ j \notin due
  /\ due' = due \cup {j}
  /\ UNCHANGED <<m_fibers, pc, cur, bytes, edge, bounded, reported, fresh>>

-----------------------------------------------------------------------------
Init ==
  /\ m_fibers = << >>
  /\ pc = [p \in Workers \cup Callers |-> IF p \in Workers THEN "pick" ELSE "out"]
  /\ cur = [w \in Workers |-> NoJob]
  /\ bytes = 0
  /\ edge = FALSE
  /\ bounded = {}
  /\ reported = {}
  /\ due = {}
  /\ fresh = Jobs \ Recurring

Worker(w) ==
  \/ Pick(w) \/ Yield(w) \/ Leave(w)
  \/ Idle(w) \/ Awake(w) \/ Expired(w) \/ EventLoop(w)

Next ==
  \/ \E w \in Workers : Worker(w)
  \/ \E p \in Workers \cup Callers : Tickle(p)
  \/ \E c \in Callers, j \in Jobs, th \in Targets : Submit(c, j, th)
  \/ \E j \in Recurring : TimerDue(j)

Spec == Init /\ [][Next]_vars

(***************************************************************************)
(* The kernel runs every thread; a job gives up its worker some day;       *)
(* epoll_wait returns when its time limit is over.  A write to a pipe that *)
(* stays writable gets through.  Callers and timers may do nothing.        *)
(***************************************************************************)
FairSpec ==
  /\ Spec
  /\ \A w \in Workers : WF_vars(Worker(w))
  /\ \A p \in Workers \cup Callers : WF_vars(Tickle(p))

-----------------------------------------------------------------------------
Entries == (Jobs \X (Workers \cup {AnyThread}))

TypeOK ==
  /\ m_fibers \in Seq(Entries)
  /\ pc \in [Workers \cup Callers ->
              {"pick", "run", "tickle", "wait", "expired", "idle tickle",
               "events", "out"}]
  /\ cur \in [Workers -> Jobs \cup {NoJob}]
  /\ bytes \in 0 .. PipeSize
  /\ edge \in BOOLEAN
  /\ bounded \subseteq Workers
  /\ reported \subseteq Workers
  /\ due \subseteq Recurring
  /\ fresh \subseteq Jobs

\* Asleep, or so far into idle() that the next look at the list comes after
\* epoll_wait.
Waiting(w) == pc[w] = "wait"

\* No wake-up is lost although need_tickle is computed before, and the tickle
\* sent after, another worker may take entries, drain the pipe or go to sleep:
\* while work for any thread is listed, a worker is awake or a byte announces
\* the work.  An entry for a particular thread may use up the tickle of those
\* behind it, so the claim is about lists without one.
NoLostWakeup ==
  /\ m_fibers # << >>
  /\ \A i \in DOMAIN m_fibers : m_fibers[i][2] = AnyThread
  /\ \A w \in Workers : Waiting(w)
  => PipeReady \/ \E p \in Callers : pc[p] = "tickle"

\* As long as the pipe does not fill up, every entry and every expired timer
\* gets a worker: those for a particular thread, which nobody is woken for, by
\* MAX_TIMEOUT; and timers although idle() runs only when nothing can be
\* taken, if fewer coroutines keep yielding than there are workers.  This
\* takes timers to be less than 2^31 ms away (see Timeout).
Served ==
  [](bytes < PipeSize) =>
    \A j \in Jobs : Queued(j) \/ j \in due ~> InHand(j)

\* scheduler.cpp:129: a coroutine that yielded READY joins the queue again, so
\* it is run again.
YieldedRunsAgain ==
  \A j \in Yielders : Queued(j) ~> InHand(j)

=============================================================================
