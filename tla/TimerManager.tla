---------------------------- MODULE TimerManager ----------------------------
(***************************************************************************)
(* The timers: the set m_timers ordered by expiry, the read-write lock     *)
(* around it (module RWLock), the tickle by which addTimer shortens a      *)
(* worker's epoll_wait, and the part of IOManager::idle that drives them:  *)
(* getNextTimer, epoll_wait, listExpiredCb.                                *)
(*                                                                         *)
(* Time is relative: left[x] is what remains until m_next of timer x,      *)
(* age[t] how long ago thread t read the clock; both stop at MaxLag.       *)
(* A worker leaves "run" for idle() when the scheduler has nothing for it. *)
(* A byte into the pipe, from tickle() or schedule(), may have to wait.    *)
(***************************************************************************)
EXTENDS Integers, RWLock

CONSTANTS
  Workers,    \* the scheduler's threads
  Callers,    \* other threads that call addTimer
  Timers,     \* the Timer objects of a behaviour
  Recurring,  \* those with m_recurring
  MaxDelay,   \* bound on the ms argument, at least 1 for Recurring
  MaxTimeout, \* MAX_TIMEOUT of idle()
  Width,      \* the number of values of an int, 2^32
  MaxLag      \* bound on how far in the past an instant is told apart

Threads == Workers \cup Callers

\* Negative timeouts of epoll_wait, which set no limit: read from memory that
\* has been freed, and of a timer that is too far away for an int.
Forever == MaxTimeout + 1
Unlimited == MaxTimeout + 2

ASSUME TimerAssumption ==
  /\ NoThread \notin Threads
  /\ Workers \cap Callers = {}
  /\ Recurring \subseteq Timers
  /\ MaxDelay \in Nat \ {0} /\ MaxTimeout \in Nat \ {0} /\ MaxLag \in Nat
  /\ Width \in Nat /\ Width > 2 * MaxTimeout + 1

VARIABLES
  m_timers,   \* the set of registered timers
  m_cb,       \* timers whose callback is not null
  left,       \* m_next minus the clock
  period,     \* m_ms
  m_tickled,
  made,       \* Timer objects constructed so far
  pc,         \* position of each thread
  adding,     \* the timer each thread is adding (a set of at most one)
  next,       \* what getNextTimer's reference points to (at most one timer)
  dangling,   \* threads whose reference points to an erased node
  timeout,    \* of each worker's epoll_wait, 0 outside
  age,        \* the age of now_ms in each worker's listExpiredCb, 0 outside
  cbs,        \* expired callbacks each worker is about to schedule
  edge        \* the pipe has something epoll_wait has not reported yet

dataVars == <<m_timers, m_cb, left, period, m_tickled, made>>
threadVars == <<pc, adding, next, dangling, timeout, age, cbs>>
vars == <<dataVars, lockVars, threadVars, edge>>

Goto(t, p) == pc' = [pc EXCEPT ![t] = p]
At(t, p) == pc[t] = p

\* begin(): a timer none precedes (equal expiries are ordered by address).
First(x) == x \in m_timers /\ \A y \in m_timers : left[x] <= left[y]

-----------------------------------------------------------------------------
(***************************************************************************)
(* addTimer, called by a coroutine (the hooked sleep) or another thread.   *)
(***************************************************************************)

\* The Timer constructor reads the clock before the lock is taken.
Construct(t, x, ms) ==
  /\ At(t, "run")
  /\ x \notin made
  /\ x \in Recurring => ms > 0
  /\ made' = made \cup {x}
  /\ m_cb' = m_cb \cup {x}
  /\ left' = [left EXCEPT ![x] = ms]
  /\ period' = [period EXCEPT ![x] = ms]
  /\ adding' = [adding EXCEPT ![t] = {x}]
  /\ Goto(t, "add")
  /\ UNCHANGED <<m_timers, m_tickled, lockVars, next, dangling, timeout, age,
                 cbs, edge>>

AddLock(t) ==
  /\ At(t, "add")
  /\ wrlock(t)
  /\ Goto(t, "insert")
  /\ UNCHANGED <<dataVars, adding, next, dangling, timeout, age, cbs, edge>>

Insert(t) ==
  /\ At(t, "insert")
  /\ m_timers' = m_timers \cup adding[t]
  /\ \E first \in BOOLEAN :
       LET at_front == first /\ ~m_tickled IN
       /\ first => \A x \in adding[t], y \in m_timers : left[x] <= left[y]
       /\ ~first => \E x \in adding[t], y \in m_timers : left[x] >= left[y]
       /\ m_tickled' = (m_tickled \/ at_front)
       /\ Goto(t, IF at_front THEN "tickle" ELSE "run")
  /\ unlock(t)
  /\ adding' = [adding EXCEPT ![t] = {}]
  /\ UNCHANGED <<m_cb, left, period, made, next, dangling, timeout, age, cbs,
                 edge>>

\* onTimerInsertedAtFront: a byte into the pipe.
Tickle(t) ==
  /\ At(t, "tickle")
  /\ edge' = TRUE
  /\ Goto(t, "run")
  /\ UNCHANGED <<dataVars, lockVars, adding, next, dangling, timeout, age, cbs>>

-----------------------------------------------------------------------------
(***************************************************************************)
(* getNextTimer, called at the start of idle().                            *)
(***************************************************************************)

\* The scan of the work list found nothing for this worker.
Idle(t) ==
  /\ At(t, "run")
  /\ Goto(t, "idle")
  /\ UNCHANGED <<dataVars, lockVars, adding, next, dangling, timeout, age, cbs,
                 edge>>

NextLock(t) ==
  /\ At(t, "idle")
  /\ rdlock(t)
  /\ Goto(t, "front")
  /\ UNCHANGED <<dataVars, adding, next, dangling, timeout, age, cbs, edge>>

\* An empty set: ~0ull without unlock(), which idle() turns into MAX_TIMEOUT.
NoTimer(t) ==
  /\ At(t, "front")
  /\ m_timers = {}
  /\ m_tickled' = FALSE
  /\ Abandon(t)
  /\ timeout' = [timeout EXCEPT ![t] = MaxTimeout]
  /\ Goto(t, "wait")
  /\ UNCHANGED <<m_timers, m_cb, left, period, made, adding, next, dangling,
                 age, cbs, edge>>

\* Slips: this return forgets the lock, too; m_tickled is not reset.
FrontLeaks(t) ==
  /\ At(t, "front")
  /\ \E x \in m_timers : First(x) /\ next' = [next EXCEPT ![t] = {x}]
  /\ m_tickled' = FALSE
  /\ Abandon(t)
  /\ Goto(t, "deref")
  /\ UNCHANGED <<m_timers, m_cb, left, period, made, adding, dangling, timeout,
                 age, cbs, edge>>

FrontStaysTickled(t) ==
  /\ At(t, "front")
  /\ \E x \in m_timers : First(x) /\ next' = [next EXCEPT ![t] = {x}]
  /\ unlock(t)
  /\ Goto(t, "deref")
  /\ UNCHANGED <<dataVars, adding, dangling, timeout, age, cbs, edge>>

\* A reference to the first element, and unlock().
Front(t) ==
  /\ At(t, "front")
  /\ \E x \in m_timers : First(x) /\ next' = [next EXCEPT ![t] = {x}]
  /\ m_tickled' = FALSE
  /\ unlock(t)
  /\ Goto(t, "deref")
  /\ UNCHANGED <<m_timers, m_cb, left, period, made, adding, dangling, timeout,
                 age, cbs, edge>>

\* (int) of a 64-bit value.
AsInt(ms) ==
  IF ms % Width < Width \div 2 THEN ms % Width ELSE (ms % Width) - Width

\* What getNextTimer returns for timer x and idle() makes of it: the cast comes
\* before the comparison with MAX_TIMEOUT.
TimeoutFor(x) ==
  LET ms == AsInt(left[x]) IN
  CASE left[x] <= 0 -> 0
    [] left[x] > 0 /\ ms < 0 -> Unlimited
    [] left[x] > 0 /\ ms > MaxTimeout -> MaxTimeout
    [] OTHER -> ms

\* The reference is read after unlock().
Deref(t) ==
  /\ At(t, "deref")
  /\ t \notin dangling
  /\ \E x \in next[t] : timeout' = [timeout EXCEPT ![t] = TimeoutFor(x)]
  /\ next' = [next EXCEPT ![t] = {}]
  /\ Goto(t, "wait")
  /\ UNCHANGED <<dataVars, lockVars, adding, dangling, age, cbs, edge>>

\* The node has been erased since: the value is whatever the freed memory
\* holds, or the access ends the process.
DerefDangling(t) ==
  /\ At(t, "deref")
  /\ t \in dangling
  /\ \/ Goto(t, "crashed") /\ UNCHANGED timeout
     \/ /\ Goto(t, "wait")
        /\ \E ms \in 0 .. Forever : timeout' = [timeout EXCEPT ![t] = ms]
  /\ next' = [next EXCEPT ![t] = {}]
  /\ dangling' = dangling \ {t}
  /\ UNCHANGED <<dataVars, lockVars, adding, age, cbs, edge>>

Crashed == \E t \in Workers : At(t, "crashed")

-----------------------------------------------------------------------------
(***************************************************************************)
(* epoll_wait and listExpiredCb.                                           *)
(***************************************************************************)

\* epoll_wait returns on a timeout, on the pipe's edge, or on some other event
\* of no interest here.  listExpiredCb then starts by reading the clock.
Awake(t) ==
  /\ At(t, "wait")
  /\ timeout' = [timeout EXCEPT ![t] = 0]
  /\ Goto(t, "expired")
  /\ UNCHANGED <<dataVars, lockVars, adding, next, dangling, age, cbs>>

TimedOut(t) == timeout[t] = 0 /\ Awake(t) /\ UNCHANGED edge
Tickled(t)  == edge /\ Awake(t) /\ edge' = FALSE
OtherEvent(t) == Awake(t) /\ UNCHANGED edge

CheckLock(t) ==
  /\ At(t, "expired")
  /\ rdlock(t)
  /\ Goto(t, "check")
  /\ UNCHANGED <<dataVars, adding, next, dangling, timeout, age, cbs, edge>>

\* An empty set: return without unlock().
NothingSet(t) ==
  /\ At(t, "check")
  /\ m_timers = {}
  /\ Abandon(t)
  /\ age' = [age EXCEPT ![t] = 0]
  /\ Goto(t, "run")
  /\ UNCHANGED <<dataVars, adding, next, dangling, timeout, cbs, edge>>

SomethingSet(t) ==
  /\ At(t, "check")
  /\ m_timers # {}
  /\ unlock(t)
  /\ Goto(t, "relock")
  /\ UNCHANGED <<dataVars, adding, next, dangling, timeout, age, cbs, edge>>

\* Slip: the read lock is thought to be enough.
CollectUnlocked(t) ==
  /\ At(t, "relock")
  /\ rdlock(t)
  /\ Goto(t, "collect")
  /\ UNCHANGED <<dataVars, adding, next, dangling, timeout, age, cbs, edge>>

CollectLock(t) ==
  /\ At(t, "relock")
  /\ wrlock(t)
  /\ Goto(t, "collect")
  /\ UNCHANGED <<dataVars, adding, next, dangling, timeout, age, cbs, edge>>

Expired(t) == {x \in m_timers : left[x] <= -age[t]}

\* Slip: one-shot timers stay in the set.
CollectNone(t) ==
  /\ At(t, "collect")
  /\ cbs' = [cbs EXCEPT ![t] = Expired(t)]
  /\ m_cb' = m_cb \ (Expired(t) \ Recurring)
  /\ dangling' = dangling \cup {u \in Workers : next[u] \cap Expired(t) # {}}
  /\ Abandon(t)
  /\ Goto(t, "publish")
  /\ UNCHANGED <<m_timers, left, period, m_tickled, made, adding, next, timeout,
                 age, edge>>

\* Take the expired timers out, put the recurring ones back at now_ms + m_ms,
\* drop the others' callbacks; return without unlock().  Other threads' refer-
\* ences to erased nodes dangle, those to reinserted timers too.
Collect(t) ==
  /\ At(t, "collect")
  /\ m_timers' = m_timers \ (Expired(t) \ Recurring)
  /\ left' = [x \in Timers |-> IF x \in Expired(t) \cap Recurring
                               THEN period[x] - age[t] ELSE left[x]]
  /\ cbs' = [cbs EXCEPT ![t] = Expired(t)]
  /\ m_cb' = m_cb \ (Expired(t) \ Recurring)
  /\ dangling' = dangling \cup {u \in Workers : next[u] \cap Expired(t) # {}}
  /\ age' = [age EXCEPT ![t] = 0]
  /\ Abandon(t)
  /\ Goto(t, "publish")
  /\ UNCHANGED <<period, m_tickled, made, adding, next, timeout, edge>>

\* schedule(cbs.begin(), cbs.end()) and back to the worker loop.
Publish(t) ==
  /\ At(t, "publish")
  /\ cbs' = [cbs EXCEPT ![t] = {}]
  /\ Goto(t, "run")
  /\ UNCHANGED <<dataVars, lockVars, adding, next, dangling, timeout, age, edge>>

-----------------------------------------------------------------------------
Later(n) == IF n > -MaxLag THEN n - 1 ELSE n

\* t has read now_ms and is going to use it.
ReadClock(t) == pc[t] \in {"expired", "check", "relock", "collect"}

\* A millisecond passes.
Tick ==
  /\ left' = [x \in Timers |-> IF x \in made THEN Later(left[x]) ELSE left[x]]
  /\ age' = [t \in Workers |-> IF ReadClock(t) /\ age[t] < MaxLag
                               THEN age[t] + 1 ELSE age[t]]
  /\ timeout' = [t \in Workers |->
                   IF At(t, "wait") /\ timeout[t] \in 1 .. MaxTimeout
                   THEN timeout[t] - 1 ELSE timeout[t]]
  /\ UNCHANGED <<m_timers, m_cb, period, m_tickled, made, lockVars, pc, adding,
                 next, dangling, cbs, edge>>

Init ==
  /\ LockInit
  /\ m_timers = {} /\ m_cb = {} /\ made = {} /\ m_tickled = FALSE
  /\ left = [x \in Timers |-> 0]
  /\ period = [x \in Timers |-> 0]
  /\ pc = [t \in Threads |-> "run"]
  /\ adding = [t \in Threads |-> {}]
  /\ next = [t \in Workers |-> {}]
  /\ dangling = {}
  /\ timeout = [t \in Workers |-> 0]
  /\ age = [t \in Workers |-> 0]
  /\ cbs = [t \in Workers |-> {}]
  /\ edge = FALSE

Add(t) == AddLock(t) \/ Insert(t)

IdleStep(t) ==
  \/ NextLock(t) \/ NoTimer(t) \/ Front(t) \/ Deref(t) \/ DerefDangling(t)
  \/ TimedOut(t) \/ Tickled(t)
  \/ CheckLock(t) \/ NothingSet(t) \/ SomethingSet(t)
  \/ CollectLock(t) \/ Collect(t)

Next ==
  \/ /\ ~Crashed
     /\ \/ \E t \in Threads : Add(t) \/ Tickle(t)
        \/ \E t \in Threads, x \in Timers, ms \in 0 .. MaxDelay : Construct(t, x, ms)
        \/ \E t \in Workers : Idle(t) \/ IdleStep(t) \/ OtherEvent(t) \/ Publish(t)
  \/ Tick

Spec == Init /\ [][Next]_vars

(***************************************************************************)
(* The kernel runs every thread and gives a free lock to a waiting thread, *)
(* and time passes.  No event is assumed to come, no worker to run out of  *)
(* work (only then does the scheduler call idle), and no write to the pipe *)
(* to get through, neither here nor in schedule().                         *)
(***************************************************************************)
Fairness ==
  /\ \A t \in Threads : WF_vars(~Crashed /\ Add(t))
  /\ \A t \in Workers : WF_vars(~Crashed /\ IdleStep(t))
  /\ WF_vars(Tick)

FairSpec == Spec /\ Fairness

-----------------------------------------------------------------------------
(***************************************************************************)
(* Properties.                                                             *)
(***************************************************************************)

Positions == {"run", "add", "insert", "tickle", "idle", "front", "deref", "wait",
              "expired", "check", "relock", "collect", "publish", "crashed"}

\* Type invariant of the timer set, the lock and the threads.
TypeOK ==
  /\ m_timers \subseteq Timers /\ m_cb \subseteq Timers /\ made \subseteq Timers
  /\ left \in [Timers -> -MaxLag .. MaxDelay]
  /\ period \in [Timers -> 0 .. MaxDelay]
  /\ m_tickled \in BOOLEAN /\ edge \in BOOLEAN
  /\ writer \in Threads \cup {NoThread} /\ readers \subseteq Threads
  /\ leaked \in BOOLEAN
  /\ pc \in [Threads -> Positions]
  /\ adding \in [Threads -> SUBSET Timers]
  /\ next \in [Workers -> SUBSET Timers] /\ dangling \subseteq Workers
  /\ timeout \in [Workers -> 0 .. Unlimited]
  /\ age \in [Workers -> 0 .. MaxLag]
  /\ cbs \in [Workers -> SUBSET Timers]

Writing(t) == pc[t] \in {"insert", "collect"}
Reading(t) == pc[t] \in {"front", "check"}

\* Nobody looks at m_timers while another thread changes it, although
\* listExpiredCb never releases the write lock and getNextTimer's unlock()
\* releases it for it.
WriteExclusive ==
  \A t, u \in Threads : Writing(t) /\ (Writing(u) \/ Reading(u)) => t = u

\* The two returns that forget a read lock can only happen while there is no
\* timer, and there is none ever after.
LeakIsFinal == leaked => m_timers = {} /\ \A t \in Threads : ~Writing(t)

\* A timer is being added, is in the set with its callback, or is a one-shot
\* that has fired and lost its callback; never in two of these places, so no
\* timer is lost and no one-shot is collected twice.
OnePlace ==
  \A x \in made :
    LET added == \E t \in Threads : x \in adding[t] IN
    \/ added /\ x \notin m_timers /\ x \in m_cb
    \/ ~added /\ x \in m_timers /\ x \in m_cb
    \/ ~added /\ x \notin m_timers /\ x \notin m_cb /\ x \notin Recurring

\* The lock excludes; the threads hold what they rely on.
LockInv ==
  /\ writer # NoThread => readers = {} /\ ~leaked
  /\ leaked => m_timers = {}
  /\ \A t \in Threads :
       /\ Writing(t) => writer = t
       /\ Reading(t) => writer = t \/ t \in readers

\* A timer is added by one thread, from its construction to its insertion.
AddInv ==
  /\ m_timers \subseteq made
  /\ \A t \in Threads : adding[t] \subseteq made
  /\ \A t \in Threads : At(t, "add") \/ At(t, "insert") \/ adding[t] = {}
  /\ \A t, u \in Threads : \A x \in adding[t] : x \in adding[u] => t = u

\* The functions that the lock's and the adders' part is about.
Shape ==
  /\ pc \in [Threads -> Positions]
  /\ adding \in [Threads -> SUBSET Timers]
  /\ m_timers \subseteq Timers /\ m_cb \subseteq Timers /\ made \subseteq Timers

\* The inductive invariant behind the three.
TInv == Shape /\ LockInv /\ AddInv /\ OnePlace

\* epoll_wait of t ends by the time x expires.
InTime(t, x) ==
  /\ timeout[t] \in 0 .. MaxTimeout
  /\ timeout[t] <= IF left[x] <= 0 THEN 0 ELSE left[x]

\* A timer of 2^31 ms or more comes before x or is x itself.
Far(x) == period[x] >= Width \div 2
BehindFar(x) == \E y \in m_timers : Far(y) /\ left[y] <= left[x]

\* While all workers sleep in epoll_wait one of them wakes up in time for the
\* first timer, or a tickle is on its way: the m_tickled flag suppresses none
\* that is needed, and a worker that follows a dangling reference into a wait
\* without limit leaves another one that looks.  Only a timer so far away that
\* its time limit becomes negative is waited for without limit, and whatever
\* comes behind it.
FrontCovered ==
  \A x \in m_timers :
    \/ edge
    \/ \E t \in Threads : At(t, "tickle")
    \/ \E t \in Workers : ~At(t, "wait")
    \/ \E t \in Workers : InTime(t, x)
    \/ BehindFar(x)

\* A tickle is on its way, so a worker will look at the timers again.
Alarm == edge \/ \E t \in Threads : At(t, "tickle")

\* The worker calls getNextTimer before it waits again.
Looking(t) == ~At(t, "deref") /\ ~At(t, "wait")

\* Timer x does not need any other worker's attention: t is going to look, is
\* about to compute its time limit from a timer no later than x, or wakes up
\* in time.
Covers(t, x) ==
  \/ Looking(t)
  \/ At(t, "deref") /\ t \notin dangling /\ \A y \in next[t] : left[y] <= left[x]
  \/ At(t, "wait") /\ InTime(t, x)

\* A reference of getNextTimer lives until deref, and dangles unless it is to a
\* registered timer; one timer is added at a time.
References ==
  /\ m_timers \subseteq made
  /\ \A t \in Threads : /\ adding[t] \subseteq made
                        /\ \A x, y \in adding[t] : x = y
  /\ \A t \in Workers : /\ next[t] \subseteq made
                        /\ next[t] # {} \/ t \in dangling => At(t, "deref")
                        /\ t \notin dangling => next[t] \subseteq m_timers
  /\ \A x \in made : left[x] <= period[x]

\* m_tickled suppresses a tickle only while another one takes effect.
Noticed == m_tickled => Alarm \/ \E t \in Workers : Looking(t)

Covered ==
  \A x \in m_timers : Alarm \/ BehindFar(x) \/ \E t \in Workers : Covers(t, x)

\* The inductive invariant behind FrontCovered.
CoverInv == TypeOK /\ References /\ Noticed /\ Covered

\* Every worker runs out of work again and again, and no write to the pipe waits
\* for ever.  Whether that is so is a matter of the work: see module Wakeup.
Prompt ==
  /\ \A t \in Workers : []<>~At(t, "run") /\ []<>~At(t, "publish")
  /\ \A t \in Threads : []<>~At(t, "tickle")

\* A timer that made it into the set fires, a recurring one for ever, if the
\* workers are prompt: none of the locks left behind, the tickles suppressed or the
\* references dangling stands in its way, unless such a reference ends the
\* process or a worker waits without limit for a timer of 2^31 ms or more.
InsertedFires ==
  Prompt =>
    \A x \in Timers :
      x \in m_timers ~> \/ \E t \in Workers : x \in cbs[t]
                        \/ Crashed
                        \/ \E t \in Workers : At(t, "wait") /\ timeout[t] = Unlimited

\* hook.cpp:65: sleep switches the coroutine out and back in when the time is
\* up, so the timer it creates fires.
SleepEnds ==
  Prompt =>
    \A x \in Timers :
      (\E t \in Threads : x \in adding[t]) ~> \E t \in Workers : x \in cbs[t]

=============================================================================
