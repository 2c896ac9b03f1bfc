----------------------------- MODULE TimerProofs -----------------------------
(***************************************************************************)
(* Mutual exclusion, the fate of a leaked read lock, the place of every    *)
(* timer and the wake-up for the first of them, for any number of threads  *)
(* and timers.                                                             *)
(*                                                                         *)
(* The first invariant is about the lock: whoever writes holds the write   *)
(* lock, whoever reads holds a read lock or the write lock, and the write  *)
(* lock excludes every read lock, the leaked ones too.  It has to be stated*)
(* for a write lock that outlives the call that took it: listExpiredCb     *)
(* leaves it with its thread until that thread's next unlock().  The       *)
(* second, CoverInv, says who takes care of each timer: a tickle, a worker *)
(* that has not computed its time limit yet, or one whose limit is short   *)
(* enough.                                                                 *)
(***************************************************************************)
EXTENDS TimerManager, TLAPS

-----------------------------------------------------------------------------
\* A step that touches neither the set, the adders nor the callbacks keeps the
\* place of every timer.
LEMMA PlaceFrame ==
  ASSUME TInv, UNCHANGED <<m_timers, m_cb, made, adding>>,
         \A t \in Threads : adding[t] # {} => At(t, "add")' \/ At(t, "insert")'
  PROVE  AddInv' /\ OnePlace'
BY DEF TInv, AddInv, OnePlace, At

\* Taking a lock: the thread comes to hold what its next step relies on.
LEMMA AcquireInv ==
  ASSUME TInv, NEW t \in Threads,
         AddLock(t) \/ NextLock(t) \/ CheckLock(t) \/ CollectLock(t)
  PROVE  TInv'
<1>1. UNCHANGED <<m_timers, m_cb, made, adding>>
  BY DEF AddLock, NextLock, CheckLock, CollectLock, dataVars
<1>2. Shape'
  BY <1>1 DEF TInv, Shape, AddLock, NextLock, CheckLock, CollectLock, Goto, Positions
<1>3. LockInv'
  <2>1. CASE AddLock(t) \/ CollectLock(t)
    BY <1>1, <2>1, TimerAssumption
    DEF TInv, Shape, LockInv, AddLock, CollectLock, wrlock, Goto, Writing, Reading, Threads
  <2>2. CASE NextLock(t) \/ CheckLock(t)
    BY <1>1, <2>2, TimerAssumption
    DEF TInv, Shape, LockInv, NextLock, CheckLock, rdlock, Goto, Writing, Reading, Threads
  <2> QED BY <2>1, <2>2
<1>4. \A u \in Threads : adding[u] # {} => At(u, "add")' \/ At(u, "insert")'
  BY DEF TInv, Shape, AddInv, At, AddLock, NextLock, CheckLock, CollectLock, Goto
<1> QED BY <1>1, <1>2, <1>3, <1>4, PlaceFrame DEF TInv

\* Letting go of the lock without having changed the set, or forgetting to.
LEMMA ReleaseInv ==
  ASSUME TInv, NEW t \in Threads,
         NoTimer(t) \/ Front(t) \/ NothingSet(t) \/ SomethingSet(t)
  PROVE  TInv'
<1>1. UNCHANGED <<m_timers, m_cb, made, adding>>
  BY DEF NoTimer, Front, NothingSet, SomethingSet, dataVars
<1>2. Shape'
  BY <1>1 DEF TInv, Shape, NoTimer, Front, NothingSet, SomethingSet, Goto, Positions
<1>3. LockInv'
  <2>1. CASE Front(t) \/ SomethingSet(t)
    BY <1>1, <2>1, TimerAssumption
    DEF TInv, Shape, LockInv, Front, SomethingSet, unlock, Goto, Writing, Reading, Threads
  <2>2. CASE NoTimer(t) \/ NothingSet(t)
    BY <1>1, <2>2, TimerAssumption
    DEF TInv, Shape, LockInv, NoTimer, NothingSet, Abandon, Goto, Writing, Reading, Threads
  <2> QED BY <2>1, <2>2
<1>4. \A u \in Threads : adding[u] # {} => At(u, "add")' \/ At(u, "insert")'
  BY DEF TInv, Shape, AddInv, At, NoTimer, Front, NothingSet, SomethingSet, Goto
<1> QED BY <1>1, <1>2, <1>3, <1>4, PlaceFrame DEF TInv

\* Steps outside the lock.
LEMMA OutsideInv ==
  ASSUME TInv, NEW t \in Threads,
         \/ Tickle(t) \/ Deref(t) \/ DerefDangling(t) \/ Awake(t) \/ Idle(t)
         \/ Publish(t)
  PROVE  TInv'
<1>1. UNCHANGED <<m_timers, m_cb, made, adding>> /\ UNCHANGED lockVars
  BY DEF Tickle, Deref, DerefDangling, Awake, Idle, Publish, dataVars
<1>2. /\ pc[t] \in {"tickle", "deref", "wait", "run", "publish"}
      /\ \E p \in {"run", "wait", "crashed", "expired", "idle"} : Goto(t, p)
  BY DEF Tickle, Deref, DerefDangling, Awake, Idle, Publish, At
<1>3. Shape'
  BY <1>1, <1>2 DEF TInv, Shape, Goto, Positions
<1>5. LockInv'
  BY <1>1, <1>2 DEF TInv, Shape, LockInv, lockVars, Goto, Writing, Reading
<1>4. \A u \in Threads : adding[u] # {} => At(u, "add")' \/ At(u, "insert")'
  BY <1>1, <1>2 DEF TInv, Shape, AddInv, At, Goto
<1> QED BY <1>1, <1>3, <1>5, <1>4, PlaceFrame DEF TInv

\* A Timer object is constructed by the thread that is going to add it.
LEMMA ConstructInv ==
  ASSUME TInv, NEW t \in Threads, NEW x \in Timers, NEW ms \in 0 .. MaxDelay,
         Construct(t, x, ms)
  PROVE  TInv'
<1>1. Shape'
  BY DEF TInv, Shape, Construct, Goto, Positions
<1>2. LockInv'
  BY DEF TInv, Shape, LockInv, Construct, lockVars, Goto, Writing, Reading
<1>3. /\ \A u \in Threads : u # t => adding'[u] = adding[u]
      /\ adding'[t] = {x} /\ adding[t] = {} /\ x \notin made
      /\ made' = made \cup {x} /\ m_cb' = m_cb \cup {x} /\ m_timers' = m_timers
  BY DEF TInv, Shape, AddInv, Construct, At
<1>4. AddInv'
  BY <1>3 DEF TInv, Shape, AddInv, Construct, At, Goto
<1>5. OnePlace'
  BY <1>3 DEF TInv, Shape, AddInv, OnePlace
<1> QED BY <1>1, <1>2, <1>4, <1>5 DEF TInv

\* The timer moves from the thread into the set.
LEMMA InsertInv == ASSUME TInv, NEW t \in Threads, Insert(t) PROVE TInv'
<1>1. /\ m_timers' = m_timers \cup adding[t] /\ m_cb' = m_cb /\ made' = made
      /\ adding' = [adding EXCEPT ![t] = {}] /\ unlock(t)
      /\ pc' = [pc EXCEPT ![t] = "tickle"] \/ pc' = [pc EXCEPT ![t] = "run"]
      /\ writer = t
  BY DEF Insert, Goto, TInv, LockInv, Writing, At
<1>2. Shape'
  BY <1>1 DEF TInv, Shape, Positions
<1>3. LockInv'
  BY <1>1, TimerAssumption DEF TInv, Shape, LockInv, unlock, Writing, Reading, Threads
<1>4. /\ adding'[t] = {}
      /\ \A u \in Threads : u # t => adding'[u] = adding[u] /\ pc'[u] = pc[u]
  BY <1>1 DEF TInv, Shape
<1>5. AddInv'
  BY <1>1, <1>4 DEF TInv, AddInv, At
<1>6. OnePlace'
  BY <1>1, <1>4 DEF TInv, AddInv, OnePlace
<1> QED BY <1>2, <1>3, <1>5, <1>6 DEF TInv

\* Expired one-shots leave the set and lose their callback together.
LEMMA CollectInv == ASSUME TInv, NEW t \in Threads, Collect(t) PROVE TInv'
<1> DEFINE gone == Expired(t) \ Recurring
<1>1. /\ m_timers' = m_timers \ gone /\ m_cb' = m_cb \ gone /\ made' = made
      /\ adding' = adding /\ pc' = [pc EXCEPT ![t] = "publish"] /\ Abandon(t)
      /\ writer = t /\ pc[t] = "collect"
  BY DEF Collect, Goto, TInv, LockInv, Writing, At
<1>2. gone \subseteq m_timers /\ gone \cap Recurring = {}
  BY DEF Expired
<1> HIDE DEF gone
<1>3. Shape'
  BY <1>1 DEF TInv, Shape, Positions
<1>4. LockInv'
  BY <1>1, <1>2, TimerAssumption
  DEF TInv, Shape, LockInv, Abandon, Writing, Reading, Threads
<1>5. AddInv'
  BY <1>1, <1>2 DEF TInv, Shape, AddInv, At
<1>6. OnePlace'
  BY <1>1, <1>2 DEF TInv, OnePlace
<1> QED BY <1>3, <1>4, <1>5, <1>6 DEF TInv

\* Every step keeps the invariant.
LEMMA TimerStep == TInv /\ [Next]_vars => TInv'
<1> SUFFICES ASSUME TInv, [Next]_vars PROVE TInv'
  OBVIOUS
<1>1. CASE UNCHANGED vars
  BY <1>1
  DEF vars, dataVars, lockVars, threadVars, TInv, Shape, LockInv, AddInv, OnePlace, Writing,
      Reading, At
<1>2. CASE Tick
  BY <1>2
  DEF Tick, lockVars, TInv, Shape, LockInv, AddInv, OnePlace, Writing, Reading, At
<1>3. ASSUME NEW t \in Threads, Add(t) \/ Tickle(t) PROVE TInv'
  BY <1>3, AcquireInv, InsertInv, OutsideInv DEF Add
<1>4. ASSUME NEW t \in Workers,
             Idle(t) \/ IdleStep(t) \/ OtherEvent(t) \/ Publish(t)
      PROVE  TInv'
  <2>1. t \in Threads
    BY DEF Threads
  <2> QED
    BY <1>4, <2>1, AcquireInv, ReleaseInv, OutsideInv, CollectInv
    DEF IdleStep, TimedOut, Tickled, OtherEvent
<1> QED BY <1>1, <1>2, <1>3, <1>4, ConstructInv DEF Next

\* The invariant holds in every reachable state.
THEOREM TimerInvariance == Spec => []TInv
<1>1. Init => TInv
  BY TimerAssumption
  DEF Init, LockInit, TInv, Shape, LockInv, AddInv, OnePlace, Writing, Reading, At, Positions
<1> QED BY <1>1, TimerStep, PTL DEF Spec

\* No thread reads or changes the set while another one changes it.
THEOREM WritersExclude == Spec => []WriteExclusive
<1>1. TInv => WriteExclusive
  BY TimerAssumption DEF TInv, LockInv, WriteExclusive, Threads
<1> QED BY <1>1, TimerInvariance, PTL

\* A read lock leaks only when there is no timer, and then there never is one.
THEOREM LeaksAreFinal == Spec => []LeakIsFinal
<1>1. TInv => LeakIsFinal
  BY TimerAssumption DEF TInv, LockInv, LeakIsFinal, Threads
<1> QED BY <1>1, TimerInvariance, PTL

\* No timer is lost and no one-shot fires twice.
THEOREM TimersHaveOnePlace == Spec => []OnePlace
<1>1. TInv => OnePlace
  BY DEF TInv
<1> QED BY <1>1, TimerInvariance, PTL

-----------------------------------------------------------------------------
(***************************************************************************)
(* Types.                                                                  *)
(***************************************************************************)

LEMMA TypesOfAdders ==
  ASSUME TypeOK, NEW t \in Threads,
         \/ AddLock(t) \/ Insert(t) \/ Tickle(t)
         \/ \E x \in Timers, ms \in 0 .. MaxDelay : Construct(t, x, ms)
  PROVE  TypeOK'
<1> USE TimerAssumption DEF TimerAssumption
<1>1. CASE AddLock(t)
  BY <1>1 DEF AddLock, TypeOK, dataVars, wrlock, Goto, Positions
<1>2. CASE Insert(t)
  <2>1. /\ m_tickled' \in BOOLEAN
        /\ pc' = [pc EXCEPT ![t] = "tickle"] \/ pc' = [pc EXCEPT ![t] = "run"]
    BY <1>2 DEF Insert, TypeOK, Goto
  <2> QED
    BY <1>2, <2>1 DEF Insert, TypeOK, unlock, Positions
<1>3. CASE Tickle(t)
  BY <1>3 DEF Tickle, TypeOK, dataVars, lockVars, Goto, Positions
<1>4. ASSUME NEW x \in Timers, NEW ms \in 0 .. MaxDelay, Construct(t, x, ms)
      PROVE  TypeOK'
  <2>1. ms \in -MaxLag .. MaxDelay
    OBVIOUS
  <2> QED
    BY <1>4, <2>1 DEF Construct, TypeOK, lockVars, Goto, Positions
<1> QED
  BY <1>1, <1>2, <1>3, <1>4

\* The cast to int is the identity below 2^31, and an int otherwise.
LEMMA IntCast ==
  ASSUME NEW ms \in Nat
  PROVE  /\ AsInt(ms) \in Int
         /\ ms < Width \div 2 => AsInt(ms) = ms
<1> USE TimerAssumption DEF TimerAssumption
<1>1. ms % Width \in 0 .. Width - 1 /\ (ms < Width => ms % Width = ms)
  OBVIOUS
<1>2. Width \div 2 \in Int /\ Width \div 2 < Width
  OBVIOUS
<1> QED
  BY <1>1, <1>2 DEF AsInt

\* Time limits are at most MAX_TIMEOUT, or none.
LEMMA TimeoutType ==
  ASSUME NEW x, left[x] \in Int
  PROVE  TimeoutFor(x) \in 0 .. Unlimited
<1> USE TimerAssumption DEF TimerAssumption
<1>1. left[x] > 0 => AsInt(left[x]) \in Int
  BY IntCast
<1> QED
  BY <1>1 DEF TimeoutFor, Unlimited

\* The time limit computed from a timer less than 2^31 ms away.
LEMMA TimeoutInTime ==
  ASSUME NEW x, left[x] \in Int, left[x] < Width \div 2
  PROVE  /\ TimeoutFor(x) \in 0 .. MaxTimeout
         /\ TimeoutFor(x) <= IF left[x] <= 0 THEN 0 ELSE left[x]
<1> USE TimerAssumption DEF TimerAssumption
<1>1. left[x] > 0 => AsInt(left[x]) = left[x]
  BY IntCast
<1> QED
  BY <1>1 DEF TimeoutFor

LEMMA TypesOfIdle ==
  ASSUME TypeOK, NEW t \in Workers,
         Idle(t) \/ IdleStep(t) \/ OtherEvent(t) \/ Publish(t)
  PROVE  TypeOK'
<1> USE TimerAssumption DEF TimerAssumption
<1>0. t \in Threads
  BY DEF Threads
<1>1. CASE NextLock(t) \/ CheckLock(t)
  BY <1>0, <1>1 DEF NextLock, CheckLock, TypeOK, dataVars, rdlock, Goto, Positions
<1>2. CASE NoTimer(t)
  <2>1. MaxTimeout \in 0 .. Unlimited
    BY DEF Unlimited
  <2> QED
    BY <1>0, <1>2, <2>1 DEF NoTimer, TypeOK, Abandon, Goto, Positions
<1>3. CASE Front(t)
  <2>1. next' \in [Workers -> SUBSET Timers]
    BY <1>3 DEF Front, TypeOK
  <2> QED
    BY <1>0, <1>3, <2>1 DEF Front, TypeOK, unlock, Goto, Positions
<1>4. CASE Deref(t)
  <2>1. PICK x \in next[t] : timeout' = [timeout EXCEPT ![t] = TimeoutFor(x)]
    BY <1>4 DEF Deref
  <2>2. left[x] \in Int
    BY <2>1 DEF TypeOK
  <2>3. timeout' \in [Workers -> 0 .. Unlimited]
    BY <2>1, <2>2, TimeoutType DEF TypeOK
  <2> QED
    BY <1>0, <1>4, <2>3 DEF Deref, TypeOK, dataVars, lockVars, Goto, Positions
<1>10. CASE DerefDangling(t)
  <2>1. timeout' \in [Workers -> 0 .. Unlimited]
    BY <1>10 DEF DerefDangling, TypeOK, Forever, Unlimited
  <2>2. pc' \in [Threads -> Positions]
    BY <1>0, <1>10 DEF DerefDangling, TypeOK, Goto, Positions
  <2> QED
    BY <1>10, <2>1, <2>2 DEF DerefDangling, TypeOK, dataVars, lockVars
<1>11. CASE Idle(t)
  BY <1>0, <1>11 DEF Idle, TypeOK, dataVars, lockVars, Goto, Positions
<1>5. CASE TimedOut(t) \/ Tickled(t) \/ OtherEvent(t)
  <2>1. Awake(t) /\ edge' \in BOOLEAN
    BY <1>5 DEF TimedOut, Tickled, OtherEvent, TypeOK
  <2>2. 0 \in 0 .. Unlimited
    BY DEF Unlimited
  <2>3. timeout' \in [Workers -> 0 .. Unlimited]
    BY <2>1, <2>2 DEF Awake, TypeOK
  <2> QED
    BY <1>0, <2>1, <2>3 DEF Awake, TypeOK, dataVars, lockVars, Goto, Positions
<1>6. CASE NothingSet(t) \/ SomethingSet(t)
  <2>1. age' \in [Workers -> 0 .. MaxLag]
    BY <1>6 DEF NothingSet, SomethingSet, TypeOK
  <2> QED
    BY <1>0, <1>6, <2>1
    DEF NothingSet, SomethingSet, TypeOK, dataVars, Abandon, unlock, Goto, Positions
<1>7. CASE CollectLock(t)
  BY <1>0, <1>7 DEF CollectLock, TypeOK, dataVars, wrlock, Goto, Positions
<1>8. CASE Collect(t)
  <2>1. left' \in [Timers -> -MaxLag .. MaxDelay]
    <3>1. \A x \in Timers : period[x] - age[t] \in -MaxLag .. MaxDelay
      <4> TAKE x \in Timers
      <4>1. period[x] \in 0 .. MaxDelay /\ age[t] \in 0 .. MaxLag
        BY DEF TypeOK
      <4> QED
        BY <4>1
    <3> QED
      BY <1>8, <3>1 DEF Collect, TypeOK
  <2>2. Expired(t) \subseteq Timers
    BY DEF Expired, TypeOK
  <2> QED
    BY <1>0, <1>8, <2>1, <2>2 DEF Collect, TypeOK, Abandon, Goto, Positions
<1>9. CASE Publish(t)
  BY <1>0, <1>9 DEF Publish, TypeOK, dataVars, lockVars, Goto, Positions
<1> QED
  BY <1>1, <1>2, <1>3, <1>4, <1>5, <1>6, <1>7, <1>8, <1>9, <1>10, <1>11
  DEF IdleStep

LEMMA TypesOfTick == TypeOK /\ Tick => TypeOK'
<1> SUFFICES ASSUME TypeOK, Tick PROVE TypeOK'
  OBVIOUS
<1> USE TimerAssumption DEF TimerAssumption
<1>1. left' \in [Timers -> -MaxLag .. MaxDelay]
  <2>1. \A x \in Timers : left[x] \in -MaxLag .. MaxDelay
    BY DEF TypeOK
  <2>2. \A x \in Timers : Later(left[x]) \in -MaxLag .. MaxDelay
    BY <2>1 DEF Later
  <2> QED
    BY <2>1, <2>2 DEF Tick
<1>2. age' \in [Workers -> 0 .. MaxLag]
  BY DEF Tick, TypeOK
<1>3. timeout' \in [Workers -> 0 .. Unlimited]
  BY DEF Tick, TypeOK, Unlimited
<1> QED
  BY <1>1, <1>2, <1>3 DEF Tick, TypeOK, lockVars

-----------------------------------------------------------------------------
(***************************************************************************)
(* Every timer is taken care of.                                           *)
(***************************************************************************)

LEMMA ReferencesStep == CoverInv /\ [Next]_vars => References'
<1> SUFFICES ASSUME CoverInv, [Next]_vars PROVE References'
  OBVIOUS
<1> USE DEF At, Goto
<1>0. TypeOK /\ References /\ Workers \subseteq Threads
  BY DEF CoverInv, Threads
<1>1. CASE UNCHANGED vars
  BY <1>0, <1>1 DEF References, vars, dataVars, threadVars
<1>2. CASE Tick
  <2>1. \A x \in made : left'[x] <= period[x]
    <3> TAKE x \in made
    <3>1. /\ left[x] \in -MaxLag .. MaxDelay /\ period[x] \in 0 .. MaxDelay
          /\ left[x] <= period[x] /\ left'[x] = Later(left[x])
      BY <1>0, <1>2 DEF References, TypeOK, Tick
    <3> QED
      BY <3>1, TimerAssumption DEF Later, TimerAssumption
  <2> QED
    BY <1>0, <1>2, <2>1 DEF References, Tick
<1>3. ASSUME NEW t \in Threads, AddLock(t) \/ Tickle(t)
      PROVE  References'
  BY <1>0, <1>3 DEF References, AddLock, Tickle, dataVars, TypeOK
<1>4. ASSUME NEW t \in Threads, Insert(t)
      PROVE  References'
  BY <1>0, <1>4 DEF References, Insert, TypeOK
<1>5. ASSUME NEW t \in Threads, NEW x \in Timers, NEW ms \in 0 .. MaxDelay,
             Construct(t, x, ms)
      PROVE  References'
  <2>1. \A y \in made' : left'[y] <= period'[y]
    BY <1>0, <1>5, TimerAssumption DEF References, Construct, TypeOK, TimerAssumption
  <2> QED
    BY <1>0, <1>5, <2>1 DEF References, Construct, TypeOK
<1>6. ASSUME NEW t \in Workers,
             \/ Idle(t) \/ NextLock(t) \/ NoTimer(t) \/ Awake(t) \/ CheckLock(t)
             \/ NothingSet(t) \/ SomethingSet(t) \/ CollectLock(t) \/ Publish(t)
      PROVE  References'
  <2>1. UNCHANGED <<m_timers, left, period, made, adding, next, dangling>>
    BY <1>6
    DEF Idle, NextLock, NoTimer, Awake, CheckLock, NothingSet, SomethingSet,
        CollectLock, Publish, dataVars
  <2>2. pc[t] # "deref" /\ \E p \in Positions : Goto(t, p)
    BY <1>6
    DEF Idle, NextLock, NoTimer, Awake, CheckLock, NothingSet, SomethingSet,
        CollectLock, Publish, Positions
  <2> QED
    BY <1>0, <2>1, <2>2 DEF References, TypeOK
<1>7. ASSUME NEW t \in Workers, Front(t)
      PROVE  References'
  BY <1>0, <1>7 DEF References, Front, First, TypeOK
<1>8. ASSUME NEW t \in Workers, Deref(t)
      PROVE  References'
  BY <1>0, <1>8 DEF References, Deref, dataVars, TypeOK
<1>10. ASSUME NEW t \in Workers, DerefDangling(t)
      PROVE  References'
  <2>1. \A u \in Workers \ {t} : pc'[u] = pc[u]
    BY <1>0, <1>10 DEF DerefDangling, TypeOK
  <2> QED
    BY <1>0, <1>10, <2>1 DEF References, DerefDangling, dataVars, TypeOK
<1>9. ASSUME NEW t \in Workers, Collect(t)
      PROVE  References'
  <2>1. \A x \in made' : left'[x] <= period'[x]
    <3> TAKE x \in made'
    <3>1. /\ x \in made /\ x \in Timers /\ period[x] \in 0 .. MaxDelay
          /\ age[t] \in 0 .. MaxLag /\ left[x] <= period[x] /\ period' = period
      BY <1>0, <1>9 DEF References, TypeOK, Collect
    <3>2. left'[x] = period[x] - age[t] \/ left'[x] = left[x]
      BY <1>9, <3>1 DEF Collect
    <3> QED
      BY <3>1, <3>2, TimerAssumption DEF TimerAssumption
  <2>2. \A u \in Workers : u \notin dangling' => next'[u] \subseteq m_timers'
    BY <1>0, <1>9 DEF References, Collect, TypeOK
  <2> QED
    BY <1>0, <1>9, <2>1, <2>2 DEF References, Collect, TypeOK
<1> QED
  BY <1>1, <1>2, <1>3, <1>4, <1>5, <1>6, <1>7, <1>8, <1>9, <1>10
  DEF Next, Add, IdleStep, OtherEvent, TimedOut, Tickled

\* What comes behind a far timer stays behind it while the set only grows.
LEMMA BehindFrame ==
  ASSUME References, m_timers \subseteq m_timers',
         \A x \in made : left'[x] = left[x] /\ period'[x] = period[x],
         NEW x \in made, BehindFar(x)
  PROVE  BehindFar(x)'
BY DEF References, BehindFar, Far

\* A step of another thread that leaves alone what the workers wait for.
LEMMA CoverFrame ==
  ASSUME CoverInv, NEW t \in Threads, t \notin Workers,
         UNCHANGED <<m_timers, m_tickled, next, dangling, timeout, edge>>,
         \A x \in made : left'[x] = left[x] /\ period'[x] = period[x],
         \A u \in Threads \ {t} : pc'[u] = pc[u],
         pc[t] # "tickle"
  PROVE  Noticed' /\ Covered'
<1>1. Workers \subseteq Threads \ {t} /\ References
  BY DEF CoverInv, Threads
<1>2. \A u \in Workers : Looking(u) => Looking(u)'
  BY <1>1 DEF Looking, At
<1>3. Alarm => Alarm'
  BY DEF Alarm, At
<1>4. \A u \in Workers, x \in m_timers : Covers(u, x) => Covers(u, x)'
  BY <1>1, <1>2 DEF Covers, References, At, InTime
<1>5. \A x \in m_timers : x \in made
  BY <1>1 DEF References
<1> QED
  BY <1>1, <1>2, <1>3, <1>4, <1>5, BehindFrame DEF CoverInv, Noticed, Covered

\* A worker that is going to look takes care of everything.
LEMMA LookingCovers ==
  ASSUME NEW t \in Workers, Looking(t)'
  PROVE  Noticed' /\ Covered'
BY DEF Noticed, Covered, Covers

\* What covers a timer covers every later one.
LEMMA CoversLater ==
  ASSUME CoverInv, NEW t \in Workers, NEW y \in m_timers, Covers(t, y),
         NEW x \in Timers, left[x] >= left[y]
  PROVE  Covers(t, x)
<1> USE TimerAssumption DEF TimerAssumption
<1>1. /\ left[x] \in Int /\ left[y] \in Int /\ timeout[t] \in Int
      /\ \A z \in next[t] : left[z] \in Int
  BY DEF CoverInv, TypeOK
<1>2. InTime(t, y) => InTime(t, x)
  BY <1>1 DEF InTime
<1>3. \A z \in next[t] : left[z] <= left[y] => left[z] <= left[x]
  BY <1>1
<1> QED
  BY <1>2, <1>3 DEF Covers

\* A timer that is inserted at the front is tickled for; behind another it is
\* covered by what covers that one.
LEMMA InsertCovered ==
  ASSUME CoverInv, NEW t \in Threads, Insert(t)
  PROVE  Noticed' /\ Covered'
<1> USE DEF At, Goto
<1>1. CASE t \in Workers
  <2>1. Looking(t)'
    BY <1>1 DEF Insert, Looking, CoverInv, TypeOK
  <2> QED
    BY <1>1, <2>1, LookingCovers
<1>2. CASE t \notin Workers
  <2>1. PICK first \in BOOLEAN :
          /\ first => \A x \in adding[t], y \in m_timers : left[x] <= left[y]
          /\ ~first => \E x \in adding[t], y \in m_timers : left[x] >= left[y]
          /\ m_tickled' = (m_tickled \/ (first /\ ~m_tickled))
          /\ pc' = [pc EXCEPT ![t] = IF first /\ ~m_tickled THEN "tickle" ELSE "run"]
    BY DEF Insert
  <2>2. CASE first /\ ~m_tickled
    <3>1. pc'[t] = "tickle"
      BY <2>1, <2>2 DEF CoverInv, TypeOK
    <3> QED
      BY <3>1 DEF Noticed, Covered, Alarm
  <2>3. CASE ~(first /\ ~m_tickled)
    <3>1. /\ m_tickled' = m_tickled /\ pc' = [pc EXCEPT ![t] = "run"]
          /\ pc[t] = "insert"
          /\ UNCHANGED <<left, period, next, dangling, timeout, edge>>
          /\ m_timers' = m_timers \cup adding[t]
      BY <2>1, <2>3 DEF Insert, CoverInv, TypeOK
    <3>2. \A u \in Workers : pc'[u] = pc[u]
      BY <1>2, <3>1 DEF CoverInv, TypeOK, Threads
    <3>3. \A u \in Workers : Looking(u)' <=> Looking(u)
      BY <3>2 DEF Looking
    <3>4. Alarm => Alarm'
      BY <3>1 DEF Alarm, CoverInv, TypeOK
    <3>5. \A u \in Workers, x \in Timers : Covers(u, x) => Covers(u, x)'
      BY <3>1, <3>2, <3>3 DEF Covers, InTime
    <3>9. \A x \in m_timers : BehindFar(x) => BehindFar(x)'
      BY <3>1, BehindFrame DEF CoverInv, References
    <3>6. Noticed'
      BY <3>1, <3>3, <3>4 DEF CoverInv, Noticed
    <3>7. \A x \in m_timers :
            Alarm' \/ BehindFar(x)' \/ \E u \in Workers : Covers(u, x)'
      BY <3>4, <3>5, <3>9 DEF CoverInv, Covered, TypeOK
    <3>8. ASSUME NEW x \in adding[t]
          PROVE  Alarm' \/ BehindFar(x)' \/ \E u \in Workers : Covers(u, x)'
      <4>1. CASE first
        <5>1. Alarm' \/ \E u \in Workers : Looking(u)'
          BY <2>3, <3>1, <3>6, <4>1 DEF Noticed
        <5> QED
          BY <5>1 DEF Covers
      <4>2. CASE ~first
        <5>1. PICK y \in m_timers : left[x] >= left[y]
          BY <2>1, <4>2, <3>8 DEF CoverInv, References
        <5>2. x \in Timers
          BY <3>8 DEF CoverInv, TypeOK
        <5>3. Alarm \/ BehindFar(y) \/ \E u \in Workers : Covers(u, y)
          BY DEF CoverInv, Covered
        <5>4. CASE BehindFar(y)
          <6>1. PICK z \in m_timers : Far(z) /\ left[z] <= left[y]
            BY <5>4 DEF BehindFar
          <6>2. left[x] \in Int /\ left[y] \in Int /\ left[z] \in Int
            BY <5>2 DEF CoverInv, TypeOK
          <6>3. left[z] <= left[x]
            BY <5>1, <6>1, <6>2
          <6> QED
            BY <3>1, <6>1, <6>3 DEF BehindFar, Far
        <5> QED
          BY <5>1, <5>2, <5>3, <5>4, <3>4, <3>5, CoversLater
      <4> QED
        BY <4>1, <4>2
    <3> QED
      BY <3>1, <3>6, <3>7, <3>8 DEF Covered
  <2> QED
    BY <2>2, <2>3
<1> QED
  BY <1>1, <1>2

\* A worker computes its time limit: from the first timer, so for all.
LEMMA FrontCovers ==
  ASSUME CoverInv, NEW t \in Workers, Front(t)
  PROVE  Noticed' /\ Covered'
<1>1. PICK x \in m_timers : First(x) /\ next' = [next EXCEPT ![t] = {x}]
  BY DEF Front, First
<1>2. pc'[t] = "deref" /\ next'[t] = {x} /\ left' = left /\ m_timers' = m_timers
  BY <1>1 DEF Front, Goto, CoverInv, TypeOK, Threads
<1>3. t \notin dangling'
  BY DEF Front, At, CoverInv, References
<1>4. \A y \in m_timers' : Covers(t, y)'
  BY <1>1, <1>2, <1>3 DEF Covers, First, At
<1>5. ~m_tickled'
  BY DEF Front
<1> QED
  BY <1>4, <1>5 DEF Noticed, Covered

\* The time limit is the one of the timer the worker took for the first.
LEMMA DerefCovers ==
  ASSUME CoverInv, NEW t \in Workers, Deref(t)
  PROVE  Noticed' /\ Covered'
<1> USE DEF At, Goto
<1>1. /\ pc[t] = "deref" /\ pc' = [pc EXCEPT ![t] = "wait"]
      /\ UNCHANGED <<m_timers, m_tickled, left, period, edge, dangling>>
      /\ \A u \in Workers \ {t} : /\ next'[u] = next[u] /\ timeout'[u] = timeout[u]
                                  /\ pc'[u] = pc[u]
      /\ pc'[t] = "wait"
  BY DEF Deref, dataVars, CoverInv, TypeOK, Threads
<1>2. \A u \in Workers : Looking(u) => Looking(u)'
  BY <1>1 DEF Looking
<1>3. Alarm => Alarm'
  BY <1>1 DEF Alarm, CoverInv, TypeOK
<1>6. \A x \in m_timers : BehindFar(x) => BehindFar(x)'
  BY <1>1 DEF BehindFar, Far
<1>4. ASSUME NEW x \in m_timers, Covers(t, x)
      PROVE  Covers(t, x)' \/ BehindFar(x)
  <2>1. t \notin dangling /\ \A y \in next[t] : left[y] <= left[x]
    BY <1>1, <1>4 DEF Covers, Looking
  <2>2. PICK y \in next[t] : timeout'[t] = TimeoutFor(y)
    BY DEF Deref, CoverInv, TypeOK
  <2>3. /\ y \in m_timers /\ left[x] \in Int /\ left[y] \in Int /\ period[y] \in Int
        /\ left[y] <= left[x] /\ left[y] <= period[y]
    BY <2>1, <2>2 DEF CoverInv, TypeOK, References
  <2>4. CASE Far(y)
    BY <2>3, <2>4 DEF BehindFar
  <2>5. CASE ~Far(y)
    <3>1. left[y] < Width \div 2
      BY <2>3, <2>5, TimerAssumption DEF Far, TimerAssumption
    <3>2. /\ timeout'[t] \in 0 .. MaxTimeout
          /\ timeout'[t] <= IF left[y] <= 0 THEN 0 ELSE left[y]
      BY <2>2, <2>3, <3>1, TimeoutInTime
    <3>3. timeout'[t] <= IF left[x] <= 0 THEN 0 ELSE left[x]
      BY <2>3, <3>2, TimerAssumption DEF TimerAssumption
    <3> QED
      BY <1>1, <3>2, <3>3 DEF Covers, InTime
  <2> QED
    BY <2>4, <2>5
<1>5. \A u \in Workers \ {t}, x \in m_timers : Covers(u, x) => Covers(u, x)'
  BY <1>1, <1>2 DEF Covers, InTime
<1>7. Noticed'
  BY <1>1, <1>2, <1>3 DEF CoverInv, Noticed
<1>8. ASSUME NEW x \in m_timers
      PROVE  Alarm' \/ BehindFar(x)' \/ \E u \in Workers : Covers(u, x)'
  BY <1>3, <1>4, <1>5, <1>6 DEF CoverInv, Covered
<1> QED
  BY <1>1, <1>7, <1>8 DEF Covered

\* A reference that dangles covers nothing.
LEMMA DanglingCovers ==
  ASSUME CoverInv, NEW t \in Workers, DerefDangling(t)
  PROVE  Noticed' /\ Covered'
<1> USE DEF At, Goto
<1>1. /\ pc[t] = "deref" /\ t \in dangling
      /\ UNCHANGED <<m_timers, m_tickled, left, period, edge>>
      /\ \A u \in Threads \ {t} : pc'[u] = pc[u]
      /\ \A u \in Workers \ {t} : /\ next'[u] = next[u] /\ timeout'[u] = timeout[u]
                                  /\ u \in dangling' <=> u \in dangling
  BY DEF DerefDangling, dataVars, CoverInv, TypeOK
<1>2. \A u \in Workers \ {t} : Looking(u) => Looking(u)'
  BY <1>1 DEF Looking, Threads
<1>3. Alarm => Alarm'
  BY <1>1 DEF Alarm
<1>4. \A x \in m_timers : BehindFar(x) => BehindFar(x)'
  BY <1>1 DEF BehindFar, Far
<1>5. \A u \in Workers, x \in m_timers : Covers(u, x) => u # t /\ Covers(u, x)'
  BY <1>1, <1>2 DEF Covers, InTime, Looking, Threads
<1>6. ~Looking(t)
  BY <1>1 DEF Looking
<1> QED
  BY <1>1, <1>2, <1>3, <1>4, <1>5, <1>6 DEF CoverInv, Noticed, Covered

\* Time limits and timers run down together.
LEMMA TickCovers == CoverInv /\ Tick => Noticed' /\ Covered'
<1> SUFFICES ASSUME CoverInv, Tick PROVE Noticed' /\ Covered'
  OBVIOUS
<1> USE TimerAssumption DEF TimerAssumption
<1>1. UNCHANGED <<pc, m_timers, m_tickled, next, dangling, edge, period>>
  BY DEF Tick
<1>2. /\ \A u \in Workers : Looking(u)' <=> Looking(u)
      /\ Alarm' <=> Alarm
  BY <1>1 DEF Looking, Alarm, At
<1>3. \A x \in made : /\ left[x] \in -MaxLag .. MaxDelay
                      /\ left'[x] = Later(left[x])
                      /\ left'[x] \in -MaxLag .. MaxDelay
  <2> TAKE x \in made
  <2>1. x \in Timers /\ left[x] \in -MaxLag .. MaxDelay
    BY DEF CoverInv, TypeOK
  <2>2. left'[x] = Later(left[x])
    BY <2>1 DEF Tick
  <2> QED
    BY <2>1, <2>2 DEF Later
<1>4. \A x, y \in made : left[y] <= left[x] => left'[y] <= left'[x]
  BY <1>3 DEF Later
<1>5. ASSUME NEW u \in Workers, NEW x \in m_timers, Covers(u, x)
      PROVE  Covers(u, x)'
  <2>1. x \in made /\ next[u] \subseteq made
    BY DEF CoverInv, References
  <2>2. CASE Looking(u)
    BY <1>2, <2>2 DEF Covers
  <2>3. CASE At(u, "deref") /\ u \notin dangling /\ \A y \in next[u] : left[y] <= left[x]
    BY <1>1, <1>4, <2>1, <2>3 DEF Covers, At
  <2>4. CASE At(u, "wait") /\ InTime(u, x)
    <3>1. /\ timeout[u] \in 0 .. MaxTimeout
          /\ timeout'[u] = IF timeout[u] \in 1 .. MaxTimeout
                           THEN timeout[u] - 1 ELSE timeout[u]
      BY <2>4 DEF InTime, CoverInv, TypeOK, Tick
    <3>2. timeout[u] <= IF left[x] <= 0 THEN 0 ELSE left[x]
      BY <2>4 DEF InTime
    <3>4. left[x] <= 0 => left'[x] <= 0
      BY <1>3, <2>1 DEF Later
    <3>5. /\ left[x] \in Int /\ left'[x] \in Int
          /\ left[x] > 0 => left'[x] = left[x] - 1
      BY <1>3, <2>1 DEF Later
    <3>6. timeout'[u] \in 0 .. MaxTimeout
      BY <3>1
    <3>7. timeout'[u] <= IF left'[x] <= 0 THEN 0 ELSE left'[x]
      BY <3>1, <3>2, <3>4, <3>5
    <3> QED
      BY <1>1, <2>4, <3>6, <3>7 DEF Covers, At, InTime
  <2> QED
    BY <1>5, <2>2, <2>3, <2>4 DEF Covers
<1>6. ASSUME NEW x \in m_timers, BehindFar(x)
      PROVE  BehindFar(x)'
  <2>1. PICK y \in m_timers : Far(y) /\ left[y] <= left[x]
    BY <1>6 DEF BehindFar
  <2>2. x \in made /\ y \in made
    BY DEF CoverInv, References
  <2> QED
    BY <1>1, <1>4, <2>1, <2>2 DEF BehindFar, Far
<1> QED
  BY <1>1, <1>2, <1>5, <1>6 DEF CoverInv, Noticed, Covered

LEMMA CoverStep == CoverInv /\ [Next]_vars => CoverInv'
<1> SUFFICES ASSUME CoverInv, [Next]_vars PROVE CoverInv'
  OBVIOUS
<1>0. TypeOK /\ References /\ Workers \subseteq Threads
  BY DEF CoverInv, Threads
<1>1. TypeOK'
  <2>1. CASE UNCHANGED vars
    BY <1>0, <2>1 DEF TypeOK, vars, dataVars, lockVars, threadVars
  <2> QED
    BY <1>0, <2>1, TypesOfAdders, TypesOfIdle, TypesOfTick DEF Next, Add
<1>2. References'
  BY ReferencesStep
<1>3. Noticed' /\ Covered'
  <2> USE DEF At, Goto
  <2>1. CASE UNCHANGED vars
    BY <2>1
    DEF CoverInv, Noticed, Covered, Covers, Looking, Alarm, InTime, BehindFar, Far, vars,
        dataVars, threadVars
  <2>2. ASSUME NEW t \in Threads, AddLock(t)
        PROVE  Noticed' /\ Covered'
    <3>1. CASE t \in Workers
      BY <1>0, <2>2, <3>1, LookingCovers DEF AddLock, Looking, TypeOK
    <3>2. CASE t \notin Workers
      BY <1>0, <2>2, <3>2, CoverFrame DEF AddLock, dataVars, TypeOK
    <3> QED
      BY <3>1, <3>2
  <2>3. ASSUME NEW t \in Threads, Tickle(t)
        PROVE  Noticed' /\ Covered'
    BY <2>3 DEF Tickle, Noticed, Covered, Alarm
  <2>4. ASSUME NEW t \in Threads, NEW x \in Timers, NEW ms \in 0 .. MaxDelay,
               Construct(t, x, ms)
        PROVE  Noticed' /\ Covered'
    <3>1. CASE t \in Workers
      BY <1>0, <2>4, <3>1, LookingCovers DEF Construct, Looking, TypeOK
    <3>2. CASE t \notin Workers
      BY <1>0, <2>4, <3>2, CoverFrame DEF Construct, TypeOK
    <3> QED
      BY <3>1, <3>2
  <2>5. ASSUME NEW t \in Workers,
               \/ Idle(t) \/ NextLock(t) \/ Awake(t) \/ CheckLock(t) \/ NothingSet(t)
               \/ SomethingSet(t) \/ CollectLock(t) \/ Collect(t) \/ Publish(t)
        PROVE  Noticed' /\ Covered'
    <3>1. Looking(t)'
      BY <1>0, <2>5
      DEF Idle, NextLock, Awake, CheckLock, NothingSet, SomethingSet, CollectLock,
          Collect, Publish, Looking, TypeOK
    <3> QED
      BY <3>1, LookingCovers
  <2>6. ASSUME NEW t \in Workers, NoTimer(t)
        PROVE  Noticed' /\ Covered'
    BY <2>6 DEF NoTimer, Noticed, Covered
  <2> QED
    BY <2>1, <2>2, <2>3, <2>4, <2>5, <2>6, InsertCovered, FrontCovers,
       DerefCovers, DanglingCovers, TickCovers
    DEF Next, Add, IdleStep, OtherEvent, TimedOut, Tickled
<1> QED
  BY <1>1, <1>2, <1>3 DEF CoverInv

\* Every timer in the set is taken care of in every reachable state, although
\* references dangle and m_tickled is written under a read lock.
THEOREM CoverInvariance == Spec => []CoverInv
<1>1. Init => CoverInv
  <2> SUFFICES ASSUME Init PROVE CoverInv
    OBVIOUS
  <2>1. TypeOK
    <3>1. 0 \in -MaxLag .. MaxDelay /\ 0 \in 0 .. Unlimited
      BY TimerAssumption DEF TimerAssumption, Unlimited
    <3>2. /\ left \in [Timers -> -MaxLag .. MaxDelay]
          /\ period \in [Timers -> 0 .. MaxDelay]
          /\ timeout \in [Workers -> 0 .. Unlimited]
          /\ age \in [Workers -> 0 .. MaxLag]
      BY <3>1, TimerAssumption DEF TimerAssumption, Init
    <3>3. /\ pc \in [Threads -> Positions]
          /\ adding \in [Threads -> SUBSET Timers]
          /\ next \in [Workers -> SUBSET Timers]
          /\ cbs \in [Workers -> SUBSET Timers]
      BY DEF Init, Positions
    <3> QED
      BY <3>2, <3>3 DEF Init, LockInit, TypeOK
  <2> QED
    BY <2>1 DEF Init, CoverInv, References, Noticed, Covered
<1> QED BY <1>1, CoverStep, PTL DEF Spec

\* While all workers wait, one of them wakes up in time for each timer, or a
\* tickle is on its way, or a timer of 2^31 ms or more comes first
\* (timer.cpp:70-75, 85; IOmanager.cpp:228-241).
THEOREM FirstTimerIsCovered == Spec => []FrontCovered
<1>1. CoverInv => FrontCovered
  <2> SUFFICES ASSUME CoverInv, NEW x \in m_timers, ~Alarm, ~BehindFar(x)
               PROVE  \E t \in Workers :
                        ~At(t, "wait") \/ InTime(t, x)
    BY DEF Alarm, FrontCovered
  <2>1. PICK t \in Workers : Covers(t, x)
    BY DEF CoverInv, Covered
  <2>2. At(t, "deref") => ~At(t, "wait")
    BY DEF At
  <2> QED
    BY <2>1, <2>2 DEF Covers, Looking
<1> QED BY <1>1, CoverInvariance, PTL

=============================================================================
