--------------------------- MODULE SchedulerProofs ---------------------------
(***************************************************************************)
(* Type correctness and the safety of the scheduler, and that it           *)
(* implements the pool, for any number of workers and coroutines.          *)
(***************************************************************************)
EXTENDS SchedulerInv, SchedulerPool, SequenceTheorems, TLAPS

-----------------------------------------------------------------------------
(***************************************************************************)
(* The list.                                                               *)
(***************************************************************************)

\* What taking the entry at position i out of a sequence leaves.
LEMMA RemoveAtFacts ==
  ASSUME NEW S, NEW s \in Seq(S), NEW i \in 1 .. Len(s)
  PROVE  /\ RemoveAt(s, i) \in Seq(S)
         /\ Len(RemoveAt(s, i)) = Len(s) - 1
         /\ \A j \in 1 .. Len(s) - 1 :
              RemoveAt(s, i)[j] = IF j < i THEN s[j] ELSE s[j + 1]
<1> DEFINE front == SubSeq(s, 1, i - 1)
           back  == SubSeq(s, i + 1, Len(s))
<1>1. /\ front \in Seq(S)
      /\ Len(front) = i - 1
      /\ \A j \in 1 .. i - 1 : front[j] = s[j]
  OBVIOUS
<1>2. /\ back \in Seq(S)
      /\ Len(back) = Len(s) - i
      /\ \A j \in 1 .. Len(s) - i : back[j] = s[i + j]
  OBVIOUS
<1>3. RemoveAt(s, i) = front \o back
  BY DEF RemoveAt
<1> HIDE DEF front, back
<1>4. /\ front \o back \in Seq(S)
      /\ Len(front \o back) = Len(s) - 1
  BY <1>1, <1>2
<1>5. ASSUME NEW j \in 1 .. Len(s) - 1
      PROVE  (front \o back)[j] = IF j < i THEN s[j] ELSE s[j + 1]
  BY <1>1, <1>2, <1>4
<1> QED BY <1>3, <1>4, <1>5

\* What Pick leaves in the list when every coroutine has at most one entry.
LEMMA TakeFacts ==
  ASSUME m_fibers \in Seq(Entries), QueueDistinct, NEW k \in DOMAIN m_fibers,
         m_fibers' = RemoveAt(m_fibers, k)
  PROVE  /\ m_fibers' \in Seq(Entries)
         /\ \A j \in DOMAIN m_fibers' :
              \E i \in DOMAIN m_fibers : i # k /\ m_fibers'[j] = m_fibers[i]
         /\ QueueDistinct'
         /\ \A g : Queued(g)' <=> Queued(g) /\ g # m_fibers[k].fiber
<1> DEFINE n == Len(m_fibers)
           rest == RemoveAt(m_fibers, k)
<1>1. k \in 1 .. n /\ n \in Nat
  OBVIOUS
<1>2. /\ rest \in Seq(Entries)
      /\ Len(rest) = n - 1
      /\ \A j \in 1 .. n - 1 :
           rest[j] = IF j < k THEN m_fibers[j] ELSE m_fibers[j + 1]
  BY <1>1, RemoveAtFacts
<1> HIDE DEF rest
<1>3. DOMAIN rest = 1 .. n - 1
  BY <1>2
<1>4. \A j \in 1 .. n - 1 :
        \E i \in 1 .. n : i # k /\ rest[j] = m_fibers[i]
  <2> TAKE j \in 1 .. n - 1
  <2> DEFINE i == IF j < k THEN j ELSE j + 1
  <2>1. i \in 1 .. n /\ i # k /\ rest[j] = m_fibers[i]
    BY <1>1, <1>2
  <2> QED BY <2>1
<1>5. \A i \in 1 .. n : i # k => \E j \in 1 .. n - 1 : rest[j] = m_fibers[i]
  <2> SUFFICES ASSUME NEW i \in 1 .. n, i # k
               PROVE  \E j \in 1 .. n - 1 : rest[j] = m_fibers[i]
    OBVIOUS
  <2> DEFINE j == IF i < k THEN i ELSE i - 1
  <2>1. j \in 1 .. n - 1 /\ rest[j] = m_fibers[i]
    BY <1>1, <1>2
  <2> QED BY <2>1
<1>6. \A i, j \in 1 .. n - 1 : rest[i].fiber = rest[j].fiber => i = j
  <2> TAKE i, j \in 1 .. n - 1
  <2> DEFINE from(x) == IF x < k THEN x ELSE x + 1
  <2>1. /\ from(i) \in 1 .. n /\ rest[i] = m_fibers[from(i)]
        /\ from(j) \in 1 .. n /\ rest[j] = m_fibers[from(j)]
        /\ from(i) = from(j) => i = j
    BY <1>1, <1>2
  <2> HIDE DEF from
  <2>2. DOMAIN m_fibers = 1 .. n
    OBVIOUS
  <2> QED BY <2>1, <2>2 DEF QueueDistinct
<1>7. m_fibers' = rest
  BY DEF rest
<1>8. QueueDistinct'
  BY <1>3, <1>6, <1>7 DEF QueueDistinct
<1>9. DOMAIN m_fibers = 1 .. n
  OBVIOUS
<1>10. \A g : Queued(g)' <=> Queued(g) /\ g # m_fibers[k].fiber
  <2> TAKE g
  <2>1. Queued(g)' <=> \E j \in 1 .. n - 1 : rest[j].fiber = g
    BY <1>3, <1>7 DEF Queued
  <2>2. Queued(g) <=> \E i \in 1 .. n : m_fibers[i].fiber = g
    BY <1>9 DEF Queued
  <2>3. \A i \in 1 .. n : i # k => m_fibers[i].fiber # m_fibers[k].fiber
    BY <1>1, <1>9 DEF QueueDistinct
  <2> HIDE DEF n
  <2>4. (\E j \in 1 .. n - 1 : rest[j].fiber = g)
          => Queued(g) /\ g # m_fibers[k].fiber
    BY <1>4, <2>2, <2>3
  <2>5. Queued(g) /\ g # m_fibers[k].fiber
          => \E j \in 1 .. n - 1 : rest[j].fiber = g
    BY <1>5, <2>2
  <2> QED BY <2>1, <2>4, <2>5
<1>11. \A j \in DOMAIN m_fibers' :
         \E i \in DOMAIN m_fibers : i # k /\ m_fibers'[j] = m_fibers[i]
  BY <1>3, <1>4, <1>7, <1>9
<1> HIDE DEF n
<1> QED BY <1>2, <1>7, <1>8, <1>10, <1>11

\* What scheduling a coroutine adds to the list.
LEMMA PushFacts ==
  ASSUME NEW f \in Fibers, NEW isCb \in BOOLEAN, NEW th \in Threads \cup {AnyThread},
         m_fibers \in Seq(Entries), PushBack(f, isCb, th)
  PROVE  /\ m_fibers' \in Seq(Entries)
         /\ Len(m_fibers') = Len(m_fibers) + 1
         /\ \A j \in 1 .. Len(m_fibers) : m_fibers'[j] = m_fibers[j]
         /\ m_fibers'[Len(m_fibers) + 1] = [fiber |-> f, cb |-> isCb, thread |-> th]
         /\ \A g : Queued(g)' <=> Queued(g) \/ g = f
<1> DEFINE e == [fiber |-> f, cb |-> isCb, thread |-> th]
<1>1. e \in Entries
  BY DEF Entries
<1>2. /\ m_fibers' \in Seq(Entries)
      /\ Len(m_fibers') = Len(m_fibers) + 1
      /\ \A j \in 1 .. Len(m_fibers) : m_fibers'[j] = m_fibers[j]
      /\ m_fibers'[Len(m_fibers) + 1] = e
  BY <1>1 DEF PushBack
<1>3. \A g : Queued(g)' <=> Queued(g) \/ g = f
  BY <1>2 DEF Queued
<1> QED BY <1>2, <1>3

-----------------------------------------------------------------------------
(***************************************************************************)
(* What a step leaves alone.                                               *)
(***************************************************************************)

\* The Fiber object and the place of coroutine g, and who the workers are, as
\* far as IInv looks at them.
Same(g) ==
  /\ m_threads' = m_threads
  /\ m_state'[g] = m_state[g] /\ m_ctx'[g] = m_ctx[g]
  /\ uc_link'[g] = uc_link[g] /\ begun'[g] = begun[g]
  /\ wanted'[g] = wanted[g]
  /\ g \in armed' <=> g \in armed
  /\ g \in done' <=> g \in done
  /\ Queued(g)' <=> Queued(g)

\* A step that changes neither worker u nor the coroutine it holds keeps
\* what the invariant says of u.
LEMMA HandFrame ==
  ASSUME NEW u \in Threads, ~aborted, HandInv(u), pc'[u] = pc[u],
         cur'[u] = cur[u], cur[u] # NoFiber => Same(cur[u])
  PROVE  HandInv(u)'
<1>1. CASE cur[u] = NoFiber
  BY <1>1 DEF HandInv
<1>2. CASE cur[u] # NoFiber
  BY <1>2 DEF HandInv, Same, Resumable, Asleep, Yielded, Started, Over
<1> QED BY <1>1, <1>2

\* A step that leaves coroutine g alone, and the workers that hold it, keeps
\* what the invariant says of g.
LEMMA FiberFrame ==
  ASSUME NEW g \in Fibers, ~aborted, FiberInv(g), Same(g),
         \A u \in Threads : /\ cur'[u] = g <=> cur[u] = g
                            /\ cur[u] = g => pc'[u] = pc[u]
  PROVE  FiberInv(g)'
BY DEF FiberInv, Same, InHand, Started

\* The same for an entry of the list.
LEMMA EntryFrame ==
  ASSUME NEW e \in Entries, ~aborted, EntryInv(e), Same(e.fiber),
         \A u \in Threads : /\ cur'[u] = e.fiber <=> cur[u] = e.fiber
                            /\ cur[u] = e.fiber => pc'[u] = pc[u]
  PROVE  EntryInv(e)'
BY DEF EntryInv, Same, InHand, Resumable

\* A step of worker t that touches its own coroutine only and not the list
\* keeps the invariant if it keeps what the invariant says of these two.
LEMMA LocalStep ==
  ASSUME IInv, ~aborted, NEW t \in Threads, NEW f \in Fibers,
         TypeOK', m_fibers' = m_fibers,
         cur[t] = f, cur'[t] \in {f, NoFiber},
         \A u \in Threads : u # t => pc'[u] = pc[u] /\ cur'[u] = cur[u],
         \A g \in Fibers : g # f => Same(g),
         HandInv(t)',
         \A e \in Entries : e.fiber = f /\ Queued(f) /\ EntryInv(e) => EntryInv(e)',
         FiberInv(f)',
         OnlyThrowersAbort'
  PROVE  IInv'
<1>1. \A u \in Threads : u # t => cur[u] # f
  BY FiberAssumption DEF IInv, HandsDistinct
<1>2. QueueDistinct'
  BY DEF IInv, QueueDistinct
<1>3. HandsDistinct'
  BY <1>1, FiberAssumption DEF IInv, HandsDistinct
<1>4. ASSUME NEW u \in Threads, u # t PROVE HandInv(u)'
  <2>1. cur[u] \in Fibers \cup {NoFiber}
    BY DEF IInv, TypeOK
  <2>2. cur[u] # NoFiber => Same(cur[u])
    BY <2>1, <1>1, <1>4
  <2> QED BY <2>2, <1>4, HandFrame DEF IInv
<1>5. ASSUME NEW g \in Fibers, g # f
      PROVE  \A u \in Threads : /\ cur'[u] = g <=> cur[u] = g
                                /\ cur[u] = g => pc'[u] = pc[u]
  BY <1>1, <1>5, FiberAssumption
<1>6. ASSUME NEW g \in Fibers PROVE FiberInv(g)'
  <2>1. CASE g = f
    BY <2>1
  <2>2. CASE g # f
    BY <2>2, <1>5, FiberFrame DEF IInv
  <2> QED BY <2>1, <2>2
<1>7. ASSUME NEW i \in DOMAIN m_fibers PROVE EntryInv(m_fibers[i])'
  <2> DEFINE e == m_fibers[i]
  <2>1. e \in Entries /\ e.fiber \in Fibers
    <3>1. m_fibers \in Seq(Entries)
      BY DEF IInv, TypeOK
    <3>2. e \in Entries
      BY <3>1
    <3> QED BY <3>2 DEF Entries
  <2>2. EntryInv(e)
    BY DEF IInv
  <2>3. m_fibers[i]' = e
    OBVIOUS
  <2> HIDE DEF e
  <2>4. ASSUME NEW x \in Entries, EntryInv(x), x.fiber \in Fibers, Queued(x.fiber)
        PROVE  EntryInv(x)'
    <3>1. CASE x.fiber = f
      BY <2>4, <3>1
    <3>2. CASE x.fiber # f
      BY <2>4, <3>2, <1>5, EntryFrame
    <3> QED BY <3>1, <3>2
  <2>5. Queued(e.fiber)
    BY DEF e, Queued
  <2> QED BY <2>1, <2>2, <2>3, <2>4, <2>5
<1> QED BY <1>2, <1>3, <1>4, <1>6, <1>7 DEF IInv

\* The facts about worker t and its coroutine that every proof below uses.
LEMMA Holding ==
  ASSUME IInv, NEW t \in Threads, pc[t] # "pick"
  PROVE  /\ TypeOK /\ cur[t] \in Fibers /\ HandInv(t) /\ FiberInv(cur[t])
         /\ \A u \in Threads : cur[u] = cur[t] => u = t
         /\ m_state[cur[t]] = "EXCEPT" => aborted
BY FiberAssumption DEF IInv, TypeOK, HandInv, HandsDistinct, FiberInv

\* Resuming a Fiber that was taken out of the list.
LEMMA ResumeInv == ASSUME IInv, NEW t \in Threads, Resume(t) PROVE IInv'
<1>1. pc[t] # "pick" /\ ~aborted
  BY DEF Resume
<1>2. PICK f \in Fibers :
        /\ cur[t] = f
        /\ TypeOK /\ HandInv(t) /\ FiberInv(f)
        /\ \A u \in Threads : cur[u] = f => u = t
        /\ m_state[f] # "EXCEPT"
  BY <1>1, Holding
<1>3. TypeOK'
  BY <1>1, <1>2 DEF Resume, TypeOK, States, HandInv, SwapIn
<1>4. HandInv(t)'
  BY <1>1, <1>2, FiberAssumption DEF Resume, TypeOK, HandInv, FiberInv, Queued, InHand, Resumable,
     Asleep, Yielded, Started, Over, SwapIn
<1>5. ASSUME NEW e \in Entries, e.fiber = f, Queued(f), EntryInv(e) PROVE EntryInv(e)'
  BY <1>1, <1>2, <1>5, FiberAssumption DEF Resume, TypeOK, HandInv, EntryInv, Queued, InHand,
     Resumable, Asleep, Yielded, Started, Over, SwapIn
<1>6. FiberInv(f)'
  BY <1>1, <1>2, FiberAssumption DEF Resume, TypeOK, HandInv, FiberInv, Queued, InHand,
     Resumable, Asleep, Yielded, Started, Over, SwapIn
<1>7. OnlyThrowersAbort'
  BY <1>1, <1>2 DEF Resume, TypeOK, HandInv, OnlyThrowersAbort, Resumable, Started, SwapIn
<1>8. /\ m_fibers' = m_fibers /\ cur'[t] \in {f, NoFiber}
      /\ \A u \in Threads : u # t => pc'[u] = pc[u] /\ cur'[u] = cur[u]
      /\ \A g \in Fibers : g # f => Same(g)
  BY <1>1, <1>2 DEF Resume, TypeOK, HandInv, Same, Queued, SwapIn
<1> QED BY <1>1, <1>2, <1>3, <1>4, <1>5, <1>6, <1>7, <1>8, LocalStep

\* Entering a callback in a new Fiber.
LEMMA WrapInv == ASSUME IInv, NEW t \in Threads, Wrap(t) PROVE IInv'
<1>1. pc[t] # "pick" /\ ~aborted
  BY DEF Wrap, NewFiber
<1>2. PICK f \in Fibers :
        /\ cur[t] = f
        /\ TypeOK /\ HandInv(t) /\ FiberInv(f)
        /\ \A u \in Threads : cur[u] = f => u = t
        /\ m_state[f] # "EXCEPT"
  BY <1>1, Holding
<1>3. TypeOK'
  BY <1>1, <1>2 DEF Wrap, NewFiber, TypeOK, States, HandInv, SwapIn
<1>4. HandInv(t)'
  BY <1>1, <1>2, FiberAssumption DEF Wrap, NewFiber, TypeOK, HandInv, FiberInv, Queued, InHand, Resumable,
     Asleep, Yielded, Started, Over, SwapIn
<1>5. ASSUME NEW e \in Entries, e.fiber = f, Queued(f), EntryInv(e) PROVE EntryInv(e)'
  BY <1>1, <1>2, <1>5, FiberAssumption DEF Wrap, NewFiber, TypeOK, HandInv, EntryInv, Queued, InHand,
     Resumable, Asleep, Yielded, Started, Over, SwapIn
<1>6. FiberInv(f)'
  BY <1>1, <1>2, FiberAssumption DEF Wrap, NewFiber, TypeOK, HandInv, FiberInv, Queued, InHand,
     Resumable, Asleep, Yielded, Started, Over, SwapIn
<1>7. OnlyThrowersAbort'
  BY <1>1, <1>2 DEF Wrap, NewFiber, TypeOK, HandInv, OnlyThrowersAbort, Resumable, Started, SwapIn
<1>8. /\ m_fibers' = m_fibers /\ cur'[t] \in {f, NoFiber}
      /\ \A u \in Threads : u # t => pc'[u] = pc[u] /\ cur'[u] = cur[u]
      /\ \A g \in Fibers : g # f => Same(g)
  BY <1>1, <1>2 DEF Wrap, NewFiber, TypeOK, HandInv, Same, Queued, SwapIn
<1> QED BY <1>1, <1>2, <1>3, <1>4, <1>5, <1>6, <1>7, <1>8, LocalStep

\* A coroutine yields and stays runnable.
LEMMA YieldToReadyInv == ASSUME IInv, NEW t \in Threads, YieldToReady(t) PROVE IInv'
<1>1. pc[t] # "pick" /\ ~aborted
  BY DEF YieldToReady
<1>2. PICK f \in Fibers :
        /\ cur[t] = f
        /\ TypeOK /\ HandInv(t) /\ FiberInv(f)
        /\ \A u \in Threads : cur[u] = f => u = t
        /\ m_state[f] # "EXCEPT"
  BY <1>1, Holding
<1>3. TypeOK'
  BY <1>1, <1>2 DEF YieldToReady, TypeOK, States, HandInv
<1>4. HandInv(t)'
  BY <1>1, <1>2, FiberAssumption DEF YieldToReady, TypeOK, HandInv, FiberInv, Queued, InHand, Resumable,
     Asleep, Yielded, Started, Over
<1>5. ASSUME NEW e \in Entries, e.fiber = f, Queued(f), EntryInv(e) PROVE EntryInv(e)'
  BY <1>1, <1>2, <1>5, FiberAssumption DEF YieldToReady, TypeOK, HandInv, EntryInv, Queued, InHand,
     Resumable, Asleep, Yielded, Started, Over
<1>6. FiberInv(f)'
  BY <1>1, <1>2, FiberAssumption DEF YieldToReady, TypeOK, HandInv, FiberInv, Queued, InHand,
     Resumable, Asleep, Yielded, Started, Over
<1>7. OnlyThrowersAbort'
  BY <1>1, <1>2 DEF YieldToReady, TypeOK, HandInv, OnlyThrowersAbort, Resumable, Started
<1>8. /\ m_fibers' = m_fibers /\ cur'[t] \in {f, NoFiber}
      /\ \A u \in Threads : u # t => pc'[u] = pc[u] /\ cur'[u] = cur[u]
      /\ \A g \in Fibers : g # f => Same(g)
  BY <1>1, <1>2 DEF YieldToReady, TypeOK, HandInv, Same, Queued
<1> QED BY <1>1, <1>2, <1>3, <1>4, <1>5, <1>6, <1>7, <1>8, LocalStep

\* A coroutine registers its wake-up.
LEMMA ArmWakeInv == ASSUME IInv, ~SharedSleep, NEW t \in Threads, ArmWake(t) PROVE IInv'
<1>1. pc[t] # "pick" /\ ~aborted
  BY DEF ArmWake
<1>2. PICK f \in Fibers :
        /\ cur[t] = f
        /\ TypeOK /\ HandInv(t) /\ FiberInv(f)
        /\ \A u \in Threads : cur[u] = f => u = t
        /\ m_state[f] # "EXCEPT"
  BY <1>1, Holding
<1>3. TypeOK'
  BY <1>1, <1>2 DEF ArmWake, TypeOK, States, HandInv
<1>4. HandInv(t)'
  BY <1>1, <1>2, FiberAssumption DEF ArmWake, TypeOK, HandInv, FiberInv, Queued, InHand, Resumable,
     Asleep, Yielded, Started, Over
<1>5. ASSUME NEW e \in Entries, e.fiber = f, Queued(f), EntryInv(e) PROVE EntryInv(e)'
  BY <1>1, <1>2, <1>5, FiberAssumption DEF ArmWake, TypeOK, HandInv, EntryInv, Queued, InHand,
     Resumable, Asleep, Yielded, Started, Over
<1>6. FiberInv(f)'
  BY <1>1, <1>2, FiberAssumption DEF ArmWake, TypeOK, HandInv, FiberInv, Queued, InHand,
     Resumable, Asleep, Yielded, Started, Over
<1>7. OnlyThrowersAbort'
  BY <1>1, <1>2 DEF ArmWake, TypeOK, HandInv, OnlyThrowersAbort, Resumable, Started
<1>8. /\ m_fibers' = m_fibers /\ cur'[t] \in {f, NoFiber}
      /\ \A u \in Threads : u # t => pc'[u] = pc[u] /\ cur'[u] = cur[u]
      /\ \A g \in Fibers : g # f => Same(g)
  BY <1>1, <1>2 DEF ArmWake, TypeOK, HandInv, Same, Queued
<1> QED BY <1>1, <1>2, <1>3, <1>4, <1>5, <1>6, <1>7, <1>8, LocalStep

\* A coroutine goes to sleep; its wake-up may have come already.
LEMMA YieldToHoldInv == ASSUME IInv, NEW t \in Threads, YieldToHold(t) PROVE IInv'
<1>1. pc[t] # "pick" /\ ~aborted
  BY DEF YieldToHold
<1>2. PICK f \in Fibers :
        /\ cur[t] = f
        /\ TypeOK /\ HandInv(t) /\ FiberInv(f)
        /\ \A u \in Threads : cur[u] = f => u = t
        /\ m_state[f] # "EXCEPT"
  BY <1>1, Holding
<1>3. TypeOK'
  BY <1>1, <1>2 DEF YieldToHold, TypeOK, States, HandInv
<1>4. HandInv(t)'
  BY <1>1, <1>2, FiberAssumption DEF YieldToHold, TypeOK, HandInv, FiberInv, Queued, InHand, Resumable,
     Asleep, Yielded, Started, Over
<1>5. ASSUME NEW e \in Entries, e.fiber = f, Queued(f), EntryInv(e) PROVE EntryInv(e)'
  BY <1>1, <1>2, <1>5, FiberAssumption DEF YieldToHold, TypeOK, HandInv, EntryInv, Queued, InHand,
     Resumable, Asleep, Yielded, Started, Over
<1>6. FiberInv(f)'
  BY <1>1, <1>2, FiberAssumption DEF YieldToHold, TypeOK, HandInv, FiberInv, Queued, InHand,
     Resumable, Asleep, Yielded, Started, Over
<1>7. OnlyThrowersAbort'
  BY <1>1, <1>2 DEF YieldToHold, TypeOK, HandInv, OnlyThrowersAbort, Resumable, Started
<1>8. /\ m_fibers' = m_fibers /\ cur'[t] \in {f, NoFiber}
      /\ \A u \in Threads : u # t => pc'[u] = pc[u] /\ cur'[u] = cur[u]
      /\ \A g \in Fibers : g # f => Same(g)
  BY <1>1, <1>2 DEF YieldToHold, TypeOK, HandInv, Same, Queued
<1> QED BY <1>1, <1>2, <1>3, <1>4, <1>5, <1>6, <1>7, <1>8, LocalStep

\* A coroutine's stack is saved.
LEMMA SwapOutInv == ASSUME IInv, NEW t \in Threads, SwapOut(t) PROVE IInv'
<1>1. pc[t] # "pick" /\ ~aborted
  BY DEF SwapOut
<1>2. PICK f \in Fibers :
        /\ cur[t] = f
        /\ TypeOK /\ HandInv(t) /\ FiberInv(f)
        /\ \A u \in Threads : cur[u] = f => u = t
        /\ m_state[f] # "EXCEPT"
  BY <1>1, Holding
<1>3. TypeOK'
  BY <1>1, <1>2 DEF SwapOut, TypeOK, States, HandInv
<1>4. HandInv(t)'
  BY <1>1, <1>2, FiberAssumption DEF SwapOut, TypeOK, HandInv, FiberInv, Queued, InHand, Resumable,
     Asleep, Yielded, Started, Over
<1>5. ASSUME NEW e \in Entries, e.fiber = f, Queued(f), EntryInv(e) PROVE EntryInv(e)'
  BY <1>1, <1>2, <1>5, FiberAssumption DEF SwapOut, TypeOK, HandInv, EntryInv, Queued, InHand,
     Resumable, Asleep, Yielded, Started, Over
<1>6. FiberInv(f)'
  BY <1>1, <1>2, FiberAssumption DEF SwapOut, TypeOK, HandInv, FiberInv, Queued, InHand,
     Resumable, Asleep, Yielded, Started, Over
<1>7. OnlyThrowersAbort'
  BY <1>1, <1>2 DEF SwapOut, TypeOK, HandInv, OnlyThrowersAbort, Resumable, Started
<1>8. /\ m_fibers' = m_fibers /\ cur'[t] \in {f, NoFiber}
      /\ \A u \in Threads : u # t => pc'[u] = pc[u] /\ cur'[u] = cur[u]
      /\ \A g \in Fibers : g # f => Same(g)
  BY <1>1, <1>2 DEF SwapOut, TypeOK, HandInv, Same, Queued
<1> QED BY <1>1, <1>2, <1>3, <1>4, <1>5, <1>6, <1>7, <1>8, LocalStep

\* A callback returns.
LEMMA FinishInv == ASSUME IInv, NEW t \in Threads, Finish(t) PROVE IInv'
<1>1. pc[t] # "pick" /\ ~aborted
  BY DEF Finish
<1>2. PICK f \in Fibers :
        /\ cur[t] = f
        /\ TypeOK /\ HandInv(t) /\ FiberInv(f)
        /\ \A u \in Threads : cur[u] = f => u = t
        /\ m_state[f] # "EXCEPT"
  BY <1>1, Holding
<1>3. TypeOK'
  BY <1>1, <1>2 DEF Finish, TypeOK, States, HandInv
<1>4. HandInv(t)'
  BY <1>1, <1>2, FiberAssumption DEF Finish, TypeOK, HandInv, FiberInv, Queued, InHand, Resumable,
     Asleep, Yielded, Started, Over
<1>5. ASSUME NEW e \in Entries, e.fiber = f, Queued(f), EntryInv(e) PROVE EntryInv(e)'
  BY <1>1, <1>2, <1>5, FiberAssumption DEF Finish, TypeOK, HandInv, EntryInv, Queued, InHand,
     Resumable, Asleep, Yielded, Started, Over
<1>6. FiberInv(f)'
  BY <1>1, <1>2, FiberAssumption DEF Finish, TypeOK, HandInv, FiberInv, Queued, InHand,
     Resumable, Asleep, Yielded, Started, Over
<1>7. OnlyThrowersAbort'
  BY <1>1, <1>2 DEF Finish, TypeOK, HandInv, OnlyThrowersAbort, Resumable, Started
<1>8. /\ m_fibers' = m_fibers /\ cur'[t] \in {f, NoFiber}
      /\ \A u \in Threads : u # t => pc'[u] = pc[u] /\ cur'[u] = cur[u]
      /\ \A g \in Fibers : g # f => Same(g)
  BY <1>1, <1>2 DEF Finish, TypeOK, HandInv, Same, Queued
<1> QED BY <1>1, <1>2, <1>3, <1>4, <1>5, <1>6, <1>7, <1>8, LocalStep

\* An exception escapes a callback.
LEMMA ThrowInv == ASSUME IInv, NEW t \in Threads, Throw(t) PROVE IInv'
<1>1. pc[t] # "pick" /\ ~aborted
  BY DEF Throw
<1>2. PICK f \in Fibers :
        /\ cur[t] = f
        /\ TypeOK /\ HandInv(t) /\ FiberInv(f)
        /\ \A u \in Threads : cur[u] = f => u = t
        /\ m_state[f] # "EXCEPT"
  BY <1>1, Holding
<1>3. TypeOK'
  BY <1>1, <1>2 DEF Throw, TypeOK, States, HandInv
<1>4. HandInv(t)'
  BY <1>1, <1>2, FiberAssumption DEF Throw, TypeOK, HandInv, FiberInv, Queued, InHand, Resumable,
     Asleep, Yielded, Started, Over
<1>5. ASSUME NEW e \in Entries, e.fiber = f, Queued(f), EntryInv(e) PROVE EntryInv(e)'
  BY <1>1, <1>2, <1>5, FiberAssumption DEF Throw, TypeOK, HandInv, EntryInv, Queued, InHand,
     Resumable, Asleep, Yielded, Started, Over
<1>6. FiberInv(f)'
  BY <1>1, <1>2, FiberAssumption DEF Throw, TypeOK, HandInv, FiberInv, Queued, InHand,
     Resumable, Asleep, Yielded, Started, Over
<1>7. OnlyThrowersAbort'
  BY <1>1, <1>2 DEF Throw, TypeOK, HandInv, OnlyThrowersAbort, Resumable, Started
<1>8. /\ m_fibers' = m_fibers /\ cur'[t] \in {f, NoFiber}
      /\ \A u \in Threads : u # t => pc'[u] = pc[u] /\ cur'[u] = cur[u]
      /\ \A g \in Fibers : g # f => Same(g)
  BY <1>1, <1>2 DEF Throw, TypeOK, HandInv, Same, Queued
<1> QED BY <1>1, <1>2, <1>3, <1>4, <1>5, <1>6, <1>7, <1>8, LocalStep

\* MainFunc returns to the loop.
LEMMA ReturnInv == ASSUME IInv, NEW t \in Threads, Return(t) PROVE IInv'
<1>1. pc[t] # "pick" /\ ~aborted
  BY DEF Return
<1>2. PICK f \in Fibers :
        /\ cur[t] = f
        /\ TypeOK /\ HandInv(t) /\ FiberInv(f)
        /\ \A u \in Threads : cur[u] = f => u = t
        /\ m_state[f] # "EXCEPT"
  BY <1>1, Holding
<1>3. TypeOK'
  BY <1>1, <1>2 DEF Return, TypeOK, States, HandInv
<1>4. HandInv(t)'
  BY <1>1, <1>2, FiberAssumption DEF Return, TypeOK, HandInv, FiberInv, Queued, InHand, Resumable,
     Asleep, Yielded, Started, Over
<1>5. ASSUME NEW e \in Entries, e.fiber = f, Queued(f), EntryInv(e) PROVE EntryInv(e)'
  BY <1>1, <1>2, <1>5, FiberAssumption DEF Return, TypeOK, HandInv, EntryInv, Queued, InHand,
     Resumable, Asleep, Yielded, Started, Over
<1>6. FiberInv(f)'
  BY <1>1, <1>2, FiberAssumption DEF Return, TypeOK, HandInv, FiberInv, Queued, InHand,
     Resumable, Asleep, Yielded, Started, Over
<1>7. OnlyThrowersAbort'
  BY <1>1, <1>2 DEF Return, TypeOK, HandInv, OnlyThrowersAbort, Resumable, Started
<1>8. /\ m_fibers' = m_fibers /\ cur'[t] \in {f, NoFiber}
      /\ \A u \in Threads : u # t => pc'[u] = pc[u] /\ cur'[u] = cur[u]
      /\ \A g \in Fibers : g # f => Same(g)
  BY <1>1, <1>2 DEF Return, TypeOK, HandInv, Same, Queued
<1> QED BY <1>1, <1>2, <1>3, <1>4, <1>5, <1>6, <1>7, <1>8, LocalStep

\* The loop reads the state it finds.
LEMMA AfterInv == ASSUME IInv, NEW t \in Threads, After(t) PROVE IInv'
<1>1. pc[t] # "pick" /\ ~aborted
  BY DEF After
<1>2. PICK f \in Fibers :
        /\ cur[t] = f
        /\ TypeOK /\ HandInv(t) /\ FiberInv(f)
        /\ \A u \in Threads : cur[u] = f => u = t
        /\ m_state[f] # "EXCEPT"
  BY <1>1, Holding
<1>3. TypeOK'
  BY <1>1, <1>2 DEF After, TypeOK, States, HandInv
<1>4. HandInv(t)'
  BY <1>1, <1>2, FiberAssumption DEF After, TypeOK, HandInv, FiberInv, Queued, InHand, Resumable,
     Asleep, Yielded, Started, Over
<1>5. ASSUME NEW e \in Entries, e.fiber = f, Queued(f), EntryInv(e) PROVE EntryInv(e)'
  BY <1>1, <1>2, <1>5, FiberAssumption DEF After, TypeOK, HandInv, EntryInv, Queued, InHand,
     Resumable, Asleep, Yielded, Started, Over
<1>6. FiberInv(f)'
  BY <1>1, <1>2, FiberAssumption DEF After, TypeOK, HandInv, FiberInv, Queued, InHand,
     Resumable, Asleep, Yielded, Started, Over
<1>7. OnlyThrowersAbort'
  BY <1>1, <1>2 DEF After, TypeOK, HandInv, OnlyThrowersAbort, Resumable, Started
<1>8. /\ m_fibers' = m_fibers /\ cur'[t] \in {f, NoFiber}
      /\ \A u \in Threads : u # t => pc'[u] = pc[u] /\ cur'[u] = cur[u]
      /\ \A g \in Fibers : g # f => Same(g)
  BY <1>1, <1>2 DEF After, TypeOK, HandInv, Same, Queued
<1> QED BY <1>1, <1>2, <1>3, <1>4, <1>5, <1>6, <1>7, <1>8, LocalStep

\* The loop leaves the coroutine to its wake-up.
LEMMA HoldInv == ASSUME IInv, NEW t \in Threads, Hold(t) PROVE IInv'
<1>1. pc[t] # "pick" /\ ~aborted
  BY DEF Hold
<1>2. PICK f \in Fibers :
        /\ cur[t] = f
        /\ TypeOK /\ HandInv(t) /\ FiberInv(f)
        /\ \A u \in Threads : cur[u] = f => u = t
        /\ m_state[f] # "EXCEPT"
  BY <1>1, Holding
<1>3. TypeOK'
  BY <1>1, <1>2 DEF Hold, TypeOK, States, HandInv
<1>4. HandInv(t)'
  BY <1>1, <1>2, FiberAssumption DEF Hold, TypeOK, HandInv, FiberInv, Queued, InHand, Resumable,
     Asleep, Yielded, Started, Over
<1>5. ASSUME NEW e \in Entries, e.fiber = f, Queued(f), EntryInv(e) PROVE EntryInv(e)'
  BY <1>1, <1>2, <1>5, FiberAssumption DEF Hold, TypeOK, HandInv, EntryInv, Queued, InHand,
     Resumable, Asleep, Yielded, Started, Over
<1>6. FiberInv(f)'
  BY <1>1, <1>2, FiberAssumption DEF Hold, TypeOK, HandInv, FiberInv, Queued, InHand,
     Resumable, Asleep, Yielded, Started, Over
<1>7. OnlyThrowersAbort'
  BY <1>1, <1>2 DEF Hold, TypeOK, HandInv, OnlyThrowersAbort, Resumable, Started
<1>8. /\ m_fibers' = m_fibers /\ cur'[t] \in {f, NoFiber}
      /\ \A u \in Threads : u # t => pc'[u] = pc[u] /\ cur'[u] = cur[u]
      /\ \A g \in Fibers : g # f => Same(g)
  BY <1>1, <1>2 DEF Hold, TypeOK, HandInv, Same, Queued
<1> QED BY <1>1, <1>2, <1>3, <1>4, <1>5, <1>6, <1>7, <1>8, LocalStep

\* A step that appends an entry for coroutine f, which had none, and touches
\* only f and its worker keeps the invariant if it keeps it for these.
LEMMA PushStep ==
  ASSUME IInv, ~aborted, NEW f \in Fibers, NEW isCb \in BOOLEAN,
         NEW th \in Threads \cup {AnyThread},
         PushBack(f, isCb, th), ~Queued(f), TypeOK',
         \A u \in Threads :
           IF cur[u] = f THEN cur'[u] \in {f, NoFiber} /\ HandInv(u)'
                         ELSE pc'[u] = pc[u] /\ cur'[u] = cur[u],
         \A g \in Fibers : g # f /\ (Queued(g)' <=> Queued(g)) => Same(g),
         EntryInv([fiber |-> f, cb |-> isCb, thread |-> th])',
         FiberInv(f)',
         OnlyThrowersAbort'
  PROVE  IInv'
<1> DEFINE n == Len(m_fibers)
<1>1. m_fibers \in Seq(Entries)
  BY DEF IInv, TypeOK
<1>2. /\ m_fibers' \in Seq(Entries)
      /\ Len(m_fibers') = n + 1
      /\ \A j \in 1 .. n : m_fibers'[j] = m_fibers[j]
      /\ m_fibers'[n + 1] = [fiber |-> f, cb |-> isCb, thread |-> th]
      /\ \A g : Queued(g)' <=> Queued(g) \/ g = f
  BY <1>1, PushFacts
<1>3. n \in Nat /\ DOMAIN m_fibers = 1 .. n /\ DOMAIN m_fibers' = 1 .. n + 1
  BY <1>1, <1>2
<1>4. \A i \in 1 .. n : m_fibers[i].fiber # f
  BY <1>3 DEF Queued
<1> HIDE DEF n
<1>5. QueueDistinct'
  <2> SUFFICES ASSUME NEW i \in 1 .. n + 1, NEW j \in 1 .. n + 1,
                      m_fibers'[i].fiber = m_fibers'[j].fiber
               PROVE  i = j
    BY <1>3 DEF QueueDistinct
  <2>1. i \in 1 .. n \/ i = n + 1
    BY <1>3
  <2>2. j \in 1 .. n \/ j = n + 1
    BY <1>3
  <2> QED BY <2>1, <2>2, <1>2, <1>3, <1>4 DEF IInv, QueueDistinct
<1>6. HandsDistinct'
  BY FiberAssumption DEF IInv, HandsDistinct
<1>7. \A g \in Fibers : g # f => Same(g)
  BY <1>2
<1>8. ASSUME NEW u \in Threads PROVE HandInv(u)'
  <2>1. CASE cur[u] = f
    BY <2>1
  <2>2. CASE cur[u] # f
    <3>1. cur[u] \in Fibers \cup {NoFiber}
      BY DEF IInv, TypeOK
    <3>2. cur[u] # NoFiber => Same(cur[u])
      BY <2>2, <3>1, <1>7
    <3> QED BY <2>2, <3>2, HandFrame DEF IInv
  <2> QED BY <2>1, <2>2
<1>9. ASSUME NEW g \in Fibers, g # f
      PROVE  \A u \in Threads : /\ cur'[u] = g <=> cur[u] = g
                                /\ cur[u] = g => pc'[u] = pc[u]
  BY <1>9, FiberAssumption
<1>10. ASSUME NEW g \in Fibers PROVE FiberInv(g)'
  <2>1. CASE g = f
    BY <2>1
  <2>2. CASE g # f
    BY <2>2, <1>7, <1>9, FiberFrame DEF IInv
  <2> QED BY <2>1, <2>2
<1>11. ASSUME NEW i \in DOMAIN m_fibers' PROVE EntryInv(m_fibers[i])'
  <2>1. CASE i = n + 1
    BY <2>1, <1>2
  <2>2. CASE i \in 1 .. n
    <3>1. m_fibers[i] \in Entries
      BY <1>1, <1>3, <2>2
    <3>2. PICK e \in Entries : e = m_fibers[i]
      BY <3>1
    <3>3. e.fiber \in Fibers /\ e.fiber # f /\ EntryInv(e)
      BY <3>2, <1>3, <1>4, <2>2 DEF IInv, Entries
    <3>4. EntryInv(e)'
      BY <3>3, <1>7, <1>9, EntryFrame
    <3>5. m_fibers'[i] = e
      BY <3>2, <2>2, <1>2
    <3> QED BY <3>4, <3>5
  <2> QED BY <2>1, <2>2, <1>3
<1> QED BY <1>5, <1>6, <1>8, <1>10, <1>11 DEF IInv

\* Scheduling a coroutine for the first time.
LEMMA SubmitInv ==
  ASSUME IInv, NEW f \in Fibers, NEW isCb \in BOOLEAN,
         NEW th \in Threads \cup {AnyThread},
         NEW c \in Threads \cup {NoThread}, Submit(c, f, isCb, th)
  PROVE  IInv'
<1>1. /\ TypeOK /\ FiberInv(f) /\ OnlyThrowersAbort /\ ~aborted
      /\ ~Queued(f) /\ ~InHand(f) /\ f \notin armed
  BY DEF IInv, Submit, FiberInv, EntryInv, Queued, Started
<1>2. Queued(f)' /\ m_fibers' \in Seq(Entries)
  BY <1>1, PushFacts DEF Submit, Schedule, TypeOK
<1>3. TypeOK'
  <2>1. blocked' \subseteq m_threads
    BY <1>1, ThreadAssumption DEF Submit, Schedule, Calls, Runs, TypeOK, ThreadAssumption
  <2> QED BY <1>1, <1>2, <2>1 DEF Submit, TypeOK
<1>4. EntryInv([fiber |-> f, cb |-> isCb, thread |-> th])'
  BY <1>1, ThreadAssumption DEF Submit, TypeOK, FiberInv, EntryInv, InHand, Resumable
<1>5. FiberInv(f)'
  BY <1>1, <1>2, ThreadAssumption DEF Submit, TypeOK, FiberInv, InHand
<1>6. OnlyThrowersAbort'
  BY <1>1 DEF Submit, OnlyThrowersAbort
<1>7. \A g \in Fibers : g # f /\ (Queued(g)' <=> Queued(g)) => Same(g)
  BY <1>1 DEF Submit, Same, TypeOK
<1>8. \A u \in Threads : cur[u] # f /\ pc'[u] = pc[u] /\ cur'[u] = cur[u]
  BY <1>1 DEF Submit, InHand
<1> QED BY <1>1, <1>3, <1>4, <1>5, <1>6, <1>7, <1>8, PushStep DEF Submit, Schedule

\* A wake-up arrives.  The worker that delivers it is not the one that is
\* still leaving the sleeper, and there is no other while one of them sleeps.
LEMMA WakeInv ==
  ASSUME IInv, NEW c \in Threads, NEW f \in Fibers, Wake(c, f) PROVE IInv'
<1>1. /\ TypeOK /\ FiberInv(f) /\ OnlyThrowersAbort /\ ~aborted
      /\ ~Queued(f) /\ f \in armed /\ f # NoFiber
      /\ c \in m_threads /\ pc[c] \in {"pick", "body"}
  BY FiberAssumption DEF IInv, Wake, Calls, Runs, EntryInv, Queued
<1>2. Queued(f)' /\ m_fibers' \in Seq(Entries)
  BY <1>1, PushFacts DEF Wake, Schedule, TypeOK
<1>3. TypeOK'
  BY <1>1, <1>2 DEF Wake, Schedule, TypeOK
<1>4. ~InHand(f)
  BY <1>1 DEF FiberInv, InHand
<1>5. EntryInv([fiber |-> f, cb |-> FALSE, thread |-> AnyThread])'
  BY <1>1, <1>4 DEF Wake, TypeOK, FiberInv, EntryInv, InHand, Resumable, Started
<1>6. FiberInv(f)'
  BY <1>1, <1>2, <1>4 DEF Wake, TypeOK, FiberInv, InHand, Started
<1>7. OnlyThrowersAbort'
  BY <1>1 DEF Wake, OnlyThrowersAbort
<1>8. \A g \in Fibers : g # f /\ (Queued(g)' <=> Queued(g)) => Same(g)
  BY <1>1 DEF Wake, Same, TypeOK
<1>9. \A u \in Threads : cur[u] # f /\ pc'[u] = pc[u] /\ cur'[u] = cur[u]
  BY <1>4 DEF Wake, InHand
<1> QED BY <1>1, <1>3, <1>5, <1>6, <1>7, <1>8, <1>9, PushStep DEF Wake, Schedule

\* A coroutine that yielded goes back into the list.
LEMMA RequeueInv ==
  ASSUME IInv, NEW t \in Threads, Runs(t), Requeue(t) PROVE IInv'
<1>1. pc[t] # "pick" /\ ~aborted
  BY DEF Requeue
<1>2. PICK f \in Fibers :
        /\ cur[t] = f
        /\ TypeOK /\ HandInv(t) /\ FiberInv(f)
        /\ \A u \in Threads : cur[u] = f => u = t
        /\ m_state[f] # "EXCEPT"
  BY <1>1, Holding
<1>3. /\ Started(f) /\ m_ctx[f] = "yield" /\ m_state[f] = "READY"
      /\ f \notin armed /\ ~Queued(f) /\ f # NoFiber /\ OnlyThrowersAbort
  BY <1>2, FiberAssumption DEF Requeue, HandInv, Yielded, IInv
<1>4. PushBack(f, FALSE, AnyThread)
  BY <1>2 DEF Requeue, Schedule
<1>5. Queued(f)' /\ m_fibers' \in Seq(Entries)
  BY <1>2, <1>4, PushFacts DEF TypeOK
<1>6. TypeOK'
  BY <1>2, <1>5 DEF Requeue, Schedule, Runs, TypeOK
<1>7. /\ cur'[t] = NoFiber /\ pc'[t] = "pick"
      /\ \A u \in Threads : u # t => cur'[u] = cur[u] /\ pc'[u] = pc[u]
  BY <1>2 DEF Requeue, TypeOK
<1>8. ~InHand(f)'
  BY <1>2, <1>3, <1>7 DEF InHand
<1>9. EntryInv([fiber |-> f, cb |-> FALSE, thread |-> AnyThread])'
  BY <1>2, <1>3, <1>8 DEF Requeue, FiberInv, EntryInv, Resumable, Started
<1>10. FiberInv(f)'
  BY <1>2, <1>3, <1>5, <1>8 DEF Requeue, FiberInv, InHand, Started
<1>11. OnlyThrowersAbort'
  BY <1>3 DEF Requeue, OnlyThrowersAbort
<1>12. \A g \in Fibers : g # f /\ (Queued(g)' <=> Queued(g)) => Same(g)
  BY DEF Requeue, Same
<1>13. HandInv(t)'
  BY <1>7 DEF HandInv
<1> QED BY <1>1, <1>2, <1>3, <1>4, <1>6, <1>7, <1>9, <1>10, <1>11, <1>12, <1>13, PushStep

\* A worker takes the first entry it may take.
LEMMA PickInv == ASSUME IInv, NEW t \in Threads, Pick(t) PROVE IInv'
<1>1. PICK k \in DOMAIN m_fibers :
        /\ Eligible(t, m_fibers[k])
        /\ m_fibers' = RemoveAt(m_fibers, k)
        /\ cur' = [cur EXCEPT ![t] = m_fibers[k].fiber]
        /\ pc' = [pc EXCEPT ![t] = IF m_fibers[k].cb THEN "wrap" ELSE "resume"]
  BY DEF Pick
<1>2. /\ TypeOK /\ QueueDistinct /\ m_fibers \in Seq(Entries) /\ EntryInv(m_fibers[k])
      /\ ~aborted /\ pc[t] = "pick" /\ cur[t] = NoFiber /\ OnlyThrowersAbort
  BY DEF IInv, TypeOK, Pick, HandInv
<1>3. PICK e \in Entries : e = m_fibers[k]
  BY <1>2
<1>4. PICK f \in Fibers : f = e.fiber
  BY DEF Entries
<1>5. /\ m_fibers' \in Seq(Entries)
      /\ \A j \in DOMAIN m_fibers' :
           \E i \in DOMAIN m_fibers : i # k /\ m_fibers'[j] = m_fibers[i]
      /\ QueueDistinct'
      /\ \A g : Queued(g)' <=> Queued(g) /\ g # f
  BY <1>1, <1>2, <1>3, <1>4, TakeFacts
<1>6. /\ cur'[t] = f /\ pc'[t] = IF e.cb THEN "wrap" ELSE "resume"
      /\ \A u \in Threads : u # t => cur'[u] = cur[u] /\ pc'[u] = pc[u]
  BY <1>1, <1>2, <1>3, <1>4 DEF TypeOK
<1>7. UNCHANGED <<m_threads, blocked, m_state, m_ctx, uc_link, armed, aborted,
                 wanted, begun, done>>
  BY DEF Pick
<1>8. TypeOK'
  BY <1>1, <1>2, <1>3, <1>4, <1>5, <1>7 DEF TypeOK
<1>9. ~InHand(f) /\ (e.cb \/ Resumable(f)) /\ f # NoFiber
  BY <1>2, <1>3, <1>4, FiberAssumption DEF EntryInv
<1>10. HandsDistinct'
  BY <1>6, <1>9 DEF IInv, HandsDistinct, InHand
<1>11. \A g \in Fibers : g # f => Same(g)
  BY <1>5, <1>7 DEF Same
<1>12. ASSUME NEW u \in Threads PROVE HandInv(u)'
  <2>1. CASE u = t
    <3>1. /\ ~Queued(f)' /\ f \notin armed /\ f \notin done
          /\ begun[f] = 0 => wanted[f] \in {AnyThread, t}
          /\ e.cb => begun[f] = 0
      BY <1>1, <1>2, <1>3, <1>4, <1>5 DEF EntryInv, Eligible
    <3> QED BY <2>1, <3>1, <1>6, <1>7, <1>9 DEF HandInv, Resumable
  <2>2. CASE u # t
    <3>1. cur[u] \in Fibers \cup {NoFiber} /\ cur[u] # f
      BY <1>9 DEF IInv, TypeOK, InHand
    <3>2. cur[u] # NoFiber => Same(cur[u])
      BY <3>1, <1>11
    <3> QED BY <2>2, <3>2, <1>2, <1>6, HandFrame DEF IInv
  <2> QED BY <2>1, <2>2
<1>13. ASSUME NEW g \in Fibers, g # f
       PROVE  \A u \in Threads : /\ cur'[u] = g <=> cur[u] = g
                                 /\ cur[u] = g => pc'[u] = pc[u]
  BY <1>2, <1>6, <1>13, FiberAssumption
<1>14. ASSUME NEW g \in Fibers PROVE FiberInv(g)'
  <2>1. CASE g = f
    <3>1. f \notin armed /\ f \notin done /\ FiberInv(f) /\ wanted[f] # Unsubmitted
      BY <1>2, <1>3, <1>4 DEF EntryInv, IInv
    <3>2. InHand(f)'
      BY <1>6 DEF InHand
    <3> QED BY <2>1, <3>1, <3>2, <1>7 DEF FiberInv
  <2>2. CASE g # f
    BY <2>2, <1>2, <1>11, <1>13, FiberFrame DEF IInv
  <2> QED BY <2>1, <2>2
<1>15. ASSUME NEW j \in DOMAIN m_fibers' PROVE EntryInv(m_fibers[j])'
  <2>1. PICK i \in DOMAIN m_fibers : i # k /\ m_fibers'[j] = m_fibers[i]
    BY <1>5
  <2>2. PICK x \in Entries : x = m_fibers[i]
    BY <1>2
  <2>3. x.fiber \in Fibers /\ x.fiber # f /\ EntryInv(x)
    BY <2>1, <2>2, <1>2, <1>3, <1>4 DEF IInv, Entries, QueueDistinct
  <2>4. EntryInv(x)'
    BY <2>3, <1>2, <1>11, <1>13, EntryFrame
  <2> QED BY <2>1, <2>2, <2>4
<1>16. OnlyThrowersAbort'
  BY <1>2, <1>7 DEF OnlyThrowersAbort
<1> QED BY <1>5, <1>8, <1>10, <1>12, <1>14, <1>15, <1>16 DEF IInv

-----------------------------------------------------------------------------
(***************************************************************************)
(* The theorems.                                                           *)
(***************************************************************************)

\* Before the first schedule() every worker is in its loop with nothing.
LEMMA InitInv == Init => IInv
<1> SUFFICES ASSUME Init PROVE IInv
  OBVIOUS
<1>1. DOMAIN m_fibers = {} /\ m_fibers \in Seq(Entries)
  BY DEF Init
<1>2. TypeOK
  BY <1>1 DEF Init, TypeOK, States
<1>3. QueueDistinct /\ \A i \in DOMAIN m_fibers : EntryInv(m_fibers[i])
  BY <1>1 DEF QueueDistinct
<1>4. HandsDistinct
  BY DEF Init, HandsDistinct
<1>5. \A t \in Threads : HandInv(t)
  BY DEF Init, HandInv
<1>6. \A f \in Fibers : FiberInv(f)
  BY FiberAssumption DEF Init, FiberInv, InHand
<1>7. OnlyThrowersAbort
  BY DEF Init, OnlyThrowersAbort
<1> QED BY <1>2, <1>3, <1>4, <1>5, <1>6, <1>7 DEF IInv

\* Every step keeps the invariant.
LEMMA StepInv == ASSUME IInv, ~SharedSleep, [Next]_vars PROVE IInv'
<1>1. CASE UNCHANGED vars
  BY <1>1 DEF vars, IInv, TypeOK, QueueDistinct, HandsDistinct, HandInv, EntryInv,
     FiberInv, OnlyThrowersAbort, InHand, Queued, Resumable, Asleep, Yielded,
     Started, Over
<1>2. ASSUME NEW t \in Threads, Runs(t), Loop(t) PROVE IInv'
  BY <1>1, <1>2, PickInv, ResumeInv, WrapInv, AfterInv, RequeueInv, HoldInv
  DEF Loop, Idle
<1>3. ASSUME NEW t \in Threads, Runs(t), Coroutine(t) PROVE IInv'
  BY <1>3, YieldToReadyInv, ArmWakeInv, YieldToHoldInv, SwapOutInv, FinishInv,
     ThrowInv, ReturnInv
  DEF Coroutine
<1>4. ASSUME NEW t \in Threads, Tickled(t) PROVE IInv'
  <2>1. TypeOK'
    BY <1>4 DEF Tickled, IInv, TypeOK
  <2>2. UNCHANGED <<m_threads, m_fibers, m_state, m_ctx, uc_link, pc, cur, armed,
                    aborted, wanted, begun, done>>
    BY <1>4 DEF Tickled
  <2> QED BY <2>1, <2>2 DEF IInv, QueueDistinct, HandsDistinct, HandInv, EntryInv,
     FiberInv, OnlyThrowersAbort, InHand, Queued, Resumable, Asleep, Yielded,
     Started, Over
<1> QED BY <1>1, <1>2, <1>3, <1>4, WakeInv, SubmitInv DEF Next

\* The inductive invariant holds in every reachable state, for any number of
\* workers and coroutines, if coroutines sleep only where there is one worker.
\* Wake-ups come at any time, tickles may block for ever.
THEOREM Invariance == ASSUME ~SharedSleep PROVE Spec => []IInv
<1>1. ~SharedSleep
  OBVIOUS
<1> QED BY <1>1, InitInv, StepInv, PTL DEF Spec

\* Type correctness.
THEOREM TypeCorrect == ASSUME ~SharedSleep PROVE Spec => []TypeOK
<1>1. IInv => TypeOK
  BY DEF IInv
<1> QED BY <1>1, Invariance, PTL

\* No two workers ever stand on the stack of the same coroutine.
THEOREM StackIsExclusive == ASSUME ~SharedSleep PROVE Spec => []StackExclusive
<1>1. IInv => StackExclusive
  BY DEF IInv, StackExclusive, OnStack, HandsDistinct, HandInv
<1> QED BY <1>1, Invariance, PTL

\* No callback is entered twice.
THEOREM RunsOnce == ASSUME ~SharedSleep PROVE Spec => []RunOnce
<1>1. IInv => RunOnce
  BY DEF IInv, RunOnce, FiberInv
<1> QED BY <1>1, Invariance, PTL

\* No coroutine is dropped by the loop.
THEOREM NobodyLost == ASSUME ~SharedSleep PROVE Spec => []NothingLost
<1>1. IInv => NothingLost
  BY DEF IInv, NothingLost, FiberInv
<1> QED BY <1>1, Invariance, PTL

\* The assertions of swapIn and of the two yields never fail.
THEOREM AssertionsHold == ASSUME ~SharedSleep PROVE Spec => []OnlyThrowersAbort
<1>1. IInv => OnlyThrowersAbort
  BY DEF IInv
<1> QED BY <1>1, Invariance, PTL

\* A finished coroutine returns to the loop of the worker it runs on.
THEOREM AlwaysReturnsHome == ASSUME ~SharedSleep PROVE Spec => []ReturnsHome
<1>1. IInv => ReturnsHome
  BY DEF IInv, ReturnsHome, HandInv
<1> QED BY <1>1, Invariance, PTL

\* After a switch the loop never finds TERM or EXCEPT, so it never reuses
\* the Fiber of a finished callback.
THEOREM NeverReuses == ASSUME ~SharedSleep PROVE Spec => []AfterState
<1>1. IInv => AfterState
  BY DEF IInv, AfterState, HandInv, Over, Asleep, Yielded
<1> QED BY <1>1, Invariance, PTL

\* A finished coroutine is not scheduled again.
THEOREM FinishedIsFinal == ASSUME ~SharedSleep PROVE Spec => []FinishedStaysOut
<1>1. IInv => FinishedStaysOut
  BY DEF IInv, FinishedStaysOut, TypeOK, FiberInv, EntryInv, Queued, Started
<1> QED BY <1>1, Invariance, PTL

\* The first entry into a coroutine is on the thread schedule() was given.
THEOREM FirstRunIsWhereWanted == ASSUME ~SharedSleep PROVE Spec => []EnteredWhereWanted
<1>1. IInv => EnteredWhereWanted
  BY DEF IInv, EnteredWhereWanted, HandInv
<1> QED BY <1>1, Invariance, PTL

-----------------------------------------------------------------------------
(***************************************************************************)
(* The pool: initial states map to initial states, and every step maps to  *)
(* one step of the pool or to a stutter.                                   *)
(***************************************************************************)

\* The mapped variables.
Status == [f \in Fibers |-> StatusOf(f)]
Runner == [t \in Threads |-> IF cur[t] \in done THEN NoFiber ELSE cur[t]]

\* A step of worker t on its coroutine f that leaves the others alone changes
\* the mapped state at t and f only.
LEMMA MapFrame ==
  ASSUME IInv, IInv', NEW t \in Threads, NEW f \in Fibers, wanted' = wanted,
         \A u \in Threads : u # t => cur'[u] = cur[u] /\ cur[u] # f,
         cur[t] \in {f, NoFiber}, cur'[t] \in {f, NoFiber},
         \A g \in Fibers : g # f => Same(g)
  PROVE  /\ Status' = [Status EXCEPT ![f] = StatusOf(f)']
         /\ Runner' = [Runner EXCEPT ![t] = IF cur'[t] \in done' THEN NoFiber ELSE cur'[t]]
<1>1. ASSUME NEW g \in Fibers, g # f PROVE StatusOf(g)' = StatusOf(g)
  <2>1. InHand(g)' <=> InHand(g)
    BY <1>1, FiberAssumption DEF InHand
  <2> QED BY <1>1, <2>1 DEF StatusOf, Same
<1>2. ASSUME NEW u \in Threads, u # t
      PROVE  (cur'[u] \in done' <=> cur[u] \in done) /\ cur'[u] = cur[u]
  <2>1. cur[u] \in Fibers \cup {NoFiber} /\ cur'[u] = cur[u] /\ cur[u] # f
    BY <1>2 DEF IInv, TypeOK
  <2> QED BY <2>1, FiberAssumption DEF IInv, TypeOK, Same
<1> QED BY <1>1, <1>2 DEF Status, Runner

\* A step that changes only coroutines in the hands of a worker, and none of
\* who holds what, who is finished and who wants what, maps to a stutter.
LEMMA StutterFrame ==
  ASSUME cur' = cur, done' = done, wanted' = wanted,
         \A g \in Fibers : ~InHand(g) => Same(g)
  PROVE  Status' = Status /\ Runner' = Runner
<1>1. ASSUME NEW g \in Fibers PROVE StatusOf(g)' = StatusOf(g)
  <2>1. InHand(g)' <=> InHand(g)
    BY DEF InHand
  <2> QED BY <1>1, <2>1 DEF StatusOf, Same
<1> QED BY <1>1 DEF Status, Runner

\* The steps inside a coroutine and around the switch are invisible.
LEMMA InvisibleSteps ==
  ASSUME IInv, NEW t \in Threads,
         \/ Resume(t) \/ Wrap(t) \/ YieldToReady(t) \/ ArmWake(t) \/ YieldToHold(t)
         \/ SwapOut(t) \/ Throw(t) \/ Return(t) \/ After(t)
  PROVE  Status' = Status /\ Runner' = Runner /\ wanted' = wanted
<1>1. pc[t] # "pick"
  BY DEF Resume, Wrap, NewFiber, YieldToReady, ArmWake, YieldToHold, SwapOut, Throw, Return, After
<1>2. PICK f \in Fibers : cur[t] = f /\ TypeOK /\ HandInv(t)
  BY <1>1, Holding
<1>3. InHand(f)
  BY <1>2 DEF InHand
<1>4. m_fibers' = m_fibers /\ done' = done /\ wanted' = wanted
  BY DEF Resume, Wrap, NewFiber, YieldToReady, ArmWake, YieldToHold, SwapOut, Throw, Return, After
<1>5. cur' = cur
  <2>1. CASE Return(t) \/ After(t)
    BY <1>2, <2>1 DEF Return, After, HandInv, TypeOK, Over, Asleep, Yielded
  <2> QED
    BY <2>1 DEF Resume, Wrap, NewFiber, YieldToReady, ArmWake, YieldToHold, SwapOut, Throw
<1>6. \A g \in Fibers : ~InHand(g) => Same(g)
  BY <1>2, <1>3 DEF Same, Queued, TypeOK, Resume, Wrap, NewFiber, SwapIn, YieldToReady, ArmWake,
     YieldToHold, SwapOut, Throw, Return, After
<1> QED BY <1>4, <1>5, <1>6, StutterFrame

\* Giving up the worker is one step of the pool.
LEMMA LeaveSteps ==
  ASSUME IInv, IInv', NEW t \in Threads, Finish(t) \/ Requeue(t) \/ Hold(t)
  PROVE  [Pool!Next]_Pool!poolVars
<1>1. pc[t] # "pick"
  BY DEF Finish, Requeue, Hold
<1>2. PICK f \in Fibers :
        /\ cur[t] = f /\ TypeOK /\ HandInv(t) /\ FiberInv(f)
        /\ \A u \in Threads : cur[u] = f => u = t
  BY <1>1, Holding
<1>3. wanted[f] # Unsubmitted
  BY <1>2 DEF FiberInv, InHand
<1>4. wanted' = wanted
  BY DEF Finish, Requeue, Hold
<1>5. \A u \in Threads : u # t => cur'[u] = cur[u] /\ cur[u] # f
  BY <1>2 DEF Finish, Requeue, Hold, TypeOK
<1>6. cur'[t] \in {f, NoFiber}
  BY <1>2 DEF Finish, Requeue, Hold, TypeOK
<1>7. \A g \in Fibers : g # f => Same(g)
  <2>1. CASE Requeue(t)
    <3>1. \A g : Queued(g)' <=> Queued(g) \/ g = f
      BY <1>2, <2>1, PushFacts DEF Requeue, Schedule, TypeOK
    <3> QED BY <2>1, <3>1 DEF Requeue, Same
  <2>2. CASE Finish(t) \/ Hold(t)
    BY <1>2, <2>2 DEF Finish, Hold, Same, Queued, TypeOK
  <2> QED BY <2>1, <2>2
<1>8. /\ Status' = [Status EXCEPT ![f] = StatusOf(f)']
      /\ Runner' = [Runner EXCEPT ![t] = IF cur'[t] \in done' THEN NoFiber ELSE cur'[t]]
  BY <1>2, <1>4, <1>5, <1>6, <1>7, MapFrame
<1>9. NoFiber \notin done'
  BY FiberAssumption DEF IInv, TypeOK
<1>10. CASE Over(f) /\ Hold(t)
  <2>1. cur'[t] = NoFiber /\ f \in done /\ f \in done'
    BY <1>2, <1>10 DEF Hold, Over, TypeOK
  <2>2. StatusOf(f)' = StatusOf(f)
    BY <2>1, <1>3, <1>4 DEF StatusOf
  <2>3. Status' = Status /\ Runner' = Runner
    BY <1>2, <1>8, <1>9, <2>1, <2>2 DEF Status, Runner
  <2> QED BY <2>3, <1>4 DEF Pool!poolVars, Status, Runner
<1>11. CASE ~(Over(f) /\ Hold(t))
  <2>1. f \notin done
    BY <1>2, <1>11 DEF Finish, Requeue, Hold, HandInv, Started, Over
  <2>2. Runner[t] = f /\ f # NoFiber
    BY <1>2, <2>1, FiberAssumption DEF Runner
  <2>3. Runner' = [Runner EXCEPT ![t] = NoFiber]
    <3>1. cur'[t] = NoFiber \/ cur'[t] \in done'
      BY <1>2 DEF Finish, Requeue, Hold, TypeOK
    <3> QED BY <3>1, <1>8
  <2>4. StatusOf(f)' \in {"ready", "parked", "done"}
    <3>1. CASE Finish(t)
      BY <1>2, <1>3, <1>4, <3>1 DEF Finish, StatusOf
    <3>2. CASE Requeue(t) \/ Hold(t)
      <4>1. f \notin done' /\ begun'[f] = 1
        BY <1>2, <1>11, <2>1, <3>2 DEF Requeue, Hold, HandInv, Started
      <4>2. ~InHand(f)'
        BY <1>2, <1>5, <2>2, <3>2 DEF InHand, Requeue, Hold, TypeOK
      <4>3. Queued(f)' \/ f \in armed'
        BY <1>3, <1>4, <4>1, <4>2 DEF IInv, FiberInv
      <4> QED BY <4>1, <4>2, <4>3, <1>3, <1>4 DEF StatusOf
    <3> QED BY <3>1, <3>2
  <2>5. PICK next \in {"ready", "parked", "done"} : next = StatusOf(f)'
    BY <2>4
  <2>6. Pool!Leave(t, next)
    BY <1>4, <1>8, <2>2, <2>3, <2>5 DEF Pool!Leave, Status, Runner
  <2> QED BY <2>6 DEF Pool!Next
<1> QED BY <1>10, <1>11

\* Taking an entry starts or continues its coroutine.
LEMMA PickSteps ==
  ASSUME IInv, IInv', NEW t \in Threads, Pick(t)
  PROVE  [Pool!Next]_Pool!poolVars
<1>1. PICK k \in DOMAIN m_fibers :
        /\ Eligible(t, m_fibers[k])
        /\ m_fibers' = RemoveAt(m_fibers, k)
        /\ cur' = [cur EXCEPT ![t] = m_fibers[k].fiber]
  BY DEF Pick
<1>2. /\ TypeOK /\ QueueDistinct /\ m_fibers \in Seq(Entries) /\ EntryInv(m_fibers[k])
      /\ pc[t] = "pick" /\ cur[t] = NoFiber
  BY DEF IInv, TypeOK, Pick, HandInv
<1>3. PICK e \in Entries : e = m_fibers[k]
  BY <1>2
<1>4. PICK f \in Fibers : f = e.fiber
  BY DEF Entries
<1>5. \A g : Queued(g)' <=> Queued(g) /\ g # f
  BY <1>1, <1>2, <1>3, <1>4, TakeFacts
<1>6. Queued(f)
  BY <1>3, <1>4 DEF Queued
<1>7. ~InHand(f) /\ f # NoFiber
  BY <1>2, <1>3, <1>4, FiberAssumption DEF EntryInv
<1>8. /\ wanted[f] # Unsubmitted /\ f \notin done /\ f \notin armed
      /\ begun[f] = 0 => wanted[f] \in {AnyThread, t}
  BY <1>1, <1>2, <1>3, <1>4 DEF EntryInv, Eligible
<1>9. UNCHANGED <<m_threads, blocked, m_state, m_ctx, uc_link, armed, aborted,
                 wanted, begun, done>>
  BY DEF Pick
<1>10. /\ cur'[t] = f
       /\ \A u \in Threads : u # t => cur'[u] = cur[u] /\ cur[u] # f
  BY <1>1, <1>2, <1>3, <1>4, <1>7 DEF TypeOK, InHand
<1>11. \A g \in Fibers : g # f => Same(g)
  BY <1>5, <1>9 DEF Same
<1>12. /\ Status' = [Status EXCEPT ![f] = StatusOf(f)']
       /\ Runner' = [Runner EXCEPT ![t] = IF cur'[t] \in done' THEN NoFiber ELSE cur'[t]]
  BY <1>2, <1>9, <1>10, <1>11, MapFrame
<1>13. Runner' = [Runner EXCEPT ![t] = f] /\ Runner[t] = NoFiber
  BY <1>2, <1>8, <1>9, <1>10, <1>12 DEF Runner
<1>14. StatusOf(f)' = "running"
  BY <1>8, <1>9, <1>10 DEF StatusOf, InHand
<1>15. Status[f] = IF begun[f] = 0 THEN "submitted" ELSE "ready"
  BY <1>6, <1>7, <1>8 DEF Status, StatusOf
<1>16. Pool!Dispatch(t, f)
  BY <1>9, <1>12, <1>13, <1>14 DEF Pool!Dispatch, Status, Runner
<1>17. Pool!Start(t, f) \/ Pool!Continue(t, f)
  BY <1>8, <1>15, <1>16 DEF Pool!Start, Pool!Continue, Status
<1> QED BY <1>17 DEF Pool!Next

\* A wake-up makes a sleeper ready.
LEMMA WakeSteps ==
  ASSUME IInv, IInv', NEW c \in Threads, NEW f \in Fibers, Wake(c, f)
  PROVE  [Pool!Next]_Pool!poolVars
<1>1. /\ TypeOK /\ f \in armed /\ f \notin done /\ wanted[f] # Unsubmitted /\ begun[f] = 1
      /\ FiberInv(f) /\ c \in m_threads /\ pc[c] \in {"pick", "body"}
  BY DEF IInv, FiberInv, Wake, Calls, Runs, Started
<1>2. \A g : Queued(g)' <=> Queued(g) \/ g = f
  BY <1>1, PushFacts DEF Wake, Schedule, TypeOK
<1>3. /\ cur' = cur /\ done' = done /\ wanted' = wanted /\ begun' = begun
      /\ armed' = armed \ {f}
  BY DEF Wake
<1>4. Runner' = Runner
  BY <1>3 DEF Runner
<1>5. ASSUME NEW g \in Fibers, g # f PROVE StatusOf(g)' = StatusOf(g)
  BY <1>2, <1>3, <1>5 DEF StatusOf, InHand
<1>6. ~InHand(f)
  BY <1>1 DEF FiberInv, InHand
<1>7. StatusOf(f) = "parked" /\ StatusOf(f)' = "ready"
  BY <1>1, <1>2, <1>3, <1>6 DEF StatusOf, InHand
<1>8. Status' = [Status EXCEPT ![f] = "ready"] /\ Status[f] = "parked"
  BY <1>5, <1>7 DEF Status
<1>9. Pool!Wake(f)
  BY <1>3, <1>4, <1>8 DEF Pool!Wake, Status, Runner
<1> QED BY <1>9 DEF Pool!Next

\* Scheduling a new coroutine is a step of the pool.
LEMMA SubmitSteps ==
  ASSUME IInv, NEW f \in Fibers, NEW isCb \in BOOLEAN,
         NEW th \in Threads \cup {AnyThread},
         NEW c \in Threads \cup {NoThread}, Submit(c, f, isCb, th)
  PROVE  [Pool!Next]_Pool!poolVars
<1>1. /\ TypeOK /\ wanted[f] = Unsubmitted /\ f \notin done /\ ~InHand(f) /\ begun[f] = 0
      /\ f \notin armed
  BY DEF IInv, FiberInv, Submit, Started
<1>2. \A g : Queued(g)' <=> Queued(g) \/ g = f
  BY <1>1, PushFacts DEF Submit, Schedule, TypeOK
<1>3. /\ cur' = cur /\ done' = done /\ begun' = begun /\ armed' = armed
      /\ wanted' = [wanted EXCEPT ![f] = th]
  BY DEF Submit
<1>4. Runner' = Runner
  BY <1>3 DEF Runner
<1>5. ASSUME NEW g \in Fibers, g # f PROVE StatusOf(g)' = StatusOf(g)
  BY <1>1, <1>2, <1>3, <1>5 DEF StatusOf, InHand, TypeOK
<1>6. StatusOf(f) = "new" /\ StatusOf(f)' = "submitted"
  <2>1. wanted'[f] = th /\ th # Unsubmitted
    BY <1>1, <1>3, ThreadAssumption DEF TypeOK
  <2> QED BY <1>1, <1>2, <1>3, <2>1 DEF StatusOf, InHand
<1>7. Status' = [Status EXCEPT ![f] = "submitted"] /\ Status[f] = "new"
  BY <1>5, <1>6 DEF Status
<1>8. Pool!Submit(f)
  BY <1>3, <1>4, <1>7 DEF Pool!Submit, Status, Runner
<1> QED BY <1>8 DEF Pool!Next

\* Every step of the scheduler is a step of the pool or invisible.
LEMMA PoolStep ==
  ASSUME IInv, IInv', [Next]_vars
  PROVE  [Pool!Next]_Pool!poolVars
<1>1. CASE UNCHANGED vars
  <2>1. Status' = Status /\ Runner' = Runner /\ wanted' = wanted
    BY <1>1 DEF vars, Status, Runner, StatusOf, InHand, Queued
  <2> QED BY <2>1 DEF Pool!poolVars, Status, Runner
<1>2. ASSUME NEW t \in Threads, Loop(t) \/ Coroutine(t)
      PROVE  [Pool!Next]_Pool!poolVars
  <2>1. CASE Pick(t)
    BY <2>1, PickSteps
  <2>2. CASE Finish(t) \/ Requeue(t) \/ Hold(t)
    BY <2>2, LeaveSteps
  <2>3. CASE Idle(t)
    BY <2>3, <1>1 DEF Idle
  <2>4. CASE \/ Resume(t) \/ Wrap(t) \/ YieldToReady(t) \/ ArmWake(t) \/ YieldToHold(t)
             \/ SwapOut(t) \/ Throw(t) \/ Return(t) \/ After(t)
    BY <2>4, InvisibleSteps DEF Pool!poolVars, Status, Runner
  <2> QED BY <1>2, <2>1, <2>2, <2>3, <2>4 DEF Loop, Coroutine
<1>3. ASSUME NEW c \in Threads, NEW f \in Fibers, Wake(c, f)
      PROVE  [Pool!Next]_Pool!poolVars
  BY <1>3, WakeSteps
<1>4. ASSUME NEW f \in Fibers, NEW isCb \in BOOLEAN, NEW th \in Threads \cup {AnyThread},
             NEW c \in Threads \cup {NoThread}, Submit(c, f, isCb, th)
      PROVE  [Pool!Next]_Pool!poolVars
  BY <1>4, SubmitSteps
<1>5. ASSUME NEW t \in Threads, Tickled(t) PROVE [Pool!Next]_Pool!poolVars
  BY <1>5 DEF Tickled, Pool!poolVars, Status, Runner, StatusOf, InHand, Queued
<1> QED BY <1>1, <1>2, <1>3, <1>4, <1>5 DEF Next

\* The worker loop with its list, its Fiber objects and its context switch
\* implements the pool of coroutines.
THEOREM ImplementsPool == ASSUME ~SharedSleep PROVE Spec => PoolSpec
<1>1. Init => Pool!Init
  BY FiberAssumption DEF Init, Pool!Init, StatusOf
<1>2. ~SharedSleep
  OBVIOUS
<1> QED BY <1>1, <1>2, Invariance, PoolStep, PTL DEF Spec, PoolSpec, Pool!Spec
=============================================================================
