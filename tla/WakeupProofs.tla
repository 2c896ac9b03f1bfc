----------------------------- MODULE WakeupProofs -----------------------------
(***************************************************************************)
(* Proofs about the tickle, the pipe and idle(), for any number of         *)
(* workers, callers and jobs, any size of the pipe and any width of int.   *)
(***************************************************************************)
EXTENDS Wakeup, FiniteSetTheorems, TLAPS

-----------------------------------------------------------------------------
(***************************************************************************)
(* Sequences.                                                              *)
(***************************************************************************)

LEMMA RemoveAtSeq ==
  ASSUME NEW S, NEW s \in Seq(S), NEW i \in DOMAIN s
  PROVE  RemoveAt(s, i) \in Seq(S)
<1>1. SubSeq(s, 1, i - 1) \in Seq(S) /\ SubSeq(s, i + 1, Len(s)) \in Seq(S)
  OBVIOUS
<1> QED
  BY <1>1 DEF RemoveAt

\* Any order of a finite set of timers is a list of entries for any thread.
LEMMA CallbackEntries ==
  ASSUME NEW S, IsFiniteSet(S), S \subseteq Jobs, NEW jobs \in SetToSeqs(S)
  PROVE  [i \in DOMAIN jobs |-> <<jobs[i], AnyThread>>] \in Seq(Entries)
<1>1. Cardinality(S) \in Nat
  BY FS_CardinalityType
<1>2. jobs \in [1 .. Cardinality(S) -> Jobs]
  BY DEF SetToSeqs
<1>3. [i \in DOMAIN jobs |-> <<jobs[i], AnyThread>>]
        \in [1 .. Cardinality(S) -> Entries]
  BY <1>2 DEF Entries
<1> QED
  BY <1>1, <1>3

-----------------------------------------------------------------------------
(***************************************************************************)
(* Type correctness.                                                       *)
(***************************************************************************)

LEMMA ScheduleTypes ==
  ASSUME TypeOK, NEW p \in Workers \cup Callers, NEW entries \in Seq(Entries),
         NEW tickling, NEW next, Schedule(p, entries, tickling, next)
  PROVE  /\ m_fibers' \in Seq(Entries)
         /\ pc' = [pc EXCEPT ![p] = tickling] \/ pc' = [pc EXCEPT ![p] = next]
<1>1. m_fibers \in Seq(Entries)
  BY DEF TypeOK
<1>2. m_fibers \o entries \in Seq(Entries)
  BY <1>1
<1> QED
  BY <1>2 DEF Schedule

LEMMA TypeStep == TypeOK /\ [Next]_vars => TypeOK'
<1> SUFFICES ASSUME TypeOK, [Next]_vars PROVE TypeOK'
  OBVIOUS
<1> USE WakeupAssumption DEF WakeupAssumption
<1>1. ASSUME NEW c \in Callers, NEW j \in Jobs, NEW th \in Targets, Submit(c, j, th)
      PROVE  TypeOK'
  <2>1. << <<j, th>> >> \in Seq(Entries)
    BY DEF Entries
  <2>2. Schedule(c, << <<j, th>> >>, "tickle", "out")
    BY <1>1 DEF Submit
  <2>3. /\ m_fibers' \in Seq(Entries)
        /\ pc' = [pc EXCEPT ![c] = "tickle"] \/ pc' = [pc EXCEPT ![c] = "out"]
    BY <2>1, <2>2, ScheduleTypes
  <2> QED
    BY <1>1, <2>3 DEF Submit, TypeOK
<1>2. ASSUME NEW p \in Workers \cup Callers, Tickle(p)
      PROVE  TypeOK'
  <2>1. /\ bytes \in 0 .. PipeSize /\ bytes < PipeSize /\ bytes' = bytes + 1
        /\ edge' = TRUE
    BY <1>2 DEF Tickle, TypeOK
  <2>2. bytes' \in 0 .. PipeSize
    BY <2>1
  <2>3. \E next \in {"events", "pick", "out"} : pc' = [pc EXCEPT ![p] = next]
    BY <1>2 DEF Tickle
  <2>4. UNCHANGED <<m_fibers, cur, bounded, reported, due, fresh>>
    BY <1>2 DEF Tickle
  <2> QED
    BY <2>1, <2>2, <2>3, <2>4 DEF TypeOK
<1>3. ASSUME NEW w \in Workers, Pick(w)
      PROVE  TypeOK'
  <2>1. PICK i \in DOMAIN m_fibers :
          /\ m_fibers' = RemoveAt(m_fibers, i)
          /\ cur' = [cur EXCEPT ![w] = m_fibers[i][1]]
    BY <1>3 DEF Pick
  <2>2. m_fibers' \in Seq(Entries)
    BY <2>1, RemoveAtSeq DEF TypeOK
  <2>3. m_fibers[i] \in Entries
    <3>1. m_fibers \in Seq(Entries)
      BY DEF TypeOK
    <3> QED
      BY <3>1, <2>1
  <2>4. m_fibers[i][1] \in Jobs
    BY <2>3 DEF Entries
  <2> QED
    BY <1>3, <2>1, <2>2, <2>4 DEF Pick, TypeOK
<1>4. ASSUME NEW w \in Workers, Yield(w)
      PROVE  TypeOK'
  <2>1. << <<cur[w], AnyThread>> >> \in Seq(Entries)
    BY <1>4 DEF Yield, Entries
  <2>2. Schedule(w, << <<cur[w], AnyThread>> >>, "tickle", "pick")
    BY <1>4 DEF Yield
  <2>3. /\ m_fibers' \in Seq(Entries)
        /\ pc' = [pc EXCEPT ![w] = "tickle"] \/ pc' = [pc EXCEPT ![w] = "pick"]
    BY <2>1, <2>2, ScheduleTypes
  <2> QED
    BY <1>4, <2>3 DEF Yield, TypeOK
<1>5. ASSUME NEW w \in Workers, Leave(w)
      PROVE  TypeOK'
  BY <1>5 DEF Leave, TypeOK
<1>6. ASSUME NEW w \in Workers, Idle(w)
      PROVE  TypeOK'
  BY <1>6 DEF Idle, TypeOK
<1>7. ASSUME NEW w \in Workers, Awake(w)
      PROVE  TypeOK'
  BY <1>7 DEF Awake, TypeOK
<1>8. ASSUME NEW w \in Workers, Expired(w)
      PROVE  TypeOK'
  <2>1. /\ m_fibers' \in Seq(Entries)
        /\ \/ pc' = [pc EXCEPT ![w] = "idle tickle"]
           \/ pc' = [pc EXCEPT ![w] = "events"]
    <3>1. CASE due = {}
      BY <1>8, <3>1 DEF Expired, TypeOK
    <3>2. CASE due # {}
      <4>1. PICK jobs \in SetToSeqs(due) :
              Schedule(w, [i \in DOMAIN jobs |-> <<jobs[i], AnyThread>>],
                       "idle tickle", "events")
        BY <1>8, <3>2 DEF Expired
      <4>2. due \subseteq Jobs /\ IsFiniteSet(due)
        BY FS_Subset DEF TypeOK
      <4>3. [i \in DOMAIN jobs |-> <<jobs[i], AnyThread>>] \in Seq(Entries)
        BY <4>2, CallbackEntries
      <4> QED
        BY <4>1, <4>3, ScheduleTypes
    <3> QED
      BY <3>1, <3>2
  <2> QED
    BY <1>8, <2>1 DEF Expired, TypeOK
<1>9. ASSUME NEW w \in Workers, EventLoop(w)
      PROVE  TypeOK'
  <2>1. bytes' = 0 \/ bytes' = bytes
    BY <1>9 DEF EventLoop
  <2>2. bytes \in 0 .. PipeSize
    BY DEF TypeOK
  <2>3. bytes' \in 0 .. PipeSize
    BY <2>1, <2>2
  <2> QED
    BY <1>9, <2>3 DEF EventLoop, TypeOK
<1>10. ASSUME NEW j \in Recurring, TimerDue(j)
       PROVE  TypeOK'
  BY <1>10 DEF TimerDue, TypeOK
<1>11. CASE UNCHANGED vars
  BY <1>11 DEF vars, TypeOK
<1> QED
  BY <1>1, <1>2, <1>3, <1>4, <1>5, <1>6, <1>7, <1>8, <1>9, <1>10, <1>11
  DEF Next, Worker

\* Type correctness of the list, the threads and the pipe, which never holds
\* more than PipeSize bytes.
THEOREM WakeupTypes == Spec => []TypeOK
<1>1. Init => TypeOK
  <2> SUFFICES ASSUME Init PROVE TypeOK
    OBVIOUS
  <2>1. m_fibers \in Seq(Entries)
    BY DEF Init
  <2>2. bytes \in 0 .. PipeSize
    BY WakeupAssumption DEF WakeupAssumption, Init
  <2> QED
    BY <2>1, <2>2, WakeupAssumption DEF WakeupAssumption, Init, TypeOK
<1> QED
  BY <1>1, TypeStep, PTL DEF Spec

-----------------------------------------------------------------------------
(***************************************************************************)
(* No lost wake-up.                                                        *)
(***************************************************************************)

LEMMA NoLostStep == TypeOK /\ NoLostWakeup /\ [Next]_vars => NoLostWakeup'
<1> SUFFICES ASSUME TypeOK, NoLostWakeup, [Next]_vars,
                    m_fibers' # << >>,
                    \A i \in DOMAIN m_fibers' : m_fibers'[i][2] = AnyThread,
                    \A w \in Workers : Waiting(w)'
             PROVE  PipeReady' \/ \E p \in Callers : pc'[p] = "tickle"
  BY DEF NoLostWakeup
<1> USE WakeupAssumption DEF WakeupAssumption
\* A worker that has just moved is not waiting, except after Idle.
<1>1. \A w \in Workers : pc'[w] = "wait"
  BY DEF Waiting
<1>2. ASSUME NEW c \in Callers, NEW j \in Jobs, NEW th \in Targets, Submit(c, j, th)
      PROVE  PipeReady' \/ \E p \in Callers : pc'[p] = "tickle"
  <2>1. CASE NeedTickle
    <3>1. pc'[c] = "tickle"
      BY <1>2, <2>1 DEF Submit, Schedule, TypeOK
    <3> QED
      BY <3>1
  <2>2. CASE ~NeedTickle
    <3>1. /\ m_fibers' = m_fibers \o << <<j, th>> >>
          /\ pc' = [pc EXCEPT ![c] = "out"] /\ pc[c] = "out"
      BY <1>2, <2>2 DEF Submit, Schedule
    <3>2. pc' = pc
      BY <3>1 DEF TypeOK
    <3>3. m_fibers # << >> /\ \A i \in DOMAIN m_fibers : m_fibers[i][2] = AnyThread
      <4>1. /\ DOMAIN m_fibers \subseteq DOMAIN m_fibers'
            /\ \A i \in DOMAIN m_fibers : m_fibers'[i] = m_fibers[i]
        <5>1. m_fibers \in Seq(Entries)
          BY DEF TypeOK
        <5>2. << <<j, th>> >> \in Seq(Entries)
          BY DEF Entries
        <5> QED
          BY <3>1, <5>1, <5>2
      <4> QED
        BY <2>2, <4>1 DEF NeedTickle
    <3>4. PipeReady \/ \E p \in Callers : pc[p] = "tickle"
      BY <1>1, <3>2, <3>3 DEF NoLostWakeup, Waiting
    <3>5. PipeReady' <=> PipeReady
      BY <1>2 DEF Submit, PipeReady
    <3> QED
      BY <3>2, <3>4, <3>5
  <2> QED
    BY <2>1, <2>2
<1>3. ASSUME NEW p \in Workers \cup Callers, Tickle(p)
      PROVE  PipeReady'
  <2>1. bytes \in 0 .. PipeSize /\ bytes' = bytes + 1 /\ edge' = TRUE
    BY <1>3 DEF Tickle, TypeOK
  <2> QED
    BY <2>1 DEF PipeReady
<1>4. ASSUME NEW w \in Workers, Pick(w) \/ Leave(w) \/ Awake(w) \/ EventLoop(w)
      PROVE  FALSE
  BY <1>1, <1>4 DEF Pick, Leave, Awake, EventLoop, TypeOK
<1>5. ASSUME NEW w \in Workers, Yield(w) \/ Expired(w)
      PROVE  FALSE
  <2>1. pc'[w] \in {"tickle", "pick", "idle tickle", "events"}
    BY <1>5 DEF Yield, Expired, Schedule, TypeOK
  <2> QED
    BY <1>1, <2>1
\* Before a worker waits it has seen that nothing listed is meant for it.
<1>6. ASSUME NEW w \in Workers, Idle(w)
      PROVE  FALSE
  <2>1. m_fibers' = m_fibers /\ \A i \in DOMAIN m_fibers : ~Meant(w, m_fibers[i])
    BY <1>6 DEF Idle
  <2>2. 1 \in DOMAIN m_fibers
    <3>1. m_fibers \in Seq(Entries)
      BY DEF TypeOK
    <3> QED
      BY <2>1, <3>1
  <2> QED
    BY <2>1, <2>2 DEF Meant
<1>7. CASE UNCHANGED <<m_fibers, pc, bytes, edge>>
  BY <1>7 DEF NoLostWakeup, Waiting, PipeReady
<1>8. ASSUME NEW j \in Recurring, TimerDue(j)
      PROVE  UNCHANGED <<m_fibers, pc, bytes, edge>>
  BY <1>8 DEF TimerDue
<1> QED
  BY <1>2, <1>3, <1>4, <1>5, <1>6, <1>7, <1>8 DEF Next, Worker, vars

\* Work for any thread never waits for a wake-up nobody sends (scheduler.h:62,
\* 183: need_tickle is computed before, and used after, m_mutex is released).
THEOREM NoWakeupIsLost == Spec => []NoLostWakeup
<1>1. Init => NoLostWakeup
  BY DEF Init, NoLostWakeup
<1> QED
  BY <1>1, NoLostStep, WakeupTypes, PTL DEF Spec

===============================================================================
