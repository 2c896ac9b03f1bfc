------------------------------ MODULE LoadProofs ------------------------------
(***************************************************************************)
(* Proofs about the load generator, for any number of threads and          *)
(* requests.  The counts are an inductive invariant, LoadInv: what a       *)
(* thread has in flight moves to n_count one by one, and no thread begins  *)
(* a request once N are counted.                                           *)
(***************************************************************************)
EXTENDS LoadGenerator, FiniteSetTheorems, TLAPS

Flying == {"request", "answered", "refused"}

\* A thread that begins a request adds one to those in flight, one that counts
\* it takes one away, and any other move of a thread changes nothing.
LEMMA InFlightMoves ==
  ASSUME TypeOK, NEW t \in Threads, NEW position, Goto(t, position)
  PROVE  /\ Cardinality(InFlight) \in Nat /\ Cardinality(InFlight)' \in Nat
         /\ C \in Nat /\ Cardinality(InFlight) <= C /\ Cardinality(InFlight)' <= C
         /\ pc[t] \in Flying /\ position \in Flying
              => Cardinality(InFlight)' = Cardinality(InFlight)
         /\ pc[t] \notin Flying /\ position \notin Flying
              => Cardinality(InFlight)' = Cardinality(InFlight)
         /\ pc[t] \in Flying /\ position \notin Flying
              => Cardinality(InFlight)' = Cardinality(InFlight) - 1
<1>1. IsFiniteSet(Threads)
  BY LoadAssumption DEF LoadAssumption
<1>2. InFlight \subseteq Threads /\ InFlight' \subseteq Threads
  BY DEF InFlight
<1>3. /\ Cardinality(Threads) \in Nat
      /\ IsFiniteSet(InFlight) /\ IsFiniteSet(InFlight')
      /\ Cardinality(InFlight) \in Nat /\ Cardinality(InFlight') \in Nat
      /\ Cardinality(InFlight) <= Cardinality(Threads)
      /\ Cardinality(InFlight') <= Cardinality(Threads)
  BY <1>1, <1>2, FS_Subset, FS_CardinalityType
<1>4. t \in InFlight <=> pc[t] \in Flying
  BY DEF InFlight, Flying
<1>5. position \in Flying => InFlight' = InFlight \cup {t}
  BY DEF InFlight, Flying, Goto, TypeOK
<1>6. position \notin Flying => InFlight' = InFlight \ {t}
  BY DEF InFlight, Flying, Goto, TypeOK
<1>7. /\ pc[t] \in Flying /\ position \in Flying => InFlight' = InFlight
      /\ pc[t] \notin Flying /\ position \notin Flying => InFlight' = InFlight
  BY <1>4, <1>5, <1>6
<1>8. pc[t] \in Flying /\ position \notin Flying
        => Cardinality(InFlight') = Cardinality(InFlight) - 1
  BY <1>3, <1>4, <1>6, FS_RemoveElement
<1> QED
  BY <1>3, <1>7, <1>8 DEF C

\* Nothing else moves: what is in flight stays.
LEMMA InFlightStays ==
  ASSUME TypeOK, UNCHANGED pc
  PROVE  /\ Cardinality(InFlight) \in Nat
         /\ C \in Nat
         /\ Cardinality(InFlight)' = Cardinality(InFlight)
<1>1. IsFiniteSet(Threads)
  BY LoadAssumption DEF LoadAssumption
<1>2. InFlight \subseteq Threads /\ InFlight' = InFlight
  BY DEF InFlight
<1>3. Cardinality(InFlight) \in Nat /\ Cardinality(Threads) \in Nat
  BY <1>1, <1>2, FS_Subset, FS_CardinalityType
<1> QED
  BY <1>2, <1>3 DEF C

LEMMA LoadInit == Init => LoadInv
<1> SUFFICES ASSUME Init PROVE LoadInv
  OBVIOUS
<1>1. TypeOK
  BY LoadAssumption DEF LoadAssumption, Init, TypeOK
<1>2. InFlight = {}
  BY DEF Init, InFlight
<1>3. Cardinality(InFlight) = 0
  BY <1>2, FS_EmptySet
<1>4. C \in Nat /\ C > 0
  <2>1. IsFiniteSet(Threads) /\ Threads # {}
    BY LoadAssumption DEF LoadAssumption
  <2>2. Cardinality(Threads) \in Nat /\ Cardinality(Threads) # 0
    BY <2>1, FS_CardinalityType, FS_EmptySet
  <2> QED
    BY <2>2 DEF C
<1>5. N \in Nat
  BY LoadAssumption DEF LoadAssumption
<1> QED
  BY <1>1, <1>3, <1>4, <1>5 DEF LoadInv, Init, AtMost, SomethingToPrint

LEMMA LoadStep == LoadInv /\ [Next]_vars => LoadInv'
<1> SUFFICES ASSUME LoadInv, [Next]_vars PROVE LoadInv'
  OBVIOUS
<1> USE DEF At
<1>0. N \in Nat /\ Threads # {} /\ Nobody \notin Threads /\ TypeOK
  BY LoadAssumption DEF LoadAssumption, LoadInv
<1>1. ASSUME NEW t \in Threads, Create(t)
      PROVE  LoadInv'
  <2>1. Goto(t, "check") /\ pc[t] \notin Flying
    BY <1>1 DEF Create, Flying
  <2>2. Cardinality(InFlight)' = Cardinality(InFlight)
    BY <1>0, <2>1, InFlightMoves DEF Flying
  <2> QED
    BY <1>0, <1>1, <2>2 DEF Create, Goto, LoadInv, TypeOK, AtMost, C,
                            SomethingToPrint, clock
<1>2. ASSUME AllCreated
      PROVE  LoadInv'
  BY <1>0, <1>2, InFlightStays DEF AllCreated, LoadInv, TypeOK, AtMost, C,
                                   SomethingToPrint, clock
<1>3. ASSUME Poll
      PROVE  LoadInv'
  BY <1>0, <1>3, InFlightStays DEF Poll, LoadInv, TypeOK, AtMost, C,
                                   SomethingToPrint
<1>4. ASSUME Size
      PROVE  LoadInv'
  BY <1>0, <1>4, InFlightStays DEF Size, LoadInv, TypeOK, AtMost, C,
                                   SomethingToPrint, clock
<1>5. ASSUME Percent
      PROVE  LoadInv'
  BY <1>0, <1>5, InFlightStays DEF Percent, LoadInv, TypeOK, AtMost, C,
                                   SomethingToPrint, clock
<1>6. ASSUME NEW t \in Threads, Check(t)
      PROVE  LoadInv'
  <2>1. CASE n_count >= N
    <3>1. Goto(t, "done") /\ pc[t] \notin Flying
      BY <1>6, <2>1 DEF Check, Flying
    <3>2. Cardinality(InFlight)' = Cardinality(InFlight)
      BY <1>0, <3>1, InFlightMoves DEF Flying
    <3> QED
      BY <1>0, <1>6, <2>1, <3>2 DEF Check, Goto, LoadInv, TypeOK, AtMost, C,
                                    SomethingToPrint, clock
  <2>2. CASE ~(n_count >= N)
    <3>1. Goto(t, "request")
      BY <1>6, <2>2 DEF Check
    <3>2. Cardinality(InFlight)' \in Nat /\ Cardinality(InFlight)' <= C /\ C \in Nat
      BY <1>0, <3>1, InFlightMoves
    <3>3. main \notin {"size", "print", "exit"} /\ n_count < N
      BY <1>0, <2>2 DEF LoadInv, TypeOK
    <3>4. TypeOK'
      BY <1>0, <1>6, <2>2 DEF Check, Goto, TypeOK, clock
    <3>5. UNCHANGED <<n_count, ERR, time_usr, main, t_size>>
      BY <1>6 DEF Check
    <3> QED
      BY <1>0, <3>2, <3>3, <3>4, <3>5 DEF LoadInv, TypeOK, AtMost, C,
                                          SomethingToPrint
  <2> QED
    BY <2>1, <2>2
<1>7. ASSUME NEW t \in Threads, Request(t)
      PROVE  LoadInv'
  <2>1. PICK outcome \in {"answered", "refused"} : Goto(t, outcome)
    BY <1>7 DEF Request
  <2>2. Cardinality(InFlight)' = Cardinality(InFlight)
    BY <1>0, <1>7, <2>1, InFlightMoves DEF Request, Flying
  <2> QED
    BY <1>0, <1>7, <2>1, <2>2 DEF Request, Goto, LoadInv, TypeOK, AtMost, C,
                                  SomethingToPrint, clock
<1>8. ASSUME NEW t \in Threads, CountAnswer(t)
      PROVE  LoadInv'
  <2>1. Goto(t, "check") /\ pc[t] \in Flying
    BY <1>8 DEF CountAnswer, Flying
  <2>2. /\ Cardinality(InFlight)' = Cardinality(InFlight) - 1
        /\ Cardinality(InFlight) \in Nat /\ C \in Nat
    BY <1>0, <2>1, InFlightMoves DEF Flying
  <2> QED
    BY <1>0, <1>8, <2>2 DEF CountAnswer, Goto, LoadInv, TypeOK, AtMost, C,
                            SomethingToPrint, clock
<1>9. ASSUME NEW t \in Threads, CountRefused(t)
      PROVE  LoadInv'
  <2>1. Goto(t, "failed") /\ pc[t] \in Flying
    BY <1>9 DEF CountRefused, Flying
  <2>2. /\ Cardinality(InFlight)' = Cardinality(InFlight) - 1
        /\ Cardinality(InFlight) \in Nat /\ C \in Nat
    BY <1>0, <2>1, InFlightMoves DEF Flying
  <2> QED
    BY <1>0, <1>9, <2>2 DEF CountRefused, Goto, LoadInv, TypeOK, AtMost, C,
                            SomethingToPrint, clock
<1>10. CASE UNCHANGED vars
  BY <1>0, <1>10, InFlightStays DEF vars, LoadInv, TypeOK, AtMost, C,
                                    SomethingToPrint
<1> QED
  BY <1>1, <1>2, <1>3, <1>4, <1>5, <1>6, <1>7, <1>8, <1>9, <1>10
  DEF Next, Main, Tfn

\* The counts are consistent in every reachable state.
THEOREM LoadInvariance == Spec => []LoadInv
<1>1. Init => LoadInv
  BY LoadInit
<1>2. LoadInv /\ [Next]_vars => LoadInv'
  BY LoadStep
<1> QED
  BY <1>1, <1>2, PTL DEF Spec

\* The check of n_count and the counting are two critical sections: fewer than
\* C requests too many are made (client.cpp:89-95, 118-121).
THEOREM NotTooMany == Spec => []AtMost
<1>1. LoadInv => AtMost
  BY DEF LoadInv
<1> QED
  BY <1>1, LoadInvariance, PTL

\* Fewer than C answers come after main has read the number of samples.
THEOREM FewAreLate == Spec => []FewLateAnswers
<1>1. LoadInv => FewLateAnswers
  <2>1. ASSUME LoadInv PROVE FewLateAnswers
    <3>1. Cardinality(InFlight) \in Nat /\ C \in Nat
      <4>1. IsFiniteSet(Threads) /\ InFlight \subseteq Threads
        BY LoadAssumption DEF LoadAssumption, InFlight
      <4> QED
        BY <4>1, FS_Subset, FS_CardinalityType DEF C
    <3> QED
      BY <2>1, <3>1 DEF LoadInv, TypeOK, FewLateAnswers
  <2> QED
    BY <2>1
<1> QED
  BY <1>1, LoadInvariance, PTL

\* Percent reads before the first sample only if every one of the N requests
\* was refused.
THEOREM PercentHasSamples == Spec => []SomethingToPrint
<1>1. LoadInv => SomethingToPrint
  BY DEF LoadInv
<1> QED
  BY <1>1, LoadInvariance, PTL

\* Reading back what get_time writes gives the number, but for those below ten,
\* where the character past the end stands for the last digit.
LEMMA ReadsBack ==
  ASSUME NEW ms \in 0 .. 999
  PROVE  /\ ms >= 10 => ReadBack(Written(ms)) = ms
         /\ ms < 10 => ReadBack(Written(ms)) = 10 * ms - 48
<1>1. CASE ms < 10
  <2>1. Written(ms) = <<0, ms>>
    BY <1>1 DEF Written
  <2>2. /\ Len(<<0, ms>>) = 2
        /\ <<0, ms>>[1] = 0 /\ <<0, ms>>[2] = ms
    OBVIOUS
  <2>3. ReadBack(Written(ms)) = 0 * 100 + ms * 10 + (0 - 48)
    BY <2>1, <2>2 DEF ReadBack, Zero
  <2> QED
    BY <1>1, <2>3
<1>2. CASE 10 <= ms
  <2> DEFINE a == ms \div 100
             b == (ms \div 10) % 10
             c == ms % 10
  <2>1. Written(ms) = <<a, b, c>>
    BY <1>2 DEF Written
  <2>2. /\ Len(<<a, b, c>>) = 3
        /\ <<a, b, c>>[1] = a /\ <<a, b, c>>[2] = b /\ <<a, b, c>>[3] = c
    OBVIOUS
  <2>3. ReadBack(Written(ms)) = a * 100 + b * 10 + c
    BY <2>1, <2>2 DEF ReadBack
  <2>4. ms = a * 100 + b * 10 + c
    OBVIOUS
  <2> QED
    BY <1>2, <2>3, <2>4
<1> QED
  BY <1>1, <1>2

\* A time read back differs from the clock by whole days and, in the first ten
\* milliseconds of a second, by 9 * ms - 48.
LEMMA ReadsTime ==
  ASSUME NEW t \in Nat
  PROVE  \E d \in Nat, e \in -48 .. 33 :
           /\ Read(t) = t - d * Day + e
           /\ t % 1000 >= 10 => e = 0
<1> DEFINE ms == t % 1000
<1>1. ms \in 0 .. 999
  OBVIOUS
<1>2. t % Day \in Nat /\ t \div Day \in Nat /\ t = Day * (t \div Day) + (t % Day)
  BY DEF Day
<1>3. /\ ((t % Day) \div 1000) \in Nat
      /\ t % Day = 1000 * ((t % Day) \div 1000) + ((t % Day) % 1000)
  BY <1>2
<1>4. (t % Day) % 1000 = ms
  BY DEF Day
<1>5. Read(t) = (t % Day) - ms + ReadBack(Written(ms))
  BY <1>3, <1>4 DEF Read
<1>6. CASE ms >= 10
  <2>1. Read(t) = t - (t \div Day) * Day + 0
    BY <1>1, <1>2, <1>5, <1>6, ReadsBack DEF Day
  <2> QED
    BY <1>2, <2>1
<1>7. CASE ms < 10
  <2>1. Read(t) = t - (t \div Day) * Day + (9 * ms - 48)
    BY <1>1, <1>2, <1>5, <1>7, ReadsBack DEF Day
  <2>2. 9 * ms - 48 \in -48 .. 33
    BY <1>1, <1>7
  <2> QED
    BY <1>2, <1>7, <2>1, <2>2
<1> QED
  BY <1>1, <1>6, <1>7

\* The printed rate is computed from the right time, whole days and the first
\* ten milliseconds of a second excepted (client.cpp:70-79, 146-158).
THEOREM RateFromClock == Spec => []RateIsRight
<1>1. ASSUME LoadInv PROVE RateIsRight
  <2>1. t_start \in Nat /\ t_end \in Nat
    BY <1>1, LoadAssumption DEF LoadInv, TypeOK, LoadAssumption
  <2>2. PICK d1 \in Nat, e1 \in -48 .. 33 :
          /\ Read(t_start) = t_start - d1 * Day + e1
          /\ t_start % 1000 >= 10 => e1 = 0
    BY <2>1, ReadsTime
  <2>3. PICK d2 \in Nat, e2 \in -48 .. 33 :
          /\ Read(t_end) = t_end - d2 * Day + e2
          /\ t_end % 1000 >= 10 => e2 = 0
    BY <2>1, ReadsTime
  <2> DEFINE error == QPS - (t_end - t_start)
  <2>4. error = (d1 - d2) * Day + (e2 - e1)
    BY <2>1, <2>2, <2>3 DEF QPS, Day
  <2>5. e2 - e1 >= 0 => error % Day = e2 - e1
    BY <2>2, <2>3, <2>4 DEF Day
  <2>6. e2 - e1 < 0 => error % Day = Day + (e2 - e1)
    BY <2>2, <2>3, <2>4 DEF Day
  <2>7. e2 - e1 \in -81 .. 81
    BY <2>2, <2>3
  <2>8. t_start % 1000 >= 10 /\ t_end % 1000 >= 10 => error % Day = 0
    BY <2>2, <2>3, <2>5
  <2>9. error % Day <= 81 \/ error % Day >= Day - 81
    BY <2>5, <2>6, <2>7 DEF Day
  <2> QED
    BY <2>8, <2>9 DEF RateIsRight
<1>2. LoadInv => RateIsRight
  BY <1>1
<1> QED
  BY <1>2, LoadInvariance, PTL

===============================================================================
