---------------------------- MODULE LoadGenerator ----------------------------
(***************************************************************************)
(* The load generator: C threads that each ask the server again and again  *)
(* until N requests have been counted, and a main thread that polls the    *)
(* counter and then prints the rate and percentiles of the answer times.   *)
(*                                                                         *)
(* The counter and the samples are written under a mutex; main reads them  *)
(* without it.  A thread that finds the count reached leaves its loop with *)
(* the mutex locked, so the others wait for it for ever; the threads are   *)
(* detached and end with the process.  A thread whose connection fails     *)
(* counts the request and ends.  Of the samples only their number matters. *)
(***************************************************************************)
EXTENDS Integers, Sequences, FiniteSets

CONSTANTS
  Threads,  \* the C threads of tfn
  N,        \* requests to make
  Times,    \* clock readings in milliseconds, 0 at some midnight
  Nobody

ASSUME LoadAssumption ==
  /\ IsFiniteSet(Threads) /\ Threads # {}
  /\ N \in Nat
  /\ Times \subseteq Nat
  /\ Nobody \notin Threads

VARIABLES
  n_count,   \* requests counted
  ERR,       \* failed connections
  time_usr,  \* how many samples there are
  mutex,     \* the thread that left its loop with the mutex locked
  pc,        \* position of each thread
  main,      \* position of main: "create", "poll", "size", "print" or "exit"
  t_size,    \* Percent: how many samples main takes into account
  t_start,   \* the time main began
  t_end      \* the time main saw the count reached

vars == <<n_count, ERR, time_usr, mutex, pc, main, t_size, t_start, t_end>>
clock == <<t_start, t_end>>

C == Cardinality(Threads)

\* A thread moves while the process lives.
At(t, position) == main # "exit" /\ pc[t] = position
Goto(t, position) == pc' = [pc EXCEPT ![t] = position]

-----------------------------------------------------------------------------
\* main starts the threads one by one, then polls.
Create(t) ==
  /\ main = "create"
  /\ At(t, "new")
  /\ Goto(t, "check")
  /\ UNCHANGED <<n_count, ERR, time_usr, mutex, main, t_size, clock>>

AllCreated ==
  /\ main = "create"
  /\ \A t \in Threads : pc[t] # "new"
  /\ main' = "poll"
  /\ UNCHANGED <<n_count, ERR, time_usr, mutex, pc, t_size, clock>>

\* Slip: one more request after the count was reached.
CheckLate(t) ==
  /\ At(t, "check") /\ mutex = Nobody
  /\ IF n_count > N
     THEN mutex' = t /\ Goto(t, "done")
     ELSE Goto(t, "request") /\ UNCHANGED mutex
  /\ UNCHANGED <<n_count, ERR, time_usr, main, t_size, clock>>

\* The head of the loop: break keeps the mutex.
Check(t) ==
  /\ At(t, "check") /\ mutex = Nobody
  /\ IF n_count >= N
     THEN mutex' = t /\ Goto(t, "done")
     ELSE Goto(t, "request") /\ UNCHANGED mutex
  /\ UNCHANGED <<n_count, ERR, time_usr, main, t_size, clock>>

\* The server answers, or cannot be reached.
Request(t) ==
  /\ At(t, "request")
  /\ \E outcome \in {"answered", "refused"} : Goto(t, outcome)
  /\ UNCHANGED <<n_count, ERR, time_usr, mutex, main, t_size, clock>>

CountAnswer(t) ==
  /\ At(t, "answered") /\ mutex = Nobody
  /\ time_usr' = time_usr + 1
  /\ n_count' = n_count + 1
  /\ Goto(t, "check")
  /\ UNCHANGED <<ERR, mutex, main, t_size, clock>>

\* Slip: the thread ends with the mutex locked.
CountRefusedLocked(t) ==
  /\ At(t, "refused") /\ mutex = Nobody
  /\ n_count' = n_count + 1
  /\ ERR' = ERR + 1
  /\ mutex' = t
  /\ Goto(t, "failed")
  /\ UNCHANGED <<time_usr, main, t_size, clock>>

CountRefused(t) ==
  /\ At(t, "refused") /\ mutex = Nobody
  /\ n_count' = n_count + 1
  /\ ERR' = ERR + 1
  /\ Goto(t, "failed")
  /\ UNCHANGED <<time_usr, mutex, main, t_size, clock>>

-----------------------------------------------------------------------------
\* Slip: main does not wait for the last request.
PollEarly ==
  /\ main = "poll" /\ n_count + 1 >= N
  /\ t_end' \in {now \in Times : now >= t_start}
  /\ main' = "size"
  /\ UNCHANGED <<n_count, ERR, time_usr, mutex, pc, t_size, t_start>>

\* while (n_count < N): no mutex, no pause.  Then the time is taken.
Poll ==
  /\ main = "poll" /\ n_count >= N
  /\ t_end' \in {now \in Times : now >= t_start}
  /\ main' = "size"
  /\ UNCHANGED <<n_count, ERR, time_usr, mutex, pc, t_size, t_start>>

\* Percent: the number of samples is read once, then they are sorted and
\* looked at while late answers may still be added.
Size ==
  /\ main = "size"
  /\ t_size' = time_usr
  /\ main' = "print"
  /\ UNCHANGED <<n_count, ERR, time_usr, mutex, pc, clock>>

Percent ==
  /\ main = "print"
  /\ main' = "exit"
  /\ UNCHANGED <<n_count, ERR, time_usr, mutex, pc, t_size, clock>>

-----------------------------------------------------------------------------
(***************************************************************************)
(* get_time writes a time as text and QPS reads two of them.               *)
(***************************************************************************)
Day == 24 * 60 * 60 * 1000
Zero == 48  \* the code of '0'; that of the character past the end is 0

\* Slip: the zero is put before one digit only.
WrittenNarrow(ms) ==
  IF ms < 10 THEN <<0, ms>>
  ELSE IF ms < 100 THEN <<ms \div 10, ms % 10>>
  ELSE <<ms \div 100, (ms \div 10) % 10, ms % 10>>

\* get_time: one zero before a number below 100, also if it has one digit.
Written(ms) ==
  IF ms < 10 THEN <<0, ms>>
  ELSE <<ms \div 100, (ms \div 10) % 10, ms % 10>>

\* QPS reads three characters, if need be the one past the end.
ReadBack(text) ==
  text[1] * 100 + text[2] * 10 + (IF Len(text) = 3 THEN text[3] ELSE 0 - Zero)

\* Hours, minutes and seconds are exact, the date is ignored.
Read(t) == ((t % Day) \div 1000) * 1000 + ReadBack(Written(t % 1000))

QPS == Read(t_end) - Read(t_start)

-----------------------------------------------------------------------------
Init ==
  /\ n_count = 0 /\ ERR = 0 /\ time_usr = 0
  /\ mutex = Nobody
  /\ pc = [t \in Threads |-> "new"]
  /\ main = "create"
  /\ t_size = 0
  /\ t_start \in Times /\ t_end = t_start

Tfn(t) == Check(t) \/ Request(t) \/ CountAnswer(t) \/ CountRefused(t)

Main == (\E t \in Threads : Create(t)) \/ AllCreated \/ Poll \/ Size \/ Percent

Next == Main \/ \E t \in Threads : Tfn(t)

Spec == Init /\ [][Next]_vars

(***************************************************************************)
(* The kernel runs every thread.  connect and read come back some day; the *)
(* mutex goes to each waiter while it is handed on (a waiter that never    *)
(* got it would be one request fewer in flight).                           *)
(***************************************************************************)
FairSpec ==
  /\ Spec
  /\ WF_vars(Main)
  /\ \A t \in Threads : WF_vars(Tfn(t))

-----------------------------------------------------------------------------
TypeOK ==
  /\ n_count \in Nat /\ ERR \in Nat /\ time_usr \in Nat /\ t_size \in Nat
  /\ mutex \in Threads \cup {Nobody}
  /\ pc \in [Threads -> {"new", "check", "request", "answered", "refused",
                         "failed", "done"}]
  /\ main \in {"create", "poll", "size", "print", "exit"}
  /\ t_start \in Times /\ t_end \in Times

\* Requests a thread has begun and not counted.
InFlight == {t \in Threads : pc[t] \in {"request", "answered", "refused"}}

\* The check and the count are two critical sections, so more than N requests
\* may be made: at most one too many for each further thread.
AtMost == n_count + Cardinality(InFlight) < N + C

\* The percentiles miss at most the answers that were under way when main saw
\* the count reached.
FewLateAnswers == main \in {"print", "exit"} => time_usr - t_size < C

\* The time by which the rate is computed, taken back from text, is right but
\* for whole days, or wrong by up to 81 milliseconds if a reading falls into
\* the first ten of its second.
RateIsRight ==
  main \in {"print", "exit"} =>
    LET error == (QPS - (t_end - t_start)) % Day
    IN  IF t_start % 1000 >= 10 /\ t_end % 1000 >= 10
        THEN error = 0
        ELSE error <= 81 \/ error >= Day - 81

\* Percent indexes time_usr[t_size - 1]: there is a sample unless every one of
\* the N requests main waited for was refused.
SomethingToPrint == main = "print" /\ ERR < N => t_size > 0

\* The inductive invariant behind the counts: every request was answered or
\* refused, main goes on when N are counted, and what is still in flight then
\* is what may come late.
LoadInv ==
  /\ TypeOK
  /\ n_count = time_usr + ERR
  /\ AtMost
  /\ main \in {"size", "print", "exit"} => n_count >= N
  /\ main \in {"print", "exit"} => time_usr + Cardinality(InFlight) < t_size + C
  /\ SomethingToPrint

\* main gets its count and ends, although a thread that is done keeps the mutex
\* for ever: unless all connections failed before N requests were counted, when
\* nobody is left to count.
MainEnds ==
  <>(main = "exit" \/ (n_count < N /\ \A t \in Threads : pc[t] = "failed"))

=============================================================================
