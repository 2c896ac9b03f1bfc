------------------------------ MODULE LoggerInv ------------------------------
(***************************************************************************)
(* The inductive invariant of Logger.                                      *)
(*                                                                         *)
(* An event that is being logged is the last one of its thread.  At each   *)
(* of its logger's appenders it is either written, or being written under  *)
(* the mutex, or not written at all.  While a thread holds the mutex, what *)
(* it has begun is the last its logger wrote to that output.               *)
(***************************************************************************)
EXTENDS Logger

LoggerTypeOK ==
  /\ event \in [Threads -> Events \cup {NoEvent}]
  /\ turn \in [Threads -> Nat]
  /\ item \in [Threads -> 0 .. Len(m_items)]
  /\ mutex \in [Mutexes -> Threads \cup {NoEvent}]
  /\ output \in [Outputs -> Seq(Events \X {m_items[i] : i \in DOMAIN m_items})]
  /\ logged \in [Threads -> Seq(Events)]

\* No event is logged twice.
LoggedOnce ==
  \A s, t \in Threads : \A i \in DOMAIN logged[s], j \in DOMAIN logged[t] :
    logged[s][i] = logged[t][j] => s = t /\ i = j

\* A thread in a call stands at one of its logger's appenders.
CallStands(t) ==
  event[t] # NoEvent =>
    /\ logged[t] # << >> /\ event[t] = logged[t][Len(logged[t])]
    /\ Wanted(event[t])
    /\ turn[t] \in DOMAIN Appenders(LoggerOf(event[t]))
    /\ item[t] # 0 => Locked(t)

\* A locked mutex is the one its thread stands at.
MutexFits(a) ==
  mutex[a] # NoEvent => event[mutex[a]] # NoEvent /\ Appender(mutex[a]) = a

\* How much of e's line is on o, when thread t has logged e.
Progress(t, e, o) ==
  IF ~WritesTo(e, o) THEN 0
  ELSE IF event[t] # e THEN Len(m_items)
  ELSE IF \E k \in 1 .. turn[t] - 1 : Appenders(LoggerOf(e))[k] = o THEN Len(m_items)
  ELSE IF Target(t) = o THEN item[t] ELSE 0

Fits(t, e, o) == OfLine(e, Progress(t, e, o), o)

Has(t, e) == \E i \in DOMAIN logged[t] : logged[t][i] = e

Written ==
  \A e \in Events, o \in Outputs :
    /\ (\A t \in Threads : ~Has(t, e)) => At(o, {e}) = {}
    /\ \A t \in Threads : Has(t, e) => Fits(t, e, o)

\* The lines of one thread are in the order of its calls.
Before(d, e, o) == \A p \in At(o, {d}), q \in At(o, {e}) : p < q

InOrder(t) ==
  \A i, j \in DOMAIN logged[t] : i < j =>
    \A o \in Outputs : Before(logged[t][i], logged[t][j], o)

\* What a thread has begun to write under the mutex is the last its logger wrote.
IsLast(e, o) ==
  \A p \in At(o, {e}), q \in At(o, {d \in Events : LoggerOf(d) = LoggerOf(e)}) :
    p < q => output[o][q][1] = e

LastWritten(t) == Locked(t) => IsLast(event[t], Target(t))

LInv ==
  /\ LoggerTypeOK /\ LoggedOnce
  /\ \A t \in Threads : CallStands(t) /\ LastWritten(t) /\ InOrder(t)
  /\ \A a \in Mutexes : MutexFits(a)
  /\ Written
  /\ LinesStayWhole

=============================================================================
