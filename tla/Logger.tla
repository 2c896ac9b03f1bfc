-------------------------------- MODULE Logger --------------------------------
(***************************************************************************)
(* The logger: threads log events, a logger hands each event it does not   *)
(* filter to its appenders one after the other, and an appender writes the *)
(* event's line, item by item, under a mutex of its own.                   *)
(*                                                                         *)
(* Every LoggerManager builds its own appenders, so two loggers may write  *)
(* to one output under different mutexes (log_main and log1 in main.cpp    *)
(* and zyx_thread.cpp do).  On std::cout each item is a write.  A file is  *)
(* opened, appended to and closed for each line; what has been formatted   *)
(* goes out when an endl or close() flushes the stream.                    *)
(***************************************************************************)
EXTENDS Sequences, Functions, FiniteSets, Integers

CONSTANTS
  Threads,
  Config,   \* for each logger the arguments of its LoggerManager
  Pattern,  \* the formatter's pattern, a sequence of one-letter strings
  Events,   \* what is logged, each event once
  Source,   \* for each event the logger and level its macro names
  NoEvent

Loggers == DOMAIN Config
Console == "std::cout"

\* LogLevel::Level.
Level == [UNKNOW |-> 0, DEBUG |-> 1, INFO |-> 2, WARN |-> 3, ERROR |-> 4,
          FATAL |-> 5]

\* A logger has one appender for each output: a file that is named twice would
\* get every line twice, under two mutexes.
ASSUME LoggerAssumption ==
  /\ \A l \in Loggers : /\ Config[l].level \in DOMAIN Level
                        /\ Config[l].write_std \in BOOLEAN
                        /\ Config[l].file \in Seq(STRING \ {Console})
                        /\ IsInjective(Config[l].file)
  /\ Pattern \in Seq(STRING)
  /\ \A e \in Events : Source[e] \in Loggers \X (DOMAIN Level \ {"UNKNOW"})
  /\ NoEvent \notin Events \cup Threads

VARIABLES
  event,   \* the event each thread is logging
  turn,    \* the appender it has got to
  item,    \* how many items of the line this appender has written
  mutex,   \* the appender mutexes that are locked
  output,  \* what each output contains: <<event, item>> pairs
  logged   \* history: the events each thread has logged, in order

vars == <<event, turn, item, mutex, output, logged>>

-----------------------------------------------------------------------------
(***************************************************************************)
(* What the constructors set up.                                           *)
(***************************************************************************)

\* LoggerManager: std::cout first, then one appender for each file.
Appenders(l) ==
  (IF Config[l].write_std THEN <<Console>> ELSE << >>) \o Config[l].file

Mutexes == UNION {{l} \X DOMAIN Appenders(l) : l \in Loggers}

Outputs == {Console} \cup UNION {Range(Config[l].file) : l \in Loggers}

\* The FormatItems and the letters that stand for them.
Mark ==
  [p |-> "level", r |-> "elapse", m |-> "message", t |-> "thread id",
   n |-> "new line", f |-> "file name", l |-> "line", N |-> "thread name",
   T |-> "tab", F |-> "fiber id", D |-> "date time"]

\* LogFormatter::init, first loop: a % goes, unless another one follows; nstr
\* is what stays, in order.
Kept ==
  {i \in DOMAIN Pattern :
     Pattern[i] # "%" \/ (i < Len(Pattern) /\ Pattern[i + 1] = "%")}

Stripped ==
  [n \in 1 .. Cardinality(Kept) |->
     Pattern[CHOOSE i \in Kept : Cardinality(Kept \cap 1 .. i) = n]]

\* Second loop: a letter of mark is its item, after a % or not; any other
\* letter stands for itself.
m_items ==
  [i \in DOMAIN Stripped |->
     IF Stripped[i] \in DOMAIN Mark THEN Mark[Stripped[i]] ELSE Stripped[i]]

\* The level a macro hands to Logger::log; the one for FATAL calls error().
LevelOf(e) == LET level == Source[e][2]
              IN  Level[IF level = "FATAL" THEN "ERROR" ELSE level]

LoggerOf(e) == Source[e][1]

-----------------------------------------------------------------------------
(***************************************************************************)
(* Logging.                                                                *)
(***************************************************************************)

Wanted(e) == LevelOf(e) >= Level[Config[LoggerOf(e)].level]

\* Logger::log up to the first appender.
Log(t, e) ==
  /\ event[t] = NoEvent
  /\ \A s \in Threads : e \notin Range(logged[s])
  /\ logged' = [logged EXCEPT ![t] = Append(@, e)]
  /\ event' = [event EXCEPT ![t] =
                 IF Wanted(e) /\ Appenders(LoggerOf(e)) # << >> THEN e ELSE @]
  /\ turn' = [turn EXCEPT ![t] = 1]
  /\ item' = [item EXCEPT ![t] = 0]
  /\ UNCHANGED <<mutex, output>>

Appender(t) == <<LoggerOf(event[t]), turn[t]>>
Target(t) == Appenders(LoggerOf(event[t]))[turn[t]]
Locked(t) == event[t] # NoEvent /\ mutex[Appender(t)] = t

\* Slip: the appender does not lock.
LockNot(t) ==
  /\ event[t] # NoEvent /\ ~Locked(t)
  /\ mutex' = [mutex EXCEPT ![Appender(t)] = t]
  /\ UNCHANGED <<event, turn, item, output, logged>>

\* LogAppender::log begins.
Lock(t) ==
  /\ event[t] # NoEvent
  /\ mutex[Appender(t)] = NoEvent
  /\ mutex' = [mutex EXCEPT ![Appender(t)] = t]
  /\ UNCHANGED <<event, turn, item, output, logged>>

\* The next write goes up to item n: std::cout is written to item by item, a
\* file when an endl flushes its stream, or close().
Flushes(t, n) ==
  IF Target(t) = Console THEN n = item[t] + 1
  ELSE /\ n = Len(m_items) \/ m_items[n] = "new line"
       /\ \A i \in item[t]+1 .. n-1 : m_items[i] # "new line"

\* Of the line of an event, the items from first on up to last.
Piece(e, first, last) ==
  [i \in 1 .. last - first |-> <<e, m_items[first + i]>>]

Adds(o, e, first, last) ==
  output' = [output EXCEPT ![o] = @ \o Piece(e, first, last)]

\* Slip: the file is opened without ios::app.
FormatTruncates(t) ==
  /\ Locked(t)
  /\ \E n \in item[t]+1 .. Len(m_items) :
       /\ Flushes(t, n)
       /\ output' = [output EXCEPT ![Target(t)] =
                       (IF Target(t) = Console THEN @ ELSE << >>)
                       \o Piece(event[t], item[t], n)]
       /\ item' = [item EXCEPT ![t] = n]
  /\ UNCHANGED <<event, turn, mutex, logged>>

\* LogFormatter::format, up to the next write.
Format(t) ==
  /\ Locked(t)
  /\ \E n \in item[t]+1 .. Len(m_items) :
       /\ Flushes(t, n)
       /\ Adds(Target(t), event[t], item[t], n)
       /\ item' = [item EXCEPT ![t] = n]
  /\ UNCHANGED <<event, turn, mutex, logged>>

\* Slip: the appender's mutex stays locked.
UnlockNot(t) ==
  /\ Locked(t)
  /\ item[t] = Len(m_items)
  /\ turn' = [turn EXCEPT ![t] = @ + 1]
  /\ item' = [item EXCEPT ![t] = 0]
  /\ event' = [event EXCEPT ![t] =
                 IF turn[t] = Len(Appenders(LoggerOf(@))) THEN NoEvent ELSE @]
  /\ UNCHANGED <<mutex, output, logged>>

\* The line is written: on to the next appender, or back to the caller.
Unlock(t) ==
  /\ Locked(t)
  /\ item[t] = Len(m_items)
  /\ mutex' = [mutex EXCEPT ![Appender(t)] = NoEvent]
  /\ turn' = [turn EXCEPT ![t] = @ + 1]
  /\ item' = [item EXCEPT ![t] = 0]
  /\ event' = [event EXCEPT ![t] =
                 IF turn[t] = Len(Appenders(LoggerOf(@))) THEN NoEvent ELSE @]
  /\ UNCHANGED <<output, logged>>

-----------------------------------------------------------------------------
Init ==
  /\ event = [t \in Threads |-> NoEvent]
  /\ turn = [t \in Threads |-> 1]
  /\ item = [t \in Threads |-> 0]
  /\ mutex = [a \in Mutexes |-> NoEvent]
  /\ output = [o \in Outputs |-> << >>]
  /\ logged = [t \in Threads |-> << >>]

Write(t) == Lock(t) \/ Format(t) \/ Unlock(t)

Next == \E t \in Threads : Write(t) \/ \E e \in Events : Log(t, e)

\* The kernel runs every thread; events are finitely many, so nobody waits
\* for a mutex for ever.
Spec == Init /\ [][Next]_vars

FairSpec == Spec /\ \A t \in Threads : WF_vars(Write(t))

-----------------------------------------------------------------------------
\* Where output o has an item of an event of E.
At(o, E) == {p \in DOMAIN output[o] : output[o][p][1] \in E}

\* The first n items of e's line are on o, in order, and nothing else of e is.
OfLine(e, n, o) ==
  \E place \in [1 .. n -> At(o, {e})] :
    /\ \A i, j \in 1 .. n : i < j => place[i] < place[j]
    /\ \A i \in 1 .. n : output[o][place[i]] = <<e, m_items[i]>>
    /\ \A p \in At(o, {e}) : \E i \in 1 .. n : place[i] = p

WritesTo(e, o) == Wanted(e) /\ o \in Range(Appenders(LoggerOf(e)))

\* The lines of one logger are never torn apart by threads that log at once:
\* between two items of a line stands no item of another one.  Those of two
\* loggers on std::cout may be torn, since their appenders have different
\* mutexes.
LinesStayWhole ==
  \A l \in Loggers, o \in Outputs :
    \A p, q, r \in At(o, {e \in Events : LoggerOf(e) = l}) :
      p < q /\ q < r /\ output[o][p][1] = output[o][r][1] =>
        output[o][q][1] = output[o][p][1]

\* When its call is over, an event at or above its logger's level has exactly
\* one line on each of the logger's outputs, complete and in order, and other
\* events leave nothing; the lines of one thread are in the order of its calls.
Delivered ==
  \A t \in Threads, o \in Outputs : \A i \in DOMAIN logged[t] :
    LET e == logged[t][i] IN
    /\ event[t] # e => OfLine(e, IF WritesTo(e, o) THEN Len(m_items) ELSE 0, o)
    /\ \A j \in DOMAIN logged[t] : i < j =>
         \A p \in At(o, {e}), q \in At(o, {logged[t][j]}) : p < q

\* No call waits for ever, whatever order the threads lock the appenders in.
CallsReturn == \A t \in Threads : event[t] # NoEvent ~> event[t] = NoEvent

=============================================================================
