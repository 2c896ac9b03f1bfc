----------------------------- MODULE LoggerProofs -----------------------------
(***************************************************************************)
(* Proofs about Logger, for any threads, loggers, outputs, pattern and     *)
(* events: LInv is inductive, so the lines of one logger stay whole and    *)
(* every event has its line.                                               *)
(***************************************************************************)
EXTENDS LoggerInv, SequenceTheorems, FiniteSetTheorems, TLAPS

\* What the pattern is parsed into is a sequence.
LEMMA ItemsAreASequence ==
  /\ Len(m_items) \in Nat
  /\ DOMAIN m_items = 1 .. Len(m_items)
<1>1. Pattern \in Seq(STRING) /\ DOMAIN Pattern = 1 .. Len(Pattern) /\ Len(Pattern) \in Nat
  BY LoggerAssumption, LenProperties DEF LoggerAssumption
<1>2. IsFiniteSet(Kept)
  <2>1. Kept \in SUBSET (1 .. Len(Pattern)) /\ IsFiniteSet(1 .. Len(Pattern))
    BY <1>1, FS_Interval DEF Kept
  <2> QED
    BY <2>1, FS_Subset
<1>3. Cardinality(Kept) \in Nat
  BY <1>2, FS_CardinalityType
<1>4. DOMAIN m_items = 1 .. Cardinality(Kept)
  BY DEF m_items, Stripped
<1> HIDE DEF m_items
<1>5. m_items \in Seq({m_items[i] : i \in DOMAIN m_items})
  <2> DEFINE S == {m_items[i] : i \in DOMAIN m_items}
  <2>1. m_items \in [1 .. Cardinality(Kept) -> S]
    <3>1. m_items = [i \in DOMAIN m_items |-> m_items[i]]
      BY DEF m_items
    <3> QED
      BY <1>4, <3>1
  <2> QED
    BY <1>3, <2>1
<1> QED
  BY <1>5, LenProperties

\* The appenders of a logger: one for each output.
LEMMA AppendersDiffer ==
  ASSUME NEW l \in Loggers
  PROVE  /\ Appenders(l) \in Seq(Outputs)
         /\ DOMAIN Appenders(l) = 1 .. Len(Appenders(l))
         /\ Len(Appenders(l)) \in Nat
         /\ \A j, k \in DOMAIN Appenders(l) :
              Appenders(l)[j] = Appenders(l)[k] => j = k
         /\ Range(Appenders(l)) = {Appenders(l)[k] : k \in DOMAIN Appenders(l)}
<1> DEFINE std == IF Config[l].write_std THEN <<Console>> ELSE << >>
           file == Config[l].file
<1>1. /\ file \in Seq(STRING \ {Console}) /\ IsInjective(file)
  BY LoggerAssumption DEF LoggerAssumption
<1>2. /\ Len(file) \in Nat /\ DOMAIN file = 1 .. Len(file)
      /\ \A k \in DOMAIN file : file[k] # Console
      /\ \A j, k \in DOMAIN file : file[j] = file[k] => j = k
  <2>1. Len(file) \in Nat /\ DOMAIN file = 1 .. Len(file)
    BY <1>1, LenProperties
  <2>2. \A k \in DOMAIN file : file[k] \in STRING \ {Console}
    BY <1>1, <2>1, ElementOfSeq
  <2> QED
    BY <1>1, <2>1, <2>2 DEF IsInjective
<1>3. \A k \in DOMAIN file : file[k] \in Outputs
  BY DEF Outputs, Range
<1>4. file \in Seq(Outputs)
  <2>1. file \in [1 .. Len(file) -> STRING \ {Console}]
    BY <1>1, LenProperties
  <2>2. file \in [1 .. Len(file) -> Outputs]
    BY <1>2, <1>3, <2>1
  <2> QED
    BY <1>2, <2>2
<1>5. /\ std \in Seq(Outputs)
      /\ Len(std) \in Nat /\ Len(std) <= 1
      /\ Len(std) = 1 => std[1] = Console
  <2>1. CASE Config[l].write_std
    <3>1. std = <<Console>> /\ Console \in Outputs
      BY <2>1 DEF Outputs
    <3> QED
      BY <3>1
  <2>2. CASE ~Config[l].write_std
    <3>1. std = << >>
      BY <2>2
    <3> QED
      BY <3>1
  <2> QED
    BY <2>1, <2>2
<1> HIDE DEF std, file
<1>6. /\ std \o file \in Seq(Outputs)
      /\ Len(std \o file) = Len(std) + Len(file)
      /\ \A i \in 1 .. Len(std) + Len(file) :
           (std \o file)[i] = IF i <= Len(std) THEN std[i] ELSE file[i - Len(std)]
  BY <1>4, <1>5, ConcatProperties
<1>7. Appenders(l) = std \o file
  BY DEF Appenders, std, file
<1>8. DOMAIN Appenders(l) = 1 .. Len(std) + Len(file)
  BY <1>6, <1>7, LenProperties
<1>9. ASSUME NEW j \in DOMAIN Appenders(l), NEW k \in DOMAIN Appenders(l),
             Appenders(l)[j] = Appenders(l)[k]
      PROVE  j = k
  <2>1. /\ j \in 1 .. Len(std) + Len(file) /\ k \in 1 .. Len(std) + Len(file)
        /\ j \in Nat /\ k \in Nat /\ 1 <= j /\ 1 <= k
    BY <1>2, <1>5, <1>8
  <2>2. CASE j <= Len(std) /\ k <= Len(std)
    BY <1>2, <1>5, <2>1, <2>2
  <2>3. CASE j > Len(std) /\ k > Len(std)
    <3>1. j - Len(std) \in DOMAIN file /\ k - Len(std) \in DOMAIN file
      BY <1>2, <1>5, <2>1, <2>3
    <3>2. file[j - Len(std)] = file[k - Len(std)]
      BY <1>5, <1>6, <1>7, <1>9, <2>1, <2>3
    <3> QED
      BY <1>2, <1>5, <2>1, <3>1, <3>2
  <2>4. CASE j <= Len(std) /\ k > Len(std)
    <3>1. j = 1 /\ Len(std) = 1 /\ std[1] = Console
      <4> DEFINE n == Len(std)
      <4>1. n \in Nat /\ n <= 1 /\ j \in Nat /\ 1 <= j /\ j <= n
        BY <1>5, <2>1, <2>4
      <4> HIDE DEF n
      <4>2. j = 1 /\ n = 1
        BY <4>1
      <4> QED
        BY <1>5, <4>2 DEF n
    <3>2. k - Len(std) \in DOMAIN file
      BY <1>2, <2>1, <2>4, <3>1
    <3> QED
      BY <1>2, <1>6, <1>7, <1>9, <2>1, <2>4, <3>1, <3>2
  <2>5. CASE k <= Len(std) /\ j > Len(std)
    <3>1. k = 1 /\ Len(std) = 1 /\ std[1] = Console
      <4> DEFINE n == Len(std)
      <4>1. n \in Nat /\ n <= 1 /\ k \in Nat /\ 1 <= k /\ k <= n
        BY <1>5, <2>1, <2>5
      <4> HIDE DEF n
      <4>2. k = 1 /\ n = 1
        BY <4>1
      <4> QED
        BY <1>5, <4>2 DEF n
    <3>2. j - Len(std) \in DOMAIN file
      BY <1>2, <2>1, <2>5, <3>1
    <3> QED
      BY <1>2, <1>6, <1>7, <1>9, <2>1, <2>5, <3>1, <3>2
  <2> QED
    BY <1>2, <1>5, <2>1, <2>2, <2>3, <2>4, <2>5
<1> QED
  BY <1>2, <1>5, <1>6, <1>7, <1>8, <1>9 DEF Range

Entries == Events \X {m_items[i] : i \in DOMAIN m_items}

\* What a write adds to its output.
LEMMA Appended ==
  ASSUME LoggerTypeOK, NEW o \in Outputs, NEW e \in Events,
         NEW a \in 0 .. Len(m_items), NEW n \in a + 1 .. Len(m_items),
         Adds(o, e, a, n)
  PROVE  LET len == Len(output[o]) IN
         /\ len \in Nat /\ DOMAIN output[o] = 1 .. len
         /\ DOMAIN output'[o] = 1 .. len + (n - a)
         /\ \A p \in 1 .. len : output'[o][p] = output[o][p]
         /\ \A i \in 1 .. n - a : output'[o][len + i] = <<e, m_items[a + i]>>
         /\ \A d \in Outputs \ {o} : output'[d] = output[d]
         /\ output' \in [Outputs -> Seq(Entries)]
<1> DEFINE len == Len(output[o])
           piece == Piece(e, a, n)
<1>1. output \in [Outputs -> Seq(Entries)] /\ output[o] \in Seq(Entries)
  BY DEF LoggerTypeOK, Entries
<1>2. n - a \in Nat /\ a \in Nat /\ n \in Nat
  BY ItemsAreASequence
<1>3. /\ piece \in Seq(Entries) /\ Len(piece) = n - a
      /\ \A i \in 1 .. n - a : piece[i] = <<e, m_items[a + i]>>
  <2>1. \A i \in 1 .. n - a : a + i \in 1 .. Len(m_items)
    BY <1>2, ItemsAreASequence
  <2>2. \A i \in 1 .. n - a : <<e, m_items[a + i]>> \in Entries
    BY <2>1, ItemsAreASequence DEF Entries
  <2>3. piece \in [1 .. n - a -> Entries]
    BY <2>2 DEF Piece
  <2>4. piece \in Seq(Entries)
    BY <1>2, <2>3
  <2> QED
    BY <1>2, <2>3, <2>4 DEF Piece
<1>4. len \in Nat /\ DOMAIN output[o] = 1 .. len
  BY <1>1, LenProperties
<1>5. output'[o] = output[o] \o piece
  BY <1>1 DEF Adds
<1> HIDE DEF piece
<1>6. /\ output'[o] \in Seq(Entries) /\ Len(output'[o]) = len + (n - a)
      /\ \A i \in 1 .. len + (n - a) : output'[o][i] =
           IF i <= len THEN output[o][i] ELSE piece[i - len]
  <2>1. /\ output[o] \o piece \in Seq(Entries)
        /\ Len(output[o] \o piece) = len + Len(piece)
        /\ \A i \in 1 .. len + Len(piece) : (output[o] \o piece)[i] =
             IF i <= len THEN output[o][i] ELSE piece[i - len]
    BY <1>1, <1>3, ConcatProperties
  <2>2. Len(piece) = n - a
    BY <1>3
  <2> QED
    BY <1>5, <2>1, <2>2
<1>7. DOMAIN output'[o] = 1 .. len + (n - a)
  BY <1>6, LenProperties
<1>8. \A p \in 1 .. len : output'[o][p] = output[o][p]
  BY <1>2, <1>4, <1>6
<1>9. ASSUME NEW i \in 1 .. n - a
      PROVE  output'[o][len + i] = <<e, m_items[a + i]>>
  <2>1. /\ len + i \in 1 .. len + (n - a) /\ ~(len + i <= len)
        /\ (len + i) - len = i
    BY <1>2, <1>4
  <2> QED
    BY <1>3, <1>6, <2>1
<1>10. /\ \A d \in Outputs \ {o} : output'[d] = output[d]
       /\ output' \in [Outputs -> Seq(Entries)]
  <2>1. output' = [output EXCEPT ![o] = output'[o]]
    BY <1>1 DEF Adds
  <2> QED
    BY <1>1, <1>6, <2>1
<1> QED
  BY <1>4, <1>7, <1>8, <1>9, <1>10

\* Where the events of a set stand after a write.
LEMMA Places ==
  ASSUME LoggerTypeOK, NEW o \in Outputs, NEW e \in Events,
         NEW a \in 0 .. Len(m_items), NEW n \in a + 1 .. Len(m_items),
         Adds(o, e, a, n)
  PROVE  LET len == Len(output[o]) IN
         \A d \in Outputs, E \in SUBSET Events :
           At(d, E)' = At(d, E) \cup
                         (IF d = o /\ e \in E THEN len + 1 .. len + (n - a) ELSE {})
<1> DEFINE len == Len(output[o])
<1>0. n - a \in Nat
  BY ItemsAreASequence
<1>1. /\ len \in Nat /\ DOMAIN output[o] = 1 .. len
      /\ DOMAIN output'[o] = 1 .. len + (n - a)
      /\ \A p \in 1 .. len : output'[o][p] = output[o][p]
      /\ \A i \in 1 .. n - a : output'[o][len + i] = <<e, m_items[a + i]>>
      /\ \A b \in Outputs \ {o} : output'[b] = output[b]
      /\ output' \in [Outputs -> Seq(Entries)]
  BY Appended
<1> HIDE DEF len
<1> SUFFICES ASSUME NEW d \in Outputs, NEW E \in SUBSET Events
             PROVE  At(d, E)' = At(d, E) \cup
                      (IF d = o /\ e \in E THEN len + 1 .. len + (n - a) ELSE {})
  BY DEF len
<1>2. CASE d # o
  BY <1>1, <1>2 DEF At
<1>3. CASE d = o
  <2>1. ASSUME NEW p \in len + 1 .. len + (n - a) PROVE output'[o][p][1] = e
    <3>1. p - len \in 1 .. n - a /\ len + (p - len) = p
      BY <1>0, <1>1
    <3>2. output'[o][p] = <<e, m_items[a + (p - len)]>>
      BY <1>0, <1>1, <3>1
    <3>3. <<e, m_items[a + (p - len)]>>[1] = e
      OBVIOUS
    <3> QED
      BY <3>2, <3>3
  <2>2. \A p \in 1 .. len + (n - a) : p \in 1 .. len \/ p \in len + 1 .. len + (n - a)
    BY <1>0, <1>1
  <2>3. 1 .. len \subseteq 1 .. len + (n - a)
        /\ len + 1 .. len + (n - a) \subseteq 1 .. len + (n - a)
    BY <1>0, <1>1
  <2>4. \A p \in 1 .. len : output'[o][p] = output[o][p]
    BY <1>0, <1>1
  <2>5. DOMAIN output[o] = 1 .. len /\ DOMAIN output'[o] = 1 .. len + (n - a)
    BY <1>0, <1>1
  <2> QED
    BY <1>3, <2>1, <2>2, <2>3, <2>4, <2>5 DEF At, len
<1> QED
  BY <1>2, <1>3

\* An event without an item on an output.
LEMMA EmptyLine ==
  ASSUME NEW e, NEW o
  PROVE  OfLine(e, 0, o) <=> At(o, {e}) = {}
<1>1. ASSUME At(o, {e}) = {} PROVE OfLine(e, 0, o)
  <2>1. [i \in 1 .. 0 |-> i] \in [1 .. 0 -> At(o, {e})]
    OBVIOUS
  <2> QED
    BY <1>1, <2>1 DEF OfLine
<1>2. ASSUME OfLine(e, 0, o) PROVE At(o, {e}) = {}
  BY <1>2 DEF OfLine
<1> QED
  BY <1>1, <1>2

\* A line that is not written to stays.
LEMMA LineStays ==
  ASSUME NEW e, NEW n \in Nat, NEW o, OfLine(e, n, o),
         At(o, {e})' = At(o, {e}),
         \A p \in At(o, {e}) : output'[o][p] = output[o][p]
  PROVE  OfLine(e, n, o)'
<1>1. PICK place \in [1 .. n -> At(o, {e})] :
        /\ \A i, j \in 1 .. n : i < j => place[i] < place[j]
        /\ \A i \in 1 .. n : output[o][place[i]] = <<e, m_items[i]>>
        /\ \A p \in At(o, {e}) : \E i \in 1 .. n : place[i] = p
  BY DEF OfLine
<1>2. \A i \in 1 .. n : output'[o][place[i]] = <<e, m_items[i]>>
  BY <1>1
<1>3. place \in [1 .. n -> At(o, {e})']
  BY <1>1
<1>4. \A p \in At(o, {e})' : \E i \in 1 .. n : place[i] = p
  BY <1>1
<1> QED
  BY <1>1, <1>2, <1>3, <1>4 DEF OfLine

\* A write adds the next items of its line.
LEMMA LineGrows ==
  ASSUME LoggerTypeOK, NEW o \in Outputs, NEW e \in Events,
         NEW a \in 0 .. Len(m_items), NEW n \in a + 1 .. Len(m_items),
         Adds(o, e, a, n),
         OfLine(e, a, o)
  PROVE  OfLine(e, n, o)'
<1> DEFINE len == Len(output[o])
<1>1. PICK old \in [1 .. a -> At(o, {e})] :
        /\ \A i, j \in 1 .. a : i < j => old[i] < old[j]
        /\ \A i \in 1 .. a : output[o][old[i]] = <<e, m_items[i]>>
        /\ \A p \in At(o, {e}) : \E i \in 1 .. a : old[i] = p
  BY DEF OfLine
<1>2. /\ len \in Nat /\ DOMAIN output[o] = 1 .. len
      /\ DOMAIN output'[o] = 1 .. len + (n - a)
      /\ \A p \in 1 .. len : output'[o][p] = output[o][p]
      /\ \A i \in 1 .. n - a : output'[o][len + i] = <<e, m_items[a + i]>>
      /\ \A b \in Outputs \ {o} : output'[b] = output[b]
      /\ output' \in [Outputs -> Seq(Entries)]
  BY Appended
<1>3. At(o, {e})' = At(o, {e}) \cup len + 1 .. len + (n - a)
  BY Places
<1>4. a \in Nat /\ n \in Nat /\ a < n
  BY ItemsAreASequence
<1>5. At(o, {e}) \subseteq 1 .. len
  BY <1>2 DEF At
<1> HIDE DEF len
<1> DEFINE place == [i \in 1 .. n |-> IF i <= a THEN old[i] ELSE len + (i - a)]
<1>6. \A i \in 1 .. a : old[i] \in 1 .. len /\ old[i] \in At(o, {e})
  BY <1>1, <1>5
<1>7. \A i \in 1 .. n : i \in 1 .. a \/ (i > a /\ i - a \in 1 .. n - a)
  BY <1>4
<1>8. place \in [1 .. n -> At(o, {e})']
  <2>1. ASSUME NEW i \in 1 .. n PROVE place[i] \in At(o, {e})'
    <3>1. CASE i \in 1 .. a
      <4>1. place[i] = old[i]
        BY <1>4, <3>1
      <4> QED
        BY <1>3, <1>6, <3>1, <4>1
    <3>2. CASE i > a /\ i - a \in 1 .. n - a
      <4>1. len + (i - a) \in len + 1 .. len + (n - a)
        BY <1>2, <1>4, <3>2
      <4>2. place[i] = len + (i - a)
        BY <1>4, <3>2
      <4> QED
        BY <1>3, <4>1, <4>2
    <3> QED
      BY <1>7, <3>1, <3>2
  <2> QED
    BY <2>1
<1>9. ASSUME NEW i \in 1 .. n, NEW j \in 1 .. n, i < j PROVE place[i] < place[j]
  <2>1. CASE j <= a
    <3>1. i \in 1 .. a /\ j \in 1 .. a
      BY <1>4, <1>9, <2>1
    <3> QED
      BY <1>1, <1>4, <1>9, <3>1
  <2>2. CASE i <= a /\ ~(j <= a)
    <3>1. i \in 1 .. a
      BY <1>4, <2>2
    <3>2. old[i] \in 1 .. len
      BY <1>6, <3>1
    <3>3. old[i] < len + (j - a)
      BY <1>2, <1>4, <2>2, <3>2
    <3> QED
      BY <2>2, <3>3
  <2>3. CASE ~(i <= a) /\ ~(j <= a)
    BY <1>2, <1>4, <1>9, <2>3
  <2> QED
    BY <1>4, <1>9, <2>1, <2>2, <2>3
<1>10. ASSUME NEW i \in 1 .. n PROVE output'[o][place[i]] = <<e, m_items[i]>>
  <2>1. CASE i \in 1 .. a
    BY <1>1, <1>2, <1>4, <1>6, <2>1
  <2>2. CASE i > a /\ i - a \in 1 .. n - a
    <3>1. place[i] = len + (i - a) /\ a + (i - a) = i
      BY <1>4, <2>2
    <3>2. output'[o][len + (i - a)] = <<e, m_items[a + (i - a)]>>
      BY <1>2, <2>2
    <3> QED
      BY <3>1, <3>2
  <2> QED
    BY <1>7, <2>1, <2>2
<1>11. ASSUME NEW p \in At(o, {e})' PROVE \E i \in 1 .. n : place[i] = p
  <2>1. CASE p \in At(o, {e})
    <3>1. PICK i \in 1 .. a : old[i] = p
      BY <1>1, <2>1
    <3>2. i \in 1 .. n /\ place[i] = p
      BY <1>4, <3>1
    <3> QED
      BY <3>2
  <2>2. CASE p \in len + 1 .. len + (n - a)
    <3>1. a + (p - len) \in 1 .. n /\ place[a + (p - len)] = p
      BY <1>2, <1>4, <2>2
    <3> QED
      BY <3>1
  <2> QED
    BY <1>3, <2>1, <2>2
<1> QED
  BY <1>8, <1>9, <1>10, <1>11 DEF OfLine

LEMMA InitLogger == Init => LInv
<1> SUFFICES ASSUME Init PROVE LInv
  OBVIOUS
<1> USE LoggerAssumption DEF Init
<1>1. LoggerTypeOK
  BY ItemsAreASequence, EmptySeq DEF LoggerTypeOK
<1>2. \A t \in Threads : DOMAIN logged[t] = {} /\ event[t] = NoEvent
  OBVIOUS
<1>3. \A o \in Outputs, E \in SUBSET Events : At(o, E) = {}
  BY DEF At
<1>4. LoggedOnce /\ \A t \in Threads : InOrder(t)
  BY <1>2 DEF LoggedOnce, InOrder
<1>5. \A t \in Threads : CallStands(t) /\ LastWritten(t)
  BY <1>2 DEF CallStands, LastWritten, Locked
<1>6. \A a \in Mutexes : MutexFits(a)
  BY DEF MutexFits
<1>7. Written
  BY <1>2, <1>3 DEF Written, Has
<1>8. LinesStayWhole
  <2>1. ASSUME NEW l \in Loggers, NEW o \in Outputs
        PROVE  At(o, {e \in Events : LoggerOf(e) = l}) = {}
    BY <1>3
  <2> QED
    BY <2>1 DEF LinesStayWhole
<1> QED
  BY <1>1, <1>4, <1>5, <1>6, <1>7, <1>8 DEF LInv

\* Where a thread in a call stands.
LEMMA Stands ==
  ASSUME LInv, NEW t \in Threads, event[t] # NoEvent
  PROVE  LET e == event[t]
             l == LoggerOf(e)
         IN  /\ e \in Events /\ l \in Loggers
             /\ turn[t] \in 1 .. Len(Appenders(l))
             /\ Appender(t) = <<l, turn[t]>> /\ Appender(t) \in Mutexes
             /\ Target(t) = Appenders(l)[turn[t]] /\ Target(t) \in Outputs
             /\ WritesTo(e, Target(t))
             /\ Len(logged[t]) \in DOMAIN logged[t]
             /\ logged[t][Len(logged[t])] = e
             /\ Progress(t, e, Target(t)) = item[t]
<1> DEFINE e == event[t]
           l == LoggerOf(e)
<1>1. e \in Events
  BY DEF LInv, LoggerTypeOK
<1>2. l \in Loggers
  BY <1>1, LoggerAssumption DEF LoggerAssumption, LoggerOf
<1>3. /\ logged[t] # << >> /\ e = logged[t][Len(logged[t])]
      /\ Wanted(e) /\ turn[t] \in DOMAIN Appenders(l)
  BY DEF LInv, CallStands
<1>4. turn[t] \in 1 .. Len(Appenders(l))
  BY <1>2, <1>3, AppendersDiffer
<1>5. Appender(t) = <<l, turn[t]>> /\ Target(t) = Appenders(l)[turn[t]]
  BY DEF Appender, Target
<1>6. Appender(t) \in Mutexes
  BY <1>2, <1>3, <1>5 DEF Mutexes
<1>7. Target(t) \in Outputs /\ WritesTo(e, Target(t))
  <2>1. Appenders(l)[turn[t]] \in Outputs
    BY <1>2, <1>4, AppendersDiffer, ElementOfSeq
  <2> QED
    BY <1>2, <1>3, <1>5, <2>1, AppendersDiffer DEF WritesTo
<1>8. Len(logged[t]) \in DOMAIN logged[t]
  <2>1. logged[t] \in Seq(Events)
    BY DEF LInv, LoggerTypeOK
  <2> QED
    BY <1>3, <2>1, EmptySeq, LenProperties
<1>9. ~\E k \in 1 .. turn[t] - 1 : Appenders(l)[k] = Target(t)
  BY <1>2, <1>4, <1>5, AppendersDiffer
<1>10. Progress(t, e, Target(t)) = item[t]
  BY <1>7, <1>9 DEF Progress
<1> QED
  BY <1>1, <1>2, <1>3, <1>4, <1>5, <1>6, <1>7, <1>8, <1>10

\* What Progress says is a length of the line.
LEMMA ProgressType ==
  ASSUME LoggerTypeOK, NEW t \in Threads, NEW e, NEW o
  PROVE  Progress(t, e, o) \in 0 .. Len(m_items) /\ Progress(t, e, o) \in Nat
BY ItemsAreASequence DEF Progress, LoggerTypeOK

\* What a thread has written of its event, by how much.
LEMMA FitsSo ==
  ASSUME NEW t, NEW e, NEW o, NEW k
  PROVE  /\ Progress(t, e, o) = k => (Fits(t, e, o) <=> OfLine(e, k, o))
         /\ Progress(t, e, o)' = k => (Fits(t, e, o)' <=> OfLine(e, k, o)')
BY DEF Fits

\* Two threads are not in calls of one event.
LEMMA CallsDiffer ==
  ASSUME LInv, NEW s \in Threads, NEW t \in Threads, s # t, event[t] # NoEvent
  PROVE  \A i \in DOMAIN logged[s] : logged[s][i] # event[t]
BY Stands DEF LInv, LoggedOnce

\* Only its own thread writes to a logger's output under the mutex.
LEMMA OneWriter ==
  ASSUME LInv, NEW s \in Threads, NEW t \in Threads, Locked(s), Locked(t),
         LoggerOf(event[s]) = LoggerOf(event[t]), Target(s) = Target(t)
  PROVE  s = t
<1>1. event[s] # NoEvent /\ event[t] # NoEvent
  BY DEF Locked
<1>2. turn[s] = turn[t]
  BY <1>1, Stands, AppendersDiffer
<1> QED
  BY <1>1, <1>2 DEF Locked, Appender

\* Nothing is written: the places and the lines stay.
LEMMA NoWrite ==
  ASSUME output' = output
  PROVE  /\ \A o, E : At(o, E)' = At(o, E)
         /\ \A e, n, o : OfLine(e, n, o)' <=> OfLine(e, n, o)
         /\ \A d, e, o : Before(d, e, o)' <=> Before(d, e, o)
         /\ \A e, o : IsLast(e, o)' <=> IsLast(e, o)
         /\ LinesStayWhole => LinesStayWhole'
<1>1. \A o, E : At(o, E)' = At(o, E)
  BY DEF At
<1>2. \A e, n, o : OfLine(e, n, o)' <=> OfLine(e, n, o)
  BY <1>1 DEF OfLine
<1>3. \A d, e, o : Before(d, e, o)' <=> Before(d, e, o)
  BY <1>1 DEF Before
<1>4. \A e, o : IsLast(e, o)' <=> IsLast(e, o)
  BY <1>1 DEF IsLast
<1>5. LinesStayWhole => LinesStayWhole'
  BY <1>1 DEF LinesStayWhole
<1> QED
  BY <1>1, <1>2, <1>3, <1>4, <1>5

\* Logger::log: the event is new, and not written yet.
LEMMA LogKeeps ==
  ASSUME LInv, NEW t \in Threads, NEW e \in Events, Log(t, e)
  PROVE  LInv'
<1> USE LoggerAssumption DEF LInv, LoggerTypeOK
<1> DEFINE l == LoggerOf(e)
           called == Wanted(e) /\ Appenders(l) # << >>
           n == Len(logged[t]) + 1
<1>1. /\ event[t] = NoEvent /\ UNCHANGED <<mutex, output>>
      /\ \A s \in Threads : e \notin Range(logged[s])
      /\ logged' = [logged EXCEPT ![t] = Append(@, e)]
      /\ event' = [event EXCEPT ![t] = IF called THEN e ELSE @]
      /\ turn' = [turn EXCEPT ![t] = 1] /\ item' = [item EXCEPT ![t] = 0]
  BY DEF Log
<1>2. /\ event'[t] = IF called THEN e ELSE NoEvent
      /\ turn'[t] = 1 /\ item'[t] = 0
      /\ \A s \in Threads \ {t} : /\ event'[s] = event[s] /\ turn'[s] = turn[s]
                                  /\ item'[s] = item[s] /\ logged'[s] = logged[s]
  BY <1>1
<1>3. /\ n \in Nat \ {0} /\ DOMAIN logged[t] = 1 .. n - 1
      /\ logged'[t] \in Seq(Events) /\ Len(logged'[t]) = n
      /\ DOMAIN logged'[t] = 1 .. n /\ logged'[t][n] = e
      /\ \A i \in 1 .. n - 1 : logged'[t][i] = logged[t][i]
  BY <1>1, AppendProperties, LenProperties
<1>4. \A s \in Threads : ~Has(s, e)
  BY <1>1 DEF Range, Has
<1> HIDE DEF n
<1>5. LoggerTypeOK'
  <2>1. logged' \in [Threads -> Seq(Events)]
    BY <1>1, <1>3
  <2>2. event' \in [Threads -> Events \cup {NoEvent}]
    BY <1>1
  <2>3. turn' \in [Threads -> Nat] /\ item' \in [Threads -> 0 .. Len(m_items)]
    BY <1>1, ItemsAreASequence
  <2> QED
    BY <1>1, <2>1, <2>2, <2>3
<1>6. ASSUME NEW s \in Threads, NEW i \in DOMAIN logged'[s]
      PROVE  \/ i \in DOMAIN logged[s] /\ logged'[s][i] = logged[s][i]
             \/ s = t /\ i = n /\ logged'[s][i] = e
  BY <1>2, <1>3
<1>7. LoggedOnce'
  <2> SUFFICES ASSUME NEW s \in Threads, NEW u \in Threads,
                      NEW i \in DOMAIN logged'[s], NEW j \in DOMAIN logged'[u],
                      logged'[s][i] = logged'[u][j]
               PROVE  s = u /\ i = j
    BY DEF LoggedOnce
  <2>1. CASE i \in DOMAIN logged[s] /\ logged'[s][i] = logged[s][i]
    <3>1. logged'[u][j] # e
      BY <1>4, <2>1 DEF Has
    <3>2. j \in DOMAIN logged[u] /\ logged'[u][j] = logged[u][j]
      BY <1>6, <3>1
    <3>3. logged[s][i] = logged[u][j]
      BY <2>1, <3>2
    <3> QED
      BY <2>1, <3>2, <3>3 DEF LoggedOnce
  <2>2. CASE s = t /\ i = n /\ logged'[s][i] = e
    BY <1>4, <1>6, <2>2 DEF Has
  <2> QED
    BY <1>6, <2>1, <2>2
<1>8. \A a \in Mutexes : MutexFits(a)'
  <2>1. ASSUME NEW a \in Mutexes, mutex[a] # NoEvent PROVE MutexFits(a)'
    <3>1. mutex[a] \in Threads \ {t}
      BY <1>1, <2>1 DEF MutexFits
    <3> QED
      BY <1>1, <1>2, <2>1, <3>1 DEF MutexFits, Appender
  <2> QED
    BY <1>1, <2>1 DEF MutexFits
<1>9. l \in Loggers
  BY DEF LoggerAssumption, LoggerOf
<1>10. ASSUME called PROVE 1 \in DOMAIN Appenders(l) /\ <<l, 1>> \in Mutexes
  <2>1. Appenders(l) \in Seq(Outputs) /\ DOMAIN Appenders(l) = 1 .. Len(Appenders(l))
    BY <1>9, AppendersDiffer
  <2>2. 1 \in DOMAIN Appenders(l)
    BY <1>10, <2>1, EmptySeq
  <2> QED
    BY <1>9, <2>2 DEF Mutexes
<1>11. ~Locked(t)'
  <2>1. CASE ~called
    BY <1>2, <2>1 DEF Locked
  <2>2. CASE called
    <3>1. Appender(t)' = <<l, 1>> /\ <<l, 1>> \in Mutexes
      BY <1>2, <1>10, <2>2 DEF Appender
    <3>2. mutex[<<l, 1>>] # t
      BY <1>1, <3>1 DEF MutexFits
    <3> QED
      BY <1>1, <3>1, <3>2 DEF Locked
  <2> QED
    BY <2>1, <2>2
<1>12. ASSUME NEW s \in Threads \ {t}
       PROVE  (Locked(s)' <=> Locked(s)) /\ Target(s)' = Target(s)
  BY <1>1, <1>2 DEF Locked, Appender, Target
<1>13. \A s \in Threads : CallStands(s)'
  <2>1. CallStands(t)'
    BY <1>2, <1>3, <1>10, EmptySeq DEF CallStands
  <2>2. ASSUME NEW s \in Threads \ {t} PROVE CallStands(s)'
    BY <1>2, <1>12 DEF CallStands
  <2> QED
    BY <2>1, <2>2
<1>14. \A s \in Threads : LastWritten(s)'
  <2>1. LastWritten(t)'
    BY <1>11 DEF LastWritten
  <2>2. ASSUME NEW s \in Threads \ {t} PROVE LastWritten(s)'
    BY <1>1, <1>2, <1>12, NoWrite DEF LastWritten
  <2> QED
    BY <2>1, <2>2
<1>15. ASSUME NEW d \in Events, NEW o \in Outputs
       PROVE  /\ (\A s \in Threads : ~Has(s, d)') => At(o, {d})' = {}
              /\ \A s \in Threads : Has(s, d)' => Fits(s, d, o)'
  <2>1. \A s \in Threads : Has(s, d)' <=> Has(s, d) \/ (s = t /\ d = e)
    <3>1. ASSUME NEW s \in Threads, Has(s, d)' PROVE Has(s, d) \/ (s = t /\ d = e)
      <4>1. PICK i \in DOMAIN logged'[s] : logged'[s][i] = d
        BY <3>1 DEF Has
      <4>2. CASE i \in DOMAIN logged[s] /\ logged'[s][i] = logged[s][i]
        BY <4>1, <4>2 DEF Has
      <4>3. CASE s = t /\ i = n /\ logged'[s][i] = e
        BY <4>1, <4>3
      <4> QED
        BY <1>6, <4>2, <4>3
    <3>2. ASSUME NEW s \in Threads, Has(s, d) PROVE Has(s, d)'
      <4>1. CASE s # t
        <5>1. logged'[s] = logged[s]
          BY <1>2, <4>1
        <5> QED
          BY <3>2, <5>1 DEF Has
      <4>2. CASE s = t
        <5>1. PICK i \in 1 .. n - 1 : logged[t][i] = d
          BY <1>3, <3>2, <4>2 DEF Has
        <5>2. i \in 1 .. n
          BY <1>3
        <5> QED
          BY <1>3, <4>2, <5>1, <5>2 DEF Has
      <4> QED
        BY <4>1, <4>2
    <3>3. n \in 1 .. n
      BY <1>3
    <3>4. Has(t, e)'
      BY <1>3, <3>3 DEF Has
    <3> QED
      BY <3>1, <3>2, <3>4
  <2>2. CASE d = e
    <3>1. At(o, {e}) = {} /\ OfLine(e, 0, o)
      BY <1>4, EmptyLine DEF Written
    <3>2. ~WritesTo(e, o) \/ called
      BY <1>9, AppendersDiffer DEF WritesTo
    <3>3. Progress(t, e, o)' = 0
      BY <1>2, <3>2 DEF Progress, Target
    <3> QED
      BY <1>1, <1>4, <2>1, <2>2, <3>1, <3>3, NoWrite, FitsSo
  <2>3. CASE d # e
    <3>1. ASSUME NEW s \in Threads PROVE Progress(s, d, o)' = Progress(s, d, o)
      <4>1. CASE s = t
        <5>1. event[t] # d /\ event'[t] # d
          BY <1>1, <1>2, <2>3 DEF LoggerAssumption
        <5> QED
          BY <4>1, <5>1 DEF Progress
      <4>2. CASE s # t
        BY <1>2, <1>12, <4>2 DEF Progress
      <4> QED
        BY <4>1, <4>2
    <3> QED
      BY <1>1, <2>1, <2>3, <3>1, NoWrite, FitsSo DEF Written
  <2> QED
    BY <2>2, <2>3
<1>16. ASSUME NEW s \in Threads PROVE InOrder(s)'
  <2>1. CASE s # t
    BY <1>1, <1>2, <2>1 DEF InOrder, Before, At
  <2>2. CASE s = t
    <3> SUFFICES ASSUME NEW i \in DOMAIN logged'[t], NEW j \in DOMAIN logged'[t],
                        i < j, NEW o \in Outputs
                 PROVE  (Before(logged[t][i], logged[t][j], o))'
      BY <2>2 DEF InOrder
    <3>0. PICK c, d : c = logged'[t][i] /\ d = logged'[t][j]
      OBVIOUS
    <3> SUFFICES Before(c, d, o)'
      BY <3>0 DEF Before, At
    <3>1. i \in 1 .. n - 1 /\ j \in 1 .. n
      BY <1>3
    <3>2. CASE j \in 1 .. n - 1
      <4>1. c = logged[t][i] /\ d = logged[t][j] /\ Before(c, d, o)
        BY <1>3, <3>0, <3>1, <3>2 DEF InOrder
      <4> QED
        BY <1>1, <4>1, NoWrite
    <3>3. CASE j = n
      <4>1. At(o, {e}) = {}
        BY <1>4 DEF Written
      <4>2. d = e /\ Before(c, d, o)
        BY <1>3, <3>0, <3>3, <4>1 DEF Before
      <4> QED
        BY <1>1, <4>2, NoWrite
    <3> QED
      BY <1>3, <3>1, <3>2, <3>3
  <2> QED
    BY <2>1, <2>2
<1>17. LinesStayWhole'
  BY <1>1, NoWrite
<1>18. Written'
  BY <1>15 DEF Written
<1> QED
  BY <1>5, <1>7, <1>8, <1>13, <1>14, <1>16, <1>17, <1>18

\* LogAppender::log begins: nothing of the event is there yet.
LEMMA LockKeeps ==
  ASSUME LInv, NEW t \in Threads, Lock(t)
  PROVE  LInv'
<1> DEFINE e == event[t]
           a == Appender(t)
<1>1. /\ e # NoEvent /\ mutex[a] = NoEvent
      /\ mutex' = [mutex EXCEPT ![a] = t]
      /\ UNCHANGED <<event, turn, item, output, logged>>
  BY DEF Lock
<1>2. /\ LoggerTypeOK /\ LoggedOnce /\ Written /\ LinesStayWhole
      /\ \A s \in Threads : CallStands(s) /\ LastWritten(s) /\ InOrder(s)
      /\ \A b \in Mutexes : MutexFits(b)
  BY DEF LInv
<1>3. a \in Mutexes /\ mutex \in [Mutexes -> Threads \cup {NoEvent}]
  BY <1>1, <1>2, Stands DEF LoggerTypeOK
<1>4. NoEvent \notin Threads
  BY LoggerAssumption DEF LoggerAssumption
<1>5. \A s \in Threads : Appender(s)' = Appender(s) /\ Target(s)' = Target(s)
  BY <1>1 DEF Appender, Target
<1>6. ASSUME NEW s \in Threads PROVE Locked(s)' <=> Locked(s) \/ s = t
  <2>1. CASE s = t
    BY <1>1, <1>3, <1>5, <2>1 DEF Locked
  <2>2. CASE s # t /\ Appender(s) = a
    BY <1>1, <1>3, <1>4, <1>5, <2>2 DEF Locked
  <2>3. CASE s # t /\ Appender(s) # a
    BY <1>1, <1>3, <1>5, <2>3 DEF Locked
  <2> QED
    BY <2>1, <2>2, <2>3
<1>7. LoggerTypeOK'
  BY <1>1, <1>2, <1>3 DEF LoggerTypeOK
<1>8. LoggedOnce'
  BY <1>1, <1>2 DEF LoggedOnce
<1>9. \A s \in Threads : CallStands(s)'
  BY <1>1, <1>2, <1>6 DEF CallStands
<1>10. ASSUME NEW s \in Threads PROVE LastWritten(s)'
  <2>1. CASE Locked(s)
    BY <1>1, <1>2, <1>5, <2>1, NoWrite DEF LastWritten
  <2>2. CASE s = t /\ ~Locked(t)
    <3>1. item[t] = 0
      BY <1>1, <1>2, <2>2 DEF CallStands
    <3>2. Fits(t, e, Target(t)) /\ Progress(t, e, Target(t)) = 0
      BY <1>1, <1>2, <3>1, Stands DEF Written, Has
    <3>3. At(Target(t), {e}) = {}
      BY <3>2, FitsSo, EmptyLine
    <3>4. IsLast(e, Target(t))
      BY <3>3 DEF IsLast
    <3> QED
      BY <1>1, <1>5, <2>2, <3>4, NoWrite DEF LastWritten
  <2> QED
    BY <1>6, <2>1, <2>2 DEF LastWritten
<1>11. ASSUME NEW s \in Threads PROVE InOrder(s)'
  BY <1>1, <1>2 DEF InOrder, Before, At
<1>12. ASSUME NEW b \in Mutexes PROVE MutexFits(b)'
  <2>1. CASE b = a
    BY <1>1, <1>3, <1>5, <2>1 DEF MutexFits
  <2>2. CASE b # a /\ mutex[b] # NoEvent
    <3>1. mutex[b] \in Threads /\ mutex'[b] = mutex[b]
      BY <1>1, <1>3, <2>2
    <3> QED
      BY <1>1, <1>2, <2>2, <3>1 DEF MutexFits, Appender
  <2>3. CASE b # a /\ mutex[b] = NoEvent
    BY <1>1, <1>3, <2>3 DEF MutexFits
  <2> QED
    BY <2>1, <2>2, <2>3
<1>13. Written'
  <2>1. ASSUME NEW d \in Events, NEW o \in Outputs
        PROVE  /\ (\A s \in Threads : ~Has(s, d)') => At(o, {d})' = {}
               /\ \A s \in Threads : Has(s, d)' => Fits(s, d, o)'
    <3>1. \A s \in Threads : Has(s, d)' <=> Has(s, d)
      BY <1>1 DEF Has
    <3>2. \A s \in Threads : Progress(s, d, o)' = Progress(s, d, o)
      BY <1>1, <1>5 DEF Progress
    <3> QED
      BY <1>1, <1>2, <3>1, <3>2, NoWrite, FitsSo DEF Written
  <2> QED
    BY <2>1 DEF Written
<1>14. LinesStayWhole'
  BY <1>1, <1>2, NoWrite
<1> QED
  BY <1>7, <1>8, <1>9, <1>10, <1>11, <1>12, <1>13, <1>14 DEF LInv

\* The line is written: on to the next appender, or back to the caller.
LEMMA UnlockKeeps ==
  ASSUME LInv, NEW t \in Threads, Unlock(t)
  PROVE  LInv'
<1> DEFINE e == event[t]
           l == LoggerOf(e)
           a == Appender(t)
           over == turn[t] = Len(Appenders(l))
<1>1. /\ Locked(t) /\ item[t] = Len(m_items)
      /\ mutex' = [mutex EXCEPT ![a] = NoEvent]
      /\ turn' = [turn EXCEPT ![t] = @ + 1]
      /\ item' = [item EXCEPT ![t] = 0]
      /\ event' = [event EXCEPT ![t] = IF over THEN NoEvent ELSE @]
      /\ UNCHANGED <<output, logged>>
  BY DEF Unlock
<1>2. /\ LoggerTypeOK /\ LoggedOnce /\ Written /\ LinesStayWhole
      /\ \A s \in Threads : CallStands(s) /\ LastWritten(s) /\ InOrder(s)
      /\ \A b \in Mutexes : MutexFits(b)
  BY DEF LInv
<1>3. e # NoEvent /\ mutex[a] = t
  BY <1>1 DEF Locked
<1>4. /\ e \in Events /\ l \in Loggers /\ a \in Mutexes /\ a = <<l, turn[t]>>
      /\ turn[t] \in 1 .. Len(Appenders(l)) /\ Len(Appenders(l)) \in Nat
      /\ DOMAIN Appenders(l) = 1 .. Len(Appenders(l))
      /\ Target(t) = Appenders(l)[turn[t]]
      /\ Range(Appenders(l)) = {Appenders(l)[k] : k \in DOMAIN Appenders(l)}
      /\ NoEvent \notin Events \cup Threads
  BY <1>3, Stands, AppendersDiffer, LoggerAssumption DEF LoggerAssumption
<1>5. /\ mutex \in [Mutexes -> Threads \cup {NoEvent}] /\ turn \in [Threads -> Nat]
      /\ event \in [Threads -> Events \cup {NoEvent}]
      /\ item \in [Threads -> 0 .. Len(m_items)]
  BY <1>2 DEF LoggerTypeOK
<1>6. /\ event'[t] = IF over THEN NoEvent ELSE e
      /\ turn'[t] = turn[t] + 1 /\ item'[t] = 0
      /\ \A s \in Threads \ {t} : /\ event'[s] = event[s] /\ turn'[s] = turn[s]
                                  /\ item'[s] = item[s]
      /\ mutex'[a] = NoEvent
      /\ \A b \in Mutexes \ {a} : mutex'[b] = mutex[b]
  BY <1>1, <1>4, <1>5
<1>7. LoggerTypeOK'
  <2>1. mutex' \in [Mutexes -> Threads \cup {NoEvent}]
    BY <1>1, <1>5
  <2>2. turn' \in [Threads -> Nat] /\ item' \in [Threads -> 0 .. Len(m_items)]
    BY <1>1, <1>5, ItemsAreASequence
  <2>3. event' \in [Threads -> Events \cup {NoEvent}]
    BY <1>1, <1>5
  <2> QED
    BY <1>1, <1>2, <2>1, <2>2, <2>3 DEF LoggerTypeOK
<1>8. LoggedOnce'
  BY <1>1, <1>2 DEF LoggedOnce
<1>9. CallStands(t)'
  <2>1. CASE over
    BY <1>6, <2>1 DEF CallStands
  <2>2. CASE ~over
    <3>1. turn'[t] \in DOMAIN Appenders(l)
      BY <1>4, <1>6, <2>2
    <3>2. event'[t] = e /\ item'[t] = 0
      BY <1>6, <2>2
    <3> QED
      BY <1>1, <1>2, <1>3, <3>1, <3>2 DEF CallStands
  <2> QED
    BY <2>1, <2>2
<1>10. ~Locked(t)'
  <2>1. CASE over
    BY <1>6, <2>1 DEF Locked
  <2>2. CASE ~over
    <3> DEFINE b == <<l, turn[t] + 1>>
    <3>1. Appender(t)' = b /\ b # a
      BY <1>4, <1>6, <2>2 DEF Appender
    <3>2. turn[t] + 1 \in DOMAIN Appenders(l)
      BY <1>4, <2>2
    <3>3. b \in Mutexes
      BY <1>4, <3>2 DEF Mutexes
    <3>4. mutex[b] # t
      BY <1>2, <1>3, <1>4, <3>1, <3>3 DEF MutexFits
    <3> QED
      BY <1>6, <3>1, <3>3, <3>4 DEF Locked
  <2> QED
    BY <2>1, <2>2
<1>11. ASSUME NEW s \in Threads \ {t}
       PROVE  (Locked(s)' <=> Locked(s)) /\ Target(s)' = Target(s)
  <2>1. Appender(s)' = Appender(s) /\ Target(s)' = Target(s)
    BY <1>6 DEF Appender, Target
  <2>2. CASE event[s] = NoEvent
    BY <1>6, <2>1, <2>2 DEF Locked
  <2>3. CASE event[s] # NoEvent
    <3>1. Appender(s) \in Mutexes
      BY <2>3, Stands
    <3>2. CASE Appender(s) = a
      BY <1>3, <1>4, <1>6, <2>1, <3>2 DEF Locked
    <3>3. CASE Appender(s) # a
      BY <1>6, <2>1, <3>1, <3>3 DEF Locked
    <3> QED
      BY <3>2, <3>3
  <2> QED
    BY <2>1, <2>2, <2>3
<1>12. ASSUME NEW s \in Threads PROVE CallStands(s)'
  <2>1. CASE s # t
    BY <1>1, <1>2, <1>6, <1>11, <2>1 DEF CallStands
  <2> QED
    BY <1>9, <2>1
<1>13. ASSUME NEW s \in Threads PROVE LastWritten(s)'
  <2>1. CASE s # t
    BY <1>1, <1>2, <1>6, <1>11, <2>1, NoWrite DEF LastWritten
  <2>2. CASE s = t
    BY <1>10, <2>2 DEF LastWritten
  <2> QED
    BY <2>1, <2>2
<1>14. ASSUME NEW s \in Threads PROVE InOrder(s)'
  BY <1>1, <1>2 DEF InOrder, Before, At
<1>15. ASSUME NEW b \in Mutexes PROVE MutexFits(b)'
  <2>1. CASE b = a
    BY <1>6, <2>1 DEF MutexFits
  <2>2. CASE b # a /\ mutex[b] # NoEvent
    <3>1. mutex[b] \in Threads \ {t} /\ mutex'[b] = mutex[b]
      BY <1>2, <1>5, <1>6, <2>2 DEF MutexFits
    <3> QED
      BY <1>2, <1>6, <2>2, <3>1 DEF MutexFits, Appender
  <2>3. CASE b # a /\ mutex[b] = NoEvent
    BY <1>6, <2>3 DEF MutexFits
  <2> QED
    BY <2>1, <2>2, <2>3
<1>16. ASSUME NEW s \in Threads, NEW d \in Events, NEW o \in Outputs
       PROVE  Progress(s, d, o)' = Progress(s, d, o)
  <2>1. CASE s # t
    BY <1>6, <1>11, <2>1 DEF Progress
  <2>2. CASE s = t /\ d # e
    BY <1>4, <1>6, <2>2 DEF Progress
  <2>3. CASE s = t /\ d = e /\ ~WritesTo(d, o)
    BY <2>3 DEF Progress
  <2>4. CASE s = t /\ d = e /\ WritesTo(d, o)
    <3>1. PICK k \in 1 .. Len(Appenders(l)) : Appenders(l)[k] = o
      BY <1>4, <2>4 DEF WritesTo
    <3>2. CASE k <= turn[t]
      <4>1. Progress(t, d, o) = Len(m_items)
        <5>1. k \in 1 .. turn[t] - 1 \/ k = turn[t]
          BY <1>4, <3>2
        <5> QED
          BY <1>1, <1>4, <2>4, <3>1, <5>1 DEF Progress
      <4>2. Progress(t, d, o)' = Len(m_items)
        <5>1. k \in 1 .. turn'[t] - 1
          BY <1>4, <1>6, <3>2
        <5> QED
          BY <1>4, <1>6, <2>4, <3>1, <5>1 DEF Progress
      <4> QED
        BY <2>4, <4>1, <4>2
    <3>3. CASE k > turn[t]
      <4>1. ~over
        BY <1>4, <3>3
      <4>2. \A j \in DOMAIN Appenders(l) : Appenders(l)[j] = o => j = k
        BY <1>4, <3>1, AppendersDiffer
      <4>3. /\ ~\E j \in 1 .. turn[t] - 1 : Appenders(l)[j] = o
            /\ ~\E j \in 1 .. turn[t] : Appenders(l)[j] = o
        BY <1>4, <3>3, <4>2
      <4>4. Progress(t, d, o) = 0
        BY <1>4, <2>4, <4>3 DEF Progress
      <4>5. event'[t] = e /\ turn'[t] - 1 = turn[t] /\ item'[t] = 0
        BY <1>4, <1>6, <4>1
      <4>6. Progress(t, d, o)' = 0
        BY <2>4, <4>3, <4>5 DEF Progress
      <4> QED
        BY <2>4, <4>4, <4>6
    <3> QED
      BY <1>4, <3>2, <3>3
  <2> QED
    BY <2>1, <2>2, <2>3, <2>4
<1>17. Written'
  <2>1. ASSUME NEW d \in Events, NEW o \in Outputs
        PROVE  /\ (\A s \in Threads : ~Has(s, d)') => At(o, {d})' = {}
               /\ \A s \in Threads : Has(s, d)' => Fits(s, d, o)'
    <3>1. \A s \in Threads : Has(s, d)' <=> Has(s, d)
      BY <1>1 DEF Has
    <3> QED
      BY <1>1, <1>2, <1>16, <3>1, NoWrite, FitsSo DEF Written
  <2> QED
    BY <2>1 DEF Written
<1>18. LinesStayWhole'
  BY <1>1, <1>2, NoWrite
<1> QED
  BY <1>7, <1>8, <1>12, <1>13, <1>14, <1>15, <1>17, <1>18 DEF LInv

\* A write of thread t: up to item n of event e's line, on output o.
Puts(t, e, o, a, n) ==
  /\ Locked(t) /\ event[t] = e /\ Target(t) = o /\ item[t] = a
  /\ Adds(o, e, a, n)
  /\ item' = [item EXCEPT ![t] = n]
  /\ UNCHANGED <<event, turn, mutex, logged>>

\* Of the other outputs and of the other events nothing changes, and what is
\* written comes last.
LEMMA Elsewhere ==
  ASSUME LoggerTypeOK, NEW o \in Outputs, NEW e \in Events,
         NEW a \in 0 .. Len(m_items), NEW n \in a + 1 .. Len(m_items),
         Adds(o, e, a, n)
  PROVE  /\ \A d \in Outputs, E \in SUBSET Events :
              /\ At(d, E) \subseteq At(d, E)'
              /\ d # o \/ e \notin E => At(d, E)' = At(d, E)
              /\ \A p \in At(d, E) : output'[d][p] = output[d][p]
         /\ \A E \in SUBSET Events : \A q \in At(o, E)' \ At(o, E) :
              /\ q \in At(o, {e})'
              /\ \A F \in SUBSET Events : \A p \in At(o, F) : p < q
<1> DEFINE len == Len(output[o])
<1>1. n - a \in Nat
  BY ItemsAreASequence
<1>2. /\ len \in Nat /\ DOMAIN output[o] = 1 .. len
      /\ DOMAIN output'[o] = 1 .. len + (n - a)
      /\ \A p \in 1 .. len : output'[o][p] = output[o][p]
      /\ \A i \in 1 .. n - a : output'[o][len + i] = <<e, m_items[a + i]>>
      /\ \A b \in Outputs \ {o} : output'[b] = output[b]
      /\ output' \in [Outputs -> Seq(Entries)]
  BY Appended
<1>3. \A d \in Outputs, E \in SUBSET Events :
        At(d, E)' = At(d, E) \cup
                      (IF d = o /\ e \in E THEN len + 1 .. len + (n - a) ELSE {})
  BY Places
<1> HIDE DEF len
<1>4. ASSUME NEW d \in Outputs, NEW E \in SUBSET Events
      PROVE  /\ At(d, E) \subseteq At(d, E)'
             /\ d # o \/ e \notin E => At(d, E)' = At(d, E)
             /\ \A p \in At(d, E) : output'[d][p] = output[d][p]
  <2>1. \A p \in At(d, E) : output'[d][p] = output[d][p]
    <3>1. CASE d # o
      BY <1>2, <3>1
    <3>2. CASE d = o
      BY <1>2, <3>2 DEF At
    <3> QED
      BY <3>1, <3>2
  <2>2. At(d, E) \subseteq At(d, E)'
    BY <1>3
  <2>3. ASSUME d # o \/ e \notin E PROVE At(d, E)' = At(d, E)
    <3>1. At(d, E)' = At(d, E) \cup {}
      BY <1>3, <2>3
    <3> QED
      BY <3>1
  <2> QED
    BY <2>1, <2>2, <2>3
<1>5. ASSUME NEW E \in SUBSET Events, NEW q \in At(o, E)' \ At(o, E)
      PROVE  /\ q \in At(o, {e})'
             /\ \A F \in SUBSET Events : \A p \in At(o, F) : p < q
  <2>1. q \in len + 1 .. len + (n - a)
    BY <1>3, <1>5
  <2>2. q \in At(o, {e})'
    BY <1>3, <2>1
  <2>3. ASSUME NEW F \in SUBSET Events, NEW p \in At(o, F) PROVE p < q
    <3>1. p \in 1 .. len
      BY <1>2 DEF At
    <3> QED
      BY <1>1, <1>2, <2>1, <3>1
  <2> QED
    BY <2>2, <2>3
<1> QED
  BY <1>4, <1>5

\* LogFormatter::format: the next items of the line.
LEMMA PutsKeeps ==
  ASSUME LInv, NEW t \in Threads, NEW e \in Events, NEW o \in Outputs,
         NEW a \in 0 .. Len(m_items), NEW n \in a + 1 .. Len(m_items),
         Puts(t, e, o, a, n)
  PROVE  LInv'
<1> DEFINE l == LoggerOf(e)
           Of(k) == {d \in Events : LoggerOf(d) = k}
<1>1. /\ Locked(t) /\ event[t] = e /\ Target(t) = o /\ item[t] = a
      /\ Adds(o, e, a, n)
      /\ item' = [item EXCEPT ![t] = n]
      /\ UNCHANGED <<event, turn, mutex, logged>>
  BY DEF Puts
<1>2. /\ LoggerTypeOK /\ LoggedOnce /\ Written /\ LinesStayWhole
      /\ \A s \in Threads : CallStands(s) /\ LastWritten(s) /\ InOrder(s)
      /\ \A b \in Mutexes : MutexFits(b)
  BY DEF LInv
<1>3. /\ \A d \in Outputs, E \in SUBSET Events :
           /\ At(d, E) \subseteq At(d, E)'
           /\ d # o \/ e \notin E => At(d, E)' = At(d, E)
           /\ \A p \in At(d, E) : output'[d][p] = output[d][p]
      /\ \A E \in SUBSET Events : \A q \in At(o, E)' \ At(o, E) :
           /\ q \in At(o, {e})'
           /\ \A F \in SUBSET Events : \A p \in At(o, F) : p < q
  BY <1>1, <1>2, Elsewhere
<1>4. \A d, E : \A p \in At(d, E)' : output'[d][p][1] \in E
  BY DEF At
<1>5. \A d, E : \A p \in At(d, E) : output[d][p][1] \in E
  BY DEF At
<1>6. event[t] # NoEvent /\ l \in Loggers
  BY <1>1, LoggerAssumption DEF LoggerAssumption, Locked, LoggerOf
<1>7. \A s \in Threads : /\ Appender(s)' = Appender(s) /\ Target(s)' = Target(s)
                         /\ Locked(s)' = Locked(s)
  BY <1>1 DEF Appender, Target, Locked
<1>8. item \in [Threads -> 0 .. Len(m_items)] /\ n \in 0 .. Len(m_items)
  BY <1>2, ItemsAreASequence DEF LoggerTypeOK
<1>9. item'[t] = n /\ \A s \in Threads \ {t} : item'[s] = item[s]
  BY <1>1, <1>8
<1>10. LoggerTypeOK'
  <2>1. output' \in [Outputs -> Seq(Entries)]
    BY <1>1, <1>2, Appended
  <2>2. item' \in [Threads -> 0 .. Len(m_items)]
    BY <1>1, <1>8
  <2> QED
    BY <1>1, <1>2, <2>1, <2>2 DEF LoggerTypeOK, Entries
<1>11. LoggedOnce'
  BY <1>1, <1>2 DEF LoggedOnce
<1>12. ASSUME NEW s \in Threads PROVE CallStands(s)'
  BY <1>1, <1>2, <1>7, <1>9 DEF CallStands
<1>13. ASSUME NEW b \in Mutexes PROVE MutexFits(b)'
  BY <1>1, <1>2 DEF MutexFits, Appender
<1>14. ASSUME NEW s \in Threads PROVE LastWritten(s)'
  <2> SUFFICES ASSUME Locked(s),
                      NEW d, d = event[s], NEW b, b = Target(s),
                      NEW p \in At(b, {d})', NEW q \in At(b, Of(LoggerOf(d)))',
                      p < q
               PROVE  output'[b][q][1] = d
    BY <1>1, <1>7 DEF LastWritten, IsLast, At
  <2>1. d \in Events /\ b \in Outputs /\ Of(LoggerOf(d)) \in SUBSET Events
    BY Stands DEF Locked
  <2>2. IsLast(d, b)
    BY <1>2 DEF LastWritten
  <2>3. CASE s = t
    <3>1. d = e /\ b = o
      BY <1>1, <2>3
    <3>2. CASE q \in At(o, Of(l))
      <4>1. p \in At(o, {e})
        <5>1. p \in At(o, {e}) \/ q < p
          BY <1>3, <2>1, <3>1, <3>2
        <5>2. p \in DOMAIN output'[o] /\ q \in DOMAIN output'[o]
          BY <3>1 DEF At
        <5>3. DOMAIN output'[o] \subseteq Nat
          BY <1>1, <1>2, Appended, ItemsAreASequence
        <5> QED
          BY <5>1, <5>2, <5>3
      <4>2. output[o][q][1] = e
        BY <2>2, <3>1, <3>2, <4>1 DEF IsLast
      <4>3. output'[o][q] = output[o][q]
        BY <1>3, <2>1, <3>1, <3>2
      <4> QED
        BY <3>1, <4>2, <4>3
    <3>3. CASE q \notin At(o, Of(l))
      <4>1. q \in At(o, Of(l))' /\ Of(l) \in SUBSET Events
        BY <3>1
      <4>2. q \in At(o, {e})'
        BY <1>3, <3>3, <4>1
      <4> QED
        BY <1>4, <3>1, <4>2
    <3> QED
      BY <3>2, <3>3
  <2>4. CASE s # t
    <3>1. d # e
      BY <1>1, <1>6, <2>4, CallsDiffer, Stands DEF Locked
    <3>2. b # o \/ e \notin Of(LoggerOf(d))
      BY <1>1, <2>4, OneWriter
    <3>3. p \in At(b, {d}) /\ q \in At(b, Of(LoggerOf(d)))
      BY <1>3, <2>1, <3>1, <3>2
    <3>4. output[b][q][1] = d
      BY <2>2, <3>3 DEF IsLast
    <3> QED
      BY <1>3, <2>1, <3>3, <3>4
  <2> QED
    BY <2>3, <2>4
<1>15. ASSUME NEW d \in Events, NEW b \in Outputs
       PROVE  /\ (\A s \in Threads : ~Has(s, d)') => At(b, {d})' = {}
              /\ \A s \in Threads : Has(s, d)' => Fits(s, d, b)'
  <2>1. \A s \in Threads : Has(s, d)' <=> Has(s, d)
    BY <1>1 DEF Has
  <2>2. Has(t, e) /\ Progress(t, e, o) = a
    BY <1>1, <1>6, Stands DEF Has
  <2>3. CASE d = e /\ b = o
    <3>1. ASSUME NEW s \in Threads, Has(s, d) PROVE Fits(s, d, b)'
      <4>1. s = t
        BY <1>2, <2>2, <2>3, <3>1 DEF LoggedOnce, Has
      <4>2. OfLine(e, a, o)
        BY <1>2, <2>2, FitsSo DEF Written
      <4>3. OfLine(e, n, o)'
        BY <1>1, <1>2, <4>2, LineGrows
      <4>4. Progress(t, e, o)' = n
        <5>1. /\ WritesTo(e, o)
              /\ ~\E k \in 1 .. turn[t] - 1 : Appenders(LoggerOf(e))[k] = o
          <6>1. /\ turn[t] \in 1 .. Len(Appenders(l)) /\ l \in Loggers
                /\ o = Appenders(l)[turn[t]] /\ WritesTo(e, o)
            BY <1>1, <1>6, Stands
          <6> QED
            BY <6>1, AppendersDiffer
        <5> QED
          BY <1>1, <1>7, <1>9, <5>1 DEF Progress
      <4> QED
        BY <2>3, <4>1, <4>3, <4>4, FitsSo
    <3> QED
      BY <2>1, <2>2, <2>3, <3>1
  <2>4. CASE d # e \/ b # o
    <3>1. At(b, {d})' = At(b, {d}) /\ \A p \in At(b, {d}) : output'[b][p] = output[b][p]
      BY <1>3, <2>4
    <3>2. ASSUME NEW s \in Threads, Has(s, d) PROVE Fits(s, d, b)'
      <4>1. PICK k : k = Progress(s, d, b)
        OBVIOUS
      <4>2. OfLine(d, k, b) /\ k \in Nat
        BY <1>2, <3>2, <4>1, FitsSo, ProgressType DEF Written
      <4>3. OfLine(d, k, b)'
        BY <3>1, <4>2, LineStays
      <4>4. Progress(s, d, b)' = k
        <5>1. CASE s # t
          BY <1>1, <1>7, <1>9, <4>1, <5>1 DEF Progress
        <5>2. CASE s = t
          BY <1>1, <1>7, <2>4, <4>1, <5>2 DEF Progress
        <5> QED
          BY <5>1, <5>2
      <4> QED
        BY <4>3, <4>4, FitsSo
    <3> QED
      BY <1>2, <2>1, <3>1, <3>2 DEF Written
  <2> QED
    BY <2>3, <2>4
<1>16. Written'
  BY <1>15 DEF Written
<1>17. ASSUME NEW s \in Threads PROVE InOrder(s)'
  <2> SUFFICES ASSUME NEW i \in DOMAIN logged[s], NEW j \in DOMAIN logged[s], i < j,
                      NEW b \in Outputs, NEW c, c = logged[s][i],
                      NEW d, d = logged[s][j]
               PROVE  Before(c, d, b)'
    BY <1>1 DEF InOrder, Before, At
  <2>1. logged[s] \in Seq(Events) /\ DOMAIN logged[s] = 1 .. Len(logged[s])
        /\ Len(logged[s]) \in Nat
    BY <1>2, LenProperties DEF LoggerTypeOK
  <2>2. c \in Events /\ d \in Events /\ Before(c, d, b)
    BY <1>2, <2>1, ElementOfSeq DEF InOrder
  <2>3. c # e
    <3>1. Len(logged[t]) \in DOMAIN logged[t] /\ logged[t][Len(logged[t])] = e
      BY <1>1, <1>6, Stands
    <3>2. CASE c = e
      <4>1. s = t /\ i = Len(logged[t])
        BY <1>2, <3>1, <3>2 DEF LoggedOnce
      <4> QED
        BY <2>1, <4>1
    <3> QED
      BY <3>2
  <2>4. At(b, {c})' = At(b, {c})
    BY <1>3, <2>2, <2>3
  <2> SUFFICES ASSUME NEW p \in At(b, {c}), NEW q \in At(b, {d})' PROVE p < q
    BY <2>4 DEF Before
  <2>5. CASE q \in At(b, {d})
    BY <2>2, <2>5 DEF Before
  <2>6. CASE q \notin At(b, {d})
    BY <1>3, <2>2, <2>6
  <2> QED
    BY <2>5, <2>6
<1>18. LinesStayWhole'
  <2> SUFFICES ASSUME NEW k \in Loggers, NEW b \in Outputs,
                      NEW p \in At(b, Of(k))', NEW q \in At(b, Of(k))',
                      NEW r \in At(b, Of(k))', p < q, q < r,
                      output'[b][p][1] = output'[b][r][1]
               PROVE  output'[b][q][1] = output'[b][p][1]
    BY DEF LinesStayWhole
  <2>1. CASE b # o \/ k # l
    <3>1. At(b, Of(k))' = At(b, Of(k)) /\ \A i \in At(b, Of(k)) : output'[b][i] = output[b][i]
      BY <1>3, <2>1
    <3> QED
      BY <1>2, <3>1 DEF LinesStayWhole
  <2>2. CASE b = o /\ k = l
    <3>1. DOMAIN output'[o] \subseteq Nat
      BY <1>1, <1>2, Appended, ItemsAreASequence
    <3>2. p \in Nat /\ q \in Nat /\ r \in Nat
      BY <2>2, <3>1 DEF At
    <3>3. CASE r \in At(o, Of(l))
      <4>1. p \in At(o, Of(l)) /\ q \in At(o, Of(l))
        BY <1>3, <2>2, <3>2, <3>3
      <4>2. output[o][q][1] = output[o][p][1]
        BY <1>2, <1>3, <1>6, <2>2, <3>3, <4>1 DEF LinesStayWhole
      <4> QED
        BY <1>3, <2>2, <4>1, <4>2
    <3>4. CASE r \notin At(o, Of(l))
      <4>1. output'[o][r][1] = e
        BY <1>3, <1>4, <2>2, <3>4
      <4>2. CASE q \notin At(o, Of(l))
        <5>1. output'[o][q][1] = e
          BY <1>3, <1>4, <2>2, <4>2
        <5> QED
          BY <2>2, <4>1, <5>1
      <4>3. CASE q \in At(o, Of(l))
        <5>1. p \in At(o, Of(l))
          BY <1>3, <2>2, <3>2, <4>3
        <5>2. output[o][p][1] = e
          BY <1>3, <2>2, <4>1, <5>1
        <5>3. p \in At(o, {e})
          BY <5>1, <5>2 DEF At
        <5>4. IsLast(e, o)
          BY <1>1, <1>2 DEF LastWritten
        <5>5. output[o][q][1] = e
          BY <4>3, <5>3, <5>4 DEF IsLast
        <5> QED
          BY <1>3, <2>2, <4>1, <4>3, <5>5
      <4> QED
        BY <4>2, <4>3
    <3> QED
      BY <3>3, <3>4
  <2> QED
    BY <2>1, <2>2
<1> QED
  BY <1>10, <1>11, <1>12, <1>13, <1>14, <1>16, <1>17, <1>18 DEF LInv

LEMMA FormatKeeps ==
  ASSUME LInv, NEW t \in Threads, Format(t)
  PROVE  LInv'
<1>1. PICK n \in item[t] + 1 .. Len(m_items) :
        /\ Locked(t) /\ Adds(Target(t), event[t], item[t], n)
        /\ item' = [item EXCEPT ![t] = n]
        /\ UNCHANGED <<event, turn, mutex, logged>>
  BY DEF Format
<1>2. PICK e, o, a : e = event[t] /\ o = Target(t) /\ a = item[t]
  OBVIOUS
<1>3. e \in Events /\ o \in Outputs /\ a \in 0 .. Len(m_items)
  BY <1>1, <1>2, Stands DEF Locked, LInv, LoggerTypeOK
<1>4. n \in a + 1 .. Len(m_items) /\ Puts(t, e, o, a, n)
  BY <1>1, <1>2 DEF Puts
<1> QED
  BY <1>3, <1>4, PutsKeeps

\* A step in which nothing happens.
LEMMA StutterKeeps ==
  ASSUME LInv, UNCHANGED vars
  PROVE  LInv'
<1>1. UNCHANGED <<event, turn, item, mutex, output, logged>>
  BY DEF vars
<1>2. LoggerTypeOK' /\ LoggedOnce' /\ \A b \in Mutexes : MutexFits(b)'
  BY <1>1 DEF LInv, LoggerTypeOK, LoggedOnce, MutexFits, Appender
<1>3. \A t \in Threads : CallStands(t)'
  BY <1>1 DEF LInv, CallStands, Locked, Appender
<1>4. \A t \in Threads : LastWritten(t)'
  BY <1>1 DEF LInv, LastWritten, Locked, Appender, Target, IsLast, At
<1>5. \A t \in Threads : InOrder(t)'
  BY <1>1 DEF LInv, InOrder, Before, At
<1>6. LinesStayWhole'
  BY <1>1, NoWrite DEF LInv
<1>7. ASSUME NEW d \in Events, NEW o \in Outputs
      PROVE  /\ (\A s \in Threads : ~Has(s, d)') => At(o, {d})' = {}
             /\ \A s \in Threads : Has(s, d)' => Fits(s, d, o)'
  <2>1. \A s \in Threads : Has(s, d)' <=> Has(s, d)
    BY <1>1 DEF Has
  <2>2. \A s \in Threads : Progress(s, d, o)' = Progress(s, d, o)
    BY <1>1 DEF Progress, Target
  <2> QED
    BY <1>1, <2>1, <2>2, NoWrite, FitsSo DEF LInv, Written
<1>8. Written'
  BY <1>7 DEF Written
<1> QED
  BY <1>2, <1>3, <1>4, <1>5, <1>6, <1>8 DEF LInv

\* LInv is an invariant.
THEOREM LoggerInvariance == Spec => []LInv
<1>1. Init => LInv
  BY InitLogger
<1>2. LInv /\ [Next]_vars => LInv'
  <2> SUFFICES ASSUME LInv, [Next]_vars PROVE LInv'
    OBVIOUS
  <2>1. ASSUME NEW t \in Threads, NEW e \in Events, Log(t, e) PROVE LInv'
    BY <2>1, LogKeeps
  <2>2. ASSUME NEW t \in Threads, Lock(t) PROVE LInv'
    BY <2>2, LockKeeps
  <2>3. ASSUME NEW t \in Threads, Format(t) PROVE LInv'
    BY <2>3, FormatKeeps
  <2>4. ASSUME NEW t \in Threads, Unlock(t) PROVE LInv'
    BY <2>4, UnlockKeeps
  <2>5. CASE UNCHANGED vars
    BY <2>5, StutterKeeps
  <2> QED
    BY <2>1, <2>2, <2>3, <2>4, <2>5 DEF Next, Write
<1> QED
  BY <1>1, <1>2, PTL DEF Spec

\* The lines of one logger are never torn apart by threads that log at once,
\* on whatever outputs and through however many appenders.
THEOREM LinesAreWhole == Spec => []LinesStayWhole
<1>1. LInv => LinesStayWhole
  BY DEF LInv
<1> QED
  BY <1>1, LoggerInvariance, PTL

\* An event has its line on each of its logger's outputs when its call is over,
\* and the lines of a thread stand in the order of its calls.
THEOREM EventsAreDelivered == Spec => []Delivered
<1>1. LInv => Delivered
  <2> SUFFICES ASSUME LInv PROVE Delivered
    OBVIOUS
  <2> SUFFICES ASSUME NEW t \in Threads, NEW o \in Outputs,
                      NEW i \in DOMAIN logged[t]
               PROVE  LET e == logged[t][i] IN
                      /\ event[t] # e =>
                           OfLine(e, IF WritesTo(e, o) THEN Len(m_items) ELSE 0, o)
                      /\ \A j \in DOMAIN logged[t] : i < j =>
                           \A p \in At(o, {e}), q \in At(o, {logged[t][j]}) : p < q
    BY DEF Delivered
  <2> DEFINE e == logged[t][i]
  <2>1. e \in Events
    BY ElementOfSeq, LenProperties DEF LInv, LoggerTypeOK
  <2>2. ASSUME event[t] # e
        PROVE  OfLine(e, IF WritesTo(e, o) THEN Len(m_items) ELSE 0, o)
    <3>1. Fits(t, e, o)
      BY <2>1 DEF LInv, Written, Has
    <3>2. Progress(t, e, o) = IF WritesTo(e, o) THEN Len(m_items) ELSE 0
      BY <2>2 DEF Progress
    <3> QED
      BY <3>1, <3>2 DEF Fits
  <2>3. \A j \in DOMAIN logged[t] : i < j =>
          \A p \in At(o, {e}), q \in At(o, {logged[t][j]}) : p < q
    BY DEF LInv, InOrder, Before
  <2> QED
    BY <2>2, <2>3
<1> QED
  BY <1>1, LoggerInvariance, PTL

=============================================================================
