---------------------------- MODULE TableProofs ----------------------------
(***************************************************************************)
(* Proofs about ContextTable: TableInv is inductive, for any number of     *)
(* threads, descriptors and sizes.  Each step of a thread preserves the    *)
(* parts of the invariant one by one; only Resize can make the history     *)
(* variable shrunk true, and then nothing more is claimed.                 *)
(***************************************************************************)
EXTENDS ContextTable, TLAPS

\* 1.5 * fd is a larger number than fd, from 2 on.
LEMMA Enlarges ==
  ASSUME NEW fd \in Nat, fd >= 2
  PROVE  NewSize(fd) \in Nat /\ NewSize(fd) > fd /\ NewSize(fd) >= 2
BY DEF NewSize

\* The constructor establishes the invariant.
LEMMA InitTable == Init => TableInv
<1>. SUFFICES ASSUME Init PROVE TableInv
  OBVIOUS
<1>. USE TableAssumption DEF TableAssumption, Init, LockInit
<1>1. TypeOK
  <2>1. /\ size \in Nat /\ built \in [Fds -> 0 .. MaxBuilt]
        /\ known \in [Fds -> 0 .. MaxBuilt]
        /\ got \in [Threads -> 0 .. MaxBuilt]
    OBVIOUS
  <2>2. leaked \in BOOLEAN /\ shrunk \in BOOLEAN
    OBVIOUS
  <2>3. arg \in [Threads -> Fds \cup {-1}]
    OBVIOUS
  <2>. QED BY <2>1, <2>2, <2>3 DEF TypeOK
<1>2. InRange /\ CallsApart /\ BigEnough /\ Filled
  BY DEF InRange, CallsApart, BigEnough, Filled
<1>3. Unshrunk BY DEF Unshrunk
<1>. QED BY <1>1, <1>2, <1>3 DEF TableInv

\* The steps that only move a thread or take the lock.
LEMMA StepLocks ==
  ASSUME TableInv, NEW t \in Threads, ReadLock(t) \/ WriteLock(t)
  PROVE  TableInv'
<1>1. CASE ReadLock(t)
  BY <1>1
  DEF ReadLock, At, Goto, rdlock, tableVars, TableInv, TypeOK, InRange,
      CallsApart, BigEnough, Filled, Unshrunk
<1>2. CASE WriteLock(t)
  BY <1>2
  DEF WriteLock, At, Goto, wrlock, tableVars, TableInv, TypeOK, InRange,
      CallsApart, BigEnough, Filled, Unshrunk
<1>. QED BY <1>1, <1>2

\* A call about a descriptor nobody else is busy with.
LEMMA StepCall ==
  ASSUME TableInv, NEW t \in Threads, NEW o \in {"add", "del"}, NEW fd \in Fds,
         Call(t, o, fd)
  PROVE  TableInv'
<1>. USE DEF Call, At, Goto, Busy, tableVars, lockVars, TableInv
<1>1. TypeOK' BY DEF TypeOK
<1>2. InRange' BY DEF InRange
<1>3. CallsApart' BY DEF CallsApart, TypeOK
<1>4. BigEnough' /\ Filled' BY DEF BigEnough, Filled, TypeOK
<1>5. (~shrunk => Unshrunk)' BY DEF Unshrunk, TypeOK
<1>. QED BY <1>1, <1>2, <1>3, <1>4, <1>5

\* What a thread that looks under the read lock does next.
LEMMA StepLook ==
  ASSUME TableInv, NEW t \in Threads, Found(t) \/ NotThere(t) \/ TooSmall(t)
  PROVE  TableInv'
<1>. USE DEF At, Goto, tableVars, TableInv
<1>a. arg[t] \in Fds /\ arg[t] \in Nat
  BY TableAssumption DEF TableAssumption, Found, NotThere, TooSmall, CallsApart
<1>1. CASE Found(t)
  BY <1>1, <1>a
  DEF Found, unlock, TypeOK, InRange, CallsApart, BigEnough, Filled, Unshrunk
<1>2. CASE NotThere(t)
  BY <1>2, <1>a
  DEF NotThere, Abandon, TypeOK, InRange, CallsApart, BigEnough, Filled, Unshrunk
<1>3. CASE TooSmall(t)
  BY <1>3, <1>a
  DEF TooSmall, unlock, TypeOK, InRange, CallsApart, BigEnough, Filled, Unshrunk
<1>. QED BY <1>1, <1>2, <1>3

\* contextResize and the access behind it.
LEMMA StepResize ==
  ASSUME TableInv, NEW t \in Threads, Resize(t)
  PROVE  TableInv'
<1>. DEFINE n == NewSize(arg[t])
<1>. USE DEF TableInv
<1>1. /\ arg[t] \in Fds /\ arg[t] \in Nat /\ arg[t] >= 2
      /\ pc[t] = "resize"
  BY TableAssumption DEF TableAssumption, Resize, At, CallsApart, BigEnough
<1>2. n \in Nat /\ n > arg[t] /\ n >= 2
  BY <1>1, Enlarges
<1>. HIDE DEF n
<1>3. /\ size' = n /\ built' = Rebuilt(n) /\ fate = "ok" /\ fate' = "ok"
      /\ got' = [got EXCEPT ![t] = built'[arg[t]]]
      /\ pc' = [pc EXCEPT ![t] = "section"]
      /\ shrunk' = (shrunk \/ n < size)
      /\ UNCHANGED <<inUse, known, op, arg, leaked>>
      /\ \A fd \in Fds : Rebuilt(n)[fd] <= MaxBuilt
  BY <1>2 DEF Resize, At, Goto, unlock, n
<1>4. built' \in [Fds -> 0 .. MaxBuilt]
  BY <1>3, TableAssumption DEF TableAssumption, Rebuilt, TypeOK
<1>5. TypeOK'
  <2>1. writer' \in Threads \cup {NoThread} /\ readers' \subseteq Threads
    BY DEF TypeOK, Resize, unlock
  <2>. QED BY <1>1, <1>2, <1>3, <1>4, <2>1 DEF TypeOK
<1>6. InRange' BY <1>3 DEF InRange
<1>7. CallsApart' BY <1>1, <1>3 DEF CallsApart, TypeOK
<1>8. BigEnough' /\ Filled'
  <2>1. BigEnough' BY <1>1, <1>2, <1>3 DEF BigEnough, TypeOK
  <2>2. \A fd \in Fds : fd < size' => built'[fd] >= 1
    BY <1>2, <1>3, TableAssumption DEF TableAssumption, Rebuilt, Filled, TypeOK
  <2>3. \A u \in Threads : pc'[u] = "section" => got'[u] >= 1
    BY <2>2, <1>1, <1>2, <1>3 DEF Filled, TypeOK
  <2>. QED BY <2>1, <2>2, <2>3 DEF Filled
<1>9. (~shrunk => Unshrunk)'
  <2>. SUFFICES ASSUME ~shrunk' PROVE Unshrunk'
    OBVIOUS
  <2>1. ~shrunk /\ n >= size /\ Unshrunk
    <3>1. ~shrunk /\ ~(n < size)
      BY <1>3
    <3>. QED BY <3>1, <1>2 DEF TypeOK
  <2>2. \A fd \in Fds : built'[fd] = IF fd < size' THEN 1 ELSE 0
    BY <2>1, <1>2, <1>3, TableAssumption DEF TableAssumption, Unshrunk, Rebuilt, TypeOK
  <2>3. \A u \in Threads :
          pc'[u] = "section" => got'[u] = 1 /\ arg'[u] < size'
    <3>1. got'[t] = 1 /\ arg'[t] < size'
      BY <2>2, <1>1, <1>2, <1>3 DEF TypeOK
    <3>2. ASSUME NEW u \in Threads \ {t}, pc'[u] = "section"
          PROVE  got'[u] = 1 /\ arg'[u] < size'
      <4>1. pc[u] = "section" /\ got'[u] = got[u] /\ arg'[u] = arg[u]
        BY <1>3, <3>2 DEF TypeOK
      <4>2. got[u] = 1 /\ arg[u] < size /\ arg[u] \in Nat
        BY <4>1, <2>1, TableAssumption DEF TableAssumption, Unshrunk, CallsApart
      <4>. QED BY <4>1, <4>2, <2>1, <1>2, <1>3 DEF TypeOK
    <3>. QED BY <3>1, <3>2
  <2>4. \A fd \in Fds : known'[fd] # 0 => fd < size'
    BY <2>1, <1>2, <1>3, TableAssumption DEF TableAssumption, Unshrunk, TypeOK
  <2>5. \A u \in Threads : pc'[u] # "run" => (op'[u] = "add" <=> known'[arg'[u]] = 0)
    BY <2>1, <1>1, <1>3 DEF Unshrunk, TypeOK
  <2>. QED BY <2>1, <2>2, <2>3, <2>4, <2>5, <1>3 DEF Unshrunk
<1>. QED BY <1>5, <1>6, <1>7, <1>8, <1>9

\* The sections of addEvent and delEvent: the thread's FdContext is the first
\* one as long as the table has not shrunk, and nobody else is at work on it.
LEMMA StepSection ==
  ASSUME TableInv, NEW t \in Threads, AddSection(t) \/ DelSection(t)
  PROVE  TableInv'
<1>. USE DEF TableInv
<1>a. arg[t] \in Fds /\ arg[t] \in Nat /\ pc[t] = "section" /\ fate = "ok"
  BY TableAssumption DEF TableAssumption, AddSection, DelSection, At, CallsApart
<1>b. got[t] \in 1 .. MaxBuilt
  BY <1>a DEF TypeOK, Filled
<1>c. /\ pc' = [pc EXCEPT ![t] = "run"]
      /\ UNCHANGED <<size, built, shrunk, writer, readers, leaked, op, arg, got>>
  BY DEF AddSection, DelSection, Goto, lockVars
<1>1. CallsApart' /\ BigEnough' /\ Filled'
  BY <1>a, <1>c DEF CallsApart, BigEnough, Filled, TypeOK
<1>2. CASE AddSection(t)
  <2>1. TypeOK' /\ InRange'
    <3>1. inUse' \subseteq Fds \X (1 .. MaxBuilt) /\ known' \in [Fds -> 0 .. MaxBuilt]
      BY <1>2, <1>a, <1>b DEF AddSection, TypeOK
    <3>2. fate' \in {"ok", "range", "assert", "locked"} /\ fate' # "range"
      BY <1>2, <1>a DEF AddSection
    <3>3. pc' \in [Threads -> {"run", "lock", "look", "grow", "resize", "section"}]
      BY <1>c DEF TypeOK
    <3>. QED BY <3>1, <3>2, <3>3, <1>c DEF TypeOK, InRange
  <2>2. ASSUME ~shrunk' PROVE Unshrunk'
    <3>1. ~shrunk /\ Unshrunk
      BY <2>2, <1>c
    <3>2. /\ got[t] = 1 /\ arg[t] < size
          /\ op[t] = "add" <=> known[arg[t]] = 0
          /\ <<arg[t], 1>> \in inUse <=> known[arg[t]] = 1
      BY <3>1, <1>a, <1>b DEF Unshrunk
    <3>3. /\ fate' = "ok"
          /\ known' = [known EXCEPT ![arg[t]] = 1]
          /\ inUse' = inUse \cup {<<arg[t], 1>>}
      BY <3>1, <3>2, <1>2, <1>a DEF AddSection, Unshrunk
    <3>4. \A fd \in Fds, m \in 1 .. MaxBuilt :
            <<fd, m>> \in inUse' <=> known'[fd] = m
      <4>1. ASSUME NEW fd \in Fds \ {arg[t]}, NEW m \in 1 .. MaxBuilt
            PROVE  <<fd, m>> \in inUse' <=> known'[fd] = m
        <5>1. <<fd, m>> \in inUse' <=> <<fd, m>> \in inUse
          BY <3>3
        <5>. QED BY <5>1, <3>1, <3>3 DEF Unshrunk, TypeOK
      <4>2. ASSUME NEW m \in 1 .. MaxBuilt
            PROVE  <<arg[t], m>> \in inUse' <=> known'[arg[t]] = m
        <5>1. <<arg[t], m>> \in inUse <=> known[arg[t]] = m
          BY <3>1, <1>a DEF Unshrunk
        <5>2. known[arg[t]] \in {0, 1} /\ op[t] = "add"
          BY <3>1, <1>2, <1>a DEF Unshrunk, AddSection
        <5>3. known'[arg[t]] = 1
          BY <3>3, <1>a DEF TypeOK
        <5>. QED BY <5>1, <5>2, <5>3, <3>2, <3>3
      <4>. QED BY <4>1, <4>2
    <3>5. \A u \in Threads : pc'[u] # "run" =>
            pc[u] # "run" /\ known'[arg[u]] = known[arg[u]]
      BY <3>3, <1>a, <1>c DEF CallsApart, TypeOK
    <3>6. \A u \in Threads :
            /\ pc'[u] = "section" => got'[u] = 1 /\ arg'[u] < size'
            /\ pc'[u] # "run" => (op'[u] = "add" <=> known'[arg'[u]] = 0)
      BY <3>1, <3>5, <1>c DEF Unshrunk, TypeOK
    <3>7. \A fd \in Fds :
            /\ built'[fd] = IF fd < size' THEN 1 ELSE 0
            /\ known'[fd] # 0 => fd < size'
            /\ known'[fd] \in {0, 1}
      BY <3>1, <3>2, <3>3, <1>a, <1>c DEF Unshrunk, TypeOK
    <3>. QED BY <3>1, <3>3, <3>4, <3>6, <3>7, <1>c DEF Unshrunk
  <2>. QED BY <1>1, <2>1, <2>2
<1>3. CASE DelSection(t)
  <2>1. TypeOK' /\ InRange'
    <3>a. inUse' \subseteq inUse /\ known' \in [Fds -> 0 .. MaxBuilt]
      BY <1>3, <1>a, <1>b, TableAssumption
      DEF TableAssumption, DelSection, TypeOK
    <3>1. inUse' \subseteq Fds \X (1 .. MaxBuilt) /\ known' \in [Fds -> 0 .. MaxBuilt]
      BY <3>a DEF TypeOK
    <3>2. fate' \in {"ok", "range", "assert", "locked"} /\ fate' # "range"
      BY <1>3, <1>a DEF DelSection
    <3>3. pc' \in [Threads -> {"run", "lock", "look", "grow", "resize", "section"}]
      BY <1>c DEF TypeOK
    <3>. QED BY <3>1, <3>2, <3>3, <1>c DEF TypeOK, InRange
  <2>2. ASSUME ~shrunk' PROVE Unshrunk'
    <3>1. ~shrunk /\ Unshrunk
      BY <2>2, <1>c
    <3>2. /\ got[t] = 1 /\ arg[t] < size
          /\ op[t] = "add" <=> known[arg[t]] = 0
          /\ <<arg[t], 1>> \in inUse <=> known[arg[t]] = 1
      BY <3>1, <1>a, <1>b DEF Unshrunk
    <3>3. /\ fate' = "ok"
          /\ known' = [known EXCEPT ![arg[t]] = 0]
          /\ inUse' = inUse \ {<<arg[t], 1>>}
      BY <3>1, <3>2, <1>3, <1>a DEF DelSection, Unshrunk
    <3>4. \A fd \in Fds, m \in 1 .. MaxBuilt :
            <<fd, m>> \in inUse' <=> known'[fd] = m
      <4>1. ASSUME NEW fd \in Fds \ {arg[t]}, NEW m \in 1 .. MaxBuilt
            PROVE  <<fd, m>> \in inUse' <=> known'[fd] = m
        <5>1. <<fd, m>> \in inUse' <=> <<fd, m>> \in inUse
          BY <3>3
        <5>. QED BY <5>1, <3>1, <3>3 DEF Unshrunk, TypeOK
      <4>2. ASSUME NEW m \in 1 .. MaxBuilt
            PROVE  <<arg[t], m>> \in inUse' <=> known'[arg[t]] = m
        <5>1. <<arg[t], m>> \in inUse <=> known[arg[t]] = m
          BY <3>1, <1>a DEF Unshrunk
        <5>2. known[arg[t]] \in {0, 1} /\ op[t] = "del"
          BY <3>1, <1>3, <1>a DEF Unshrunk, DelSection
        <5>3. known'[arg[t]] = 0
          BY <3>3, <1>a DEF TypeOK
        <5>. QED BY <5>1, <5>2, <5>3, <3>2, <3>3
      <4>. QED BY <4>1, <4>2
    <3>5. \A u \in Threads : pc'[u] # "run" =>
            pc[u] # "run" /\ known'[arg[u]] = known[arg[u]]
      BY <3>3, <1>a, <1>c DEF CallsApart, TypeOK
    <3>6. \A u \in Threads :
            /\ pc'[u] = "section" => got'[u] = 1 /\ arg'[u] < size'
            /\ pc'[u] # "run" => (op'[u] = "add" <=> known'[arg'[u]] = 0)
      BY <3>1, <3>5, <1>c DEF Unshrunk, TypeOK
    <3>7. \A fd \in Fds :
            /\ built'[fd] = IF fd < size' THEN 1 ELSE 0
            /\ known'[fd] # 0 => fd < size'
            /\ known'[fd] \in {0, 1}
      BY <3>1, <3>2, <3>3, <1>a, <1>c DEF Unshrunk, TypeOK
    <3>. QED BY <3>1, <3>3, <3>4, <3>6, <3>7, <1>c DEF Unshrunk
  <2>. QED BY <1>1, <2>1, <2>2
<1>. QED BY <1>2, <1>3

-----------------------------------------------------------------------------
(***************************************************************************)
(* The theorems.                                                           *)
(***************************************************************************)

\* TableInv is an invariant of the table (contextResize, addEvent, delEvent),
\* whatever the descriptors and however many threads enlarge the table.
THEOREM TableInvariance == Spec => []TableInv
<1>1. ASSUME TableInv, [Next]_vars PROVE TableInv'
  <2>1. CASE UNCHANGED vars
    BY <1>1, <2>1
    DEF vars, tableVars, lockVars, TableInv, TypeOK, InRange, CallsApart,
        BigEnough, Filled, Unshrunk
  <2>2. ASSUME NEW t \in Threads, Step(t) PROVE TableInv'
    BY <1>1, <2>2, StepLocks, StepLook, StepResize, StepSection DEF Step
  <2>3. ASSUME NEW t \in Threads, NEW o \in {"add", "del"}, NEW fd \in Fds,
               Call(t, o, fd)
        PROVE  TableInv'
    BY <1>1, <2>3, StepCall
  <2>. QED BY <1>1, <2>1, <2>2, <2>3 DEF Next
<1>. QED BY <1>1, InitTable, PTL DEF Spec

\* addEvent never reads m_fdContexts beyond its end, shrunk or not.
THEOREM NeverBeyondTheEnd == Spec => []InRange
BY TableInvariance, PTL DEF TableInv

\* Only a shrinking table can part epoll from the table, fail a call or leave
\* a read lock behind.
THEOREM OneContextUntilShrunk == Spec => []OneContext
<1>1. TableInv => OneContext
  <2>. SUFFICES ASSUME TableInv, ~shrunk
                PROVE  /\ \A fd \in Fds : known[fd] # 0 =>
                                            fd < size /\ known[fd] = built[fd]
                       /\ fate = "ok" /\ ~leaked
    BY DEF OneContext
  <2>. QED BY DEF TableInv, Unshrunk
<1>. QED BY <1>1, TableInvariance, PTL

=============================================================================
