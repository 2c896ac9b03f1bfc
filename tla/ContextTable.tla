---------------------------- MODULE ContextTable ----------------------------
(***************************************************************************)
(* The table of FdContexts of IOManager, indexed by descriptor, behind the *)
(* read-write lock m_rw_mutex (module RWLock).  addEvent looks its         *)
(* descriptor up under the read lock and, when the table is too small,     *)
(* resizes it under the write lock without looking again.  delEvent gives  *)
(* up beyond the end of the table and leaves the read lock behind.         *)
(*                                                                         *)
(* The sections under FdContext::mutex are those of FdEvents, with one     *)
(* event for each descriptor.  The FdContexts of a descriptor are          *)
(* numbered: each one the table builds is another object.                  *)
(***************************************************************************)
EXTENDS Integers, RWLock

CONSTANTS
  Threads,      \* callers of addEvent and delEvent
  Growers,      \* those that also add descriptors beyond the table
  Fds,          \* descriptors of a behaviour
  InitialSize,  \* 32 in the code
  MaxBuilt      \* bound on the FdContexts of one descriptor

ASSUME TableAssumption ==
  /\ NoThread \notin Threads
  /\ Growers \subseteq Threads
  /\ Fds \subseteq Nat
  /\ InitialSize \in Nat \ {0, 1}
  /\ MaxBuilt \in Nat \ {0}

VARIABLES
  size,   \* m_fdContexts.size()
  built,  \* FdContexts built for a descriptor; the last is in the table
  inUse,  \* FdContexts <<fd, n>> whose events is not NONE
  known,  \* the FdContext epoll's data.ptr names for a descriptor (0: none)
  pc,     \* position of each thread
  op,     \* "add" or "del"
  arg,    \* the descriptor of each thread's call
  got,    \* the FdContext it found
  fate,   \* "ok", or how a call failed
  shrunk  \* history: the table was made smaller once

tableVars == <<size, built, inUse, known, shrunk>>
vars == <<tableVars, lockVars, pc, op, arg, got, fate>>

Goto(t, p) == pc' = [pc EXCEPT ![t] = p]
At(t, p) == pc[t] = p /\ fate = "ok"
Busy(fd) == \E t \in Threads : pc[t] # "run" /\ arg[t] = fd

-----------------------------------------------------------------------------
\* A client adds an event it does not have and deletes one it has.
Call(t, o, fd) ==
  /\ At(t, "run")
  /\ ~Busy(fd)
  /\ IF o = "add" THEN known[fd] = 0 /\ (fd < size \/ t \in Growers)
                  ELSE known[fd] # 0
  /\ op' = [op EXCEPT ![t] = o]
  /\ arg' = [arg EXCEPT ![t] = fd]
  /\ Goto(t, "lock")
  /\ UNCHANGED <<tableVars, lockVars, got, fate>>

ReadLock(t) ==
  /\ At(t, "lock")
  /\ rdlock(t)
  /\ Goto(t, "look")
  /\ UNCHANGED <<tableVars, op, arg, got, fate>>

Found(t) ==
  /\ At(t, "look")
  /\ arg[t] < size
  /\ got' = [got EXCEPT ![t] = built[arg[t]]]
  /\ unlock(t)
  /\ Goto(t, "section")
  /\ UNCHANGED <<tableVars, op, arg, fate>>

\* delEvent beyond the table: return false, without unlock().
NotThere(t) ==
  /\ At(t, "look")
  /\ op[t] = "del" /\ arg[t] >= size
  /\ Abandon(t)
  /\ Goto(t, "run")
  /\ UNCHANGED <<tableVars, op, arg, got, fate>>

\* Slip: the read lock is kept while waiting for the write lock.
TooSmallLocked(t) ==
  /\ At(t, "look")
  /\ op[t] = "add" /\ arg[t] >= size
  /\ Goto(t, "grow")
  /\ UNCHANGED <<tableVars, lockVars, op, arg, got, fate>>

TooSmall(t) ==
  /\ At(t, "look")
  /\ op[t] = "add" /\ arg[t] >= size
  /\ unlock(t)
  /\ Goto(t, "grow")
  /\ UNCHANGED <<tableVars, op, arg, got, fate>>

WriteLock(t) ==
  /\ At(t, "grow")
  /\ wrlock(t)
  /\ Goto(t, "resize")
  /\ UNCHANGED <<tableVars, op, arg, got, fate>>

\* fd * 1.5, converted to size_t.
NewSizeJustFd(fd) == fd
NewSize(fd) == (3 * fd) \div 2

\* contextResize: every empty slot gets a new FdContext.
RebuiltAll(n) == [fd \in Fds |-> IF fd < n THEN built[fd] + 1 ELSE built[fd]]
Rebuilt(n) ==
  [fd \in Fds |-> IF size <= fd /\ fd < n THEN built[fd] + 1 ELSE built[fd]]

Resize(t) ==
  LET n == NewSize(arg[t]) IN
  /\ At(t, "resize")
  /\ \A fd \in Fds : Rebuilt(n)[fd] <= MaxBuilt
  /\ size' = n
  /\ built' = Rebuilt(n)
  /\ got' = [got EXCEPT ![t] = built'[arg[t]]]
  /\ fate' = IF arg[t] < n THEN "ok" ELSE "range"
  /\ shrunk' = (shrunk \/ n < size)
  /\ unlock(t)
  /\ Goto(t, "section")
  /\ UNCHANGED <<inUse, known, op, arg>>

\* addEvent under FdContext::mutex: ADD fails when epoll has the descriptor.
AddSection(t) ==
  LET fd == arg[t] IN
  /\ At(t, "section") /\ op[t] = "add"
  /\ IF <<fd, got[t]>> \notin inUse /\ known[fd] = 0
     THEN /\ inUse' = inUse \cup {<<fd, got[t]>>}
          /\ known' = [known EXCEPT ![fd] = got[t]]
          /\ UNCHANGED fate
     ELSE fate' = "assert" /\ UNCHANGED <<inUse, known>>
  /\ Goto(t, "run")
  /\ UNCHANGED <<size, built, shrunk, lockVars, op, arg, got>>

\* delEvent under FdContext::mutex: a context without events is a failure.
DelSection(t) ==
  LET fd == arg[t] IN
  /\ At(t, "section") /\ op[t] = "del"
  /\ IF <<fd, got[t]>> \in inUse
     THEN /\ inUse' = inUse \ {<<fd, got[t]>>}
          /\ known' = [known EXCEPT ![fd] = 0]
          /\ UNCHANGED fate
     ELSE fate' = "locked" /\ UNCHANGED <<inUse, known>>
  /\ Goto(t, "run")
  /\ UNCHANGED <<size, built, shrunk, lockVars, op, arg, got>>

-----------------------------------------------------------------------------
\* contextResize(32) of the constructor.
Init ==
  /\ LockInit
  /\ size = InitialSize
  /\ built = [fd \in Fds |-> IF fd < InitialSize THEN 1 ELSE 0]
  /\ inUse = {}
  /\ known = [fd \in Fds |-> 0]
  /\ pc = [t \in Threads |-> "run"]
  /\ op = [t \in Threads |-> "add"]
  /\ arg = [t \in Threads |-> -1]
  /\ got = [t \in Threads |-> 0]
  /\ fate = "ok"
  /\ shrunk = FALSE

Step(t) ==
  \/ ReadLock(t) \/ Found(t) \/ NotThere(t) \/ TooSmall(t) \/ WriteLock(t)
  \/ Resize(t) \/ AddSection(t) \/ DelSection(t)

Next ==
  \E t \in Threads :
    Step(t) \/ \E o \in {"add", "del"}, fd \in Fds : Call(t, o, fd)

Spec == Init /\ [][Next]_vars

(***************************************************************************)
(* A call goes on when it can; a writer gets its turn among the readers.   *)
(***************************************************************************)
Fairness ==
  \A t \in Threads : WF_vars(Step(t)) /\ SF_vars(WriteLock(t))

FairSpec == Spec /\ Fairness

-----------------------------------------------------------------------------
(***************************************************************************)
(* Properties.                                                             *)
(***************************************************************************)

\* Type invariant of the table, the lock and the calls.
TypeOK ==
  /\ size \in Nat
  /\ built \in [Fds -> 0 .. MaxBuilt]
  /\ inUse \subseteq Fds \X (1 .. MaxBuilt)
  /\ known \in [Fds -> 0 .. MaxBuilt]
  /\ writer \in Threads \cup {NoThread} /\ readers \subseteq Threads
  /\ leaked \in BOOLEAN /\ shrunk \in BOOLEAN
  /\ pc \in [Threads -> {"run", "lock", "look", "grow", "resize", "section"}]
  /\ op \in [Threads -> {"add", "del"}]
  /\ arg \in [Threads -> Fds \cup {-1}]
  /\ got \in [Threads -> 0 .. MaxBuilt]
  /\ fate \in {"ok", "range", "assert", "locked"}

\* m_fdContexts[fd] is never read beyond the end: 1.5 * fd is enough because
\* the table starts with more than one slot.
InRange == fate # "range"

\* As long as the table has not shrunk every registered descriptor has one
\* FdContext, the one in the table that epoll points to; no call fails, and no
\* read lock is left behind.
OneContext ==
  ~shrunk =>
    /\ \A fd \in Fds :
         known[fd] # 0 => fd < size /\ known[fd] = built[fd]
    /\ fate = "ok" /\ ~leaked

\* The inductive invariant behind the two.  Calls are about different
\* descriptors, a table in need of resizing is asked for at least slot 2,
\* each slot holds an FdContext, and while the table has not shrunk that is the
\* first one.
CallsApart ==
  \A t \in Threads :
    pc[t] # "run" =>
      /\ arg[t] \in Fds
      /\ \A u \in Threads \ {t} : pc[u] # "run" => arg[u] # arg[t]

BigEnough ==
  /\ size >= 2
  /\ \A t \in Threads : pc[t] \in {"grow", "resize"} => arg[t] >= 2

Filled ==
  /\ \A fd \in Fds : fd < size => built[fd] >= 1
  /\ \A t \in Threads : pc[t] = "section" => got[t] >= 1

Unshrunk ==
  /\ fate = "ok" /\ ~leaked
  /\ \A fd \in Fds :
       /\ built[fd] = IF fd < size THEN 1 ELSE 0
       /\ known[fd] # 0 => fd < size
       /\ \A n \in 1 .. MaxBuilt : <<fd, n>> \in inUse <=> known[fd] = n
       /\ known[fd] \in {0, 1}
  /\ \A t \in Threads :
       /\ pc[t] = "section" => got[t] = 1 /\ arg[t] < size
       /\ pc[t] # "run" => (op[t] = "add" <=> known[arg[t]] = 0)

TableInv ==
  /\ TypeOK /\ InRange /\ CallsApart /\ BigEnough /\ Filled
  /\ (~shrunk => Unshrunk)

\* Until then every call comes to its end: nobody waits for ever for a lock.
CallsEnd == \A t \in Threads : pc[t] # "run" ~> pc[t] = "run" \/ shrunk

=============================================================================
