----------------------------- MODULE ServerProofs -----------------------------
(***************************************************************************)
(* Proofs about SocketServer, for any number of workers, descriptors and   *)
(* connections.  As long as no client hangs up on its request ServerInv is *)
(* kept, so the server keeps to the rules of FdEvents, nothing it          *)
(* dispatches is stale, no callback blocks, and each one works on the      *)
(* connection whose edge started it.  Whatever the clients do ListenInv is *)
(* kept, so the server goes on listening.                                  *)
(***************************************************************************)
EXTENDS SocketServerInv, FdProofs, SequenceTheorems

LEMMA InitServer == ServerInit => ServerInv
<1> SUFFICES ASSUME ServerInit PROVE SocketInv /\ Bound /\ Patient
  BY InitFd DEF ServerInit, ServerInv
<1> USE FdAssumption, ServerAssumption DEF ServerInit, Init
<1>1. Main \in Threads /\ Main \notin Workers
  BY DEF Threads
<1>2. ServerTypeOK
  <2>1. queue \in Seq(Entries) /\ backlog \in Seq(Conns)
    BY EmptySeq
  <2> QED
    BY <1>1, <2>1 DEF ServerTypeOK, MainSteps, WorkerSteps, Stages, Ways, Threads
<1>3. NothingStale /\ OnlyRead /\ Booting /\ BatchInLoop
  BY <1>1 DEF NothingStale, OnlyRead, Booting, BatchInLoop, MainSteps,
       EmptyBatch, Threads, At
<1>4. CallsAgree
  BY DEF CallsAgree
<1>5. OnePeer
  BY DEF OnePeer
<1>6. EdgesFit /\ AllWorkFits /\ OneJobEach
  BY <1>1 DEF EdgesFit, EdgeFits, EntryFits, AllWorkFits, WorkFits,
       OneJobEach, OneJob, Has, Works, Setup, Serving,
       EmptyBatch, Threads
<1>7. EnoughToAccept
  <2>1. Accepts(queue) = {} /\ Accepting = {} /\ Told = {} /\ EdgeCount = 0
    BY <1>1 DEF Accepts, Accepting, Told, EdgeCount, EmptyBatch, Threads, At
  <2>2. Cardinality({}) = 0
    BY FS_EmptySet
  <2>3. Len(backlog) = 0
    OBVIOUS
  <2>4. /\ Cardinality(Told) = 0 /\ Cardinality(Accepts(queue)) = 0
        /\ Cardinality(Accepting) = 0
    BY <2>1, <2>2
  <2> QED
    BY <2>1, <2>3, <2>4 DEF EnoughToAccept
<1>8. Bound /\ Patient
  BY <1>1 DEF Bound, Patient, Ended
<1> QED
  BY <1>2, <1>3, <1>4, <1>5, <1>6, <1>7, <1>8 DEF SocketInv

\* The entries of the work list are well-formed.
LEMMA EntryTypes ==
  ASSUME ServerTypeOK, NEW i \in DOMAIN queue
  PROVE  /\ queue[i] \in Entries /\ i \in 1 .. Len(queue)
         /\ queue[i].fd \in Fds /\ queue[i].conn \in Conns \cup {NoConn}
<1>1. i \in 1 .. Len(queue)
  BY LenProperties DEF ServerTypeOK
<1>2. queue[i] \in Entries
  BY <1>1, ElementOfSeq DEF ServerTypeOK
<1> QED
  BY <1>1, <1>2 DEF Entries

\* A call is about the descriptor its thread works on.
LEMMA CallsStand ==
  ASSUME CallsAgree, NEW t \in Threads, call[t] # NoCall
  PROVE  /\ pos[t] \in {"adding", "deleting"}
         /\ call[t].fd = nfd[t] /\ call[t].event = "READ"
         /\ call[t].op = "del" => pos[t] = "deleting"
<1>1. CASE pos[t] = "adding"
  <2>1. call[t] = [op |-> "add", fd |-> nfd[t], event |-> "READ", mode |-> "cb"]
    BY <1>1 DEF CallsAgree
  <2> QED
    BY <1>1, <2>1
<1>2. CASE pos[t] = "deleting"
  <2>1. call[t] = [op |-> "del", fd |-> nfd[t], event |-> "READ"]
    BY <1>2 DEF CallsAgree
  <2> QED
    BY <1>2, <2>1
<1>3. CASE pos[t] \notin {"adding", "deleting"}
  BY <1>3 DEF CallsAgree
<1> QED
  BY <1>1, <1>2, <1>3

\* What is counted is finite.
LEMMA Counts ==
  ASSUME ServerTypeOK
  PROVE  /\ IsFiniteSet(Told) /\ Cardinality(Told) \in Nat
         /\ IsFiniteSet(Accepting) /\ Cardinality(Accepting) \in Nat
         /\ IsFiniteSet(Accepts(queue)) /\ Cardinality(Accepts(queue)) \in Nat
         /\ Len(backlog) \in Nat
<1>1. IsFiniteSet(Told) /\ IsFiniteSet(Accepting)
  <2>1. Told \in SUBSET Workers /\ Accepting \in SUBSET Workers
    BY DEF Told, Accepting
  <2> QED
    BY <2>1, ServerAssumption, FS_Subset DEF ServerAssumption
<1>2. IsFiniteSet(Accepts(queue))
  <2>1. /\ Len(queue) \in Nat /\ DOMAIN queue = 1 .. Len(queue)
    BY LenProperties DEF ServerTypeOK
  <2>2. IsFiniteSet(1 .. Len(queue))
    BY <2>1, FS_Interval
  <2>3. Accepts(queue) \in SUBSET (1 .. Len(queue))
    BY <2>1 DEF Accepts
  <2> QED
    BY <2>2, <2>3, FS_Subset
<1>3. Len(backlog) \in Nat
  BY LenProperties DEF ServerTypeOK
<1> QED
  BY <1>1, <1>2, <1>3, FS_CardinalityType

\* Everything is watched for reading only.
LEMMA EventsAreRead ==
  ASSUME ServerInv, NEW fd \in Fds
  PROVE  events[fd] \subseteq {"READ"} /\ interest[fd] = events[fd]
<1> USE DEF ServerInv, FdInv, SocketInv
<1>1. ASSUME NEW e \in Events, e \in events[fd] PROVE e = "READ"
  <2>1. CASE e \in owned[fd]
    BY <2>1 DEF OnlyRead
  <2>2. ASSUME NEW t \in Threads, call[t] = [op |-> "del", fd |-> fd, event |-> e]
        PROVE  e = "READ"
    <3>1. call[t] # NoCall /\ call[t].event = e
      BY <2>2 DEF NoCall
    <3> QED
      BY <3>1, CallsStand
  <2> QED
    BY <1>1, <2>1, <2>2 DEF Owned
<1> QED
  BY <1>1 DEF InterestAgrees, TypeOK

\* What epoll watches, unless a worker is deleting it, is owned.
LEMMA WatchedIsOwned ==
  ASSUME ServerInv, NEW fd \in Fds, interest[fd] # {},
         \A t \in Workers : ~(pos[t] = "deleting" /\ nfd[t] = fd)
  PROVE  "READ" \in owned[fd]
<1> USE FdAssumption, ServerAssumption DEF ServerInv, FdInv, SocketInv
<1>1. "READ" \in events[fd]
  BY EventsAreRead
<1>2. ASSUME NEW t \in Threads,
             call[t] = [op |-> "del", fd |-> fd, event |-> "READ"]
      PROVE  FALSE
  <2>1. pos[t] = "deleting" /\ nfd[t] = fd
    <3>1. call[t] # NoCall /\ call[t].op = "del" /\ call[t].fd = fd
      BY <1>2 DEF NoCall
    <3> QED
      BY <3>1, CallsStand
  <2>2. t \in Workers
    BY <2>1 DEF Booting, MainSteps, Threads
  <2> QED
    BY <2>1, <2>2
<1> QED
  BY <1>1, <1>2 DEF Owned, Events

\* A patient client waits for the reply: it is there to get it.
LEMMA ReplyEffect ==
  ASSUME ServerInv, NEW t \in Workers, Reply(t)
  PROVE  /\ pos[t] = "reply" /\ pos' = [pos EXCEPT ![t] = "asleep"]
         /\ peer[nfd[t]] \in Conns
         /\ stage' = [stage EXCEPT ![peer[nfd[t]]] = "answered"]
         /\ UNCHANGED <<vars, queue, nfd, for, backlog, peer, gone>>
<1> USE DEF ServerInv, SocketInv
<1>1. At(t, "reply") /\ nfd[t] \in Fds
  BY DEF Reply, ServerTypeOK, Threads
<1>2. peer[nfd[t]] \in Conns /\ stage[peer[nfd[t]]] = "read"
  BY <1>1 DEF At, AllWorkFits, WorkFits, Serving, ServerTypeOK
<1>3. ~Ended(peer[nfd[t]])
  BY <1>2 DEF Patient
<1>4. gone[peer[nfd[t]]] = "no"
  BY <1>3 DEF Ended
<1>5. stage' = [stage EXCEPT ![peer[nfd[t]]] = "answered"]
      /\ UNCHANGED <<vars, queue, nfd, for, backlog, peer, gone>>
      /\ pos' = [pos EXCEPT ![t] = "asleep"]
  BY <1>2, <1>3, <1>4 DEF Reply, Goto, AfterReply
<1> QED
  BY <1>1, <1>2, <1>5 DEF At

\* The rules of FdEvents: every step of the server is a step of a client that
\* keeps to them, of the kernel, or of a worker's dispatch, or leaves what
\* FdEvents is about alone.
LEMMA KeepsToTheRules ==
  ServerInv /\ [ServerNext]_allVars /\ Patient' => [Next]_vars
<1> SUFFICES ASSUME ServerInv, ServerNext, Patient' PROVE [Next]_vars
  BY DEF allVars
<1> USE FdAssumption, ServerAssumption
<1>m. Main \in Threads /\ Main \notin Workers /\ Workers \subseteq Threads
  BY DEF Threads
<1>i. SocketInv /\ FdInv
  BY DEF ServerInv
<1>1. ASSUME NEW fd \in Fds, Open(fd) PROVE Next
  BY <1>1 DEF Next
<1>2. CASE StartListening \/ \E t \in Workers : Accept(t)
  BY <1>1, <1>2 DEF StartListening, Accept
<1>3. CASE CreateIOManager \/ Setthis
           \/ \E t \in Workers : Take(t) \/ Idle(t) \/ ReportNothing(t) \/ Read(t)
  BY <1>3 DEF CreateIOManager, Setthis, Take, Idle, ReportNothing, Read
<1>r. ASSUME NEW t \in Workers, Reply(t) PROVE UNCHANGED vars
  BY <1>i, <1>r, ReplyEffect
<1>b. CASE Bind
  BY <1>b DEF Bind, Next
<1>4. ASSUME NEW t \in Threads, NEW fd \in Fds, NEW mode \in Modes,
             CallAdd(t, fd, "READ", mode)
      PROVE  Next
  BY <1>4 DEF Next, Events
<1>5. CASE WatchListen
  <2>1. BeginAdd(Main, Listen, "READ", "cb") /\ At(Main, "bound")
    BY <1>5 DEF WatchListen
  <2>2. Listen \in open /\ "READ" \notin owned[Listen] /\ Main \in t_scheduler
    BY <1>i, <2>1 DEF SocketInv, Booting, Bound, ServerInv, At
  <2>3. ASSUME NEW u \in Threads, call[u] # NoCall PROVE call[u].fd # Listen
    <3>1. pos[u] \in {"adding", "deleting"} /\ call[u].fd = nfd[u]
      BY <1>i, <2>3, CallsStand DEF SocketInv
    <3>2. u \in Workers
      BY <1>m, <2>1, <3>1 DEF Threads, At
    <3> QED
      BY <1>i, <3>1, <3>2 DEF SocketInv, AllWorkFits, WorkFits, Setup, Serving
  <2> QED
    BY <1>m, <1>4, <2>1, <2>2, <2>3 DEF CallAdd
<1>6. ASSUME NEW t \in Workers, WatchConn(t) PROVE Next
  <2>1. BeginAdd(t, nfd[t], "READ", "cb") /\ At(t, "watch")
    BY <1>6 DEF WatchConn
  <2>2. nfd[t] \in Fds /\ nfd[t] # Listen /\ peer[nfd[t]] # NoConn
    BY <1>i, <1>m, <2>1 DEF SocketInv, ServerTypeOK, AllWorkFits, WorkFits, Setup, At
  <2>3. nfd[t] \in open /\ "READ" \notin owned[nfd[t]] /\ t \in t_scheduler
    BY <1>i, <2>1, <2>2
    DEF SocketInv, OnePeer, AllWorkFits, WorkFits, Setup, At, FdInv, TypeOK
  <2>4. ASSUME NEW u \in Threads, call[u] # NoCall PROVE call[u].fd # nfd[t]
    <3>1. pos[u] \in {"adding", "deleting"} /\ call[u].fd = nfd[u]
      BY <1>i, <2>4, CallsStand DEF SocketInv
    <3>2. CASE u \in Workers
      BY <1>i, <2>1, <2>2, <3>1, <3>2
      DEF SocketInv, OneJobEach, OneJob, Has, Works, Setup, Serving, At
    <3>3. CASE u \notin Workers
      BY <1>i, <2>2, <3>1, <3>3 DEF SocketInv, Booting, Threads
    <3> QED
      BY <3>2, <3>3
  <2> QED
    BY <1>m, <1>4, <2>1, <2>2, <2>3, <2>4 DEF CallAdd
<1>7. CASE Watch(Main) \/ \E t \in Workers : Watch(t) \/ Delete(t)
  BY <1>m, <1>7 DEF Watch, Delete, Next
<1>8. ASSUME NEW fd \in Fds, NEW flag \in {"READ", "HUP"}, Arrive(fd, flag)
      PROVE  [Next]_vars
  BY <1>8 DEF Arrive, Next, Events
<1>s. ASSUME NEW c \in Conns, NEW flag \in {"READ", "HUP"}, Notify(c, flag)
      PROVE  [Next]_vars
  BY <1>8, <1>s DEF Notify
<1>9. ASSUME NEW c \in Conns,
             Connect(c) \/ Send(c) \/ \E how \in {"fin", "rst"} : Hangup(c, how)
      PROVE  [Next]_vars
  BY <1>8, <1>s, <1>9 DEF Connect, Send, Hangup
<1>10. ASSUME NEW t \in Workers, Report(t) \/ \E fd \in Fds : Schedule(t, fd)
       PROVE  Next
  BY <1>10 DEF Report, Schedule, Next
<1>11. ASSUME NEW t \in Workers, CallDelete(t) PROVE Next
  <2>1. nfd[t] \in Fds /\ "READ" \in owned[nfd[t]]
    BY <1>i, <1>m, <1>11 DEF SocketInv, ServerTypeOK, AllWorkFits, WorkFits, CallDelete, At
  <2> QED
    BY <1>m, <1>11, <2>1 DEF CallDelete, CallDel, Next, Events
<1>12. ASSUME NEW t \in Workers, CloseConn(t) PROVE Next
  <2>1. nfd[t] \in Fds /\ owned[nfd[t]] = {} /\ nfd[t] # Listen
    BY <1>i, <1>m, <1>12
    DEF SocketInv, ServerTypeOK, AllWorkFits, WorkFits, Serving, CloseConn, At
  <2>2. ASSUME NEW u \in Threads, call[u] # NoCall PROVE call[u].fd # nfd[t]
    <3>1. pos[u] \in {"adding", "deleting"} /\ call[u].fd = nfd[u]
      BY <1>i, <2>2, CallsStand DEF SocketInv
    <3>2. CASE u \in Workers
      BY <1>i, <1>12, <2>1, <3>1, <3>2
      DEF SocketInv, OneJobEach, OneJob, Has, Works, Setup, Serving, CloseConn, At
    <3>3. CASE u \notin Workers
      BY <1>i, <2>1, <3>1, <3>3 DEF SocketInv, Booting, Threads
    <3> QED
      BY <3>2, <3>3
  <2>3. nfd[t] \in open
    BY <1>i, <1>m, <1>12
    DEF SocketInv, OnePeer, AllWorkFits, WorkFits, Serving, CloseConn, At, ServerTypeOK
  <2> QED
    BY <1>12, <2>1, <2>2, <2>3 DEF CloseConn, Close, InCall, Next
<1> QED
  BY <1>2, <1>3, <1>r, <1>b, <1>5, <1>6, <1>7, <1>9, <1>10, <1>11, <1>12
  DEF ServerNext, Boot, Callback, IdleLoop

-----------------------------------------------------------------------------
(***************************************************************************)
(* SocketInv is inductive, one lemma for each kind of step.                *)
(***************************************************************************)

\* What a worker without a callback does: it starts, or goes to wait, or comes
\* back.
Rests(t) ==
  \/ pos'[t] = pos[t]
  \/ /\ pos[t] \in {"unborn", "loop", "wait"} /\ pos'[t] \in {"loop", "wait"}
     /\ pos'[t] = "wait" => batch[t] = EmptyBatch

\* Threads that start or wait: the main thread moves, workers rest, and the
\* listening descriptor may be opened and watched meanwhile.
LEMMA StartingKeeps ==
  ASSUME ServerInv, ServerTypeOK',
         \A t \in Workers : Rests(t),
         open \subseteq open',
         \A fd \in Fds \ {Listen} : owned'[fd] = owned[fd],
         owned[Listen] \subseteq owned'[Listen],
         UNCHANGED <<ready, batch, stuck, fate, queue, nfd, for, backlog, peer,
                     stage, gone>>
  PROVE  /\ (NothingStale /\ BatchInLoop /\ OnePeer /\ EdgesFit)'
         /\ (AllWorkFits /\ OneJobEach /\ EnoughToAccept)'
<1> USE FdAssumption, ServerAssumption DEF ServerInv, SocketInv
<1>1. \A t \in Workers :
        \/ pos'[t] = pos[t]
        \/ /\ pos[t] \notin Setup \cup Serving \cup {"accept"}
           /\ pos'[t] \notin Setup \cup Serving \cup {"accept"}
  BY DEF Rests, Setup, Serving
<1>2. NothingStale' /\ BatchInLoop' /\ OnePeer'
  <2>1. BatchInLoop'
    BY DEF Rests, BatchInLoop, At
  <2> QED
    BY <2>1 DEF NothingStale, OnePeer
<1>3. \A fd \in Fds : owned[fd] \subseteq owned'[fd] /\ Level(fd)' = Level(fd)
  BY DEF Level, Ended
<1>4. EdgesFit'
  BY <1>3, EntryTypes DEF EdgesFit, EdgeFits, EntryFits
<1>5. AllWorkFits'
  <2> SUFFICES ASSUME NEW t \in Workers PROVE WorkFits(t)'
    BY DEF AllWorkFits
  <2>1. CASE pos'[t] \notin Setup \cup Serving
    BY <2>1 DEF WorkFits, Setup, Serving
  <2>2. CASE pos'[t] \in Setup \cup Serving
    <3>1. pos'[t] = pos[t] /\ nfd[t] \in Fds /\ nfd[t] # Listen
      BY <1>1, <2>2 DEF ServerTypeOK, AllWorkFits, WorkFits, Threads
    <3>2. owned'[nfd[t]] = owned[nfd[t]] /\ Level(nfd[t])' = Level(nfd[t])
      BY <1>3, <3>1
    <3> QED
      BY <3>1, <3>2 DEF AllWorkFits, WorkFits, Ended
  <2> QED
    BY <2>1, <2>2
<1>6. OneJobEach'
  BY <1>1 DEF OneJobEach, OneJob, Has, Works
<1>7. EnoughToAccept'
  <2>1. Accepting' = Accepting
    BY <1>1 DEF Accepting, At
  <2>2. Told' = Told /\ EdgeCount' = EdgeCount /\ Accepts(queue)' = Accepts(queue)
    BY <1>1 DEF Told, EdgeCount, Accepts
  <2> QED
    BY <1>1, <2>1, <2>2 DEF EnoughToAccept
<1> QED
  BY <1>2, <1>4, <1>5, <1>6, <1>7

\* A worker whose descriptor, client and event are left alone.
LEMMA OtherWork ==
  ASSUME ServerInv, NEW u \in Workers,
         pos'[u] = pos[u], nfd'[u] = nfd[u], for'[u] = for[u],
         pos[u] \in Setup \cup Serving =>
           /\ peer'[nfd[u]] = peer[nfd[u]]
           /\ owned'[nfd[u]] = owned[nfd[u]]
           /\ stage'[peer[nfd[u]]] = stage[peer[nfd[u]]]
           /\ gone'[peer[nfd[u]]] = gone[peer[nfd[u]]]
  PROVE  WorkFits(u)'
<1>1. WorkFits(u)
  BY DEF ServerInv, SocketInv, AllWorkFits
<1>2. CASE pos[u] \in Setup \cup Serving
  <2>1. Level(nfd[u])' = Level(nfd[u])
    BY <1>1, <1>2 DEF WorkFits, Level, Ended
  <2> QED
    BY <1>1, <1>2, <2>1 DEF WorkFits, Ended
<1>3. CASE pos[u] \notin Setup \cup Serving
  BY <1>3 DEF WorkFits, Setup, Serving
<1> QED
  BY <1>2, <1>3

\* The constructor of Socket, and the workers while they wait.
LEMMA BootKeeps ==
  ASSUME ServerInv, Boot \/ \E t \in Workers : Idle(t) \/ ReportNothing(t)
  PROVE  SocketInv'
<1> USE FdAssumption, ServerAssumption DEF ServerInv, SocketInv
<1>m. /\ Main \in Threads /\ Main \notin Workers /\ Workers \subseteq Threads
      /\ nfd[Main] = Listen /\ Listen \in Fds
  BY DEF Threads, Booting
<1>s. ASSUME ServerTypeOK', (OnlyRead /\ Booting /\ CallsAgree)',
             \A t \in Workers : Rests(t),
             open \subseteq open',
             \A fd \in Fds \ {Listen} : owned'[fd] = owned[fd],
             owned[Listen] \subseteq owned'[Listen],
             UNCHANGED <<ready, batch, stuck, fate, queue, nfd, for, backlog,
                         peer, stage, gone>>
      PROVE  SocketInv'
  BY <1>s, StartingKeeps
<1>1. CASE StartListening
  <2>1. /\ pos[Main] = "boot" /\ pos' = [pos EXCEPT ![Main] = "listening"]
        /\ open' = open \cup {Listen}
        /\ UNCHANGED <<ready, batch, stuck, fate, queue, nfd, for, backlog,
                       peer, stage, gone, owned, call>>
    BY <1>1 DEF StartListening, Open, Goto, At
  <2>2. ServerTypeOK'
    BY <1>m, <2>1 DEF ServerTypeOK, MainSteps
  <2>3. OnlyRead' /\ Booting'
    BY <1>m, <2>1 DEF OnlyRead, Booting, MainSteps, ServerTypeOK
  <2>4. CallsAgree'
    BY <1>m, <2>1 DEF CallsAgree, ServerTypeOK
  <2>5. \A t \in Workers : Rests(t)
    BY <1>m, <2>1 DEF Rests, ServerTypeOK
  <2> QED
    BY <1>s, <1>m, <2>1, <2>2, <2>3, <2>4, <2>5
<1>2. CASE CreateIOManager
  <2>1. /\ pos[Main] = "listening"
        /\ pos' = [t \in Threads |-> IF t \in Workers THEN "loop" ELSE "started"]
        /\ UNCHANGED <<open, ready, batch, stuck, fate, queue, nfd, for, backlog,
                       peer, stage, gone, owned, call>>
    BY <1>2 DEF CreateIOManager, vars, At
  <2>2. ServerTypeOK'
    BY <1>m, <2>1 DEF ServerTypeOK, MainSteps, WorkerSteps
  <2>3. OnlyRead' /\ Booting'
    BY <1>m, <2>1 DEF OnlyRead, Booting, MainSteps
  <2>4. \A t \in Workers : Rests(t)
    BY <1>m, <2>1 DEF Booting, Rests
  <2>5. CallsAgree'
    BY <1>m, <2>1 DEF CallsAgree, Threads, Booting
  <2> QED
    BY <1>s, <1>m, <2>1, <2>2, <2>3, <2>4, <2>5
<1>3. ASSUME NEW t \in Workers, Idle(t) \/ ReportNothing(t) PROVE SocketInv'
  <2>1. PICK p \in {"loop", "wait"} :
          /\ pos[t] \in {"loop", "wait"} /\ pos' = [pos EXCEPT ![t] = p]
          /\ p = "wait" => batch[t] = EmptyBatch
          /\ UNCHANGED <<open, ready, batch, stuck, fate, queue, nfd, for,
                         backlog, peer, stage, gone, owned, call>>
    BY <1>3 DEF Idle, ReportNothing, vars, Goto, At, Free
  <2>2. ServerTypeOK'
    BY <1>m, <2>1 DEF ServerTypeOK, WorkerSteps
  <2>3. OnlyRead' /\ Booting'
    BY <1>m, <2>1 DEF OnlyRead, Booting, MainSteps, ServerTypeOK
  <2>4. CallsAgree'
    BY <1>m, <2>1 DEF CallsAgree, ServerTypeOK
  <2>5. \A u \in Workers : Rests(u)
    BY <1>m, <2>1 DEF Rests, ServerTypeOK
  <2> QED
    BY <1>s, <2>1, <2>2, <2>3, <2>4, <2>5
<1>b. CASE Bind
  <2>1. /\ pos[Main] = "started" /\ pos' = [pos EXCEPT ![Main] = "bound"]
        /\ UNCHANGED <<open, ready, batch, stuck, fate, queue, nfd, for, backlog,
                       peer, stage, gone, owned, call>>
    BY <1>b DEF Bind, SetThis, Goto, At
  <2>2. ServerTypeOK'
    BY <1>m, <2>1 DEF ServerTypeOK, MainSteps
  <2>3. OnlyRead' /\ Booting'
    BY <1>m, <2>1 DEF OnlyRead, Booting, MainSteps, ServerTypeOK
  <2>4. CallsAgree'
    BY <1>m, <2>1 DEF CallsAgree, ServerTypeOK
  <2>5. \A t \in Workers : Rests(t)
    BY <1>m, <2>1 DEF Rests, ServerTypeOK
  <2> QED
    BY <1>s, <2>1, <2>2, <2>3, <2>4, <2>5
<1>4. CASE WatchListen
  <2>1. /\ pos[Main] = "bound" /\ pos' = [pos EXCEPT ![Main] = "adding"]
        /\ nfd' = [nfd EXCEPT ![Main] = Listen]
        /\ call' = [call EXCEPT ![Main] =
             [op |-> "add", fd |-> Listen, event |-> "READ", mode |-> "cb"]]
        /\ UNCHANGED <<open, ready, batch, stuck, fate, queue, for, backlog,
                       peer, stage, gone, owned>>
    BY <1>4 DEF WatchListen, BeginAdd, Goto, At
  <2>2. nfd' = nfd
    BY <1>m, <2>1 DEF ServerTypeOK
  <2>3. ServerTypeOK'
    BY <1>m, <2>1, <2>2 DEF ServerTypeOK, MainSteps
  <2>4. OnlyRead' /\ Booting'
    BY <1>m, <2>1, <2>2 DEF OnlyRead, Booting, MainSteps, ServerTypeOK
  <2>5. CallsAgree'
    BY <1>m, <2>1, <2>2 DEF CallsAgree, ServerTypeOK, FdInv, TypeOK
  <2>6. \A t \in Workers : Rests(t)
    BY <1>m, <2>1 DEF Rests, ServerTypeOK
  <2> QED
    BY <1>s, <1>m, <2>1, <2>2, <2>3, <2>4, <2>5, <2>6
<1>5. CASE Watch(Main)
  <2>1. /\ pos[Main] = "adding" /\ pos' = [pos EXCEPT ![Main] = "publish"]
        /\ AddEvent(Main) /\ UNCHANGED <<queue, nfd, for, backlog, peer, stage, gone>>
        /\ fate' = "ok" => ready' = [ready EXCEPT ![Listen] =
                               IF Level(Listen) THEN {"READ"} ELSE @]
    BY <1>5, <1>m DEF Watch, Goto, At, AfterWatch
  <2>2. /\ call[Main] # NoCall /\ call[Main].fd = Listen
        /\ call[Main].event = "READ"
    <3>1. call[Main] =
            [op |-> "add", fd |-> Listen, event |-> "READ", mode |-> "cb"]
      BY <1>m, <2>1 DEF CallsAgree
    <3> QED
      BY <3>1 DEF NoCall
  <2>3. /\ owned' = [owned EXCEPT ![Listen] = @ \cup {"READ"}]
        /\ call' = [call EXCEPT ![Main] = NoCall]
        /\ UNCHANGED <<fate, open, stuck, batch>>
    BY <1>m, <2>1, <2>2, AddEventSucceeds
  <2>4. ready' = ready
    <3>1. ~Level(Listen)
      BY <2>1 DEF Level, Booting
    <3>2. fate' = "ok"
      BY <2>1, <2>3 DEF AddEvent
    <3> QED
      BY <2>1, <3>1, <3>2 DEF FdInv, TypeOK
  <2>5. ServerTypeOK'
    BY <1>m, <2>1 DEF ServerTypeOK, MainSteps
  <2>6. OnlyRead' /\ Booting'
    <3>1. /\ "READ" \in owned'[Listen]
          /\ \A fd \in Fds : owned'[fd] \subseteq {"READ"}
      BY <1>m, <2>3 DEF OnlyRead, FdInv, TypeOK
    <3>2. OnlyRead'
      BY <2>3, <2>4, <3>1 DEF OnlyRead
    <3>3. pos'[Main] = "publish" /\ \A t \in Workers : pos'[t] = pos[t]
      BY <1>m, <2>1 DEF ServerTypeOK
    <3> QED
      BY <1>m, <2>1, <2>3, <3>1, <3>2, <3>3 DEF Booting, MainSteps
  <2>7. CallsAgree'
    BY <1>m, <2>1, <2>3 DEF CallsAgree, ServerTypeOK, FdInv, TypeOK
  <2>8. /\ \A fd \in Fds \ {Listen} : owned'[fd] = owned[fd]
        /\ owned[Listen] \subseteq owned'[Listen]
    BY <1>m, <2>3 DEF FdInv, TypeOK
  <2>9. \A t \in Workers : Rests(t)
    BY <1>m, <2>1 DEF Rests, ServerTypeOK
  <2> QED
    BY <1>s, <2>1, <2>3, <2>4, <2>5, <2>6, <2>7, <2>8, <2>9
<1>6. CASE Setthis
  <2>1. /\ pos[Main] = "publish" /\ pos' = [pos EXCEPT ![Main] = "loop"]
        /\ UNCHANGED <<open, ready, batch, stuck, fate, queue, nfd, for, backlog,
                       peer, stage, gone, owned, call>>
    BY <1>6 DEF Setthis, vars, Goto, At
  <2>2. ServerTypeOK'
    BY <1>m, <2>1 DEF ServerTypeOK, MainSteps
  <2>3. OnlyRead' /\ Booting'
    BY <1>m, <2>1 DEF OnlyRead, Booting, MainSteps, ServerTypeOK
  <2>4. CallsAgree'
    BY <1>m, <2>1 DEF CallsAgree, ServerTypeOK
  <2>5. \A t \in Workers : Rests(t)
    BY <1>m, <2>1 DEF Rests, ServerTypeOK
  <2> QED
    BY <1>s, <1>m, <2>1, <2>2, <2>3, <2>4, <2>5
<1> QED
  BY <1>1, <1>2, <1>3, <1>b, <1>4, <1>5, <1>6 DEF Boot

\* What arrives makes at most one edge, on a watched descriptor.
LEMMA ArriveEffect ==
  ASSUME NEW fd \in Fds, NEW flag, Arrive(fd, flag)
  PROVE  /\ UNCHANGED <<open, stuck, call, batch, fate, owned>>
         /\ \/ ready' = ready
            \/ /\ interest[fd] # {}
               /\ ready' = [ready EXCEPT ![fd] = @ \cup {flag}]
BY DEF Arrive, Edge, vars

\* A client connects: one more connection in the backlog, one more edge at
\* most.
LEMMA ConnectKeeps ==
  ASSUME ServerInv, NEW c \in Conns, Connect(c)
  PROVE  SocketInv'
<1> USE FdAssumption, ServerAssumption DEF ServerInv, SocketInv
<1>1. /\ pos[Main] = "loop" /\ stage[c] = "new"
      /\ stage' = [stage EXCEPT ![c] = "connected"]
      /\ backlog' = Append(backlog, c)
      /\ UNCHANGED <<queue, pos, nfd, for, peer, gone>>
      /\ UNCHANGED <<open, stuck, call, batch, fate, owned>>
      /\ \/ ready' = ready
         \/ /\ interest[Listen] # {}
            /\ ready' = [ready EXCEPT ![Listen] = @ \cup {"READ"}]
  BY ArriveEffect DEF Connect, At
<1>2. \A fd \in Fds : peer[fd] # c
  BY <1>1 DEF OnePeer
<1>3. /\ backlog \in Seq(Conns) /\ Len(backlog) \in Nat
      /\ DOMAIN backlog = 1 .. Len(backlog)
      /\ backlog' \in Seq(Conns) /\ Len(backlog') = Len(backlog) + 1
      /\ DOMAIN backlog' = 1 .. Len(backlog) + 1
      /\ \A i \in 1 .. Len(backlog) : backlog'[i] = backlog[i] /\ backlog[i] \in Conns
      /\ backlog'[Len(backlog) + 1] = c
  BY <1>1, AppendProperties, LenProperties, ElementOfSeq DEF ServerTypeOK
<1>4. \A fd \in Fds \ {Listen} : ready'[fd] = ready[fd] /\ Level(fd)' = Level(fd)
  BY <1>1, <1>2 DEF Level, Ended, ServerTypeOK, FdInv, TypeOK
<1>5. ServerTypeOK'
  BY <1>1, <1>3 DEF ServerTypeOK, Stages
<1>6. NothingStale' /\ BatchInLoop' /\ CallsAgree'
  BY <1>1 DEF NothingStale, BatchInLoop, CallsAgree, At
<1>7. OnlyRead' /\ Booting'
  BY <1>1, <1>4 DEF OnlyRead, Booting, FdInv, TypeOK
<1>8. OnePeer'
  <2>1. \A i \in 1 .. Len(backlog) : backlog[i] # c
    BY <1>1, <1>3 DEF OnePeer
  <2>2. \A fd \in Fds : peer'[fd] # NoConn =>
          fd \in open' /\ stage'[peer'[fd]] # "new"
    BY <1>1, <1>2 DEF OnePeer, ServerTypeOK
  <2>3. \A fd, d \in Fds : peer'[fd] = peer'[d] /\ peer'[fd] # NoConn => fd = d
    BY <1>1 DEF OnePeer
  <2>4. ASSUME NEW i \in DOMAIN backlog'
        PROVE  /\ stage'[backlog'[i]] \in {"connected", "sent"}
               /\ \A fd \in Fds : peer'[fd] # backlog'[i]
               /\ \A j \in DOMAIN backlog' : backlog'[i] = backlog'[j] => i = j
    <3>1. CASE i = Len(backlog) + 1
      BY <1>1, <1>2, <1>3, <2>1, <3>1 DEF ServerTypeOK
    <3>2. CASE i \in 1 .. Len(backlog)
      BY <1>1, <1>3, <2>1, <3>2 DEF ServerTypeOK, OnePeer
    <3> QED
      BY <1>3, <3>1, <3>2
  <2> QED
    BY <2>2, <2>3, <2>4 DEF OnePeer
<1>9. ready'[Listen] # {} => "READ" \in owned[Listen]
  <2>1. CASE ready' = ready
    BY <2>1 DEF EdgesFit, EdgeFits
  <2>2. CASE interest[Listen] # {}
    <3>1. \A t \in Workers : ~(pos[t] = "deleting" /\ nfd[t] = Listen)
      BY DEF AllWorkFits, WorkFits, Serving
    <3> QED
      BY <2>2, <3>1, WatchedIsOwned
  <2> QED
    BY <1>1, <2>1, <2>2
<1>10. EdgesFit'
  BY <1>1, <1>4, <1>9, EntryTypes DEF EdgesFit, EdgeFits, EntryFits
<1>11. AllWorkFits'
  <2> SUFFICES ASSUME NEW t \in Workers PROVE WorkFits(t)'
    BY DEF AllWorkFits
  <2>1. nfd[t] \in Fds
    BY DEF ServerTypeOK, Threads
  <2>4. Ended(peer[nfd[t]])' = Ended(peer[nfd[t]])
    BY <1>1 DEF Ended
  <2>2. pos[t] \in Setup \cup Serving => Level(nfd[t])' = Level(nfd[t])
    BY <1>1, <1>4, <2>1 DEF AllWorkFits, WorkFits
  <2>3. peer[nfd[t]] # NoConn => stage'[peer[nfd[t]]] = stage[peer[nfd[t]]]
    BY <1>1, <1>2, <2>1 DEF ServerTypeOK
  <2> QED
    BY <1>1, <2>2, <2>3, <2>4 DEF AllWorkFits, WorkFits, Setup, Serving
<1>12. OneJobEach'
  BY <1>1, <1>4 DEF OneJobEach, OneJob, Has, Works
<1>13. EnoughToAccept'
  <2>1. /\ Accepting' = Accepting /\ Told' = Told
        /\ Accepts(queue)' = Accepts(queue)
    BY <1>1 DEF Accepting, Told, Accepts, At
  <2>2. EdgeCount \in 0 .. 1 /\ EdgeCount' \in 0 .. 1
        /\ (EdgeCount' = EdgeCount \/ EdgeCount = 0)
    BY <1>1 DEF EdgeCount, FdInv, TypeOK
  <2> QED
    BY <1>3, <2>1, <2>2, Counts DEF EnoughToAccept
<1> QED
  BY <1>5, <1>6, <1>7, <1>8, <1>10, <1>11, <1>12, <1>13

\* A client sends its request or closes: no edge, callback or worker of its
\* descriptor is in the middle of anything then.
LEMMA ClientKeeps ==
  ASSUME ServerInv, Patient', NEW c \in Conns,
         Send(c) \/ \E how \in {"fin", "rst"} : Hangup(c, how)
  PROVE  SocketInv'
<1> USE FdAssumption, ServerAssumption DEF ServerInv, SocketInv
<1>1. PICK flag \in {"READ", "HUP"} :
        /\ Notify(c, flag)
        /\ stage[c] \in {"connected", "answered"} /\ ~Ended(c)
        /\ stage'[c] \in {"connected", "answered", "sent"}
        /\ stage'[c] = "sent" => stage[c] = "connected"
        /\ stage'[c] # "sent" => stage'[c] = stage[c]
        /\ stage'[c] = "sent" \/ Ended(c)'
        /\ stage' \in [Conns -> Stages] /\ gone' \in [Conns -> Ways]
        /\ \A d \in Conns \ {c} : stage'[d] = stage[d] /\ gone'[d] = gone[d]
        /\ UNCHANGED <<queue, pos, nfd, for, backlog, peer>>
  <2>1. CASE Send(c)
    BY <2>1 DEF Send, ServerTypeOK, Stages
  <2>2. ASSUME NEW how \in {"fin", "rst"}, Hangup(c, how)
        PROVE  /\ Notify(c, IF how = "fin" THEN "READ" ELSE "HUP")
               /\ ~Ended(c) /\ Ended(c)' /\ stage' = stage
               /\ stage[c] \in {"connected", "answered"}
               /\ gone' \in [Conns -> Ways]
               /\ \A d \in Conns \ {c} : gone'[d] = gone[d]
               /\ UNCHANGED <<queue, pos, nfd, for, backlog, peer>>
    <3>1. gone' = [gone EXCEPT ![c] = how] /\ stage' = stage
      BY <2>2 DEF Hangup
    <3>2. Ended(c)'
      BY <3>1 DEF Ended, ServerTypeOK
    <3>3. stage[c] \in {"connected", "answered"}
      BY <3>1, <3>2 DEF Patient
    <3> QED
      BY <2>2, <3>1, <3>2, <3>3 DEF Hangup, ServerTypeOK, Ways
  <2> QED
    BY <2>1, <2>2 DEF ServerTypeOK
<1>2. \A fd \in Fds : peer[fd] = c => ~Level(fd) /\ fd # Listen /\ Level(fd)'
  BY <1>1 DEF Level, Booting, ServerTypeOK, Ended
<1>3. PICK fd0 \in Fds :
        /\ UNCHANGED <<open, stuck, call, batch, fate, owned>>
        /\ \/ ready' = ready
           \/ /\ peer[fd0] = c /\ interest[fd0] # {}
              /\ ready' = [ready EXCEPT ![fd0] = @ \cup {flag}]
  <2>1. CASE Accepted(c)
    BY <1>1, <2>1, ArriveEffect DEF Notify, Accepted
  <2>2. CASE ~Accepted(c)
    BY <1>1, <2>2 DEF Notify, vars
  <2> QED
    BY <2>1, <2>2
<1>4. /\ \A fd \in Fds : peer[fd] \notin {c, NoConn} =>
           /\ stage'[peer[fd]] = stage[peer[fd]]
           /\ Ended(peer[fd])' = Ended(peer[fd])
      /\ \A fd \in Fds : fd # Listen /\ Level(fd) => Level(fd)' /\ peer[fd] # c
  <2>1. ASSUME NEW fd \in Fds, peer[fd] \notin {c, NoConn}
        PROVE  /\ stage'[peer[fd]] = stage[peer[fd]]
               /\ Ended(peer[fd])' = Ended(peer[fd])
    <3>1. peer[fd] \in Conns \ {c}
      BY <2>1 DEF ServerTypeOK
    <3>2. stage'[peer[fd]] = stage[peer[fd]] /\ gone'[peer[fd]] = gone[peer[fd]]
      BY <1>1, <3>1
    <3>3. peer'[fd] = peer[fd]
      BY <1>1
    <3> QED
      BY <3>2, <3>3 DEF Ended
  <2>2. ASSUME NEW fd \in Fds, fd # Listen, Level(fd)
        PROVE  Level(fd)' /\ peer[fd] # c
    <3>1. peer[fd] \notin {c, NoConn}
      BY <1>2, <2>2 DEF Level
    <3> QED
      BY <1>1, <2>1, <2>2, <3>1 DEF Level
  <2> QED
    BY <2>1, <2>2
<1>5. ASSUME ready' # ready
      PROVE  /\ peer[fd0] = c /\ fd0 # Listen /\ Level(fd0)'
             /\ "READ" \in owned[fd0]
             /\ ready[fd0] = {} /\ ready' = [ready EXCEPT ![fd0] = {flag}]
             /\ \A t \in Workers : ~Has(t, fd0)
             /\ \A i \in DOMAIN queue : queue[i].fd # fd0
  <2>1. /\ peer[fd0] = c /\ interest[fd0] # {}
        /\ ready' = [ready EXCEPT ![fd0] = @ \cup {flag}]
    BY <1>3, <1>5
  <2>2. fd0 # Listen /\ ~Level(fd0) /\ Level(fd0)'
    BY <1>2, <2>1
  <2>3. \A t \in Workers : Works(t, fd0) => pos[t] \in Setup
    BY <1>1, <2>1, <2>2 DEF Works, AllWorkFits, WorkFits, Serving
  <2>4. "READ" \in owned[fd0]
    BY <2>1, <2>3, WatchedIsOwned DEF Works, Setup, Serving
  <2>5. \A t \in Workers : ~Works(t, fd0)
    BY <2>3, <2>4 DEF Works, AllWorkFits, WorkFits
  <2>6. ready[fd0] = {} /\ \A t \in Workers : batch[t][fd0] = {}
    BY <2>2 DEF EdgesFit, EdgeFits
  <2>7. \A i \in DOMAIN queue : queue[i].fd # fd0
    BY <2>2 DEF EdgesFit, EntryFits
  <2>8. ready' = [ready EXCEPT ![fd0] = {flag}]
    BY <2>1, <2>6
  <2> QED
    BY <2>1, <2>2, <2>4, <2>5, <2>6, <2>7, <2>8 DEF Has
<1>6. \A fd \in Fds : ready'[fd] = ready[fd] \/ (ready'[fd] = {flag} /\ fd = fd0)
  BY <1>5 DEF FdInv, TypeOK
<1>7. ServerTypeOK'
  BY <1>1 DEF ServerTypeOK
<1>8. NothingStale' /\ BatchInLoop' /\ CallsAgree'
  BY <1>1, <1>3 DEF NothingStale, BatchInLoop, CallsAgree, At
<1>9. OnlyRead' /\ Booting'
  BY <1>1, <1>3, <1>6 DEF OnlyRead, Booting
<1>10. OnePeer'
  <2>1. ASSUME NEW i \in DOMAIN backlog
        PROVE  stage'[backlog[i]] \in {"connected", "sent"}
    <3>1. backlog[i] \in Conns
      BY LenProperties, ElementOfSeq DEF ServerTypeOK
    <3> QED
      BY <1>1, <3>1 DEF OnePeer, ServerTypeOK
  <2>2. \A fd \in Fds : peer[fd] # NoConn => stage'[peer[fd]] # "new"
    BY <1>1, <1>4, <1>2 DEF OnePeer, ServerTypeOK
  <2> QED
    BY <1>1, <1>3, <2>1, <2>2 DEF OnePeer
<1>11. EdgesFit'
  <2>1. ASSUME NEW fd \in Fds PROVE EdgeFits(fd)'
    <3>1. ready'[fd] # {} => "READ" \in owned[fd] /\ (fd # Listen => Level(fd)')
      <4>1. CASE ready'[fd] = ready[fd]
        BY <1>4, <4>1 DEF EdgesFit, EdgeFits
      <4>2. CASE ready'[fd] # ready[fd]
        BY <1>5, <1>6, <4>2
      <4> QED
        BY <4>1, <4>2
    <3> QED
      BY <1>3, <1>4, <3>1 DEF EdgesFit, EdgeFits
  <2>2. ASSUME NEW i \in DOMAIN queue PROVE EntryFits(queue[i])'
    BY <1>1, <1>3, <1>4, EntryTypes DEF EdgesFit, EntryFits
  <2> QED
    BY <1>1, <2>1, <2>2 DEF EdgesFit
<1>12. AllWorkFits'
  <2> SUFFICES ASSUME NEW t \in Workers PROVE WorkFits(t)'
    BY DEF AllWorkFits
  <2>1. nfd[t] \in Fds
    BY DEF ServerTypeOK, Threads
  <2>2. CASE peer[nfd[t]] = c
    BY <1>1, <1>2, <1>3, <2>1, <2>2
    DEF AllWorkFits, WorkFits, Setup, Serving
  <2>3. CASE peer[nfd[t]] # c
    BY <1>1, <1>3, <1>4, <2>1, <2>3
    DEF AllWorkFits, WorkFits, Setup, Serving
  <2> QED
    BY <2>2, <2>3
<1>13. OneJobEach'
  <2> SUFFICES ASSUME NEW fd \in Fds \ {Listen} PROVE OneJob(fd)'
    BY DEF OneJobEach
  <2>1. \A t \in Workers : Has(t, fd)' <=> Has(t, fd)
    BY <1>1, <1>3 DEF Has, Works
  <2>2. CASE ready'[fd] = ready[fd]
    BY <1>1, <2>1, <2>2 DEF OneJobEach, OneJob
  <2>3. CASE ready'[fd] # ready[fd]
    BY <1>1, <1>5, <1>6, <2>1, <2>3 DEF OneJob
  <2> QED
    BY <2>2, <2>3
<1>14. EnoughToAccept'
  <2>1. /\ Accepting' = Accepting /\ Told' = Told
        /\ Accepts(queue)' = Accepts(queue)
    BY <1>1, <1>3 DEF Accepting, Told, Accepts, At
  <2>2. ready'[Listen] = ready[Listen]
    BY <1>5, <1>6
  <2> QED
    BY <1>1, <2>1, <2>2 DEF EnoughToAccept, EdgeCount
<1> QED
  BY <1>7, <1>8, <1>9, <1>10, <1>11, <1>12, <1>13, <1>14

\* epoll_wait: every edge moves to the batch of one worker, which had none.
LEMMA ReportKeeps ==
  ASSUME ServerInv, NEW t \in Workers, Report(t)
  PROVE  SocketInv'
<1> USE FdAssumption, ServerAssumption DEF ServerInv, SocketInv
<1>m. t \in Threads /\ t # Main /\ Workers \subseteq Threads
  BY DEF Threads
<1>1. /\ pos[t] = "wait" /\ batch[t] = EmptyBatch
      /\ batch' = [batch EXCEPT ![t] = ready] /\ ready' = EmptyBatch
      /\ UNCHANGED <<queue, nfd, for, backlog, peer, stage, gone>>
      /\ UNCHANGED <<open, call, stuck, fate, owned>>
      /\ pos' = [pos EXCEPT ![t] = "loop"]
  BY DEF Report, EpollWait, Free, At, Goto
<1>p. pos'[t] = "loop" /\ \A u \in Threads \ {t} : pos'[u] = pos[u]
  BY <1>m, <1>1 DEF ServerTypeOK
<1>2. /\ \A fd \in Fds : ready'[fd] = {} /\ batch[t][fd] = {}
      /\ \A fd \in Fds, u \in Workers :
           batch'[u][fd] = IF u = t THEN ready[fd] ELSE batch[u][fd]
  BY <1>1 DEF EmptyBatch, FdInv, TypeOK
<1>3. ServerTypeOK' /\ NothingStale' /\ Booting' /\ OnePeer' /\ CallsAgree'
  <2>1. ServerTypeOK'
    BY <1>m, <1>1 DEF ServerTypeOK, WorkerSteps
  <2>2. Booting'
    BY <1>m, <1>1, <1>p DEF Booting, Threads
  <2>3. CallsAgree'
    BY <1>1, <1>p DEF CallsAgree
  <2> QED
    BY <1>1, <2>1, <2>2, <2>3 DEF NothingStale, OnePeer
<1>4. OnlyRead'
  BY <1>1, <1>2 DEF OnlyRead
<1>5. BatchInLoop'
  BY <1>1, <1>p, <1>m DEF BatchInLoop, At, FdInv, TypeOK
<1>6. EdgesFit'
  <2>1. \A fd \in Fds : Level(fd)' = Level(fd)
    BY <1>1 DEF Level, Ended
  <2> QED
    BY <1>1, <1>2, <2>1, EntryTypes DEF EdgesFit, EdgeFits, EntryFits
<1>7. AllWorkFits'
  <2>1. ASSUME NEW u \in Workers PROVE WorkFits(u)'
    <3>1. CASE u = t
      BY <1>p, <3>1 DEF WorkFits, Setup, Serving
    <3>2. CASE u # t
      BY <1>1, <1>p, <1>m, <3>2, OtherWork
    <3> QED
      BY <3>1, <3>2
  <2> QED
    BY <2>1 DEF AllWorkFits
<1>8. OneJobEach'
  <2> SUFFICES ASSUME NEW fd \in Fds \ {Listen} PROVE OneJob(fd)'
    BY DEF OneJobEach
  <2>1. \A u \in Workers : Works(u, fd)' <=> Works(u, fd)
    BY <1>1, <1>p, <1>m DEF Works, Setup, Serving
  <2>2. ~Works(t, fd)
    BY <1>1 DEF Works, Setup, Serving
  <2> QED
    BY <1>1, <1>2, <2>1, <2>2 DEF OneJobEach, OneJob, Has
<1>9. EnoughToAccept'
  <2>1. /\ Accepting' = Accepting /\ Accepts(queue)' = Accepts(queue)
        /\ backlog' = backlog
    BY <1>1, <1>p, <1>m DEF Accepting, Accepts, At
  <2>2. Cardinality(Told') + EdgeCount' <= Cardinality(Told) + EdgeCount
    <3>1. t \notin Told
      BY <1>2 DEF Told
    <3>2. EdgeCount' = 0
      BY <1>2 DEF EdgeCount
    <3>3. CASE ready[Listen] = {}
      <4>1. Told' = Told
        BY <1>2, <3>3 DEF Told
      <4> QED
        BY <3>2, <3>3, <4>1, Counts DEF EdgeCount
    <3>4. CASE ready[Listen] # {}
      <4>1. Told' = Told \cup {t}
        BY <1>2, <3>4 DEF Told
      <4>2. Cardinality(Told \cup {t}) = Cardinality(Told) + 1
        BY <3>1, Counts, FS_AddElement
      <4> QED
        BY <3>2, <3>4, <4>1, <4>2, Counts DEF EdgeCount
    <3> QED
      BY <3>3, <3>4
  <2>3. IsFiniteSet(Told') /\ Cardinality(Told') \in Nat
    <3>1. Told' \in SUBSET Workers
      BY DEF Told
    <3> QED
      BY <3>1, FS_Subset, FS_CardinalityType
  <2>4. EdgeCount \in 0 .. 1 /\ EdgeCount' \in 0 .. 1
    BY DEF EdgeCount
  <2> QED
    BY <2>1, <2>2, <2>3, <2>4, Counts DEF EnoughToAccept
<1> QED
  BY <1>3, <1>4, <1>5, <1>6, <1>7, <1>8, <1>9

\* The dispatch of one event: it is still in the context, so its callback
\* goes into the work list, and nothing else happens.
LEMMA ScheduleEffect ==
  ASSUME ServerInv, NEW t \in Workers, NEW fd \in Fds, Schedule(t, fd)
  PROVE  /\ pos[t] = "loop" /\ batch[t][fd] # {}
         /\ queue' = Append(queue, [fd |-> fd, conn |-> peer[fd]])
         /\ batch' = [batch EXCEPT ![t][fd] = {}]
         /\ UNCHANGED <<pos, nfd, for, backlog, peer, stage, gone>>
         /\ UNCHANGED <<open, ready, call, stuck, fate, owned>>
<1> USE FdAssumption, ServerAssumption DEF ServerInv, SocketInv
<1>1. /\ batch[t][fd] # {} /\ batch[t][fd] \subseteq {"READ", "HUP"}
      /\ "READ" \in owned[fd]
  BY DEF Schedule, Dispatch, OnlyRead, EdgesFit, EdgeFits
<1>2. events[fd] = {"READ"} /\ ctx[fd]["READ"] # "empty"
  <2>1. "READ" \in events[fd] /\ ctx[fd]["READ"] # "empty"
    BY <1>1 DEF FdInv, Owned, ContextAgrees, Events
  <2> QED
    BY <2>1, EventsAreRead
<1>3. Real(fd, batch[t][fd]) = {"READ"}
  BY <1>1, <1>2 DEF Real, Events
<1>4. events[fd] \cap Real(fd, batch[t][fd]) # {}
  BY <1>2, <1>3
<1>5. fate = "ok" /\ fate' = "ok" /\ stuck' = stuck
  BY <1>2, <1>3, <1>4 DEF Schedule, Dispatch
<1> QED
  BY <1>4, <1>5 DEF Schedule, Dispatch, At

LEMMA ScheduleKeeps ==
  ASSUME ServerInv, NEW t \in Workers, NEW fd0 \in Fds, Schedule(t, fd0)
  PROVE  SocketInv'
<1> USE FdAssumption, ServerAssumption DEF ServerInv, SocketInv
<1> DEFINE n == Len(queue) + 1
<1>1. /\ pos[t] = "loop" /\ batch[t][fd0] # {}
      /\ queue' = Append(queue, [fd |-> fd0, conn |-> peer[fd0]])
      /\ batch' = [batch EXCEPT ![t][fd0] = {}]
      /\ UNCHANGED <<pos, nfd, for, backlog, peer, stage, gone>>
      /\ UNCHANGED <<open, ready, call, stuck, fate, owned>>
  BY ScheduleEffect
<1>2. \A fd \in Fds, u \in Workers :
        batch'[u][fd] = IF u = t /\ fd = fd0 THEN {} ELSE batch[u][fd]
  BY <1>1 DEF FdInv, TypeOK
<1>3. /\ Len(queue) \in Nat /\ DOMAIN queue = 1 .. Len(queue)
      /\ queue' \in Seq(Entries) /\ DOMAIN queue' = 1 .. n
      /\ \A i \in 1 .. Len(queue) : queue'[i] = queue[i]
      /\ queue'[n].fd = fd0 /\ queue'[n].conn = peer[fd0]
  <2>1. [fd |-> fd0, conn |-> peer[fd0]] \in Entries
    BY DEF Entries, ServerTypeOK
  <2>2. queue \in Seq(Entries)
    BY DEF ServerTypeOK
  <2>3. /\ Len(queue) \in Nat /\ DOMAIN queue = 1 .. Len(queue)
        /\ queue' \in Seq(Entries) /\ Len(queue') = n
        /\ \A i \in 1 .. Len(queue) : queue'[i] = queue[i]
        /\ queue'[n] = [fd |-> fd0, conn |-> peer[fd0]]
    BY <1>1, <2>1, <2>2, AppendProperties, LenProperties
  <2>4. DOMAIN queue' = 1 .. n
    BY <2>3, LenProperties
  <2> QED
    BY <2>3, <2>4
<1>4. ServerTypeOK' /\ NothingStale' /\ Booting' /\ OnePeer' /\ CallsAgree'
  BY <1>1, <1>3 DEF ServerTypeOK, NothingStale, Booting, OnePeer, CallsAgree
<1>5. OnlyRead'
  BY <1>1, <1>2 DEF OnlyRead
<1>6. BatchInLoop'
  BY <1>1 DEF BatchInLoop, At, FdInv, TypeOK
<1>7. EdgesFit'
  <2>1. \A fd \in Fds : Level(fd)' = Level(fd)
    BY <1>1 DEF Level, Ended
  <2>2. \A fd \in Fds : EdgeFits(fd)'
    BY <1>1, <1>2, <2>1 DEF EdgesFit, EdgeFits
  <2>3. ASSUME NEW i \in DOMAIN queue' PROVE EntryFits(queue[i])'
    <3>1. CASE i = n
      <4>1. fd0 # Listen => "READ" \in owned[fd0] /\ Level(fd0)
        BY <1>1 DEF EdgesFit, EdgeFits
      <4>2. queue'[i].fd = fd0 /\ queue'[i].conn = peer[fd0]
        BY <1>3, <3>1
      <4> QED
        BY <1>1, <2>1, <4>1, <4>2 DEF EntryFits
    <3>2. CASE i \in 1 .. Len(queue)
      BY <1>1, <1>3, <2>1, <3>2, EntryTypes DEF EdgesFit, EntryFits
    <3> QED
      BY <1>3, <3>1, <3>2
  <2> QED
    BY <2>2, <2>3 DEF EdgesFit
<1>8. AllWorkFits'
  BY <1>1 DEF AllWorkFits, WorkFits, Level, Ended
<1>9. OneJobEach'
  <2> SUFFICES ASSUME NEW fd \in Fds \ {Listen} PROVE OneJob(fd)'
    BY DEF OneJobEach
  <2>1. \A u \in Workers : Works(u, fd)' <=> Works(u, fd)
    BY <1>1 DEF Works
  <2>2. ~Works(t, fd)
    BY <1>1 DEF Works, Setup, Serving
  <2>3. \A u \in Workers : Has(u, fd)' => Has(u, fd)
    BY <1>2, <2>1 DEF Has
  <2>4. OneJob(fd)
    BY DEF OneJobEach
  <2>5. CASE fd # fd0
    BY <1>1, <1>3, <2>3, <2>4, <2>5 DEF OneJob
  <2>6. CASE fd = fd0
    <3>1. Has(t, fd) /\ ~Has(t, fd)'
      BY <1>1, <1>2, <2>1, <2>2, <2>6 DEF Has
    <3>2. /\ ready[fd] = {} /\ \A u \in Workers : ~Has(u, fd)'
          /\ \A i \in DOMAIN queue : queue[i].fd # fd
      BY <2>3, <2>4, <3>1 DEF OneJob
    <3> QED
      BY <1>1, <1>3, <3>2 DEF OneJob
  <2> QED
    BY <2>5, <2>6
<1>10. EnoughToAccept'
  <2>1. /\ Accepting' = Accepting /\ EdgeCount' = EdgeCount
        /\ backlog' = backlog
    BY <1>1 DEF Accepting, EdgeCount, At
  <2>2. EdgeCount \in 0 .. 1
    BY DEF EdgeCount
  <2>3. CASE fd0 # Listen
    <3>1. Told' = Told /\ Accepts(queue)' = Accepts(queue)
      BY <1>2, <1>3, <2>3 DEF Told, Accepts
    <3> QED
      BY <2>1, <3>1 DEF EnoughToAccept
  <2>4. CASE fd0 = Listen
    <3>1. Told' = Told \ {t} /\ t \in Told
      BY <1>1, <1>2, <2>4 DEF Told
    <3>2. Cardinality(Told \ {t}) = Cardinality(Told) - 1
      BY <3>1, Counts, FS_RemoveElement
    <3>3. /\ Accepts(queue)' = Accepts(queue) \cup {n} /\ n \notin Accepts(queue)
      BY <1>3, <2>4 DEF Accepts
    <3>4. Cardinality(Accepts(queue) \cup {n}) = Cardinality(Accepts(queue)) + 1
      BY <3>3, Counts, FS_AddElement
    <3>5. /\ Cardinality(Told') = Cardinality(Told) - 1
          /\ Cardinality(Accepts(queue)') = Cardinality(Accepts(queue)) + 1
      BY <3>1, <3>2, <3>3, <3>4
    <3> QED
      BY <2>1, <2>2, <3>5, Counts DEF EnoughToAccept
  <2> QED
    BY <2>3, <2>4
<1> QED
  BY <1>4, <1>5, <1>6, <1>7, <1>8, <1>9, <1>10

\* Taking the first entry leaves the others, one place further to the front.
LEMMA QueueTail ==
  ASSUME ServerTypeOK, queue # << >>
  PROVE  /\ Head(queue) = queue[1] /\ Head(queue) \in Entries
         /\ Len(queue) \in Nat /\ 1 \in DOMAIN queue
         /\ DOMAIN queue = 1 .. Len(queue)
         /\ Tail(queue) \in Seq(Entries)
         /\ DOMAIN Tail(queue) = 1 .. Len(queue) - 1
         /\ \A i \in DOMAIN Tail(queue) :
              Tail(queue)[i] = queue[i + 1] /\ i + 1 \in DOMAIN queue
<1>1. queue \in Seq(Entries)
  BY DEF ServerTypeOK
<1>2. Len(queue) \in Nat \ {0} /\ DOMAIN queue = 1 .. Len(queue)
  BY <1>1, EmptySeq, LenProperties
<1>3. /\ Head(queue) \in Entries /\ Tail(queue) \in Seq(Entries)
      /\ Len(Tail(queue)) = Len(queue) - 1
      /\ \A i \in 1 .. Len(Tail(queue)) : Tail(queue)[i] = queue[i + 1]
  BY <1>1, HeadTailProperties
<1>4. DOMAIN Tail(queue) = 1 .. Len(queue) - 1
  BY <1>3, LenProperties
<1>5. Head(queue) = queue[1]
  BY <1>1
<1> QED
  BY <1>2, <1>3, <1>4, <1>5

LEMMA AcceptsTail ==
  ASSUME ServerTypeOK, queue # << >>
  PROVE  Cardinality(Accepts(Tail(queue))) =
           IF queue[1].fd = Listen THEN Cardinality(Accepts(queue)) - 1
           ELSE Cardinality(Accepts(queue))
<1> DEFINE S == Accepts(queue) \ {1}
           T == Accepts(Tail(queue))
           f == [i \in S |-> i - 1]
<1>1. \A i \in Nat : i \in T <=> i + 1 \in S
  BY QueueTail DEF Accepts
<1>2. T \subseteq Nat /\ S \subseteq Nat \ {0}
  BY QueueTail DEF Accepts
<1>3. f \in Bijection(S, T)
  <2>1. \A i \in S : i - 1 \in Nat /\ (i - 1) + 1 = i
    BY <1>2
  <2>2. f \in [S -> T]
    BY <1>1, <2>1
  <2>3. \A i, j \in S : f[i] = f[j] => i = j
    BY <1>2
  <2>4. \A k \in T : k + 1 \in S /\ f[k + 1] = k
    BY <1>1, <1>2
  <2> HIDE DEF S, T, f
  <2> QED
    BY <2>2, <2>3, <2>4 DEF Bijection, Injection, Surjection, IsInjective
<1>4. IsFiniteSet(Accepts(queue)) /\ IsFiniteSet(S)
  BY Counts, FS_RemoveElement
<1>5. Cardinality(T) = Cardinality(S)
  <2> HIDE DEF S, T, f
  <2>1. ExistsBijection(S, T)
    BY <1>3 DEF ExistsBijection
  <2> QED
    BY <1>4, <2>1, FS_Bijection
<1>6. Cardinality(S) = IF 1 \in Accepts(queue) THEN Cardinality(Accepts(queue)) - 1
                       ELSE Cardinality(Accepts(queue))
  BY <1>4, FS_RemoveElement
<1>7. 1 \in Accepts(queue) <=> queue[1].fd = Listen
  BY QueueTail DEF Accepts
<1> QED
  BY <1>5, <1>6, <1>7

\* A worker takes a callback: the entry becomes its work.
LEMMA TakeKeeps ==
  ASSUME ServerInv, NEW t \in Workers, Take(t)
  PROVE  SocketInv'
<1> USE FdAssumption, ServerAssumption DEF ServerInv, SocketInv
<1> DEFINE entry == queue[1]
           step == IF entry.fd = Listen THEN "accept" ELSE "read"
<1>1. /\ pos[t] = "loop" /\ batch[t] = EmptyBatch /\ call[t] = NoCall
      /\ queue # << >> /\ queue' = Tail(queue)
      /\ pos' = [pos EXCEPT ![t] = step]
      /\ nfd' = [nfd EXCEPT ![t] = entry.fd]
      /\ for' = [for EXCEPT ![t] = entry.conn]
      /\ UNCHANGED <<vars, backlog, peer, stage, gone>>
  BY QueueTail DEF Take, At, Free, Goto, NowFd
<1>2. /\ entry \in Entries /\ entry.fd \in Fds /\ entry.conn \in Conns \cup {NoConn}
      /\ 1 \in DOMAIN queue
  BY <1>1, QueueTail DEF Entries
<1>m. t \in Threads /\ t # Main /\ Workers \subseteq Threads
  BY DEF Threads
<1>3. /\ pos'[t] = step /\ nfd'[t] = entry.fd /\ for'[t] = entry.conn
      /\ \A u \in Threads \ {t} :
           pos'[u] = pos[u] /\ nfd'[u] = nfd[u] /\ for'[u] = for[u]
  BY <1>1, <1>m DEF ServerTypeOK
<1>4. \A i \in DOMAIN queue' : queue'[i] = queue[i + 1] /\ i + 1 \in DOMAIN queue
                              /\ i \in Nat /\ i + 1 # 1
  BY <1>1, QueueTail
<1>5. ServerTypeOK'
  <2>1. queue' \in Seq(Entries)
    BY <1>1, QueueTail
  <2>2. step \in WorkerSteps
    BY DEF WorkerSteps, Serving
  <2>3. /\ pos' \in [Threads -> MainSteps \cup WorkerSteps]
        /\ \A u \in Workers : pos'[u] \in WorkerSteps
    BY <1>1, <1>m, <2>2 DEF ServerTypeOK
  <2> QED
    BY <1>1, <1>2, <2>1, <2>3 DEF ServerTypeOK
<1>6. NothingStale' /\ OnlyRead' /\ OnePeer'
  BY <1>1 DEF vars, NothingStale, OnlyRead, OnePeer
<1>7. Booting'
  BY <1>1, <1>3, <1>m DEF vars, Booting, Threads
<1>8. CallsAgree'
  <2>1. call' = call /\ call[t] = NoCall
    BY <1>1 DEF vars
  <2>2. pos'[t] \notin {"adding", "deleting"}
    BY <1>3
  <2> QED
    BY <1>3, <2>1, <2>2 DEF CallsAgree
<1>9. BatchInLoop'
  BY <1>1, <1>3, <1>m DEF vars, BatchInLoop, At
<1>10. \A fd \in Fds : Level(fd)' = Level(fd)
  BY <1>1 DEF Level, Ended
<1>11. EdgesFit'
  BY <1>1, <1>4, <1>10, EntryTypes DEF EdgesFit, EdgeFits, EntryFits, vars
<1>12. AllWorkFits'
  <2> SUFFICES ASSUME NEW u \in Workers PROVE WorkFits(u)'
    BY DEF AllWorkFits
  <2>1. CASE u # t
    BY <1>1, <1>3, <1>m, <2>1, OtherWork DEF vars
  <2>2. CASE u = t /\ entry.fd = Listen
    BY <1>3, <2>2 DEF WorkFits, Setup, Serving
  <2>3. CASE u = t /\ entry.fd # Listen
    <3>1. /\ "READ" \in owned[entry.fd] /\ Level(entry.fd)
          /\ entry.conn = peer[entry.fd]
      BY <1>2, <2>3 DEF EdgesFit, EntryFits
    <3>2. Level(nfd[t])' /\ peer[entry.fd] # NoConn
      BY <1>2, <1>3, <1>10, <2>3, <3>1 DEF Level, Ended
    <3> QED
      BY <1>1, <1>3, <2>3, <3>1, <3>2 DEF WorkFits, Setup, Serving, vars
  <2> QED
    BY <2>1, <2>2, <2>3
<1>13. OneJobEach'
  <2> SUFFICES ASSUME NEW fd \in Fds \ {Listen} PROVE OneJob(fd)'
    BY DEF OneJobEach
  <2>1. OneJob(fd) /\ ~Has(t, fd)
    BY <1>1 DEF OneJobEach, Has, Works, Setup, Serving, EmptyBatch
  <2>2. \A u \in Workers \ {t} : Has(u, fd)' <=> Has(u, fd)
    BY <1>1, <1>3, <1>m DEF Has, Works, vars
  <2>3. ready' = ready
    BY <1>1 DEF vars
  <2>4. CASE entry.fd = fd
    <3>1. /\ ready[fd] = {} /\ \A u \in Workers : ~Has(u, fd)
          /\ \A i \in DOMAIN queue : queue[i].fd = fd => i = 1
      BY <1>2, <2>1, <2>4 DEF OneJob
    <3>2. \A i \in DOMAIN queue' : queue'[i].fd # fd
      BY <1>4, <3>1
    <3> QED
      BY <2>2, <2>3, <3>1, <3>2 DEF OneJob
  <2>5. CASE entry.fd # fd
    <3>1. ~Has(t, fd)'
      BY <1>1, <1>3, <2>5 DEF Has, Works, EmptyBatch, vars
    <3> QED
      BY <1>4, <2>1, <2>2, <2>3, <3>1 DEF OneJob
  <2> QED
    BY <2>4, <2>5
<1>14. EnoughToAccept'
  <2>1. Told' = Told /\ EdgeCount' = EdgeCount /\ backlog' = backlog
    BY <1>1 DEF Told, EdgeCount, vars
  <2>2. Accepts(queue)' = Accepts(Tail(queue))
    BY <1>1 DEF Accepts
  <2>3. EdgeCount \in 0 .. 1
    BY DEF EdgeCount
  <2>4. CASE entry.fd = Listen
    <3>1. Accepting' = Accepting \cup {t} /\ t \notin Accepting
      BY <1>1, <1>3, <1>m, <2>4 DEF Accepting, At
    <3>2. Cardinality(Accepting \cup {t}) = Cardinality(Accepting) + 1
      BY <3>1, Counts, FS_AddElement
    <3>3. Cardinality(Accepts(queue)') = Cardinality(Accepts(queue)) - 1
      BY <1>1, <2>2, <2>4, AcceptsTail
    <3>4. Cardinality(Accepting') = Cardinality(Accepting) + 1
      BY <3>1, <3>2
    <3> QED
      BY <2>1, <2>3, <3>3, <3>4, Counts DEF EnoughToAccept
  <2>5. CASE entry.fd # Listen
    <3>1. Accepting' = Accepting
      BY <1>1, <1>3, <1>m, <2>5 DEF Accepting, At
    <3>2. Cardinality(Accepts(queue)') = Cardinality(Accepts(queue))
      BY <1>1, <2>2, <2>5, AcceptsTail
    <3> QED
      BY <2>1, <3>1, <3>2 DEF EnoughToAccept
  <2> QED
    BY <2>4, <2>5
<1> QED
  BY <1>5, <1>6, <1>7, <1>8, <1>9, <1>11, <1>12, <1>13, <1>14

\* accept(): the oldest connection gets a descriptor that nobody knows.
LEMMA AcceptKeeps ==
  ASSUME ServerInv, NEW t \in Workers, Accept(t)
  PROVE  SocketInv'
<1> USE FdAssumption, ServerAssumption DEF ServerInv, SocketInv
<1> DEFINE c == Head(backlog)
<1>m. t \in Threads /\ t # Main /\ Workers \subseteq Threads
  BY DEF Threads
<1>1. PICK fd0 \in Fds \ {Listen} :
        /\ pos[t] = "accept" /\ backlog # << >>
        /\ fd0 \notin open /\ open' = open \cup {fd0}
        /\ nfd' = [nfd EXCEPT ![t] = fd0]
        /\ peer' = [peer EXCEPT ![fd0] = c]
        /\ backlog' = Tail(backlog)
        /\ pos' = [pos EXCEPT ![t] = "watch"]
        /\ UNCHANGED <<queue, for, stage, gone>>
        /\ UNCHANGED <<ready, call, batch, stuck, fate, owned>>
  BY DEF Accept, Open, At, Goto, AfterAccept
<1>2. /\ Len(backlog) \in Nat \ {0} /\ DOMAIN backlog = 1 .. Len(backlog)
      /\ c = backlog[1] /\ 1 \in DOMAIN backlog /\ c \in Conns
      /\ backlog' \in Seq(Conns) /\ Len(backlog') = Len(backlog) - 1
      /\ DOMAIN backlog' = 1 .. Len(backlog) - 1
      /\ \A i \in DOMAIN backlog' : /\ backlog'[i] = backlog[i + 1]
                                   /\ i + 1 \in DOMAIN backlog /\ i + 1 # 1
  <2>1. backlog \in Seq(Conns)
    BY DEF ServerTypeOK
  <2>2. Len(backlog) \in Nat \ {0} /\ DOMAIN backlog = 1 .. Len(backlog)
    BY <1>1, <2>1, EmptySeq, LenProperties
  <2>3. /\ c \in Conns /\ backlog' \in Seq(Conns)
        /\ Len(backlog') = Len(backlog) - 1
        /\ \A i \in 1 .. Len(backlog') : backlog'[i] = backlog[i + 1]
    BY <1>1, <2>1, HeadTailProperties
  <2>4. DOMAIN backlog' = 1 .. Len(backlog) - 1
    BY <2>3, LenProperties
  <2>5. c = backlog[1]
    BY <1>1, <2>1
  <2> QED
    BY <2>2, <2>3, <2>4, <2>5
<1>3. /\ pos'[t] = "watch" /\ nfd'[t] = fd0 /\ peer'[fd0] = c /\ c # NoConn
      /\ \A u \in Threads \ {t} : pos'[u] = pos[u] /\ nfd'[u] = nfd[u]
      /\ \A fd \in Fds \ {fd0} : peer'[fd] = peer[fd]
  BY <1>1, <1>2, <1>m DEF ServerTypeOK
<1>4. peer[fd0] = NoConn /\ owned[fd0] = {}
  <2>1. events[fd0] = {}
    BY <1>1 DEF FdInv, ClosedIsForgotten
  <2>2. "READ" \notin owned[fd0]
    BY <2>1 DEF FdInv, Owned, Events
  <2>3. owned[fd0] = {}
    BY <2>2 DEF OnlyRead
  <2> QED
    BY <1>1, <2>3 DEF OnePeer
<1>5. /\ stage[c] \in {"connected", "sent"} /\ \A fd \in Fds : peer[fd] # c
      /\ \A i \in DOMAIN backlog' : backlog'[i] # c
  BY <1>2 DEF OnePeer
<1>6. /\ \A fd \in Fds \ {fd0, Listen} : Level(fd)' = Level(fd)
      /\ ~Level(fd0)
  BY <1>1, <1>3, <1>4 DEF Level, Ended
<1>7. /\ ready[fd0] = {} /\ \A u \in Workers : ~Has(u, fd0)
      /\ \A i \in DOMAIN queue : queue[i].fd # fd0
  BY <1>1, <1>4, <1>6
  DEF EdgesFit, EdgeFits, EntryFits, AllWorkFits, WorkFits, Has, Works
<1>8. ServerTypeOK'
  BY <1>1, <1>2, <1>m DEF ServerTypeOK, WorkerSteps, Setup
<1>9. NothingStale' /\ OnlyRead'
  BY <1>1 DEF NothingStale, OnlyRead
<1>10. Booting'
  <2>1. pos[Main] = "loop"
    BY <1>1 DEF Booting
  <2> QED
    BY <1>1, <1>3, <1>m, <2>1 DEF Booting, Threads
<1>11. CallsAgree'
  <2>1. CallsAgree /\ call' = call /\ pos'[t] \notin {"adding", "deleting"}
    BY <1>1, <1>3
  <2>2. call[t] = NoCall
    BY <1>1, <1>m, <2>1 DEF CallsAgree
  <2> HIDE DEF ServerInv, SocketInv
  <2> QED
    BY <1>3, <2>1, <2>2 DEF CallsAgree
<1>12. BatchInLoop'
  BY <1>1, <1>3, <1>m DEF BatchInLoop, At
<1>13. OnePeer'
  <2>1. \A fd \in Fds : peer'[fd] # NoConn =>
          fd \in open' /\ stage'[peer'[fd]] # "new"
    BY <1>1, <1>3, <1>5 DEF OnePeer
  <2>2. \A fd, d \in Fds : peer'[fd] = peer'[d] /\ peer'[fd] # NoConn => fd = d
    BY <1>1, <1>3, <1>5 DEF OnePeer
  <2>3. ASSUME NEW i \in DOMAIN backlog'
        PROVE  /\ stage'[backlog'[i]] \in {"connected", "sent"}
               /\ \A fd \in Fds : peer'[fd] # backlog'[i]
               /\ \A j \in DOMAIN backlog' : backlog'[i] = backlog'[j] => i = j
    <3>1. i \in Nat /\ \A j \in DOMAIN backlog' : j \in Nat
      BY <1>2
    <3>2. /\ stage[backlog[i + 1]] \in {"connected", "sent"}
          /\ \A fd \in Fds : peer[fd] # backlog[i + 1]
          /\ \A j \in DOMAIN backlog : backlog[i + 1] = backlog[j] => i + 1 = j
      BY <1>2 DEF OnePeer
    <3>3. \A j \in DOMAIN backlog' : backlog'[i] = backlog'[j] => i = j
      BY <1>2, <3>1, <3>2
    <3>4. \A fd \in Fds : peer'[fd] # backlog'[i]
      BY <1>2, <1>3, <1>5, <3>2
    <3> QED
      BY <1>1, <1>2, <3>2, <3>3, <3>4
  <2> QED
    BY <2>1, <2>2, <2>3 DEF OnePeer
<1>14. EdgesFit'
  <2>1. \A fd \in Fds : EdgeFits(fd)'
    BY <1>1, <1>6, <1>7 DEF EdgesFit, EdgeFits, Has
  <2>2. ASSUME NEW i \in DOMAIN queue PROVE EntryFits(queue[i])'
    <3>1. queue[i].fd \in Fds \ {fd0}
      BY <1>7, EntryTypes
    <3> QED
      BY <1>1, <1>3, <1>6, <3>1 DEF EdgesFit, EntryFits
  <2> QED
    BY <1>1, <2>1, <2>2 DEF EdgesFit
<1>15. AllWorkFits'
  <2> SUFFICES ASSUME NEW u \in Workers PROVE WorkFits(u)'
    BY DEF AllWorkFits
  <2>1. CASE u # t
    <3>1. pos[u] \in Setup \cup Serving => nfd[u] # fd0
      BY <1>7 DEF Has, Works
    <3>2. nfd[u] \in Fds
      BY <1>m DEF ServerTypeOK
    <3> QED
      BY <1>1, <1>3, <1>m, <2>1, <3>1, <3>2, OtherWork
  <2>2. CASE u = t
    BY <1>1, <1>3, <1>4, <1>5, <2>2 DEF WorkFits, Setup, Serving
  <2> QED
    BY <2>1, <2>2
<1>16. OneJobEach'
  <2> SUFFICES ASSUME NEW fd \in Fds \ {Listen} PROVE OneJob(fd)'
    BY DEF OneJobEach
  <2>1. \A u \in Workers \ {t} : Has(u, fd)' <=> Has(u, fd)
    BY <1>1, <1>3, <1>m DEF Has, Works
  <2>2. CASE fd = fd0
    BY <1>1, <1>7, <2>1, <2>2 DEF OneJob
  <2>3. CASE fd # fd0
    <3>1. ~Has(t, fd)'
      BY <1>1, <1>3, <2>3 DEF Has, Works, BatchInLoop, At, EmptyBatch
    <3> QED
      BY <1>1, <2>1, <3>1 DEF OneJobEach, OneJob
  <2> QED
    BY <2>2, <2>3
<1>17. EnoughToAccept'
  <2>1. /\ Told' = Told /\ EdgeCount' = EdgeCount
        /\ Accepts(queue)' = Accepts(queue)
    BY <1>1 DEF Told, EdgeCount, Accepts
  <2>2. EdgeCount \in 0 .. 1
    BY DEF EdgeCount
  <2>3. Accepting' = Accepting \ {t} /\ t \in Accepting
    BY <1>1, <1>3, <1>m DEF Accepting, At
  <2>4. Cardinality(Accepting \ {t}) = Cardinality(Accepting) - 1
    BY <2>3, Counts, FS_RemoveElement
  <2>5. Cardinality(Accepting') = Cardinality(Accepting) - 1
    BY <2>3, <2>4
  <2> QED
    BY <1>2, <2>1, <2>2, <2>5, Counts DEF EnoughToAccept
<1> QED
  BY <1>8, <1>9, <1>10, <1>11, <1>12, <1>13, <1>14, <1>15, <1>16, <1>17

\* What a worker that works on a descriptor has to itself.
LEMMA Undisturbed ==
  ASSUME ServerInv, NEW t \in Workers, pos[t] \in Setup \cup Serving
  PROVE  /\ nfd[t] \in Fds \ {Listen} /\ peer[nfd[t]] \in Conns
         /\ ready[nfd[t]] = {}
         /\ \A u \in Workers : batch[u][nfd[t]] = {}
         /\ \A u \in Workers \ {t} : pos[u] \in Setup \cup Serving =>
              nfd[u] # nfd[t] /\ peer[nfd[u]] # peer[nfd[t]]
         /\ \A i \in DOMAIN queue : queue[i].fd # nfd[t]
         /\ \A fd \in Fds \ {nfd[t]} : peer[fd] # peer[nfd[t]]
         /\ \A i \in DOMAIN backlog : backlog[i] # peer[nfd[t]]
<1> USE ServerAssumption DEF ServerInv, SocketInv
<1> DEFINE fd0 == nfd[t]
<1>1. /\ fd0 \in Fds \ {Listen} /\ peer[fd0] \in Conns /\ peer[fd0] # NoConn
      /\ \A u \in Workers : nfd[u] \in Fds
  BY DEF ServerTypeOK, AllWorkFits, WorkFits, Threads
<1>2. Has(t, fd0)
  BY DEF Has, Works
<1>3. /\ ready[fd0] = {} /\ \A u \in Workers : Has(u, fd0) => u = t
      /\ \A i \in DOMAIN queue : queue[i].fd # fd0
  BY <1>1, <1>2 DEF OneJobEach, OneJob
<1>4. batch[t][fd0] = {}
  BY <1>1 DEF BatchInLoop, At, EmptyBatch, Setup, Serving
<1>5. /\ \A fd \in Fds \ {fd0} : peer[fd] # peer[fd0]
      /\ \A i \in DOMAIN backlog : backlog[i] # peer[fd0]
  BY <1>1 DEF OnePeer
<1> QED
  BY <1>1, <1>3, <1>4, <1>5 DEF Has, Works

\* A step of a callback: it touches its own descriptor and client only.
LEMMA CallbackKeeps ==
  ASSUME ServerInv, NEW t \in Workers, pos[t] \in Setup \cup Serving,
         \A u \in Threads \ {t} : pos'[u] = pos[u],
         pos'[t] \in Setup \cup Serving \cup {"asleep"},
         (ServerTypeOK /\ OnlyRead /\ CallsAgree)', WorkFits(t)',
         UNCHANGED <<queue, nfd, for, backlog, peer, open, batch, stuck, fate,
                     ready>>,
         \A fd \in Fds \ {nfd[t]} : owned'[fd] = owned[fd],
         \A c \in Conns \ {peer[nfd[t]]} : stage'[c] = stage[c],
         gone' = gone,
         stage'[peer[nfd[t]]] # "new"
  PROVE  SocketInv'
<1> USE FdAssumption, ServerAssumption DEF ServerInv, SocketInv
<1> DEFINE fd0 == nfd[t]
<1>m. Main \in Threads \ {t} /\ Workers \subseteq Threads
  BY DEF Threads
<1>1. \A fd \in Fds : peer[fd] # NoConn /\ fd # fd0 =>
        stage'[peer[fd]] = stage[peer[fd]]
  BY Undisturbed DEF ServerTypeOK
<1>2. NothingStale' /\ BatchInLoop'
  BY <1>m DEF NothingStale, BatchInLoop, At, Setup, Serving
<1>3. Booting'
  <2>1. /\ pos[Main] \notin {"boot", "listening"}
        /\ owned'[Listen] = owned[Listen] /\ pos'[Main] = pos[Main]
    BY <1>m, Undisturbed DEF Booting, Setup, Serving
  <2> QED
    BY <2>1, <1>m DEF Booting
<1>4. OnePeer'
  <2>1. ASSUME NEW i \in DOMAIN backlog
        PROVE  stage'[backlog[i]] = stage[backlog[i]]
    <3>1. backlog[i] \in Conns
      BY LenProperties, ElementOfSeq DEF ServerTypeOK
    <3> QED
      BY <3>1, Undisturbed
  <2>2. \A fd \in Fds : peer[fd] # NoConn => stage'[peer[fd]] # "new"
    BY <1>1 DEF OnePeer
  <2> QED
    BY <2>1, <2>2 DEF OnePeer
<1>5. EdgesFit'
  <2>1. \A fd \in Fds \ {fd0} : Level(fd)' = Level(fd)
    BY <1>1 DEF Level, Ended
  <2>2. \A fd \in Fds : EdgeFits(fd)'
    BY <2>1, Undisturbed DEF EdgesFit, EdgeFits
  <2>3. ASSUME NEW i \in DOMAIN queue PROVE EntryFits(queue[i])'
    <3>1. queue[i].fd \in Fds \ {fd0}
      BY EntryTypes, Undisturbed
    <3> QED
      BY <2>1, <3>1 DEF EdgesFit, EntryFits
  <2> QED
    BY <2>2, <2>3 DEF EdgesFit
<1>6. AllWorkFits'
  <2> SUFFICES ASSUME NEW u \in Workers, u # t PROVE WorkFits(u)'
    BY DEF AllWorkFits
  <2>1. pos[u] \in Setup \cup Serving =>
          nfd[u] \in Fds \ {fd0} /\ peer[nfd[u]] # NoConn
    BY <1>m, Undisturbed DEF ServerTypeOK, AllWorkFits, WorkFits
  <2> QED
    BY <1>1, <1>m, <2>1, OtherWork
<1>7. OneJobEach'
  <2>1. \A u \in Workers, fd \in Fds : Has(u, fd)' => Has(u, fd)
    BY <1>m DEF Has, Works
  <2> QED
    BY <2>1 DEF OneJobEach, OneJob
<1>8. EnoughToAccept'
  <2>1. Accepting' = Accepting
    BY <1>m DEF Accepting, At, Setup, Serving
  <2>2. Told' = Told /\ EdgeCount' = EdgeCount /\ Accepts(queue)' = Accepts(queue)
    BY DEF Told, EdgeCount, Accepts
  <2> QED
    BY <2>1, <2>2 DEF EnoughToAccept
<1> QED
  BY <1>2, <1>3, <1>4, <1>5, <1>6, <1>7, <1>8

\* The call of addEvent, the read, the reply, and delEvent.
LEMMA WorkKeeps ==
  ASSUME ServerInv, NEW t \in Workers,
         \/ WatchConn(t) \/ Reply(t) \/ CallDelete(t) \/ Delete(t)
         \/ Read(t) /\ pos' # [pos EXCEPT ![t] = "loop"]
  PROVE  SocketInv'
<1> USE FdAssumption, ServerAssumption DEF ServerInv, SocketInv
<1> DEFINE fd0 == nfd[t]
           c == peer[fd0]
<1>m. t \in Threads /\ t # Main /\ Workers \subseteq Threads
  BY DEF Threads
<1>1. CASE WatchConn(t)
  <2>1. /\ pos[t] = "watch" /\ pos' = [pos EXCEPT ![t] = "adding"]
        /\ call' = [call EXCEPT ![t] =
             [op |-> "add", fd |-> fd0, event |-> "READ", mode |-> "cb"]]
        /\ UNCHANGED <<queue, nfd, for, backlog, peer, stage, gone, open, batch, stuck,
                       fate, ready, owned>>
    BY <1>1 DEF WatchConn, BeginAdd, Goto, At
  <2>2. ServerTypeOK' /\ OnlyRead'
    BY <1>m, <2>1 DEF ServerTypeOK, OnlyRead, WorkerSteps, Setup
  <2>3. CallsAgree'
    BY <1>m, <2>1 DEF CallsAgree, ServerTypeOK, FdInv, TypeOK
  <2>4. /\ pos[t] \in Setup \cup Serving /\ pos'[t] = "adding"
        /\ pos'[t] \in Setup \cup Serving
        /\ \A u \in Threads \ {t} : pos'[u] = pos[u]
    BY <1>m, <2>1 DEF ServerTypeOK, Setup
  <2>5. WorkFits(t)'
    BY <2>1, <2>4 DEF AllWorkFits, WorkFits, Setup, Serving
  <2>6. stage'[c] # "new"
    BY <2>1, <2>4, Undisturbed DEF OnePeer
  <2> QED
    BY <2>1, <2>2, <2>3, <2>4, <2>5, <2>6, CallbackKeeps
<1>2. CASE Read(t) /\ pos' # [pos EXCEPT ![t] = "loop"]
  <2>1. PICK p \in {"reply", "del"}, s \in Stages :
          /\ pos[t] = "read" /\ pos' = [pos EXCEPT ![t] = p]
          /\ p = "reply" => s = "read"
          /\ p = "del" => Ended(c) /\ s = stage[c]
          /\ s # "new" /\ stage' = [stage EXCEPT ![c] = s]
    <3>1. Level(fd0) /\ fd0 # Listen /\ pos[t] = "read" /\ c \in Conns
      BY <1>2, <1>m DEF Read, At, AllWorkFits, WorkFits, Serving, ServerTypeOK
    <3>2. CASE stage[c] = "sent"
      <4>1. stage' = [stage EXCEPT ![c] = "read"] /\ pos' = [pos EXCEPT ![t] = "reply"]
        BY <1>2, <3>1, <3>2 DEF Read, Goto
      <4> QED
        BY <3>1, <4>1 DEF Stages
    <3>3. CASE stage[c] # "sent"
      <4>1. stage' = stage /\ pos' = [pos EXCEPT ![t] = "del"] /\ Ended(c)
        BY <1>2, <3>1, <3>3 DEF Read, Goto, AtEof
      <4>2. stage' = [stage EXCEPT ![c] = stage[c]] /\ stage[c] \in Stages
        BY <3>1, <4>1 DEF ServerTypeOK
      <4>3. stage[c] # "new"
        BY <3>1, <4>1 DEF Patient
      <4> QED
        BY <3>1, <4>1, <4>2, <4>3
    <3> QED
      BY <3>2, <3>3
  <2>2. UNCHANGED <<queue, nfd, for, backlog, peer, gone, open, batch, stuck, fate,
                    ready, owned, call>>
    BY <1>2 DEF Read, vars
  <2>3. /\ pos[t] \in Setup \cup Serving /\ pos'[t] = p
        /\ pos'[t] \in Setup \cup Serving
        /\ \A u \in Threads \ {t} : pos'[u] = pos[u]
    BY <1>m, <2>1 DEF ServerTypeOK, Serving
  <2>4. /\ c \in Conns /\ fd0 # Listen
        /\ stage'[c] = s /\ \A d \in Conns \ {c} : stage'[d] = stage[d]
    BY <2>1, <2>3, Undisturbed DEF ServerTypeOK
  <2>5. ServerTypeOK' /\ OnlyRead'
    BY <1>m, <2>1, <2>2, <2>4
    DEF ServerTypeOK, OnlyRead, WorkerSteps, Serving
  <2>6. CallsAgree'
    BY <1>m, <2>1, <2>2, <2>3 DEF CallsAgree
  <2>7. WorkFits(t)'
    BY <2>1, <2>2, <2>3, <2>4 DEF AllWorkFits, WorkFits, Setup, Serving, Ended
  <2> QED
    BY <2>1, <2>2, <2>3, <2>4, <2>5, <2>6, <2>7, CallbackKeeps
<1>3. CASE Reply(t)
  <2>1. /\ pos[t] = "reply" /\ pos' = [pos EXCEPT ![t] = "asleep"]
        /\ stage' = [stage EXCEPT ![c] = "answered"] /\ c \in Conns
        /\ UNCHANGED <<queue, nfd, for, backlog, peer, gone, open, batch, stuck,
                       fate, ready, owned, call>>
    BY <1>3, ReplyEffect DEF vars
  <2>2. /\ pos[t] \in Setup \cup Serving /\ pos'[t] = "asleep"
        /\ \A u \in Threads \ {t} : pos'[u] = pos[u]
    BY <1>m, <2>1 DEF ServerTypeOK, Serving
  <2>3. /\ stage'[c] # "new"
        /\ \A d \in Conns \ {c} : stage'[d] = stage[d]
    BY <2>1 DEF ServerTypeOK
  <2>4. ServerTypeOK' /\ OnlyRead'
    BY <1>m, <2>1 DEF ServerTypeOK, OnlyRead, WorkerSteps, Stages
  <2>5. CallsAgree'
    BY <1>m, <2>1, <2>2 DEF CallsAgree
  <2>6. WorkFits(t)'
    BY <2>2 DEF WorkFits, Setup, Serving
  <2> QED
    BY <2>1, <2>2, <2>3, <2>4, <2>5, <2>6, CallbackKeeps
<1>4. CASE CallDelete(t)
  <2>1. /\ pos[t] = "del" /\ pos' = [pos EXCEPT ![t] = "deleting"]
        /\ owned' = [owned EXCEPT ![fd0] = @ \ {"READ"}]
        /\ call' = [call EXCEPT ![t] =
                      [op |-> "del", fd |-> fd0, event |-> "READ"]]
        /\ UNCHANGED <<queue, nfd, for, backlog, peer, stage, gone, open, batch, stuck,
                       fate, ready>>
    BY <1>4 DEF CallDelete, BeginDel, Goto, At
  <2>2. /\ pos[t] \in Setup \cup Serving /\ pos'[t] = "deleting"
        /\ pos'[t] \in Setup \cup Serving
        /\ \A u \in Threads \ {t} : pos'[u] = pos[u]
    BY <1>m, <2>1 DEF ServerTypeOK, Serving
  <2>3. /\ fd0 \in Fds /\ owned'[fd0] = {}
        /\ \A fd \in Fds \ {fd0} : owned'[fd] = owned[fd]
    BY <2>1, <2>2, Undisturbed DEF OnlyRead, FdInv, TypeOK
  <2>4. ServerTypeOK' /\ OnlyRead'
    BY <1>m, <2>1, <2>3 DEF ServerTypeOK, OnlyRead, WorkerSteps, Serving
  <2>5. CallsAgree'
    BY <1>m, <2>1, <2>2 DEF CallsAgree, FdInv, TypeOK
  <2>6. WorkFits(t)'
    BY <2>1, <2>2, <2>3 DEF AllWorkFits, WorkFits, Setup, Serving, Ended
  <2>7. stage'[c] # "new"
    BY <2>1, <2>2, Undisturbed DEF OnePeer
  <2> QED
    BY <2>1, <2>2, <2>3, <2>4, <2>5, <2>6, <2>7, CallbackKeeps
<1>5. CASE Delete(t)
  <2>1. /\ pos[t] = "deleting" /\ pos' = [pos EXCEPT ![t] = "close"]
        /\ DelEvent(t)
        /\ UNCHANGED <<queue, nfd, for, backlog, peer, stage, gone>>
    BY <1>5 DEF Delete, Goto, At, AfterDelete
  <2>2. /\ pos[t] \in Setup \cup Serving /\ pos'[t] = "close"
        /\ pos'[t] \in Setup \cup Serving
        /\ \A u \in Threads \ {t} : pos'[u] = pos[u]
    BY <1>m, <2>1 DEF ServerTypeOK, Serving
  <2>3. call[t] # NoCall /\ call[t].fd = fd0
    <3>1. call[t] = [op |-> "del", fd |-> fd0, event |-> "READ"]
      BY <1>m, <2>1 DEF CallsAgree
    <3> QED
      BY <3>1 DEF NoCall
  <2>4. /\ call' = [call EXCEPT ![t] = NoCall]
        /\ UNCHANGED <<stuck, open, batch, fate, owned>>
    BY <1>m, <2>1, <2>3, DelEventSucceeds
  <2>5. ready' = ready
    <3> DEFINE new == events[fd0] \ {call[t].event}
    <3>1. ready' = [ready EXCEPT ![fd0] =
                      IF new = {} THEN {} ELSE @ \cap (new \cup {"HUP"})]
      BY <1>m, <2>1, <2>3, DelEventSucceeds
    <3>2. ready[fd0] = {} /\ fd0 \in Fds
      BY <2>2, Undisturbed
    <3>3. ready' = [ready EXCEPT ![fd0] = {}]
      BY <3>1, <3>2
    <3> QED
      BY <3>2, <3>3 DEF FdInv, TypeOK
  <2>6. ServerTypeOK' /\ OnlyRead'
    BY <1>m, <2>1, <2>4, <2>5 DEF ServerTypeOK, OnlyRead, WorkerSteps, Serving
  <2>7. CallsAgree'
    BY <1>m, <2>1, <2>2, <2>4 DEF CallsAgree, FdInv, TypeOK
  <2>8. WorkFits(t)'
    BY <2>1, <2>2, <2>4 DEF AllWorkFits, WorkFits, Setup, Serving, Ended
  <2>9. stage'[c] # "new"
    BY <2>1, <2>2, Undisturbed DEF OnePeer
  <2> QED
    BY <2>1, <2>2, <2>4, <2>5, <2>6, <2>7, <2>8, <2>9, CallbackKeeps
<1> QED
  BY <1>1, <1>2, <1>3, <1>4, <1>5

\* A callback ends and leaves its descriptor, watched or closed.
LEMMA LeaveKeeps ==
  ASSUME ServerInv, NEW t \in Workers, pos[t] \in Setup \cup Serving,
         pos' = [pos EXCEPT ![t] = "loop"],
         (ServerTypeOK /\ OnlyRead /\ CallsAgree)',
         UNCHANGED <<queue, nfd, for, backlog, stage, gone, batch, stuck, fate>>,
         open \ {nfd[t]} \subseteq open',
         \A fd \in Fds \ {nfd[t]} :
           peer'[fd] = peer[fd] /\ owned'[fd] = owned[fd] /\ ready'[fd] = ready[fd],
         \/ peer'[nfd[t]] = NoConn
         \/ peer'[nfd[t]] = peer[nfd[t]] /\ nfd[t] \in open',
         ready'[nfd[t]] # {} => "READ" \in owned'[nfd[t]] /\ Level(nfd[t])'
  PROVE  SocketInv'
<1> USE FdAssumption, ServerAssumption DEF ServerInv, SocketInv
<1> DEFINE fd0 == nfd[t]
<1>m. /\ Main \in Threads \ {t} /\ Workers \subseteq Threads
      /\ pos'[t] = "loop" /\ \A u \in Threads \ {t} : pos'[u] = pos[u]
  BY DEF Threads, ServerTypeOK
<1>0. /\ fd0 \in Fds \ {Listen} /\ peer[fd0] \in Conns
      /\ Listen \in Fds \ {fd0}
  BY Undisturbed
<1>1. NothingStale' /\ BatchInLoop'
  BY <1>m DEF NothingStale, BatchInLoop, At
<1>2. Booting'
  <2>1. /\ pos[Main] \notin {"boot", "listening"} /\ pos'[Main] = pos[Main]
        /\ owned'[Listen] = owned[Listen] /\ peer'[Listen] = peer[Listen]
    BY <1>m, <1>0 DEF Booting, Setup, Serving
  <2>2. Listen \in open => Listen \in open'
    BY <1>0
  <2> QED
    BY <2>1, <2>2 DEF Booting
<1>3. \A fd \in Fds : peer'[fd] = NoConn \/ peer'[fd] = peer[fd]
  BY <1>0
<1>4. OnePeer'
  <2>1. \A fd \in Fds : peer'[fd] # NoConn => fd \in open'
    BY <1>0 DEF OnePeer
  <2>2. \A fd \in Fds : peer'[fd] # NoConn => stage'[peer'[fd]] # "new"
    BY <1>3 DEF OnePeer
  <2>3. \A fd, d \in Fds : peer'[fd] = peer'[d] /\ peer'[fd] # NoConn => fd = d
    BY <1>3 DEF OnePeer
  <2>4. ASSUME NEW i \in DOMAIN backlog, NEW fd \in Fds
        PROVE  peer'[fd] # backlog[i]
    <3>1. backlog[i] \in Conns
      BY LenProperties, ElementOfSeq DEF ServerTypeOK
    <3> QED
      BY <1>3, <3>1 DEF OnePeer
  <2> QED
    BY <2>1, <2>2, <2>3, <2>4 DEF OnePeer
<1>5. EdgesFit'
  <2>1. \A fd \in Fds \ {fd0} : Level(fd)' = Level(fd)
    BY DEF Level, Ended
  <2>2. ASSUME NEW fd \in Fds PROVE EdgeFits(fd)'
    <3>1. CASE fd = fd0
      BY <3>1, Undisturbed DEF EdgeFits
    <3>2. CASE fd # fd0
      BY <2>1, <3>2 DEF EdgesFit, EdgeFits
    <3> QED
      BY <3>1, <3>2
  <2>3. ASSUME NEW i \in DOMAIN queue PROVE EntryFits(queue[i])'
    <3>1. queue[i].fd \in Fds \ {fd0}
      BY EntryTypes, Undisturbed
    <3> QED
      BY <2>1, <3>1 DEF EdgesFit, EntryFits
  <2> QED
    BY <2>2, <2>3 DEF EdgesFit
<1>6. AllWorkFits'
  <2>1. WorkFits(t)'
    BY <1>m DEF WorkFits, Setup, Serving
  <2>2. ASSUME NEW u \in Workers, u # t PROVE WorkFits(u)'
    <3>1. pos[u] \in Setup \cup Serving => nfd[u] \in Fds \ {fd0}
      BY <1>m, <2>2, Undisturbed DEF ServerTypeOK
    <3> QED
      BY <1>m, <2>2, <3>1, OtherWork
  <2> QED
    BY <2>1, <2>2 DEF AllWorkFits
<1>7. OneJobEach'
  <2>1. \A u \in Workers, fd \in Fds : Has(u, fd)' => Has(u, fd) /\ fd # fd0
    BY <1>m, Undisturbed DEF Has, Works, Setup, Serving
  <2>2. ASSUME NEW fd \in Fds \ {Listen} PROVE OneJob(fd)'
    <3>1. CASE fd = fd0
      BY <2>1, <3>1, Undisturbed DEF OneJob
    <3>2. CASE fd # fd0
      BY <2>1, <3>2 DEF OneJobEach, OneJob
    <3> QED
      BY <3>1, <3>2
  <2> QED
    BY <2>2 DEF OneJobEach
<1>8. EnoughToAccept'
  <2>1. Accepting' = Accepting
    BY <1>m DEF Accepting, At, Setup, Serving
  <2>2. Told' = Told /\ EdgeCount' = EdgeCount /\ Accepts(queue)' = Accepts(queue)
    BY <1>0 DEF Told, EdgeCount, Accepts
  <2> QED
    BY <2>1, <2>2 DEF EnoughToAccept
<1> QED
  BY <1>1, <1>2, <1>4, <1>5, <1>6, <1>7, <1>8

\* The accepted connection is watched: a request that came before makes an
\* edge at once.
LEMMA WatchKeeps ==
  ASSUME ServerInv, NEW t \in Workers, Watch(t)
  PROVE  SocketInv'
<1> USE FdAssumption, ServerAssumption DEF ServerInv, SocketInv
<1> DEFINE fd0 == nfd[t]
<1>m. t \in Threads /\ t # Main /\ Workers \subseteq Threads
  BY DEF Threads
<1>1. /\ pos[t] = "adding" /\ pos[t] \in Setup \cup Serving
      /\ pos' = [pos EXCEPT ![t] = "loop"] /\ AddEvent(t)
      /\ fate' = "ok" =>
           ready' = [ready EXCEPT ![fd0] = IF Level(fd0) THEN {"READ"} ELSE @]
      /\ UNCHANGED <<queue, nfd, for, backlog, peer, stage, gone>>
  BY <1>m DEF Watch, Goto, At, Setup, AfterWatch
<1>2. call[t] # NoCall /\ call[t].fd = fd0 /\ call[t].event = "READ"
  <2>1. call[t] = [op |-> "add", fd |-> fd0, event |-> "READ", mode |-> "cb"]
    BY <1>m, <1>1 DEF CallsAgree
  <2> QED
    BY <2>1 DEF NoCall
<1>3. /\ call' = [call EXCEPT ![t] = NoCall]
      /\ owned' = [owned EXCEPT ![fd0] = @ \cup {"READ"}]
      /\ fate' = "ok" /\ fate = "ok" /\ fd0 \in open
      /\ UNCHANGED <<stuck, open, batch>>
  BY <1>m, <1>1, <1>2, AddEventSucceeds DEF AddEvent
<1>4. /\ fd0 \in Fds \ {Listen} /\ ready[fd0] = {}
      /\ ready' = [ready EXCEPT ![fd0] = IF Level(fd0) THEN {"READ"} ELSE @]
  BY <1>1, <1>3, Undisturbed
<1>5. /\ ready'[fd0] \subseteq {"READ"} /\ (ready'[fd0] # {} => Level(fd0))
      /\ owned'[fd0] = owned[fd0] \cup {"READ"}
      /\ \A fd \in Fds \ {fd0} : ready'[fd] = ready[fd] /\ owned'[fd] = owned[fd]
  BY <1>3, <1>4 DEF FdInv, TypeOK
<1>6. Level(fd0)' = Level(fd0)
  BY <1>1 DEF Level, Ended
<1>7. ServerTypeOK'
  BY <1>m, <1>1 DEF ServerTypeOK, WorkerSteps
<1>8. OnlyRead'
  BY <1>3, <1>5 DEF OnlyRead
<1>9. CallsAgree'
  BY <1>m, <1>1, <1>3 DEF CallsAgree, ServerTypeOK, FdInv, TypeOK
<1>10. /\ open \ {fd0} \subseteq open'
       /\ peer'[fd0] = peer[fd0] /\ fd0 \in open'
       /\ \A fd \in Fds \ {fd0} : peer'[fd] = peer[fd]
  BY <1>1, <1>3
<1>11. ready'[fd0] # {} => "READ" \in owned'[fd0] /\ Level(fd0)'
  BY <1>5, <1>6
<1> QED
  BY <1>1, <1>3, <1>5, <1>7, <1>8, <1>9, <1>10, <1>11, LeaveKeeps

\* A connection that is over is closed.
LEMMA CloseKeeps ==
  ASSUME ServerInv, NEW t \in Workers, CloseConn(t)
  PROVE  SocketInv'
<1> USE FdAssumption, ServerAssumption DEF ServerInv, SocketInv
<1> DEFINE fd0 == nfd[t]
<1>m. t \in Threads /\ t # Main /\ Workers \subseteq Threads
  BY DEF Threads
<1>1. /\ pos[t] = "close" /\ pos[t] \in Setup \cup Serving
      /\ pos' = [pos EXCEPT ![t] = "loop"]
      /\ open' = open \ {fd0}
      /\ ready' = [ready EXCEPT ![fd0] = {}]
      /\ peer' = [peer EXCEPT ![fd0] = NoConn]
      /\ UNCHANGED <<queue, nfd, for, backlog, stage, gone, batch, stuck, fate,
                     owned, call>>
  <2>1. pos[t] = "close" /\ pos[t] \in Setup \cup Serving
    BY DEF CloseConn, At, Serving
  <2>2. fd0 \in open
    BY <2>1 DEF AllWorkFits, WorkFits, OnePeer, ServerTypeOK, Threads
  <2> QED
    BY <2>1, <2>2 DEF CloseConn, Closing, Goto
<1>2. /\ fd0 \in Fds \ {Listen}
      /\ peer'[fd0] = NoConn /\ ready'[fd0] = {}
      /\ \A fd \in Fds \ {fd0} : peer'[fd] = peer[fd] /\ ready'[fd] = ready[fd]
  BY <1>1, Undisturbed DEF ServerTypeOK, FdInv, TypeOK
<1>3. ServerTypeOK'
  BY <1>m, <1>1 DEF ServerTypeOK, WorkerSteps
<1>4. OnlyRead'
  BY <1>1, <1>2 DEF OnlyRead
<1>5. CallsAgree'
  BY <1>m, <1>1 DEF CallsAgree, ServerTypeOK
<1>6. /\ open \ {fd0} \subseteq open'
      /\ \A fd \in Fds \ {fd0} : owned'[fd] = owned[fd]
  BY <1>1
<1> QED
  BY <1>1, <1>2, <1>3, <1>4, <1>5, <1>6, LeaveKeeps

\* A connection that was reset is left as it is.
LEMMA ReadFailsKeeps ==
  ASSUME ServerInv, NEW t \in Workers, Read(t),
         pos' = [pos EXCEPT ![t] = "loop"]
  PROVE  SocketInv'
<1> USE FdAssumption, ServerAssumption DEF ServerInv, SocketInv
<1> DEFINE fd0 == nfd[t]
<1>m. t \in Threads /\ t # Main /\ Workers \subseteq Threads
  BY DEF Threads
<1>1. /\ pos[t] = "read" /\ pos[t] \in Setup \cup Serving
      /\ pos'[t] = "loop"
  BY <1>m DEF Read, At, Serving, ServerTypeOK
<1>2. UNCHANGED <<queue, nfd, for, backlog, stage, gone, batch, stuck, fate,
                  open, ready, owned, peer, call>>
  <2>1. stage' = stage
    BY <1>m, <1>1 DEF Read, Goto, AtEof, ServerTypeOK
  <2> QED
    BY <2>1 DEF Read, vars
<1>3. fd0 \in Fds /\ ready[fd0] = {} /\ fd0 \in open
  <2>1. fd0 \in Fds /\ ready[fd0] = {} /\ peer[fd0] # NoConn
    BY <1>1, Undisturbed
  <2> QED
    BY <2>1 DEF OnePeer
<1>4. ServerTypeOK' /\ OnlyRead'
  BY <1>m, <1>2 DEF ServerTypeOK, WorkerSteps, OnlyRead
<1>5. CallsAgree'
  BY <1>m, <1>1, <1>2 DEF CallsAgree, ServerTypeOK
<1> QED
  BY <1>1, <1>2, <1>3, <1>4, <1>5, LeaveKeeps

\* Nothing happens: what is counted and called is as before.
LEMMA StutterKeeps == ServerInv /\ UNCHANGED allVars => SocketInv'
<1> SUFFICES ASSUME ServerInv, UNCHANGED allVars PROVE SocketInv'
  OBVIOUS
<1> USE DEF ServerInv, SocketInv, allVars, vars, serverVars
<1>1. /\ NothingStale' /\ ServerTypeOK' /\ OnlyRead' /\ Booting'
      /\ CallsAgree' /\ BatchInLoop' /\ OnePeer'
  BY DEF NothingStale, ServerTypeOK, OnlyRead, Booting, CallsAgree,
       BatchInLoop, OnePeer, At
<1>2. EdgesFit'
  BY DEF EdgesFit, EdgeFits, EntryFits, Level, Ended
<1>3. AllWorkFits'
  <2>1. ASSUME NEW u \in Workers PROVE WorkFits(u)'
    BY OtherWork
  <2> QED
    BY <2>1 DEF AllWorkFits
<1>4. OneJobEach'
  BY DEF OneJobEach, OneJob, Has, Works
<1>5. EnoughToAccept'
  BY DEF EnoughToAccept, Accepts, Accepting, Told, EdgeCount, At
<1> QED
  BY <1>1, <1>2, <1>3, <1>4, <1>5

-----------------------------------------------------------------------------
(***************************************************************************)
(* Patience: once it is over it does not come back, so a step that ends in *)
(* a patient state started in one.                                         *)
(***************************************************************************)

ClientsOK == ClientTypes /\ \A c \in Conns : Ended(c) => stage[c] # "new"

\* What a step does to the clients at most.
ClientMoves ==
  \/ UNCHANGED <<stage, gone>>
  \/ \E c \in Conns, s \in Stages \ {"new"} :
       /\ Ended(c) => s = "read"
       /\ stage' = [stage EXCEPT ![c] = s] /\ gone' = gone
  \/ \E c \in Conns, how \in {"fin", "rst"} :
       /\ stage[c] # "new"
       /\ gone' = [gone EXCEPT ![c] = how] /\ stage' = stage

LEMMA StepMovesClients == ClientsOK /\ [ServerNext]_allVars => ClientMoves
<1> SUFFICES ASSUME ClientsOK, ServerNext PROVE ClientMoves
  BY DEF allVars, serverVars, ClientMoves
<1>1. CASE Boot
  BY <1>1 DEF Boot, StartListening, CreateIOManager, Bind, WatchListen, Watch,
       Setthis, ClientMoves
<1>2. ASSUME NEW t \in Workers, IdleLoop(t) PROVE ClientMoves
  BY <1>2 DEF IdleLoop, Idle, Report, ReportNothing, Schedule, ClientMoves
<1>3. ASSUME NEW t \in Workers, Callback(t) PROVE ClientMoves
  <2>1. CASE Read(t)
    BY <2>1 DEF Read, ClientMoves, Stages
  <2>2. CASE Reply(t)
    <3> DEFINE c == peer[nfd[t]]
    <3>1. CASE c \in Conns /\ ~Ended(c) /\ gone' = gone /\
               stage' = [stage EXCEPT ![c] = IF @ = "read" THEN "answered" ELSE @]
      <4>1. CASE stage[c] = "read"
        <5>1. stage' = [stage EXCEPT ![c] = "answered"]
          BY <3>1, <4>1
        <5> QED
          BY <3>1, <5>1 DEF ClientMoves, Stages
      <4>2. CASE stage[c] # "read"
        <5>1. stage' = stage
          BY <3>1, <4>2 DEF ClientsOK, ClientTypes
        <5> QED
          BY <3>1, <5>1 DEF ClientMoves
      <4> QED
        BY <4>1, <4>2
    <3>2. CASE /\ c \in Conns /\ gone[c] = "fin" /\ stage' = stage
               /\ gone' = [gone EXCEPT ![c] = "rst"]
      <4>1. stage[c] # "new"
        BY <3>2 DEF ClientsOK, Ended
      <4> QED
        BY <3>2, <4>1 DEF ClientMoves
    <3>3. CASE stage' = stage /\ gone' = gone
      BY <3>3 DEF ClientMoves
    <3> QED
      BY <2>2, <3>1, <3>2, <3>3 DEF Reply
  <2>3. CASE ~Read(t) /\ ~Reply(t)
    BY <1>3, <2>3 DEF Callback, Take, Accept, WatchConn, Watch, CallDelete, Delete,
         CloseConn, ClientMoves
  <2> QED
    BY <2>1, <2>2, <2>3
<1>4. ASSUME NEW c \in Conns, Connect(c) \/ Send(c) PROVE ClientMoves
  <2>1. ~Ended(c)
    BY <1>4 DEF Connect, Send, ClientsOK
  <2> QED
    BY <1>4, <2>1 DEF Connect, Send, ClientMoves, Stages
<1>5. ASSUME NEW c \in Conns, NEW how \in {"fin", "rst"}, Hangup(c, how)
      PROVE  ClientMoves
  BY <1>5 DEF Hangup, ClientMoves
<1> QED
  BY <1>1, <1>2, <1>3, <1>4, <1>5 DEF ServerNext

LEMMA PatientBefore ==
  ClientsOK /\ ClientMoves => ClientsOK' /\ (Patient' => Patient)
<1> SUFFICES ASSUME ClientsOK, ClientMoves PROVE ClientsOK' /\ (Patient' => Patient)
  OBVIOUS
<1>1. CASE UNCHANGED <<stage, gone>>
  BY <1>1 DEF ClientsOK, ClientTypes, Patient, Ended
<1>2. ASSUME NEW c \in Conns, NEW s \in Stages \ {"new"}, Ended(c) => s = "read",
             stage' = [stage EXCEPT ![c] = s], gone' = gone
      PROVE  ClientsOK' /\ (Patient' => Patient)
  <2>1. stage'[c] = s /\ \A d \in Conns \ {c} : stage'[d] = stage[d]
    BY <1>2 DEF ClientsOK, ClientTypes
  <2>2. \A d \in Conns : Ended(d)' = Ended(d)
    BY <1>2 DEF Ended
  <2>3. ClientsOK'
    BY <1>2, <2>1, <2>2 DEF ClientsOK, ClientTypes
  <2> QED
    BY <1>2, <2>1, <2>2, <2>3 DEF Patient
<1>3. ASSUME NEW c \in Conns, NEW how \in {"fin", "rst"}, stage[c] # "new",
             gone' = [gone EXCEPT ![c] = how], stage' = stage
      PROVE  ClientsOK' /\ (Patient' => Patient)
  <2>1. Ended(c)' /\ \A d \in Conns \ {c} : Ended(d)' = Ended(d)
    BY <1>3 DEF Ended, ClientsOK, ClientTypes
  <2>2. ClientsOK'
    BY <1>3, <2>1 DEF ClientsOK, ClientTypes, Ways
  <2> QED
    BY <1>3, <2>1, <2>2 DEF Patient
<1> QED
  BY <1>1, <1>2, <1>3 DEF ClientMoves

\* A thread that has a scheduler keeps it.
LEMMA SchedulersStay == [Next]_vars => t_scheduler \subseteq t_scheduler'
BY DEF Next, vars, SetThis, CallAdd, BeginAdd, CallDel, BeginDel, AddEvent, DelEvent,
     EpollWait, Dispatch, Open, Close, Closing, Edge, Quiet

LEMMA BoundKeeps ==
  ASSUME ServerInv, [ServerNext]_allVars, [Next]_vars
  PROVE  Bound'
<1> USE ServerAssumption
<1>m. Main \in Threads /\ Main \notin Workers /\ Workers \subseteq Threads
  BY FdAssumption DEF FdAssumption, Threads
<1>t. pos \in [Threads -> MainSteps \cup WorkerSteps]
  BY DEF ServerInv, SocketInv, ServerTypeOK
<1>s. t_scheduler \subseteq t_scheduler'
  BY SchedulersStay
<1>1. CASE pos'[Main] = pos[Main]
  BY <1>1, <1>s DEF ServerInv, Bound
<1>2. CASE Boot
  <2>1. CASE StartListening \/ CreateIOManager
    BY <1>m, <1>t, <2>1 DEF StartListening, CreateIOManager, Goto, Bound
  <2>2. CASE Bind
    BY <2>2 DEF Bind, SetThis, Bound
  <2>3. CASE WatchListen \/ Watch(Main) \/ Setthis
    BY <1>s, <2>3 DEF WatchListen, Watch, Setthis, At, ServerInv, Bound
  <2> QED
    BY <1>2, <2>1, <2>2, <2>3 DEF Boot
<1>3. ASSUME NEW t \in Workers, Callback(t) \/ IdleLoop(t)
      PROVE  pos'[Main] = pos[Main]
  <2>1. \E p : pos' = [pos EXCEPT ![t] = p] \/ pos' = pos
    BY <1>3 DEF Callback, IdleLoop, Take, Accept, WatchConn, Watch, Read, Reply,
         CallDelete, Delete, CloseConn, Idle, Report, ReportNothing, Schedule, Goto
  <2> QED
    BY <1>m, <1>t, <2>1
<1>4. ASSUME NEW c \in Conns,
             Connect(c) \/ Send(c) \/ \E how \in {"fin", "rst"} : Hangup(c, how)
      PROVE  pos'[Main] = pos[Main]
  BY <1>4 DEF Connect, Send, Hangup
<1>5. CASE UNCHANGED allVars
  BY <1>1, <1>5 DEF allVars, serverVars
<1> QED
  BY <1>1, <1>2, <1>3, <1>4, <1>5 DEF ServerNext

\* Every step into a patient state keeps ServerInv: FdEvents' part because the
\* server is one of its clients, the rest action by action.
LEMMA ServerStep ==
  ServerInv /\ [ServerNext]_allVars /\ Patient' => ServerInv'
<1> SUFFICES ASSUME ServerInv, [ServerNext]_allVars, Patient' PROVE ServerInv'
  OBVIOUS
<1>1. [Next]_vars
  BY KeepsToTheRules
<1>2. FdInv' /\ Bound'
  BY <1>1, FdStep, BoundKeeps DEF ServerInv
<1>3. SocketInv'
  <2>1. ASSUME Boot PROVE SocketInv'
    BY <2>1, BootKeeps
  <2>2. ASSUME NEW t \in Workers, Callback(t) PROVE SocketInv'
    <3>1. CASE Take(t)
      BY <3>1, TakeKeeps
    <3>2. CASE Accept(t)
      BY <3>2, AcceptKeeps
    <3>3. CASE Watch(t)
      BY <3>3, WatchKeeps
    <3>4. CASE CloseConn(t)
      BY <3>4, CloseKeeps
    <3>5. CASE WatchConn(t) \/ Reply(t) \/ CallDelete(t) \/ Delete(t)
      BY <3>5, WorkKeeps
    <3>6. CASE Read(t)
      BY <3>6, WorkKeeps, ReadFailsKeeps
    <3> QED
      BY <2>2, <3>1, <3>2, <3>3, <3>4, <3>5, <3>6 DEF Callback
  <2>3. ASSUME NEW t \in Workers, IdleLoop(t) PROVE SocketInv'
    <3>1. CASE Idle(t) \/ ReportNothing(t)
      BY <3>1, BootKeeps
    <3>2. CASE Report(t)
      BY <3>2, ReportKeeps
    <3>3. ASSUME NEW fd \in Fds, Schedule(t, fd) PROVE SocketInv'
      BY <3>3, ScheduleKeeps
    <3> QED
      BY <2>3, <3>1, <3>2, <3>3 DEF IdleLoop
  <2>4. ASSUME NEW c \in Conns,
               Connect(c) \/ Send(c) \/ \E how \in {"fin", "rst"} : Hangup(c, how)
        PROVE  SocketInv'
    <3>1. CASE Connect(c)
      BY <3>1, ConnectKeeps
    <3>2. CASE Send(c) \/ \E how \in {"fin", "rst"} : Hangup(c, how)
      BY <3>2, ClientKeeps
    <3> QED
      BY <2>4, <3>1, <3>2
  <2>5. CASE UNCHANGED allVars
    BY <2>5, StutterKeeps
  <2> QED
    BY <2>1, <2>2, <2>3, <2>4, <2>5 DEF ServerNext
<1> QED
  BY <1>2, <1>3 DEF ServerInv

LEMMA PatientStep ==
  ClientsOK /\ (Patient => ServerInv) /\ [ServerNext]_allVars
    => ClientsOK' /\ (Patient => ServerInv)' /\ (Patient' => [Next]_vars)
<1> SUFFICES ASSUME ClientsOK, Patient => ServerInv, [ServerNext]_allVars
             PROVE  ClientsOK' /\ (Patient => ServerInv)' /\ (Patient' => [Next]_vars)
  OBVIOUS
<1>1. ClientsOK' /\ (Patient' => Patient)
  BY StepMovesClients, PatientBefore
<1>2. Patient' => ServerInv' /\ [Next]_vars
  BY <1>1, ServerStep, KeepsToTheRules
<1> QED
  BY <1>1, <1>2

\* As long as no client has hung up on its request, ServerInv, with FdEvents'
\* own invariant, holds.
THEOREM ServerInvariance == ServerSpec => [](ClientsOK /\ (Patient => ServerInv))
<1>1. ServerInit => ClientsOK
  BY DEF ServerInit, ClientsOK, ClientTypes, Stages, Ways, Ended
<1> QED
  BY <1>1, InitServer, PatientStep, PTL DEF ServerSpec

\* As long as no client has hung up on its request the server implements
\* FdEvents: it never watches what it still watches, deletes an event twice, or
\* closes a descriptor with an event, although callbacks of several workers
\* share the descriptors and waiting workers get events whatever is listed.
THEOREM ServerKeepsTheRules == ServerSpec => KeepsTheRules
<1>1. ServerInit => Init
  BY DEF ServerInit
<1>2. ClientsOK /\ (Patient => ServerInv) /\ [ServerNext]_allVars
        => [Patient' => Next]_vars
  BY PatientStep
<1> QED
  BY <1>1, <1>2, ServerInvariance, PTL DEF ServerSpec, KeepsTheRules

\* As long as no client has hung up on its request no worker is left holding
\* the mutex of an FdContext, and none dereferences the null scheduler: what
\* idle() dispatches is never stale.
THEOREM ServerDispatchesFresh == ServerSpec => []DispatchesFresh
<1>1. (Patient => ServerInv) => DispatchesFresh
  BY DEF ServerInv, SocketInv, DispatchesFresh
<1> QED
  BY <1>1, ServerInvariance, PTL

\* As long as no client has hung up on its request no callback blocks its
\* worker in read: there is a request, the end of file or an error.
THEOREM ServerNeverBlocks == ServerSpec => []NeverBlocks
<1>1. (Patient => ServerInv) => NeverBlocks
  BY DEF ServerInv, SocketInv, NeverBlocks, At, AllWorkFits, WorkFits
<1> QED
  BY <1>1, ServerInvariance, PTL

\* As long as no client has hung up on its request a callback's descriptor is
\* the one of the connection whose edge started it until it has closed it,
\* whatever the other workers accept.
THEOREM ServerServesTheRightOne == ServerSpec => []RightConnection
<1>1. (Patient => ServerInv) => RightConnection
  BY DEF ServerInv, SocketInv, AllWorkFits, WorkFits, Serving, RightConnection
<1> QED
  BY <1>1, ServerInvariance, PTL

-----------------------------------------------------------------------------
(***************************************************************************)
(* What holds whatever the clients do: the listening descriptor.  Stale    *)
(* dispatches, second callbacks, failing calls and lost descriptors occur, *)
(* but only for connections' descriptors.                                  *)
(***************************************************************************)

\* The section under the mutex, of either call.
LEMMA SectionTypes ==
  ASSUME EpollTypes, NEW d \in Fds, NEW e \in Events,
         NEW mode \in {"empty", "cb", "fiber"}, NEW mask, NEW edges,
         mask \subseteq Events, edges \subseteq Events \cup {"HUP"},
         interest' = [interest EXCEPT ![d] = mask],
         events' = [events EXCEPT ![d] = mask],
         ctx' = [ctx EXCEPT ![d][e] = mode],
         ready' = [ready EXCEPT ![d] = edges]
  PROVE  /\ interest' \in [Fds -> SUBSET Events] /\ events' \in [Fds -> SUBSET Events]
         /\ ready' \in [Fds -> SUBSET (Events \cup {"HUP"})]
         /\ ctx' \in [Fds -> [Events -> {"empty", "cb", "fiber", "spent"}]]
BY DEF EpollTypes

\* What FdEvents keeps stays well-formed, by whatever part of it the server
\* calls and in whatever state.
LEMMA EpollTypesKeep ==
  ASSUME EpollTypes, NEW t \in Threads, NEW fd \in Fds, NEW flag \in {"READ", "HUP"},
         \/ UNCHANGED <<interest, events, ready, ctx, call, batch>>
         \/ BeginAdd(t, fd, "READ", "cb") \/ BeginDel(t, fd, "READ")
         \/ call[t] # NoCall /\ (AddEvent(t) \/ DelEvent(t))
         \/ t \in Workers /\ (EpollWait(t) \/ Dispatch(t, fd))
         \/ Closing(fd) \/ Edge(fd, flag)
  PROVE  EpollTypes'
<1> USE FdAssumption, ServerAssumption DEF EpollTypes, Events
<1>1. CASE UNCHANGED <<interest, events, ready, ctx, call, batch>>
  BY <1>1
<1>2. CASE BeginAdd(t, fd, "READ", "cb") \/ BeginDel(t, fd, "READ")
  <2>1. /\ [op |-> "add", fd |-> fd, event |-> "READ", mode |-> "cb"] \in Calls
        /\ [op |-> "del", fd |-> fd, event |-> "READ"] \in Calls
    BY DEF Calls
  <2> QED
    BY <1>2, <2>1 DEF BeginAdd, BeginDel
<1>3. ASSUME call[t] # NoCall, AddEvent(t) PROVE EpollTypes'
  <2>1. call[t].fd \in Fds /\ call[t].event \in Events /\ call[t].mode \in {"cb", "fiber"}
    BY <1>3 DEF AddEvent, Calls
  <2>2. call' \in [Threads -> Calls \cup {NoCall}] /\ batch' = batch
    BY <1>3 DEF AddEvent
  <2>3. CASE UNCHANGED <<interest, events, ready, ctx>>
    BY <2>2, <2>3
  <2>4. CASE ~UNCHANGED <<interest, events, ready, ctx>>
    <3>1. PICK d \in Fds, e \in Events, now \in SUBSET Events, mode \in {"cb", "fiber"} :
            /\ interest' = [interest EXCEPT ![d] = events[d] \cup {e}]
            /\ events' = [events EXCEPT ![d] = events[d] \cup {e}]
            /\ ctx' = [ctx EXCEPT ![d][e] = mode]
            /\ ready' = [ready EXCEPT ![d] = ready[d] \cup now]
      <4> DEFINE d == call[t].fd
                 e == call[t].event
      <4>1. /\ interest' = [interest EXCEPT ![d] = events[d] \cup {e}]
            /\ events' = [events EXCEPT ![d] = events[d] \cup {e}]
            /\ ctx' = [ctx EXCEPT ![d][e] = call[t].mode]
            /\ \E now \in SUBSET {e} : ready' = [ready EXCEPT ![d] = ready[d] \cup now]
        BY <1>3, <2>4 DEF AddEvent, AddMask
      <4>2. PICK now \in SUBSET {e} : ready' = [ready EXCEPT ![d] = ready[d] \cup now]
        BY <4>1
      <4>3. now \in SUBSET Events
        BY <2>1
      <4> QED
        BY <2>1, <4>1, <4>2, <4>3
    <3>2. /\ events[d] \cup {e} \subseteq Events
          /\ ready[d] \cup now \subseteq Events \cup {"HUP"}
      OBVIOUS
    <3> QED
      BY <2>2, <3>1, <3>2, SectionTypes
  <2> QED
    BY <2>3, <2>4
<1>4. ASSUME call[t] # NoCall, DelEvent(t) PROVE EpollTypes'
  <2>1. call[t].fd \in Fds /\ call[t].event \in Events
    BY <1>4 DEF DelEvent, Calls
  <2>2. call' \in [Threads -> Calls \cup {NoCall}] /\ batch' = batch
    BY <1>4 DEF DelEvent
  <2>3. CASE UNCHANGED <<interest, events, ready, ctx>>
    BY <2>2, <2>3
  <2>4. CASE ~UNCHANGED <<interest, events, ready, ctx>>
    <3>1. PICK d \in Fds, e \in Events, kept \in SUBSET (Events \cup {"HUP"}) :
            /\ interest' = [interest EXCEPT ![d] = events[d] \ {e}]
            /\ events' = [events EXCEPT ![d] = events[d] \ {e}]
            /\ ctx' = [ctx EXCEPT ![d][e] = "empty"]
            /\ ready' = [ready EXCEPT ![d] = kept]
      <4> DEFINE d == call[t].fd
                 new == Remaining(d, call[t].event)
                 kept == IF new = {} THEN {} ELSE ready[d] \cap (new \cup {"HUP"})
      <4>1. kept \in SUBSET (Events \cup {"HUP"})
        BY <2>1
      <4>2. /\ interest' = [interest EXCEPT ![d] = new]
            /\ events' = [events EXCEPT ![d] = new]
            /\ ctx' = ResetContext(d, call[t].event)
            /\ ready' = [ready EXCEPT ![d] = kept]
        BY <1>4, <2>4 DEF DelEvent
      <4> QED
        BY <2>1, <4>1, <4>2 DEF Remaining, ResetContext
    <3>2. events[d] \ {e} \subseteq Events
      OBVIOUS
    <3> QED
      BY <2>2, <3>1, <3>2, SectionTypes
  <2> QED
    BY <2>3, <2>4
<1>5. CASE t \in Workers /\ EpollWait(t)
  BY <1>5 DEF EpollWait, EmptyBatch
<1>6. ASSUME t \in Workers, Dispatch(t, fd) PROVE EpollTypes'
  <2>1. Trigger(fd, Real(fd, batch[t][fd])) \in
          [Fds -> [Events -> {"empty", "cb", "fiber", "spent"}]]
    BY DEF Trigger
  <2>2. ctx' \in [Fds -> [Events -> {"empty", "cb", "fiber", "spent"}]]
    BY <1>6, <2>1 DEF Dispatch
  <2>3. batch' \in [Workers -> [Fds -> SUBSET (Events \cup {"HUP"})]]
    BY <1>6 DEF Dispatch
  <2> QED
    BY <1>6, <2>2, <2>3 DEF Dispatch
<1>7. CASE Closing(fd) \/ Edge(fd, flag)
  BY <1>7 DEF Closing, Edge
<1> QED
  BY <1>1, <1>2, <1>3, <1>4, <1>5, <1>6, <1>7

\* What FdEvents knows of the listening descriptor stays.
ListenStays ==
  /\ t_scheduler \subseteq t_scheduler'
  /\ Listen \in stuck' => Listen \in stuck
  /\ Listen \in open => Listen \in open'
  /\ interest'[Listen] = interest[Listen] /\ events'[Listen] = events[Listen]
  /\ ctx'[Listen] = ctx[Listen] /\ ready'[Listen] = ready[Listen]
  /\ \A t \in Workers : batch'[t][Listen] = batch[t][Listen]

\* A step that leaves the listening descriptor, those on their way to it and
\* the main thread where they are.
Elsewhere ==
  /\ ListenStays
  /\ pos'[Main] = pos[Main] /\ nfd'[Main] = nfd[Main] /\ peer'[Listen] = peer[Listen]
  /\ \A t \in Workers : pos'[t] \in Setup \cup Serving => nfd'[t] # Listen
  /\ pos[Main] \in {"boot", "listening"} => \A t \in Workers : pos'[t] = pos[t]
  /\ \A t \in Workers : pos'[t] = "accept" <=> pos[t] = "accept"
  /\ backlog' = backlog /\ Accepts(queue)' = Accepts(queue)

LEMMA ElsewhereKeeps ==
  ASSUME ListenInv, (EpollTypes /\ ServerTypeOK /\ CallsAgree)', Elsewhere
  PROVE  ListenInv'
<1> USE DEF ListenInv, Elsewhere, ListenStays
<1>1. Bound' /\ ListenAlone'
  BY DEF Bound, ListenAlone
<1>2. ListenWatched' /\ ListenEdges'
  BY DEF ListenWatched, ListenEdges, Published
<1>3. EnoughToAccept'
  <2>1. Told' = Told /\ Accepting' = Accepting /\ EdgeCount' = EdgeCount
    BY DEF Told, Accepting, EdgeCount, At
  <2> QED
    BY <2>1 DEF EnoughToAccept
<1> QED
  BY <1>1, <1>2, <1>3

\* Whatever FdEvents does for another descriptor leaves it alone.
LEMMA OtherDescriptor ==
  ASSUME EpollTypes, NEW t \in Threads, NEW fd \in Fds \ {Listen}, NEW flag,
         \/ UNCHANGED <<open, interest, ready, events, ctx, stuck, batch, t_scheduler>>
         \/ BeginAdd(t, fd, "READ", "cb") \/ BeginDel(t, fd, "READ")
         \/ call[t].fd = fd /\ (AddEvent(t) \/ DelEvent(t))
         \/ t \in Workers /\ Dispatch(t, fd)
         \/ Open(fd) \/ Closing(fd) \/ Edge(fd, flag)
  PROVE  ListenStays
<1> USE ServerAssumption DEF ListenStays, EpollTypes
<1>1. CASE UNCHANGED <<open, interest, ready, events, ctx, stuck, batch, t_scheduler>>
  BY <1>1
<1>2. CASE BeginAdd(t, fd, "READ", "cb") \/ BeginDel(t, fd, "READ")
  BY <1>2 DEF BeginAdd, BeginDel
<1>3. CASE call[t].fd = fd /\ AddEvent(t)
  BY <1>3 DEF AddEvent
<1>4. CASE call[t].fd = fd /\ DelEvent(t)
  BY <1>4 DEF DelEvent, ResetContext
<1>5. CASE t \in Workers /\ Dispatch(t, fd)
  BY <1>5 DEF Dispatch, Trigger
<1>6. CASE Open(fd) \/ Closing(fd) \/ Edge(fd, flag)
  BY <1>6 DEF Open, Closing, Edge
<1> QED
  BY <1>1, <1>2, <1>3, <1>4, <1>5, <1>6

\* A worker in the middle of a connection's callback takes a step.
LEMMA WorkElsewhere ==
  ASSUME ListenInv, NEW t \in Workers,
         NEW p \in Setup \cup Serving \cup {"loop", "asleep"},
         pos[t] \in Setup \cup Serving, pos' = [pos EXCEPT ![t] = p],
         UNCHANGED <<nfd, for, queue, backlog>>,
         peer' \in [Fds -> Conns \cup {NoConn}], peer'[Listen] = peer[Listen],
         stage' \in [Conns -> Stages], gone' \in [Conns -> Ways],
         EpollTypes', CallsAgree', ListenStays
  PROVE  ListenInv'
<1> USE ServerAssumption DEF ListenInv
<1>m. /\ Main \in Threads /\ Main \notin Workers
      /\ Workers \subseteq Threads /\ t \in Threads
  BY FdAssumption DEF FdAssumption, Threads
<1>1. pos'[t] = p /\ \A u \in Threads \ {t} : pos'[u] = pos[u]
  BY <1>m DEF ServerTypeOK
<1>2. ServerTypeOK'
  <2>1. p \in WorkerSteps
    BY DEF WorkerSteps
  <2>2. /\ pos' \in [Threads -> MainSteps \cup WorkerSteps]
        /\ \A u \in Workers : pos'[u] \in WorkerSteps
    BY <1>1, <1>m, <2>1 DEF ServerTypeOK
  <2> QED
    BY <2>2 DEF ServerTypeOK
<1>3. Elsewhere
  <2>1. \A u \in Workers : pos'[u] \in Setup \cup Serving => nfd'[u] # Listen
    BY <1>1, <1>m DEF ListenAlone
  <2>2. pos[Main] \notin {"boot", "listening"}
    BY DEF ListenAlone, Setup, Serving
  <2>3. \A u \in Workers : pos'[u] = "accept" <=> pos[u] = "accept"
    BY <1>1, <1>m DEF Setup, Serving
  <2>4. pos'[Main] = pos[Main] /\ Accepts(queue)' = Accepts(queue)
    BY <1>1, <1>m DEF Accepts
  <2> QED
    BY <2>1, <2>2, <2>3, <2>4 DEF Elsewhere
<1> QED
  BY <1>2, <1>3, ElsewhereKeeps

\* What arrives for a connection arrives on its descriptor.
LEMMA NotifyElsewhere ==
  ASSUME ListenInv, NEW c \in Conns, NEW flag \in {"READ", "HUP"}, Notify(c, flag)
  PROVE  EpollTypes' /\ ListenStays /\ call' = call
<1> USE FdAssumption, ServerAssumption DEF ListenInv
<1>1. CASE UNCHANGED vars
  <2>1. UNCHANGED <<open, interest, ready, events, ctx, stuck, batch, t_scheduler, call>>
    BY <1>1 DEF vars
  <2> QED
    BY <2>1 DEF EpollTypes, ListenStays
<1>2. ASSUME NEW fd \in Fds, peer[fd] = c, Edge(fd, flag)
      PROVE  EpollTypes' /\ ListenStays /\ call' = call
  <2>1. fd # Listen /\ Main \in Threads
    BY <1>2 DEF ListenAlone, Threads
  <2>2. EpollTypes'
    BY <1>2, <2>1, EpollTypesKeep
  <2>3. ListenStays
    BY <1>2, <2>1, OtherDescriptor
  <2>4. call' = call
    BY <1>2 DEF Edge
  <2> QED
    BY <2>2, <2>3, <2>4
<1> QED
  BY <1>1, <1>2 DEF Notify, Arrive

\* A thread's call goes along with its steps.
LEMMA CallsFollow ==
  ASSUME ServerTypeOK, EpollTypes, CallsAgree, NEW t \in Threads, NEW p, NEW k,
         pos' = [pos EXCEPT ![t] = p], nfd' = nfd, call' = [call EXCEPT ![t] = k],
         p = "adding" => k = [op |-> "add", fd |-> nfd[t], event |-> "READ",
                              mode |-> "cb"],
         p = "deleting" => k = [op |-> "del", fd |-> nfd[t], event |-> "READ"],
         p \notin {"adding", "deleting"} => k = NoCall
  PROVE  CallsAgree'
<1>1. /\ pos'[t] = p /\ call'[t] = k
      /\ \A u \in Threads \ {t} : pos'[u] = pos[u] /\ call'[u] = call[u]
  BY DEF ServerTypeOK, EpollTypes
<1> QED
  BY <1>1 DEF CallsAgree

LEMMA ListenWork ==
  ASSUME ListenInv, NEW t \in Workers,
         WatchConn(t) \/ Watch(t) \/ Read(t) \/ Reply(t) \/ CallDelete(t)
           \/ Delete(t) \/ CloseConn(t)
  PROVE  ListenInv'
<1> USE FdAssumption, ServerAssumption DEF ListenInv
<1>m. /\ Workers \subseteq Threads /\ t \in Threads /\ t # Main
      /\ nfd[t] \in Fds /\ pos[t] \in WorkerSteps
  BY DEF Threads, ServerTypeOK
<1>n. pos[t] \in Setup \cup Serving => nfd[t] \in Fds \ {Listen}
  BY <1>m DEF ListenAlone
<1>s. /\ stage \in [Conns -> Stages] /\ gone \in [Conns -> Ways]
      /\ peer \in [Fds -> Conns \cup {NoConn}]
  BY DEF ServerTypeOK
<1>1. CASE WatchConn(t)
  <2>1. /\ pos[t] = "watch" /\ pos' = [pos EXCEPT ![t] = "adding"]
        /\ BeginAdd(t, nfd[t], "READ", "cb")
        /\ UNCHANGED <<queue, nfd, for, backlog, peer, stage, gone>>
    BY <1>1 DEF WatchConn, Goto, At
  <2>2. pos[t] \in Setup \cup Serving /\ "adding" \in Setup
    BY <2>1 DEF Setup
  <2>3. EpollTypes' /\ ListenStays
    BY <1>n, <1>m, <2>1, <2>2, EpollTypesKeep, OtherDescriptor
  <2>4. CallsAgree'
    BY <1>m, <2>1, CallsFollow DEF BeginAdd
  <2> QED
    BY <1>s, <2>1, <2>2, <2>3, <2>4, WorkElsewhere
<1>2. CASE CallDelete(t)
  <2>1. /\ pos[t] = "del" /\ pos' = [pos EXCEPT ![t] = "deleting"]
        /\ BeginDel(t, nfd[t], "READ")
        /\ UNCHANGED <<queue, nfd, for, backlog, peer, stage, gone>>
    BY <1>2 DEF CallDelete, Goto, At
  <2>2. pos[t] \in Setup \cup Serving /\ "deleting" \in Serving
    BY <2>1 DEF Serving
  <2>3. EpollTypes' /\ ListenStays
    BY <1>n, <1>m, <2>1, <2>2, EpollTypesKeep, OtherDescriptor
  <2>4. CallsAgree'
    BY <1>m, <2>1, CallsFollow DEF BeginDel
  <2> QED
    BY <1>s, <2>1, <2>2, <2>3, <2>4, WorkElsewhere
<1>3. CASE Watch(t)
  <2>1. /\ pos[t] = "adding" /\ pos' = [pos EXCEPT ![t] = "loop"] /\ AddEvent(t)
        /\ UNCHANGED <<queue, nfd, for, backlog, peer, stage, gone>>
    BY <1>3, <1>m DEF Watch, Goto, At, AfterWatch
  <2>2. pos[t] \in Setup \cup Serving
    BY <2>1 DEF Setup
  <2>3. call[t] # NoCall /\ call[t].fd = nfd[t]
    <3>1. call[t] = [op |-> "add", fd |-> nfd[t], event |-> "READ", mode |-> "cb"]
      BY <1>m, <2>1 DEF CallsAgree
    <3> QED
      BY <3>1 DEF NoCall
  <2>4. EpollTypes' /\ ListenStays
    BY <1>n, <1>m, <2>1, <2>2, <2>3, EpollTypesKeep, OtherDescriptor
  <2>5. CallsAgree'
    BY <1>m, <2>1, CallsFollow DEF AddEvent
  <2> QED
    BY <1>s, <2>1, <2>2, <2>4, <2>5, WorkElsewhere
<1>4. CASE Delete(t)
  <2>1. /\ pos[t] = "deleting" /\ pos' = [pos EXCEPT ![t] = "close"] /\ DelEvent(t)
        /\ UNCHANGED <<queue, nfd, for, backlog, peer, stage, gone>>
    BY <1>4 DEF Delete, Goto, At, AfterDelete
  <2>2. pos[t] \in Setup \cup Serving /\ "close" \in Serving
    BY <2>1 DEF Serving
  <2>3. call[t] # NoCall /\ call[t].fd = nfd[t]
    <3>1. call[t] = [op |-> "del", fd |-> nfd[t], event |-> "READ"]
      BY <1>m, <2>1 DEF CallsAgree
    <3> QED
      BY <3>1 DEF NoCall
  <2>4. EpollTypes' /\ ListenStays
    BY <1>n, <1>m, <2>1, <2>2, <2>3, EpollTypesKeep, OtherDescriptor
  <2>5. CallsAgree'
    BY <1>m, <2>1, CallsFollow DEF DelEvent
  <2> QED
    BY <1>s, <2>1, <2>2, <2>4, <2>5, WorkElsewhere
<1>5. CASE CloseConn(t)
  <2>1. /\ pos[t] = "close" /\ pos' = [pos EXCEPT ![t] = "loop"]
        /\ UNCHANGED <<queue, nfd, for, backlog, stage, gone>>
        /\ \/ Closing(nfd[t]) /\ peer' = [peer EXCEPT ![nfd[t]] = NoConn]
           \/ UNCHANGED <<vars, peer>>
    BY <1>5 DEF CloseConn, Goto, At
  <2>2. pos[t] \in Setup \cup Serving
    BY <2>1 DEF Serving
  <2>3. nfd[t] \in Fds \ {Listen}
    BY <1>n, <2>2
  <2>4. /\ peer' \in [Fds -> Conns \cup {NoConn}] /\ peer'[Listen] = peer[Listen]
    BY <1>s, <2>1, <2>3
  <2>5. EpollTypes' /\ ListenStays /\ call' = call
    <3>1. CASE Closing(nfd[t])
      <4>1. call' = call
        BY <3>1 DEF Closing
      <4> QED
        BY <1>m, <2>3, <3>1, <4>1, EpollTypesKeep, OtherDescriptor
    <3>2. CASE UNCHANGED vars
      BY <3>2 DEF vars, EpollTypes, ListenStays
    <3> QED
      BY <2>1, <3>1, <3>2
  <2>6. CallsAgree'
    <3>1. call[t] = NoCall /\ call' = [call EXCEPT ![t] = NoCall]
      BY <1>m, <2>1, <2>5 DEF CallsAgree, EpollTypes
    <3> QED
      BY <1>m, <2>1, <3>1, CallsFollow
  <2> QED
    BY <1>s, <2>1, <2>2, <2>4, <2>5, <2>6, WorkElsewhere
<1>6. CASE Read(t)
  <2>1. PICK p \in {"reply", "del", "loop"} :
          /\ pos[t] = "read" /\ pos' = [pos EXCEPT ![t] = p]
          /\ UNCHANGED <<vars, queue, nfd, for, backlog, peer, gone>>
    BY <1>6 DEF Read, Goto, At, AtEof
  <2>2. pos[t] \in Setup \cup Serving /\ p \in Setup \cup Serving \cup {"loop", "asleep"}
    BY <2>1 DEF Serving
  <2>3. stage' \in [Conns -> Stages]
    BY <1>6, <1>s DEF Read, Stages
  <2>4. EpollTypes' /\ ListenStays /\ call' = call
    BY <2>1 DEF vars, EpollTypes, ListenStays
  <2>5. CallsAgree'
    <3>1. call[t] = NoCall /\ call' = [call EXCEPT ![t] = NoCall]
      BY <1>m, <2>1, <2>4 DEF CallsAgree, EpollTypes
    <3> QED
      BY <1>m, <2>1, <3>1, CallsFollow
  <2> QED
    BY <1>s, <2>1, <2>2, <2>3, <2>4, <2>5, WorkElsewhere
<1>7. CASE Reply(t)
  <2>1. /\ pos[t] = "reply" /\ pos' = [pos EXCEPT ![t] = "asleep"]
        /\ UNCHANGED <<queue, nfd, for, backlog, peer>>
    BY <1>7 DEF Reply, Goto, At, AfterReply
  <2>2. pos[t] \in Setup \cup Serving
    BY <2>1 DEF Serving
  <2>3. stage' \in [Conns -> Stages]
    BY <1>7, <1>s DEF Reply, Stages
  <2>4. gone' \in [Conns -> Ways]
    BY <1>7, <1>s DEF Reply, Ways
  <2>5. EpollTypes' /\ ListenStays /\ call' = call
    <3>1. CASE UNCHANGED vars
      BY <3>1 DEF vars, EpollTypes, ListenStays
    <3>2. CASE UNCHANGED <<open, interest, ready, events, ctx, stuck, call, batch,
                           t_scheduler>>
      BY <3>2 DEF EpollTypes, ListenStays
    <3>3. ASSUME NEW c \in Conns, Notify(c, "HUP")
          PROVE  EpollTypes' /\ ListenStays /\ call' = call
      BY <3>3, NotifyElsewhere
    <3> QED
      BY <1>7, <3>1, <3>2, <3>3 DEF Reply
  <2>6. CallsAgree'
    <3>1. call[t] = NoCall /\ call' = [call EXCEPT ![t] = NoCall]
      BY <1>m, <2>1, <2>5 DEF CallsAgree, EpollTypes
    <3> QED
      BY <1>m, <2>1, <3>1, CallsFollow
  <2> QED
    BY <1>s, <2>1, <2>2, <2>3, <2>4, <2>5, <2>6, WorkElsewhere
<1> QED
  BY <1>1, <1>2, <1>3, <1>4, <1>5, <1>6, <1>7

LEMMA ListenClients ==
  ASSUME ListenInv, NEW c \in Conns,
         Send(c) \/ \E how \in {"fin", "rst"} : Hangup(c, how)
  PROVE  ListenInv'
<1> USE ServerAssumption DEF ListenInv
<1>1. PICK flag \in {"READ", "HUP"} :
        /\ Notify(c, flag)
        /\ UNCHANGED <<queue, pos, nfd, for, backlog, peer>>
        /\ stage' \in [Conns -> Stages] /\ gone' \in [Conns -> Ways]
  <2>1. CASE Send(c)
    BY <2>1 DEF Send, ServerTypeOK, Stages
  <2>2. ASSUME NEW how \in {"fin", "rst"}, Hangup(c, how)
        PROVE  /\ Notify(c, IF how = "fin" THEN "READ" ELSE "HUP")
               /\ UNCHANGED <<queue, pos, nfd, for, backlog, peer>>
               /\ stage' \in [Conns -> Stages] /\ gone' \in [Conns -> Ways]
    BY <2>2 DEF Hangup, ServerTypeOK, Ways
  <2> QED
    BY <2>1, <2>2
<1>2. EpollTypes' /\ ListenStays /\ call' = call
  BY <1>1, NotifyElsewhere
<1>3. ServerTypeOK' /\ CallsAgree'
  BY <1>1, <1>2 DEF ServerTypeOK, CallsAgree
<1>4. Elsewhere
  BY <1>1, <1>2 DEF Elsewhere, ListenAlone, Accepts
<1> QED
  BY <1>2, <1>3, <1>4, ElsewhereKeeps

\* One more connection in the backlog, one more edge at most.
LEMMA ListenConnect ==
  ASSUME ListenInv, NEW c \in Conns, Connect(c)
  PROVE  ListenInv'
<1> USE FdAssumption, ServerAssumption DEF ListenInv
<1>1. /\ pos[Main] = "loop"
      /\ stage' = [stage EXCEPT ![c] = "connected"]
      /\ backlog' = Append(backlog, c)
      /\ UNCHANGED <<queue, pos, nfd, for, peer, gone>>
      /\ UNCHANGED <<open, interest, events, ctx, stuck, call, batch, t_scheduler>>
      /\ \/ ready' = ready
         \/ ready' = [ready EXCEPT ![Listen] = @ \cup {"READ"}]
  BY DEF Connect, At, Arrive, Edge, vars
<1>2. /\ Len(backlog) \in Nat /\ backlog' \in Seq(Conns)
      /\ Len(backlog') = Len(backlog) + 1
  BY <1>1, AppendProperties, LenProperties DEF ServerTypeOK
<1>3. ServerTypeOK' /\ CallsAgree' /\ Bound'
  BY <1>1, <1>2 DEF ServerTypeOK, CallsAgree, Bound, Stages
<1>4. EpollTypes'
  BY <1>1 DEF EpollTypes, Events
<1>5. ListenAlone' /\ ListenWatched'
  BY <1>1 DEF ListenAlone, ListenWatched, Published
<1>6. ListenEdges'
  BY <1>1 DEF ListenEdges, Published, EpollTypes
<1>7. EnoughToAccept'
  <2>1. /\ Accepting' = Accepting /\ Told' = Told
        /\ Accepts(queue)' = Accepts(queue)
    BY <1>1 DEF Accepting, Told, Accepts, At
  <2>2. EdgeCount \in 0 .. 1 /\ EdgeCount' \in 0 .. 1
    BY DEF EdgeCount
  <2> QED
    BY <1>2, <2>1, <2>2, Counts DEF EnoughToAccept
<1> QED
  BY <1>3, <1>4, <1>5, <1>6, <1>7

LEMMA ListenIdle ==
  ASSUME ListenInv, NEW t \in Workers, Idle(t) \/ ReportNothing(t)
  PROVE  ListenInv'
<1> USE FdAssumption, ServerAssumption DEF ListenInv
<1>m. /\ Main \in Threads /\ Main \notin Workers
      /\ Workers \subseteq Threads /\ t \in Threads
  BY DEF Threads
<1>1. PICK p \in {"loop", "wait"} :
        /\ pos[t] \in {"loop", "wait"} /\ pos' = [pos EXCEPT ![t] = p]
        /\ UNCHANGED <<vars, queue, nfd, for, backlog, peer, stage, gone>>
  BY DEF Idle, ReportNothing, Goto, At
<1>2. pos'[t] = p /\ \A u \in Threads \ {t} : pos'[u] = pos[u]
  BY <1>m, <1>1 DEF ServerTypeOK
<1>3. EpollTypes' /\ ListenStays /\ call' = call
  BY <1>1 DEF vars, EpollTypes, ListenStays
<1>4. ServerTypeOK'
  BY <1>m, <1>1 DEF ServerTypeOK, WorkerSteps
<1>5. CallsAgree'
  BY <1>1, <1>2, <1>3, <1>m DEF CallsAgree
<1>6. Elsewhere
  <2>1. \A u \in Workers : pos'[u] \in Setup \cup Serving => nfd'[u] # Listen
    BY <1>1, <1>2, <1>m DEF ListenAlone, Setup, Serving
  <2>2. pos[Main] \notin {"boot", "listening"}
    BY <1>1 DEF ListenAlone
  <2>3. \A u \in Workers : pos'[u] = "accept" <=> pos[u] = "accept"
    BY <1>1, <1>2, <1>m
  <2>4. pos'[Main] = pos[Main] /\ Accepts(queue)' = Accepts(queue)
    BY <1>1, <1>2, <1>m DEF Accepts
  <2> QED
    BY <1>1, <1>3, <2>1, <2>2, <2>3, <2>4 DEF Elsewhere
<1> QED
  BY <1>3, <1>4, <1>5, <1>6, ElsewhereKeeps

\* The edge of the listening descriptor moves into the worker's batch.
LEMMA ListenReport ==
  ASSUME ListenInv, NEW t \in Workers, Report(t)
  PROVE  ListenInv'
<1> USE FdAssumption, ServerAssumption DEF ListenInv
<1>m. /\ Main \in Threads /\ Main \notin Workers
      /\ Workers \subseteq Threads /\ t \in Threads
  BY DEF Threads
<1>1. /\ pos[t] = "wait" /\ batch[t] = EmptyBatch
      /\ EpollWait(t)
      /\ batch' = [batch EXCEPT ![t] = ready] /\ ready' = EmptyBatch
      /\ UNCHANGED <<queue, nfd, for, backlog, peer, stage, gone>>
      /\ UNCHANGED <<open, interest, events, ctx, call, stuck, t_scheduler>>
      /\ pos' = [pos EXCEPT ![t] = "loop"]
  BY DEF Report, EpollWait, Free, At, Goto
<1>2. pos'[t] = "loop" /\ \A u \in Threads \ {t} : pos'[u] = pos[u]
  BY <1>m, <1>1 DEF ServerTypeOK
<1>3. /\ ready'[Listen] = {} /\ batch[t][Listen] = {}
      /\ \A u \in Workers :
           batch'[u][Listen] = IF u = t THEN ready[Listen] ELSE batch[u][Listen]
  BY <1>1 DEF EmptyBatch, EpollTypes
<1>4. EpollTypes'
  BY <1>1, <1>m, EpollTypesKeep
<1>5. ServerTypeOK'
  BY <1>m, <1>1 DEF ServerTypeOK, WorkerSteps
<1>6. CallsAgree' /\ Bound'
  BY <1>1, <1>2, <1>m DEF CallsAgree, Bound
<1>7. ListenAlone'
  BY <1>1, <1>2, <1>m DEF ListenAlone, Setup, Serving
<1>8. ListenWatched' /\ ListenEdges'
  BY <1>1, <1>2, <1>3, <1>m DEF ListenWatched, ListenEdges, Published
<1>9. EnoughToAccept'
  <2>1. /\ Accepting' = Accepting /\ Accepts(queue)' = Accepts(queue)
        /\ backlog' = backlog
    BY <1>1, <1>2, <1>m DEF Accepting, Accepts, At
  <2>2. EdgeCount' = 0 /\ t \notin Told
    BY <1>3 DEF EdgeCount, Told
  <2>3. /\ Cardinality(Told') \in Nat
        /\ Cardinality(Told') <= Cardinality(Told) + EdgeCount
    <3>1. CASE ready[Listen] = {}
      <4>1. Told' = Told
        BY <1>3, <3>1 DEF Told
      <4> QED
        BY <3>1, <4>1, Counts DEF EdgeCount
    <3>2. CASE ready[Listen] # {}
      <4>1. Told' = Told \cup {t}
        BY <1>3, <3>2 DEF Told
      <4>2. Cardinality(Told \cup {t}) = Cardinality(Told) + 1
        BY <2>2, Counts, FS_AddElement
      <4> QED
        BY <3>2, <4>1, <4>2, Counts DEF EdgeCount
    <3> QED
      BY <3>1, <3>2
  <2>4. EdgeCount \in 0 .. 1
    BY DEF EdgeCount
  <2> QED
    BY <2>1, <2>2, <2>3, <2>4, Counts DEF EnoughToAccept
<1> QED
  BY <1>4, <1>5, <1>6, <1>7, <1>8, <1>9

\* A dispatch for the listening descriptor becomes an entry for Accept; any other
\* one, stale or not, adds none.
LEMMA ListenSchedule ==
  ASSUME ListenInv, NEW t \in Workers, NEW fd0 \in Fds, Schedule(t, fd0)
  PROVE  ListenInv'
<1> USE FdAssumption, ServerAssumption DEF ListenInv
<1> DEFINE n == Len(queue) + 1
           entry == [fd |-> fd0, conn |-> peer[fd0]]
<1>m. Workers \subseteq Threads /\ t \in Threads
  BY DEF Threads
<1>1. /\ Dispatch(t, fd0) /\ batch[t][fd0] # {} /\ call' = call
      /\ queue' = queue \/ queue' = Append(queue, entry)
      /\ events[fd0] \cap Real(fd0, batch[t][fd0]) # {} => queue' = Append(queue, entry)
      /\ UNCHANGED <<pos, nfd, for, backlog, peer, stage, gone>>
  BY DEF Schedule, Dispatch
<1>2. /\ Len(queue) \in Nat /\ DOMAIN queue = 1 .. Len(queue)
      /\ queue' \in Seq(Entries)
      /\ queue' = Append(queue, entry) =>
           /\ DOMAIN queue' = 1 .. n /\ queue'[n].fd = fd0
           /\ \A i \in 1 .. Len(queue) : queue'[i] = queue[i]
  <2>1. entry \in Entries /\ queue \in Seq(Entries)
    BY DEF Entries, ServerTypeOK
  <2>2. Len(queue) \in Nat /\ DOMAIN queue = 1 .. Len(queue)
    BY <2>1, LenProperties
  <2>3. /\ Append(queue, entry) \in Seq(Entries) /\ Len(Append(queue, entry)) = n
        /\ Append(queue, entry)[n] = entry
        /\ \A i \in 1 .. Len(queue) : Append(queue, entry)[i] = queue[i]
    BY <2>1, AppendProperties
  <2>4. DOMAIN Append(queue, entry) = 1 .. n
    BY <2>3, LenProperties
  <2> QED
    BY <1>1, <2>1, <2>2, <2>3, <2>4
<1>3. EpollTypes'
  BY <1>1, <1>m, EpollTypesKeep
<1>4. ServerTypeOK' /\ CallsAgree'
  BY <1>1, <1>2 DEF ServerTypeOK, CallsAgree
<1>5. CASE fd0 # Listen
  <2>1. ListenStays
    BY <1>1, <1>5, <1>m, OtherDescriptor
  <2>2. Accepts(queue)' = Accepts(queue)
    BY <1>1, <1>2, <1>5 DEF Accepts
  <2>3. Elsewhere
    BY <1>1, <2>1, <2>2 DEF Elsewhere, ListenAlone
  <2> QED
    BY <1>3, <1>4, <2>3, ElsewhereKeeps
<1>6. CASE fd0 = Listen
  <2>1. batch[t][Listen] = {"READ"} /\ events[Listen] = {"READ"}
    BY <1>1, <1>6 DEF ListenEdges, ListenWatched
  <2>2. Real(Listen, batch[t][Listen]) = {"READ"}
    BY <2>1 DEF Real, Events
  <2>3. queue' = Append(queue, entry)
    BY <1>1, <1>6, <2>1, <2>2
  <2>4. /\ batch' = [batch EXCEPT ![t][Listen] = {}]
        /\ UNCHANGED <<open, interest, ready, events, stuck, t_scheduler>>
    BY <1>1, <1>6, <2>1, <2>2 DEF Dispatch
  <2>5. Published
    BY <2>1 DEF ListenEdges
  <2>6. Bound' /\ ListenAlone'
    BY <1>1, <2>4 DEF Bound, ListenAlone
  <2>7. ListenWatched'
    BY <1>1, <2>4, <2>5 DEF ListenWatched, Published
  <2>8. \A u \in Workers : batch'[u][Listen] = IF u = t THEN {} ELSE batch[u][Listen]
    BY <2>4 DEF EpollTypes
  <2>9. ListenEdges'
    BY <1>1, <2>4, <2>5, <2>8 DEF ListenEdges, Published
  <2>10. EnoughToAccept'
    <3>1. /\ Accepting' = Accepting /\ EdgeCount' = EdgeCount /\ backlog' = backlog
      BY <1>1, <2>4 DEF Accepting, EdgeCount, At
    <3>2. EdgeCount \in 0 .. 1
      BY DEF EdgeCount
    <3>3. Told' = Told \ {t} /\ t \in Told
      BY <2>1, <2>8 DEF Told
    <3>4. Cardinality(Told \ {t}) = Cardinality(Told) - 1
      BY <3>3, Counts, FS_RemoveElement
    <3>5. Accepts(queue)' = Accepts(queue) \cup {n} /\ n \notin Accepts(queue)
      BY <1>2, <1>6, <2>3 DEF Accepts
    <3>6. Cardinality(Accepts(queue) \cup {n}) = Cardinality(Accepts(queue)) + 1
      BY <3>5, Counts, FS_AddElement
    <3>7. /\ Cardinality(Told') = Cardinality(Told) - 1
          /\ Cardinality(Accepts(queue)') = Cardinality(Accepts(queue)) + 1
      BY <3>3, <3>4, <3>5, <3>6
    <3> QED
      BY <3>1, <3>2, <3>7, Counts DEF EnoughToAccept
  <2> QED
    BY <1>3, <1>4, <2>6, <2>7, <2>9, <2>10
<1> QED
  BY <1>5, <1>6

LEMMA ListenTake ==
  ASSUME ListenInv, NEW t \in Workers, Take(t)
  PROVE  ListenInv'
<1> USE FdAssumption, ServerAssumption DEF ListenInv
<1> DEFINE entry == queue[1]
           step == IF entry.fd = Listen THEN "accept" ELSE "read"
<1>m. /\ Main \in Threads /\ Main \notin Workers
      /\ Workers \subseteq Threads /\ t \in Threads
  BY DEF Threads
<1>1. /\ pos[t] = "loop" /\ call[t] = NoCall
      /\ queue # << >> /\ queue' = Tail(queue)
      /\ pos' = [pos EXCEPT ![t] = step]
      /\ nfd' = [nfd EXCEPT ![t] = entry.fd]
      /\ for' = [for EXCEPT ![t] = entry.conn]
      /\ UNCHANGED <<vars, backlog, peer, stage, gone>>
  BY QueueTail DEF Take, At, Free, Goto, NowFd
<1>2. entry.fd \in Fds /\ entry.conn \in Conns \cup {NoConn}
  BY <1>1, QueueTail DEF Entries
<1>3. /\ pos'[t] = step /\ nfd'[t] = entry.fd
      /\ \A u \in Threads \ {t} : pos'[u] = pos[u] /\ nfd'[u] = nfd[u]
  BY <1>1, <1>m DEF ServerTypeOK
<1>4. ServerTypeOK'
  <2>1. queue' \in Seq(Entries)
    BY <1>1, QueueTail
  <2>2. step \in WorkerSteps
    BY DEF WorkerSteps, Serving
  <2>3. /\ pos' \in [Threads -> MainSteps \cup WorkerSteps]
        /\ \A u \in Workers : pos'[u] \in WorkerSteps
    BY <1>1, <1>m, <2>2 DEF ServerTypeOK
  <2> QED
    BY <1>1, <1>2, <2>1, <2>3 DEF ServerTypeOK
<1>5. EpollTypes' /\ Bound'
  BY <1>1, <1>3, <1>m DEF vars, EpollTypes, Bound
<1>6. CallsAgree'
  <2>1. call' = call /\ pos'[t] \notin {"adding", "deleting"}
    BY <1>1, <1>3 DEF vars
  <2> QED
    BY <1>1, <1>3, <2>1 DEF CallsAgree
<1>7. ListenAlone'
  BY <1>1, <1>3, <1>m DEF ListenAlone, Setup, Serving, vars
<1>8. ListenWatched' /\ ListenEdges'
  BY <1>1, <1>3, <1>m DEF ListenWatched, ListenEdges, Published, vars
<1>9. EnoughToAccept'
  <2>1. Told' = Told /\ EdgeCount' = EdgeCount /\ backlog' = backlog
    BY <1>1 DEF Told, EdgeCount, vars
  <2>2. Accepts(queue)' = Accepts(Tail(queue))
    BY <1>1 DEF Accepts
  <2>3. EdgeCount \in 0 .. 1
    BY DEF EdgeCount
  <2>4. CASE entry.fd = Listen
    <3>1. Accepting' = Accepting \cup {t} /\ t \notin Accepting
      BY <1>1, <1>3, <1>m, <2>4 DEF Accepting, At
    <3>2. Cardinality(Accepting \cup {t}) = Cardinality(Accepting) + 1
      BY <3>1, Counts, FS_AddElement
    <3>3. Cardinality(Accepts(queue)') = Cardinality(Accepts(queue)) - 1
      BY <1>1, <2>2, <2>4, AcceptsTail
    <3>4. Cardinality(Accepting') = Cardinality(Accepting) + 1
      BY <3>1, <3>2
    <3> QED
      BY <2>1, <2>3, <3>3, <3>4, Counts DEF EnoughToAccept
  <2>5. CASE entry.fd # Listen
    <3>1. Accepting' = Accepting
      BY <1>1, <1>3, <1>m, <2>5 DEF Accepting, At
    <3>2. Cardinality(Accepts(queue)') = Cardinality(Accepts(queue))
      BY <1>1, <2>2, <2>5, AcceptsTail
    <3> QED
      BY <2>1, <3>1, <3>2 DEF EnoughToAccept
  <2> QED
    BY <2>4, <2>5
<1> QED
  BY <1>4, <1>5, <1>6, <1>7, <1>8, <1>9

LEMMA ListenAccept ==
  ASSUME ListenInv, NEW t \in Workers, Accept(t)
  PROVE  ListenInv'
<1> USE FdAssumption, ServerAssumption DEF ListenInv
<1> DEFINE c == Head(backlog)
<1>m. /\ Main \in Threads /\ Main \notin Workers
      /\ Workers \subseteq Threads /\ t \in Threads
  BY DEF Threads
<1>1. PICK fd0 \in Fds \ {Listen} :
        /\ pos[t] = "accept" /\ backlog # << >> /\ Open(fd0)
        /\ nfd' = [nfd EXCEPT ![t] = fd0]
        /\ peer' = [peer EXCEPT ![fd0] = c]
        /\ backlog' = Tail(backlog)
        /\ pos' = [pos EXCEPT ![t] = "watch"]
        /\ UNCHANGED <<queue, for, stage, gone>>
  BY DEF Accept, At, Goto, AfterAccept
<1>2. /\ c \in Conns /\ Len(backlog) \in Nat \ {0}
      /\ backlog' \in Seq(Conns) /\ Len(backlog') = Len(backlog) - 1
  <2>1. backlog \in Seq(Conns)
    BY DEF ServerTypeOK
  <2> QED
    BY <1>1, <2>1, EmptySeq, LenProperties, HeadTailProperties
<1>3. /\ pos'[t] = "watch" /\ nfd'[t] = fd0
      /\ \A u \in Threads \ {t} : pos'[u] = pos[u] /\ nfd'[u] = nfd[u]
      /\ peer'[Listen] = peer[Listen]
  BY <1>1, <1>m DEF ServerTypeOK
<1>4. /\ UNCHANGED <<interest, ready, events, ctx, stuck, call, batch, t_scheduler>>
      /\ open \subseteq open'
  BY <1>1 DEF Open
<1>5. pos[Main] = "loop" /\ pos'[Main] = "loop"
  BY <1>1, <1>3, <1>m DEF ListenWatched
<1>6. ServerTypeOK'
  BY <1>1, <1>2, <1>m DEF ServerTypeOK, WorkerSteps, Setup
<1>7. EpollTypes' /\ Bound'
  BY <1>4, <1>5 DEF EpollTypes, Bound
<1>8. CallsAgree'
  <2>1. call[t] = NoCall
    BY <1>1, <1>m DEF CallsAgree
  <2> QED
    BY <1>3, <1>4, <2>1 DEF CallsAgree
<1>9. ListenAlone'
  BY <1>3, <1>5, <1>m DEF ListenAlone
<1>10. ListenWatched' /\ ListenEdges'
  BY <1>4, <1>5 DEF ListenWatched, ListenEdges, Published
<1>11. EnoughToAccept'
  <2>1. /\ Told' = Told /\ EdgeCount' = EdgeCount
        /\ Accepts(queue)' = Accepts(queue)
    BY <1>1, <1>4 DEF Told, EdgeCount, Accepts
  <2>2. EdgeCount \in 0 .. 1
    BY DEF EdgeCount
  <2>3. Accepting' = Accepting \ {t} /\ t \in Accepting
    BY <1>1, <1>3, <1>m DEF Accepting, At
  <2>4. Cardinality(Accepting \ {t}) = Cardinality(Accepting) - 1
    BY <2>3, Counts, FS_RemoveElement
  <2>5. Cardinality(Accepting') = Cardinality(Accepting) - 1
    BY <2>3, <2>4
  <2> QED
    BY <1>2, <2>1, <2>2, <2>5, Counts DEF EnoughToAccept
<1> QED
  BY <1>6, <1>7, <1>8, <1>9, <1>10, <1>11

\* The constructor, up to and after addEvent for the listening descriptor.
LEMMA ListenBoot ==
  ASSUME ListenInv, Boot, ~Watch(Main)
  PROVE  ListenInv'
<1> USE FdAssumption, ServerAssumption DEF ListenInv
<1>m. /\ Main \in Threads /\ Main \notin Workers /\ Workers \subseteq Threads
      /\ nfd[Main] = Listen /\ Listen \in Fds
  BY DEF Threads, ListenAlone
<1>1. CASE CreateIOManager
  <2>1. /\ pos[Main] = "listening"
        /\ pos' = [t \in Threads |-> IF t \in Workers THEN "loop" ELSE "started"]
        /\ UNCHANGED <<open, interest, ready, events, ctx, stuck, call, batch,
                       t_scheduler, queue, nfd, for, backlog, peer, stage, gone>>
    BY <1>1 DEF CreateIOManager, vars, At
  <2>2. /\ pos'[Main] = "started"
        /\ \A t \in Workers : pos[t] = "unborn" /\ pos'[t] = "loop"
    BY <1>m, <2>1 DEF ListenAlone
  <2>3. ServerTypeOK'
    BY <1>m, <2>1 DEF ServerTypeOK, MainSteps, WorkerSteps
  <2>4. EpollTypes' /\ Bound'
    BY <2>1, <2>2 DEF EpollTypes, Bound
  <2>5. CallsAgree'
    BY <1>m, <2>1, <2>2 DEF CallsAgree, Threads
  <2>6. ListenAlone' /\ ListenWatched' /\ ListenEdges'
    BY <2>1, <2>2 DEF ListenAlone, ListenWatched, ListenEdges, Published, MainSteps,
         Setup, Serving
  <2>7. EnoughToAccept'
    <3>1. /\ Accepting' = Accepting /\ Told' = Told /\ EdgeCount' = EdgeCount
          /\ Accepts(queue)' = Accepts(queue)
      BY <2>1, <2>2 DEF Accepting, Told, EdgeCount, Accepts, At
    <3> QED
      BY <2>1, <3>1 DEF EnoughToAccept
  <2> QED
    BY <2>3, <2>4, <2>5, <2>6, <2>7
<1>2. CASE StartListening \/ Bind \/ WatchListen \/ Setthis
  <2>1. PICK p \in {"listening", "bound", "adding", "loop"} :
          /\ pos' = [pos EXCEPT ![Main] = p] /\ nfd' = nfd
          /\ \/ pos[Main] = "boot" /\ p = "listening" /\ Listen \in open'
             \/ pos[Main] = "started" /\ p = "bound" /\ Main \in t_scheduler'
             \/ pos[Main] = "bound" /\ p = "adding"
             \/ pos[Main] = "publish" /\ p = "loop"
          /\ call' = IF p = "adding"
                     THEN [call EXCEPT ![Main] = [op |-> "add", fd |-> Listen,
                                                  event |-> "READ", mode |-> "cb"]]
                     ELSE call
          /\ open \subseteq open' /\ t_scheduler \subseteq t_scheduler'
          /\ UNCHANGED <<interest, ready, events, ctx, stuck, batch>>
          /\ UNCHANGED <<queue, for, backlog, peer, stage, gone>>
    <3>1. CASE StartListening
      BY <3>1 DEF StartListening, Open, Goto, At
    <3>2. CASE Bind
      BY <3>2 DEF Bind, SetThis, Goto, At
    <3>3. CASE WatchListen
      <4>1. nfd' = nfd
        BY <1>m, <3>3 DEF WatchListen, ServerTypeOK
      <4> QED
        BY <3>3, <4>1 DEF WatchListen, BeginAdd, Goto, At
    <3>4. CASE Setthis
      BY <3>4 DEF Setthis, vars, Goto, At
    <3> QED
      BY <1>2, <3>1, <3>2, <3>3, <3>4
  <2>2. pos'[Main] = p /\ \A u \in Threads \ {Main} : pos'[u] = pos[u]
    BY <1>m, <2>1 DEF ServerTypeOK
  <2>3. ServerTypeOK'
    BY <1>m, <2>1, <2>2 DEF ServerTypeOK, MainSteps
  <2>4. EpollTypes'
    <3>1. [op |-> "add", fd |-> Listen, event |-> "READ", mode |-> "cb"] \in Calls
      BY <1>m DEF Calls, Events
    <3> QED
      BY <2>1, <3>1 DEF EpollTypes
  <2>5. CallsAgree'
    <3>1. CASE p = "adding"
      <4>1. call' = [call EXCEPT ![Main] = [op |-> "add", fd |-> nfd[Main],
                                            event |-> "READ", mode |-> "cb"]]
        BY <1>m, <2>1, <3>1
      <4> QED
        BY <1>m, <2>1, <3>1, <4>1, CallsFollow
    <3>2. CASE p # "adding"
      <4>1. call[Main] = NoCall /\ call' = [call EXCEPT ![Main] = NoCall]
        BY <1>m, <2>1, <3>2 DEF CallsAgree, EpollTypes
      <4> QED
        BY <1>m, <2>1, <3>2, <4>1, CallsFollow
    <3> QED
      BY <3>1, <3>2
  <2>6. Bound'
    BY <2>1, <2>2 DEF Bound
  <2>7. ListenAlone'
    BY <1>m, <2>1, <2>2 DEF ListenAlone, MainSteps
  <2>8. ListenWatched' /\ ListenEdges'
    BY <2>1, <2>2 DEF ListenWatched, ListenEdges, Published
  <2>9. EnoughToAccept'
    <3>1. \A t \in Workers : pos'[t] = pos[t]
      BY <1>m, <2>2
    <3>2. /\ Accepting' = Accepting /\ Told' = Told /\ EdgeCount' = EdgeCount
          /\ Accepts(queue)' = Accepts(queue)
      BY <2>1, <3>1 DEF Accepting, Told, EdgeCount, Accepts, At
    <3> QED
      BY <2>1, <3>2 DEF EnoughToAccept
  <2> QED
    BY <2>3, <2>4, <2>5, <2>6, <2>7, <2>8, <2>9
<1> QED
  BY <1>1, <1>2 DEF Boot

\* addEvent for the listening descriptor succeeds: epoll does not know it, its
\* context is free and the main thread has a scheduler.  Nobody has connected.
LEMMA ListenIsWatched ==
  ASSUME ListenInv, Watch(Main)
  PROVE  ListenInv'
<1> USE FdAssumption, ServerAssumption DEF ListenInv
<1>m. /\ Main \in Threads /\ Main \notin Workers /\ Workers \subseteq Threads
      /\ nfd[Main] = Listen /\ Listen \in Fds
  BY DEF Threads, ListenAlone
<1>1. /\ pos[Main] = "adding" /\ pos' = [pos EXCEPT ![Main] = "publish"]
      /\ AddEvent(Main) /\ UNCHANGED <<queue, nfd, for, backlog, peer, stage, gone>>
      /\ fate' = "ok" => ready' = [ready EXCEPT ![Listen] =
                             IF Level(Listen) THEN {"READ"} ELSE @]
  BY <1>m DEF Watch, Goto, At, AfterWatch
<1>2. pos'[Main] = "publish" /\ \A u \in Threads \ {Main} : pos'[u] = pos[u]
  BY <1>m, <1>1 DEF ServerTypeOK
<1>3. /\ call[Main] # NoCall /\ call[Main].fd = Listen /\ call[Main].op = "add"
      /\ call[Main].event = "READ" /\ call[Main].mode = "cb"
  <2>1. call[Main] = [op |-> "add", fd |-> Listen, event |-> "READ", mode |-> "cb"]
    BY <1>m, <1>1 DEF CallsAgree
  <2> QED
    BY <2>1 DEF NoCall
<1>4. /\ interest[Listen] = {} /\ events[Listen] = {} /\ backlog = << >>
      /\ ctx[Listen]["READ"] = "empty" /\ Listen \in open /\ Main \in t_scheduler
  BY <1>1 DEF ListenWatched, Published, Bound
<1>5. /\ interest' = [interest EXCEPT ![Listen] = {"READ"}]
      /\ events' = [events EXCEPT ![Listen] = {"READ"}]
      /\ call' = [call EXCEPT ![Main] = NoCall]
      /\ UNCHANGED <<open, stuck, batch, t_scheduler, fate>>
      /\ fate = "ok"
  <2>1. CtlOk(Listen, "ADD")
    BY <1>4 DEF CtlOk
  <2>2. AddMask(Listen, "READ") = {"READ"}
    BY <1>4 DEF AddMask
  <2>3. /\ interest' = [interest EXCEPT ![Listen] = AddMask(Listen, "READ")]
        /\ events' = [events EXCEPT ![Listen] = events[Listen] \cup {"READ"}]
        /\ call' = [call EXCEPT ![Main] = NoCall]
        /\ UNCHANGED <<open, stuck, batch, t_scheduler, fate>>
        /\ fate = "ok"
    BY <1>1, <1>3, <1>4, <2>1 DEF AddEvent
  <2> QED
    BY <1>4, <2>2, <2>3
<1>6. ready' = ready
  <2>1. ~Level(Listen)
    BY <1>4 DEF Level
  <2> QED
    BY <1>1, <1>5, <2>1 DEF EpollTypes
<1>7. EpollTypes'
  BY <1>m, <1>1, <1>3, EpollTypesKeep
<1>8. ServerTypeOK'
  BY <1>m, <1>1 DEF ServerTypeOK, MainSteps
<1>9. CallsAgree'
  BY <1>m, <1>1, <1>5, CallsFollow
<1>10. Bound' /\ ListenAlone'
  BY <1>m, <1>1, <1>2, <1>4, <1>5 DEF Bound, ListenAlone, MainSteps
<1>11. ListenWatched'
  <2>1. interest'[Listen] = {"READ"} /\ events'[Listen] = {"READ"}
    BY <1>m, <1>5 DEF EpollTypes
  <2> QED
    BY <1>1, <1>2, <1>4, <1>5, <2>1 DEF ListenWatched, Published
<1>12. ListenEdges'
  BY <1>1, <1>2, <1>5, <1>6 DEF ListenEdges, Published
<1>13. EnoughToAccept'
  <2>1. \A t \in Workers : pos'[t] = pos[t]
    BY <1>m, <1>2
  <2>2. /\ Accepting' = Accepting /\ Told' = Told /\ EdgeCount' = EdgeCount
        /\ Accepts(queue)' = Accepts(queue)
    BY <1>1, <1>5, <1>6, <2>1 DEF Accepting, Told, EdgeCount, Accepts, At
  <2> QED
    BY <1>1, <2>2 DEF EnoughToAccept
<1> QED
  BY <1>7, <1>8, <1>9, <1>10, <1>11, <1>12, <1>13

LEMMA InitListen == ServerInit => ListenInv
<1> SUFFICES ASSUME ServerInit PROVE ListenInv
  OBVIOUS
<1> USE FdAssumption, ServerAssumption DEF ServerInit, Init
<1>1. Main \in Threads /\ Main \notin Workers
  BY DEF Threads
<1>2. ServerTypeOK /\ CallsAgree /\ Bound /\ EnoughToAccept
  BY InitServer DEF ServerInv, SocketInv
<1>3. EpollTypes
  BY DEF EpollTypes, EmptyBatch, Events
<1>4. ListenAlone /\ ListenWatched /\ ListenEdges
  BY <1>1 DEF ListenAlone, ListenWatched, ListenEdges, Published, MainSteps, Setup,
       Serving, EmptyBatch, Threads, Events
<1> QED
  BY <1>2, <1>3, <1>4 DEF ListenInv

LEMMA ListenStep == ListenInv /\ [ServerNext]_allVars => ListenInv'
<1> SUFFICES ASSUME ListenInv, [ServerNext]_allVars PROVE ListenInv'
  OBVIOUS
<1>1. CASE Boot
  BY <1>1, ListenBoot, ListenIsWatched
<1>2. ASSUME NEW t \in Workers, Callback(t) PROVE ListenInv'
  BY <1>2, ListenTake, ListenAccept, ListenWork DEF Callback
<1>3. ASSUME NEW t \in Workers, IdleLoop(t) PROVE ListenInv'
  BY <1>3, ListenIdle, ListenReport, ListenSchedule DEF IdleLoop
<1>4. ASSUME NEW c \in Conns,
             Connect(c) \/ Send(c) \/ \E how \in {"fin", "rst"} : Hangup(c, how)
      PROVE  ListenInv'
  BY <1>4, ListenConnect, ListenClients
<1>5. CASE UNCHANGED allVars
  <2> USE <1>5 DEF allVars, serverVars, vars
  <2>1. EpollTypes' /\ ServerTypeOK' /\ CallsAgree'
    BY DEF ListenInv, EpollTypes, ServerTypeOK, CallsAgree
  <2>2. Elsewhere
    BY DEF ListenInv, Elsewhere, ListenStays, ListenAlone, Accepts
  <2> QED
    BY <2>1, <2>2, ElsewhereKeeps
<1> QED
  BY <1>1, <1>2, <1>3, <1>4, <1>5 DEF ServerNext

\* Whatever the clients do, the server goes on listening: the listening
\* descriptor stays open and watched, its mutex is not left locked, and for every
\* worker in accept there is a connection in the backlog.
THEOREM ServerListens == ServerSpec => []ListenSurvives
<1>1. ASSUME ListenInv PROVE ListenSurvives
  <2> USE <1>1, ServerAssumption DEF ListenInv
  <2>1. ASSUME NEW t \in Workers, At(t, "accept") PROVE backlog # << >>
    <3>1. Accepting # {}
      BY <2>1 DEF Accepting
    <3>2. Cardinality(Accepting) # 0
      BY <3>1, Counts, FS_EmptySet
    <3>3. EdgeCount \in Nat
      BY DEF EdgeCount
    <3>4. Len(backlog) # 0
      BY <3>2, <3>3, Counts DEF EnoughToAccept
    <3> QED
      BY <3>4
  <2>2. Listen \notin stuck
    BY DEF ListenWatched
  <2>3. At(Main, "loop") => Listen \in open /\ interest[Listen] = {"READ"}
    BY DEF ListenWatched, Published, At
  <2> QED
    BY <2>1, <2>2, <2>3 DEF ListenSurvives
<1>2. ListenInv => ListenSurvives
  BY <1>1
<1> QED
  BY <1>2, InitListen, ListenStep, PTL DEF ServerSpec

=============================================================================
