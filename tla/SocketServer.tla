---------------------------- MODULE SocketServer ----------------------------
(***************************************************************************)
(* Socket: a TCP server on top of FdEvents.  The main thread listens and   *)
(* watches the listening descriptor; the workers accept connections and    *)
(* run the callback of main.cpp, which reads once, replies, and deletes    *)
(* and closes the descriptor at end of file.                               *)
(*                                                                         *)
(* A callback is in the work list from the dispatch until a worker takes   *)
(* it; a worker goes to wait in epoll_wait when it finds the list empty,   *)
(* and gets its events whatever has been listed since.  Reads and accepts  *)
(* are blocking calls, and a worker that has replied never comes back.     *)
(* Descriptors running out are left out.                                   *)
(*                                                                         *)
(* The clients are those of client.cpp: connect, send one request, wait    *)
(* for the reply, close.  Their process may end at any time: connections   *)
(* are closed or reset at any stage.                                       *)
(***************************************************************************)
EXTENDS FdEvents, Sequences

CONSTANTS
  Main,    \* the thread that builds the Socket
  Listen,  \* m_listenfd
  Conns,   \* connections of a behaviour
  NoConn   \* peer of a descriptor that is no connection

ASSUME ServerAssumption ==
  /\ Users = {Main} /\ Listen \in Fds /\ Modes = {"cb"} /\ NoConn \notin Conns
  /\ IsFiniteSet(Workers)

VARIABLES
  queue,    \* callbacks in the work list: the descriptor and its connection
  pos,      \* what each thread does
  nfd,      \* the descriptor its callback works on (n_fd, confd)
  for,      \* history: the connection whose edge started the callback
  backlog,  \* connections the kernel has completed and nobody accepted
  peer,     \* the connection behind each descriptor
  stage,    \* how far each client is
  gone      \* how it hung up: "no" (it did not), "fin" (closed) or "rst" (reset)

serverVars == <<queue, pos, nfd, for, backlog, peer, stage, gone>>
allVars == <<vars, serverVars>>

Goto(t, p) == pos' = [pos EXCEPT ![t] = p]
At(t, p) == pos[t] = p

Ended(c) == gone[c] # "no"

\* There is something to accept, or to read: a request, the end of file or an
\* error.
Level(fd) ==
  IF fd = Listen THEN backlog # << >>
  ELSE peer[fd] # NoConn /\ (stage[peer[fd]] = "sent" \/ Ended(peer[fd]))

-----------------------------------------------------------------------------
(***************************************************************************)
(* The Socket constructor, on the main thread.                             *)
(***************************************************************************)

StartListening ==
  /\ At(Main, "boot")
  /\ Open(Listen)
  /\ Goto(Main, "listening")
  /\ UNCHANGED <<queue, nfd, for, backlog, peer, stage, gone>>

\* The IOManager: epoll, the pipe, and start(), which creates the workers.
CreateIOManager ==
  /\ At(Main, "listening")
  /\ pos' = [t \in Threads |-> IF t \in Workers THEN "loop" ELSE "started"]
  /\ UNCHANGED <<vars, queue, nfd, for, backlog, peer, stage, gone>>

\* m_io->setThis(): the main thread has a scheduler, too.
Bind ==
  /\ At(Main, "started")
  /\ SetThis(Main)
  /\ Goto(Main, "bound")
  /\ UNCHANGED <<queue, nfd, for, backlog, peer, stage, gone>>

\* m_io->addEvent(listenfd, READ, Accept).
WatchListen ==
  /\ At(Main, "bound")
  /\ BeginAdd(Main, Listen, "READ", "cb")
  /\ nfd' = [nfd EXCEPT ![Main] = Listen]
  /\ Goto(Main, "adding")
  /\ UNCHANGED <<queue, for, backlog, peer, stage, gone>>

\* Slip: the constructor accepts the first connection itself.
AfterWatchAccepts(t) == IF t = Main THEN "publish" ELSE "accept"

\* The constructor is done; a worker returns from Accept, which accepts one
\* connection for each edge, or call.
AfterWatch(t) == IF t = Main THEN "publish" ELSE "loop"

\* addEvent on behalf of thread t; epoll reports what is there already.
Watch(t) ==
  /\ At(t, "adding")
  /\ AddEvent(t)
  /\ fate' = "ok" =>
       ready' = [ready EXCEPT ![nfd[t]] = IF Level(nfd[t]) THEN {"READ"} ELSE @]
  /\ Goto(t, AfterWatch(t))
  /\ UNCHANGED <<queue, nfd, for, backlog, peer, stage, gone>>

\* Setthis: now_Socket can be used.
Setthis ==
  /\ At(Main, "publish")
  /\ Goto(Main, "loop")
  /\ UNCHANGED <<vars, queue, nfd, for, backlog, peer, stage, gone>>

-----------------------------------------------------------------------------
(***************************************************************************)
(* The clients and the kernel.                                             *)
(***************************************************************************)

\* What arrives on a watched descriptor makes an edge, or joins one that has
\* not been reported.
Arrive(fd, flag) ==
  IF interest[fd] # {} /\ flag \notin ready[fd]
  THEN Edge(fd, flag)
  ELSE fate = "ok" /\ UNCHANGED vars

Accepted(c) == \E fd \in Fds : peer[fd] = c

\* The same for the descriptor of connection c, if it was accepted.
Notify(c, flag) ==
  IF Accepted(c)
  THEN \E fd \in Fds : peer[fd] = c /\ Arrive(fd, flag)
  ELSE fate = "ok" /\ UNCHANGED vars

\* No client connects before the Socket is published.
Connect(c) ==
  /\ At(Main, "loop")
  /\ stage[c] = "new"
  /\ stage' = [stage EXCEPT ![c] = "connected"]
  /\ backlog' = Append(backlog, c)
  /\ Arrive(Listen, "READ")
  /\ UNCHANGED <<queue, pos, nfd, for, peer, gone>>

Send(c) ==
  /\ stage[c] = "connected" /\ ~Ended(c)
  /\ stage' = [stage EXCEPT ![c] = "sent"]
  /\ Notify(c, "READ")
  /\ UNCHANGED <<queue, pos, nfd, for, backlog, peer, gone>>

\* The client closes, or is reset, its process having ended or not.
Hangup(c, how) ==
  /\ stage[c] # "new" /\ ~Ended(c)
  /\ gone' = [gone EXCEPT ![c] = how]
  /\ Notify(c, IF how = "fin" THEN "READ" ELSE "HUP")
  /\ UNCHANGED <<queue, pos, nfd, for, backlog, peer, stage>>

\* It closes after the reply.
Leave(c) == stage[c] = "answered" /\ Hangup(c, "fin")

-----------------------------------------------------------------------------
(***************************************************************************)
(* The workers: idle().                                                    *)
(***************************************************************************)

\* The scan of the work list found nothing.
Idle(t) ==
  /\ fate = "ok"
  /\ At(t, "loop") /\ Free(t)
  /\ queue = << >>
  /\ Goto(t, "wait")
  /\ UNCHANGED <<vars, queue, nfd, for, backlog, peer, stage, gone>>

Report(t) ==
  /\ At(t, "wait")
  /\ EpollWait(t)
  /\ Goto(t, "loop")
  /\ UNCHANGED <<queue, nfd, for, backlog, peer, stage, gone>>

\* The time limit is over, or a tickle arrived.
ReportNothing(t) ==
  /\ fate = "ok"
  /\ At(t, "wait")
  /\ ready = EmptyBatch
  /\ Goto(t, "loop")
  /\ UNCHANGED <<vars, queue, nfd, for, backlog, peer, stage, gone>>

\* The callback of a triggered event goes into the work list.
Schedule(t, fd) ==
  /\ At(t, "loop")
  /\ queue' = IF events[fd] \cap Real(fd, batch[t][fd]) = {} THEN queue
              ELSE Append(queue, [fd |-> fd, conn |-> peer[fd]])
  /\ Dispatch(t, fd)
  /\ UNCHANGED <<pos, nfd, for, backlog, peer, stage, gone>>

-----------------------------------------------------------------------------
(***************************************************************************)
(* The workers: Accept and s_rd_cb with the rd_cb of main.cpp.             *)
(***************************************************************************)

\* Slip: now_fd is only set for the first callback of a thread.
NowFdStale(t, fd) == IF nfd[t] = Listen THEN fd ELSE nfd[t]

\* What Getnowfd returns: now_fd is set just before the callback is entered.
NowFd(t, fd) == fd

Take(t) ==
  /\ fate = "ok"
  /\ At(t, "loop") /\ Free(t)
  /\ queue # << >>
  /\ LET entry == Head(queue) IN
       /\ Goto(t, IF entry.fd = Listen THEN "accept" ELSE "read")
       /\ nfd' = [nfd EXCEPT ![t] = NowFd(t, entry.fd)]
       /\ for' = [for EXCEPT ![t] = entry.conn]
  /\ queue' = Tail(queue)
  /\ UNCHANGED <<vars, backlog, peer, stage, gone>>

\* Slip: the new descriptor is not watched.
AfterAcceptLoops == "loop"
AfterAccept == "watch"

\* accept() of the oldest connection, with any free descriptor.
Accept(t) ==
  /\ At(t, "accept")
  /\ backlog # << >>
  /\ \E fd \in Fds \ {Listen} :
       /\ Open(fd)
       /\ nfd' = [nfd EXCEPT ![t] = fd]
       /\ peer' = [peer EXCEPT ![fd] = Head(backlog)]
  /\ backlog' = Tail(backlog)
  /\ Goto(t, AfterAccept)
  /\ UNCHANGED <<queue, for, stage, gone>>

WatchConn(t) ==
  /\ At(t, "watch")
  /\ BeginAdd(t, nfd[t], "READ", "cb")
  /\ Goto(t, "adding")
  /\ UNCHANGED <<queue, nfd, for, backlog, peer, stage, gone>>

\* Slip: at end of file the descriptor is closed with its event.
AtEofCloses == "close"
AtEof == "del"

\* Revmsg: one read.  At end of file the descriptor is given up; after an error
\* (the connection was reset, the descriptor closed by another callback) it is
\* not, and the callback returns.
Read(t) ==
  LET c == peer[nfd[t]] IN
  /\ fate = "ok"
  /\ At(t, "read")
  /\ \/ /\ c \in Conns /\ stage[c] = "sent"
        /\ stage' = [stage EXCEPT ![c] = "read"]
        /\ Goto(t, "reply")
     \/ /\ c \in Conns /\ stage[c] # "sent" /\ Ended(c)
        /\ Goto(t, AtEof)
        /\ UNCHANGED stage
     \/ /\ c \in Conns => gone[c] = "rst"
        /\ Goto(t, "loop")
        /\ UNCHANGED stage
  /\ UNCHANGED <<vars, queue, nfd, for, backlog, peer, gone>>

\* Slip: the callback reads on until end of file, on a blocking descriptor.
AfterReplyReads == "read"

\* The callback calls sleep(1), and its worker is gone: idle() has left the read
\* lock of the timers behind before it reported the first event, so addTimer
\* waits for the write lock for ever (module TimerManager).
AfterReply == "asleep"

\* The reply.  A client that has closed resets the connection; writing to one
\* that is reset fails, or raises SIGPIPE.
Reply(t) ==
  LET c == peer[nfd[t]] IN
  /\ fate = "ok"
  /\ At(t, "reply")
  /\ \/ /\ c \in Conns /\ ~Ended(c)
        /\ stage' = [stage EXCEPT ![c] = IF @ = "read" THEN "answered" ELSE @]
        /\ UNCHANGED <<vars, gone>>
     \/ /\ c \in Conns /\ gone[c] = "fin"
        /\ gone' = [gone EXCEPT ![c] = "rst"]
        /\ Notify(c, "HUP")
        /\ UNCHANGED stage
     \/ /\ c \in Conns /\ gone[c] = "rst"
        /\ fate' \in {"ok", "signal"}
        /\ UNCHANGED <<open, interest, ready, events, ctx, stuck, pending, call,
                       batch, t_scheduler, owned, stage, gone>>
     \/ c \notin Conns /\ UNCHANGED <<vars, stage, gone>>
  /\ Goto(t, AfterReply)
  /\ UNCHANGED <<queue, nfd, for, backlog, peer>>

\* Socket::delEvent.
CallDelete(t) ==
  /\ At(t, "del")
  /\ BeginDel(t, nfd[t], "READ")
  /\ Goto(t, "deleting")
  /\ UNCHANGED <<queue, nfd, for, backlog, peer, stage, gone>>

\* Slip: both Revmsg and its caller delete the event.
AfterDeleteAgain == "del"
AfterDelete == "close"

\* Whether it deleted anything makes no difference.
Delete(t) ==
  /\ At(t, "deleting")
  /\ DelEvent(t)
  /\ Goto(t, AfterDelete)
  /\ UNCHANGED <<queue, nfd, for, backlog, peer, stage, gone>>

\* close() fails if another callback has closed the descriptor.
CloseConn(t) ==
  /\ fate = "ok"
  /\ At(t, "close")
  /\ IF nfd[t] \in open
     THEN Closing(nfd[t]) /\ peer' = [peer EXCEPT ![nfd[t]] = NoConn]
     ELSE UNCHANGED <<vars, peer>>
  /\ Goto(t, "loop")
  /\ UNCHANGED <<queue, nfd, for, backlog, stage, gone>>

-----------------------------------------------------------------------------
ServerInit ==
  /\ Init
  /\ queue = << >>
  /\ pos = [t \in Threads |-> IF t = Main THEN "boot" ELSE "unborn"]
  /\ nfd = [t \in Threads |-> Listen]
  /\ for = [t \in Threads |-> NoConn]
  /\ backlog = << >>
  /\ peer = [fd \in Fds |-> NoConn]
  /\ stage = [c \in Conns |-> "new"]
  /\ gone = [c \in Conns |-> "no"]

Callback(t) ==
  \/ Take(t) \/ Accept(t) \/ WatchConn(t) \/ Watch(t) \/ Read(t) \/ Reply(t)
  \/ CallDelete(t) \/ Delete(t) \/ CloseConn(t)

IdleLoop(t) ==
  \/ Idle(t) \/ Report(t) \/ ReportNothing(t)
  \/ \E fd \in Fds : Schedule(t, fd)

Boot ==
  \/ StartListening \/ CreateIOManager \/ Bind \/ WatchListen
  \/ Watch(Main) \/ Setthis

ServerNext ==
  \/ Boot
  \/ \E t \in Workers : Callback(t) \/ IdleLoop(t)
  \/ \E c \in Conns : Connect(c) \/ Send(c)
  \/ \E c \in Conns, how \in {"fin", "rst"} : Hangup(c, how)

ServerSpec == ServerInit /\ [][ServerNext]_allVars

(***************************************************************************)
(* Threads run, and a client that has connected sends its request and      *)
(* closes after the reply, unless it hangs up.                             *)
(***************************************************************************)
ServerFairness ==
  /\ WF_allVars(Boot)
  /\ \A t \in Workers : WF_allVars(Callback(t) \/ IdleLoop(t))
  /\ \A c \in Conns : WF_allVars(Send(c) \/ Leave(c))

FairServer == ServerSpec /\ ServerFairness

-----------------------------------------------------------------------------
(***************************************************************************)
(* Properties.                                                             *)
(***************************************************************************)

\* So far no client has hung up on its request: between sending it and the
\* reply.  If one does, the request and the end of the connection may become
\* two callbacks of one descriptor, and of what follows only ListenSurvives
\* is left.
Patient == \A c \in Conns : Ended(c) => stage[c] \in {"connected", "answered"}

\* While clients are patient the server keeps to the rules of FdEvents, so what
\* holds there holds here: it never deletes an event twice, watches a descriptor
\* that is still watched, or closes one with an event, although nothing in
\* Socket or IOManager would stop two callbacks of one descriptor.
KeepsTheRules == Init /\ [][Patient' => Next]_vars

\* While clients are patient no stale event leaves a mutex locked or is
\* triggered without a scheduler.
DispatchesFresh == Patient => NothingStale

\* While clients are patient no callback blocks its worker in read: every edge
\* that becomes a callback announces something no other callback takes.
NeverBlocks ==
  Patient => \A t \in Workers : At(t, "read") => Level(nfd[t])

\* While clients are patient a callback reads from, replies to and closes the
\* connection whose edge started it, although descriptor numbers are reused.
RightConnection ==
  Patient =>
    \A t \in Workers :
      pos[t] \in {"read", "reply", "del", "deleting", "close"} =>
        peer[nfd[t]] = for[t]

\* Whatever the clients do, the server goes on listening: no callback waits in
\* accept for a connection another one has accepted, and nobody deletes,
\* closes or locks up the listening descriptor.
ListenSurvives ==
  /\ \A t \in Workers : At(t, "accept") => backlog # << >>
  /\ Listen \notin stuck
  /\ At(Main, "loop") => Listen \in open /\ interest[Listen] = {"READ"}

\* While clients are patient a connection that was accepted is closed in the
\* end, and so answered if there was a request, unless it was reset or every
\* worker has replied to somebody and never came back.
AcceptedAreServed ==
  \A c \in Conns :
    Accepted(c) ~>
      \/ ~Accepted(c)
      \/ gone[c] = "rst" \/ ~Patient
      \/ \A t \in Workers : At(t, "asleep")

=============================================================================
