--------------------------- MODULE SocketServerInv ---------------------------
(***************************************************************************)
(* The inductive invariants of SocketServer.  ServerInv holds as long as   *)
(* its clients are patient; from it it follows that no callback blocks,    *)
(* that each one works on the connection it was started for, and that the  *)
(* server keeps to the rules of FdEvents.  ListenInv holds whatever they   *)
(* do; the server goes on listening.                                       *)
(*                                                                         *)
(* The idea: at any time a connection's descriptor is one worker's         *)
(* business at most.  Its edge waits in epoll, or in one worker's batch,   *)
(* or in the work list, or a worker is in its callback, or a worker is     *)
(* setting it up; and only a client step makes a new edge, which a patient *)
(* client does not take before all of these are over.                      *)
(***************************************************************************)
EXTENDS SocketServer

Setup == {"watch", "adding"}
Serving == {"read", "reply", "del", "deleting", "close"}
MainSteps ==
  {"boot", "listening", "started", "bound", "adding", "publish", "loop"}
WorkerSteps ==
  {"unborn", "loop", "wait", "accept", "asleep"} \cup Setup \cup Serving
Stages == {"new", "connected", "sent", "read", "answered"}
Ways == {"no", "fin", "rst"}
Entries == [fd : Fds, conn : Conns \cup {NoConn}]

\* The types, and what is only ever used for reading.
ServerTypeOK ==
  /\ queue \in Seq(Entries)
  /\ pos \in [Threads -> MainSteps \cup WorkerSteps]
  /\ nfd \in [Threads -> Fds]
  /\ for \in [Threads -> Conns \cup {NoConn}]
  /\ backlog \in Seq(Conns)
  /\ peer \in [Fds -> Conns \cup {NoConn}]
  /\ stage \in [Conns -> Stages] /\ gone \in [Conns -> Ways]
  /\ \A t \in Workers : pos[t] \in WorkerSteps

OnlyRead ==
  \A fd \in Fds :
    /\ ready[fd] \subseteq {"READ", "HUP"} /\ owned[fd] \subseteq {"READ"}
    /\ \A t \in Workers : batch[t][fd] \subseteq {"READ", "HUP"}

\* The main thread: the listening descriptor is opened, then watched for
\* ever, and the first client connects after that.
Booting ==
  /\ pos[Main] \in MainSteps /\ nfd[Main] = Listen
  /\ pos[Main] # "boot" => Listen \in open
  /\ pos[Main] \in {"boot", "listening"} => \A t \in Workers : pos[t] = "unborn"
  /\ pos[Main] \in {"boot", "listening", "started", "bound", "adding"} =>
       owned[Listen] = {}
  /\ pos[Main] \in {"publish", "loop"} => "READ" \in owned[Listen]
  /\ pos[Main] # "loop" => backlog = << >>
  /\ peer[Listen] = NoConn

\* It has called setThis before it watches the descriptor.
Bound == pos[Main] \notin {"boot", "listening", "started"} => Main \in t_scheduler

\* The call of FdEvents a thread is in is the one it stands at.
CallsAgree ==
  \A t \in Threads :
    /\ pos[t] = "adding" => call[t] =
         [op |-> "add", fd |-> nfd[t], event |-> "READ", mode |-> "cb"]
    /\ pos[t] = "deleting" => call[t] =
         [op |-> "del", fd |-> nfd[t], event |-> "READ"]
    /\ pos[t] \notin {"adding", "deleting"} => call[t] = NoCall

\* A worker takes callbacks only when it has dispatched its batch.
BatchInLoop ==
  \A t \in Workers : ~At(t, "loop") => batch[t] = EmptyBatch

\* A connection has one descriptor, and none while it is in the backlog.
OnePeer ==
  /\ \A fd \in Fds : peer[fd] # NoConn => fd \in open /\ stage[peer[fd]] # "new"
  /\ \A fd, d \in Fds : peer[fd] = peer[d] /\ peer[fd] # NoConn => fd = d
  /\ \A i \in DOMAIN backlog :
       /\ stage[backlog[i]] \in {"connected", "sent"}
       /\ \A fd \in Fds : peer[fd] # backlog[i]
       /\ \A j \in DOMAIN backlog : backlog[i] = backlog[j] => i = j

\* What a worker has to do with a descriptor.
Works(t, fd) == nfd[t] = fd /\ pos[t] \in Setup \cup Serving
Has(t, fd) == batch[t][fd] # {} \/ Works(t, fd)

\* An edge of a connection that was reported, or not yet, or became a
\* callback that has not read, announces what has not been read.
EdgeFits(fd) ==
  /\ ready[fd] # {} => "READ" \in owned[fd] /\ (fd # Listen => Level(fd))
  /\ \A t \in Workers : batch[t][fd] # {} =>
       "READ" \in owned[fd] /\ (fd # Listen => Level(fd))

EntryFits(entry) ==
  entry.fd # Listen =>
    /\ "READ" \in owned[entry.fd]
    /\ Level(entry.fd)
    /\ entry.conn = peer[entry.fd]

EdgesFit ==
  /\ \A fd \in Fds : EdgeFits(fd)
  /\ \A i \in DOMAIN queue : EntryFits(queue[i])

\* A worker between accept and close: the descriptor is a connection's, the
\* client is where the callback believes it is, and so is the event.
WorkFits(t) ==
  /\ pos[t] \in Setup \cup Serving => nfd[t] # Listen /\ peer[nfd[t]] # NoConn
  /\ pos[t] \in Setup =>
       owned[nfd[t]] = {} /\ stage[peer[nfd[t]]] \in {"connected", "sent"}
  /\ pos[t] \in Serving => peer[nfd[t]] = for[t]
  /\ pos[t] = "read" => Level(nfd[t])
  /\ pos[t] = "reply" => stage[peer[nfd[t]]] = "read"
  /\ pos[t] \in {"del", "deleting", "close"} => Ended(peer[nfd[t]])
  /\ pos[t] \in {"read", "reply", "del"} => "READ" \in owned[nfd[t]]
  /\ pos[t] \in {"deleting", "close"} => owned[nfd[t]] = {}

AllWorkFits == \A t \in Workers : WorkFits(t)

\* One edge, batch, entry or worker for a connection's descriptor.
OneJob(fd) ==
  /\ \A t \in Workers : Has(t, fd) =>
       /\ ready[fd] = {}
       /\ \A u \in Workers : Has(u, fd) => u = t
       /\ \A i \in DOMAIN queue : queue[i].fd # fd
  /\ \A i \in DOMAIN queue : queue[i].fd = fd =>
       /\ ready[fd] = {}
       /\ \A j \in DOMAIN queue : queue[j].fd = fd => i = j

OneJobEach == \A fd \in Fds \ {Listen} : OneJob(fd)

\* For the listening descriptor there may be many; each one comes from a
\* connection of its own.
Accepts(q) == {i \in DOMAIN q : q[i].fd = Listen}
Accepting == {t \in Workers : At(t, "accept")}
Told == {t \in Workers : batch[t][Listen] # {}}
EdgeCount == IF ready[Listen] = {} THEN 0 ELSE 1

EnoughToAccept ==
  EdgeCount + Cardinality(Told) + Cardinality(Accepts(queue))
    + Cardinality(Accepting) <= Len(backlog)

SocketInv ==
  /\ NothingStale
  /\ ServerTypeOK /\ OnlyRead /\ Booting /\ CallsAgree /\ BatchInLoop
  /\ OnePeer /\ EdgesFit /\ AllWorkFits /\ OneJobEach /\ EnoughToAccept

ServerInv == FdInv /\ SocketInv /\ Bound /\ Patient

\* A client's stage and end, patient or not.
ClientTypes == stage \in [Conns -> Stages] /\ gone \in [Conns -> Ways]

-----------------------------------------------------------------------------
(***************************************************************************)
(* The inductive invariant behind ListenSurvives, whatever the clients do. *)
(* Connections' descriptors, their events and callbacks may be in any      *)
(* state; what goes wrong with them stays with them.                       *)
(***************************************************************************)

\* The types of what the descriptors are kept in.
EpollTypes ==
  /\ interest \in [Fds -> SUBSET Events]
  /\ events \in [Fds -> SUBSET Events]
  /\ ready \in [Fds -> SUBSET (Events \cup {"HUP"})]
  /\ ctx \in [Fds -> [Events -> {"empty", "cb", "fiber", "spent"}]]
  /\ call \in [Threads -> Calls \cup {NoCall}]
  /\ batch \in [Workers -> [Fds -> SUBSET (Events \cup {"HUP"})]]

\* A worker works on other descriptors and only accepts from this one; it is
\* created after the descriptor.
ListenAlone ==
  /\ pos[Main] \in MainSteps /\ nfd[Main] = Listen /\ peer[Listen] = NoConn
  /\ \A t \in Workers : pos[t] \in Setup \cup Serving => nfd[t] # Listen
  /\ pos[Main] \in {"boot", "listening"} => \A t \in Workers : pos[t] = "unborn"

Published == pos[Main] \in {"publish", "loop"}

\* It is opened and watched once, before the first client comes.
ListenWatched ==
  /\ Listen \notin stuck
  /\ pos[Main] # "boot" => Listen \in open
  /\ pos[Main] # "loop" => backlog = << >>
  /\ Published => interest[Listen] = {"READ"} /\ events[Listen] = {"READ"}
  /\ ~Published => /\ interest[Listen] = {} /\ events[Listen] = {}
                   /\ ctx[Listen]["READ"] = "empty"

\* What is reported is that there is something to accept.
ListenEdges ==
  /\ ready[Listen] \subseteq {"READ"}
  /\ \A t \in Workers : batch[t][Listen] \subseteq {"READ"}
  /\ ~Published => ready[Listen] = {} /\ \A t \in Workers : batch[t][Listen] = {}

ListenInv ==
  /\ EpollTypes /\ ServerTypeOK /\ CallsAgree /\ Bound
  /\ ListenAlone /\ ListenWatched /\ ListenEdges /\ EnoughToAccept

=============================================================================
