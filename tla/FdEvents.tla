------------------------------ MODULE FdEvents ------------------------------
(***************************************************************************)
(* The fd events of IOManager: addEvent and delEvent on the FdContext of a *)
(* file descriptor, and the loop of idle() that turns what epoll_wait has  *)
(* reported into scheduled callbacks and fibers.                           *)
(*                                                                         *)
(* All of FdContext is read and written under its mutex, so a critical     *)
(* section is one step.  A return or continue that forgets the unlock()    *)
(* leaves the mutex locked for ever (stuck).  A thread starts here with    *)
(* its FdContext already found: module ContextTable does that.             *)
(*                                                                         *)
(* The kernel reports an event once per edge to one worker.  Between       *)
(* epoll_wait and the dispatch the other threads go on: what was reported  *)
(* may be stale.                                                           *)
(*                                                                         *)
(* The clients keep to the rules of the README: they add an event they do  *)
(* not have, delete one they have, and close a descriptor after deleting   *)
(* its events.  Descriptor numbers are reused.  A thread outside the pool  *)
(* calls setThis before addEvent, as Socket does: addEvent asserts that    *)
(* its caller has a scheduler.                                             *)
(***************************************************************************)
EXTENDS Integers, FiniteSets

CONSTANTS
  Workers,  \* threads that run idle() and coroutines
  Users,    \* other threads that call addEvent and delEvent
  Fds,      \* descriptor numbers
  Modes,    \* how events are added: with a callback ("cb") or for a "fiber"
  Word      \* m_pendingEventCount counts modulo Word (2^64 in the code)

Threads == Workers \cup Users
Events == {"READ", "WRITE"}

ASSUME FdAssumption ==
  /\ Workers \cap Users = {}
  /\ Modes \subseteq {"cb", "fiber"}
  /\ Word \in Nat \ {0}

VARIABLES
  open,      \* descriptors that are open
  interest,  \* what epoll watches on each descriptor ({}: not registered)
  ready,     \* edges epoll_wait has not reported; "HUP" stands for ERR too
  events,    \* FdContext::events
  ctx,       \* the EventContext of each event; "spent": a scheduler, no fiber
  stuck,     \* descriptors whose FdContext::mutex was never unlocked
  pending,   \* m_pendingEventCount
  call,      \* the addEvent or delEvent each thread is in
  batch,     \* what epoll_wait reported to each worker, not dispatched yet
  t_scheduler, \* threads that have one: workers (run() sets it), or by setThis
  fate,      \* "ok", or what ended the process: "assert" (a ZYX_ASSERT failed),
             \* "null" (a null scheduler was used), "signal" (see SocketServer)
  owned      \* history: events the clients have added and not deleted

vars == <<open, interest, ready, events, ctx, stuck, pending, call, batch,
          t_scheduler, fate, owned>>

NoCall == [op |-> "none"]
Calls == [op : {"add"}, fd : Fds, event : Events, mode : {"cb", "fiber"}]
           \cup [op : {"del"}, fd : Fds, event : Events]
EmptyBatch == [fd \in Fds |-> {}]

Free(t) == call[t] = NoCall /\ (t \in Workers => batch[t] = EmptyBatch)
InCall(fd) == \E t \in Threads : call[t] # NoCall /\ call[t].fd = fd

\* m_pendingEventCount is a size_t: it wraps.
Counted(n) == n % Word

-----------------------------------------------------------------------------
(***************************************************************************)
(* addEvent.                                                               *)
(***************************************************************************)

\* Scheduler::setThis, on a thread outside the pool.
SetThis(u) ==
  /\ fate = "ok"
  /\ Free(u)
  /\ t_scheduler' = t_scheduler \cup {u}
  /\ UNCHANGED <<open, interest, ready, events, ctx, stuck, pending, call, batch,
                 fate, owned>>

BeginAdd(t, fd, event, mode) ==
  /\ fate = "ok"
  /\ Free(t)
  /\ call' = [call EXCEPT ![t] = [op |-> "add", fd |-> fd, event |-> event,
                                  mode |-> mode]]
  /\ UNCHANGED <<open, interest, ready, events, ctx, stuck, pending, batch,
                 t_scheduler, fate, owned>>

\* A client that keeps to the rules.
CallAdd(t, fd, event, mode) ==
  /\ t \in t_scheduler
  /\ fd \in open
  /\ event \notin owned[fd]
  /\ \A u \in Threads :
       call[u] # NoCall => ~(call[u].fd = fd /\ call[u].event = event)
  /\ BeginAdd(t, fd, event, mode)

\* epoll_ctl: ADD needs an unknown descriptor, MOD and DEL a known one.
CtlOk(fd, op) == fd \in open /\ (op = "ADD" <=> interest[fd] = {})

\* The mask addEvent gives to epoll_ctl.
AddMaskOnlyNew(fd, event) == {event}
AddMask(fd, event) == events[fd] \cup {event}

\* The section under the mutex.  A failing epoll_ctl, a context in use and a
\* caller without a scheduler are assertion failures.  epoll_ctl reports what is
\* there already.
AddEvent(t) ==
  LET fd    == call[t].fd
      event == call[t].event
      op    == IF events[fd] = {} THEN "ADD" ELSE "MOD"
  IN
  /\ fate = "ok"
  /\ call[t].op = "add"
  /\ fd \notin stuck
  /\ IF CtlOk(fd, op) /\ ctx[fd][event] = "empty" /\ t \in t_scheduler
     THEN /\ interest' = [interest EXCEPT ![fd] = AddMask(fd, event)]
          /\ pending' = Counted(pending + 1)
          /\ events' = [events EXCEPT ![fd] = @ \cup {event}]
          /\ ctx' = [ctx EXCEPT ![fd][event] = call[t].mode]
          /\ owned' = [owned EXCEPT ![fd] = @ \cup {event}]
          /\ \E now \in SUBSET {event} :
               ready' = [ready EXCEPT ![fd] = @ \cup now]
          /\ UNCHANGED fate
     ELSE /\ fate' = "assert"
          /\ UNCHANGED <<interest, ready, pending, events, ctx, owned>>
  /\ call' = [call EXCEPT ![t] = NoCall]
  /\ UNCHANGED <<open, stuck, batch, t_scheduler>>

-----------------------------------------------------------------------------
(***************************************************************************)
(* delEvent.                                                               *)
(***************************************************************************)

BeginDel(t, fd, event) ==
  /\ fate = "ok"
  /\ Free(t)
  /\ owned' = [owned EXCEPT ![fd] = @ \ {event}]
  /\ call' = [call EXCEPT ![t] = [op |-> "del", fd |-> fd, event |-> event]]
  /\ UNCHANGED <<open, interest, ready, events, ctx, stuck, pending, batch,
                 t_scheduler, fate>>

CallDel(t, fd, event) == event \in owned[fd] /\ BeginDel(t, fd, event)

\* resetContext.
ResetNothing(fd, event) == ctx
ResetContext(fd, event) == [ctx EXCEPT ![fd][event] = "empty"]

\* Slip: the complement is forgotten.
RemainingWrong(fd, event) == events[fd] \cap {event}

\* new_events of delEvent.
Remaining(fd, event) == events[fd] \ {event}

\* The section under the mutex; the two failure returns do not unlock it.
DelEvent(t) ==
  LET fd    == call[t].fd
      event == call[t].event
      new   == Remaining(fd, event)
      op    == IF new = {} THEN "DEL" ELSE "MOD"
  IN
  /\ fate = "ok"
  /\ call[t].op = "del"
  /\ fd \notin stuck
  /\ IF events[fd] # {} /\ CtlOk(fd, op)
     THEN /\ interest' = [interest EXCEPT ![fd] = new]
          /\ ready' = [ready EXCEPT ![fd] =
                         IF new = {} THEN {} ELSE @ \cap (new \cup {"HUP"})]
          /\ pending' = Counted(pending - 1)
          /\ events' = [events EXCEPT ![fd] = new]
          /\ ctx' = ResetContext(fd, event)
          /\ UNCHANGED stuck
     ELSE /\ stuck' = stuck \cup {fd}
          /\ UNCHANGED <<interest, ready, pending, events, ctx>>
  /\ call' = [call EXCEPT ![t] = NoCall]
  /\ UNCHANGED <<open, batch, t_scheduler, fate, owned>>

-----------------------------------------------------------------------------
(***************************************************************************)
(* The kernel, and the part of idle() after epoll_wait.                    *)
(***************************************************************************)

\* A descriptor is opened: accept() returns the number of a closed one.
Open(fd) ==
  /\ fate = "ok"
  /\ fd \notin open
  /\ open' = open \cup {fd}
  /\ UNCHANGED <<interest, ready, events, ctx, stuck, pending, call, batch,
                 t_scheduler, fate, owned>>

\* close(): epoll forgets the descriptor, its FdContext does not.
Closing(fd) ==
  /\ fate = "ok"
  /\ fd \in open
  /\ open' = open \ {fd}
  /\ interest' = [interest EXCEPT ![fd] = {}]
  /\ ready' = [ready EXCEPT ![fd] = {}]
  /\ UNCHANGED <<events, ctx, stuck, pending, call, batch, t_scheduler, fate,
                 owned>>

\* A client closes a descriptor it has deleted all events of.
Close(fd) == owned[fd] = {} /\ ~InCall(fd) /\ Closing(fd)

\* Something happens on a watched descriptor.
Edge(fd, flag) ==
  /\ fate = "ok"
  /\ interest[fd] # {}
  /\ flag \in interest[fd] \cup {"HUP"}
  /\ flag \notin ready[fd]
  /\ ready' = [ready EXCEPT ![fd] = @ \cup {flag}]
  /\ UNCHANGED <<open, interest, events, ctx, stuck, pending, call, batch,
                 t_scheduler, fate, owned>>

\* What the edge announced has been read in the meantime: epoll_wait, which
\* looks again, will not report it.
Quiet(fd, flag) ==
  /\ fate = "ok"
  /\ flag \in ready[fd]
  /\ ready' = [ready EXCEPT ![fd] = @ \ {flag}]
  /\ UNCHANGED <<open, interest, events, ctx, stuck, pending, call, batch,
                 t_scheduler, fate, owned>>

\* epoll_wait hands all edges to one worker.
EpollWait(t) ==
  /\ fate = "ok"
  /\ Free(t)
  /\ ready # EmptyBatch
  /\ batch' = [batch EXCEPT ![t] = ready]
  /\ ready' = EmptyBatch
  /\ UNCHANGED <<open, interest, events, ctx, stuck, pending, call, t_scheduler,
                 fate, owned>>

\* real_events: an error or hang-up counts as every event of the context.
Real(fd, flags) ==
  (flags \cap Events) \cup (IF "HUP" \in flags THEN events[fd] ELSE {})

\* triggerEvent: schedule() takes the fiber out of the context, a callback is
\* copied.
Trigger(fd, real) ==
  [ctx EXCEPT ![fd] = [r \in Events |-> IF r \in real /\ @[r] = "fiber"
                                        THEN "spent" ELSE @[r]]]

\* One event of the batch: trigger what was reported if any of it is in the
\* context; the other branch does not unlock the mutex.  Triggering leaves
\* events and the interest in place.
Dispatch(t, fd) ==
  LET real == Real(fd, batch[t][fd]) IN
  /\ fate = "ok"
  /\ batch[t][fd] # {}
  /\ fd \notin stuck
  /\ IF events[fd] \cap real = {}
     THEN /\ stuck' = stuck \cup {fd}
          /\ UNCHANGED <<ctx, pending, fate>>
     ELSE /\ fate' = IF \E r \in real : ctx[fd][r] = "empty" THEN "null" ELSE "ok"
          /\ ctx' = Trigger(fd, real)
          /\ pending' = Counted(pending - Cardinality(real))
          /\ UNCHANGED stuck
  /\ batch' = [batch EXCEPT ![t][fd] = {}]
  /\ UNCHANGED <<open, interest, ready, events, call, t_scheduler, owned>>

-----------------------------------------------------------------------------
Init ==
  /\ open = {}
  /\ interest = [fd \in Fds |-> {}]
  /\ ready = EmptyBatch
  /\ events = [fd \in Fds |-> {}]
  /\ ctx = [fd \in Fds |-> [e \in Events |-> "empty"]]
  /\ stuck = {}
  /\ pending = 0
  /\ call = [t \in Threads |-> NoCall]
  /\ batch = [t \in Workers |-> EmptyBatch]
  /\ t_scheduler = Workers
  /\ fate = "ok"
  /\ owned = [fd \in Fds |-> {}]

Next ==
  \/ \E t \in Threads, fd \in Fds, event \in Events :
       CallDel(t, fd, event) \/ \E mode \in Modes : CallAdd(t, fd, event, mode)
  \/ \E u \in Users : SetThis(u)
  \/ \E t \in Threads : AddEvent(t) \/ DelEvent(t)
  \/ \E t \in Workers : EpollWait(t) \/ \E fd \in Fds : Dispatch(t, fd)
  \/ \E fd \in Fds : Open(fd) \/ Close(fd)
  \/ \E fd \in Fds, flag \in Events \cup {"HUP"} : Edge(fd, flag) \/ Quiet(fd, flag)

Spec == Init /\ [][Next]_vars

-----------------------------------------------------------------------------
(***************************************************************************)
(* Properties.                                                             *)
(***************************************************************************)

\* Type invariant of the contexts, the kernel's side and the calls.
TypeOK ==
  /\ open \subseteq Fds /\ stuck \subseteq Fds
  /\ interest \in [Fds -> SUBSET Events]
  /\ ready \in [Fds -> SUBSET (Events \cup {"HUP"})]
  /\ events \in [Fds -> SUBSET Events]
  /\ ctx \in [Fds -> [Events -> {"empty", "cb", "fiber", "spent"}]]
  /\ pending \in 0 .. Word - 1
  /\ call \in [Threads -> Calls \cup {NoCall}]
  /\ batch \in [Workers -> [Fds -> SUBSET (Events \cup {"HUP"})]]
  /\ Workers \subseteq t_scheduler /\ t_scheduler \subseteq Threads
  /\ fate \in {"ok", "assert", "null", "signal"}
  /\ owned \in [Fds -> SUBSET Events]

\* epoll watches what the context says, so that addEvent and delEvent choose
\* ADD, MOD and DEL rightly, whatever closes and reopens the descriptor.
InterestAgrees == \A fd \in Fds : interest[fd] = events[fd]

\* An event is in the mask exactly while its EventContext is in use.
ContextAgrees ==
  \A fd \in Fds, e \in Events : e \in events[fd] <=> ctx[fd][e] # "empty"

\* The assertions of addEvent (no error of epoll_ctl, a context that is free, a
\* scheduler) hold for clients that keep to the rules, even when stale events
\* are dispatched in between.
AssertionsHold == fate # "assert"

\* The inductive invariant behind the three.  What epoll watches is what the
\* clients own or are about to delete; no two calls are about one event, and
\* the event of a call is not owned meanwhile; who adds an event has a
\* scheduler.
Owned ==
  \A fd \in Fds, e \in Events :
    e \in events[fd] <=>
      \/ e \in owned[fd]
      \/ \E t \in Threads : call[t] = [op |-> "del", fd |-> fd, event |-> e]

CallsApart ==
  \A t \in Threads :
    call[t] # NoCall =>
      /\ call[t].fd \in open
      /\ call[t].event \notin owned[call[t].fd]
      /\ \A u \in Threads \ {t} :
           call[u] # NoCall =>
             ~(call[u].fd = call[t].fd /\ call[u].event = call[t].event)
      /\ call[t].op = "add" => t \in t_scheduler

ClosedIsForgotten == \A fd \in Fds \ open : events[fd] = {}

FdInv ==
  /\ TypeOK /\ InterestAgrees /\ ContextAgrees /\ AssertionsHold
  /\ Owned /\ CallsApart /\ ClosedIsForgotten

\* No stale event leaves a mutex locked or triggers an event without a
\* scheduler.  It holds for clients that have one event for each descriptor and
\* delete it only when no report of it is left undispatched, as Socket does.
NothingStale == stuck = {} /\ fate # "null"

\* README.md: delete the events, then close; descriptors can then be reused.
\* So no descriptor becomes unusable.
Reusable == stuck = {}

=============================================================================
