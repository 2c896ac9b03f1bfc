------------------------------ MODULE FdProofs ------------------------------
(***************************************************************************)
(* Proofs about FdEvents, for any number of threads and descriptors: epoll *)
(* watches what the context says, and the assertions of addEvent hold.     *)
(* FdInv is inductive.  What it adds is who may touch an event: the owner  *)
(* of the event is the one that deletes it, so that an addEvent never      *)
(* meets a context in use and a delEvent always meets a known event.       *)
(***************************************************************************)
EXTENDS FdEvents, FiniteSetTheorems, TLAPS

\* The initial state satisfies the invariant.
LEMMA InitFd == Init => FdInv
<1> SUFFICES ASSUME Init PROVE FdInv
  OBVIOUS
<1> USE FdAssumption DEF Init
<1>1. TypeOK
  BY DEF Threads, TypeOK, EmptyBatch, Events, NoCall
<1>2. InterestAgrees /\ ContextAgrees /\ AssertionsHold
  BY DEF InterestAgrees, ContextAgrees, AssertionsHold, Events
<1>3. Owned /\ CallsApart /\ ClosedIsForgotten
  BY DEF Owned, CallsApart, ClosedIsForgotten, NoCall
<1> QED
  BY <1>1, <1>2, <1>3 DEF FdInv

\* Counting events keeps m_pendingEventCount a size_t.
LEMMA CountedIsAWord ==
  ASSUME NEW n \in Int PROVE Counted(n) \in 0 .. Word - 1
BY FdAssumption DEF Counted

\* A call begins: its event is nobody else's.
LEMMA CallAddKeeps ==
  ASSUME FdInv, NEW t \in Threads, NEW fd \in Fds, NEW event \in Events,
         NEW mode \in Modes, CallAdd(t, fd, event, mode)
  PROVE  FdInv'
<1> USE FdAssumption DEF FdInv, CallAdd, BeginAdd
<1>1. /\ call[t] = NoCall /\ fd \in open /\ event \notin owned[fd]
      /\ call'[t] = [op |-> "add", fd |-> fd, event |-> event, mode |-> mode]
      /\ \A u \in Threads \ {t} : call'[u] = call[u]
  BY DEF Free, TypeOK
<1>2. TypeOK'
  BY DEF TypeOK, Calls
<1>3. (InterestAgrees /\ ContextAgrees /\ AssertionsHold)'
  BY DEF InterestAgrees, ContextAgrees, AssertionsHold
<1>4. Owned'
  <2>1. ASSUME NEW d \in Fds, NEW e \in Events, NEW u \in Threads
        PROVE  call'[u] = [op |-> "del", fd |-> d, event |-> e]
                 <=> call[u] = [op |-> "del", fd |-> d, event |-> e]
    BY <1>1 DEF NoCall
  <2> QED
    BY <2>1 DEF Owned
<1>5. CallsApart'
  BY <1>1 DEF CallsApart, TypeOK
<1>6. ClosedIsForgotten'
  BY DEF ClosedIsForgotten
<1> QED
  BY <1>2, <1>3, <1>4, <1>5, <1>6

\* The owner of an event begins to delete it.
LEMMA CallDelKeeps ==
  ASSUME FdInv, NEW t \in Threads, NEW fd \in Fds, NEW event \in Events,
         CallDel(t, fd, event)
  PROVE  FdInv'
<1> USE FdAssumption DEF FdInv, CallDel, BeginDel
<1>1. /\ call[t] = NoCall /\ event \in owned[fd]
      /\ call'[t] = [op |-> "del", fd |-> fd, event |-> event]
      /\ \A u \in Threads \ {t} : call'[u] = call[u]
  BY DEF Free, TypeOK
<1>2. TypeOK'
  BY DEF TypeOK, Calls
<1>3. (InterestAgrees /\ ContextAgrees /\ AssertionsHold)'
  BY DEF InterestAgrees, ContextAgrees, AssertionsHold
<1>4. /\ event \in events[fd]
      /\ fd \in open
  BY <1>1 DEF Owned, ClosedIsForgotten
<1>5. Owned'
  <2> SUFFICES ASSUME NEW d \in Fds, NEW e \in Events
               PROVE  e \in events[d] <=>
                        \/ e \in owned'[d]
                        \/ \E u \in Threads :
                             call'[u] = [op |-> "del", fd |-> d, event |-> e]
    BY DEF Owned
  <2>1. CASE d = fd /\ e = event
    BY <1>1, <1>4, <2>1
  <2>2. CASE ~(d = fd /\ e = event)
    <3>1. e \in owned'[d] <=> e \in owned[d]
      BY <2>2 DEF TypeOK
    <3>2. \A u \in Threads :
            call'[u] = [op |-> "del", fd |-> d, event |-> e]
              <=> call[u] = [op |-> "del", fd |-> d, event |-> e]
      BY <1>1, <2>2 DEF NoCall
    <3> QED
      BY <3>1, <3>2 DEF Owned
  <2> QED
    BY <2>1, <2>2
<1>6. CallsApart'
  <2>1. \A d \in Fds : owned'[d] \subseteq owned[d]
    BY DEF TypeOK
  <2>2. event \notin owned'[fd]
    BY DEF TypeOK
  <2>3. \A u \in Threads \ {t} :
          call[u] # NoCall => ~(call[u].fd = fd /\ call[u].event = event)
    BY <1>1 DEF CallsApart
  <2>4. \A u \in Threads : call[u] # NoCall => call[u].fd \in Fds
    BY DEF TypeOK, Calls
  <2> QED
    BY <1>1, <1>4, <2>1, <2>2, <2>3, <2>4 DEF CallsApart
<1>7. ClosedIsForgotten'
  BY DEF ClosedIsForgotten
<1> QED
  BY <1>2, <1>3, <1>5, <1>6, <1>7

\* addEvent finds epoll and the context as it expects them, so it succeeds.
LEMMA AddEventSucceeds ==
  ASSUME FdInv, NEW t \in Threads, call[t] # NoCall, AddEvent(t)
  PROVE  LET fd == call[t].fd
             event == call[t].event
         IN  /\ fd \in Fds /\ event \in Events /\ fd \in open
             /\ call[t].op = "add" /\ call[t].mode \in {"cb", "fiber"}
             /\ event \notin owned[fd] /\ event \notin events[fd]
             /\ interest' = [interest EXCEPT ![fd] = events[fd] \cup {event}]
             /\ pending' = Counted(pending + 1)
             /\ events' = [events EXCEPT ![fd] = @ \cup {event}]
             /\ ctx' = [ctx EXCEPT ![fd][event] = call[t].mode]
             /\ owned' = [owned EXCEPT ![fd] = @ \cup {event}]
             /\ call' = [call EXCEPT ![t] = NoCall]
             /\ \E now \in SUBSET {event} :
                  ready' = [ready EXCEPT ![fd] = @ \cup now]
             /\ UNCHANGED <<fate, open, stuck, batch, t_scheduler>>
<1> DEFINE fd == call[t].fd
           event == call[t].event
           op == IF events[fd] = {} THEN "ADD" ELSE "MOD"
<1> USE FdAssumption DEF FdInv
<1>1. /\ fd \in Fds /\ event \in Events /\ call[t].mode \in {"cb", "fiber"}
      /\ call[t].op = "add"
  BY DEF AddEvent, TypeOK, Calls
<1>2. fd \in open /\ event \notin owned[fd] /\ t \in t_scheduler
  BY <1>1 DEF CallsApart
<1>3. \A u \in Threads : call[u] # [op |-> "del", fd |-> fd, event |-> event]
  <2> SUFFICES ASSUME NEW u \in Threads,
                      call[u] = [op |-> "del", fd |-> fd, event |-> event]
               PROVE  FALSE
    OBVIOUS
  <2>1. u # t /\ call[u] # NoCall /\ call[u].fd = fd /\ call[u].event = event
    BY <1>1 DEF NoCall
  <2> QED
    BY <2>1 DEF CallsApart
<1>4. event \notin events[fd] /\ ctx[fd][event] = "empty"
  BY <1>1, <1>2, <1>3 DEF Owned, ContextAgrees
<1>5. CtlOk(fd, op)
  BY <1>1, <1>2 DEF CtlOk, InterestAgrees
<1>6. /\ interest' = [interest EXCEPT ![fd] = events[fd] \cup {event}]
      /\ pending' = Counted(pending + 1)
      /\ events' = [events EXCEPT ![fd] = @ \cup {event}]
      /\ ctx' = [ctx EXCEPT ![fd][event] = call[t].mode]
      /\ owned' = [owned EXCEPT ![fd] = @ \cup {event}]
      /\ call' = [call EXCEPT ![t] = NoCall]
      /\ \E now \in SUBSET {event} :
           ready' = [ready EXCEPT ![fd] = @ \cup now]
      /\ UNCHANGED <<fate, open, stuck, batch, t_scheduler>>
  BY <1>2, <1>4, <1>5 DEF AddEvent, AddMask
<1> QED
  BY <1>1, <1>2, <1>4, <1>6

\* A successful addEvent keeps the invariant.
LEMMA AddEventKeeps ==
  ASSUME FdInv, NEW t \in Threads, call[t] # NoCall, AddEvent(t)
  PROVE  FdInv'
<1> DEFINE fd == call[t].fd
           event == call[t].event
           mode == call[t].mode
<1> USE FdAssumption DEF FdInv
<1>1. /\ fd \in Fds /\ event \in Events /\ mode \in {"cb", "fiber"}
      /\ call[t].op = "add"
  BY AddEventSucceeds
<1>2. fd \in open /\ event \notin owned[fd]
  BY AddEventSucceeds
<1>6. /\ interest' = [interest EXCEPT ![fd] = events[fd] \cup {event}]
      /\ pending' = Counted(pending + 1)
      /\ events' = [events EXCEPT ![fd] = @ \cup {event}]
      /\ ctx' = [ctx EXCEPT ![fd][event] = mode]
      /\ owned' = [owned EXCEPT ![fd] = @ \cup {event}]
      /\ call' = [call EXCEPT ![t] = NoCall]
      /\ \E now \in SUBSET {event} :
           ready' = [ready EXCEPT ![fd] = @ \cup now]
      /\ UNCHANGED <<fate, open, stuck, batch, t_scheduler>>
  BY AddEventSucceeds
<1>7. TypeOK'
  <2>1. pending' \in 0 .. Word - 1
    BY <1>6, CountedIsAWord DEF TypeOK
  <2>2. ctx' \in [Fds -> [Events -> {"empty", "cb", "fiber", "spent"}]]
    BY <1>1, <1>6 DEF TypeOK
  <2>3. /\ interest' \in [Fds -> SUBSET Events]
        /\ events' \in [Fds -> SUBSET Events]
        /\ owned' \in [Fds -> SUBSET Events]
    BY <1>1, <1>6 DEF TypeOK
  <2>4. ready' \in [Fds -> SUBSET (Events \cup {"HUP"})]
    BY <1>1, <1>6 DEF TypeOK
  <2>5. call' \in [Threads -> Calls \cup {NoCall}]
    BY <1>6 DEF TypeOK
  <2> QED
    BY <1>6, <2>1, <2>2, <2>3, <2>4, <2>5 DEF TypeOK
<1>8. InterestAgrees'
  BY <1>1, <1>6 DEF InterestAgrees, TypeOK
<1>9. ContextAgrees'
  <2> SUFFICES ASSUME NEW d \in Fds, NEW e \in Events
               PROVE  e \in events'[d] <=> ctx'[d][e] # "empty"
    BY DEF ContextAgrees
  <2>1. CASE d = fd /\ e = event
    BY <1>1, <1>6, <2>1 DEF TypeOK
  <2>2. CASE ~(d = fd /\ e = event)
    BY <1>1, <1>6, <2>2 DEF TypeOK, ContextAgrees
  <2> QED
    BY <2>1, <2>2
<1>10. AssertionsHold'
  BY <1>6 DEF AssertionsHold
<1>11. \A u \in Threads : call'[u] = IF u = t THEN NoCall ELSE call[u]
  BY <1>6 DEF TypeOK
<1>12. Owned'
  <2> SUFFICES ASSUME NEW d \in Fds, NEW e \in Events
               PROVE  e \in events'[d] <=>
                        \/ e \in owned'[d]
                        \/ \E u \in Threads :
                             call'[u] = [op |-> "del", fd |-> d, event |-> e]
    BY DEF Owned
  <2>1. CASE d = fd /\ e = event
    BY <1>1, <1>6, <2>1 DEF TypeOK
  <2>2. CASE ~(d = fd /\ e = event)
    <3>1. /\ e \in events'[d] <=> e \in events[d]
          /\ e \in owned'[d] <=> e \in owned[d]
      BY <1>1, <1>6, <2>2 DEF TypeOK
    <3>2. \A u \in Threads :
            call'[u] = [op |-> "del", fd |-> d, event |-> e]
              <=> call[u] = [op |-> "del", fd |-> d, event |-> e]
      BY <1>1, <1>11 DEF NoCall
    <3> QED
      BY <3>1, <3>2 DEF Owned
  <2> QED
    BY <2>1, <2>2
<1>13. CallsApart'
  <2> SUFFICES ASSUME NEW u \in Threads, call'[u] # NoCall
               PROVE  /\ call'[u].fd \in open'
                      /\ call'[u].event \notin owned'[call'[u].fd]
                      /\ \A v \in Threads \ {u} : call'[v] # NoCall =>
                           ~(call'[v].fd = call'[u].fd /\ call'[v].event = call'[u].event)
                      /\ call'[u].op = "add" => u \in t_scheduler'
    BY DEF CallsApart
  <2>1. u # t /\ call'[u] = call[u] /\ call[u] # NoCall
    BY <1>11
  <2>2. call[u].fd \in Fds
    BY <2>1 DEF TypeOK, Calls
  <2>3. ~(call[u].fd = fd /\ call[u].event = event)
    BY <2>1 DEF CallsApart
  <2>4. call[u].fd \in open /\ call[u].event \notin owned[call[u].fd]
    BY <2>1 DEF CallsApart
  <2>5. call[u].event \notin owned'[call[u].fd]
    BY <1>1, <1>6, <2>2, <2>3, <2>4 DEF TypeOK
  <2> QED
    BY <1>6, <1>11, <2>1, <2>4, <2>5 DEF CallsApart
<1>14. ClosedIsForgotten'
  BY <1>1, <1>2, <1>6 DEF ClosedIsForgotten, TypeOK
<1> QED
  BY <1>7, <1>8, <1>9, <1>10, <1>12, <1>13, <1>14

\* delEvent finds the event and epoll as it expects them: it never takes one
\* of its failure returns, and the mutex is unlocked.
LEMMA DelEventSucceeds ==
  ASSUME FdInv, NEW t \in Threads, call[t] # NoCall, DelEvent(t)
  PROVE  LET fd == call[t].fd
             event == call[t].event
             new == events[fd] \ {event}
         IN  /\ fd \in Fds /\ event \in Events /\ fd \in open
             /\ call[t] = [op |-> "del", fd |-> fd, event |-> event]
             /\ event \notin owned[fd] /\ event \in events[fd]
             /\ interest' = [interest EXCEPT ![fd] = new]
             /\ ready' = [ready EXCEPT ![fd] =
                            IF new = {} THEN {} ELSE @ \cap (new \cup {"HUP"})]
             /\ pending' = Counted(pending - 1)
             /\ events' = [events EXCEPT ![fd] = new]
             /\ ctx' = [ctx EXCEPT ![fd][event] = "empty"]
             /\ call' = [call EXCEPT ![t] = NoCall]
             /\ UNCHANGED <<stuck, open, batch, t_scheduler, fate, owned>>
<1> DEFINE fd == call[t].fd
           event == call[t].event
           new == events[fd] \ {event}
           op == IF new = {} THEN "DEL" ELSE "MOD"
<1> USE FdAssumption DEF FdInv
<1>1. /\ fd \in Fds /\ event \in Events
      /\ call[t] = [op |-> "del", fd |-> fd, event |-> event]
  BY DEF DelEvent, TypeOK, Calls
<1>2. fd \in open /\ event \notin owned[fd]
  BY DEF CallsApart
<1>3. event \in events[fd]
  BY <1>1 DEF Owned
<1>4. CtlOk(fd, op)
  BY <1>1, <1>2, <1>3 DEF CtlOk, InterestAgrees
<1>5. /\ interest' = [interest EXCEPT ![fd] = new]
      /\ ready' = [ready EXCEPT ![fd] =
                     IF new = {} THEN {} ELSE @ \cap (new \cup {"HUP"})]
      /\ pending' = Counted(pending - 1)
      /\ events' = [events EXCEPT ![fd] = new]
      /\ ctx' = [ctx EXCEPT ![fd][event] = "empty"]
      /\ call' = [call EXCEPT ![t] = NoCall]
      /\ UNCHANGED <<stuck, open, batch, t_scheduler, fate, owned>>
  BY <1>3, <1>4 DEF DelEvent, Remaining, ResetContext
<1> QED
  BY <1>1, <1>2, <1>3, <1>5

\* A successful delEvent keeps the invariant.
LEMMA DelEventKeeps ==
  ASSUME FdInv, NEW t \in Threads, call[t] # NoCall, DelEvent(t)
  PROVE  FdInv'
<1> DEFINE fd == call[t].fd
           event == call[t].event
           new == events[fd] \ {event}
<1> USE FdAssumption DEF FdInv
<1>1. /\ fd \in Fds /\ event \in Events
      /\ call[t] = [op |-> "del", fd |-> fd, event |-> event]
  BY DelEventSucceeds
<1>2. fd \in open /\ event \notin owned[fd]
  BY DelEventSucceeds
<1>5. /\ interest' = [interest EXCEPT ![fd] = new]
      /\ ready' = [ready EXCEPT ![fd] =
                     IF new = {} THEN {} ELSE @ \cap (new \cup {"HUP"})]
      /\ pending' = Counted(pending - 1)
      /\ events' = [events EXCEPT ![fd] = new]
      /\ ctx' = [ctx EXCEPT ![fd][event] = "empty"]
      /\ call' = [call EXCEPT ![t] = NoCall]
      /\ UNCHANGED <<stuck, open, batch, t_scheduler, fate, owned>>
  BY DelEventSucceeds
<1>6. TypeOK'
  <2>1. pending' \in 0 .. Word - 1
    BY <1>5, CountedIsAWord DEF TypeOK
  <2>2. ctx' \in [Fds -> [Events -> {"empty", "cb", "fiber", "spent"}]]
    BY <1>1, <1>5 DEF TypeOK
  <2>3. /\ interest' \in [Fds -> SUBSET Events]
        /\ events' \in [Fds -> SUBSET Events]
    BY <1>1, <1>5 DEF TypeOK
  <2>4. ready' \in [Fds -> SUBSET (Events \cup {"HUP"})]
    BY <1>1, <1>5 DEF TypeOK
  <2>5. call' \in [Threads -> Calls \cup {NoCall}]
    BY <1>5 DEF TypeOK
  <2> QED
    BY <1>5, <2>1, <2>2, <2>3, <2>4, <2>5 DEF TypeOK
<1>7. InterestAgrees'
  BY <1>1, <1>5 DEF InterestAgrees, TypeOK
<1>8. ContextAgrees'
  <2> SUFFICES ASSUME NEW d \in Fds, NEW e \in Events
               PROVE  e \in events'[d] <=> ctx'[d][e] # "empty"
    BY DEF ContextAgrees
  <2>1. CASE d = fd /\ e = event
    BY <1>1, <1>5, <2>1 DEF TypeOK
  <2>2. CASE ~(d = fd /\ e = event)
    BY <1>1, <1>5, <2>2 DEF TypeOK, ContextAgrees
  <2> QED
    BY <2>1, <2>2
<1>9. AssertionsHold'
  BY <1>5 DEF AssertionsHold
<1>10. \A u \in Threads : call'[u] = IF u = t THEN NoCall ELSE call[u]
  BY <1>5 DEF TypeOK
<1>11. \A u \in Threads \ {t} :
         call[u] # NoCall => ~(call[u].fd = fd /\ call[u].event = event)
  BY DEF CallsApart
<1>12. Owned'
  <2> SUFFICES ASSUME NEW d \in Fds, NEW e \in Events
               PROVE  e \in events'[d] <=>
                        \/ e \in owned'[d]
                        \/ \E u \in Threads :
                             call'[u] = [op |-> "del", fd |-> d, event |-> e]
    BY DEF Owned
  <2>1. CASE d = fd /\ e = event
    <3>1. e \notin events'[d] /\ e \notin owned'[d]
      BY <1>1, <1>2, <1>5, <2>1 DEF TypeOK
    <3>2. \A u \in Threads : call'[u] # [op |-> "del", fd |-> d, event |-> e]
      BY <1>10, <1>11, <2>1 DEF NoCall
    <3> QED
      BY <3>1, <3>2
  <2>2. CASE ~(d = fd /\ e = event)
    <3>1. /\ e \in events'[d] <=> e \in events[d]
          /\ owned' = owned
      BY <1>1, <1>5, <2>2 DEF TypeOK
    <3>2. \A u \in Threads :
            call'[u] = [op |-> "del", fd |-> d, event |-> e]
              <=> call[u] = [op |-> "del", fd |-> d, event |-> e]
      BY <1>1, <1>10, <2>2 DEF NoCall
    <3> QED
      BY <3>1, <3>2 DEF Owned
  <2> QED
    BY <2>1, <2>2
<1>13. CallsApart'
  BY <1>5, <1>10 DEF CallsApart
<1>14. ClosedIsForgotten'
  BY <1>1, <1>2, <1>5 DEF ClosedIsForgotten, TypeOK
<1> QED
  BY <1>5, <1>6, <1>7, <1>8, <1>9, <1>12, <1>13, <1>14

\* Opening and closing: only a descriptor without events is closed, and what
\* the kernel drops is nothing.
LEMMA DescriptorKeeps ==
  ASSUME FdInv, NEW fd \in Fds, Open(fd) \/ Close(fd)
  PROVE  FdInv'
<1> USE FdAssumption DEF FdInv
<1>1. CASE Open(fd)
  BY <1>1 DEF Open, TypeOK, InterestAgrees, ContextAgrees, AssertionsHold,
       Owned, CallsApart, ClosedIsForgotten
<1>2. CASE Close(fd)
  <2> USE <1>2 DEF Close, Closing
  <2>1. events[fd] = {}
    <3> SUFFICES ASSUME NEW e \in Events, e \in events[fd] PROVE FALSE
      BY DEF TypeOK
    <3>1. PICK t \in Threads : call[t] = [op |-> "del", fd |-> fd, event |-> e]
      BY DEF Owned
    <3>2. call[t] # NoCall /\ call[t].fd = fd
      BY <3>1 DEF NoCall
    <3> QED
      BY <3>2 DEF InCall
  <2>2. TypeOK'
    BY DEF TypeOK
  <2>3. InterestAgrees'
    BY <2>1 DEF InterestAgrees, TypeOK
  <2>4. (ContextAgrees /\ AssertionsHold /\ Owned)'
    BY DEF ContextAgrees, AssertionsHold, Owned
  <2>5. CallsApart'
    BY DEF CallsApart, InCall
  <2>6. ClosedIsForgotten'
    BY <2>1 DEF ClosedIsForgotten
  <2> QED
    BY <2>2, <2>3, <2>4, <2>5, <2>6
<1> QED
  BY <1>1, <1>2

\* The kernel and the dispatch: triggering may move a fiber out of its
\* context, but the context stays in use and the mask stays as it is.
LEMMA KernelKeeps ==
  ASSUME FdInv,
         \/ \E fd \in Fds, flag \in Events \cup {"HUP"} :
                    Edge(fd, flag) \/ Quiet(fd, flag)
         \/ \E t \in Workers : EpollWait(t)
         \/ \E t \in Workers, fd \in Fds : Dispatch(t, fd)
  PROVE  FdInv'
<1> USE FdAssumption DEF FdInv
<1>1. ASSUME NEW fd \in Fds, NEW flag \in Events \cup {"HUP"},
             Edge(fd, flag) \/ Quiet(fd, flag)
      PROVE  FdInv'
  <2>1. /\ ready' \in [Fds -> SUBSET (Events \cup {"HUP"})]
        /\ UNCHANGED <<open, interest, events, ctx, stuck, pending, call,
                       batch, t_scheduler, fate, owned>>
    <3>1. ready[fd] \subseteq Events \cup {"HUP"}
      BY DEF TypeOK
    <3>2. PICK flags \in SUBSET (Events \cup {"HUP"}) :
            ready' = [ready EXCEPT ![fd] = flags]
      <4>1. CASE Edge(fd, flag)
        BY <3>1, <4>1, ready[fd] \cup {flag} \in SUBSET (Events \cup {"HUP"})
        DEF Edge
      <4>2. CASE Quiet(fd, flag)
        BY <3>1, <4>2, ready[fd] \ {flag} \in SUBSET (Events \cup {"HUP"})
        DEF Quiet
      <4> QED
        BY <1>1, <4>1, <4>2
    <3> QED
      BY <1>1, <3>2 DEF Edge, Quiet, TypeOK
  <2> QED
    BY <2>1 DEF TypeOK, InterestAgrees, ContextAgrees, AssertionsHold, Owned,
         CallsApart, ClosedIsForgotten
<1>2. ASSUME NEW t \in Workers, EpollWait(t) PROVE FdInv'
  BY <1>2 DEF EpollWait, EmptyBatch, TypeOK, InterestAgrees, ContextAgrees,
       AssertionsHold, Owned, CallsApart, ClosedIsForgotten
<1>3. ASSUME NEW t \in Workers, NEW fd \in Fds, Dispatch(t, fd) PROVE FdInv'
  <2> DEFINE real == Real(fd, batch[t][fd])
  <2>1. real \subseteq Events /\ IsFiniteSet(real)
    <3>1. real \subseteq Events
      BY DEF Real, TypeOK
    <3>2. IsFiniteSet({"READ"})
      BY FS_Singleton
    <3>3. IsFiniteSet(Events)
      <4>1. IsFiniteSet({"READ"} \cup {"WRITE"})
        BY <3>2, FS_AddElement
      <4>2. Events = {"READ"} \cup {"WRITE"}
        BY DEF Events
      <4> QED
        BY <4>1, <4>2
    <3> QED
      BY <3>1, <3>3, FS_Subset
  <2>2. Cardinality(real) \in Nat
    BY <2>1, FS_CardinalityType
  <2>3. /\ pending' = pending \/ pending' = Counted(pending - Cardinality(real))
        /\ \/ ctx' = ctx
           \/ ctx' = [ctx EXCEPT ![fd] =
                        [r \in Events |-> IF r \in real /\ @[r] = "fiber"
                                          THEN "spent" ELSE @[r]]]
        /\ fate' \in {"ok", "null"}
        /\ stuck' \subseteq Fds
        /\ batch' = [batch EXCEPT ![t][fd] = {}]
        /\ UNCHANGED <<open, interest, ready, events, call, t_scheduler, owned>>
    BY <1>3 DEF Dispatch, Trigger, TypeOK
  <2>4. ctx' \in [Fds -> [Events -> {"empty", "cb", "fiber", "spent"}]]
    <3> DEFINE spent == [r \in Events |-> IF r \in real /\ ctx[fd][r] = "fiber"
                                         THEN "spent" ELSE ctx[fd][r]]
               Kinds == {"empty", "cb", "fiber", "spent"}
    <3>1. ctx' = ctx \/ ctx' = [ctx EXCEPT ![fd] = spent]
      BY <2>3
    <3>2. ctx \in [Fds -> [Events -> Kinds]]
      BY DEF TypeOK
    <3>3. \A r \in Events : ctx[fd][r] \in Kinds
      BY <3>2
    <3>4. spent \in [Events -> Kinds]
      BY <3>3
    <3> HIDE DEF spent, Kinds
    <3>5. ctx' \in [Fds -> [Events -> Kinds]]
      BY <3>1, <3>2, <3>4
    <3> QED
      BY <3>5 DEF Kinds
  <2>5. ASSUME NEW d \in Fds, NEW e \in Events
        PROVE  ctx'[d][e] = "empty" <=> ctx[d][e] = "empty"
    <3>1. ctx' = ctx \/ ctx'[d] = IF d = fd
                                 THEN [r \in Events |->
                                         IF r \in real /\ ctx[fd][r] = "fiber"
                                         THEN "spent" ELSE ctx[fd][r]]
                                 ELSE ctx[d]
      BY <2>3 DEF TypeOK
    <3> QED
      BY <3>1
  <2>6. TypeOK'
    <3>1. pending' \in 0 .. Word - 1
      BY <2>2, <2>3, CountedIsAWord DEF TypeOK
    <3>2. batch' \in [Workers -> [Fds -> SUBSET (Events \cup {"HUP"})]]
      BY <2>3 DEF TypeOK
    <3> QED
      BY <2>3, <2>4, <3>1, <3>2 DEF TypeOK
  <2>7. ContextAgrees'
    BY <2>3, <2>5 DEF ContextAgrees
  <2>8. (InterestAgrees /\ AssertionsHold /\ Owned /\ CallsApart
           /\ ClosedIsForgotten)'
    BY <2>3 DEF InterestAgrees, AssertionsHold, Owned, CallsApart,
         ClosedIsForgotten
  <2> QED
    BY <2>6, <2>7, <2>8
<1> QED
  BY <1>1, <1>2, <1>3

\* FdInv is inductive.
LEMMA FdStep == FdInv /\ [Next]_vars => FdInv'
<1> SUFFICES ASSUME FdInv, [Next]_vars PROVE FdInv'
  OBVIOUS
<1>1. ASSUME NEW t \in Threads, NEW fd \in Fds, NEW event \in Events,
             CallDel(t, fd, event)
      PROVE  FdInv'
  BY <1>1, CallDelKeeps
<1>2. ASSUME NEW t \in Threads, NEW fd \in Fds, NEW event \in Events,
             NEW mode \in Modes, CallAdd(t, fd, event, mode)
      PROVE  FdInv'
  BY <1>2, CallAddKeeps
<1>3. ASSUME NEW t \in Threads, AddEvent(t) PROVE FdInv'
  <2>1. call[t] # NoCall
    BY <1>3 DEF AddEvent, NoCall
  <2> QED
    BY <1>3, <2>1, AddEventKeeps
<1>4. ASSUME NEW t \in Threads, DelEvent(t) PROVE FdInv'
  <2>1. call[t] # NoCall
    BY <1>4 DEF DelEvent, NoCall
  <2> QED
    BY <1>4, <2>1, DelEventKeeps
<1>5. ASSUME NEW fd \in Fds, Open(fd) \/ Close(fd) PROVE FdInv'
  BY <1>5, DescriptorKeeps
<1>6. ASSUME \/ \E fd \in Fds, flag \in Events \cup {"HUP"} :
                  Edge(fd, flag) \/ Quiet(fd, flag)
             \/ \E t \in Workers : EpollWait(t)
             \/ \E t \in Workers, fd \in Fds : Dispatch(t, fd)
      PROVE  FdInv'
  BY <1>6, KernelKeeps
<1>7. CASE UNCHANGED vars
  BY <1>7 DEF vars, FdInv, TypeOK, InterestAgrees, ContextAgrees,
       AssertionsHold, Owned, CallsApart, ClosedIsForgotten
<1>8. ASSUME NEW u \in Users, SetThis(u) PROVE FdInv'
  <2>1. Workers \subseteq t_scheduler' /\ t_scheduler' \subseteq Threads
    BY <1>8 DEF SetThis, FdInv, TypeOK, Threads
  <2> QED
    BY <1>8, <2>1 DEF SetThis, FdInv, TypeOK, InterestAgrees, ContextAgrees,
         AssertionsHold, Owned, CallsApart, ClosedIsForgotten
<1> QED
  BY <1>1, <1>2, <1>3, <1>4, <1>5, <1>6, <1>7, <1>8 DEF Next

\* And so it holds throughout.
THEOREM FdInvariance == Spec => []FdInv
BY InitFd, FdStep, PTL DEF Spec

\* Whatever the threads, the kernel and stale dispatches do, the mask in the
\* context is the one epoll has.
THEOREM EpollKnowsTheMask == Spec => []InterestAgrees
<1>1. FdInv => InterestAgrees
  BY DEF FdInv
<1> QED
  BY <1>1, FdInvariance, PTL

\* An event is in the mask exactly while its EventContext is in use.
THEOREM MaskMatchesContexts == Spec => []ContextAgrees
<1>1. FdInv => ContextAgrees
  BY DEF FdInv
<1> QED
  BY <1>1, FdInvariance, PTL

\* For clients that add only what they do not have, no assertion of addEvent
\* fails.
THEOREM AddNeverAsserts == Spec => []AssertionsHold
<1>1. FdInv => AssertionsHold
  BY DEF FdInv
<1> QED
  BY <1>1, FdInvariance, PTL

=============================================================================
