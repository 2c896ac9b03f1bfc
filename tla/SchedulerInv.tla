---------------------------- MODULE SchedulerInv ----------------------------
(***************************************************************************)
(* The inductive invariant behind the safety properties of Scheduler.      *)
(*                                                                         *)
(* It says where a coroutine can be: in the list, in the hands of one      *)
(* worker, asleep with a wake-up registered, finished, or not submitted;   *)
(* and in each place what its Fiber object must look like.  The places     *)
(* exclude each other but for one overlap: a coroutine whose wake-up is    *)
(* registered is still in the hands of its worker until the loop has let   *)
(* go of it.  No wake-up comes in that time if the worker is alone, since  *)
(* it would have to deliver it itself; with a second worker it may, and    *)
(* the invariant fails (sched_race), so it holds only if ~SharedSleep.     *)
(***************************************************************************)
EXTENDS Scheduler

\* Each coroutine has at most one entry and is in at most one worker's hands.
QueueDistinct ==
  \A i, j \in DOMAIN m_fibers : m_fibers[i].fiber = m_fibers[j].fiber => i = j

HandsDistinct ==
  \A t1, t2 \in Threads : cur[t1] = cur[t2] /\ cur[t1] # NoFiber => t1 = t2

\* The next swapIn enters MainFunc for the first time or continues a yield.
Resumable(f) ==
  /\ f \notin done
  /\ aborted \/ m_state[f] \in {"INIT", "HOLD", "READY"}
  /\ \/ begun[f] = 0 /\ m_ctx[f] = "entry"
     \/ begun[f] = 1 /\ m_ctx[f] = "yield"

\* A coroutine that put itself to sleep: its wake-up is to come.
Asleep(f) == m_state[f] = "HOLD" /\ f \in armed /\ ~Queued(f)
Yielded(f) == m_state[f] = "READY" /\ f \notin armed /\ ~Queued(f)
Started(f) == begun[f] = 1 /\ f \notin done
Over(f) == begun[f] = 1 /\ f \in done /\ m_state[f] = "INIT"

\* What a worker holds at each position of the loop.
HandInv(t) ==
  LET f == cur[t] IN
  /\ pc[t] = "pick" <=> f = NoFiber
  /\ pc[t] \in {"wrap", "resume"} =>
       /\ ~Queued(f) /\ f \notin armed
       /\ begun[f] = 0 => wanted[f] \in {AnyThread, t}
  /\ pc[t] = "wrap" => begun[f] = 0 /\ f \notin done
  /\ pc[t] = "resume" => Resumable(f)
  /\ pc[t] \in {"body", "arm"} =>
       Started(f) /\ (aborted \/ m_state[f] = "EXEC")
  /\ pc[t] = "body" => ~Queued(f) /\ f \notin armed
  /\ pc[t] = "arm" => ~Queued(f) /\ f \in armed
  /\ pc[t] = "yield" => Started(f) /\ (Asleep(f) \/ Yielded(f))
  /\ pc[t] = "return" => Over(f) /\ uc_link[f] = t
  /\ pc[t] = "after" =>
       \/ Over(f)
       \/ Started(f) /\ m_ctx[f] = "yield" /\ (Asleep(f) \/ Yielded(f))
  /\ pc[t] = "requeue" => Started(f) /\ m_ctx[f] = "yield" /\ Yielded(f)
  /\ pc[t] = "hold" =>
       \/ Over(f)
       \/ Started(f) /\ m_ctx[f] = "yield" /\ Asleep(f)

\* What an entry of the list says about its coroutine.
EntryInv(e) ==
  LET f == e.fiber IN
  /\ wanted[f] # Unsubmitted /\ f \notin done /\ f \notin armed
  /\ begun[f] = 0 => e.thread = wanted[f]
  /\ e.cb => begun[f] = 0
  /\ ~InHand(f) /\ (e.cb \/ Resumable(f))

\* Where a coroutine is when it is neither in the list nor in a worker's hands.
FiberInv(f) ==
  /\ wanted[f] = Unsubmitted =>
       /\ begun[f] = 0 /\ m_ctx[f] = "entry" /\ m_state[f] = "INIT"
       /\ ~InHand(f) /\ f \notin done
  /\ f \in armed =>
       /\ Started(f)
       /\ \/ ~InHand(f) /\ m_state[f] = "HOLD" /\ m_ctx[f] = "yield"
          \/ \E t \in Threads :
               /\ cur[t] = f /\ m_threads = {t}
               /\ pc[t] \in {"arm", "yield", "after", "hold"}
  /\ f \in done =>
       /\ begun[f] = 1
       /\ \A t \in Threads : cur[t] = f => pc[t] \in {"return", "after", "hold"}
  /\ wanted[f] # Unsubmitted /\ f \notin done =>
       Queued(f) \/ InHand(f) \/ f \in armed
  /\ begun[f] <= 1
  /\ m_state[f] = "EXCEPT" => aborted

\* The inductive invariant.
IInv ==
  /\ TypeOK
  /\ QueueDistinct
  /\ HandsDistinct
  /\ \A t \in Threads : HandInv(t)
  /\ \A i \in DOMAIN m_fibers : EntryInv(m_fibers[i])
  /\ \A f \in Fibers : FiberInv(f)
  /\ OnlyThrowersAbort

=============================================================================
