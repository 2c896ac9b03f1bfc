------------------------------ MODULE Scheduler ------------------------------
(***************************************************************************)
(* The coroutine scheduler: Scheduler::run, the loop every worker thread   *)
(* executes, the shared list m_fibers it takes work from, and the Fiber    *)
(* context switches (swapIn, swapOut, MainFunc, the two yields) by which a *)
(* worker enters and leaves a coroutine.                                   *)
(*                                                                         *)
(* Steps follow the accesses another thread can see.  A critical section   *)
(* of m_mutex touches m_fibers only and is one step.  Fiber::m_state and   *)
(* Fiber::m_ctx are guarded by no lock, so leaving a coroutine takes four  *)
(* steps: the coroutine writes its state, swapcontext saves its stack, the *)
(* loop reads the state, the loop writes it.                               *)
(*                                                                         *)
(* A fiber stands for one coroutine: the Fiber object handed to schedule() *)
(* or the one the loop builds around a callback.  Code outside this module *)
(* (timers, epoll events, other callbacks) appears as Submit and Wake.     *)
(***************************************************************************)
EXTENDS SequencesExt

CONSTANTS
  Threads,      \* the workers Scheduler::start may create
  Fibers,       \* the coroutines submitted in a behaviour, each once
  Throwers,     \* those whose callback may let an exception escape
  SharedSleep,  \* may a coroutine sleep in a scheduler with several workers?
  AnyThread,    \* the thread argument -1
  Unsubmitted,  \* wanted[f] of a coroutine nobody has scheduled yet
  NoFiber,      \* an empty FiberAndThread / cb_fiber
  NoThread      \* a thread outside the pool; uc_link of a Fiber built there

ASSUME ThreadAssumption ==
  /\ AnyThread \notin Threads
  /\ Unsubmitted \notin Threads \cup {AnyThread}
  /\ NoThread \notin Threads
ASSUME FiberAssumption ==
  /\ NoFiber \notin Fibers
  /\ Throwers \subseteq Fibers
  /\ SharedSleep \in BOOLEAN

VARIABLES
  m_threads, \* the workers that were started
  m_fibers,  \* the list of scheduled work, front first
  m_state,   \* Fiber::m_state
  m_ctx,     \* where Fiber::m_ctx resumes: MainFunc's entry or a yield
  uc_link,   \* the worker whose loop MainFunc's return jumps to
  pc,        \* position of each worker
  cur,       \* the coroutine in its ft or cb_fiber
  blocked,   \* workers inside the write of a tickle()
  armed,     \* coroutines with a registered wake-up (timer or fd event)
  aborted,   \* an assertion failed and ended the process
  wanted,    \* history: the thread argument given to schedule()
  begun,     \* history: how often MainFunc was entered
  done       \* history: coroutines whose callback has returned

vars == <<m_threads, m_fibers, m_state, m_ctx, uc_link, pc, cur, blocked,
          armed, aborted, wanted, begun, done>>

States == {"INIT", "HOLD", "EXEC", "TERM", "READY", "EXCEPT"}

\* FiberAndThread: a callback (cb) or a Fiber, and the thread it asks for.
Entries == [fiber : Fibers, cb : BOOLEAN, thread : Threads \cup {AnyThread}]

\* Positions at which the worker stands on the coroutine's stack.
OnStack(t) == pc[t] \in {"body", "arm", "yield", "return"}

Queued(f) == \E i \in DOMAIN m_fibers : m_fibers[i].fiber = f
InHand(f) == \E t \in Threads : cur[t] = f

-----------------------------------------------------------------------------
(***************************************************************************)
(* Scheduling.                                                             *)
(***************************************************************************)

\* Slip: work goes to the front.
PushFront(f, isCb, th) ==
  m_fibers' = <<[fiber |-> f, cb |-> isCb, thread |-> th]>> \o m_fibers

\* scheduleNoLock: entries go to the back of the list.
PushBack(f, isCb, th) ==
  m_fibers' = Append(m_fibers, [fiber |-> f, cb |-> isCb, thread |-> th])

\* schedule() on thread c: push under m_mutex, then, if the list was empty,
\* tickle().  Its write to the pipe may block, and then c stays in it until
\* somebody drains the pipe (Tickled); NoThread may block, too, but has no
\* other steps.
Schedule(c, f, isCb, th) ==
  /\ PushBack(f, isCb, th)
  /\ blocked' = IF m_fibers = << >> THEN blocked \cup ({c} \cap Threads) ELSE blocked

\* The write of the tickle returns.
Tickled(t) ==
  /\ ~aborted
  /\ t \in blocked
  /\ blocked' = blocked \ {t}
  /\ UNCHANGED <<m_threads, m_fibers, m_state, m_ctx, uc_link, pc, cur, armed,
                 aborted, wanted, begun, done>>

\* A worker gets on: it was started and is not inside a tickle.
Runs(t) == t \in m_threads \ blocked

\* Where a worker calls schedule(): in idle(), which it entered from the scan,
\* and in a coroutine.
Calls(t) == Runs(t) /\ pc[t] \in {"pick", "body"}

\* schedule(fc, thread) with a callback or a Fiber that has not run yet.
Submit(c, f, isCb, th) ==
  /\ ~aborted
  /\ c = NoThread \/ Calls(c)
  /\ wanted[f] = Unsubmitted
  /\ th \in m_threads \cup {AnyThread}
  /\ Schedule(c, f, isCb, th)
  /\ wanted' = [wanted EXCEPT ![f] = th]
  /\ UNCHANGED <<m_threads, m_state, m_ctx, uc_link, pc, cur, armed, aborted,
                 begun, done>>

\* The wake-up a sleeping coroutine registered: schedule(fiber, -1), called by
\* the worker that runs the expired timer's callback or finds the fd event in
\* idle().  Nothing makes it wait until the coroutine has left its stack.
Wake(c, f) ==
  /\ ~aborted
  /\ Calls(c)
  /\ f \in armed
  /\ armed' = armed \ {f}
  /\ Schedule(c, f, FALSE, AnyThread)
  /\ UNCHANGED <<m_threads, m_state, m_ctx, uc_link, pc, cur, aborted, wanted,
                 begun, done>>

-----------------------------------------------------------------------------
(***************************************************************************)
(* The worker loop up to the context switch.                               *)
(***************************************************************************)

\* Slip: the scan ignores the thread argument.
EligibleAnywhere(t, e) == e.cb \/ m_state[e.fiber] # "EXEC"

\* An entry the scan does not skip: meant for this thread, not executing.
Eligible(t, e) ==
  /\ e.thread \in {AnyThread, t}
  /\ e.cb \/ m_state[e.fiber] # "EXEC"

\* Under m_mutex: take the first eligible entry out of the list.
Pick(t) ==
  /\ ~aborted
  /\ pc[t] = "pick"
  /\ \E i \in DOMAIN m_fibers :
       /\ Eligible(t, m_fibers[i])
       /\ \A j \in 1 .. i-1 : ~Eligible(t, m_fibers[j])
       /\ m_fibers' = RemoveAt(m_fibers, i)
       /\ cur' = [cur EXCEPT ![t] = m_fibers[i].fiber]
       /\ pc' = [pc EXCEPT ![t] = IF m_fibers[i].cb THEN "wrap" ELSE "resume"]
  /\ UNCHANGED <<m_threads, blocked, m_state, m_ctx, uc_link, armed, aborted,
                 wanted, begun, done>>

\* Nothing to take: the virtual idle(), which the base class leaves empty.
Idle(t) ==
  /\ ~aborted
  /\ pc[t] = "pick"
  /\ \A i \in DOMAIN m_fibers : ~Eligible(t, m_fibers[i])
  /\ UNCHANGED vars

\* Fiber::swapIn: assert, mark the fiber executing, continue where m_ctx says.
SwapIn(t, f, state, ctx) ==
  /\ aborted' = (state \in {"EXEC", "TERM"})
  /\ m_state' = [m_state EXCEPT ![f] = "EXEC"]
  /\ begun' = [begun EXCEPT ![f] = IF ctx = "entry" THEN @ + 1 ELSE @]
  /\ pc' = [pc EXCEPT ![t] = "body"]

\* A Fiber was taken.  (No fiber reaches this point in TERM or EXCEPT: see
\* Finish and Throw.)
Resume(t) ==
  /\ ~aborted
  /\ pc[t] = "resume"
  /\ SwapIn(t, cur[t], m_state[cur[t]], m_ctx[cur[t]])
  /\ UNCHANGED <<m_threads, blocked, m_fibers, m_ctx, uc_link, cur, armed,
                 wanted, done>>

\* The constructor of Fiber, on worker t.
NewFiber(f, t) ==
  /\ m_ctx' = [m_ctx EXCEPT ![f] = "entry"]
  /\ uc_link' = [uc_link EXCEPT ![f] = t]

\* A callback was taken: wrap it in a new Fiber that returns to this worker.
\* cb_fiber is always empty here: see AfterState.
Wrap(t) ==
  /\ ~aborted
  /\ pc[t] = "wrap"
  /\ NewFiber(cur[t], t)
  /\ SwapIn(t, cur[t], "INIT", "entry")
  /\ UNCHANGED <<m_threads, blocked, m_fibers, cur, armed, wanted, done>>

-----------------------------------------------------------------------------
(***************************************************************************)
(* Inside a coroutine.                                                     *)
(***************************************************************************)

\* Slip: the yield schedules the coroutine itself, while it is on its stack.
YieldToReadyQueued(t) ==
  /\ ~aborted
  /\ pc[t] = "body"
  /\ aborted' = (m_state[cur[t]] # "EXEC")
  /\ m_state' = [m_state EXCEPT ![cur[t]] = "READY"]
  /\ Schedule(t, cur[t], FALSE, AnyThread)
  /\ pc' = [pc EXCEPT ![t] = "yield"]
  /\ UNCHANGED <<m_threads, m_ctx, uc_link, cur, armed, wanted, begun,
                 done>>

\* Fiber::YieldToReady, up to swapOut.
YieldToReady(t) ==
  /\ ~aborted
  /\ pc[t] = "body"
  /\ aborted' = (m_state[cur[t]] # "EXEC")
  /\ m_state' = [m_state EXCEPT ![cur[t]] = "READY"]
  /\ pc' = [pc EXCEPT ![t] = "yield"]
  /\ UNCHANGED <<m_threads, blocked, m_fibers, m_ctx, uc_link, cur, armed,
                 wanted, begun, done>>

\* The hooked sleep and usleep up to addTimer, or addEvent without callback:
\* from here on the wake-up may come.  A timer that goes to the front of the
\* set tickles, too.
ArmWake(t) ==
  /\ ~aborted
  /\ pc[t] = "body"
  /\ SharedSleep \/ m_threads = {t}
  /\ blocked' \in {blocked, blocked \cup {t}}
  /\ armed' = armed \cup {cur[t]}
  /\ pc' = [pc EXCEPT ![t] = "arm"]
  /\ UNCHANGED <<m_threads, m_fibers, m_state, m_ctx, uc_link, cur,
                 aborted, wanted, begun, done>>

\* Fiber::YieldToHold, up to swapOut.
YieldToHold(t) ==
  /\ ~aborted
  /\ pc[t] = "arm"
  /\ aborted' = (m_state[cur[t]] # "EXEC")
  /\ m_state' = [m_state EXCEPT ![cur[t]] = "HOLD"]
  /\ pc' = [pc EXCEPT ![t] = "yield"]
  /\ UNCHANGED <<m_threads, blocked, m_fibers, m_ctx, uc_link, cur, armed,
                 wanted, begun, done>>

\* Fiber::swapOut: save the stack into m_ctx, back to this worker's loop.
SwapOut(t) ==
  /\ ~aborted
  /\ pc[t] = "yield"
  /\ m_ctx' = [m_ctx EXCEPT ![cur[t]] = "yield"]
  /\ pc' = [pc EXCEPT ![t] = "after"]
  /\ UNCHANGED <<m_threads, blocked, m_fibers, m_state, uc_link, cur, armed,
                 aborted, wanted, begun, done>>

\* Slip: the fiber is made ready for reuse without linking it to the worker it
\* runs on now.
FinishKeepsLink(t) ==
  /\ ~aborted
  /\ pc[t] = "body"
  /\ m_state' = [m_state EXCEPT ![cur[t]] = "INIT"]
  /\ m_ctx' = [m_ctx EXCEPT ![cur[t]] = "entry"]
  /\ done' = done \cup {cur[t]}
  /\ pc' = [pc EXCEPT ![t] = "return"]
  /\ UNCHANGED <<m_threads, blocked, m_fibers, uc_link, cur, armed, aborted,
                 wanted, begun>>

\* MainFunc after m_cb() returns: TERM, then reset(m_cb) at once, which sets
\* INIT, rewinds m_ctx to the entry and links this worker's main fiber.
Finish(t) ==
  /\ ~aborted
  /\ pc[t] = "body"
  /\ m_state' = [m_state EXCEPT ![cur[t]] = "INIT"]
  /\ m_ctx' = [m_ctx EXCEPT ![cur[t]] = "entry"]
  /\ uc_link' = [uc_link EXCEPT ![cur[t]] = t]
  /\ done' = done \cup {cur[t]}
  /\ pc' = [pc EXCEPT ![t] = "return"]
  /\ UNCHANGED <<m_threads, blocked, m_fibers, cur, armed, aborted, wanted,
                 begun>>

\* MainFunc's catch clause: EXCEPT, then an assertion that always fails.
Throw(t) ==
  /\ ~aborted
  /\ pc[t] = "body"
  /\ cur[t] \in Throwers
  /\ m_state' = [m_state EXCEPT ![cur[t]] = "EXCEPT"]
  /\ aborted' = TRUE
  /\ UNCHANGED <<m_threads, blocked, m_fibers, m_ctx, uc_link, pc, cur, armed,
                 wanted, begun, done>>

\* MainFunc returns through uc_link: this thread goes on in the frame, and
\* with the locals, of the loop the link names.
Return(t) ==
  /\ ~aborted
  /\ pc[t] = "return"
  /\ cur' = [cur EXCEPT ![t] = cur[uc_link[cur[t]]]]
  /\ pc' = [pc EXCEPT ![t] = "after"]
  /\ UNCHANGED <<m_threads, blocked, m_fibers, m_state, m_ctx, uc_link, armed,
                 aborted, wanted, begun, done>>

-----------------------------------------------------------------------------
(***************************************************************************)
(* The worker loop after the context switch.                               *)
(***************************************************************************)

\* Slips: whatever is not asleep is scheduled again; a yield is taken for a
\* sleep.
AfterRequeuesInit(t) ==
  /\ ~aborted
  /\ pc[t] = "after"
  /\ pc' = [pc EXCEPT ![t] = IF m_state[cur[t]] = "HOLD" THEN "hold" ELSE "requeue"]
  /\ UNCHANGED <<m_threads, blocked, m_fibers, m_state, m_ctx, uc_link, cur,
                 armed, aborted, wanted, begun, done>>

AfterHoldsReady(t) ==
  /\ ~aborted
  /\ pc[t] = "after"
  /\ pc' = [pc EXCEPT ![t] = "hold"]
  /\ UNCHANGED <<m_threads, blocked, m_fibers, m_state, m_ctx, uc_link, cur,
                 armed, aborted, wanted, begun, done>>

\* The loop reads the state the coroutine left.  TERM and EXCEPT would end
\* the iteration; READY is scheduled again; anything else becomes HOLD.
After(t) ==
  /\ ~aborted
  /\ pc[t] = "after"
  /\ LET state == m_state[cur[t]]
         over  == state \in {"TERM", "EXCEPT"}
     IN  /\ pc' = [pc EXCEPT ![t] = IF over THEN "pick"
                                    ELSE IF state = "READY" THEN "requeue"
                                    ELSE "hold"]
         /\ cur' = [cur EXCEPT ![t] = IF over THEN NoFiber ELSE @]
  /\ UNCHANGED <<m_threads, blocked, m_fibers, m_state, m_ctx, uc_link, armed,
                 aborted, wanted, begun, done>>

\* schedule(ft.fiber) or schedule(cb_fiber), for any thread; drop the pointer.
Requeue(t) ==
  /\ ~aborted
  /\ pc[t] = "requeue"
  /\ Schedule(t, cur[t], FALSE, AnyThread)
  /\ cur' = [cur EXCEPT ![t] = NoFiber]
  /\ pc' = [pc EXCEPT ![t] = "pick"]
  /\ UNCHANGED <<m_threads, m_state, m_ctx, uc_link, armed, aborted,
                 wanted, begun, done>>

\* m_state = HOLD; drop the pointer.
Hold(t) ==
  /\ ~aborted
  /\ pc[t] = "hold"
  /\ m_state' = [m_state EXCEPT ![cur[t]] = "HOLD"]
  /\ cur' = [cur EXCEPT ![t] = NoFiber]
  /\ pc' = [pc EXCEPT ![t] = "pick"]
  /\ UNCHANGED <<m_threads, blocked, m_fibers, m_ctx, uc_link, armed, aborted,
                 wanted, begun, done>>

-----------------------------------------------------------------------------
Init ==
  /\ m_threads \in SUBSET Threads \ {{}}
  /\ m_fibers = << >>
  /\ m_state = [f \in Fibers |-> "INIT"]
  /\ m_ctx = [f \in Fibers |-> "entry"]
  /\ uc_link = [f \in Fibers |-> NoThread]
  /\ pc = [t \in Threads |-> "pick"]
  /\ cur = [t \in Threads |-> NoFiber]
  /\ blocked = {}
  /\ armed = {}
  /\ aborted = FALSE
  /\ wanted = [f \in Fibers |-> Unsubmitted]
  /\ begun = [f \in Fibers |-> 0]
  /\ done = {}

Loop(t) ==
  \/ Pick(t) \/ Idle(t) \/ Resume(t) \/ Wrap(t)
  \/ After(t) \/ Requeue(t) \/ Hold(t)

Coroutine(t) ==
  \/ YieldToReady(t) \/ ArmWake(t) \/ YieldToHold(t) \/ SwapOut(t)
  \/ Finish(t) \/ Throw(t) \/ Return(t)

Next ==
  \/ \E t \in Threads : Runs(t) /\ (Loop(t) \/ Coroutine(t))
  \/ \E t \in Threads : Tickled(t)
  \/ \E c \in Threads, f \in Fibers : Wake(c, f)
  \/ \E c \in Threads \cup {NoThread}, f \in Fibers, isCb \in BOOLEAN,
        th \in Threads \cup {AnyThread} : Submit(c, f, isCb, th)

Spec == Init /\ [][Next]_vars

(***************************************************************************)
(* The kernel runs every worker thread that is not blocked, and no         *)
(* callback computes for ever between two yields.  Nothing is assumed      *)
(* about the callers of schedule() or the wake-ups, and no blocked tickle  *)
(* need ever return.                                                       *)
(***************************************************************************)
Fairness == \A t \in Threads : WF_vars(Runs(t) /\ (Loop(t) \/ Coroutine(t)))

FairSpec == Spec /\ Fairness

-----------------------------------------------------------------------------
(***************************************************************************)
(* Properties.                                                             *)
(***************************************************************************)

\* Type invariant of the loop, the list and the Fiber objects.
TypeOK ==
  /\ m_threads \subseteq Threads
  /\ m_fibers \in Seq(Entries)
  /\ m_state \in [Fibers -> States]
  /\ m_ctx \in [Fibers -> {"entry", "yield"}]
  /\ uc_link \in [Fibers -> Threads \cup {NoThread}]
  /\ pc \in [Threads -> {"pick", "resume", "wrap", "body", "arm", "yield",
                         "return", "after", "requeue", "hold"}]
  /\ cur \in [Threads -> Fibers \cup {NoFiber}]
  /\ blocked \subseteq m_threads
  /\ armed \subseteq Fibers
  /\ aborted \in BOOLEAN
  /\ wanted \in [Fibers -> Threads \cup {AnyThread, Unsubmitted}]
  /\ begun \in [Fibers -> Nat]
  /\ done \subseteq Fibers

\* No coroutine is entered on one worker while another worker still stands on
\* its stack.  swapIn's assertion (fiber.cpp:81) is meant to ensure it but
\* looks at m_state, which YieldToHold writes before the stack is saved.
StackExclusive ==
  \A t1, t2 \in Threads :
    OnStack(t1) /\ OnStack(t2) /\ cur[t1] = cur[t2] => t1 = t2

\* A submitted callback is entered once: no wake-up, late requeue or rewound
\* context (MainFunc ends by making its Fiber runnable again) runs it twice.
RunOnce == \A f \in Fibers : begun[f] <= 1

\* A coroutine that was submitted and has not returned is in the list, in the
\* hands of a worker, or has a wake-up to come: the loop's decision between
\* schedule() and HOLD, taken on a state read without a lock, loses nobody.
NothingLost ==
  \A f \in Fibers :
    wanted[f] # Unsubmitted /\ f \notin done =>
      Queued(f) \/ InHand(f) \/ f \in armed

\* The process is only ended by a callback that lets an exception escape; the
\* assertions of swapIn, YieldToReady and YieldToHold never fail.
OnlyThrowersAbort ==
  aborted => \E f \in Throwers : m_state[f] = "EXCEPT"

\* A finished coroutine returns to the loop of the worker it runs on, however
\* often it migrated: reset() at the end of MainFunc re-links it there.
ReturnsHome == \A t \in Threads : pc[t] = "return" => uc_link[cur[t]] = t

\* The loop never sees TERM or EXCEPT after a switch, so the branch that keeps
\* cb_fiber for the next callback is never taken.
AfterState ==
  \A t \in Threads :
    pc[t] = "after" => m_state[cur[t]] \in {"INIT", "HOLD", "READY"}

\* A coroutine whose callback has returned is never scheduled or resumed again.
FinishedStaysOut ==
  \A f \in done :
    /\ ~Queued(f) /\ f \notin armed
    /\ \A t \in Threads : cur[t] = f => pc[t] \in {"return", "after", "hold"}

\* A coroutine scheduled with a thread argument is entered on that thread.
EnteredWhereWanted ==
  \A t \in Threads :
    pc[t] \in {"wrap", "resume"} /\ begun[cur[t]] = 0 =>
      wanted[cur[t]] \in {AnyThread, t}

\* Every entry of the list is taken and run, unless a worker is blocked in a
\* tickle for ever: the loop scans from the front, new work and yielded
\* coroutines go to the back.  (Wakeup shows that the pipe may fill up.)
NoStarvation ==
  (\A t \in Threads : []<>(t \notin blocked)) =>
    \A f \in Fibers :
      Queued(f) ~> aborted \/ \E t \in Threads : cur[t] = f /\ pc[t] = "body"

=============================================================================
