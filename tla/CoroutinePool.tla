---------------------------- MODULE CoroutinePool ----------------------------
(***************************************************************************)
(* What the scheduler promises its users, without its list, its locks and  *)
(* its Fiber objects: a pool of workers that share coroutines.             *)
(*                                                                         *)
(* A submitted coroutine is started once, on the worker it asks for.  It   *)
(* runs on one worker at a time until it yields, goes to sleep or returns; *)
(* a worker runs one coroutine at a time; only a coroutine that is ready   *)
(* is run, only a sleeping one is woken, and a finished one is left alone. *)
(***************************************************************************)
CONSTANTS Threads, Fibers, AnyThread, Unsubmitted, NoFiber

VARIABLES
  status,  \* what each coroutine is doing
  runner,  \* the coroutine each worker runs
  wanted   \* the worker each coroutine asked for

poolVars == <<status, runner, wanted>>

Submit(f) ==
  /\ status[f] = "new"
  /\ status' = [status EXCEPT ![f] = "submitted"]
  /\ \E th \in Threads \cup {AnyThread} : wanted' = [wanted EXCEPT ![f] = th]
  /\ UNCHANGED runner

\* A worker with nothing to do takes up coroutine f.
Dispatch(t, f) ==
  /\ runner[t] = NoFiber
  /\ runner' = [runner EXCEPT ![t] = f]
  /\ status' = [status EXCEPT ![f] = "running"]
  /\ UNCHANGED wanted

Start(t, f) ==
  /\ status[f] = "submitted"
  /\ wanted[f] \in {AnyThread, t}
  /\ Dispatch(t, f)

Continue(t, f) ==
  /\ status[f] = "ready"
  /\ Dispatch(t, f)

\* The coroutine gives up the worker: to run again, to sleep, or for good.
Leave(t, next) ==
  /\ runner[t] # NoFiber
  /\ runner' = [runner EXCEPT ![t] = NoFiber]
  /\ status' = [status EXCEPT ![runner[t]] = next]
  /\ UNCHANGED wanted

Wake(f) ==
  /\ status[f] = "parked"
  /\ status' = [status EXCEPT ![f] = "ready"]
  /\ UNCHANGED <<runner, wanted>>

Init ==
  /\ status = [f \in Fibers |-> "new"]
  /\ runner = [t \in Threads |-> NoFiber]
  /\ wanted = [f \in Fibers |-> Unsubmitted]

Next ==
  \/ \E f \in Fibers : Submit(f) \/ Wake(f)
  \/ \E t \in Threads, f \in Fibers : Start(t, f) \/ Continue(t, f)
  \/ \E t \in Threads, next \in {"ready", "parked", "done"} : Leave(t, next)

Spec == Init /\ [][Next]_poolVars
=============================================================================
