---------------------------- MODULE SchedulerPool ----------------------------
(***************************************************************************)
(* Scheduler implements CoroutinePool.                                     *)
(*                                                                         *)
(* A coroutine counts as running from the moment a worker takes its entry  *)
(* out of the list until the worker drops its pointer or the callback has  *)
(* returned.                                                               *)
(***************************************************************************)
EXTENDS Scheduler

StatusOf(f) ==
  IF wanted[f] = Unsubmitted THEN "new"
  ELSE IF f \in done THEN "done"
  ELSE IF InHand(f) THEN "running"
  ELSE IF f \in armed THEN "parked"
  ELSE IF ~Queued(f) THEN "lost"
  ELSE IF begun[f] = 0 THEN "submitted" ELSE "ready"

Pool == INSTANCE CoroutinePool WITH
  status <- [f \in Fibers |-> StatusOf(f)],
  runner <- [t \in Threads |-> IF cur[t] \in done THEN NoFiber ELSE cur[t]]

\* The loop with its list, the Fiber objects and the four-step context switch
\* behaves like the pool.
PoolSpec == Pool!Spec
=============================================================================
