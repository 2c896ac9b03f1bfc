----------------------------- MODULE MCScheduler -----------------------------
(***************************************************************************)
(* Instances of Scheduler for TLC, with its inductive invariant and the    *)
(* refinement of CoroutinePool.                                            *)
(***************************************************************************)
EXTENDS SchedulerInv, SchedulerPool
=============================================================================
