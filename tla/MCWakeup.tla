------------------------------ MODULE MCWakeup ------------------------------
(***************************************************************************)
(* Instances of Wakeup for TLC.                                            *)
(***************************************************************************)
EXTENDS Wakeup
=============================================================================
