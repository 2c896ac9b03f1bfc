--------------------------- MODULE MCTimerManager ---------------------------
(***************************************************************************)
(* Instances of TimerManager for TLC.                                      *)
(***************************************************************************)
EXTENDS TimerManager, FiniteSets, TLC

Symmetry == Permutations(Workers)
=============================================================================
