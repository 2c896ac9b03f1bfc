--------------------------- MODULE MCLoadGenerator ---------------------------
(***************************************************************************)
(* Instances of LoadGenerator for TLC.                                     *)
(***************************************************************************)
EXTENDS LoadGenerator
=============================================================================
