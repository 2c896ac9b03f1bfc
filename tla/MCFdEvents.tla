----------------------------- MODULE MCFdEvents -----------------------------
(***************************************************************************)
(* Instances of FdEvents for TLC: threads and descriptors are              *)
(* interchangeable.                                                        *)
(***************************************************************************)
EXTENDS FdEvents, TLC

Symmetry == Permutations(Workers) \cup Permutations(Fds)
=============================================================================
