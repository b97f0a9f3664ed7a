------------------------- MODULE MCTimeoutScheduler -------------------------
(* Instances of TimeoutScheduler for TLC. *)
EXTENDS TimeoutScheduler, TLC

Symmetry == Permutations(Tasks)
=============================================================================
