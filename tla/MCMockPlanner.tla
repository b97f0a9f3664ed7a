--------------------------- MODULE MCMockPlanner ---------------------------
(* Instances of MockPlanner for TLC: invocations are interchangeable. *)
EXTENDS MockPlanner

Symmetry == Permutations(Invocations)
=============================================================================
