---------------------------- MODULE MCAgentGraph ----------------------------
(* Instance of AgentGraph for TLC: invocations are interchangeable. *)
EXTENDS AgentGraph, TLC

Symmetry == Permutations(Invocations)
=============================================================================
