---------------------------- MODULE GatePipeline ----------------------------
(***************************************************************************)
(* What a coordination run promises about its approval gates: the four     *)
(* gates are passed one at a time and in order, never while an escalation  *)
(* is open, and nothing is ever taken back; what the run does to the world *)
(* it does behind the gate it needs.                                       *)
(***************************************************************************)
EXTENDS Integers

OrdinaryGates == 1..4

\* The gate that must have been passed before each action.
Needs == [dispatched |-> 2, held |-> 3, deviated |-> 4]
Actions == DOMAIN Needs

VARIABLES
    passed,  \* gates passed so far
    taken,   \* actions taken so far
    urgent   \* is an escalation open?

vars == <<passed, taken, urgent>>

Init == passed = {} /\ taken = {} /\ urgent = FALSE

Pass(g) ==
    /\ ~urgent
    /\ g \notin passed /\ 1..(g - 1) \subseteq passed
    /\ passed' = passed \union {g}
    /\ UNCHANGED <<taken, urgent>>

\* Some actions are taken, and may show the need to escalate.
Act(actions) ==
    /\ actions # {}
    /\ \A a \in actions : Needs[a] \in passed
    /\ taken' = taken \union actions
    /\ urgent' \in {urgent, TRUE}
    /\ UNCHANGED passed

Escalate == urgent' = TRUE /\ UNCHANGED <<passed, taken>>

Resolve == urgent /\ urgent' = FALSE /\ UNCHANGED <<passed, taken>>

Next ==
    \/ \E g \in OrdinaryGates : Pass(g)
    \/ \E actions \in SUBSET Actions : Act(actions)
    \/ Escalate \/ Resolve

Spec == Init /\ [][Next]_vars
=============================================================================
