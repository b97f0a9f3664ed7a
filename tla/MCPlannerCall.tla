--------------------------- MODULE MCPlannerCall ---------------------------
(* An instance of PlannerCall for TLC. *)
EXTENDS PlannerCall

\* The shipped settings, ones whose second model takes any schema, ones with
\* no second model, and ones without a key.
MCSettings ==
    {[model |-> "gemini", keyed |-> TRUE, second |-> "openai"],
     [model |-> "openai", keyed |-> TRUE, second |-> "anthropic"],
     [model |-> "anthropic", keyed |-> TRUE, second |-> "none"],
     [model |-> "openai", keyed |-> FALSE, second |-> "none"]}
=============================================================================
