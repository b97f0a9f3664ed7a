---------------------------- MODULE MockPlanner ----------------------------
(***************************************************************************)
(* AgentGraph driven by the deterministic planner of                       *)
(* app/agent/mock_provider.py, which answers whenever no LLM key is        *)
(* configured.  It reads the run state only, so an invocation that is cut  *)
(* short, raced or resumed goes on from whatever its copy says.            *)
(***************************************************************************)
EXTENDS AgentGraph, SequencesExt

ASSUME PlannerAssumption ==
    Calls = AllCalls /\ MaxBatch >= 3 /\ (Switches => MaxBad >= 3)

ToolOf(c) ==
    CASE c \in Dispatches -> "dispatch_road_itt"
      [] c \in TuasUpdates -> "update_tuas_loading_sequence"
      [] c \in Notices -> "notify_parties"
      [] OTHER -> c

\* Faulty variant: only calls under the tool's own name count.
SucceededByName(s, tool) == tool \in s.ok

\* The tools with a result that is not an error.
Succeeded(s, tool) == \E c \in s.ok : ToolOf(c) = tool

\* Faulty variant: a dispatch on record is taken for a finished one.
DispatchedOnRecord(s) == "dispatched" \in s.facts

Dispatched(s) == Succeeded(s, "dispatch_road_itt")
TuasUpdated(s) == Succeeded(s, "update_tuas_loading_sequence")
Granted(s, g) == g \in s.approved /\ g \notin s.rejected

\* Whether a call is asked for in a run state.  The two calls of the
\* emergency re-plan look for context.deviation_log.
Wanted(s, c) ==
    CASE c = "T1" -> ~Succeeded(s, "T1")
      [] c \in {"T2", "T3"} -> ~Succeeded(s, c) /\ Succeeded(s, "T1")
      [] c = "T4" -> /\ ~Succeeded(s, "T4")
                     /\ Succeeded(s, "T2") /\ Succeeded(s, "T3")
      [] c = "dispatch" -> /\ ~Dispatched(s) /\ 1 \in s.approved /\ Granted(s, 2)
                           /\ "deviation_log" \notin s.facts
      [] c = "hold" -> ~Succeeded(s, "hold") /\ 1 \in s.approved /\ Granted(s, 3)
      [] c = "dispatch_delta" ->
            /\ "deviation_log" \in s.facts
            /\ \/ ~Dispatched(s) /\ 1 \in s.approved /\ Granted(s, 2)
               \/ Dispatched(s) /\ 5 \in s.approved /\ "delta_dispatched" \notin s.facts
      [] c = "T5" -> /\ ~TuasUpdated(s) /\ 4 \notin s.approved
                     /\ \A g \in 1..3 : Granted(s, g)
      [] c = "T5_2" -> /\ "deviation_log" \in s.facts /\ 5 \in s.approved
                       /\ TuasUpdated(s) /\ Dispatched(s)
                       /\ "delta_dispatched" \in s.facts
      [] c = "notify_dispatch" -> /\ Dispatched(s) /\ Granted(s, 2)
                                  /\ "notified_dispatch" \notin s.facts
      [] c = "notify_hold" -> /\ Succeeded(s, "hold") /\ Granted(s, 3)
                              /\ "notified_hold" \notin s.facts
      [] c = "notify_tuas" -> /\ TuasUpdated(s) /\ Granted(s, 4)
                              /\ "notified_tuas" \notin s.facts

\* The calls that are wanted, in the order the planner lists them.
Listed(s) ==
    LET ask(c) == IF Wanted(s, c) THEN <<c>> ELSE <<>>
    IN  ask("T1") \o ask("T2") \o ask("T3") \o ask("T4") \o ask("dispatch")
          \o ask("hold") \o ask("dispatch_delta") \o ask("T5") \o ask("T5_2")
          \o ask("notify_dispatch") \o ask("notify_hold") \o ask("notify_tuas")

\* A dispatch, else a hold, goes alone.
Alone(batch) ==
    LET has(c) == c \in ToSet(batch)
    IN  IF has("dispatch") THEN <<"dispatch">>
        ELSE IF has("dispatch_delta") THEN <<"dispatch_delta">>
        ELSE IF has("hold") THEN <<"hold">>
        ELSE batch

\* At most three calls a batch.
Plan(s) ==
    LET due == Listed(s)
    IN  Alone(SubSeq(due, 1, IF Len(due) > 3 THEN 3 ELSE Len(due)))

\* The planner's reply: its calls, or none of them known while another
\* problem's tools are registered.
PlannerReply(i) ==
    LET plan == Plan(Preview(inv[i].state))
    IN  \/ AgentReason(i, plan, 0)
        \/ Switches /\ plan # <<>> /\ AgentReason(i, <<>>, Len(plan))

\* One graph step with the planner's own reply.
MockWork(i) == Step(i) \/ PlannerReply(i)

MockNext ==
    \/ \E i \in Invocations :
          \/ Start(i)
          \/ MockWork(i)
          \/ \E answer \in Answers : Respond(i, answer)
          \/ Abort(i)
    \/ Tick

MockSpec == Init /\ [][MockNext]_vars

\* The event loop keeps running a graph it started.
GraphRuns == \A i \in Invocations : WF_vars(Start(i)) /\ WF_vars(MockWork(i))

\* An operator who is asked about a gate again and again approves it in the
\* end, however often he rejects or changes the plan first.
Approval(g) == [gate |-> g, kind |-> "approve", reasoned |-> TRUE]
OperatorApproves ==
    \A i \in Invocations, g \in Gates : SF_vars(Respond(i, Approval(g)))

AttendedSpec == MockSpec /\ GraphRuns /\ OperatorApproves
-----------------------------------------------------------------------------
\* One invocation at a time never sends the trucks twice: a dispatch that
\* succeeded is never asked for again, however often gates are rejected,
\* modified or timed out around it.
DispatchedOnce == sent <= 1

\* No party is told of an action the run has not taken: the notices follow
\* the tool's result, not the approval, nor the context flag that a failed call
\* sets as well.
NoticesAreTrue ==
    \A s \in Copies :
        /\ "notified_dispatch" \in s.facts => "dispatched" \in s.done
        /\ "notified_hold" \in s.facts => "held" \in s.done
        /\ "notified_tuas" \in s.facts => "updated" \in s.done

\* An invocation ends by showing a card or by completing, whatever the
\* operator decided before it.
EveryInvocationEnds == \A i \in Invocations : inv[i].at \in Nodes ~> Resting(i)

\* With an operator who in the end approves, the run completes, with trucks
\* dispatched, the feeder held, the sequence updated and all parties told.
Settled ==
    /\ ckpt.next = "END"
    /\ {"dispatched", "held", "tuas_sequence", "notified_dispatch",
        "notified_hold", "notified_tuas", "monitored"} \subseteq ckpt.state.facts
ApprovalsComplete == <>[]Settled
=============================================================================
