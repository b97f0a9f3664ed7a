----------------------------- MODULE AgentGraph -----------------------------
(***************************************************************************)
(* One agent run (one LangGraph thread) of PSA Nexus: the agent, tools,    *)
(* hitl and monitor nodes of app/agent/graph.py over one checkpointed      *)
(* state, the operator who answers gates through /agent/hitl/respond, and  *)
(* the clock that ages an answered card.                                   *)
(*                                                                         *)
(* A graph invocation loads the checkpoint once, works on its own copy,    *)
(* and writes the copy back after every node; several invocations of one   *)
(* thread may be under way at once, because nothing in the server          *)
(* serialises two answers.  What the planner (LLM or mock) asks for is     *)
(* any batch of tool calls here; module MockPlanner fixes it.              *)
(***************************************************************************)
EXTENDS Integers, Sequences, FiniteSets

CONSTANTS
    Invocations,  \* graph.ainvoke calls that may be under way
    Calls,        \* tool calls the planner knows, named by call id
    MaxBatch,     \* calls in one planner reply
    MaxBad,       \* calls to unregistered tools in one planner reply
    Triggers,     \* escalation triggers decided by the environment
    Deferrable,   \* those that wait until a split exists
    Faulty,       \* calls whose tool may return an error
    LongHolds,    \* may a feeder hold exceed the 1.5 h limit?
    Conflicts,    \* may the monitor find a berth conflict?
    Switches,     \* may another problem's tools be registered meanwhile?
    Kinds,        \* decisions the operator may send
    Reasoned,     \* may the answer carry the 10-character reason?
    LateAnswers,  \* may an answer name a card that is no longer pending?
    Expiry,       \* may a re-presented card outlive its gate's timeout?
    MayAbort      \* may an invocation be cut short by an exception?

NoCall == "none"
Dispatches == {"dispatch", "dispatch_delta"}
TuasUpdates == {"T5", "T5_2"}
Notices == {"notify_dispatch", "notify_hold", "notify_tuas"}
AllCalls == {"T1", "T2", "T3", "T4", "hold"}
              \union Dispatches \union TuasUpdates \union Notices
Decisions == {"approve", "reject", "modify", "timeout", "unknown"}

ASSUME ConstantsAssumption ==
    /\ Calls \subseteq AllCalls
    /\ MaxBatch \in Nat /\ MaxBad \in Nat
    /\ Deferrable \subseteq Triggers
    /\ Faulty \subseteq Calls
    /\ LongHolds \subseteq BOOLEAN /\ Conflicts \subseteq BOOLEAN
    /\ Kinds \subseteq Decisions /\ Reasoned \subseteq BOOLEAN
    /\ Switches \in BOOLEAN /\ LateAnswers \in BOOLEAN
    /\ Expiry \in BOOLEAN /\ MayAbort \in BOOLEAN

Gates == 1..5             \* HITL-1 .. HITL-5
TraceLimit == 6           \* trace entries before an idle planner is given up
Splits == {"none", "plan", "error"}
Cards == {"none", "current", "stale", "error"}
Ages == {"none", "fresh", "old"}
Statuses == {"running", "calling_tools", "waiting_hitl", "escalated",
             "cancelled", "holding", "halted"}
Facts == {"candidates", "road_capacity", "tuas_sequence", "dispatched",
          "delta_dispatched", "deviation_log", "held", "long_hold",
          "monitored", "deviation_handled", "cancelled",
          "notified_dispatch", "notified_hold", "notified_tuas"}
Deeds == {"dispatched", "held", "updated"}
Nodes == {"agent", "tools", "hitl", "monitor"}
Ends == {"idle", "waiting_hitl", "completed", "aborted"}

Batches == UNION {[1..n -> Calls] : n \in 0..MaxBatch}
Answers == [gate : Gates, kind : Kinds, reasoned : Reasoned]
NoAnswer == [gate |-> 0, kind |-> "none", reasoned |-> FALSE]

(***************************************************************************)
(* The part of AgentState that steers the graph.  pending is the gate in   *)
(* hitl_pending (0 if none); approved holds the gates with an approve in   *)
(* hitl_history and rejected those whose latest entry is a reject; facts   *)
(* are the context keys that are set, also by a call that failed; done     *)
(* holds what a tool has really done, a result without error in the trace; *)
(* card tells whether context.dispatch_result, which HITL-2's card is      *)
(* built from, belongs to the split that split_result holds now.           *)
(***************************************************************************)
RunStates ==
    [calls : Seq(Calls), ok : SUBSET Calls, pending : 0..5, esc : BOOLEAN,
     status : Statuses, approved : SUBSET Gates, rejected : SUBSET Gates,
     facts : SUBSET Facts, done : SUBSET Deeds,
     deferred : SUBSET Triggers, split : Splits, card : Cards,
     deviated : BOOLEAN, entered : Ages, trace : 0..TraceLimit]

InitialState ==
    [calls |-> <<>>, ok |-> {}, pending |-> 0, esc |-> FALSE,
     status |-> "running", approved |-> {}, rejected |-> {}, facts |-> {},
     done |-> {}, deferred |-> {}, split |-> "none", card |-> "none",
     deviated |-> FALSE, entered |-> "none", trace |-> 0]

VARIABLES
    ckpt,     \* the thread's latest checkpoint: its state and the next node
    inv,      \* each invocation: where it is, its copy, the answer it carries
    shown,    \* gates whose approval card the operator has been shown
    consent,  \* gates the operator sent an approve for, naming that gate
    sent      \* dispatches that reached the trucking system (0, 1, 2 = more)

vars == <<ckpt, inv, shown, consent, sent>>
-----------------------------------------------------------------------------
\* Pure steps on a run state.

HasResult(s) == s.split # "none" \/ s.facts \intersect {"candidates", "road_capacity"} # {}

\* The trace only matters until there is a first result.
Log(s, n) ==
    [s EXCEPT !.trace = IF HasResult(s) THEN @
                        ELSE IF @ + n > TraceLimit THEN TraceLimit ELSE @ + n]

\* Faulty variant: an open escalation does not hold the gates back.
FreeOfGates(s) == s.pending = 0

Free(s) == s.pending = 0 /\ ~s.esc

\* Faulty variant: the dispatch gate does not wait for the split gate.
DueGateUnordered(s, tuasReady) ==
    IF s.split # "none" /\ {1, 2} \intersect s.approved = {} THEN 2
    ELSE IF s.split # "none" /\ 1 \notin s.approved THEN 1
    ELSE IF 2 \in s.approved /\ 3 \notin s.approved THEN 3
    ELSE IF 3 \in s.approved /\ 4 \notin s.approved /\ tuasReady THEN 4
    ELSE 0

\* The first gate that is due, given whether HITL-4's card can be shown.
DueGate(s, tuasReady) ==
    IF s.split # "none" /\ 1 \notin s.approved THEN 1
    ELSE IF 1 \in s.approved /\ 2 \notin s.approved THEN 2
    ELSE IF 2 \in s.approved /\ 3 \notin s.approved THEN 3
    ELSE IF 3 \in s.approved /\ 4 \notin s.approved /\ tuasReady THEN 4
    ELSE 0

Present(s, g) == [s EXCEPT !.pending = g, !.status = "waiting_hitl"]

FastGate(s) == DueGate(s, "tuas_sequence" \in s.facts)

ReasonedGate(s) == DueGate(s, s.facts \intersect {"tuas_sequence", "dispatched"} # {})

\* The preview of the dispatch card, filled in once and never refreshed.
Preview(s) ==
    IF Free(s) /\ s.split # "none" /\ s.card = "none"
    THEN [s EXCEPT !.card = "current"] ELSE s

\* check_escalations: `fires' are the triggers whose condition holds.  Before
\* there is a split the deferrable ones are put off; once there is one and
\* nothing else fires, those put off and still true are raised after all.
Fired(s, fires) == IF "deviation_handled" \in s.facts THEN {} ELSE fires

Early(s) == s.split = "none"

Urgent(s, fires) ==
    IF Early(s) THEN Fired(s, fires) \ Deferrable ELSE Fired(s, fires)

Revived(s, fires) ==
    IF Early(s) \/ Urgent(s, fires) # {} THEN {} ELSE s.deferred \intersect fires

Deferred(s, fires) ==
    IF Early(s) THEN (IF Fired(s, fires) # {} THEN Fired(s, fires) \intersect Deferrable
                      ELSE s.deferred)
    ELSE IF Urgent(s, fires) = {} THEN {} ELSE s.deferred

Raise(s) == [s EXCEPT !.esc = TRUE, !.pending = 5, !.status = "escalated"]

Escalate(s, fires) ==
    LET d == [s EXCEPT !.deferred = Deferred(s, fires)]
    IN  IF Urgent(s, fires) \union Revived(s, fires) = {} THEN d ELSE Log(Raise(d), 1)

\* A feeder hold above the limit always fires; the rest is the environment's.
Conditions(s) ==
    {t \union (IF "long_hold" \in s.facts THEN {"hold"} ELSE {}) :
        t \in SUBSET Triggers}

\* The planner's reply: only unknown tools, some calls, or text.
Reply(s, batch, bad) ==
    Log([s EXCEPT !.calls = batch,
                  !.status = IF batch # <<>> THEN "calling_tools"
                             ELSE IF bad > 0 \/ Free(s) THEN "running" ELSE @],
        1 + bad)

GateAfterReply(s) ==
    IF s.calls = <<>> /\ Free(s) /\ ReasonedGate(s) # 0
    THEN Present(s, ReasonedGate(s)) ELSE s

\* A reply of unknown tools only returns before escalation and gating.
Reason(s, batch, bad, fires) ==
    LET r == Reply(s, batch, bad)
    IN  IF batch = <<>> /\ bad > 0 THEN r
        ELSE GateAfterReply(Escalate(r, fires))

\* Faulty variant: a gate leads to the node that was never wired in.
RouteToWaiting(s) ==
    IF s.calls # <<>> THEN "tools" ELSE IF s.pending # 0 THEN "waiting" ELSE "END"

\* Faulty variant: monitoring starts with the dispatch, before HITL-4.
RouteToMonitorEarly(s) ==
    IF s.calls # <<>> THEN "tools"
    ELSE IF s.pending # 0 \/ s.esc THEN "hitl"
    ELSE IF "dispatched" \in s.facts /\ "monitored" \notin s.facts THEN "monitor"
    ELSE "END"

RouteAfterAgent(s) ==
    IF s.calls # <<>> THEN "tools"
    ELSE IF s.pending # 0 \/ s.esc THEN "hitl"
    ELSE IF 4 \in s.approved /\ "dispatched" \in s.facts
              /\ "monitored" \notin s.facts THEN "monitor"
    ELSE IF ~HasResult(s) /\ s.trace < TraceLimit THEN "agent"
    ELSE "END"
-----------------------------------------------------------------------------
\* Tools.

\* Faulty variant: the post-approval guard forgets the feeder hold.
RequiredGateOfTrucks(c) == IF c \in Dispatches THEN 2 ELSE 0

RequiredGate(c) == IF c \in Dispatches THEN 2 ELSE IF c = "hold" THEN 3 ELSE 0

Blocked(s, c) == RequiredGate(c) # 0 /\ RequiredGate(c) \notin s.approved

\* A new split; dispatch_result stays what it was.
Recompute(s, outcome) ==
    [s EXCEPT !.split = outcome, !.card = IF @ = "current" THEN "stale" ELSE @]

Outcomes(c) == IF c \in Faulty THEN {"plan", "error"} ELSE {"plan"}

\* A handler that re-computes the split asks the registry for the tool too.
ReplanOutcomes == Outcomes("T4") \union (IF Switches THEN {"error"} ELSE {})

Notified(c) == CASE c = "notify_dispatch" -> "notified_dispatch"
                 [] c = "notify_hold" -> "notified_hold"
                 [] c = "notify_tuas" -> "notified_tuas"

Deed(c) == CASE c \in Dispatches -> {"dispatched"}
             [] c = "hold" -> {"held"}
             [] c \in TuasUpdates -> {"updated"}
             [] OTHER -> {}

\* The shortcuts a call sets.  That the word "delta" in a dispatch's output sets
\* delta_dispatched too is left out: only calls that wait for deviation_log read
\* the flag, and nothing sets deviation_log in the context.
NewFacts(s, c, outcome, long) ==
    CASE c = "T1" -> {"candidates"}
      [] c = "T2" -> {"road_capacity"}
      [] c \in TuasUpdates -> {"tuas_sequence"}
      [] c \in Dispatches -> {"dispatched"} \union
            (IF "deviation_log" \in s.facts THEN {"delta_dispatched"} ELSE {})
      [] c = "hold" -> {"held"} \union (IF long THEN {"long_hold"} ELSE {})
      [] c \in Notices /\ outcome = "plan" -> {Notified(c)}
      [] OTHER -> {}

\* The context shortcuts of a call that ran.  An error output is recorded
\* like a result: a failed dispatch still sets context.dispatched.
Executed(s, c, outcome, long) ==
    LET ran == [s EXCEPT
            !.ok = IF outcome = "plan" THEN @ \union {c} ELSE @ \ {c},
            !.facts = (IF c = "hold" THEN @ \ {"long_hold"} ELSE @)
                        \union NewFacts(s, c, outcome, long),
            !.done = IF outcome = "plan" THEN @ \union Deed(c) ELSE @]
    IN  IF c = "T4" THEN Recompute(ran, outcome)
        ELSE IF c \in Dispatches
             THEN [ran EXCEPT !.card = IF outcome = "plan" THEN "current" ELSE "error"]
        ELSE ran

Refused(s, c) == [s EXCEPT !.ok = @ \ {c}]

\* Faulty variant: HITL-4 is presented again after it was approved.
AfterToolsAgain(s, fires) ==
    LET e == Escalate([s EXCEPT !.calls = <<>>, !.status = "running"], fires)
    IN  IF Free(e) /\ {1, 2, 3} \subseteq e.approved /\ "tuas_sequence" \in e.facts
        THEN Present(e, 4) ELSE e

\* The end of tool_node: calls cleared, triggers checked, HITL-4 presented.
AfterTools(s, fires) ==
    LET e == Escalate([s EXCEPT !.calls = <<>>, !.status = "running"], fires)
    IN  IF Free(e) /\ {1, 2, 3} \subseteq e.approved /\ 4 \notin e.approved
             /\ "tuas_sequence" \in e.facts
        THEN Present(e, 4) ELSE e
-----------------------------------------------------------------------------
\* handle_hitl_response: the decision is applied to the gate that is pending,
\* whatever gate the answer names.

Resolved(s) == [s EXCEPT !.pending = 0, !.status = "running"]

\* Faulty variant: approving HITL-5 leaves the escalation open.
ApproveKeepsEscalation(s, g) ==
    [Resolved(s) EXCEPT !.approved = @ \union {g}, !.rejected = @ \ {g},
                        !.facts = IF g = 5 THEN (@ \ {"long_hold"}) \union
                                                {"deviation_handled", "monitored"}
                                  ELSE @]

\* Faulty variant: a reject on record counts even after a later approve.
ApproveTooLate(s, g) ==
    [Resolved(s) EXCEPT !.approved = @ \union {g},
                        !.esc = IF g = 5 THEN FALSE ELSE @,
                        !.facts = IF g = 5 THEN (@ \ {"long_hold"}) \union
                                                {"deviation_handled", "monitored"}
                                  ELSE @]

Approve(s, g) ==
    LET a == [Resolved(s) EXCEPT !.approved = @ \union {g},
                                 !.rejected = @ \ {g}]
    IN  IF g = 5
        THEN [a EXCEPT !.esc = FALSE,
                       !.facts = (@ \ {"long_hold"}) \union
                                 {"deviation_handled", "monitored"}]
        ELSE a

\* Faulty variant: a reject starts the gates over.
RejectStartsOver(s, g) ==
    [Resolved(s) EXCEPT !.rejected = @ \union {g}, !.approved = {}]

Reject(s, g) == [Resolved(s) EXCEPT !.rejected = @ \union {g}]

\* Faulty variant: a modification counts as an approval of what it changed.
ModifyApproves(s, g, outcome) ==
    Recompute([Resolved(s) EXCEPT !.rejected = @ \ {g}, !.approved = @ \union {g}],
              outcome)

\* A modification that fails validation leaves no history entry.
Modify(s, g, outcome) ==
    IF outcome = "invalid" THEN Resolved(s)
    ELSE Recompute([Resolved(s) EXCEPT !.rejected = @ \ {g}], outcome)

\* Faulty variant: silence is consent.
TimeoutApproves(s, g) ==
    [Resolved(s) EXCEPT !.approved = @ \union {g}, !.rejected = @ \ {g}]

\* The gate's timeout_action.
Timeout(s, g) ==
    LET t == [s EXCEPT !.rejected = @ \ {g}]
    IN  CASE g \in {1, 3} -> Raise(t)
          [] g = 2 -> [t EXCEPT !.pending = 0, !.status = "cancelled",
                                !.facts = @ \union {"cancelled"}]
          [] g = 4 -> [t EXCEPT !.pending = 0, !.status = "holding"]
          [] OTHER -> [t EXCEPT !.pending = 0, !.status = "halted"]

\* hitl_node stamps the entry time afresh when it re-runs on resume, and the
\* stamp is only saved by the decisions that do not pop it.
Entered(s) == [s EXCEPT !.status = "waiting_hitl", !.entered = "fresh"]

Decide(s, g, kind, outcome) ==
    CASE kind = "approve" -> Approve(s, g)
      [] kind = "reject" -> Reject(s, g)
      [] kind = "modify" -> Modify(s, g, outcome)
      [] kind = "timeout" -> Timeout(s, g)
      [] OTHER -> Resolved(s)

\* The card and the decision each leave a trace entry, an unknown one none.
Entries(s, answer) ==
    IF answer.kind = "unknown" /\ (s.pending = 5 => answer.reasoned) THEN 1 ELSE 2

Handle(s, answer, outcome) ==
    LET e == Log(Entered(s), Entries(s, answer))
    IN  IF s.pending = 5 /\ ~answer.reasoned THEN e
        ELSE IF answer.kind = "approve"
             THEN [Decide(e, s.pending, "approve", outcome) EXCEPT !.entered = s.entered]
        ELSE Decide(e, s.pending, answer.kind, outcome)

\* is_hitl_stale: the only check between an answer and the thread.
Stale(s, gate) ==
    \/ s.pending = 0 /\ s.status \in {"halted", "cancelled", "holding"}
    \/ s.entered = "old" /\ s.pending = gate
-----------------------------------------------------------------------------
\* The monitor.

Monitored(s, conflict, outcome, fires) ==
    IF s.facts \intersect {"monitored", "deviation_handled"} # {} THEN s
    ELSE LET m == [s EXCEPT !.facts = @ \union {"monitored"}]
             d == Recompute([m EXCEPT !.deviated = TRUE, !.esc = TRUE, !.pending = 5,
                                      !.facts = @ \union {"long_hold"}], outcome)
         IN  IF conflict THEN d
             ELSE IF "stale" \in fires /\ ~m.esc
                  THEN [m EXCEPT !.esc = TRUE, !.pending = 5]
             ELSE m

RouteAfterMonitor(s) ==
    IF s.esc \/ s.pending # 0 THEN "hitl" ELSE IF s.deviated THEN "agent" ELSE "END"
-----------------------------------------------------------------------------
\* The actions: one graph step of an invocation each, and the environment.

At(i, node) == inv[i].at = node

Resting(i) == inv[i].at \in Ends

Rest(end) == [at |-> end, state |-> InitialState, answer |-> NoAnswer]

\* A node returned: save its state and go where the router says.
Save(i, s, node) ==
    /\ ckpt' = [state |-> s, next |-> node]
    /\ inv' = [inv EXCEPT ![i] =
                  IF node = "END" THEN Rest("completed")
                  ELSE [at |-> node, state |-> s, answer |-> NoAnswer]]

Init ==
    /\ ckpt = [state |-> InitialState, next |-> "START"]
    /\ inv = [i \in Invocations |-> Rest("idle")]
    /\ shown = {} /\ consent = {} /\ sent = 0

Start(i) ==
    /\ ckpt.next = "START"
    /\ ckpt' = [ckpt EXCEPT !.next = "agent"]
    /\ inv' = [inv EXCEPT ![i] = [@ EXCEPT !.at = "agent"]]
    /\ UNCHANGED <<shown, consent, sent>>

\* HITL-5 is already pending: no reasoning.
AgentFastExit(i) ==
    /\ At(i, "agent")
    /\ inv[i].state.pending = 5
    /\ Save(i, inv[i].state, RouteAfterAgent(inv[i].state))
    /\ UNCHANGED <<shown, consent, sent>>

\* The next gate is due: present it without asking the planner.
AgentFastGate(i) ==
    /\ At(i, "agent")
    /\ Free(inv[i].state)
    /\ FastGate(inv[i].state) # 0
    /\ LET p == Preview(inv[i].state)
           s == Log(Present(p, FastGate(p)), 1)
       IN  Save(i, s, RouteAfterAgent(s))
    /\ UNCHANGED <<shown, consent, sent>>

AgentReason(i, batch, bad) ==
    /\ At(i, "agent")
    /\ inv[i].state.pending # 5
    /\ ~(Free(inv[i].state) /\ FastGate(inv[i].state) # 0)
    /\ \E fires \in Conditions(inv[i].state) :
          LET s == Reason(Preview(inv[i].state), batch, bad, fires)
          IN  Save(i, s, RouteAfterAgent(s))
    /\ UNCHANGED <<shown, consent, sent>>

\* One call of the batch; the copy is only saved when the node returns.
RefuseTool(i) ==
    /\ At(i, "tools")
    /\ inv[i].state.calls # <<>>
    /\ LET s == inv[i].state
           c == Head(s.calls)
       IN  /\ Blocked(s, c)
           /\ inv' = [inv EXCEPT ![i].state =
                         [Refused(Log(s, 1), c) EXCEPT !.calls = Tail(@)]]
    /\ UNCHANGED <<ckpt, shown, consent, sent>>

RunTool(i) ==
    /\ At(i, "tools")
    /\ inv[i].state.calls # <<>>
    /\ LET s == inv[i].state
           c == Head(s.calls)
       IN  /\ ~Blocked(s, c)
           /\ \E outcome \in Outcomes(c), long \in LongHolds :
                /\ inv' = [inv EXCEPT ![i].state =
                              [Executed(Log(s, 1), c, outcome, long)
                                  EXCEPT !.calls = Tail(@)]]
                /\ sent' = IF c \in Dispatches /\ outcome = "plan" /\ sent < 2
                           THEN sent + 1 ELSE sent
    /\ UNCHANGED <<ckpt, shown, consent>>

\* Another problem's tools are registered when the call is made, or were when
\* it was looked up: a tool that is not found has no guard and runs to an
\* error, which is recorded like any other.
MissTool(i) ==
    /\ Switches
    /\ At(i, "tools")
    /\ inv[i].state.calls # <<>>
    /\ LET s == inv[i].state
       IN  \E long \in LongHolds :
              inv' = [inv EXCEPT ![i].state =
                         [Executed(Log(s, 1), Head(s.calls), "error", long)
                             EXCEPT !.calls = Tail(@)]]
    /\ UNCHANGED <<ckpt, shown, consent, sent>>

FinishTools(i) ==
    /\ At(i, "tools")
    /\ inv[i].state.calls = <<>>
    /\ \E fires \in Conditions(inv[i].state) :
          Save(i, AfterTools(inv[i].state, fires), "agent")
    /\ UNCHANGED <<shown, consent, sent>>

\* hitl_node with no gate: an escalation whose gate was already answered.
HitlPass(i) ==
    /\ At(i, "hitl")
    /\ inv[i].state.pending = 0
    /\ Save(i, inv[i].state, "agent")
    /\ UNCHANGED <<shown, consent, sent>>

\* interrupt(): the card is shown and the invocation returns to its caller.
\* What the node wrote before the interrupt is not in the checkpoint.
HitlPause(i) ==
    /\ At(i, "hitl")
    /\ inv[i].state.pending # 0
    /\ inv[i].answer = NoAnswer
    /\ shown' = shown \union {inv[i].state.pending}
    /\ inv' = [inv EXCEPT ![i] = Rest("waiting_hitl")]
    /\ UNCHANGED <<ckpt, consent, sent>>

HitlResume(i) ==
    /\ At(i, "hitl")
    /\ inv[i].state.pending # 0
    /\ inv[i].answer # NoAnswer
    /\ \E outcome \in {"invalid"} \union ReplanOutcomes :
          Save(i, Handle(inv[i].state, inv[i].answer, outcome), "agent")
    /\ UNCHANGED <<shown, consent, sent>>

MonitorStep(i) ==
    /\ At(i, "monitor")
    /\ \E conflict \in Conflicts, outcome \in ReplanOutcomes,
          fires \in Conditions(inv[i].state) :
          LET s == Monitored(inv[i].state, conflict, outcome, fires)
          IN  Save(i, s, RouteAfterMonitor(s))
    /\ UNCHANGED <<shown, consent, sent>>

\* POST /agent/hitl/respond: Command(resume=...) continues the thread from
\* its latest checkpoint, at whatever node that checkpoint names.
Respond(i, answer) ==
    /\ Resting(i)
    /\ ckpt.next \in Nodes
    /\ answer.gate \in shown
    /\ LateAnswers \/ answer.gate = ckpt.state.pending
    /\ ~Stale(ckpt.state, answer.gate)
    /\ inv' = [inv EXCEPT ![i] =
                  [at |-> ckpt.next, state |-> ckpt.state,
                   answer |-> IF ckpt.next = "hitl" THEN answer ELSE NoAnswer]]
    /\ consent' = IF answer.kind = "approve" THEN consent \union {answer.gate}
                  ELSE consent
    /\ UNCHANGED <<ckpt, shown, sent>>

\* A saved entry stamp outlives its gate's timeout_seconds.
Tick ==
    /\ Expiry
    /\ ckpt.state.entered = "fresh"
    /\ ckpt' = [ckpt EXCEPT !.state.entered = "old"]
    /\ inv' = [i \in Invocations |->
                 IF inv[i].state.entered = "fresh"
                 THEN [inv[i] EXCEPT !.state.entered = "old"] ELSE inv[i]]
    /\ UNCHANGED <<shown, consent, sent>>

\* An exception or the recursion limit ends the invocation between two
\* steps; the checkpoint keeps the last saved node.
Abort(i) ==
    /\ MayAbort
    /\ inv[i].at \in Nodes
    /\ inv' = [inv EXCEPT ![i] = Rest("aborted")]
    /\ UNCHANGED <<ckpt, shown, consent, sent>>

\* What the running graph does between two replies of the planner.
Step(i) ==
    \/ AgentFastExit(i) \/ AgentFastGate(i)
    \/ RefuseTool(i) \/ RunTool(i) \/ MissTool(i) \/ FinishTools(i)
    \/ HitlPass(i) \/ HitlPause(i) \/ HitlResume(i) \/ MonitorStep(i)

Next ==
    \/ \E i \in Invocations :
          \/ Start(i)
          \/ Step(i)
          \/ \E batch \in Batches, bad \in 0..MaxBad : AgentReason(i, batch, bad)
          \/ \E answer \in Answers : Respond(i, answer)
          \/ Abort(i)
    \/ Tick

Spec == Init /\ [][Next]_vars
-----------------------------------------------------------------------------
\* Properties.  They speak of every copy of the run state there is: the
\* checkpoint and what each invocation under way is working on.

Copies == {ckpt.state} \union {inv[i].state : i \in Invocations}

Checkpoints == [state : RunStates, next : Nodes \union {"START", "END"}]

Places == [at : Nodes \union Ends, state : RunStates, answer : Answers \union {NoAnswer}]

\* Every field keeps its range; a checkpoint is never left at an unknown node.
TypeOK ==
    /\ ckpt \in Checkpoints
    /\ inv \in [Invocations -> Places]
    /\ shown \subseteq Gates /\ consent \subseteq Gates /\ sent \in 0..2

\* HITL-1 to HITL-4 are approved in order, and the gate that is pending is
\* the first one not yet approved, whatever order answers, planner replies
\* and cut-short invocations come in (nodes.py gating, handler.py approve).
InOrder(s) ==
    /\ \A g \in 2..4 : g \in s.approved => g - 1 \in s.approved
    /\ \A g \in 1..4 : s.pending = g => /\ g \notin s.approved
                                        /\ 1..(g - 1) \subseteq s.approved

GateOrder == \A s \in Copies : InOrder(s)

\* Trucks are only sent by a run whose split and dispatch were both approved,
\* and the feeder is only held after HITL-3 too.  tool_node's guard looks at
\* one gate, and not at all while another problem's tools are registered: the
\* run then records a dispatch, context.dispatched, but nothing leaves.
TakenWhenApproved(s) ==
    /\ "dispatched" \in s.done => {1, 2} \subseteq s.approved
    /\ "held" \in s.done => {1, 2, 3} \subseteq s.approved

ActionsApproved == \A s \in Copies : TakenWhenApproved(s)

\* A run with an open escalation shows the duty manager's gate or none: an
\* ordinary gate is never offered past it, and HITL-5 is never offered
\* without an escalation to resolve.
EscalatedAlone(s) == /\ s.esc => s.pending \in {0, 5}
                     /\ s.pending = 5 => s.esc

EscalationFirst == \A s \in Copies : EscalatedAlone(s)

\* The emergency re-split is only ever made of a fully approved run that has
\* recorded a dispatch: the monitor never runs before HITL-4.
DeviatedAfterDispatch(s) ==
    s.deviated => 1..4 \subseteq s.approved /\ "dispatched" \in s.facts

EmergencyAfterDispatch == \A s \in Copies : DeviatedAfterDispatch(s)

\* A gate whose latest decision is a reject is not approved, so nothing
\* behind it runs ("The agent NEVER executes a rejected action").
NotBoth(s) == s.rejected \intersect s.approved \intersect 1..4 = {}

RejectedStaysClosed == \A s \in Copies : NotBoth(s)

\* The thread keeps the promise of GatePipeline whatever the planner asks for
\* and wherever invocations are cut short, as long as one answer is handled at
\* a time: gates are passed singly and in order, never during an escalation,
\* and no checkpoint takes back an approval or an action.
GatesPassed == ckpt.state.approved \intersect 1..4
ActionsTaken == (ckpt.state.done \intersect {"dispatched", "held"})
                  \union (IF ckpt.state.deviated THEN {"deviated"} ELSE {})
Pipeline == INSTANCE GatePipeline WITH
    passed <- GatesPassed, taken <- ActionsTaken, urgent <- ckpt.state.esc
ImplementsPipeline == Pipeline!Spec

\* A gate counts as approved only if the operator approved that very gate;
\* so no truck leaves without an approve of HITL-1 and of HITL-2.
ConsentBacksApproval ==
    /\ \A s \in Copies : s.approved \subseteq consent
    /\ sent > 0 => {1, 2} \subseteq consent
=============================================================================
