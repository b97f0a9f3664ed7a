-------------------------- MODULE AgentGraphProofs --------------------------
(***************************************************************************)
(* What every planner and any number of racing invocations leave true of   *)
(* AgentGraph, in three parts: type correctness, the order of gates and    *)
(* actions, and the operator's consent.  In each part a lemma per operator *)
(* comes first, then one step per action.                                  *)
(*                                                                         *)
(* Part 1.  Every field of every copy of the run state keeps its range.    *)
(***************************************************************************)
EXTENDS AgentGraph, TLAPS

\* The constant values the steps write are in their sets.
LEMMA Values ==
  /\ {"running", "waiting_hitl", "escalated", "cancelled", "holding", "halted",
      "calling_tools"} \subseteq Statuses
  /\ {"monitored", "deviation_handled", "long_hold", "cancelled"} \subseteq Facts
  /\ {"fresh", "old"} \subseteq Ages
  BY DEF Statuses, Facts, Ages

\* One field of a run state at a time.
LEMMA SetPending ==
  ASSUME NEW s \in RunStates, NEW x \in 0..5
  PROVE  [s EXCEPT !.pending = x] \in RunStates
  BY DEF RunStates

LEMMA SetEsc ==
  ASSUME NEW s \in RunStates, NEW x \in BOOLEAN
  PROVE  [s EXCEPT !.esc = x] \in RunStates
  BY DEF RunStates

LEMMA SetStatus ==
  ASSUME NEW s \in RunStates, NEW x \in Statuses
  PROVE  [s EXCEPT !.status = x] \in RunStates
  BY DEF RunStates

LEMMA SetFacts ==
  ASSUME NEW s \in RunStates, NEW x \in SUBSET Facts
  PROVE  [s EXCEPT !.facts = x] \in RunStates
  BY DEF RunStates

\* The state a run starts in is a run state.
LEMMA InitialStateType == InitialState \in RunStates
  BY DEF InitialState, RunStates, Statuses, Splits, Cards, Ages, TraceLimit

\* Appending to the trace keeps the state in its type ...
LEMMA LogType ==
  ASSUME NEW s \in RunStates, NEW n \in Nat
  PROVE  Log(s, n) \in RunStates
  <1> DEFINE x == IF HasResult(s) THEN s.trace
                  ELSE IF s.trace + n > TraceLimit THEN TraceLimit ELSE s.trace + n
  <1>1. x \in 0..TraceLimit
    BY DEF RunStates, TraceLimit
  <1>2. Log(s, n) = [s EXCEPT !.trace = x]
    BY DEF Log
  <1> HIDE DEF x
  <1> QED  BY <1>1, <1>2 DEF RunStates

\* ... and touches no other field.
LEMMA LogKeeps ==
  ASSUME NEW s \in RunStates, NEW n \in Nat
  PROVE  /\ Log(s, n).calls = s.calls
         /\ Log(s, n).pending = s.pending
         /\ Log(s, n).esc = s.esc
         /\ Log(s, n).approved = s.approved
         /\ Log(s, n).rejected = s.rejected
         /\ Log(s, n).facts = s.facts
         /\ Log(s, n).done = s.done
         /\ Log(s, n).deviated = s.deviated
         /\ Log(s, n).split = s.split
  BY DEF Log, RunStates

\* Presenting a gate of HITL-1 to HITL-5 keeps the type.
LEMMA PresentType ==
  ASSUME NEW s \in RunStates, NEW g \in 0..5
  PROVE  Present(s, g) \in RunStates
  BY Values DEF Present, RunStates

\* The gate that is due is an ordinary gate, or none.
LEMMA DueGateType ==
  ASSUME NEW s, NEW ready
  PROVE  DueGate(s, ready) \in 0..4
  BY DEF DueGate

\* So does filling in the preview of the dispatch card.
LEMMA PreviewType ==
  ASSUME NEW s \in RunStates
  PROVE  Preview(s) \in RunStates
  BY DEF Preview, RunStates, Cards

\* Raising HITL-5 keeps the type.
LEMMA RaiseType ==
  ASSUME NEW s \in RunStates
  PROVE  Raise(s) \in RunStates
  <1>1. 5 \in 0..5 /\ TRUE \in BOOLEAN
    OBVIOUS
  <1> QED  BY <1>1, Values, SetEsc, SetPending, SetStatus DEF Raise

\* Whatever triggers fire, check_escalations keeps the type.
LEMMA EscalateType ==
  ASSUME NEW s \in RunStates, NEW fires
  PROVE  Escalate(s, fires) \in RunStates
  <1> DEFINE d == [s EXCEPT !.deferred = Deferred(s, fires)]
  <1>1. Fired(s, fires) \intersect Deferrable \subseteq Triggers
    BY ConstantsAssumption
  <1>2. Deferred(s, fires) \in SUBSET Triggers
    BY <1>1 DEF Deferred, RunStates
  <1>3. d \in RunStates
    BY <1>2 DEF RunStates
  <1>4. Raise(d) \in RunStates
    BY <1>3, RaiseType
  <1>5. Log(Raise(d), 1) \in RunStates
    BY <1>4, LogType
  <1> QED  BY <1>3, <1>5 DEF Escalate

\* A planner reply of registered calls keeps the type.
LEMMA ReplyType ==
  ASSUME NEW s \in RunStates, NEW batch \in Seq(Calls), NEW bad \in Nat
  PROVE  Reply(s, batch, bad) \in RunStates
  <1> DEFINE st == IF batch # <<>> THEN "calling_tools"
                   ELSE IF bad > 0 \/ Free(s) THEN "running" ELSE s.status
             r == [s EXCEPT !.calls = batch, !.status = st]
  <1>1. st \in Statuses
    BY DEF RunStates, Statuses
  <1>2. r \in RunStates
    BY <1>1 DEF RunStates
  <1>3. 1 + bad \in Nat
    OBVIOUS
  <1>4. Log(r, 1 + bad) \in RunStates
    BY <1>2, <1>3, LogType
  <1>5. Reply(s, batch, bad) = Log(r, 1 + bad)
    BY DEF Reply, RunStates
  <1> QED  BY <1>4, <1>5

\* Gating after a reply keeps the type.
LEMMA GateAfterReplyType ==
  ASSUME NEW s \in RunStates
  PROVE  GateAfterReply(s) \in RunStates
  <1>1. ReasonedGate(s) \in 0..5
    BY DueGateType DEF ReasonedGate
  <1> QED  BY <1>1, PresentType DEF GateAfterReply

\* The whole reasoning pass of agent_node keeps the type.
LEMMA ReasonType ==
  ASSUME NEW s \in RunStates, NEW batch \in Seq(Calls), NEW bad \in Nat, NEW fires
  PROVE  Reason(s, batch, bad, fires) \in RunStates
  BY ReplyType, EscalateType, GateAfterReplyType DEF Reason

\* A new split keeps the type.
LEMMA RecomputeType ==
  ASSUME NEW s \in RunStates, NEW outcome \in {"plan", "error"}
  PROVE  Recompute(s, outcome) \in RunStates
  BY DEF Recompute, RunStates, Splits, Cards

\* A tool call that ran keeps the type, whatever it returned.
LEMMA ExecutedType ==
  ASSUME NEW s \in RunStates, NEW c \in Calls, NEW outcome \in {"plan", "error"},
         NEW long \in BOOLEAN
  PROVE  Executed(s, c, outcome, long) \in RunStates
  <1> DEFINE k == IF outcome = "plan" THEN s.ok \union {c} ELSE s.ok \ {c}
             f == (IF c = "hold" THEN s.facts \ {"long_hold"} ELSE s.facts)
                    \union NewFacts(s, c, outcome, long)
             dn == IF outcome = "plan" THEN s.done \union Deed(c) ELSE s.done
             ran == [s EXCEPT !.ok = k, !.facts = f, !.done = dn]
  <1>1. k \in SUBSET Calls
    BY DEF RunStates
  <1>2. NewFacts(s, c, outcome, long) \in SUBSET Facts
    BY ConstantsAssumption
    DEF NewFacts, Facts, Notified, Notices, Dispatches, TuasUpdates, AllCalls
  <1>3. f \in SUBSET Facts
    BY <1>2 DEF RunStates
  <1>d. dn \in SUBSET Deeds
    <2>1. Deed(c) \in SUBSET Deeds
      BY DEF Deed, Deeds
    <2> QED  BY <2>1 DEF RunStates
  <1>4. ran \in RunStates
    BY <1>1, <1>3, <1>d DEF RunStates
  <1>5. Executed(s, c, outcome, long) =
          IF c = "T4" THEN Recompute(ran, outcome)
          ELSE IF c \in Dispatches
               THEN [ran EXCEPT !.card = IF outcome = "plan" THEN "current" ELSE "error"]
          ELSE ran
    BY DEF Executed, RunStates
  <1>6. [ran EXCEPT !.card = IF outcome = "plan" THEN "current" ELSE "error"] \in RunStates
    BY <1>4 DEF RunStates, Cards
  <1> HIDE DEF ran
  <1> QED  BY <1>4, <1>5, <1>6, RecomputeType

\* A refused tool call keeps the type.
LEMMA RefusedType ==
  ASSUME NEW s \in RunStates, NEW c
  PROVE  Refused(s, c) \in RunStates
  BY DEF Refused, RunStates

\* The end of tool_node keeps the type.
LEMMA AfterToolsType ==
  ASSUME NEW s \in RunStates, NEW fires
  PROVE  AfterTools(s, fires) \in RunStates
  <1> DEFINE t == [s EXCEPT !.calls = <<>>, !.status = "running"]
  <1>1. t \in RunStates
    <2>1. <<>> \in Seq(Calls)
      OBVIOUS
    <2> QED  BY <2>1, Values DEF RunStates
  <1>2. Escalate(t, fires) \in RunStates
    BY <1>1, EscalateType
  <1>3. Present(Escalate(t, fires), 4) \in RunStates
    BY <1>2, PresentType
  <1> QED  BY <1>2, <1>3 DEF AfterTools

\* Every decision on every gate keeps the type.
LEMMA DecideType ==
  ASSUME NEW s \in RunStates, NEW g \in Gates, NEW kind,
         NEW outcome \in {"invalid", "plan", "error"}
  PROVE  Decide(s, g, kind, outcome) \in RunStates
  <1>1. Resolved(s) \in RunStates
    <2>1. 0 \in 0..5
      OBVIOUS
    <2> QED  BY <2>1, Values, SetPending, SetStatus DEF Resolved
  <1>2. Approve(s, g) \in RunStates
    <2> DEFINE a == [Resolved(s) EXCEPT !.approved = @ \union {g}, !.rejected = @ \ {g}]
    <2>1. a \in RunStates
      BY <1>1 DEF RunStates
    <2> DEFINE f == (a.facts \ {"long_hold"}) \union {"deviation_handled", "monitored"}
    <2>2. f \in SUBSET Facts
      BY <2>1, Values DEF RunStates
    <2>3. [a EXCEPT !.esc = FALSE, !.facts = f] \in RunStates
      BY <2>1, <2>2, SetEsc, SetFacts
    <2>4. Approve(s, g) = IF g = 5 THEN [a EXCEPT !.esc = FALSE, !.facts = f] ELSE a
      BY <2>1 DEF Approve, RunStates
    <2> QED  BY <2>1, <2>3, <2>4
  <1>3. Reject(s, g) \in RunStates
    BY <1>1 DEF Reject, RunStates
  <1>4. Modify(s, g, outcome) \in RunStates
    <2>1. [Resolved(s) EXCEPT !.rejected = @ \ {g}] \in RunStates
      BY <1>1 DEF RunStates
    <2> QED  BY <1>1, <2>1, RecomputeType DEF Modify
  <1>5. Timeout(s, g) \in RunStates
    <2> DEFINE t == [s EXCEPT !.rejected = @ \ {g}]
    <2>1. t \in RunStates
      BY DEF RunStates
    <2>2. Raise(t) \in RunStates
      BY <2>1, RaiseType
    <2> DEFINE f == t.facts \union {"cancelled"}
    <2>a. 0 \in 0..5 /\ f \in SUBSET Facts
      BY <2>1, Values DEF RunStates
    <2>3. [t EXCEPT !.pending = 0, !.status = "cancelled", !.facts = f] \in RunStates
      BY <2>1, <2>a, Values, SetPending, SetStatus, SetFacts
    <2>b. [t EXCEPT !.pending = 0, !.status = "cancelled", !.facts = @ \union {"cancelled"}]
            = [t EXCEPT !.pending = 0, !.status = "cancelled", !.facts = f]
      BY <2>1 DEF RunStates
    <2>4. \A st \in {"holding", "halted"} :
             [t EXCEPT !.pending = 0, !.status = st] \in RunStates
      BY <2>1, <2>a, Values, SetPending, SetStatus
    <2> QED  BY <2>2, <2>3, <2>b, <2>4 DEF Timeout
  <1> QED  BY <1>1, <1>2, <1>3, <1>4, <1>5 DEF Decide

\* The whole of hitl_node after its interrupt keeps the type.
LEMMA HandleType ==
  ASSUME NEW s \in RunStates, s.pending # 0, NEW answer,
         NEW outcome \in {"invalid", "plan", "error"}
  PROVE  Handle(s, answer, outcome) \in RunStates
  <1> DEFINE e == Log(Entered(s), Entries(s, answer))
  <1>1. e \in RunStates
    <2>1. Entered(s) \in RunStates /\ Entries(s, answer) \in Nat
      BY Values DEF Entered, Entries, RunStates
    <2> QED  BY <2>1, LogType
  <1>2. s.pending \in Gates
    BY DEF RunStates, Gates
  <1> HIDE DEF e
  <1>3. \A kind : Decide(e, s.pending, kind, outcome) \in RunStates
    BY <1>1, <1>2, DecideType
  <1>4. [Decide(e, s.pending, "approve", outcome) EXCEPT !.entered = s.entered] \in RunStates
    BY <1>3 DEF RunStates
  <1> QED  BY <1>1, <1>3, <1>4 DEF Handle, e

\* The monitor keeps the type.
LEMMA MonitoredType ==
  ASSUME NEW s \in RunStates, NEW conflict \in BOOLEAN, NEW outcome \in {"plan", "error"},
         NEW fires
  PROVE  Monitored(s, conflict, outcome, fires) \in RunStates
  <1> DEFINE m == [s EXCEPT !.facts = @ \union {"monitored"}]
             e == [m EXCEPT !.esc = TRUE, !.pending = 5]
             d == [m EXCEPT !.deviated = TRUE, !.esc = TRUE, !.pending = 5,
                            !.facts = @ \union {"long_hold"}]
  <1>1. m \in RunStates
    BY Values DEF RunStates
  <1>2. e \in RunStates
    <2>1. 5 \in 0..5 /\ TRUE \in BOOLEAN
      OBVIOUS
    <2> QED  BY <1>1, <2>1, SetEsc, SetPending
  <1>3. d \in RunStates
    <2>1. m.facts \union {"long_hold"} \in SUBSET Facts
      BY <1>1, Values DEF RunStates
    <2>2. [e EXCEPT !.deviated = TRUE] \in RunStates
      BY <1>2 DEF RunStates
    <2>3. [[e EXCEPT !.deviated = TRUE] EXCEPT !.facts = m.facts \union {"long_hold"}]
            \in RunStates
      BY <2>1, <2>2, SetFacts
    <2>4. d = [[e EXCEPT !.deviated = TRUE] EXCEPT !.facts = m.facts \union {"long_hold"}]
      BY <1>1 DEF RunStates
    <2> QED  BY <2>3, <2>4
  <1>4. Recompute(d, outcome) \in RunStates
    BY <1>3, RecomputeType
  <1> QED  BY <1>1, <1>2, <1>4 DEF Monitored

\* Taking the first call off the batch keeps the type.
LEMMA TailType ==
  ASSUME NEW s \in RunStates, s.calls # <<>>
  PROVE  [s EXCEPT !.calls = Tail(@)] \in RunStates
  <1>1. Tail(s.calls) \in Seq(Calls)
    BY DEF RunStates
  <1> QED  BY <1>1 DEF RunStates

\* A tool call leaves the batch it came from alone.
LEMMA ExecutedKeepsCalls ==
  ASSUME NEW s \in RunStates, NEW c, NEW outcome, NEW long
  PROVE  Executed(s, c, outcome, long).calls = s.calls
  BY DEF Executed, Recompute, RunStates

\* So the first call of a batch keeps the type when it is run and taken off.
LEMMA RanType ==
  ASSUME NEW s \in RunStates, s.calls # <<>>, NEW outcome \in {"plan", "error"},
         NEW long \in BOOLEAN
  PROVE  [Executed(Log(s, 1), Head(s.calls), outcome, long) EXCEPT !.calls = Tail(@)]
           \in RunStates
  <1>1. Head(s.calls) \in Calls
    <2>1. s.calls \in Seq(Calls)
      BY DEF RunStates
    <2> QED  BY <2>1
  <1>2. Log(s, 1) \in RunStates /\ Log(s, 1).calls = s.calls
    BY LogType, LogKeeps
  <1>3. /\ Executed(Log(s, 1), Head(s.calls), outcome, long) \in RunStates
        /\ Executed(Log(s, 1), Head(s.calls), outcome, long).calls # <<>>
    BY <1>1, <1>2, ExecutedType, ExecutedKeepsCalls
  <1> QED  BY <1>3, TailType

\* The routers name a node of the graph or its end.
LEMMA RouteType ==
  ASSUME NEW s
  PROVE  /\ RouteAfterAgent(s) \in Nodes \union {"END"}
         /\ RouteAfterMonitor(s) \in Nodes \union {"END"}
  BY DEF RouteAfterAgent, RouteAfterMonitor, Nodes

\* A batch is a sequence of calls.
LEMMA BatchType == Batches \subseteq Seq(Calls)
  BY ConstantsAssumption DEF Batches

\* An invocation that rests is in a place of its type.
LEMMA RestType ==
  ASSUME NEW end \in Ends
  PROVE  Rest(end) \in Places
  BY InitialStateType DEF Rest, Places

\* Saving a well-typed state with a known next node keeps TypeOK.
LEMMA SaveType ==
  ASSUME TypeOK, NEW i \in Invocations, NEW s \in RunStates,
         NEW node \in Nodes \union {"END"}, Save(i, s, node),
         UNCHANGED <<shown, consent, sent>>
  PROVE  TypeOK'
  <1>1. Rest("completed") \in Places
    BY RestType DEF Ends
  <1>2. node # "END" => [at |-> node, state |-> s, answer |-> NoAnswer] \in Places
    BY DEF Places
  <1>3. ckpt' \in Checkpoints
    BY DEF Save, Checkpoints
  <1>4. inv' \in [Invocations -> Places]
    BY <1>1, <1>2 DEF Save, TypeOK
  <1> QED  BY <1>3, <1>4 DEF TypeOK

\* Whatever the planner replies and the operator answers, every copy of the
\* run state keeps the ranges of AgentState and every checkpoint names a node
\* of build_graph (graph.py routers, nodes.py, gates.py, monitor.py).
THEOREM TypeCorrect == Spec => []TypeOK
  <1>1. Init => TypeOK
    <2> SUFFICES ASSUME Init PROVE TypeOK
      OBVIOUS
    <2>1. \A i \in Invocations : inv[i] \in Places
      BY RestType DEF Init, Ends
    <2> QED  BY <2>1, InitialStateType DEF Init, TypeOK, Checkpoints
  <1>2. TypeOK /\ [Next]_vars => TypeOK'
    <2> SUFFICES ASSUME TypeOK, [Next]_vars PROVE TypeOK'
      OBVIOUS
    <2> USE DEF TypeOK
    <2>a. ASSUME NEW i \in Invocations
          PROVE  /\ inv[i].state \in RunStates /\ inv[i].answer \in Answers \union {NoAnswer}
                 /\ inv[i] \in Places
      BY DEF Places
    <2>b. ckpt.state \in RunStates
      BY DEF Checkpoints
    <2>1. ASSUME NEW i \in Invocations, Start(i) PROVE TypeOK'
      <3>1. [inv[i] EXCEPT !.at = "agent"] \in Places
        BY <2>a DEF Places, Nodes
      <3>2. ckpt' \in Checkpoints
        BY <2>1 DEF Start, Checkpoints, Nodes
      <3> QED  BY <2>1, <3>1, <3>2 DEF Start
    <2>2. ASSUME NEW i \in Invocations, AgentFastExit(i) PROVE TypeOK'
      BY <2>2, <2>a, RouteType, SaveType DEF AgentFastExit
    <2>3. ASSUME NEW i \in Invocations, AgentFastGate(i) PROVE TypeOK'
      <3> DEFINE p == Preview(inv[i].state)
                 s == Log(Present(p, FastGate(p)), 1)
      <3>1. FastGate(p) \in 0..5
        BY DueGateType DEF FastGate
      <3>2. s \in RunStates
        BY <2>a, <3>1, PreviewType, PresentType, LogType
      <3>3. Save(i, s, RouteAfterAgent(s)) /\ UNCHANGED <<shown, consent, sent>>
        BY <2>3 DEF AgentFastGate
      <3> HIDE DEF s
      <3> QED  BY <3>2, <3>3, RouteType, SaveType
    <2>4. ASSUME NEW i \in Invocations, NEW batch \in Batches, NEW bad \in 0..MaxBad,
                 AgentReason(i, batch, bad)
          PROVE  TypeOK'
      <3>1. PICK fires \in Conditions(inv[i].state) :
               LET s == Reason(Preview(inv[i].state), batch, bad, fires)
               IN  Save(i, s, RouteAfterAgent(s))
        BY <2>4 DEF AgentReason
      <3> DEFINE s == Reason(Preview(inv[i].state), batch, bad, fires)
      <3>2. batch \in Seq(Calls) /\ bad \in Nat
        BY BatchType, ConstantsAssumption
      <3>3. s \in RunStates
        BY <2>a, <3>2, PreviewType, ReasonType
      <3>4. Save(i, s, RouteAfterAgent(s)) /\ UNCHANGED <<shown, consent, sent>>
        BY <2>4, <3>1 DEF AgentReason
      <3> HIDE DEF s
      <3> QED  BY <3>3, <3>4, RouteType, SaveType
    <2>5. ASSUME NEW i \in Invocations, RefuseTool(i) PROVE TypeOK'
      <3> DEFINE l == Log(inv[i].state, 1)
                 s == Refused(l, Head(inv[i].state.calls))
      <3>1. l \in RunStates /\ l.calls # <<>>
        BY <2>5, <2>a, LogType, LogKeeps DEF RefuseTool
      <3>2. s \in RunStates /\ s.calls # <<>>
        BY <3>1, RefusedType DEF Refused, RunStates
      <3>3. [s EXCEPT !.calls = Tail(@)] \in RunStates
        BY <3>2, TailType
      <3> QED  BY <2>5, <2>a, <3>3 DEF RefuseTool, Places
    <2>6. ASSUME NEW i \in Invocations, RunTool(i) PROVE TypeOK'
      <3> DEFINE c == Head(inv[i].state.calls)
                 s(outcome, long) ==
                   [Executed(Log(inv[i].state, 1), c, outcome, long) EXCEPT !.calls = Tail(@)]
      <3>1. PICK outcome \in Outcomes(c), long \in LongHolds :
               /\ inv' = [inv EXCEPT ![i].state = s(outcome, long)]
               /\ sent' = IF c \in Dispatches /\ outcome = "plan" /\ sent < 2
                          THEN sent + 1 ELSE sent
        BY <2>6 DEF RunTool
      <3>2. outcome \in {"plan", "error"} /\ long \in BOOLEAN
        BY ConstantsAssumption DEF Outcomes
      <3>3. s(outcome, long) \in RunStates
        BY <2>6, <2>a, <3>2, RanType DEF RunTool
      <3>4. sent' \in 0..2
        BY <3>1
      <3> QED  BY <2>6, <2>a, <3>1, <3>3, <3>4 DEF RunTool, Places
    <2>7. ASSUME NEW i \in Invocations, FinishTools(i) PROVE TypeOK'
      BY <2>7, <2>a, AfterToolsType, SaveType DEF FinishTools, Nodes
    <2>8. ASSUME NEW i \in Invocations, HitlPass(i) PROVE TypeOK'
      BY <2>8, <2>a, SaveType DEF HitlPass, Nodes
    <2>9. ASSUME NEW i \in Invocations, HitlPause(i) PROVE TypeOK'
      <3>1. Rest("waiting_hitl") \in Places
        BY RestType DEF Ends
      <3>2. inv[i].state.pending \in Gates
        BY <2>9, <2>a DEF HitlPause, RunStates, Gates
      <3> QED  BY <2>9, <3>1, <3>2 DEF HitlPause
    <2>10. ASSUME NEW i \in Invocations, HitlResume(i) PROVE TypeOK'
      <3>1. {"invalid"} \union ReplanOutcomes \subseteq {"invalid", "plan", "error"}
        BY DEF ReplanOutcomes, Outcomes
      <3> QED  BY <2>10, <2>a, <3>1, HandleType, SaveType DEF HitlResume, Nodes
    <2>11. ASSUME NEW i \in Invocations, MonitorStep(i) PROVE TypeOK'
      <3>1. PICK conflict \in Conflicts, outcome \in ReplanOutcomes,
                 fires \in Conditions(inv[i].state) :
               LET s == Monitored(inv[i].state, conflict, outcome, fires)
               IN  Save(i, s, RouteAfterMonitor(s))
        BY <2>11 DEF MonitorStep
      <3> DEFINE s == Monitored(inv[i].state, conflict, outcome, fires)
      <3>2. s \in RunStates
        BY <2>a, MonitoredType, ConstantsAssumption DEF ReplanOutcomes, Outcomes
      <3>3. Save(i, s, RouteAfterMonitor(s)) /\ UNCHANGED <<shown, consent, sent>>
        BY <2>11, <3>1 DEF MonitorStep
      <3> HIDE DEF s
      <3> QED  BY <3>2, <3>3, RouteType, SaveType
    <2>12. ASSUME NEW i \in Invocations, NEW answer \in Answers, Respond(i, answer)
           PROVE  TypeOK'
      <3>1. [at |-> ckpt.next, state |-> ckpt.state,
             answer |-> IF ckpt.next = "hitl" THEN answer ELSE NoAnswer] \in Places
        BY <2>12, <2>b DEF Respond, Places
      <3>2. answer.gate \in Gates
        BY DEF Answers
      <3> QED  BY <2>12, <3>1, <3>2 DEF Respond
    <2>13. ASSUME NEW i \in Invocations, Abort(i) PROVE TypeOK'
      <3>1. Rest("aborted") \in Places
        BY RestType DEF Ends
      <3> QED  BY <2>13, <3>1 DEF Abort
    <2>14. ASSUME Tick PROVE TypeOK'
      <3>1. \A s \in RunStates : [s EXCEPT !.entered = "old"] \in RunStates
        BY DEF RunStates, Ages
      <3>2. ckpt' \in Checkpoints
        BY <2>14, <3>1, <2>b DEF Tick, Checkpoints
      <3>3. \A i \in Invocations : [inv[i] EXCEPT !.state.entered = "old"] \in Places
        BY <3>1 DEF Places
      <3>4. inv' \in [Invocations -> Places]
        BY <2>14, <2>a, <3>3 DEF Tick
      <3> QED  BY <2>14, <3>2, <3>4 DEF Tick
    <2>15. ASSUME NEW i \in Invocations, MissTool(i) PROVE TypeOK'
      <3> DEFINE s(long) ==
            [Executed(Log(inv[i].state, 1), Head(inv[i].state.calls), "error", long)
                EXCEPT !.calls = Tail(@)]
      <3>1. PICK long \in LongHolds : inv' = [inv EXCEPT ![i].state = s(long)]
        BY <2>15 DEF MissTool
      <3>2. s(long) \in RunStates
        BY <2>15, <2>a, ConstantsAssumption, RanType DEF MissTool
      <3> QED  BY <2>15, <2>a, <3>1, <3>2 DEF MissTool, Places
    <2>16. CASE UNCHANGED vars
      BY <2>16 DEF vars
    <2> QED
      BY <2>1, <2>2, <2>3, <2>4, <2>5, <2>6, <2>7, <2>8, <2>9, <2>10, <2>11, <2>12,
         <2>13, <2>14, <2>15, <2>16 DEF Next, Step
  <1> QED  BY <1>1, <1>2, PTL DEF Spec
-----------------------------------------------------------------------------
(***************************************************************************)
(* Part 2.  The safety invariants are not inductive one by one: that a     *)
(* rejected gate is not approved needs that the pending gate is not        *)
(* approved, that the feeder hold has HITL-1 behind it needs the order of  *)
(* approvals.  Sound is their conjunction over one state; IInv says it of  *)
(* every copy, and that an invocation at the monitor is due there.         *)
(***************************************************************************)

Sound(s) ==
    /\ InOrder(s)
    /\ TakenWhenApproved(s)
    /\ EscalatedAlone(s)
    /\ DeviatedAfterDispatch(s)
    /\ NotBoth(s)

Agrees(s, t) ==
    /\ t.pending = s.pending
    /\ t.esc = s.esc
    /\ t.approved = s.approved
    /\ t.rejected = s.rejected
    /\ t.deviated = s.deviated
    /\ t.done = s.done
    /\ "dispatched" \in t.facts <=> "dispatched" \in s.facts

\* What agrees with a sound state is sound, and agreement composes.
LEMMA AgreesSound ==
  ASSUME NEW s, NEW t, Sound(s), Agrees(s, t)
  PROVE  Sound(t)
  BY DEF Sound, Agrees, InOrder, TakenWhenApproved, EscalatedAlone,
         DeviatedAfterDispatch, NotBoth

\* Agreement is transitive.
LEMMA AgreesTrans ==
  ASSUME NEW s, NEW t, NEW u, Agrees(s, t), Agrees(t, u)
  PROVE  Agrees(s, u)
  BY DEF Agrees

\* In a sound state an approved gate has all the earlier ones behind it.
LEMMA Chain ==
  ASSUME NEW s \in RunStates, Sound(s)
  PROVE  /\ 2 \in s.approved => 1 \in s.approved
         /\ 3 \in s.approved => {1, 2} \subseteq s.approved
         /\ 4 \in s.approved => {1, 2, 3} \subseteq s.approved
  <1>1. 2 \in s.approved => 1 \in s.approved
    BY DEF Sound, InOrder
  <1>2. 3 \in s.approved => 2 \in s.approved
    BY DEF Sound, InOrder
  <1>3. 4 \in s.approved => 3 \in s.approved
    BY DEF Sound, InOrder
  <1> QED  BY <1>1, <1>2, <1>3

\* Trace, preview, re-split, refusal, the batch and the reply itself touch
\* nothing that soundness speaks of.
LEMMA LogAgrees ==
  ASSUME NEW s \in RunStates, NEW n \in Nat
  PROVE  Agrees(s, Log(s, n))
  BY LogKeeps DEF Agrees

\* The preview only fills in the card.
LEMMA PreviewAgrees ==
  ASSUME NEW s \in RunStates
  PROVE  Agrees(s, Preview(s))
  BY DEF Agrees, Preview, RunStates

\* A re-split changes the split and the card only.
LEMMA RecomputeAgrees ==
  ASSUME NEW s \in RunStates, NEW outcome
  PROVE  Agrees(s, Recompute(s, outcome))
  BY DEF Agrees, Recompute, RunStates

\* A refused call leaves gates and actions alone.
LEMMA RefusedAgrees ==
  ASSUME NEW s \in RunStates, NEW c
  PROVE  Agrees(s, Refused(s, c))
  BY DEF Agrees, Refused, RunStates

\* So does taking a call off the batch.
LEMMA TailAgrees ==
  ASSUME NEW s \in RunStates
  PROVE  Agrees(s, [s EXCEPT !.calls = Tail(@)])
  BY DEF Agrees, RunStates

\* So does the planner reply.
LEMMA ReplyAgrees ==
  ASSUME NEW s \in RunStates, NEW batch \in Seq(Calls), NEW bad \in Nat
  PROVE  Agrees(s, Reply(s, batch, bad))
  <1> DEFINE st == IF batch # <<>> THEN "calling_tools"
                   ELSE IF bad > 0 \/ Free(s) THEN "running" ELSE s.status
             r == [s EXCEPT !.calls = batch, !.status = st]
  <1>1. st \in Statuses
    BY DEF RunStates, Statuses
  <1>2. r \in RunStates
    BY <1>1 DEF RunStates
  <1>3. Agrees(s, r)
    BY DEF Agrees, RunStates
  <1>4. Reply(s, batch, bad) = Log(r, 1 + bad)
    BY DEF Reply, RunStates
  <1>5. Agrees(r, Log(r, 1 + bad))
    <2>1. 1 + bad \in Nat
      OBVIOUS
    <2> QED  BY <1>2, <2>1, LogAgrees
  <1> HIDE DEF r
  <1> QED  BY <1>3, <1>4, <1>5, AgreesTrans

\* The gate that is due is not approved and all before it are.
LEMMA DueGateFits ==
  ASSUME NEW s \in RunStates, Sound(s), NEW ready, DueGate(s, ready) # 0
  PROVE  /\ DueGate(s, ready) \in 1..4
         /\ DueGate(s, ready) \notin s.approved
         /\ 1..(DueGate(s, ready) - 1) \subseteq s.approved
  BY Chain DEF DueGate

\* A due gate may be presented when nothing is pending or escalated.
LEMMA PresentSound ==
  ASSUME NEW s \in RunStates, Sound(s), ~s.esc,
         NEW g \in 1..4, g \notin s.approved, 1..(g - 1) \subseteq s.approved
  PROVE  Sound(Present(s, g)) /\ Present(s, g).approved = s.approved
  <1> DEFINE t == Present(s, g)
  <1>1. /\ t.pending = g /\ t.esc = s.esc /\ t.approved = s.approved
        /\ t.rejected = s.rejected /\ t.facts = s.facts /\ t.done = s.done /\ t.deviated = s.deviated
    BY DEF Present, RunStates
  <1> HIDE DEF t
  <1>2. InOrder(t)
    BY <1>1 DEF Sound, InOrder
  <1>3. EscalatedAlone(t)
    BY <1>1 DEF EscalatedAlone
  <1>4. TakenWhenApproved(t) /\ DeviatedAfterDispatch(t) /\ NotBoth(t)
    BY <1>1 DEF Sound, TakenWhenApproved, DeviatedAfterDispatch, NotBoth
  <1>5. Sound(t) /\ t.approved = s.approved
    BY <1>1, <1>2, <1>3, <1>4 DEF Sound
  <1> QED  BY <1>5 DEF t

\* HITL-5 may be raised in every sound state.
LEMMA RaiseSound ==
  ASSUME NEW s \in RunStates, Sound(s)
  PROVE  Sound(Raise(s)) /\ Raise(s).approved = s.approved
  <1> DEFINE t == Raise(s)
  <1>1. /\ t.pending = 5 /\ t.esc = TRUE /\ t.approved = s.approved
        /\ t.rejected = s.rejected /\ t.facts = s.facts /\ t.done = s.done /\ t.deviated = s.deviated
    BY DEF Raise, RunStates
  <1> HIDE DEF t
  <1>2. InOrder(t) /\ EscalatedAlone(t)
    BY <1>1 DEF Sound, InOrder, EscalatedAlone
  <1>3. TakenWhenApproved(t) /\ DeviatedAfterDispatch(t) /\ NotBoth(t)
    BY <1>1 DEF Sound, TakenWhenApproved, DeviatedAfterDispatch, NotBoth
  <1>4. Sound(t) /\ t.approved = s.approved
    BY <1>1, <1>2, <1>3 DEF Sound
  <1> QED  BY <1>4 DEF t

\* Escalation checks keep soundness, whatever fires.
LEMMA EscalateSound ==
  ASSUME NEW s \in RunStates, Sound(s), NEW fires
  PROVE  Sound(Escalate(s, fires)) /\ Escalate(s, fires).approved = s.approved
  <1> DEFINE d == [s EXCEPT !.deferred = Deferred(s, fires)]
  <1>1. d \in RunStates
    <2>1. Deferred(s, fires) \in SUBSET Triggers
      BY ConstantsAssumption DEF Deferred, RunStates
    <2> QED  BY <2>1 DEF RunStates
  <1>2. Agrees(s, d)
    BY DEF Agrees, RunStates
  <1> HIDE DEF d
  <1>3. Sound(d) /\ d.approved = s.approved
    BY <1>2, AgreesSound DEF Agrees
  <1>4. Sound(Raise(d)) /\ Raise(d).approved = s.approved /\ Raise(d) \in RunStates
    BY <1>1, <1>3, RaiseSound, RaiseType
  <1>5. Sound(Log(Raise(d), 1)) /\ Log(Raise(d), 1).approved = s.approved
    BY <1>4, LogAgrees, AgreesSound DEF Agrees
  <1> QED  BY <1>3, <1>5 DEF Escalate, d

\* Gating after a reply keeps soundness.
LEMMA GateAfterReplySound ==
  ASSUME NEW s \in RunStates, Sound(s)
  PROVE  Sound(GateAfterReply(s)) /\ GateAfterReply(s).approved = s.approved
  BY DueGateFits, PresentSound DEF GateAfterReply, ReasonedGate, Free

\* The reasoning pass keeps soundness for every batch of calls.
LEMMA ReasonSound ==
  ASSUME NEW s \in RunStates, Sound(s),
         NEW batch \in Seq(Calls), NEW bad \in Nat, NEW fires
  PROVE  /\ Sound(Reason(s, batch, bad, fires))
         /\ Reason(s, batch, bad, fires).approved = s.approved
  <1> DEFINE r == Reply(s, batch, bad)
  <1>1. r \in RunStates /\ Sound(r) /\ r.approved = s.approved
    BY ReplyType, ReplyAgrees, AgreesSound DEF Agrees
  <1>2. /\ Escalate(r, fires) \in RunStates /\ Sound(Escalate(r, fires))
        /\ Escalate(r, fires).approved = s.approved
    BY <1>1, EscalateType, EscalateSound
  <1> HIDE DEF r
  <1> QED  BY <1>1, <1>2, GateAfterReplySound DEF Reason, r

\* A call keeps soundness that was not blocked or came to nothing: the guard
\* looks at one gate, and the order of approvals supplies the others.
LEMMA ExecutedSound ==
  ASSUME NEW s \in RunStates, Sound(s), NEW c \in Calls,
         NEW outcome \in {"plan", "error"}, NEW long \in BOOLEAN,
         outcome = "plan" => ~Blocked(s, c)
  PROVE  /\ Sound(Executed(s, c, outcome, long))
         /\ Executed(s, c, outcome, long).approved = s.approved
         /\ Executed(s, c, outcome, long).pending = s.pending
  <1> DEFINE t == Executed(s, c, outcome, long)
  <1>1. /\ t.pending = s.pending /\ t.esc = s.esc /\ t.approved = s.approved
        /\ t.rejected = s.rejected /\ t.deviated = s.deviated
    BY DEF Executed, Recompute, RunStates
  <1>2. t.done = IF outcome = "plan" THEN s.done \union Deed(c) ELSE s.done
    BY DEF Executed, Recompute, RunStates
  <1>3. s.facts \ {"long_hold"} \subseteq t.facts
    BY DEF Executed, Recompute, RunStates
  <1>4. /\ "dispatched" \in Deed(c) => c \in Dispatches
        /\ "held" \in Deed(c) => c = "hold"
    BY DEF Deed, Dispatches, TuasUpdates
  <1>5. outcome = "plan" => /\ c \in Dispatches => 2 \in s.approved
                            /\ c = "hold" => 3 \in s.approved
    BY DEF Blocked, RequiredGate, Dispatches
  <1>6. "dispatched" \in t.done => "dispatched" \in s.done \/ 2 \in s.approved
    BY <1>2, <1>4, <1>5
  <1>7. "held" \in t.done => "held" \in s.done \/ 3 \in s.approved
    BY <1>2, <1>4, <1>5
  <1> HIDE DEF t
  <1>8. TakenWhenApproved(t)
    BY <1>1, <1>6, <1>7, Chain DEF Sound, TakenWhenApproved
  <1>9. DeviatedAfterDispatch(t)
    BY <1>1, <1>3 DEF Sound, DeviatedAfterDispatch
  <1>10. InOrder(t) /\ EscalatedAlone(t) /\ NotBoth(t)
    BY <1>1 DEF Sound, InOrder, EscalatedAlone, NotBoth
  <1>11. Sound(t)
    BY <1>8, <1>9, <1>10 DEF Sound
  <1> QED  BY <1>1, <1>11 DEF t

\* So does the first call of a batch when it is run and taken off.
LEMMA RanSound ==
  ASSUME NEW s \in RunStates, Sound(s), s.calls # <<>>,
         NEW outcome \in {"plan", "error"}, NEW long \in BOOLEAN,
         outcome = "plan" => ~Blocked(s, Head(s.calls))
  PROVE  LET u == [Executed(Log(s, 1), Head(s.calls), outcome, long) EXCEPT !.calls = Tail(@)]
         IN  Sound(u) /\ u.approved = s.approved /\ u.pending = s.pending
  <1> DEFINE c == Head(s.calls)
             l == Log(s, 1)
             r == Executed(l, c, outcome, long)
             u == [r EXCEPT !.calls = Tail(@)]
  <1>1. c \in Calls
    <2>1. s.calls \in Seq(Calls)
      BY DEF RunStates
    <2> QED  BY <2>1
  <1>2. /\ l \in RunStates /\ Sound(l) /\ l.approved = s.approved /\ l.pending = s.pending
        /\ outcome = "plan" => ~Blocked(l, c)
    BY LogType, LogAgrees, AgreesSound DEF Agrees, Blocked
  <1> HIDE DEF l, c
  <1>3. r \in RunStates /\ Sound(r) /\ r.approved = l.approved /\ r.pending = l.pending
    BY <1>1, <1>2, ExecutedType, ExecutedSound
  <1> HIDE DEF r
  <1>4. Agrees(r, u)
    BY <1>3, TailAgrees
  <1>5. Sound(u) /\ u.approved = s.approved /\ u.pending = s.pending
    BY <1>2, <1>3, <1>4, AgreesSound DEF Agrees
  <1> QED  BY <1>5 DEF u, r, l, c

\* HITL-4 at the end of tool_node waits for the three gates before it.
LEMMA AfterToolsSound ==
  ASSUME NEW s \in RunStates, Sound(s), NEW fires
  PROVE  /\ Sound(AfterTools(s, fires))
         /\ AfterTools(s, fires).approved = s.approved
  <1> DEFINE t == [s EXCEPT !.calls = <<>>, !.status = "running"]
             e == Escalate(t, fires)
  <1>1. t \in RunStates
    <2>1. <<>> \in Seq(Calls)
      OBVIOUS
    <2> QED  BY <2>1, Values DEF RunStates
  <1>2. Agrees(s, t)
    BY DEF Agrees, RunStates
  <1>3. Sound(t) /\ t.approved = s.approved
    BY <1>2, AgreesSound DEF Agrees
  <1> HIDE DEF t
  <1>4. e \in RunStates /\ Sound(e) /\ e.approved = s.approved
    BY <1>1, <1>3, EscalateType, EscalateSound
  <1> HIDE DEF e
  <1>5. ASSUME Free(e), {1, 2, 3} \subseteq e.approved, 4 \notin e.approved
        PROVE  Sound(Present(e, 4)) /\ Present(e, 4).approved = s.approved
    BY <1>4, <1>5, PresentSound DEF Free
  <1>6. AfterTools(s, fires) =
          IF Free(e) /\ {1, 2, 3} \subseteq e.approved /\ 4 \notin e.approved
               /\ "tuas_sequence" \in e.facts
          THEN Present(e, 4) ELSE e
    BY DEF AfterTools, e, t
  <1> QED  BY <1>4, <1>5, <1>6

\* Clearing the pending gate keeps soundness.
LEMMA ResolvedSound ==
  ASSUME NEW s \in RunStates, Sound(s)
  PROVE  /\ Resolved(s) \in RunStates
         /\ Resolved(s).pending = 0
         /\ Resolved(s).esc = s.esc
         /\ Resolved(s).approved = s.approved
         /\ Resolved(s).rejected = s.rejected
         /\ Resolved(s).facts = s.facts
         /\ Resolved(s).done = s.done
         /\ Resolved(s).deviated = s.deviated
         /\ Sound(Resolved(s))
  <1> DEFINE t == Resolved(s)
  <1>1. /\ t.pending = 0 /\ t.esc = s.esc /\ t.approved = s.approved
        /\ t.rejected = s.rejected /\ t.facts = s.facts /\ t.done = s.done /\ t.deviated = s.deviated
    BY DEF Resolved, RunStates
  <1>2. t \in RunStates
    <2>1. 0 \in 0..5
      OBVIOUS
    <2> QED  BY <2>1, Values, SetPending, SetStatus DEF Resolved
  <1> HIDE DEF t
  <1>3. Sound(t)
    BY <1>1 DEF Sound, InOrder, TakenWhenApproved, EscalatedAlone,
                DeviatedAfterDispatch, NotBoth
  <1> QED  BY <1>1, <1>2, <1>3 DEF t

\* Approving the pending gate keeps the order of approvals.
LEMMA ApproveSound ==
  ASSUME NEW s \in RunStates, Sound(s), s.pending # 0
  PROVE  /\ Sound(Approve(s, s.pending))
         /\ Approve(s, s.pending).approved = s.approved \union {s.pending}
  <1> DEFINE g == s.pending
             t == Approve(s, g)
  <1>1. g \in 1..5
    BY DEF RunStates
  <1>2. /\ t.approved = s.approved \union {g} /\ t.rejected = s.rejected \ {g}
        /\ t.pending = 0 /\ t.deviated = s.deviated
        /\ t.esc = IF g = 5 THEN FALSE ELSE s.esc
    BY ResolvedSound DEF Approve, RunStates
  <1>3. t.done = s.done /\ ("dispatched" \in t.facts <=> "dispatched" \in s.facts)
    BY ResolvedSound DEF Approve, RunStates
  <1> HIDE DEF t
  <1>4. InOrder(t)
    <2>1. ASSUME NEW h \in 2..4, h \in t.approved PROVE h - 1 \in t.approved
      <3>1. CASE h = g
        BY <1>2, <2>1, <3>1 DEF Sound, InOrder
      <3>2. CASE h # g
        BY <1>2, <2>1, <3>2 DEF Sound, InOrder
      <3> QED  BY <3>1, <3>2
    <2> QED  BY <1>2, <2>1 DEF InOrder
  <1>5. TakenWhenApproved(t)
    BY <1>2, <1>3 DEF Sound, TakenWhenApproved
  <1>6. EscalatedAlone(t)
    BY <1>2 DEF EscalatedAlone
  <1>7. DeviatedAfterDispatch(t)
    BY <1>2, <1>3 DEF Sound, DeviatedAfterDispatch
  <1>8. NotBoth(t)
    BY <1>2 DEF Sound, NotBoth
  <1>9. Sound(t)
    BY <1>4, <1>5, <1>6, <1>7, <1>8 DEF Sound
  <1> QED  BY <1>2, <1>9 DEF t

\* Rejecting the pending gate: it is not approved, so it may be rejected.
LEMMA RejectSound ==
  ASSUME NEW s \in RunStates, Sound(s), s.pending # 0
  PROVE  /\ Sound(Reject(s, s.pending))
         /\ Reject(s, s.pending).approved = s.approved
  <1> DEFINE t == Reject(s, s.pending)
  <1>1. /\ t.pending = 0 /\ t.esc = s.esc /\ t.approved = s.approved
        /\ t.rejected = s.rejected \union {s.pending}
        /\ t.facts = s.facts /\ t.done = s.done /\ t.deviated = s.deviated
    BY ResolvedSound DEF Reject, RunStates
  <1> HIDE DEF t
  <1>2. NotBoth(t)
    BY <1>1 DEF Sound, NotBoth, InOrder
  <1>3. InOrder(t) /\ TakenWhenApproved(t) /\ EscalatedAlone(t) /\ DeviatedAfterDispatch(t)
    BY <1>1 DEF Sound, InOrder, TakenWhenApproved, EscalatedAlone, DeviatedAfterDispatch
  <1>4. Sound(t)
    BY <1>2, <1>3 DEF Sound
  <1> QED  BY <1>1, <1>4 DEF t

\* A later history entry of a gate hides its reject.
LEMMA ForgetReject ==
  ASSUME NEW s \in RunStates, Sound(s), NEW g
  PROVE  LET t == [s EXCEPT !.rejected = @ \ {g}]
         IN  /\ t \in RunStates
             /\ Sound(t)
             /\ t.approved = s.approved
             /\ t.pending = s.pending
  <1> DEFINE t == [s EXCEPT !.rejected = @ \ {g}]
  <1>1. /\ t.pending = s.pending /\ t.esc = s.esc /\ t.approved = s.approved
        /\ t.rejected = s.rejected \ {g} /\ t.facts = s.facts /\ t.done = s.done /\ t.deviated = s.deviated
    BY DEF RunStates
  <1>2. t \in RunStates
    BY DEF RunStates
  <1> HIDE DEF t
  <1>3. Sound(t)
    BY <1>1 DEF Sound, InOrder, TakenWhenApproved, EscalatedAlone,
                DeviatedAfterDispatch, NotBoth
  <1> QED  BY <1>1, <1>2, <1>3 DEF t

\* A modification approves nothing.
LEMMA ModifySound ==
  ASSUME NEW s \in RunStates, Sound(s), NEW g, NEW outcome \in {"invalid", "plan", "error"}
  PROVE  Sound(Modify(s, g, outcome)) /\ Modify(s, g, outcome).approved = s.approved
  <1> DEFINE t == [Resolved(s) EXCEPT !.rejected = @ \ {g}]
  <1>1. t \in RunStates /\ Sound(t) /\ t.approved = s.approved
    BY ResolvedSound, ForgetReject
  <1> HIDE DEF t
  <1>2. Sound(Recompute(t, outcome)) /\ Recompute(t, outcome).approved = s.approved
    BY <1>1, RecomputeAgrees, AgreesSound DEF Agrees
  <1> QED  BY <1>2, ResolvedSound DEF Modify, t

\* No timeout action approves anything.
LEMMA TimeoutSound ==
  ASSUME NEW s \in RunStates, Sound(s), NEW g
  PROVE  Sound(Timeout(s, g)) /\ Timeout(s, g).approved = s.approved
  <1> DEFINE t == [s EXCEPT !.rejected = @ \ {g}]
             u == Timeout(s, g)
  <1>1. t \in RunStates /\ Sound(t) /\ t.approved = s.approved
    BY ForgetReject
  <1>2. CASE g \in {1, 3}
    <2>1. u = Raise(t)
      BY <1>2 DEF Timeout
    <2> HIDE DEF t, u
    <2>2. Sound(u) /\ u.approved = s.approved
      BY <1>1, <2>1, RaiseSound
    <2> QED  BY <2>2 DEF u
  <1>3. CASE g \notin {1, 3}
    <2>1. /\ u.pending = 0 /\ u.esc = t.esc /\ u.approved = t.approved
          /\ u.rejected = t.rejected /\ u.deviated = t.deviated
          /\ u.done = t.done /\ ("dispatched" \in u.facts <=> "dispatched" \in t.facts)
      BY <1>1, <1>3 DEF Timeout, RunStates
    <2> HIDE DEF t, u
    <2>2. Sound(u) /\ u.approved = s.approved
      BY <1>1, <2>1 DEF Sound, InOrder, TakenWhenApproved, EscalatedAlone,
                        DeviatedAfterDispatch, NotBoth
    <2> QED  BY <2>2 DEF u
  <1> QED  BY <1>2, <1>3

\* Every answer to the pending gate keeps soundness.
LEMMA HandleSound ==
  ASSUME NEW s \in RunStates, Sound(s), s.pending # 0, NEW answer,
         NEW outcome \in {"invalid", "plan", "error"}
  PROVE  /\ Sound(Handle(s, answer, outcome))
         /\ Handle(s, answer, outcome).approved \subseteq
              s.approved \union (IF answer.kind = "approve" THEN {s.pending} ELSE {})
  <1> DEFINE e == Log(Entered(s), Entries(s, answer))
             a == Decide(e, s.pending, "approve", outcome)
  <1>1. Entered(s) \in RunStates /\ Agrees(s, Entered(s))
    BY Values DEF Entered, Agrees, RunStates
  <1>2. e \in RunStates /\ Agrees(s, e)
    <2>1. Entries(s, answer) \in Nat
      BY DEF Entries
    <2> QED  BY <1>1, <2>1, LogType, LogAgrees, AgreesTrans
  <1>3. Sound(e) /\ e.pending = s.pending /\ e.approved = s.approved
    BY <1>2, AgreesSound DEF Agrees
  <1>4. s.pending \in Gates
    BY DEF RunStates, Gates
  <1> HIDE DEF e
  <1>5. /\ a \in RunStates /\ Sound(a)
        /\ a.approved = s.approved \union {s.pending}
    BY <1>2, <1>3, <1>4, ApproveSound, DecideType DEF Decide
  <1> HIDE DEF a
  <1>6. Agrees(a, [a EXCEPT !.entered = s.entered])
    BY <1>5 DEF Agrees, RunStates
  <1>7. /\ Sound([a EXCEPT !.entered = s.entered])
        /\ [a EXCEPT !.entered = s.entered].approved = s.approved \union {s.pending}
    BY <1>5, <1>6, AgreesSound DEF Agrees
  <1>8. ASSUME NEW kind, kind # "approve"
        PROVE  /\ Sound(Decide(e, s.pending, kind, outcome))
               /\ Decide(e, s.pending, kind, outcome).approved = s.approved
    BY <1>2, <1>3, <1>8, RejectSound, ModifySound, TimeoutSound, ResolvedSound DEF Decide
  <1> QED  BY <1>3, <1>7, <1>8 DEF Handle, e, a

\* The monitor keeps soundness when it runs on a fully approved run.
LEMMA MonitoredSound ==
  ASSUME NEW s \in RunStates, Sound(s), 4 \in s.approved, "dispatched" \in s.facts,
         NEW conflict, NEW outcome \in {"plan", "error"}, NEW fires
  PROVE  /\ Sound(Monitored(s, conflict, outcome, fires))
         /\ Monitored(s, conflict, outcome, fires).approved = s.approved
  <1> DEFINE m == [s EXCEPT !.facts = @ \union {"monitored"}]
             x == [m EXCEPT !.esc = TRUE, !.pending = 5]
             d == [m EXCEPT !.deviated = TRUE, !.esc = TRUE, !.pending = 5,
                            !.facts = @ \union {"long_hold"}]
  <1>1. Agrees(s, m)
    BY DEF Agrees, RunStates
  <1>2. Sound(m) /\ m.approved = s.approved
    BY <1>1, AgreesSound DEF Agrees
  <1>3. /\ x.pending = 5 /\ x.esc = TRUE /\ x.approved = s.approved
        /\ x.rejected = s.rejected /\ x.deviated = s.deviated
        /\ x.done = s.done /\ ("dispatched" \in x.facts <=> "dispatched" \in s.facts)
    BY DEF RunStates
  <1>4. /\ Recompute(d, outcome).pending = 5 /\ Recompute(d, outcome).esc = TRUE
        /\ Recompute(d, outcome).approved = s.approved
        /\ Recompute(d, outcome).rejected = s.rejected
        /\ Recompute(d, outcome).done = s.done
        /\ "dispatched" \in Recompute(d, outcome).facts
    BY DEF Recompute, RunStates
  <1>5. 1..4 \subseteq s.approved
    BY Chain
  <1>6. Monitored(s, conflict, outcome, fires) \in {s, m, x, Recompute(d, outcome)}
    BY DEF Monitored
  <1> HIDE DEF m, x, d
  <1>7. Sound(x)
    BY <1>3, <1>5 DEF Sound, InOrder, TakenWhenApproved, EscalatedAlone,
                      DeviatedAfterDispatch, NotBoth
  <1>8. Sound(Recompute(d, outcome))
    BY <1>4, <1>5 DEF Sound, InOrder, TakenWhenApproved, EscalatedAlone,
                      DeviatedAfterDispatch, NotBoth
  <1> QED  BY <1>2, <1>3, <1>4, <1>6, <1>7, <1>8
(***************************************************************************)
(* The inductive invariant.  Sound speaks of one copy of the run state; in *)
(* addition a copy that is at the monitor has passed HITL-4 and dispatched.*)
(***************************************************************************)
Due(s) == 4 \in s.approved /\ "dispatched" \in s.facts

IInv ==
    /\ Sound(ckpt.state)
    /\ ckpt.next = "monitor" => Due(ckpt.state)
    /\ \A i \in Invocations : /\ Sound(inv[i].state)
                              /\ inv[i].at = "monitor" => Due(inv[i].state)

\* A new run is sound.
LEMMA InitialStateSound == Sound(InitialState)
  BY DEF InitialState, Sound, InOrder, TakenWhenApproved, EscalatedAlone,
         DeviatedAfterDispatch, NotBoth

\* So is the empty copy of an invocation that rests.
LEMMA RestSound ==
  ASSUME NEW end \in Ends
  PROVE  Sound(Rest(end).state) /\ Rest(end).at # "monitor"
  BY InitialStateSound DEF Rest, Ends

\* Only a dispatched run with HITL-4 approved is routed to the monitor.
LEMMA RouteToMonitor ==
  ASSUME NEW s, RouteAfterAgent(s) = "monitor"
  PROVE  Due(s)
  BY DEF RouteAfterAgent, Due

\* Saving a sound state that is due where it goes keeps the invariant.
LEMMA SaveSound ==
  ASSUME TypeOK, IInv, NEW i \in Invocations, NEW s, NEW node,
         Sound(s), node = "monitor" => Due(s), Save(i, s, node)
  PROVE  IInv'
  <1> DEFINE p == IF node = "END" THEN Rest("completed")
                  ELSE [at |-> node, state |-> s, answer |-> NoAnswer]
  <1>1. Sound(p.state) /\ (p.at = "monitor" => Due(p.state))
    BY RestSound DEF Ends
  <1>2. ckpt' = [state |-> s, next |-> node] /\ inv' = [inv EXCEPT ![i] = p]
    BY DEF Save
  <1>3. \A j \in Invocations : inv'[j] = IF j = i THEN p ELSE inv[j]
    BY <1>2 DEF TypeOK
  <1> HIDE DEF p
  <1> QED  BY <1>1, <1>2, <1>3 DEF IInv

\* Replacing one invocation's place leaves the invariant to that place.
LEMMA MoveSound ==
  ASSUME TypeOK, IInv, NEW i \in Invocations, NEW p,
         inv' = [inv EXCEPT ![i] = p], UNCHANGED ckpt,
         Sound(p.state), p.at = "monitor" => Due(p.state)
  PROVE  IInv'
  <1>1. \A j \in Invocations : inv'[j] = IF j = i THEN p ELSE inv[j]
    BY DEF TypeOK
  <1> QED  BY <1>1 DEF IInv

\* The invariant holds initially ...
LEMMA InitSound == Init => IInv
  <1> SUFFICES ASSUME Init PROVE IInv
    OBVIOUS
  <1>1. "idle" \in Ends
    BY DEF Ends
  <1> QED  BY <1>1, InitialStateSound, RestSound DEF Init, IInv

\* ... and every step keeps it: one case per action of Next.
LEMMA NextSound == TypeOK /\ IInv /\ [Next]_vars => IInv'
  <1> SUFFICES ASSUME TypeOK, IInv, [Next]_vars PROVE IInv'
    OBVIOUS
  <1>a. ASSUME NEW i \in Invocations
        PROVE  /\ inv[i].state \in RunStates /\ Sound(inv[i].state)
               /\ inv[i] \in Places
    BY DEF TypeOK, Places, IInv
  <1>1. ASSUME NEW i \in Invocations, Start(i) PROVE IInv'
    <2>1. \A j \in Invocations : inv'[j].state = inv[j].state
                              /\ (inv'[j].at = "monitor" => inv[j].at = "monitor")
      BY <1>1, <1>a DEF Start, TypeOK, Places
    <2>2. ckpt'.state = ckpt.state /\ ckpt'.next = "agent"
      BY <1>1 DEF Start, TypeOK, Checkpoints
    <2> QED  BY <2>1, <2>2 DEF IInv
  <1>2. ASSUME NEW i \in Invocations, AgentFastExit(i) PROVE IInv'
    BY <1>2, <1>a, RouteToMonitor, SaveSound DEF AgentFastExit
  <1>3. ASSUME NEW i \in Invocations, AgentFastGate(i) PROVE IInv'
    <2> DEFINE p == Preview(inv[i].state)
               t == Present(p, FastGate(p))
               s == Log(t, 1)
    <2>1. /\ p \in RunStates /\ Sound(p) /\ ~p.esc
          /\ FastGate(inv[i].state) # 0 /\ Save(i, s, RouteAfterAgent(s))
      BY <1>3, <1>a, PreviewType, PreviewAgrees, AgreesSound
      DEF AgentFastGate, Free, Agrees
    <2>2. FastGate(p) = FastGate(inv[i].state)
      BY <1>a DEF FastGate, DueGate, Preview, RunStates
    <2>3. FastGate(p) \in 1..4 /\ FastGate(p) \notin p.approved
            /\ 1..(FastGate(p) - 1) \subseteq p.approved
      BY <2>1, <2>2, DueGateFits DEF FastGate
    <2> HIDE DEF p
    <2>4. t \in RunStates /\ Sound(t)
      <3>1. FastGate(p) \in 0..5
        BY <2>3
      <3> QED  BY <2>1, <2>3, <3>1, PresentType, PresentSound
    <2> HIDE DEF t
    <2>5. Sound(s)
      BY <2>4, LogAgrees, AgreesSound
    <2> HIDE DEF s
    <2> QED  BY <2>1, <2>5, RouteToMonitor, SaveSound
  <1>4. ASSUME NEW i \in Invocations, NEW batch \in Batches, NEW bad \in 0..MaxBad,
               AgentReason(i, batch, bad)
        PROVE  IInv'
    <2>1. PICK fires \in Conditions(inv[i].state) :
             LET s == Reason(Preview(inv[i].state), batch, bad, fires)
             IN  Save(i, s, RouteAfterAgent(s))
      BY <1>4 DEF AgentReason
    <2> DEFINE p == Preview(inv[i].state)
               s == Reason(p, batch, bad, fires)
    <2>2. batch \in Seq(Calls) /\ bad \in Nat
      BY BatchType, ConstantsAssumption
    <2>3. p \in RunStates /\ Sound(p)
      BY <1>a, PreviewType, PreviewAgrees, AgreesSound
    <2>4. Save(i, s, RouteAfterAgent(s))
      BY <2>1
    <2> HIDE DEF p
    <2>5. Sound(s)
      BY <2>2, <2>3, ReasonSound
    <2> HIDE DEF s
    <2> QED  BY <2>4, <2>5, RouteToMonitor, SaveSound
  <1>5. ASSUME NEW i \in Invocations, RefuseTool(i) PROVE IInv'
    <2> DEFINE l == Log(inv[i].state, 1)
               r == Refused(l, Head(inv[i].state.calls))
               s == [r EXCEPT !.calls = Tail(@)]
               p == [inv[i] EXCEPT !.state = s]
    <2>1. l \in RunStates /\ Sound(l)
      BY <1>a, LogType, LogAgrees, AgreesSound
    <2>2. r \in RunStates /\ Sound(r)
      BY <2>1, RefusedType, RefusedAgrees, AgreesSound
    <2>3. Sound(s)
      BY <2>2, TailAgrees, AgreesSound
    <2>4. inv' = [inv EXCEPT ![i] = p] /\ UNCHANGED ckpt /\ inv[i].at = "tools"
      BY <1>5 DEF RefuseTool, At, TypeOK
    <2>5. p.state = s /\ p.at = "tools"
      BY <1>a, <2>4 DEF Places
    <2> HIDE DEF p
    <2> QED  BY <2>3, <2>4, <2>5, MoveSound
  <1>6. ASSUME NEW i \in Invocations, RunTool(i) \/ MissTool(i) PROVE IInv'
    <2> DEFINE c == Head(inv[i].state.calls)
               s(outcome, long) ==
                 [Executed(Log(inv[i].state, 1), c, outcome, long) EXCEPT !.calls = Tail(@)]
    <2>1. PICK outcome \in {"plan", "error"}, long \in BOOLEAN :
             /\ inv' = [inv EXCEPT ![i].state = s(outcome, long)]
             /\ outcome = "plan" => ~Blocked(inv[i].state, c)
      BY <1>6, ConstantsAssumption DEF RunTool, MissTool, Outcomes
    <2> DEFINE p == [inv[i] EXCEPT !.state = s(outcome, long)]
    <2>2. Sound(s(outcome, long))
      BY <1>6, <1>a, <2>1, RanSound DEF RunTool, MissTool
    <2>3. inv' = [inv EXCEPT ![i] = p] /\ UNCHANGED ckpt /\ inv[i].at = "tools"
      BY <1>6, <2>1 DEF RunTool, MissTool, At, TypeOK
    <2>4. p.state = s(outcome, long) /\ p.at = "tools"
      BY <1>a, <2>3 DEF Places
    <2> HIDE DEF s, p
    <2> QED  BY <2>2, <2>3, <2>4, MoveSound
  <1>7. ASSUME NEW i \in Invocations, FinishTools(i) PROVE IInv'
    BY <1>7, <1>a, AfterToolsSound, SaveSound DEF FinishTools
  <1>8. ASSUME NEW i \in Invocations, HitlPass(i) PROVE IInv'
    BY <1>8, <1>a, SaveSound DEF HitlPass
  <1>9. ASSUME NEW i \in Invocations, HitlPause(i) PROVE IInv'
    BY <1>9, RestSound, MoveSound DEF HitlPause, Ends
  <1>10. ASSUME NEW i \in Invocations, HitlResume(i) PROVE IInv'
    <2>1. {"invalid"} \union ReplanOutcomes \subseteq {"invalid", "plan", "error"}
      BY DEF ReplanOutcomes, Outcomes
    <2> QED  BY <1>10, <1>a, <2>1, HandleSound, SaveSound DEF HitlResume
  <1>11. ASSUME NEW i \in Invocations, MonitorStep(i) PROVE IInv'
    <2>1. PICK conflict \in Conflicts, outcome \in ReplanOutcomes,
               fires \in Conditions(inv[i].state) :
             LET s == Monitored(inv[i].state, conflict, outcome, fires)
             IN  Save(i, s, RouteAfterMonitor(s))
      BY <1>11 DEF MonitorStep
    <2> DEFINE s == Monitored(inv[i].state, conflict, outcome, fires)
    <2>2. Due(inv[i].state)
      BY <1>11 DEF MonitorStep, At, IInv
    <2>3. Sound(s)
      BY <1>a, <2>2, MonitoredSound DEF Due, ReplanOutcomes, Outcomes
    <2>4. Save(i, s, RouteAfterMonitor(s)) /\ RouteAfterMonitor(s) # "monitor"
      BY <2>1 DEF RouteAfterMonitor
    <2> HIDE DEF s
    <2> QED  BY <2>3, <2>4, SaveSound
  <1>12. ASSUME NEW i \in Invocations, NEW answer \in Answers, Respond(i, answer)
         PROVE  IInv'
    <2> DEFINE p == [at |-> ckpt.next, state |-> ckpt.state,
                     answer |-> IF ckpt.next = "hitl" THEN answer ELSE NoAnswer]
    <2>1. inv' = [inv EXCEPT ![i] = p] /\ UNCHANGED ckpt
      BY <1>12 DEF Respond
    <2>2. Sound(p.state) /\ (p.at = "monitor" => Due(p.state))
      BY DEF IInv
    <2> HIDE DEF p
    <2> QED  BY <2>1, <2>2, MoveSound
  <1>13. ASSUME NEW i \in Invocations, Abort(i) PROVE IInv'
    BY <1>13, RestSound, MoveSound DEF Abort, Ends
  <1>14. ASSUME Tick PROVE IInv'
    <2>1. \A s \in RunStates : Sound(s) => Sound([s EXCEPT !.entered = "old"])
      <3>1. \A s \in RunStates : Agrees(s, [s EXCEPT !.entered = "old"])
        BY DEF Agrees, RunStates
      <3> QED  BY <3>1, AgreesSound
    <2>2. \A s \in RunStates : Due(s) => Due([s EXCEPT !.entered = "old"])
      BY DEF Due, RunStates
    <2>3. /\ ckpt.state \in RunStates
          /\ ckpt'.state = [ckpt.state EXCEPT !.entered = "old"]
          /\ ckpt'.next = ckpt.next
      BY <1>14 DEF Tick, TypeOK, Checkpoints
    <2>4. ASSUME NEW i \in Invocations
          PROVE  /\ inv'[i].at = inv[i].at
                 /\ inv'[i].state \in {inv[i].state, [inv[i].state EXCEPT !.entered = "old"]}
      BY <1>14, <1>a DEF Tick, Places
    <2> QED  BY <1>a, <2>1, <2>2, <2>3, <2>4 DEF IInv
  <1>15. CASE UNCHANGED vars
    BY <1>15 DEF vars, IInv
  <1> QED
    BY <1>1, <1>2, <1>3, <1>4, <1>5, <1>6, <1>7, <1>8, <1>9, <1>10, <1>11, <1>12,
       <1>13, <1>14, <1>15 DEF Next, Step

\* Every copy of every run state is sound and every invocation at the monitor
\* is due there, in every behaviour of the graph.
THEOREM Invariant == Spec => []IInv
  <1>1. Init => IInv
    BY InitSound
  <1>2. TypeOK /\ IInv /\ [Next]_vars => IInv'
    BY NextSound
  <1> QED  BY <1>1, <1>2, TypeCorrect, PTL DEF Spec

\* The invariant speaks of every copy.
LEMMA CopiesSound ==
  ASSUME IInv, NEW s \in Copies
  PROVE  Sound(s)
  BY DEF IInv, Copies

\* HITL-1 to HITL-4 are approved in order and the pending gate is the first
\* unapproved one, for every planner and any number of racing invocations.
THEOREM GatesPassInOrder == Spec => []GateOrder
  <1>1. IInv => GateOrder
    BY CopiesSound DEF GateOrder, Sound
  <1> QED  BY <1>1, Invariant, PTL

\* No truck is sent before HITL-1 and HITL-2 and no feeder held before HITL-3
\* too: the guard of tool_node looks at one gate, and at none while the tool is
\* not registered, but then the call comes to an error (registry.py:142-147).
THEOREM NothingTakenUnapproved == Spec => []ActionsApproved
  <1>1. IInv => ActionsApproved
    BY CopiesSound DEF ActionsApproved, Sound
  <1> QED  BY <1>1, Invariant, PTL

\* An open escalation shows HITL-5 or nothing, and HITL-5 is only shown for
\* one (nodes.py and monitor.py set both, handler.py clears both).
THEOREM EscalationComesFirst == Spec => []EscalationFirst
  <1>1. IInv => EscalationFirst
    BY CopiesSound DEF EscalationFirst, Sound
  <1> QED  BY <1>1, Invariant, PTL

\* The monitor re-splits only a dispatched run whose four gates are approved
\* (route_after_agent of graph.py).
THEOREM EmergencyComesLast == Spec => []EmergencyAfterDispatch
  <1>1. IInv => EmergencyAfterDispatch
    BY CopiesSound DEF EmergencyAfterDispatch, Sound
  <1> QED  BY <1>1, Invariant, PTL

\* A gate whose latest decision is a reject is not approved, so what it
\* guards does not run (handler.py reject, nodes.py gating).
THEOREM RejectedIsNotApproved == Spec => []RejectedStaysClosed
  <1>1. IInv => RejectedStaysClosed
    BY CopiesSound DEF RejectedStaysClosed, Sound
  <1> QED  BY <1>1, Invariant, PTL

\* The gate is chosen in three places: the fast path of agent_node, the block
\* after the planner's reply, and the end of tool_node.
GatingAgrees(s) ==
    /\ FastGate(s) # 0 => ReasonedGate(s) = FastGate(s)
    /\ FastGate(s) = 4 <=> /\ {1, 2, 3} \subseteq s.approved /\ 4 \notin s.approved
                           /\ "tuas_sequence" \in s.facts

\* In every copy of every run state they agree: what the fast path offers the
\* slow one offers too, and HITL-4 is offered after the tools in exactly the
\* states in which agent_node would offer it.  The second needs the order of
\* approvals: tool_node looks for HITL-1 to HITL-3, agent_node for HITL-3 only.
THEOREM GatingCopiesAgree == Spec => [](\A s \in Copies : GatingAgrees(s))
  <1>1. TypeOK /\ IInv => \A s \in Copies : GatingAgrees(s)
    <2> SUFFICES ASSUME TypeOK, IInv, NEW s \in Copies PROVE GatingAgrees(s)
      OBVIOUS
    <2>1. s \in RunStates /\ Sound(s)
      BY CopiesSound DEF Copies, TypeOK, Checkpoints, Places
    <2>2. FastGate(s) # 0 => ReasonedGate(s) = FastGate(s)
      BY DEF FastGate, ReasonedGate, DueGate
    <2>3. FastGate(s) = 4 <=> /\ {1, 2, 3} \subseteq s.approved /\ 4 \notin s.approved
                              /\ "tuas_sequence" \in s.facts
      BY <2>1, Chain DEF FastGate, DueGate
    <2> QED  BY <2>2, <2>3 DEF GatingAgrees
  <1> QED  BY <1>1, TypeCorrect, Invariant, PTL

-----------------------------------------------------------------------------
(***************************************************************************)
(* Part 3.  Approvals rest on the operator's consent, provided that an     *)
(* answer names the gate that is pending when it is taken.  The server     *)
(* does not check that (resilience.py:112-173 compares an expiry only), so *)
(* it is an assumption on the clients: without it the theorem is false.    *)
(***************************************************************************)

\* The inductive invariant: every approval of every copy has consent, and so
\* has the one that an approve under way is about to add.
ConsentInv ==
    /\ ckpt.state.approved \subseteq consent
    /\ \A i \in Invocations :
          /\ inv[i].state.approved \subseteq consent
          /\ inv[i].answer.kind = "approve" => inv[i].state.pending \in consent
    /\ sent > 0 => {1, 2} \subseteq consent

\* An invocation that rests has approved nothing and carries no approve.
LEMMA RestConsent ==
  ASSUME NEW end
  PROVE  Rest(end).state.approved = {} /\ Rest(end).answer.kind # "approve"
  BY DEF Rest, InitialState, NoAnswer

\* Saving approvals that have consent keeps the invariant.
LEMMA SaveConsent ==
  ASSUME TypeOK, ConsentInv, NEW i \in Invocations, NEW s, NEW node,
         s.approved \subseteq consent, Save(i, s, node), UNCHANGED <<shown, consent, sent>>
  PROVE  ConsentInv'
  <1> DEFINE p == IF node = "END" THEN Rest("completed")
                  ELSE [at |-> node, state |-> s, answer |-> NoAnswer]
  <1>1. p.state.approved \subseteq consent /\ p.answer.kind # "approve"
    BY RestConsent DEF NoAnswer
  <1>2. ckpt' = [state |-> s, next |-> node] /\ inv' = [inv EXCEPT ![i] = p]
    BY DEF Save
  <1>3. \A j \in Invocations : inv'[j] = IF j = i THEN p ELSE inv[j]
    BY <1>2 DEF TypeOK
  <1> HIDE DEF p
  <1> QED  BY <1>1, <1>2, <1>3 DEF ConsentInv

\* An invocation that keeps its answer, its gate and its approvals, or ends.
LEMMA MoveConsent ==
  ASSUME TypeOK, ConsentInv, NEW i \in Invocations, NEW p,
         inv' = [inv EXCEPT ![i] = p], UNCHANGED <<ckpt, consent>>,
         p.state.approved \subseteq consent,
         p.answer.kind = "approve" => p.state.pending \in consent,
         sent' > 0 => {1, 2} \subseteq consent
  PROVE  ConsentInv'
  <1>1. \A j \in Invocations : inv'[j] = IF j = i THEN p ELSE inv[j]
    BY DEF TypeOK
  <1> QED  BY <1>1 DEF ConsentInv

\* Every step keeps it: only an answer adds an approval, and the answer named
\* the gate it is applied to.
LEMMA NextConsent ==
  ASSUME LateAnswers = FALSE
  PROVE  TypeOK /\ IInv /\ ConsentInv /\ [Next]_vars => ConsentInv'
  <1> SUFFICES ASSUME TypeOK, IInv, ConsentInv, [Next]_vars PROVE ConsentInv'
    OBVIOUS
  <1>a. ASSUME NEW i \in Invocations
        PROVE  /\ inv[i].state \in RunStates /\ Sound(inv[i].state)
               /\ inv[i].state.approved \subseteq consent
               /\ inv[i] \in Places
    BY DEF TypeOK, Places, IInv, ConsentInv
  <1>1. ASSUME NEW i \in Invocations, Start(i) PROVE ConsentInv'
    <2>1. \A j \in Invocations : inv'[j].state = inv[j].state
                              /\ inv'[j].answer = inv[j].answer
      BY <1>1, <1>a DEF Start, TypeOK, Places
    <2>2. ckpt'.state = ckpt.state
      BY <1>1 DEF Start, TypeOK, Checkpoints
    <2> QED  BY <1>1, <2>1, <2>2 DEF Start, ConsentInv
  <1>2. ASSUME NEW i \in Invocations, AgentFastExit(i) PROVE ConsentInv'
    BY <1>2, <1>a, SaveConsent DEF AgentFastExit
  <1>3. ASSUME NEW i \in Invocations, AgentFastGate(i) PROVE ConsentInv'
    <2> DEFINE p == Preview(inv[i].state)
               t == Present(p, FastGate(p))
               s == Log(t, 1)
    <2>1. p \in RunStates /\ p.approved \subseteq consent
      BY <1>a, PreviewType, PreviewAgrees DEF Agrees
    <2>2. t \in RunStates /\ t.approved \subseteq consent
      <3>1. FastGate(p) \in 0..5
        BY DueGateType DEF FastGate
      <3>2. t.approved = p.approved
        BY <2>1 DEF Present, RunStates
      <3> QED  BY <2>1, <3>1, <3>2, PresentType
    <2>3. s.approved \subseteq consent
      BY <2>2, LogKeeps
    <2>4. Save(i, s, RouteAfterAgent(s)) /\ UNCHANGED <<shown, consent, sent>>
      BY <1>3 DEF AgentFastGate
    <2> HIDE DEF s
    <2> QED  BY <2>3, <2>4, SaveConsent
  <1>4. ASSUME NEW i \in Invocations, NEW batch \in Batches, NEW bad \in 0..MaxBad,
               AgentReason(i, batch, bad)
        PROVE  ConsentInv'
    <2>1. PICK fires \in Conditions(inv[i].state) :
             LET s == Reason(Preview(inv[i].state), batch, bad, fires)
             IN  Save(i, s, RouteAfterAgent(s))
      BY <1>4 DEF AgentReason
    <2> DEFINE p == Preview(inv[i].state)
               s == Reason(p, batch, bad, fires)
    <2>2. batch \in Seq(Calls) /\ bad \in Nat
      BY BatchType, ConstantsAssumption
    <2>3. p \in RunStates /\ Sound(p) /\ p.approved \subseteq consent
      BY <1>a, PreviewType, PreviewAgrees, AgreesSound DEF Agrees
    <2>4. Save(i, s, RouteAfterAgent(s)) /\ UNCHANGED <<shown, consent, sent>>
      BY <1>4, <2>1 DEF AgentReason
    <2> HIDE DEF p
    <2>5. s.approved \subseteq consent
      BY <2>2, <2>3, ReasonSound
    <2> HIDE DEF s
    <2> QED  BY <2>4, <2>5, SaveConsent
  <1>5. ASSUME NEW i \in Invocations, RefuseTool(i) PROVE ConsentInv'
    <2> DEFINE l == Log(inv[i].state, 1)
               r == Refused(l, Head(inv[i].state.calls))
               s == [r EXCEPT !.calls = Tail(@)]
               p == [inv[i] EXCEPT !.state = s]
    <2>1. l \in RunStates /\ Agrees(inv[i].state, l)
      BY <1>a, LogType, LogAgrees
    <2>2. r \in RunStates /\ Agrees(l, r)
      BY <2>1, RefusedType, RefusedAgrees
    <2>3. Agrees(r, s)
      BY <2>2, TailAgrees
    <2>4. s.approved = inv[i].state.approved /\ s.pending = inv[i].state.pending
      BY <2>1, <2>2, <2>3 DEF Agrees
    <2>5. inv' = [inv EXCEPT ![i] = p] /\ UNCHANGED <<ckpt, consent, sent>>
      BY <1>5 DEF RefuseTool, TypeOK
    <2>6. p.state = s /\ p.answer = inv[i].answer
      BY <1>a DEF Places
    <2> HIDE DEF s, p
    <2> QED  BY <2>4, <2>5, <2>6, MoveConsent DEF ConsentInv
  <1>6. ASSUME NEW i \in Invocations, RunTool(i) \/ MissTool(i) PROVE ConsentInv'
    <2> DEFINE c == Head(inv[i].state.calls)
               s(outcome, long) ==
                 [Executed(Log(inv[i].state, 1), c, outcome, long) EXCEPT !.calls = Tail(@)]
    <2>1. PICK outcome \in {"plan", "error"}, long \in BOOLEAN :
             /\ inv' = [inv EXCEPT ![i].state = s(outcome, long)]
             /\ outcome = "plan" => ~Blocked(inv[i].state, c)
             /\ sent' = IF c \in Dispatches /\ outcome = "plan" /\ sent < 2
                        THEN sent + 1 ELSE sent
      BY <1>6, ConstantsAssumption DEF RunTool, MissTool, Outcomes
    <2> DEFINE p == [inv[i] EXCEPT !.state = s(outcome, long)]
    <2>2. /\ s(outcome, long).approved = inv[i].state.approved
          /\ s(outcome, long).pending = inv[i].state.pending
      BY <1>6, <1>a, <2>1, RanSound DEF RunTool, MissTool
    <2>3. inv' = [inv EXCEPT ![i] = p] /\ UNCHANGED <<ckpt, consent>>
      BY <1>6, <2>1 DEF RunTool, MissTool, TypeOK
    <2>4. p.state = s(outcome, long) /\ p.answer = inv[i].answer
      BY <1>a DEF Places
    <2>5. c \in Dispatches /\ outcome = "plan" => {1, 2} \subseteq consent
      BY <1>a, <2>1, Chain DEF Blocked, RequiredGate
    <2>6. sent' > 0 => {1, 2} \subseteq consent
      BY <2>1, <2>5 DEF ConsentInv
    <2> HIDE DEF c, s, p
    <2> QED  BY <1>a, <2>2, <2>3, <2>4, <2>6, MoveConsent DEF ConsentInv
  <1>7. ASSUME NEW i \in Invocations, FinishTools(i) PROVE ConsentInv'
    BY <1>7, <1>a, AfterToolsSound, SaveConsent DEF FinishTools
  <1>8. ASSUME NEW i \in Invocations, HitlPass(i) PROVE ConsentInv'
    BY <1>8, <1>a, SaveConsent DEF HitlPass
  <1>9. ASSUME NEW i \in Invocations, HitlPause(i) PROVE ConsentInv'
    BY <1>9, RestConsent, MoveConsent DEF HitlPause, ConsentInv
  <1>10. ASSUME NEW i \in Invocations, HitlResume(i) PROVE ConsentInv'
    <2>1. PICK outcome \in {"invalid"} \union ReplanOutcomes :
             Save(i, Handle(inv[i].state, inv[i].answer, outcome), "agent")
      BY <1>10 DEF HitlResume
    <2>2. outcome \in {"invalid", "plan", "error"}
      BY DEF ReplanOutcomes, Outcomes
    <2>3. Handle(inv[i].state, inv[i].answer, outcome).approved \subseteq consent
      BY <1>10, <1>a, <2>2, HandleSound DEF HitlResume, ConsentInv
    <2> QED  BY <1>10, <2>1, <2>3, SaveConsent DEF HitlResume
  <1>11. ASSUME NEW i \in Invocations, MonitorStep(i) PROVE ConsentInv'
    <2>1. PICK conflict \in Conflicts, outcome \in ReplanOutcomes,
               fires \in Conditions(inv[i].state) :
             LET s == Monitored(inv[i].state, conflict, outcome, fires)
             IN  Save(i, s, RouteAfterMonitor(s))
      BY <1>11 DEF MonitorStep
    <2> DEFINE s == Monitored(inv[i].state, conflict, outcome, fires)
    <2>2. Due(inv[i].state)
      BY <1>11 DEF MonitorStep, At, IInv
    <2>3. s.approved \subseteq consent
      BY <1>a, <2>2, MonitoredSound DEF Due, ReplanOutcomes, Outcomes
    <2>4. Save(i, s, RouteAfterMonitor(s))
      BY <2>1
    <2> HIDE DEF s
    <2> QED  BY <1>11, <2>3, <2>4, SaveConsent DEF MonitorStep
  <1>12. ASSUME NEW i \in Invocations, NEW answer \in Answers, Respond(i, answer)
         PROVE  ConsentInv'
    <2> DEFINE p == [at |-> ckpt.next, state |-> ckpt.state,
                     answer |-> IF ckpt.next = "hitl" THEN answer ELSE NoAnswer]
    <2>1. inv' = [inv EXCEPT ![i] = p] /\ UNCHANGED <<ckpt, sent>>
      BY <1>12 DEF Respond
    <2>2. consent \subseteq consent' /\ answer.gate = ckpt.state.pending
      BY <1>12 DEF Respond
    <2>3. p.answer.kind = "approve" => p.state.pending \in consent'
      BY <1>12, <2>2 DEF Respond, NoAnswer
    <2>4. p.state.approved \subseteq consent'
      BY <2>2 DEF ConsentInv
    <2>5. \A j \in Invocations : inv'[j] = IF j = i THEN p ELSE inv[j]
      BY <2>1 DEF TypeOK
    <2> HIDE DEF p
    <2> QED  BY <2>1, <2>2, <2>3, <2>4, <2>5 DEF ConsentInv
  <1>13. ASSUME NEW i \in Invocations, Abort(i) PROVE ConsentInv'
    BY <1>13, RestConsent, MoveConsent DEF Abort, ConsentInv
  <1>14. ASSUME Tick PROVE ConsentInv'
    <2>1. \A s \in RunStates : /\ [s EXCEPT !.entered = "old"].approved = s.approved
                               /\ [s EXCEPT !.entered = "old"].pending = s.pending
      BY DEF RunStates
    <2>2. /\ ckpt.state \in RunStates
          /\ ckpt'.state = [ckpt.state EXCEPT !.entered = "old"]
      BY <1>14 DEF Tick, TypeOK, Checkpoints
    <2>3. ASSUME NEW i \in Invocations
          PROVE  /\ inv'[i].answer = inv[i].answer
                 /\ inv'[i].state \in {inv[i].state, [inv[i].state EXCEPT !.entered = "old"]}
      BY <1>14, <1>a DEF Tick, Places
    <2>4. ASSUME NEW i \in Invocations
          PROVE  /\ inv'[i].state.approved = inv[i].state.approved
                 /\ inv'[i].state.pending = inv[i].state.pending
      BY <1>a, <2>1, <2>3
    <2>5. ckpt'.state.approved = ckpt.state.approved
      BY <2>1, <2>2
    <2>6. UNCHANGED <<consent, sent>>
      BY <1>14 DEF Tick
    <2> QED  BY <2>3, <2>4, <2>5, <2>6 DEF ConsentInv
  <1>15. CASE UNCHANGED vars
    BY <1>15 DEF vars, ConsentInv
  <1> QED
    BY <1>1, <1>2, <1>3, <1>4, <1>5, <1>6, <1>7, <1>8, <1>9, <1>10, <1>11, <1>12,
       <1>13, <1>14, <1>15 DEF Next, Step

\* Whenever answers name the pending gate, an approved gate is one the
\* operator approved, and no truck leaves without HITL-1 and HITL-2.
THEOREM ApprovalsHaveConsent ==
  ASSUME LateAnswers = FALSE
  PROVE  Spec => []ConsentBacksApproval
  <1>1. Init => ConsentInv
    <2>1. InitialState.approved = {}
      BY DEF InitialState
    <2> QED  BY <2>1, RestConsent DEF Init, ConsentInv
  <1>2. TypeOK /\ IInv /\ ConsentInv /\ [Next]_vars => ConsentInv'
    BY NextConsent
  <1>3. ConsentInv => ConsentBacksApproval
    BY DEF ConsentInv, ConsentBacksApproval, Copies
  <1> QED  BY <1>1, <1>2, <1>3, TypeCorrect, Invariant, PTL DEF Spec
=============================================================================
