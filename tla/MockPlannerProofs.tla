-------------------------- MODULE MockPlannerProofs --------------------------
(***************************************************************************)
(* What the deterministic planner adds to AgentGraph.  It is one of the    *)
(* planners AgentGraph allows, so every theorem about that one carries     *)
(* over; beyond them, what it tells the parties is true, and one           *)
(* invocation at a time never sends the trucks twice.                      *)
(*                                                                         *)
(* Part 1.  The planner's batch.                                           *)
(***************************************************************************)
EXTENDS MockPlanner, AgentGraphPipeline, SequenceTheorems

\* What is asked for in a run state: registered calls that are wanted.
WantedCalls(s) == {c \in Calls : Wanted(s, c)}

\* Elements of a sequence over a set are in the set.
LEMMA ToSetOfSeq ==
  ASSUME NEW W, NEW q \in Seq(W)
  PROVE  ToSet(q) \subseteq W
  BY ElementOfSeq, LenProperties DEF ToSet

\* The list holds wanted calls only.
LEMMA ListedType ==
  ASSUME NEW s
  PROVE  Listed(s) \in Seq(WantedCalls(s))
  <1> DEFINE W == WantedCalls(s)
             Ask(c) == IF Wanted(s, c) THEN <<c>> ELSE <<>>
  <1>1. ASSUME NEW c \in AllCalls PROVE Ask(c) \in Seq(W)
    <2>1. CASE Wanted(s, c)
      <3>1. c \in W
        BY <2>1, PlannerAssumption DEF WantedCalls
      <3> HIDE DEF W
      <3> QED  BY <2>1, <3>1
    <2>2. CASE ~Wanted(s, c)
      BY <2>2
    <2> QED  BY <2>1, <2>2
  <1>2. /\ Ask("T1") \in Seq(W) /\ Ask("T2") \in Seq(W) /\ Ask("T3") \in Seq(W)
        /\ Ask("T4") \in Seq(W) /\ Ask("dispatch") \in Seq(W) /\ Ask("hold") \in Seq(W)
        /\ Ask("dispatch_delta") \in Seq(W) /\ Ask("T5") \in Seq(W)
        /\ Ask("T5_2") \in Seq(W) /\ Ask("notify_dispatch") \in Seq(W)
        /\ Ask("notify_hold") \in Seq(W) /\ Ask("notify_tuas") \in Seq(W)
    BY <1>1 DEF AllCalls, Dispatches, TuasUpdates, Notices
  <1>3. Listed(s) = Ask("T1") \o Ask("T2") \o Ask("T3") \o Ask("T4") \o Ask("dispatch")
          \o Ask("hold") \o Ask("dispatch_delta") \o Ask("T5") \o Ask("T5_2")
          \o Ask("notify_dispatch") \o Ask("notify_hold") \o Ask("notify_tuas")
    BY DEF Listed
  <1> HIDE DEF Ask, W
  <1>4. \A p, q \in Seq(W) : p \o q \in Seq(W)
    OBVIOUS
  <1>5. Ask("T1") \o Ask("T2") \o Ask("T3") \o Ask("T4") \in Seq(W)
    BY <1>2, <1>4
  <1>6. Ask("T1") \o Ask("T2") \o Ask("T3") \o Ask("T4") \o Ask("dispatch")
          \o Ask("hold") \o Ask("dispatch_delta") \o Ask("T5") \in Seq(W)
    BY <1>2, <1>4, <1>5
  <1>7. Listed(s) \in Seq(W)
    BY <1>2, <1>3, <1>4, <1>6
  <1> QED  BY <1>7 DEF W

\* A batch has at most three calls, all of them wanted.
LEMMA FirstThree ==
  ASSUME NEW W, NEW q \in Seq(W)
  PROVE  /\ SubSeq(q, 1, IF Len(q) > 3 THEN 3 ELSE Len(q)) \in Seq(W)
         /\ Len(SubSeq(q, 1, IF Len(q) > 3 THEN 3 ELSE Len(q))) \in 0..3
  <1> DEFINE m == Len(q)
             n == IF m > 3 THEN 3 ELSE m
  <1>0. m \in Nat
    BY LenProperties
  <1> HIDE DEF m
  <1>1. n \in 0..3 /\ n <= m /\ n \in Int
    BY <1>0
  <1> HIDE DEF n
  <1>2. \A k \in 1..n : q[k] \in W
    <2>1. \A k \in 1..n : k \in 1..m
      BY <1>0, <1>1
    <2> QED  BY <2>1, ElementOfSeq DEF m
  <1>3. SubSeq(q, 1, n) \in Seq(W) /\ Len(SubSeq(q, 1, n)) = IF 1 <= n THEN n - 1 + 1 ELSE 0
    BY <1>1, <1>2, SubSeqProperties
  <1>4. (IF 1 <= n THEN n - 1 + 1 ELSE 0) \in 0..3
    BY <1>1
  <1> QED  BY <1>3, <1>4 DEF n, m

\* The planner's reply: wanted calls, at most three, a dispatch on its own.
LEMMA PlanType ==
  ASSUME NEW s
  PROVE  /\ Plan(s) \in Seq(WantedCalls(s))
         /\ Len(Plan(s)) \in 0..3
         /\ \A c \in Dispatches : c \in ToSet(Plan(s)) => Plan(s) = <<c>>
  <1> DEFINE W == WantedCalls(s)
             due == Listed(s)
             batch == SubSeq(due, 1, IF Len(due) > 3 THEN 3 ELSE Len(due))
  <1>1. batch \in Seq(W) /\ Len(batch) \in 0..3
    BY ListedType, FirstThree
  <1>2. Plan(s) = Alone(batch)
    BY DEF Plan
  <1> HIDE DEF batch
  <1>3. ToSet(batch) \subseteq W
    BY <1>1, ToSetOfSeq
  <1> HIDE DEF W
  <1>4. ASSUME NEW c, c \in W
        PROVE  <<c>> \in Seq(W) /\ Len(<<c>>) \in 0..3 /\ ToSet(<<c>>) = {c}
    BY <1>4 DEF ToSet
  <1>5. Dispatches = {"dispatch", "dispatch_delta"}
    BY DEF Dispatches
  <1>6. CASE "dispatch" \in ToSet(batch)
    BY <1>2, <1>3, <1>4, <1>6 DEF Alone, W
  <1>7. CASE "dispatch" \notin ToSet(batch) /\ "dispatch_delta" \in ToSet(batch)
    BY <1>2, <1>3, <1>4, <1>7 DEF Alone, W
  <1>8. CASE ToSet(batch) \intersect Dispatches = {} /\ "hold" \in ToSet(batch)
    <2>1. Alone(batch) = <<"hold">>
      BY <1>5, <1>8 DEF Alone
    <2>2. "hold" \notin Dispatches
      BY <1>5
    <2> QED  BY <1>2, <1>3, <1>4, <1>8, <2>1, <2>2 DEF W
  <1>9. CASE ToSet(batch) \intersect Dispatches = {} /\ "hold" \notin ToSet(batch)
    <2>1. Alone(batch) = batch
      BY <1>5, <1>9 DEF Alone
    <2> QED  BY <1>1, <1>2, <1>9, <2>1 DEF W
  <1> QED  BY <1>5, <1>6, <1>7, <1>8, <1>9

\* The reply is one that AgentGraph allows.
LEMMA PlanIsABatch ==
  ASSUME NEW s
  PROVE  Plan(s) \in Batches
  <1> DEFINE q == Plan(s)
  <1>1. q \in Seq(WantedCalls(s)) /\ Len(q) \in 0..3
    BY PlanType
  <1>2. WantedCalls(s) \subseteq Calls
    BY DEF WantedCalls
  <1> HIDE DEF q
  <1>3. q \in Seq(Calls)
    BY <1>1, <1>2, SeqMonotonic
  <1>4. q \in [1..Len(q) -> Calls]
    BY <1>3, LenProperties
  <1>5. Len(q) \in 0..MaxBatch
    <2>1. MaxBatch \in Nat /\ MaxBatch >= 3
      BY PlannerAssumption, ConstantsAssumption
    <2>2. \A n \in 0..3 : n \in 0..MaxBatch
      BY <2>1
    <2> QED  BY <1>1, <2>2
  <1> QED  BY <1>4, <1>5 DEF Batches, q

\* So is the one of which no call is known: both ask for planned calls or none.
LEMMA ReplyAllowed ==
  ASSUME NEW i, PlannerReply(i)
  PROVE  \E batch \in Batches, bad \in 0..MaxBad :
            /\ batch \in {Plan(Preview(inv[i].state)), <<>>}
            /\ AgentReason(i, batch, bad)
  <1> DEFINE plan == Plan(Preview(inv[i].state))
  <1>1. plan \in Batches /\ Len(plan) \in 0..3
    BY PlanIsABatch, PlanType
  <1>2. <<>> \in Batches
    <2>1. <<>> \in [1..0 -> Calls] /\ 0 \in 0..MaxBatch
      BY ConstantsAssumption
    <2> QED  BY <2>1 DEF Batches
  <1>3. CASE AgentReason(i, plan, 0)
    <2>1. 0 \in 0..MaxBad
      BY ConstantsAssumption
    <2> QED  BY <1>1, <1>3, <2>1
  <1>4. CASE Switches /\ AgentReason(i, <<>>, Len(plan))
    <2>1. \A n \in 0..3 : n \in 0..MaxBad
      BY <1>4, ConstantsAssumption, PlannerAssumption
    <2>2. Len(plan) \in 0..MaxBad
      BY <1>1, <2>1
    <2> HIDE DEF plan
    <2> QED  BY <1>2, <1>4, <2>2
  <1> QED  BY <1>3, <1>4 DEF PlannerReply

\* Whatever the deterministic planner does, AgentGraph allows: its gate order,
\* consent and type theorems hold of mock_provider.py too.
THEOREM MockIsAPlanner == MockSpec => Spec
  <1>1. ASSUME [MockNext]_vars PROVE [Next]_vars
    <2>1. ASSUME NEW i \in Invocations, MockWork(i) PROVE Next
      <3>1. CASE Step(i)
        BY <3>1 DEF Next
      <3>2. CASE PlannerReply(i)
        <4>1. PICK batch \in Batches, bad \in 0..MaxBad : AgentReason(i, batch, bad)
          BY <3>2, ReplyAllowed
        <4> QED  BY <4>1 DEF Next
      <3> QED  BY <2>1, <3>1, <3>2 DEF MockWork
    <2>2. ASSUME MockNext PROVE Next
      <3>1. ASSUME NEW i \in Invocations,
                   Start(i) \/ (\E answer \in Answers : Respond(i, answer)) \/ Abort(i)
            PROVE  Next
        BY <3>1 DEF Next
      <3>2. ASSUME Tick PROVE Next
        BY <3>2 DEF Next
      <3> QED  BY <2>1, <2>2, <3>1, <3>2 DEF MockNext
    <2> QED  BY <1>1, <2>2
  <1> QED  BY <1>1, PTL DEF MockSpec, Spec

\* So gates pass in order, actions follow their gates, an escalation comes
\* first, the emergency plan last and rejected gates stay closed under
\* mock_provider.py as well, with any number of racing invocations.
COROLLARY MockKeepsOrder ==
  MockSpec => [](/\ TypeOK /\ GateOrder /\ ActionsApproved /\ EscalationFirst
                 /\ EmergencyAfterDispatch /\ RejectedStaysClosed)
  BY MockIsAPlanner, TypeCorrect, GatesPassInOrder, NothingTakenUnapproved,
     EscalationComesFirst, EmergencyComesLast, RejectedIsNotApproved, PTL

\* And its thread implements GatePipeline while answers are handled one at a
\* time.
COROLLARY MockThreadIsAPipeline ==
  ASSUME OneAtATime
  PROVE  MockSpec => ImplementsPipeline
  BY MockIsAPlanner, ThreadIsAPipeline, PTL

-----------------------------------------------------------------------------
(***************************************************************************)
(* Part 2.  Which steps change what the notices are about: the calls that  *)
(* succeeded, the facts they left, and the batch.  Only the tools and the  *)
(* planner's reply do.                                                     *)
(***************************************************************************)

\* The notices on record, and the key of the emergency plan.
Told == {"notified_dispatch", "notified_hold", "notified_tuas", "deviation_log"}

\* Two states with the same batch, results, deeds and told facts.
Same(s, t) ==
    /\ t.calls = s.calls
    /\ t.ok = s.ok
    /\ t.done = s.done
    /\ t.facts \intersect Told = s.facts \intersect Told

\* Sameness composes.
LEMMA SameTrans ==
  ASSUME NEW s, NEW t, NEW u, Same(s, t), Same(t, u)
  PROVE  Same(s, u)
  BY DEF Same

\* The trace and the preview of the card change nothing told.
LEMMA LogSame ==
  ASSUME NEW s \in RunStates, NEW n \in Nat
  PROVE  Same(s, Log(s, n))
  BY DEF Same, Log, RunStates

\* The preview only fills in the card.
LEMMA PreviewSame ==
  ASSUME NEW s \in RunStates
  PROVE  Same(s, Preview(s))
  BY DEF Same, Preview, RunStates

\* Presenting a gate changes what is pending only.
LEMMA PresentSame ==
  ASSUME NEW s \in RunStates, NEW g
  PROVE  Same(s, Present(s, g))
  BY DEF Same, Present, RunStates

\* So does raising the duty manager's gate.
LEMMA RaiseSame ==
  ASSUME NEW s \in RunStates
  PROVE  Same(s, Raise(s))
  BY DEF Same, Raise, RunStates

\* A re-split changes the split and the card only.
LEMMA RecomputeSame ==
  ASSUME NEW s \in RunStates, NEW outcome
  PROVE  Same(s, Recompute(s, outcome))
  BY DEF Same, Recompute, RunStates

\* The escalation check only defers and raises.
LEMMA EscalateSame ==
  ASSUME NEW s \in RunStates, NEW fires
  PROVE  Same(s, Escalate(s, fires))
  <1> DEFINE d == [s EXCEPT !.deferred = Deferred(s, fires)]
  <1>1. d \in RunStates
    <2>1. Deferred(s, fires) \in SUBSET Triggers
      BY ConstantsAssumption DEF Deferred, RunStates
    <2> QED  BY <2>1 DEF RunStates
  <1>2. Same(s, d)
    BY DEF Same, RunStates
  <1> HIDE DEF d
  <1>3. Raise(d) \in RunStates /\ Same(d, Raise(d))
    BY <1>1, RaiseType, RaiseSame
  <1>4. Same(Raise(d), Log(Raise(d), 1))
    BY <1>3, LogSame
  <1>5. Same(s, Log(Raise(d), 1))
    BY <1>2, <1>3, <1>4, SameTrans
  <1> QED  BY <1>2, <1>5 DEF Escalate, d

\* A new batch is all the reply changes ...
LEMMA SetCalls ==
  ASSUME NEW s \in RunStates, NEW batch \in Seq(Calls)
  PROVE  [s EXCEPT !.calls = batch] \in RunStates
  BY DEF RunStates

\* ... whatever text came with it ...
LEMMA ReplySame ==
  ASSUME NEW s \in RunStates, NEW batch \in Seq(Calls), NEW bad \in Nat
  PROVE  Same([s EXCEPT !.calls = batch], Reply(s, batch, bad))
  <1> DEFINE st == IF batch # <<>> THEN "calling_tools"
                   ELSE IF bad > 0 \/ Free(s) THEN "running" ELSE s.status
             r == [s EXCEPT !.calls = batch, !.status = st]
  <1>1. st \in Statuses
    BY DEF RunStates, Statuses
  <1>2. r \in RunStates
    BY <1>1 DEF RunStates
  <1>3. Same([s EXCEPT !.calls = batch], r)
    BY DEF Same, RunStates
  <1>4. Reply(s, batch, bad) = Log(r, 1 + bad)
    BY DEF Reply, RunStates
  <1>5. Same(r, Log(r, 1 + bad))
    <2>1. 1 + bad \in Nat
      OBVIOUS
    <2> QED  BY <1>2, <2>1, LogSame
  <1> HIDE DEF r
  <1> QED  BY <1>3, <1>4, <1>5, SameTrans

\* ... and whatever escalation or gate follows it.
LEMMA ReasonSame ==
  ASSUME NEW s \in RunStates, NEW batch \in Seq(Calls), NEW bad \in Nat, NEW fires
  PROVE  Same([s EXCEPT !.calls = batch], Reason(s, batch, bad, fires))
  <1> DEFINE b == [s EXCEPT !.calls = batch]
             r == Reply(s, batch, bad)
             e == Escalate(r, fires)
  <1>1. r \in RunStates /\ Same(b, r)
    BY ReplyType, ReplySame
  <1>2. Reason(s, batch, bad, fires) =
          IF batch = <<>> /\ bad > 0 THEN r ELSE GateAfterReply(e)
    BY DEF Reason
  <1> HIDE DEF r, b
  <1>3. e \in RunStates /\ Same(r, e)
    BY <1>1, EscalateType, EscalateSame
  <1> HIDE DEF e
  <1>4. Same(e, GateAfterReply(e))
    <2>1. Same(e, Present(e, ReasonedGate(e)))
      BY <1>3, PresentSame
    <2>2. Same(e, e)
      BY DEF Same
    <2> QED  BY <2>1, <2>2 DEF GateAfterReply
  <1>5. Same(b, GateAfterReply(e))
    BY <1>1, <1>3, <1>4, SameTrans
  <1> QED  BY <1>1, <1>2, <1>5 DEF b

\* The end of tool_node empties the batch.
LEMMA AfterToolsSame ==
  ASSUME NEW s \in RunStates, NEW fires
  PROVE  Same([s EXCEPT !.calls = <<>>], AfterTools(s, fires))
  <1> DEFINE b == [s EXCEPT !.calls = <<>>]
             t == [s EXCEPT !.calls = <<>>, !.status = "running"]
             e == Escalate(t, fires)
  <1>1. t \in RunStates /\ Same(b, t)
    <2>1. <<>> \in Seq(Calls)
      OBVIOUS
    <2>2. t \in RunStates
      BY <2>1, Values DEF RunStates
    <2>3. Same(b, t)
      BY DEF Same, RunStates
    <2> QED  BY <2>2, <2>3
  <1>2. AfterTools(s, fires) =
          IF Free(e) /\ {1, 2, 3} \subseteq e.approved /\ 4 \notin e.approved
               /\ "tuas_sequence" \in e.facts
          THEN Present(e, 4) ELSE e
    BY DEF AfterTools
  <1> HIDE DEF t, b
  <1>3. e \in RunStates /\ Same(t, e)
    BY <1>1, EscalateType, EscalateSame
  <1> HIDE DEF e
  <1>4. Same(e, Present(e, 4))
    BY <1>3, PresentSame
  <1>5. Same(b, e) /\ Same(b, Present(e, 4))
    BY <1>1, <1>3, <1>4, SameTrans
  <1> QED  BY <1>2, <1>5 DEF b

\* No decision of the operator changes what was done or told.
LEMMA DecideSame ==
  ASSUME NEW s \in RunStates, NEW g \in Gates, NEW kind,
         NEW outcome \in {"invalid", "plan", "error"}
  PROVE  Same(s, Decide(s, g, kind, outcome))
  <1> DEFINE r == Resolved(s)
  <1>1. r \in RunStates
    <2>1. 0 \in 0..5
      OBVIOUS
    <2> QED  BY <2>1, Values, SetPending, SetStatus DEF Resolved
  <1>2. Same(s, r)
    BY DEF Same, Resolved, RunStates
  <1>3. Same(s, Approve(s, g))
    <2>1. /\ Approve(s, g).calls = r.calls /\ Approve(s, g).ok = r.ok
          /\ Approve(s, g).done = r.done
      BY <1>1 DEF Approve, RunStates
    <2>2. Approve(s, g).facts = IF g = 5 THEN (r.facts \ {"long_hold"}) \union
                                               {"deviation_handled", "monitored"}
                                ELSE r.facts
      BY <1>1 DEF Approve, RunStates
    <2>3. Approve(s, g).facts \intersect Told = r.facts \intersect Told
      BY <2>2 DEF Told
    <2> QED  BY <1>2, <2>1, <2>3 DEF Same
  <1>4. Same(s, Reject(s, g))
    <2>1. Same(r, Reject(s, g))
      BY <1>1 DEF Same, Reject, RunStates
    <2> QED  BY <1>2, <2>1, SameTrans
  <1>5. Same(s, Modify(s, g, outcome))
    <2> DEFINE m == [r EXCEPT !.rejected = @ \ {g}]
    <2>1. m \in RunStates /\ Same(r, m)
      BY <1>1 DEF Same, RunStates
    <2>2. Same(m, Recompute(m, outcome))
      BY <2>1, RecomputeSame
    <2>3. Modify(s, g, outcome) = IF outcome = "invalid" THEN r ELSE Recompute(m, outcome)
      BY DEF Modify
    <2> HIDE DEF m, r
    <2> QED  BY <1>2, <2>1, <2>2, <2>3, SameTrans
  <1>6. Same(s, Timeout(s, g))
    <2> DEFINE t == [s EXCEPT !.rejected = @ \ {g}]
    <2>1. t \in RunStates /\ Same(s, t)
      BY DEF Same, RunStates
    <2>2. Same(t, Raise(t))
      BY <2>1, RaiseSame
    <2> DEFINE f == t.facts \union {"cancelled"}
    <2>3. f \intersect Told = t.facts \intersect Told
      BY DEF Told
    <2> HIDE DEF f
    <2>4. Same(t, [t EXCEPT !.pending = 0, !.status = "cancelled", !.facts = f])
      BY <2>1, <2>3 DEF Same, RunStates
    <2>5. /\ Same(t, [t EXCEPT !.pending = 0, !.status = "holding"])
          /\ Same(t, [t EXCEPT !.pending = 0, !.status = "halted"])
      BY <2>1 DEF Same, RunStates
    <2>6. [t EXCEPT !.pending = 0, !.status = "cancelled", !.facts = @ \union {"cancelled"}]
            = [t EXCEPT !.pending = 0, !.status = "cancelled", !.facts = f]
      BY <2>1 DEF RunStates, f
    <2>7. Timeout(s, g) \in
            {Raise(t), [t EXCEPT !.pending = 0, !.status = "cancelled", !.facts = f],
             [t EXCEPT !.pending = 0, !.status = "holding"],
             [t EXCEPT !.pending = 0, !.status = "halted"]}
      BY <2>6 DEF Timeout, Gates
    <2> HIDE DEF t
    <2>8. Same(t, Timeout(s, g))
      BY <2>2, <2>4, <2>5, <2>7
    <2> QED  BY <2>1, <2>8, SameTrans
  <1> QED  BY <1>2, <1>3, <1>4, <1>5, <1>6 DEF Decide

\* Nor does the rest of hitl_node.
LEMMA HandleSame ==
  ASSUME NEW s \in RunStates, s.pending # 0, NEW answer,
         NEW outcome \in {"invalid", "plan", "error"}
  PROVE  Same(s, Handle(s, answer, outcome))
  <1> DEFINE n == Entered(s)
             e == Log(n, Entries(s, answer))
  <1>1. n \in RunStates /\ Same(s, n)
    BY Values DEF Entered, RunStates, Same
  <1> HIDE DEF n
  <1>2. e \in RunStates /\ Same(n, e)
    <2>1. Entries(s, answer) \in Nat
      BY DEF Entries
    <2> QED  BY <1>1, <2>1, LogType, LogSame
  <1>3. s.pending \in Gates
    BY DEF RunStates, Gates
  <1> HIDE DEF e
  <1>4. \A kind : /\ Decide(e, s.pending, kind, outcome) \in RunStates
                  /\ Same(e, Decide(e, s.pending, kind, outcome))
    BY <1>2, <1>3, DecideType, DecideSame
  <1> DEFINE a == Decide(e, s.pending, "approve", outcome)
  <1>5. Same(a, [a EXCEPT !.entered = s.entered])
    BY <1>4 DEF Same, RunStates
  <1>6. Same(s, e)
    BY <1>1, <1>2, SameTrans
  <1>7. \A kind : Same(s, Decide(e, s.pending, kind, outcome))
    BY <1>4, <1>6, SameTrans
  <1>8. Same(s, [a EXCEPT !.entered = s.entered])
    BY <1>5, <1>7, SameTrans
  <1> QED  BY <1>6, <1>7, <1>8 DEF Handle, e, n

\* Nor does the monitor: the key that the planner's emergency branch reads is
\* not among those it writes.
LEMMA MonitoredSame ==
  ASSUME NEW s \in RunStates, NEW conflict, NEW outcome, NEW fires
  PROVE  Same(s, Monitored(s, conflict, outcome, fires))
  <1> DEFINE m == Monitored(s, conflict, outcome, fires)
  <1>1. m.calls = s.calls /\ m.ok = s.ok /\ m.done = s.done
    BY DEF Monitored, Recompute, RunStates
  <1>2. m.facts \in {s.facts, s.facts \union {"monitored"},
                     s.facts \union {"monitored"} \union {"long_hold"}}
    BY DEF Monitored, Recompute, RunStates
  <1> HIDE DEF m
  <1>3. m.facts \intersect Told = s.facts \intersect Told
    BY <1>2 DEF Told
  <1>4. Same(s, m)
    BY <1>1, <1>3 DEF Same
  <1> QED  BY <1>4 DEF m
-----------------------------------------------------------------------------
(***************************************************************************)
(* Part 3.  The notices are true, for any number of racing invocations.    *)
(* That is not inductive: a notice is asked for on a result and sent later,*)
(* so an honest copy also has the deed behind every result and behind      *)
(* every notice still in its batch.                                        *)
(***************************************************************************)

\* The deed a notice tells of.
Behind(c) == CASE c = "notify_dispatch" -> "dispatched"
               [] c = "notify_hold" -> "held"
               [] c = "notify_tuas" -> "updated"

\* No part of the emergency plan was asked for.
NoDelta(s) ==
    /\ "deviation_log" \notin s.facts
    /\ {"dispatch_delta", "T5_2"} \intersect ToSet(s.calls) = {}

Honest(s) ==
    /\ \A c \in s.ok : Deed(c) \subseteq s.done
    /\ \A c \in Notices :
          c \in ToSet(s.calls) \/ Notified(c) \in s.facts => Behind(c) \in s.done
    /\ NoDelta(s)

HonestInv == Honest(ckpt.state) /\ \A i \in Invocations : Honest(inv[i].state)

\* Every fact that honesty speaks of is a told one.
LEMMA ToldFacts ==
  /\ \A c \in Notices : Notified(c) \in Told
  /\ "deviation_log" \in Told
  BY DEF Notices, Notified, Told

\* What asks for no more, claims no more results and tells the same is honest.
LEMMA HonestKept ==
  ASSUME NEW s, NEW t, Honest(s), ToSet(t.calls) \subseteq ToSet(s.calls),
         t.ok \subseteq s.ok, t.done = s.done,
         t.facts \intersect Told = s.facts \intersect Told
  PROVE  Honest(t)
  <1>1. \A f \in Told : f \in t.facts <=> f \in s.facts
    OBVIOUS
  <1> QED  BY <1>1, ToldFacts DEF Honest, NoDelta

\* Sameness is a case of that.
LEMMA SameHonest ==
  ASSUME NEW s, NEW t, Honest(s), Same(s, t)
  PROVE  Honest(t)
  BY HonestKept DEF Same

\* A tool of the planner has succeeded only by one of its calls.
LEMMA SucceededBy ==
  ASSUME NEW s \in RunStates
  PROVE  /\ Dispatched(s) <=> s.ok \intersect Dispatches # {}
         /\ TuasUpdated(s) <=> s.ok \intersect TuasUpdates # {}
         /\ Succeeded(s, "hold") <=> "hold" \in s.ok
  <1>1. s.ok \subseteq AllCalls
    BY PlannerAssumption DEF RunStates
  <1>2. ASSUME NEW c \in AllCalls
        PROVE  /\ ToolOf(c) = "dispatch_road_itt" <=> c \in Dispatches
               /\ ToolOf(c) = "update_tuas_loading_sequence" <=> c \in TuasUpdates
               /\ ToolOf(c) = "hold" <=> c = "hold"
    BY DEF ToolOf, AllCalls, Dispatches, TuasUpdates, Notices
  <1> QED  BY <1>1, <1>2 DEF Dispatched, TuasUpdated, Succeeded

\* A notice is only asked for once its deed is among the results.
LEMMA PlanHonest ==
  ASSUME NEW s \in RunStates, Honest(s), NEW t,
         t.calls = Plan(s), t.ok = s.ok, t.done = s.done,
         t.facts \intersect Told = s.facts \intersect Told
  PROVE  Honest(t)
  <1>1. \A c \in ToSet(t.calls) : Wanted(s, c)
    <2>1. ToSet(Plan(s)) \subseteq WantedCalls(s)
      BY PlanType, ToSetOfSeq
    <2> QED  BY <2>1 DEF WantedCalls
  <1>2. ASSUME NEW c \in Notices, Wanted(s, c) PROVE Behind(c) \in s.done
    <2>1. /\ Dispatched(s) => "dispatched" \in s.done
          /\ Succeeded(s, "hold") => "held" \in s.done
          /\ TuasUpdated(s) => "updated" \in s.done
      BY SucceededBy DEF Honest, Deed, Dispatches, TuasUpdates
    <2> QED  BY <1>2, <2>1 DEF Notices, Wanted, Behind
  <1>3. \A f \in Told : f \in t.facts <=> f \in s.facts
    OBVIOUS
  <1>4. ~Wanted(s, "dispatch_delta") /\ ~Wanted(s, "T5_2")
    BY DEF Wanted, Honest, NoDelta
  <1>5. NoDelta(t)
    BY <1>1, <1>3, <1>4, ToldFacts DEF Honest, NoDelta
  <1> QED  BY <1>1, <1>2, <1>3, <1>5, ToldFacts DEF Honest

\* A result is a deed, and a notice had its own before it was sent.
LEMMA ExecutedHonest ==
  ASSUME NEW s \in RunStates, Honest(s), NEW c \in ToSet(s.calls), c \in Calls,
         NEW outcome \in {"plan", "error"}, NEW long \in BOOLEAN
  PROVE  Honest(Executed(s, c, outcome, long))
  <1> DEFINE t == Executed(s, c, outcome, long)
             new == NewFacts(s, c, outcome, long)
  <1>1. t.calls = s.calls
    BY ExecutedKeepsCalls
  <1>2. /\ t.ok = IF outcome = "plan" THEN s.ok \union {c} ELSE s.ok \ {c}
        /\ t.done = IF outcome = "plan" THEN s.done \union Deed(c) ELSE s.done
    BY DEF Executed, Recompute, RunStates
  <1>3. t.facts = (IF c = "hold" THEN s.facts \ {"long_hold"} ELSE s.facts) \union new
    BY DEF Executed, Recompute, RunStates
  <1>4. \A f \in Told : f \in t.facts <=> f \in s.facts \/ f \in new
    BY <1>3 DEF Told
  <1>5. c \in AllCalls
    BY PlannerAssumption
  <1>6. /\ "deviation_log" \notin new
        /\ \A d \in Notices : Notified(d) \in new => d = c
    BY <1>5 DEF NewFacts, Dispatches, TuasUpdates, Notices, Notified, AllCalls
  <1> HIDE DEF t, new
  <1>7. \A d \in t.ok : Deed(d) \subseteq t.done
    BY <1>2 DEF Honest
  <1>8. NoDelta(t)
    BY <1>1, <1>4, <1>6, ToldFacts DEF Honest, NoDelta
  <1>9. ASSUME NEW d \in Notices, d \in ToSet(t.calls) \/ Notified(d) \in t.facts
        PROVE  Behind(d) \in t.done
    <2>1. d \in ToSet(s.calls) \/ Notified(d) \in s.facts
      BY <1>1, <1>4, <1>6, <1>9, ToldFacts
    <2>2. Behind(d) \in s.done
      BY <2>1 DEF Honest
    <2> QED  BY <1>2, <2>2
  <1>10. Honest(t)
    BY <1>7, <1>8, <1>9 DEF Honest
  <1> QED  BY <1>10 DEF t

\* A refused call only takes a result away.
LEMMA RefusedHonest ==
  ASSUME NEW s \in RunStates, Honest(s), NEW c
  PROVE  Honest(Refused(s, c))
  <1>1. /\ Refused(s, c).calls = s.calls /\ Refused(s, c).facts = s.facts
        /\ Refused(s, c).done = s.done
        /\ Refused(s, c).ok \subseteq s.ok
    BY DEF Refused, RunStates
  <1> QED  BY <1>1, HonestKept

\* What is left of a batch was in it.
LEMMA TailIsLess ==
  ASSUME NEW p \in Seq(Calls), p # <<>>
  PROVE  ToSet(Tail(p)) \subseteq ToSet(p)
  <1>1. /\ Tail(p) \in Seq(Calls) /\ Len(Tail(p)) = Len(p) - 1
        /\ \A k \in 1..Len(Tail(p)) : Tail(p)[k] = p[k+1]
    BY HeadTailProperties
  <1>2. Len(p) \in Nat /\ DOMAIN p = 1..Len(p) /\ DOMAIN Tail(p) = 1..Len(Tail(p))
    BY <1>1, LenProperties
  <1> DEFINE n == Len(p)
             m == Len(Tail(p))
  <1>3. \A k \in 1..m : k + 1 \in 1..n
    <2>1. n \in Nat /\ m = n - 1
      BY <1>1, <1>2
    <2> HIDE DEF n, m
    <2> QED  BY <2>1
  <1> QED  BY <1>1, <1>2, <1>3 DEF ToSet

\* So does taking a call off the batch.
LEMMA TailHonest ==
  ASSUME NEW s \in RunStates, Honest(s), s.calls # <<>>
  PROVE  Honest([s EXCEPT !.calls = Tail(@)])
  <1> DEFINE t == [s EXCEPT !.calls = Tail(@)]
  <1>1. /\ t.calls = Tail(s.calls) /\ t.ok = s.ok
        /\ t.done = s.done /\ t.facts = s.facts
    BY DEF RunStates
  <1>2. ToSet(Tail(s.calls)) \subseteq ToSet(s.calls)
    BY TailIsLess DEF RunStates
  <1> HIDE DEF t
  <1>3. Honest(t)
    BY <1>1, <1>2, HonestKept
  <1> QED  BY <1>3 DEF t

\* A new run, and the empty copy of an invocation that rests, are honest.
LEMMA RestHonest ==
  Honest(InitialState) /\ \A end : Honest(Rest(end).state)
  <1>1. /\ InitialState.ok = {} /\ InitialState.facts = {} /\ InitialState.calls = <<>>
        /\ \A end : Rest(end).state = InitialState
    BY DEF InitialState, Rest
  <1>2. ToSet(<<>>) = {}
    BY DEF ToSet
  <1> QED  BY <1>1, <1>2 DEF Honest, NoDelta

\* Saving an honest state keeps the invariant ...
LEMMA SaveHonest ==
  ASSUME TypeOK, HonestInv, NEW i \in Invocations, NEW s, NEW node,
         Honest(s), Save(i, s, node)
  PROVE  HonestInv'
  <1> DEFINE p == IF node = "END" THEN Rest("completed")
                  ELSE [at |-> node, state |-> s, answer |-> NoAnswer]
  <1>1. Honest(p.state)
    BY RestHonest
  <1>2. ckpt' = [state |-> s, next |-> node] /\ inv' = [inv EXCEPT ![i] = p]
    BY DEF Save
  <1>3. \A j \in Invocations : inv'[j] = IF j = i THEN p ELSE inv[j]
    BY <1>2 DEF TypeOK
  <1> HIDE DEF p
  <1> QED  BY <1>1, <1>2, <1>3 DEF HonestInv

\* ... and so does moving one invocation to an honest place.
LEMMA MoveHonest ==
  ASSUME TypeOK, HonestInv, NEW i \in Invocations, NEW p,
         inv' = [inv EXCEPT ![i] = p], UNCHANGED ckpt, Honest(p.state)
  PROVE  HonestInv'
  <1>1. \A j \in Invocations : inv'[j] = IF j = i THEN p ELSE inv[j]
    BY DEF TypeOK
  <1> QED  BY <1>1 DEF HonestInv

\* Taking the first call off the batch: it is one of the batch and registered.
LEMMA HeadCall ==
  ASSUME NEW s \in RunStates, s.calls # <<>>
  PROVE  Head(s.calls) \in Calls /\ Head(s.calls) \in ToSet(s.calls)
  <1>1. \A p \in Seq(Calls) : p # <<>> => Head(p) \in Calls /\ Head(p) \in ToSet(p)
    <2> SUFFICES ASSUME NEW p \in Seq(Calls), p # <<>>
                 PROVE  Head(p) \in Calls /\ Head(p) \in ToSet(p)
      OBVIOUS
    <2>1. Head(p) \in Calls
      OBVIOUS
    <2>2. Head(p) = p[1] /\ Len(p) \in Nat /\ Len(p) # 0 /\ DOMAIN p = 1..Len(p)
      BY EmptySeq, LenProperties
    <2>3. 1 \in DOMAIN p
      BY <2>2
    <2> QED  BY <2>1, <2>2, <2>3 DEF ToSet
  <1> QED  BY <1>1 DEF RunStates

\* Every step keeps every copy honest: one case per action.
LEMMA NextHonest == TypeOK /\ HonestInv /\ [MockNext]_vars => HonestInv'
  <1> SUFFICES ASSUME TypeOK, HonestInv, [MockNext]_vars PROVE HonestInv'
    OBVIOUS
  <1>a. ASSUME NEW i \in Invocations
        PROVE  /\ inv[i].state \in RunStates /\ Honest(inv[i].state)
               /\ inv[i] \in Places
    BY DEF TypeOK, Places, HonestInv
  <1>1. ASSUME NEW i \in Invocations, Start(i) PROVE HonestInv'
    <2>1. \A j \in Invocations : inv'[j].state = inv[j].state
      BY <1>1, <1>a DEF Start, TypeOK, Places
    <2>2. ckpt'.state = ckpt.state
      BY <1>1 DEF Start, TypeOK, Checkpoints
    <2> QED  BY <2>1, <2>2 DEF HonestInv
  <1>2. ASSUME NEW i \in Invocations, AgentFastExit(i) PROVE HonestInv'
    BY <1>2, <1>a, SaveHonest DEF AgentFastExit
  <1>3. ASSUME NEW i \in Invocations, AgentFastGate(i) PROVE HonestInv'
    <2> DEFINE p == Preview(inv[i].state)
               t == Present(p, FastGate(p))
               s == Log(t, 1)
    <2>1. p \in RunStates /\ Honest(p)
      BY <1>a, PreviewType, PreviewSame, SameHonest
    <2> HIDE DEF p
    <2>2. t \in RunStates /\ Honest(t)
      <3>1. FastGate(p) \in 0..5
        BY DueGateType DEF FastGate
      <3> QED  BY <2>1, <3>1, PresentType, PresentSame, SameHonest
    <2> HIDE DEF t
    <2>3. Honest(s)
      BY <2>2, LogSame, SameHonest
    <2>4. Save(i, s, RouteAfterAgent(s))
      BY <1>3 DEF AgentFastGate, p, t
    <2> HIDE DEF s
    <2> QED  BY <2>3, <2>4, SaveHonest
  <1>4. ASSUME NEW i \in Invocations, PlannerReply(i) PROVE HonestInv'
    <2> DEFINE p == Preview(inv[i].state)
    <2>1. PICK batch \in Batches, bad \in 0..MaxBad :
             batch \in {Plan(p), <<>>} /\ AgentReason(i, batch, bad)
      BY <1>4, ReplyAllowed
    <2>2. PICK fires \in Conditions(inv[i].state) :
             LET s == Reason(p, batch, bad, fires)
             IN  Save(i, s, RouteAfterAgent(s))
      BY <2>1 DEF AgentReason
    <2> DEFINE b == [p EXCEPT !.calls = batch]
               s == Reason(p, batch, bad, fires)
    <2>3. batch \in Seq(Calls) /\ bad \in Nat
      BY BatchType, ConstantsAssumption
    <2>4. p \in RunStates /\ Honest(p)
      BY <1>a, PreviewType, PreviewSame, SameHonest
    <2>5. Save(i, s, RouteAfterAgent(s))
      BY <2>2
    <2>6. batch = Plan(p) \/ batch = <<>>
      BY <2>1
    <2> HIDE DEF p
    <2>7. Honest(b)
      <3>1. b.calls = batch /\ b.ok = p.ok /\ b.done = p.done /\ b.facts = p.facts
        BY <2>4 DEF RunStates
      <3>2. ToSet(<<>>) = {}
        BY DEF ToSet
      <3> HIDE DEF b
      <3>3. CASE batch = Plan(p)
        BY <2>4, <3>1, <3>3, PlanHonest
      <3>4. CASE batch = <<>>
        BY <2>4, <3>1, <3>2, <3>4, HonestKept
      <3> QED  BY <2>6, <3>3, <3>4
    <2>8. Same(b, s)
      BY <2>3, <2>4, ReasonSame
    <2> HIDE DEF b, s
    <2> QED  BY <2>5, <2>7, <2>8, SameHonest, SaveHonest
  <1>5. ASSUME NEW i \in Invocations, RefuseTool(i) PROVE HonestInv'
    <2> DEFINE l == Log(inv[i].state, 1)
               r == Refused(l, Head(inv[i].state.calls))
               s == [r EXCEPT !.calls = Tail(@)]
               p == [inv[i] EXCEPT !.state = s]
    <2>1. l \in RunStates /\ Honest(l) /\ l.calls # <<>>
      <3>1. inv[i].state.calls # <<>>
        BY <1>5 DEF RefuseTool
      <3> QED  BY <1>a, <3>1, LogType, LogKeeps, LogSame, SameHonest
    <2>2. inv' = [inv EXCEPT ![i] = p] /\ UNCHANGED ckpt
      BY <1>5 DEF RefuseTool, TypeOK
    <2>3. p.state = s
      BY <1>a DEF Places
    <2> HIDE DEF p, l
    <2>4. r \in RunStates /\ Honest(r) /\ r.calls # <<>>
      BY <2>1, RefusedType, RefusedHonest DEF Refused, RunStates
    <2> HIDE DEF r
    <2>5. Honest(s)
      BY <2>4, TailHonest
    <2> HIDE DEF s
    <2> QED  BY <2>2, <2>3, <2>5, MoveHonest
  <1>6. ASSUME NEW i \in Invocations, RunTool(i) \/ MissTool(i) PROVE HonestInv'
    <2> DEFINE c == Head(inv[i].state.calls)
               l == Log(inv[i].state, 1)
    <2>1. PICK outcome \in {"plan", "error"}, long \in BOOLEAN :
             inv' = [inv EXCEPT ![i].state =
                       [Executed(l, c, outcome, long) EXCEPT !.calls = Tail(@)]]
      BY <1>6, ConstantsAssumption DEF RunTool, MissTool, Outcomes
    <2> DEFINE r == Executed(l, c, outcome, long)
               s == [r EXCEPT !.calls = Tail(@)]
               p == [inv[i] EXCEPT !.state = s]
    <2>2. /\ l \in RunStates /\ Honest(l) /\ l.calls # <<>>
          /\ c \in Calls /\ c \in ToSet(l.calls)
      <3>1. inv[i].state.calls # <<>>
        BY <1>6 DEF RunTool, MissTool
      <3>2. l \in RunStates /\ l.calls = inv[i].state.calls /\ Honest(l)
        BY <1>a, LogType, LogKeeps, LogSame, SameHonest
      <3> QED  BY <1>a, <3>1, <3>2, HeadCall
    <2>3. inv' = [inv EXCEPT ![i] = p] /\ UNCHANGED ckpt
      BY <1>6, <2>1 DEF RunTool, MissTool, TypeOK
    <2>4. p.state = s
      BY <1>a DEF Places
    <2> HIDE DEF p, l, c
    <2>5. r \in RunStates /\ Honest(r) /\ r.calls # <<>>
      BY <2>2, ExecutedType, ExecutedKeepsCalls, ExecutedHonest
    <2> HIDE DEF r
    <2>6. Honest(s)
      BY <2>5, TailHonest
    <2> HIDE DEF s
    <2> QED  BY <2>3, <2>4, <2>6, MoveHonest
  <1>7. ASSUME NEW i \in Invocations, FinishTools(i) PROVE HonestInv'
    <2>1. PICK fires \in Conditions(inv[i].state) :
             Save(i, AfterTools(inv[i].state, fires), "agent")
      BY <1>7 DEF FinishTools
    <2> DEFINE b == [inv[i].state EXCEPT !.calls = <<>>]
    <2>2. Honest(b)
      <3>1. /\ b.calls = <<>> /\ b.ok = inv[i].state.ok
            /\ b.done = inv[i].state.done /\ b.facts = inv[i].state.facts
        BY <1>a DEF RunStates
      <3>2. ToSet(<<>>) = {}
        BY DEF ToSet
      <3> HIDE DEF b
      <3> QED  BY <1>a, <3>1, <3>2, HonestKept
    <2>3. Same(b, AfterTools(inv[i].state, fires))
      BY <1>a, AfterToolsSame
    <2> HIDE DEF b
    <2> QED  BY <2>1, <2>2, <2>3, SameHonest, SaveHonest
  <1>8. ASSUME NEW i \in Invocations, HitlPass(i) PROVE HonestInv'
    BY <1>8, <1>a, SaveHonest DEF HitlPass
  <1>9. ASSUME NEW i \in Invocations, HitlPause(i) PROVE HonestInv'
    BY <1>9, RestHonest, MoveHonest DEF HitlPause
  <1>10. ASSUME NEW i \in Invocations, HitlResume(i) PROVE HonestInv'
    <2>1. PICK outcome \in {"invalid"} \union ReplanOutcomes :
             Save(i, Handle(inv[i].state, inv[i].answer, outcome), "agent")
      BY <1>10 DEF HitlResume
    <2>2. outcome \in {"invalid", "plan", "error"}
      BY DEF ReplanOutcomes, Outcomes
    <2>3. Honest(Handle(inv[i].state, inv[i].answer, outcome))
      BY <1>10, <1>a, <2>2, HandleSame, SameHonest DEF HitlResume
    <2> QED  BY <2>1, <2>3, SaveHonest
  <1>11. ASSUME NEW i \in Invocations, MonitorStep(i) PROVE HonestInv'
    <2>1. PICK conflict \in Conflicts, outcome \in ReplanOutcomes,
               fires \in Conditions(inv[i].state) :
             LET s == Monitored(inv[i].state, conflict, outcome, fires)
             IN  Save(i, s, RouteAfterMonitor(s))
      BY <1>11 DEF MonitorStep
    <2> DEFINE s == Monitored(inv[i].state, conflict, outcome, fires)
    <2>2. Honest(s)
      BY <1>a, MonitoredSame, SameHonest
    <2>3. Save(i, s, RouteAfterMonitor(s))
      BY <2>1
    <2> HIDE DEF s
    <2> QED  BY <2>2, <2>3, SaveHonest
  <1>12. ASSUME NEW i \in Invocations, NEW answer \in Answers, Respond(i, answer)
         PROVE  HonestInv'
    <2> DEFINE p == [at |-> ckpt.next, state |-> ckpt.state,
                     answer |-> IF ckpt.next = "hitl" THEN answer ELSE NoAnswer]
    <2>1. inv' = [inv EXCEPT ![i] = p] /\ UNCHANGED ckpt
      BY <1>12 DEF Respond
    <2>2. Honest(p.state)
      BY DEF HonestInv
    <2> HIDE DEF p
    <2> QED  BY <2>1, <2>2, MoveHonest
  <1>13. ASSUME NEW i \in Invocations, Abort(i) PROVE HonestInv'
    BY <1>13, RestHonest, MoveHonest DEF Abort
  <1>14. ASSUME Tick PROVE HonestInv'
    <2>1. \A s \in RunStates : Same(s, [s EXCEPT !.entered = "old"])
      BY DEF RunStates, Same
    <2>2. /\ ckpt.state \in RunStates
          /\ ckpt'.state = [ckpt.state EXCEPT !.entered = "old"]
      BY <1>14 DEF Tick, TypeOK, Checkpoints
    <2>3. ASSUME NEW i \in Invocations
          PROVE  inv'[i].state \in {inv[i].state, [inv[i].state EXCEPT !.entered = "old"]}
      BY <1>14, <1>a DEF Tick, Places
    <2>4. ASSUME NEW i \in Invocations PROVE Honest(inv'[i].state)
      BY <1>a, <2>1, <2>3, SameHonest
    <2>5. Honest(ckpt'.state)
      BY <2>1, <2>2, SameHonest DEF HonestInv
    <2> QED  BY <2>4, <2>5 DEF HonestInv
  <1>15. CASE UNCHANGED vars
    BY <1>15 DEF vars, HonestInv
  <1> QED
    BY <1>1, <1>2, <1>3, <1>4, <1>5, <1>6, <1>7, <1>8, <1>9, <1>10, <1>11, <1>12,
       <1>13, <1>14, <1>15 DEF MockNext, MockWork, Step

\* Every copy of the run state stays honest, however invocations race or are
\* cut short.
THEOREM CopiesStayHonest == MockSpec => []HonestInv
  <1>1. Init => HonestInv
    BY RestHonest DEF Init, HonestInv
  <1>2. TypeOK /\ HonestInv /\ [MockNext]_vars => HonestInv'
    BY NextHonest
  <1> QED  BY <1>1, <1>2, MockIsAPlanner, TypeCorrect, PTL DEF MockSpec

\* No party is told of a dispatch, a hold or a loading sequence that the run
\* does not have (the notices of mock_provider.py, the shortcuts of tool_node).
THEOREM PartiesToldTheTruth == MockSpec => []NoticesAreTrue
  <1>1. HonestInv => NoticesAreTrue
    <2> SUFFICES ASSUME HonestInv, NEW s \in Copies
                 PROVE  /\ "notified_dispatch" \in s.facts => "dispatched" \in s.done
                        /\ "notified_hold" \in s.facts => "held" \in s.done
                        /\ "notified_tuas" \in s.facts => "updated" \in s.done
      BY DEF NoticesAreTrue
    <2>1. Honest(s)
      BY DEF HonestInv, Copies
    <2> QED  BY <2>1 DEF Honest, Notices, Notified, Behind
  <1> QED  BY <1>1, CopiesStayHonest, PTL

\* The second half of the demo story never happens under this planner: the
\* emergency plan that HITL-5 approves is not dispatched and the loading
\* sequence not updated for it, because mock_provider.py:196 and 257 look for
\* context.deviation_log, which no node writes.
THEOREM EmergencyPlanNotCarriedOut == MockSpec => [](\A s \in Copies : NoDelta(s))
  <1>1. HonestInv => \A s \in Copies : NoDelta(s)
    BY DEF HonestInv, Copies, Honest
  <1> QED  BY <1>1, CopiesStayHonest, PTL
-----------------------------------------------------------------------------
(***************************************************************************)
(* Part 4.  Trucks are sent at most once, as long as one invocation at a   *)
(* time runs and none is cut short.  Inductively: once something was sent, *)
(* every copy that can still be worked on has a dispatch among its results,*)
(* so the planner asks for none; and a dispatch is in a batch of its own,  *)
(* which is why one reply cannot ask twice.  The checkpoint lags behind    *)
(* the copy while the tools run, and only then.                            *)
(***************************************************************************)

Single(s, n) ==
    /\ n <= 1
    /\ n > 0 => s.ok \intersect Dispatches # {}
    /\ \A c \in Dispatches :
          c \in ToSet(s.calls) => s.calls = <<c>> /\ s.ok \intersect Dispatches = {}

SingleInv ==
    \A i \in Invocations :
       /\ ckpt.next = "START" => /\ sent = 0 /\ ckpt.state = InitialState
                                 /\ inv[i].state = InitialState /\ inv[i].at = "idle"
       /\ inv[i].at \in Nodes => Single(inv[i].state, sent)
       /\ inv[i].at # "tools" => Single(ckpt.state, sent)

\* Sameness keeps it.
LEMMA SameSingle ==
  ASSUME NEW s, NEW t, NEW n, Single(s, n), Same(s, t)
  PROVE  Single(t, n)
  BY DEF Same, Single

\* A batch that is empty asks for nothing.
LEMMA EmptySingle ==
  ASSUME NEW s, NEW t, NEW n, Single(s, n), t.calls = <<>>, t.ok = s.ok
  PROVE  Single(t, n)
  <1>1. ToSet(<<>>) = {}
    BY DEF ToSet
  <1> QED  BY <1>1 DEF Single

\* Nothing was sent and nothing asked in a new run.
LEMMA InitialSingle == Single(InitialState, 0)
  <1>1. InitialState.calls = <<>> /\ ToSet(<<>>) = {}
    BY DEF InitialState, ToSet
  <1> QED  BY <1>1 DEF Single

\* The planner asks for a dispatch alone, and only when none succeeded.
LEMMA PlanSingle ==
  ASSUME NEW s \in RunStates, Honest(s), NEW n, Single(s, n),
         NEW t, t.calls = Plan(s), t.ok = s.ok
  PROVE  Single(t, n)
  <1>1. ASSUME NEW c \in Dispatches, c \in ToSet(Plan(s))
        PROVE  Plan(s) = <<c>> /\ s.ok \intersect Dispatches = {}
    <2>1. Plan(s) = <<c>>
      BY <1>1, PlanType
    <2>2. Wanted(s, c)
      <3>1. ToSet(Plan(s)) \subseteq WantedCalls(s)
        BY PlanType, ToSetOfSeq
      <3> QED  BY <1>1, <3>1 DEF WantedCalls
    <2>3. c = "dispatch" \/ c = "dispatch_delta"
      BY DEF Dispatches
    <2>4. ~Dispatched(s)
      BY <2>2, <2>3 DEF Wanted, Honest, NoDelta
    <2> QED  BY <2>1, <2>4, SucceededBy
  <1> QED  BY <1>1 DEF Single

\* A batch of one call has that head and nothing behind it.
LEMMA Alone1 ==
  ASSUME NEW c
  PROVE  Head(<<c>>) = c /\ Tail(<<c>>) = <<>>
  OBVIOUS

\* A call at the head of the batch: either it is a dispatch and stands alone,
\* or no dispatch is behind it either.
LEMMA HeadSingle ==
  ASSUME NEW s \in RunStates, s.calls # <<>>, NEW n, Single(s, n)
  PROVE  /\ Head(s.calls) \in Dispatches =>
               Tail(s.calls) = <<>> /\ s.ok \intersect Dispatches = {}
         /\ Head(s.calls) \notin Dispatches =>
               \A c \in Dispatches : c \notin ToSet(Tail(s.calls))
  <1>1. Head(s.calls) \in ToSet(s.calls)
    BY HeadCall
  <1>2. ToSet(Tail(s.calls)) \subseteq ToSet(s.calls)
    BY TailIsLess DEF RunStates
  <1>3. ASSUME NEW c \in Dispatches, c \in ToSet(s.calls)
        PROVE  Head(s.calls) = c /\ Tail(s.calls) = <<>> /\ s.ok \intersect Dispatches = {}
    BY <1>3, Alone1 DEF Single
  <1> QED  BY <1>1, <1>2, <1>3

\* A refused call was not among the results that count.
LEMMA RefusedSingle ==
  ASSUME NEW s \in RunStates, s.calls # <<>>, NEW n \in Nat, Single(s, n),
         NEW t, t.calls = Tail(s.calls), t.ok = s.ok \ {Head(s.calls)}
  PROVE  Single(t, n)
  <1>1. ToSet(<<>>) = {}
    BY DEF ToSet
  <1> QED  BY <1>1, HeadSingle DEF Single

\* A dispatch that succeeds is the first; one that fails leaves none sent.
LEMMA ExecutedSingle ==
  ASSUME NEW s \in RunStates, s.calls # <<>>, NEW n \in Nat, Single(s, n),
         NEW outcome, NEW t, t.calls = Tail(s.calls),
         t.ok = IF outcome = "plan" THEN s.ok \union {Head(s.calls)}
                ELSE s.ok \ {Head(s.calls)},
         NEW m, m = IF Head(s.calls) \in Dispatches /\ outcome = "plan" /\ n < 2
                    THEN n + 1 ELSE n
  PROVE  Single(t, m)
  <1>1. ToSet(<<>>) = {}
    BY DEF ToSet
  <1>2. CASE Head(s.calls) \in Dispatches
    <2>1. /\ t.calls = <<>> /\ s.ok \intersect Dispatches = {} /\ n = 0
      <3>1. t.calls = <<>> /\ s.ok \intersect Dispatches = {}
        BY <1>2, HeadSingle
      <3>2. ~(n > 0)
        BY <3>1 DEF Single
      <3>3. n = 0
        BY <3>2
      <3> QED  BY <3>1, <3>3
    <2>2. CASE outcome = "plan"
      <3>1. m = 1 /\ Head(s.calls) \in t.ok
        BY <1>2, <2>1, <2>2
      <3> QED  BY <1>1, <1>2, <2>1, <3>1 DEF Single
    <2>3. CASE outcome # "plan"
      <3>1. m = 0
        BY <2>1, <2>3
      <3> QED  BY <1>1, <2>1, <3>1 DEF Single
    <2> QED  BY <2>2, <2>3
  <1>3. CASE Head(s.calls) \notin Dispatches
    <2>1. m = n /\ t.ok \intersect Dispatches = s.ok \intersect Dispatches
      BY <1>3
    <2> QED  BY <1>3, <2>1, HeadSingle DEF Single
  <1> QED  BY <1>2, <1>3

\* Saving such a state keeps the invariant of a thread with one invocation.
LEMMA SaveSingle ==
  ASSUME TypeOK, NEW i \in Invocations, \A j \in Invocations : j = i,
         NEW s, NEW node \in Nodes \union {"END"}, Single(s, sent),
         Save(i, s, node), UNCHANGED sent
  PROVE  SingleInv'
  <1> DEFINE p == IF node = "END" THEN Rest("completed")
                  ELSE [at |-> node, state |-> s, answer |-> NoAnswer]
  <1>1. p.at \in Nodes => p.state = s
    BY DEF Rest, Nodes
  <1>2. ckpt' = [state |-> s, next |-> node] /\ inv' = [inv EXCEPT ![i] = p]
    BY DEF Save
  <1>3. inv'[i] = p
    BY <1>2 DEF TypeOK
  <1>4. ckpt'.next # "START" /\ ckpt'.state = s
    BY <1>2 DEF Nodes
  <1> HIDE DEF p
  <1> QED  BY <1>1, <1>3, <1>4 DEF SingleInv

\* Every step keeps it when one invocation runs at a time and is not cut short.
LEMMA NextSingle ==
  ASSUME MayAbort = FALSE, \A i, j \in Invocations : i = j
  PROVE  TypeOK /\ HonestInv /\ SingleInv /\ [MockNext]_vars => SingleInv'
  <1> SUFFICES ASSUME TypeOK, HonestInv, SingleInv, [MockNext]_vars PROVE SingleInv'
    OBVIOUS
  <1>a. ASSUME NEW i \in Invocations
        PROVE  /\ inv[i].state \in RunStates /\ Honest(inv[i].state)
               /\ inv[i] \in Places /\ inv[i].at \notin {"tools"} \intersect Ends
               /\ inv[i].at \in Nodes => Single(inv[i].state, sent)
               /\ inv[i].at # "tools" => Single(ckpt.state, sent)
               /\ \A j \in Invocations : j = i
    BY DEF TypeOK, Places, HonestInv, SingleInv, Ends
  <1>b. {"agent", "tools", "hitl", "monitor"} \subseteq Nodes /\ sent \in Nat
    BY DEF Nodes, TypeOK
  <1>1. ASSUME NEW i \in Invocations, Start(i) PROVE SingleInv'
    <2>1. inv'[i].state = InitialState /\ inv'[i].at = "agent" /\ sent = 0
      BY <1>1, <1>a DEF Start, TypeOK, Places, SingleInv
    <2>2. ckpt'.state = InitialState /\ ckpt'.next = "agent" /\ sent' = 0
      BY <1>1, <2>1 DEF Start, TypeOK, Checkpoints, SingleInv
    <2> QED  BY <1>a, <2>1, <2>2, InitialSingle DEF SingleInv
  <1>2. ASSUME NEW i \in Invocations, AgentFastExit(i) PROVE SingleInv'
    BY <1>2, <1>a, <1>b, RouteType, SaveSingle DEF AgentFastExit, At
  <1>3. ASSUME NEW i \in Invocations, AgentFastGate(i) PROVE SingleInv'
    <2> DEFINE p == Preview(inv[i].state)
               t == Present(p, FastGate(p))
               s == Log(t, 1)
    <2>1. Single(inv[i].state, sent)
      BY <1>3, <1>a, <1>b DEF AgentFastGate, At
    <2>2. p \in RunStates /\ Single(p, sent)
      BY <1>a, <2>1, PreviewType, PreviewSame, SameSingle
    <2> HIDE DEF p
    <2>3. t \in RunStates /\ Single(t, sent)
      <3>1. FastGate(p) \in 0..5
        BY DueGateType DEF FastGate
      <3> QED  BY <2>2, <3>1, PresentType, PresentSame, SameSingle
    <2> HIDE DEF t
    <2>4. Single(s, sent)
      BY <2>3, LogSame, SameSingle
    <2>5. Save(i, s, RouteAfterAgent(s)) /\ UNCHANGED sent
      BY <1>3 DEF AgentFastGate, p, t
    <2> HIDE DEF s
    <2> QED  BY <1>a, <2>4, <2>5, RouteType, SaveSingle
  <1>4. ASSUME NEW i \in Invocations, PlannerReply(i) PROVE SingleInv'
    <2> DEFINE p == Preview(inv[i].state)
    <2>1. PICK batch \in Batches, bad \in 0..MaxBad :
             batch \in {Plan(p), <<>>} /\ AgentReason(i, batch, bad)
      BY <1>4, ReplyAllowed
    <2>2. PICK fires \in Conditions(inv[i].state) :
             LET s == Reason(p, batch, bad, fires)
             IN  Save(i, s, RouteAfterAgent(s))
      BY <2>1 DEF AgentReason
    <2> DEFINE b == [p EXCEPT !.calls = batch]
               s == Reason(p, batch, bad, fires)
    <2>3. batch \in Seq(Calls) /\ bad \in Nat
      BY BatchType, ConstantsAssumption
    <2>4. Single(inv[i].state, sent) /\ UNCHANGED sent
      BY <2>1, <1>a, <1>b DEF AgentReason, At
    <2>5. p \in RunStates /\ Honest(p) /\ Single(p, sent)
      BY <1>a, <2>4, PreviewType, PreviewSame, SameHonest, SameSingle
    <2>6. Save(i, s, RouteAfterAgent(s))
      BY <2>2
    <2>7. batch = Plan(p) \/ batch = <<>>
      BY <2>1
    <2> HIDE DEF p
    <2>8. Single(b, sent)
      <3>1. b.calls = batch /\ b.ok = p.ok
        BY <2>5 DEF RunStates
      <3> HIDE DEF b
      <3> QED  BY <2>5, <2>7, <3>1, PlanSingle, EmptySingle
    <2>9. Same(b, s)
      BY <2>3, <2>5, ReasonSame
    <2> HIDE DEF b, s
    <2>10. Single(s, sent)
      BY <2>8, <2>9, SameSingle
    <2> QED  BY <1>a, <2>4, <2>6, <2>10, RouteType, SaveSingle
  <1>5. ASSUME NEW i \in Invocations, RefuseTool(i) PROVE SingleInv'
    <2> DEFINE s == inv[i].state
               l == Log(s, 1)
               t == [Refused(l, Head(s.calls)) EXCEPT !.calls = Tail(@)]
    <2>1. inv[i].at = "tools" /\ s.calls # <<>> /\ Single(s, sent) /\ sent' = sent
      BY <1>5, <1>a, <1>b DEF RefuseTool, At
    <2>2. l \in RunStates /\ l.calls = s.calls /\ l.ok = s.ok
      BY <1>a, LogType, LogSame DEF Same
    <2>3. t.calls = Tail(s.calls) /\ t.ok = s.ok \ {Head(s.calls)}
      BY <2>2 DEF Refused, RunStates
    <2>4. inv'[i].state = t /\ inv'[i].at = "tools" /\ ckpt' = ckpt
      BY <1>5, <1>a, <2>1 DEF RefuseTool, TypeOK, Places
    <2> HIDE DEF t
    <2>5. Single(t, sent)
      BY <1>a, <1>b, <2>1, <2>3, RefusedSingle
    <2> QED  BY <1>a, <2>1, <2>4, <2>5 DEF SingleInv
  <1>6. ASSUME NEW i \in Invocations, RunTool(i) \/ MissTool(i) PROVE SingleInv'
    <2> DEFINE s == inv[i].state
               c == Head(s.calls)
               l == Log(s, 1)
    <2>1. PICK outcome \in {"plan", "error"}, long \in BOOLEAN :
             /\ inv' = [inv EXCEPT ![i].state =
                          [Executed(l, c, outcome, long) EXCEPT !.calls = Tail(@)]]
             /\ sent' = IF c \in Dispatches /\ outcome = "plan" /\ sent < 2
                        THEN sent + 1 ELSE sent
      BY <1>6, ConstantsAssumption DEF RunTool, MissTool, Outcomes
    <2> DEFINE r == Executed(l, c, outcome, long)
               t == [r EXCEPT !.calls = Tail(@)]
    <2>2. inv[i].at = "tools" /\ s.calls # <<>> /\ Single(s, sent) /\ ckpt' = ckpt
      BY <1>6, <1>a, <1>b DEF RunTool, MissTool, At
    <2>3. l \in RunStates /\ l.calls = s.calls /\ l.ok = s.ok
      BY <1>a, LogType, LogSame DEF Same
    <2>4. /\ r.calls = s.calls
          /\ r.ok = IF outcome = "plan" THEN s.ok \union {c} ELSE s.ok \ {c}
      BY <2>3 DEF Executed, Recompute, RunStates
    <2>5. inv'[i].state = t /\ inv'[i].at = "tools"
      BY <1>a, <2>1, <2>2 DEF TypeOK, Places
    <2>6. r \in RunStates
      <3>1. c \in Calls
        BY <1>a, <2>2, HeadCall
      <3> HIDE DEF c, l
      <3> QED  BY <2>3, <3>1, ExecutedType
    <2> HIDE DEF r
    <2>7. t.calls = Tail(s.calls) /\ t.ok = r.ok
      BY <2>4, <2>6 DEF RunStates
    <2> HIDE DEF t
    <2>8. Single(t, sent')
      BY <1>a, <1>b, <2>1, <2>2, <2>4, <2>7, ExecutedSingle
    <2> QED  BY <1>a, <2>2, <2>5, <2>8 DEF SingleInv
  <1>7. ASSUME NEW i \in Invocations, FinishTools(i) PROVE SingleInv'
    <2>1. PICK fires \in Conditions(inv[i].state) :
             Save(i, AfterTools(inv[i].state, fires), "agent")
      BY <1>7 DEF FinishTools
    <2> DEFINE b == [inv[i].state EXCEPT !.calls = <<>>]
               s == AfterTools(inv[i].state, fires)
    <2>2. Single(inv[i].state, sent) /\ UNCHANGED sent
      BY <1>7, <1>a, <1>b DEF FinishTools, At
    <2>3. Single(b, sent)
      <3>1. b.calls = <<>> /\ b.ok = inv[i].state.ok
        BY <1>a DEF RunStates
      <3> HIDE DEF b
      <3> QED  BY <2>2, <3>1, EmptySingle
    <2>4. Same(b, s)
      BY <1>a, AfterToolsSame
    <2>5. Save(i, s, "agent")
      BY <2>1
    <2> HIDE DEF b, s
    <2>6. Single(s, sent)
      BY <2>3, <2>4, SameSingle
    <2> QED  BY <1>a, <1>b, <2>2, <2>5, <2>6, SaveSingle
  <1>8. ASSUME NEW i \in Invocations, HitlPass(i) PROVE SingleInv'
    BY <1>8, <1>a, <1>b, SaveSingle DEF HitlPass, At
  <1>9. ASSUME NEW i \in Invocations, HitlPause(i) PROVE SingleInv'
    <2>1. /\ inv[i].at = "hitl" /\ inv'[i].at = "waiting_hitl"
          /\ ckpt' = ckpt /\ sent' = sent
      BY <1>9 DEF HitlPause, At, Rest, TypeOK
    <2>2. "waiting_hitl" \notin Nodes
      BY DEF Nodes
    <2>3. ckpt.next # "START" /\ Single(ckpt.state, sent)
      BY <2>1 DEF SingleInv
    <2> QED  BY <1>a, <2>1, <2>2, <2>3 DEF SingleInv
  <1>10. ASSUME NEW i \in Invocations, HitlResume(i) PROVE SingleInv'
    <2>1. PICK outcome \in {"invalid"} \union ReplanOutcomes :
             Save(i, Handle(inv[i].state, inv[i].answer, outcome), "agent")
      BY <1>10 DEF HitlResume
    <2>2. outcome \in {"invalid", "plan", "error"}
      BY DEF ReplanOutcomes, Outcomes
    <2>3. Single(inv[i].state, sent) /\ UNCHANGED sent /\ inv[i].state.pending # 0
      BY <1>10, <1>a, <1>b DEF HitlResume, At
    <2>4. Single(Handle(inv[i].state, inv[i].answer, outcome), sent)
      BY <1>a, <2>2, <2>3, HandleSame, SameSingle
    <2> QED  BY <1>a, <1>b, <2>1, <2>3, <2>4, SaveSingle
  <1>11. ASSUME NEW i \in Invocations, MonitorStep(i) PROVE SingleInv'
    <2>1. PICK conflict \in Conflicts, outcome \in ReplanOutcomes,
               fires \in Conditions(inv[i].state) :
             LET s == Monitored(inv[i].state, conflict, outcome, fires)
             IN  Save(i, s, RouteAfterMonitor(s))
      BY <1>11 DEF MonitorStep
    <2> DEFINE s == Monitored(inv[i].state, conflict, outcome, fires)
    <2>2. Single(inv[i].state, sent) /\ UNCHANGED sent
      BY <1>11, <1>a, <1>b DEF MonitorStep, At
    <2>3. Single(s, sent)
      BY <1>a, <2>2, MonitoredSame, SameSingle
    <2>4. Save(i, s, RouteAfterMonitor(s))
      BY <2>1
    <2> HIDE DEF s
    <2> QED  BY <1>a, <2>2, <2>3, <2>4, RouteType, SaveSingle
  <1>12. ASSUME NEW i \in Invocations, NEW answer \in Answers, Respond(i, answer)
         PROVE  SingleInv'
    <2>1. /\ inv[i].at \in Ends /\ ckpt.next \in Nodes
          /\ ckpt' = ckpt /\ sent' = sent
          /\ inv'[i].state = ckpt.state
      BY <1>12 DEF Respond, Resting, TypeOK
    <2>2. inv[i].at # "tools" /\ ckpt.next # "START"
      BY <2>1 DEF Ends, Nodes
    <2>3. Single(ckpt.state, sent)
      BY <1>a, <2>2
    <2> QED  BY <1>a, <2>1, <2>2, <2>3 DEF SingleInv
  <1>13. ASSUME NEW i \in Invocations, Abort(i) PROVE SingleInv'
    BY <1>13 DEF Abort
  <1>14. ASSUME Tick PROVE SingleInv'
    <2>1. /\ \A s \in RunStates : Same(s, [s EXCEPT !.entered = "old"])
      BY DEF RunStates, Same
    <2>2. /\ ckpt.state \in RunStates /\ ckpt.state.entered = "fresh"
          /\ ckpt'.state = [ckpt.state EXCEPT !.entered = "old"]
          /\ ckpt'.next = ckpt.next /\ sent' = sent
      BY <1>14 DEF Tick, TypeOK, Checkpoints
    <2>3. ASSUME NEW i \in Invocations
          PROVE  /\ inv'[i].at = inv[i].at
                 /\ inv'[i].state \in {inv[i].state, [inv[i].state EXCEPT !.entered = "old"]}
      BY <1>14, <1>a DEF Tick, Places
    <2>4. ckpt.next = "START" => Invocations = {}
      <3>1. InitialState.entered # "fresh"
        BY DEF InitialState
      <3> QED  BY <2>2, <3>1 DEF SingleInv
    <2>5. ASSUME NEW i \in Invocations, inv[i].at \in Nodes
          PROVE  Single(inv'[i].state, sent)
      BY <1>a, <2>1, <2>3, <2>5, SameSingle
    <2>6. ASSUME NEW i \in Invocations, inv[i].at # "tools"
          PROVE  Single(ckpt'.state, sent)
      BY <1>a, <2>1, <2>2, <2>6, SameSingle
    <2> QED  BY <2>2, <2>3, <2>4, <2>5, <2>6 DEF SingleInv
  <1>15. CASE UNCHANGED vars
    BY <1>15 DEF vars, SingleInv
  <1> QED
    BY <1>1, <1>2, <1>3, <1>4, <1>5, <1>6, <1>7, <1>8, <1>9, <1>10, <1>11, <1>12,
       <1>13, <1>14, <1>15 DEF MockNext, MockWork, Step

\* One invocation at a time that is not cut short sends the trucks at most
\* once, whatever gates are rejected, modified, timed out or answered late and
\* whichever tools fail (mock_provider.py:122-179, tool_node).
THEOREM TrucksSentOnce ==
  ASSUME MayAbort = FALSE, NEW only, Invocations = {only}
  PROVE  MockSpec => []DispatchedOnce
  <1>1. Init => SingleInv
    <2> SUFFICES ASSUME Init PROVE SingleInv
      OBVIOUS
    <2>1. ASSUME NEW i \in Invocations
          PROVE  inv[i].state = InitialState /\ inv[i].at = "idle"
      BY DEF Init, Rest
    <2>2. "idle" \notin Nodes
      BY DEF Nodes
    <2> QED  BY <2>1, <2>2, InitialSingle DEF Init, SingleInv
  <1>2. TypeOK /\ HonestInv /\ SingleInv /\ [MockNext]_vars => SingleInv'
    <2>1. \A i, j \in Invocations : i = j
      OBVIOUS
    <2> QED  BY <2>1, NextSingle
  <1>3. SingleInv => DispatchedOnce
    BY DEF SingleInv, Single, Nodes, DispatchedOnce
  <1> QED  BY <1>1, <1>2, <1>3, MockIsAPlanner, TypeCorrect, CopiesStayHonest, PTL
           DEF MockSpec
=============================================================================
