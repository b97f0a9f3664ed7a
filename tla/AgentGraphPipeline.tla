------------------------- MODULE AgentGraphPipeline -------------------------
(***************************************************************************)
(* A thread whose answers are handled one at a time implements             *)
(* GatePipeline, whatever the planner asks for and wherever invocations    *)
(* are cut short.  With two invocations under way the theorem is false: an *)
(* invocation that saves an older copy takes back what the other one did.  *)
(***************************************************************************)
EXTENDS AgentGraphProofs

\* A step that decides no gate and takes no action; it may escalate.
Quiet(s, t) ==
    /\ t.approved = s.approved
    /\ t.deviated = s.deviated
    /\ t.done = s.done
    /\ s.esc => t.esc

\* A step that passes gate g, and no more.
Passes(s, t, g) ==
    /\ t.approved = s.approved \union {g}
    /\ t.deviated = s.deviated
    /\ t.done = s.done
    /\ t.esc = IF g = 5 THEN FALSE ELSE s.esc

\* Copy t is checkpoint s and perhaps some tool calls more.
Ahead(s, t) ==
    /\ t.approved = s.approved
    /\ t.deviated = s.deviated
    /\ t.esc = s.esc
    /\ s.done \subseteq t.done

\* The tools node is the only one whose copy runs ahead of the checkpoint.
CopiesFollow ==
    \A i \in Invocations :
        /\ inv[i].at \in Nodes =>
              /\ ckpt.next # "START"
              /\ Ahead(ckpt.state, inv[i].state)
              /\ inv[i].at # "tools" => Ahead(inv[i].state, ckpt.state)
        /\ ckpt.next = "START" => /\ Ahead(ckpt.state, inv[i].state)
                                  /\ Ahead(inv[i].state, ckpt.state)

\* Steps that agree are quiet, and quiet steps compose.
LEMMA AgreesQuiet ==
  ASSUME NEW s, NEW t, Agrees(s, t)
  PROVE  Quiet(s, t)
  BY DEF Agrees, Quiet

\* Quietness is transitive.
LEMMA QuietTrans ==
  ASSUME NEW s, NEW t, NEW u, Quiet(s, t), Quiet(t, u)
  PROVE  Quiet(s, u)
  BY DEF Quiet

\* Presenting a gate decides nothing.
LEMMA PresentQuiet ==
  ASSUME NEW s \in RunStates, NEW g
  PROVE  Quiet(s, Present(s, g))
  BY DEF Quiet, Present, RunStates

\* Nor do the escalation checks.
LEMMA EscalateQuiet ==
  ASSUME NEW s \in RunStates, NEW fires
  PROVE  Quiet(s, Escalate(s, fires))
  <1> DEFINE d == [s EXCEPT !.deferred = Deferred(s, fires)]
  <1>1. d \in RunStates
    <2>1. Deferred(s, fires) \in SUBSET Triggers
      BY ConstantsAssumption DEF Deferred, RunStates
    <2> QED  BY <2>1 DEF RunStates
  <1>2. Quiet(s, d)
    BY DEF Quiet, RunStates
  <1> HIDE DEF d
  <1>3. Quiet(d, Raise(d)) /\ Raise(d) \in RunStates
    BY <1>1, RaiseType DEF Quiet, Raise, RunStates
  <1>4. Quiet(Raise(d), Log(Raise(d), 1))
    BY <1>3, LogAgrees, AgreesQuiet
  <1>5. Quiet(s, Log(Raise(d), 1))
    BY <1>2, <1>3, <1>4, QuietTrans
  <1> QED  BY <1>2, <1>5 DEF Escalate, d

\* Nor does the whole reasoning pass.
LEMMA ReasonQuiet ==
  ASSUME NEW s \in RunStates, NEW batch \in Seq(Calls), NEW bad \in Nat, NEW fires
  PROVE  Quiet(s, Reason(s, batch, bad, fires))
  <1> DEFINE r == Reply(s, batch, bad)
             e == Escalate(r, fires)
  <1>1. r \in RunStates /\ Quiet(s, r)
    BY ReplyType, ReplyAgrees, AgreesQuiet
  <1> HIDE DEF r
  <1>2. e \in RunStates /\ Quiet(s, e)
    BY <1>1, EscalateType, EscalateQuiet, QuietTrans
  <1> HIDE DEF e
  <1>3. Quiet(e, GateAfterReply(e))
    BY <1>2, PresentQuiet DEF GateAfterReply, Quiet
  <1>4. Quiet(s, GateAfterReply(e))
    BY <1>2, <1>3, QuietTrans
  <1> QED  BY <1>1, <1>4 DEF Reason, r, e

\* Nor does the end of tool_node.
LEMMA AfterToolsQuiet ==
  ASSUME NEW s \in RunStates, NEW fires
  PROVE  Quiet(s, AfterTools(s, fires))
  <1> DEFINE t == [s EXCEPT !.calls = <<>>, !.status = "running"]
             e == Escalate(t, fires)
  <1>1. t \in RunStates
    <2>1. <<>> \in Seq(Calls)
      OBVIOUS
    <2> QED  BY <2>1, Values DEF RunStates
  <1>2. Quiet(s, t)
    BY DEF Quiet, RunStates
  <1> HIDE DEF t
  <1>3. e \in RunStates /\ Quiet(s, e)
    BY <1>1, <1>2, EscalateType, EscalateQuiet, QuietTrans
  <1> HIDE DEF e
  <1>4. Quiet(s, Present(e, 4))
    BY <1>3, PresentQuiet, QuietTrans
  <1> QED  BY <1>3, <1>4 DEF AfterTools, e, t

\* A tool call takes the copy further ahead of the checkpoint.
LEMMA ExecutedAhead ==
  ASSUME NEW s \in RunStates, NEW c, NEW outcome, NEW long
  PROVE  Ahead(s, Executed(s, c, outcome, long))
  <1> DEFINE t == Executed(s, c, outcome, long)
  <1>1. t.esc = s.esc /\ t.approved = s.approved /\ t.deviated = s.deviated
    BY DEF Executed, Recompute, RunStates
  <1>2. t.done = IF outcome = "plan" THEN s.done \union Deed(c) ELSE s.done
    BY DEF Executed, Recompute, RunStates
  <1> HIDE DEF t
  <1>3. Ahead(s, t)
    BY <1>1, <1>2 DEF Ahead
  <1> QED  BY <1>3 DEF t

\* A decision passes the gate that is pending, resolves the escalation that is
\* open, or leaves gates and actions alone.
LEMMA DecideEffect ==
  ASSUME NEW s \in RunStates, NEW kind, NEW outcome, NEW g
  PROVE  LET t == Decide(s, g, kind, outcome)
         IN  Quiet(s, t) \/ Passes(s, t, g)
  <1>1. Quiet(s, Resolved(s))
    BY DEF Quiet, Resolved, RunStates
  <1>2. Passes(s, Approve(s, g), g)
    BY DEF Passes, Approve, Resolved, RunStates
  <1>3. Quiet(s, Reject(s, g))
    BY DEF Reject, Resolved, Quiet, RunStates
  <1>4. Quiet(s, Modify(s, g, outcome))
    BY <1>1 DEF Modify, Recompute, Resolved, Quiet, RunStates
  <1>5. Quiet(s, Timeout(s, g))
    BY DEF Timeout, Raise, Quiet, RunStates
  <1> QED  BY <1>1, <1>2, <1>3, <1>4, <1>5 DEF Decide

\* So does the whole of hitl_node.
LEMMA HandleEffect ==
  ASSUME NEW s \in RunStates, s.pending # 0, NEW answer,
         NEW outcome \in {"invalid", "plan", "error"}
  PROVE  LET t == Handle(s, answer, outcome)
         IN  Quiet(s, t) \/ Passes(s, t, s.pending)
  <1> DEFINE e == Log(Entered(s), Entries(s, answer))
             a == Decide(e, s.pending, "approve", outcome)
             b == [a EXCEPT !.entered = s.entered]
  <1>1. Entered(s) \in RunStates /\ Agrees(s, Entered(s))
    BY Values DEF Entered, Agrees, RunStates
  <1>2. e \in RunStates /\ Agrees(s, e)
    <2>1. Entries(s, answer) \in Nat
      BY DEF Entries
    <2> QED  BY <1>1, <2>1, LogType, LogAgrees, AgreesTrans
  <1>3. s.pending \in Gates
    BY DEF RunStates, Gates
  <1> HIDE DEF e
  <1>4. ASSUME NEW kind
        PROVE  LET t == Decide(e, s.pending, kind, outcome)
               IN  Quiet(s, t) \/ Passes(s, t, s.pending)
    <2> DEFINE t == Decide(e, s.pending, kind, outcome)
    <2>1. Quiet(e, t) \/ Passes(e, t, s.pending)
      BY <1>2, DecideEffect
    <2> HIDE DEF t
    <2>2. Quiet(s, t) \/ Passes(s, t, s.pending)
      BY <1>2, <2>1 DEF Quiet, Passes, Agrees
    <2> QED  BY <2>2 DEF t
  <1>5. a \in RunStates
    BY <1>2, <1>3, DecideType
  <1>6. /\ b.approved = a.approved /\ b.deviated = a.deviated
        /\ b.done = a.done /\ b.esc = a.esc
    BY <1>5 DEF RunStates
  <1>7. Quiet(s, b) \/ Passes(s, b, s.pending)
    <2>1. Quiet(s, a) \/ Passes(s, a, s.pending)
      BY <1>4
    <2> HIDE DEF a, b
    <2> QED  BY <1>6, <2>1 DEF Quiet, Passes
  <1> QED  BY <1>2, <1>4, <1>7, AgreesQuiet DEF Handle, e, a, b
-----------------------------------------------------------------------------
\* One invocation at a time.
OneAtATime == \A i, j \in Invocations : i = j

\* A saved copy and its checkpoint are equal.
LEMMA SaveFollows ==
  ASSUME OneAtATime, TypeOK, NEW i \in Invocations, NEW s, NEW node, node # "START",
         Save(i, s, node)
  PROVE  CopiesFollow'
  <1>1. ckpt'.next = node /\ ckpt'.state = s
    BY DEF Save
  <1>2. inv'[i].at \in Nodes => inv'[i].state = s
    BY DEF Save, Rest, Nodes, TypeOK
  <1>3. \A j \in Invocations : j = i
    BY DEF OneAtATime
  <1> QED  BY <1>1, <1>2, <1>3 DEF CopiesFollow, Ahead

\* An invocation that ends, or gets ahead in the tools node, still follows.
LEMMA MoveFollows ==
  ASSUME OneAtATime, TypeOK, CopiesFollow, NEW i \in Invocations, NEW p,
         inv' = [inv EXCEPT ![i] = p], UNCHANGED ckpt, ckpt.next # "START",
         p.at \in Nodes => /\ Ahead(ckpt.state, p.state)
                           /\ p.at # "tools" => Ahead(p.state, ckpt.state)
  PROVE  CopiesFollow'
  <1>1. \A j \in Invocations : inv'[j] = p
    BY DEF OneAtATime, TypeOK
  <1> QED  BY <1>1 DEF CopiesFollow

\* No router goes back to the start.
LEMMA RouteIsNotStart ==
  ASSUME NEW s
  PROVE  RouteAfterAgent(s) # "START" /\ RouteAfterMonitor(s) # "START"
  BY DEF RouteAfterAgent, RouteAfterMonitor

\* With one invocation at a time the checkpoint never changes behind it.
LEMMA NextFollows == OneAtATime /\ TypeOK /\ CopiesFollow /\ [Next]_vars => CopiesFollow'
  <1> SUFFICES ASSUME OneAtATime, TypeOK, CopiesFollow, [Next]_vars PROVE CopiesFollow'
    OBVIOUS
  <1>a. ASSUME NEW i \in Invocations
        PROVE  inv[i].state \in RunStates /\ inv[i] \in Places
    BY DEF TypeOK, Places
  <1>1. ASSUME NEW i \in Invocations, Start(i) PROVE CopiesFollow'
    <2>1. ckpt'.state = ckpt.state /\ ckpt'.next = "agent"
      BY <1>1 DEF Start, TypeOK, Checkpoints
    <2>2. \A j \in Invocations : inv'[j].state = inv[j].state
      BY <1>1, <1>a DEF Start, TypeOK, Places
    <2>3. \A j \in Invocations : /\ Ahead(ckpt.state, inv[j].state)
                                 /\ Ahead(inv[j].state, ckpt.state)
      BY <1>1 DEF Start, CopiesFollow
    <2> QED  BY <2>1, <2>2, <2>3 DEF CopiesFollow
  <1>2. ASSUME NEW i \in Invocations, AgentFastExit(i) PROVE CopiesFollow'
    BY <1>2, RouteIsNotStart, SaveFollows DEF AgentFastExit
  <1>3. ASSUME NEW i \in Invocations, AgentFastGate(i) PROVE CopiesFollow'
    BY <1>3, RouteIsNotStart, SaveFollows DEF AgentFastGate
  <1>4. ASSUME NEW i \in Invocations, NEW batch, NEW bad, AgentReason(i, batch, bad)
        PROVE  CopiesFollow'
    BY <1>4, RouteIsNotStart, SaveFollows DEF AgentReason
  <1>5. ASSUME NEW i \in Invocations, RefuseTool(i) PROVE CopiesFollow'
    <2> DEFINE l == Log(inv[i].state, 1)
               r == Refused(l, Head(inv[i].state.calls))
               s == [r EXCEPT !.calls = Tail(@)]
               p == [inv[i] EXCEPT !.state = s]
    <2>1. l \in RunStates /\ Agrees(inv[i].state, l)
      BY <1>a, LogType, LogAgrees
    <2>2. r \in RunStates /\ Agrees(l, r)
      BY <2>1, RefusedType, RefusedAgrees
    <2>3. Agrees(r, s)
      BY <2>2, TailAgrees
    <2>4. Ahead(ckpt.state, inv[i].state) /\ ckpt.next # "START"
      BY <1>5 DEF RefuseTool, At, CopiesFollow, Nodes
    <2>5. inv' = [inv EXCEPT ![i] = p] /\ UNCHANGED ckpt /\ inv[i].at = "tools"
      BY <1>5 DEF RefuseTool, At, TypeOK
    <2>6. p.state = s /\ p.at = "tools"
      BY <1>a, <2>5 DEF Places
    <2> HIDE DEF l, r, s, p
    <2>7. Ahead(ckpt.state, s)
      BY <2>1, <2>2, <2>3, <2>4 DEF Ahead, Agrees
    <2> QED  BY <2>4, <2>5, <2>6, <2>7, MoveFollows
  <1>6. ASSUME NEW i \in Invocations, RunTool(i) \/ MissTool(i) PROVE CopiesFollow'
    <2> DEFINE c == Head(inv[i].state.calls)
               l == Log(inv[i].state, 1)
    <2>1. PICK outcome \in {"plan", "error"}, long \in BOOLEAN :
             inv' = [inv EXCEPT ![i].state =
                        [Executed(l, c, outcome, long) EXCEPT !.calls = Tail(@)]]
      BY <1>6, ConstantsAssumption DEF RunTool, MissTool, Outcomes
    <2> DEFINE r == Executed(l, c, outcome, long)
               s == [r EXCEPT !.calls = Tail(@)]
               p == [inv[i] EXCEPT !.state = s]
    <2>2. c \in Calls
      <3>1. inv[i].state.calls \in Seq(Calls) /\ inv[i].state.calls # <<>>
        BY <1>6, <1>a DEF RunTool, MissTool, RunStates
      <3> QED  BY <3>1
    <2>3. l \in RunStates /\ Agrees(inv[i].state, l)
      BY <1>a, LogType, LogAgrees
    <2>4. Ahead(ckpt.state, inv[i].state) /\ ckpt.next # "START"
      BY <1>6 DEF RunTool, MissTool, At, CopiesFollow, Nodes
    <2>5. inv' = [inv EXCEPT ![i] = p] /\ UNCHANGED ckpt /\ inv[i].at = "tools"
      BY <1>6, <2>1 DEF RunTool, MissTool, At, TypeOK
    <2>6. p.state = s /\ p.at = "tools"
      BY <1>a, <2>5 DEF Places
    <2> HIDE DEF c, l, p
    <2>7. r \in RunStates /\ Ahead(l, r)
      BY <2>2, <2>3, ExecutedType, ExecutedAhead
    <2> HIDE DEF r
    <2>8. Agrees(r, s)
      BY <2>7, TailAgrees
    <2> HIDE DEF s
    <2>9. Ahead(ckpt.state, s)
      BY <2>3, <2>4, <2>7, <2>8 DEF Ahead, Agrees
    <2> QED  BY <2>4, <2>5, <2>6, <2>9, MoveFollows
  <1>7. ASSUME NEW i \in Invocations, FinishTools(i) PROVE CopiesFollow'
    BY <1>7, SaveFollows DEF FinishTools
  <1>8. ASSUME NEW i \in Invocations, HitlPass(i) PROVE CopiesFollow'
    BY <1>8, SaveFollows DEF HitlPass
  <1>9. ASSUME NEW i \in Invocations, HitlPause(i) PROVE CopiesFollow'
    BY <1>9, MoveFollows DEF HitlPause, At, CopiesFollow, Nodes, Rest
  <1>10. ASSUME NEW i \in Invocations, HitlResume(i) PROVE CopiesFollow'
    BY <1>10, SaveFollows DEF HitlResume
  <1>11. ASSUME NEW i \in Invocations, MonitorStep(i) PROVE CopiesFollow'
    BY <1>11, RouteIsNotStart, SaveFollows DEF MonitorStep
  <1>12. ASSUME NEW i \in Invocations, NEW answer, Respond(i, answer) PROVE CopiesFollow'
    <2>1. Ahead(ckpt.state, ckpt.state)
      BY DEF Ahead
    <2> QED  BY <1>12, <2>1, MoveFollows DEF Respond, Nodes
  <1>13. ASSUME NEW i \in Invocations, Abort(i) PROVE CopiesFollow'
    BY <1>13, MoveFollows DEF Abort, CopiesFollow, Nodes, Rest
  <1>14. ASSUME Tick PROVE CopiesFollow'
    <2>1. \A s \in RunStates : Agrees(s, [s EXCEPT !.entered = "old"])
      BY DEF Agrees, RunStates
    <2>2. /\ ckpt.state \in RunStates /\ ckpt'.next = ckpt.next
          /\ ckpt'.state = [ckpt.state EXCEPT !.entered = "old"]
      BY <1>14 DEF Tick, TypeOK, Checkpoints
    <2>3. ASSUME NEW i \in Invocations
          PROVE  /\ inv'[i].at = inv[i].at
                 /\ inv'[i].state \in {inv[i].state, [inv[i].state EXCEPT !.entered = "old"]}
      BY <1>14, <1>a DEF Tick, Places
    <2>4. Agrees(ckpt.state, ckpt'.state)
      BY <2>1, <2>2
    <2>5. ASSUME NEW i \in Invocations PROVE Agrees(inv[i].state, inv'[i].state)
      <3>1. CASE inv'[i].state = inv[i].state
        BY <3>1 DEF Agrees
      <3>2. CASE inv'[i].state = [inv[i].state EXCEPT !.entered = "old"]
        BY <1>a, <2>1, <3>2
      <3> QED  BY <2>3, <3>1, <3>2
    <2> QED  BY <2>2, <2>3, <2>4, <2>5 DEF CopiesFollow, Ahead, Agrees
  <1>15. CASE UNCHANGED vars
    BY <1>15 DEF vars, CopiesFollow
  <1> QED
    BY <1>1, <1>2, <1>3, <1>4, <1>5, <1>6, <1>7, <1>8, <1>9, <1>10, <1>11, <1>12,
       <1>13, <1>14, <1>15 DEF Next, Step

\* Nothing is under way at the start.
LEMMA InitFollows == Init => CopiesFollow
  <1> SUFFICES ASSUME Init PROVE CopiesFollow
    OBVIOUS
  <1>1. \A i \in Invocations : inv[i].at = "idle" /\ inv[i].state = ckpt.state
    BY DEF Init, Rest
  <1> QED  BY <1>1 DEF CopiesFollow, Ahead, Nodes
-----------------------------------------------------------------------------
\* What one step may do to a checkpoint without deciding a gate.
Grows(s, t) ==
    /\ Ahead([s EXCEPT !.esc = t.esc, !.deviated = t.deviated], t)
    /\ s.esc => t.esc
    /\ s.deviated => t.deviated

\* A quiet step from a copy that is ahead only adds actions.
LEMMA AheadQuietGrows ==
  ASSUME NEW s \in RunStates, NEW w, NEW t, Ahead(s, w), Quiet(w, t)
  PROVE  Grows(s, t)
  BY DEF Ahead, Quiet, Grows, RunStates

\* A checkpoint that gained actions or an escalation maps to Act, Escalate or
\* a stutter of the pipeline.
LEMMA GrowthMaps ==
  ASSUME TypeOK, TypeOK', IInv', Grows(ckpt.state, ckpt'.state)
  PROVE  [Pipeline!Next]_(Pipeline!vars)
  <1> DEFINE s == ckpt.state
             t == ckpt'.state
             new == ActionsTaken' \ ActionsTaken
  <1>1. /\ t.approved = s.approved
        /\ s.esc => t.esc
        /\ s.esc \in BOOLEAN
        /\ s.done \subseteq t.done
        /\ s.deviated => t.deviated
    BY DEF Grows, Ahead, RunStates, TypeOK, Checkpoints
  <1>2. t.esc \in BOOLEAN
    BY DEF TypeOK, Checkpoints, RunStates
  <1>3. /\ "dispatched" \in new => 2 \in s.approved
        /\ "held" \in new => 3 \in s.approved
        /\ "deviated" \in new => 4 \in s.approved
    BY <1>1 DEF IInv, Sound, TakenWhenApproved, DeviatedAfterDispatch, ActionsTaken
  <1>4. /\ new \subseteq {"dispatched", "held", "deviated"}
        /\ ActionsTaken' = ActionsTaken \union new
    BY <1>1 DEF ActionsTaken
  <1>5. /\ Pipeline!Needs = [dispatched |-> 2, held |-> 3, deviated |-> 4]
        /\ Pipeline!Actions = {"dispatched", "held", "deviated"}
    BY DEF Pipeline!Needs, Pipeline!Actions
  <1>6. GatesPassed' = GatesPassed
    BY <1>1 DEF GatesPassed
  <1>7. ckpt.state.esc' = ckpt.state.esc \/ ckpt.state.esc' = TRUE
    BY <1>1, <1>2
  <1>8. \A a \in new : Pipeline!Needs[a] \in GatesPassed
    BY <1>3, <1>4, <1>5 DEF GatesPassed
  <1> HIDE DEF new, s, t
  <1>9. CASE new # {}
    <2>1. Pipeline!Act(new)
      BY <1>3, <1>4, <1>6, <1>7, <1>8, <1>9 DEF Pipeline!Act
    <2>2. new \in SUBSET Pipeline!Actions
      BY <1>4, <1>5
    <2> QED  BY <2>1, <2>2 DEF Pipeline!Next
  <1>10. CASE new = {}
    <2>1. ActionsTaken' = ActionsTaken
      BY <1>4, <1>10
    <2>2. UNCHANGED Pipeline!vars \/ Pipeline!Escalate
      BY <1>6, <1>7, <2>1 DEF Pipeline!vars, Pipeline!Escalate
    <2> QED  BY <2>2 DEF Pipeline!Next
  <1> QED  BY <1>9, <1>10

\* A checkpoint that passed the pending gate maps to Pass or Resolve.
LEMMA PassMaps ==
  ASSUME TypeOK, NEW w \in RunStates, Sound(w), w.pending # 0,
         Ahead(ckpt.state, w), Ahead(w, ckpt.state),
         Passes(w, ckpt'.state, w.pending)
  PROVE  [Pipeline!Next]_(Pipeline!vars)
  <1> DEFINE s == ckpt.state
             t == ckpt'.state
             g == w.pending
  <1>1. /\ t.approved = s.approved \union {g}
        /\ t.deviated = s.deviated
        /\ t.done = s.done
        /\ t.esc = (IF g = 5 THEN FALSE ELSE s.esc)
    BY DEF Ahead, Passes
  <1>2. w.approved = s.approved /\ w.esc = s.esc /\ s.esc \in BOOLEAN
    BY DEF Ahead, TypeOK, Checkpoints, RunStates
  <1>3. g \in 1..5
    BY DEF RunStates
  <1>4. ActionsTaken' = ActionsTaken
    BY <1>1 DEF ActionsTaken
  <1>5. CASE g = 5
    <2>1. s.esc
      BY <1>2, <1>5 DEF Sound, EscalatedAlone
    <2>2. GatesPassed' = GatesPassed /\ ckpt.state.esc' = FALSE
      BY <1>1, <1>5 DEF GatesPassed
    <2>3. Pipeline!Resolve
      BY <1>4, <2>1, <2>2 DEF Pipeline!Resolve
    <2> QED  BY <2>3 DEF Pipeline!Next
  <1>6. CASE g \in 1..4
    <2>1. ~s.esc
      BY <1>2, <1>6 DEF Sound, EscalatedAlone
    <2>2. g \notin GatesPassed /\ 1..(g - 1) \subseteq GatesPassed
      BY <1>2, <1>6 DEF Sound, InOrder, GatesPassed
    <2>3. GatesPassed' = GatesPassed \union {g} /\ ckpt.state.esc' = ckpt.state.esc
      <3>1. g # 5
        BY <1>6
      <3>2. t.esc = s.esc
        BY <1>1, <3>1
      <3>3. t.approved \intersect 1..4 = (s.approved \intersect 1..4) \union {g}
        BY <1>1, <1>6
      <3> QED  BY <3>2, <3>3 DEF GatesPassed
    <2> HIDE DEF g
    <2>4. Pipeline!Pass(g)
      BY <1>4, <1>6, <2>1, <2>2, <2>3 DEF Pipeline!Pass
    <2> QED  BY <1>6, <2>4 DEF Pipeline!Next, Pipeline!OrdinaryGates
  <1> QED  BY <1>3, <1>5, <1>6

\* Steps that write no checkpoint stutter.
LEMMA StayMaps ==
  ASSUME ckpt'.state = ckpt.state
  PROVE  [Pipeline!Next]_(Pipeline!vars)
  BY DEF Pipeline!vars, GatesPassed, ActionsTaken

\* Every step of the thread maps to a step of the pipeline or a stutter.
LEMMA NextMaps ==
  OneAtATime /\ TypeOK /\ TypeOK' /\ IInv /\ IInv' /\ CopiesFollow /\ [Next]_vars
    => [Pipeline!Next]_(Pipeline!vars)
  <1> SUFFICES ASSUME OneAtATime, TypeOK, TypeOK', IInv, IInv', CopiesFollow, [Next]_vars
               PROVE  [Pipeline!Next]_(Pipeline!vars)
    OBVIOUS
  <1> DEFINE Maps == [Pipeline!Next]_(Pipeline!vars)
  <1>a. ASSUME NEW i \in Invocations
        PROVE  inv[i].state \in RunStates /\ Sound(inv[i].state)
    BY DEF TypeOK, Places, IInv
  <1>b. ckpt.state \in RunStates
    BY DEF TypeOK, Checkpoints
  <1>c. ASSUME NEW i \in Invocations, inv[i].at \in Nodes,
               NEW t, NEW node, Save(i, t, node), Quiet(inv[i].state, t)
        PROVE  Maps
    <2>1. Ahead(ckpt.state, inv[i].state) /\ ckpt'.state = t
      BY <1>c DEF CopiesFollow, Save
    <2> QED  BY <1>b, <1>c, <2>1, AheadQuietGrows, GrowthMaps
  <1> HIDE DEF Maps
  <1>1. ASSUME NEW i \in Invocations, Start(i) PROVE Maps
    <2>1. ckpt'.state = ckpt.state
      BY <1>1 DEF Start, TypeOK, Checkpoints
    <2> QED  BY <2>1, StayMaps DEF Maps
  <1>2. ASSUME NEW i \in Invocations, AgentFastExit(i) PROVE Maps
    <2>1. Quiet(inv[i].state, inv[i].state)
      BY DEF Quiet
    <2> QED  BY <1>2, <1>c, <2>1 DEF AgentFastExit, At, Nodes
  <1>3. ASSUME NEW i \in Invocations, AgentFastGate(i) PROVE Maps
    <2> DEFINE p == Preview(inv[i].state)
               t == Present(p, FastGate(p))
               s == Log(t, 1)
    <2>1. p \in RunStates /\ Quiet(inv[i].state, p)
      BY <1>a, PreviewType, PreviewAgrees, AgreesQuiet
    <2>2. Save(i, s, RouteAfterAgent(s)) /\ inv[i].at \in Nodes
      BY <1>3 DEF AgentFastGate, At, Nodes
    <2>3. FastGate(p) \in 0..5
      BY DueGateType DEF FastGate
    <2> HIDE DEF p
    <2>4. t \in RunStates /\ Quiet(inv[i].state, t)
      BY <2>1, <2>3, PresentType, PresentQuiet, QuietTrans
    <2> HIDE DEF t
    <2>5. Quiet(inv[i].state, s)
      BY <2>4, LogAgrees, AgreesQuiet, QuietTrans
    <2> HIDE DEF s
    <2> QED  BY <1>c, <2>2, <2>5
  <1>4. ASSUME NEW i \in Invocations, NEW batch \in Batches, NEW bad \in 0..MaxBad,
               AgentReason(i, batch, bad)
        PROVE  Maps
    <2>1. PICK fires \in Conditions(inv[i].state) :
             LET s == Reason(Preview(inv[i].state), batch, bad, fires)
             IN  Save(i, s, RouteAfterAgent(s))
      BY <1>4 DEF AgentReason
    <2> DEFINE p == Preview(inv[i].state)
               s == Reason(p, batch, bad, fires)
    <2>2. batch \in Seq(Calls) /\ bad \in Nat
      BY BatchType, ConstantsAssumption
    <2>3. p \in RunStates /\ Quiet(inv[i].state, p)
      BY <1>a, PreviewType, PreviewAgrees, AgreesQuiet
    <2>4. Save(i, s, RouteAfterAgent(s)) /\ inv[i].at \in Nodes
      BY <1>4, <2>1 DEF AgentReason, At, Nodes
    <2> HIDE DEF p
    <2>5. Quiet(inv[i].state, s)
      BY <2>2, <2>3, ReasonQuiet, QuietTrans
    <2> HIDE DEF s
    <2> QED  BY <1>c, <2>4, <2>5
  <1>5. ASSUME NEW i \in Invocations, FinishTools(i) PROVE Maps
    <2>1. PICK fires : Save(i, AfterTools(inv[i].state, fires), "agent")
      BY <1>5 DEF FinishTools
    <2>2. Quiet(inv[i].state, AfterTools(inv[i].state, fires))
      BY <1>a, AfterToolsQuiet
    <2> QED  BY <1>5, <1>c, <2>1, <2>2 DEF FinishTools, At, Nodes
  <1>6. ASSUME NEW i \in Invocations, HitlPass(i) PROVE Maps
    <2>1. Quiet(inv[i].state, inv[i].state)
      BY DEF Quiet
    <2> QED  BY <1>6, <1>c, <2>1 DEF HitlPass, At, Nodes
  <1>7. ASSUME NEW i \in Invocations, HitlResume(i) PROVE Maps
    <2>1. PICK outcome \in {"invalid"} \union ReplanOutcomes :
             Save(i, Handle(inv[i].state, inv[i].answer, outcome), "agent")
      BY <1>7 DEF HitlResume
    <2> DEFINE w == inv[i].state
               t == Handle(w, inv[i].answer, outcome)
    <2>2. outcome \in {"invalid", "plan", "error"} /\ w.pending # 0
      BY <1>7 DEF ReplanOutcomes, Outcomes, HitlResume
    <2>3. Quiet(w, t) \/ Passes(w, t, w.pending)
      BY <1>a, <2>2, HandleEffect
    <2>4. inv[i].at = "hitl" /\ inv[i].at \in Nodes
      BY <1>7 DEF HitlResume, At, Nodes
    <2>5. CASE Quiet(w, t)
      BY <1>c, <2>1, <2>4, <2>5
    <2>6. CASE Passes(w, t, w.pending)
      <3>1. Ahead(ckpt.state, w) /\ Ahead(w, ckpt.state)
        BY <2>4 DEF CopiesFollow
      <3>2. ckpt'.state = t
        BY <2>1 DEF Save
      <3> HIDE DEF t
      <3> QED  BY <1>a, <2>2, <2>6, <3>1, <3>2, PassMaps DEF Maps
    <2> QED  BY <2>3, <2>5, <2>6
  <1>8. ASSUME NEW i \in Invocations, MonitorStep(i) PROVE Maps
    <2>1. PICK conflict \in Conflicts, outcome \in ReplanOutcomes,
               fires \in Conditions(inv[i].state) :
             LET s == Monitored(inv[i].state, conflict, outcome, fires)
             IN  Save(i, s, RouteAfterMonitor(s))
      BY <1>8 DEF MonitorStep
    <2> DEFINE w == inv[i].state
               t == Monitored(w, conflict, outcome, fires)
    <2>2. /\ t.approved = w.approved
          /\ w.esc => t.esc
          /\ t.done = w.done
          /\ w.deviated => t.deviated
      BY <1>a DEF Monitored, Recompute, RunStates
    <2>3. Ahead(ckpt.state, w) /\ Ahead(w, ckpt.state)
      BY <1>8 DEF MonitorStep, At, CopiesFollow, Nodes
    <2>4. ckpt'.state = t
      BY <2>1 DEF Save
    <2> HIDE DEF t, w
    <2>5. Grows(ckpt.state, t)
      BY <1>b, <2>2, <2>3 DEF Grows, Ahead, RunStates
    <2> QED  BY <2>4, <2>5, GrowthMaps DEF Maps
  <1>9. ASSUME UNCHANGED ckpt PROVE Maps
    BY <1>9, StayMaps DEF Maps
  <1>10. ASSUME Tick PROVE Maps
    <2>1. /\ ckpt'.state.approved = ckpt.state.approved
          /\ ckpt'.state.done = ckpt.state.done
          /\ ckpt'.state.deviated = ckpt.state.deviated
          /\ ckpt'.state.esc = ckpt.state.esc
      BY <1>10, <1>b DEF Tick, TypeOK, Checkpoints, RunStates
    <2> QED  BY <2>1 DEF Maps, Pipeline!vars, GatesPassed, ActionsTaken
  <1>11. ASSUME NEW i \in Invocations,
                RefuseTool(i) \/ RunTool(i) \/ MissTool(i) \/ HitlPause(i) \/ Abort(i)
                  \/ \E answer \in Answers : Respond(i, answer)
         PROVE  UNCHANGED ckpt
    BY <1>11 DEF RefuseTool, RunTool, MissTool, HitlPause, Abort, Respond
  <1>12. ASSUME UNCHANGED vars PROVE Maps
    BY <1>9, <1>12 DEF vars
  <1>13. Maps
    BY <1>1, <1>2, <1>3, <1>4, <1>5, <1>6, <1>7, <1>8, <1>9, <1>10, <1>11, <1>12
    DEF Next, Step
  <1> QED  BY <1>13 DEF Maps

\* With one answer handled at a time, a thread keeps the promise of the gate
\* pipeline for every planner, every trigger and every place at which an
\* invocation may be cut short (nodes.py, handler.py and monitor.py together).
THEOREM ThreadIsAPipeline ==
  ASSUME OneAtATime
  PROVE  Spec => ImplementsPipeline
  <1>1. Init => Pipeline!Init
    BY DEF Init, InitialState, Pipeline!Init, GatesPassed, ActionsTaken
  <1>2. Init => CopiesFollow
    BY InitFollows
  <1>3. TypeOK /\ CopiesFollow /\ [Next]_vars => CopiesFollow'
    BY NextFollows
  <1>4. TypeOK /\ TypeOK' /\ IInv /\ IInv' /\ CopiesFollow /\ [Next]_vars
          => [Pipeline!Next]_(Pipeline!vars)
    BY NextMaps
  <1> QED
    BY <1>1, <1>2, <1>3, <1>4, TypeCorrect, Invariant, PTL
    DEF Spec, ImplementsPipeline, Pipeline!Spec
=============================================================================
