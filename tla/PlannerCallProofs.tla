------------------------- MODULE PlannerCallProofs -------------------------
(***************************************************************************)
(* The bounds on an agent turn's requests, and who may answer it, for any  *)
(* runs, number of retries and settings.  The invariant speaks of one turn *)
(* at a time: the runs share nothing but the loop, and the settings may be *)
(* anything when they are read.                                            *)
(***************************************************************************)
EXTENDS PlannerCall, TLAPS

Turns ==
    [at : Places, model : Families \cup {"rules"}, attempt : 0 .. Retries,
     requests : 0 .. MaxRequests, refused : 0 .. Retries + 1,
     second : Families \cup {"none"}, failed : SUBSET {"model", "second", "sdk"},
     by : {"none", "model", "second", "rules"}]

\* What StandInIsDue and RequestsBounded say of one turn.
Due(t) ==
    /\ t.by = "second" => t.refused = Retries + 1
    /\ t.by = "rules" /\ t.model # "rules" =>
          /\ "model" \in t.failed /\ "sdk" \notin t.failed
          /\ t.refused = Retries + 1 => t.second = "none" \/ "second" \in t.failed
    /\ t.at = "aborted" => "sdk" \in t.failed

Bounded(t) ==
    /\ t.attempt <= t.refused /\ t.refused <= t.attempt + 1
    /\ t.at # "idle" =>
          /\ t.attempt < t.requests
          /\ t.requests <= 2 * (t.attempt + 1) + (IF "sdk" \in t.failed THEN 2 ELSE 0)

\* How far a turn is at each place.
Placed(t) ==
    /\ t.at # "answered" => t.by = "none"
    /\ t.at \in {"asked", "direct"} => t.refused = t.attempt
    /\ t.at = "asked" => t.requests <= 2 * t.attempt + 1
    /\ t.at = "waiting" => t.refused = t.attempt + 1 /\ t.attempt < Retries
    /\ t.at \in {"asked", "direct", "waiting"} => t.second = "none"
    /\ t.model = "rules" =>
          t.at \notin {"direct", "waiting", "second", "second_direct", "again", "again_direct"}
    /\ t.at \in {"second", "second_direct"} => t.refused = Retries + 1 /\ "model" \in t.failed
    /\ t.at \in {"asked", "direct", "waiting", "second", "second_direct"} => "sdk" \notin t.failed
    /\ t.at \in {"again", "again_direct"} => "sdk" \in t.failed
    /\ t.at = "again" => t.requests <= 2 * (t.attempt + 1) + 1

Sound(t) == t \in Turns /\ Due(t) /\ Bounded(t) /\ Placed(t)

IInv ==
    /\ settings \in Settings /\ loop \in Runs \cup {NoRun}
    /\ turn \in [Runs -> Turns]
    /\ \A r \in Runs : Sound(turn[r])
    /\ \A r \in Runs : turn[r].at \in Direct <=> loop = r
-----------------------------------------------------------------------------
\* What a turn's requests may be while no SDK was missing.
Attempted(t) == t.attempt < t.requests /\ t.requests <= 2 * (t.attempt + 1)

\* A turn that no SDK was missing for has room for agent_node's own requests.
LEMMA AgainSound ==
  ASSUME NEW t \in Turns, t.by = "none", t.model # "rules", Attempted(t),
         t.attempt <= t.refused, t.refused <= t.attempt + 1
  PROVE  Sound(Again(t)) /\ Again(t).at \notin Direct
  <1> DEFINE u == Again(t)
  <1>1. t.attempt \in 0 .. Retries /\ t.requests \in Nat /\ t.refused \in Nat
    BY RetriesAssumption DEF Turns, MaxRequests
  <1>2. t.requests + 1 \in 0 .. MaxRequests
    BY <1>1, RetriesAssumption DEF MaxRequests, Attempted
  <1>3. u \in Turns /\ u.at = "again" /\ u.by = "none" /\ u.requests = t.requests + 1
        /\ u.attempt = t.attempt /\ u.refused = t.refused /\ "sdk" \in u.failed
        /\ u.model # "rules"
    BY <1>2 DEF Again, Turns, Places
  <1> HIDE DEF u
  <1>4. Bounded(u) /\ u.requests <= 2 * (u.attempt + 1) + 1
    BY <1>1, <1>3, RetriesAssumption DEF Bounded, Attempted
  <1>5. Due(u) /\ Placed(u) /\ u.at \notin Direct
    BY <1>3, <1>4 DEF Due, Placed, Direct
  <1> QED  BY <1>3, <1>4, <1>5 DEF Sound, u

\* A turn that ends keeps its counters; who answered it has to be shown.
LEMMA EndSound ==
  ASSUME NEW t \in Turns, Bounded(t), t.at # "idle", Due(t),
         t.at = "answered" \/ (t.at = "aborted" /\ t.by = "none")
  PROVE  Sound(t) /\ t.at \notin Direct
  BY DEF Sound, Placed, Direct

\* A turn that has been asked has room for what the outcome adds.
LEMMA HandledSound ==
  ASSUME settings \in Settings, NEW t, Sound(t), t.at \in {"asked", "direct"},
         NEW outcome \in Outcomes, t.model = "rules" => outcome = "answer"
  PROVE  Sound(Handled(t, outcome)) /\ Handled(t, outcome).at \notin Direct
  <1> USE RetriesAssumption, SettingsAssumption
  <1>0. t \in Turns /\ t.refused = t.attempt /\ t.attempt \in 0 .. Retries /\ t.second = "none"
        /\ t.by = "none" /\ t.at # "idle" /\ "sdk" \notin t.failed /\ t.requests \in Nat
        /\ Attempted(t)
    BY DEF Sound, Placed, Turns, Bounded, Attempted, MaxRequests
  <1>1. CASE outcome = "answer"
    <2> DEFINE u == Answered(t, IF t.model = "rules" THEN "rules" ELSE "model")
    <2>1. Handled(t, outcome) = u
      BY <1>1 DEF Handled
    <2>2. u \in Turns /\ u.at = "answered" /\ u.by \in {"rules", "model"}
          /\ (u.by = "rules" => u.model = "rules") /\ u.failed = t.failed
          /\ u.attempt = t.attempt /\ u.requests = t.requests /\ u.refused = t.refused
      BY <1>0 DEF Answered, Turns, Places
    <2> HIDE DEF u
    <2>3. Bounded(u) /\ Due(u)
      BY <1>0, <2>2 DEF Bounded, Attempted, Due
    <2> QED  BY <2>1, <2>2, <2>3, EndSound
  <1>2. CASE outcome = "limit"
    <2>1. Handled(t, outcome) = Refused(t)
      BY <1>2 DEF Handled
    <2>2. t.model # "rules"
      BY <1>2
    <2> DEFINE after == [t EXCEPT !.refused = @ + 1, !.failed = @ \cup {"model"}]
    <2>a. t.refused + 1 \in 0 .. Retries + 1
      BY <1>0
    <2>b. after \in Turns /\ after.refused = t.refused + 1 /\ after.failed = t.failed \cup {"model"}
          /\ after.attempt = t.attempt /\ after.requests = t.requests /\ after.second = t.second
          /\ after.by = t.by /\ after.model = t.model
      BY <1>0, <2>a DEF Turns
    <2> USE DEF Places
    <2>3. CASE t.attempt < Retries
      <3> DEFINE u == [after EXCEPT !.at = "waiting"]
      <3>1. Refused(t) = u
        BY <2>3 DEF Refused
      <3>2. u \in Turns /\ u.at = "waiting" /\ u.refused = t.refused + 1 /\ u.by = "none"
            /\ u.model = t.model /\ u.attempt = t.attempt /\ u.requests = t.requests /\ u.second = "none"
            /\ "sdk" \notin u.failed
        <4> HIDE DEF after
        <4> QED  BY <1>0, <2>3, <2>b DEF Turns
      <3> HIDE DEF u
      <3>3. Bounded(u) /\ Due(u)
        BY <1>0, <3>2 DEF Bounded, Attempted, Due
      <3> QED  BY <1>0, <2>1, <2>2, <2>3, <3>1, <3>2, <3>3 DEF Sound, Placed, Direct
    <2>4. CASE t.attempt = Retries /\ settings.second # "none"
      <3> DEFINE u == [after EXCEPT !.at = "second", !.second = settings.second]
      <3>1. Refused(t) = u
        <4>1. ~(t.attempt < Retries)
          BY <2>4
        <4> QED  BY <2>4, <4>1 DEF Refused
      <3>2. u \in Turns /\ u.at = "second" /\ u.refused = t.refused + 1 /\ u.by = "none"
            /\ u.model = t.model /\ u.attempt = t.attempt /\ u.requests = t.requests
            /\ "model" \in u.failed /\ "sdk" \notin u.failed
        <4> HIDE DEF after
        <4> QED  BY <1>0, <2>4, <2>b DEF Turns
      <3> HIDE DEF u
      <3>3. Bounded(u) /\ Due(u)
        BY <1>0, <3>2 DEF Bounded, Attempted, Due
      <3> QED  BY <1>0, <2>1, <2>2, <2>4, <3>1, <3>2, <3>3 DEF Sound, Placed, Direct
    <2>5. CASE t.attempt = Retries /\ settings.second = "none"
      <3> DEFINE u == [after EXCEPT !.at = "answered", !.by = "rules"]
      <3>1. Refused(t) = u
        <4>1. ~(t.attempt < Retries)
          BY <2>5
        <4> QED  BY <2>5, <4>1 DEF Refused, ByRules, Answered
      <3>2. u \in Turns /\ u.at = "answered" /\ u.refused = t.refused + 1 /\ u.second = "none"
            /\ u.attempt = t.attempt /\ u.requests = t.requests /\ u.by = "rules"
            /\ "model" \in u.failed /\ "sdk" \notin u.failed
        <4> HIDE DEF after
        <4> QED  BY <1>0, <2>5, <2>b DEF Turns
      <3> HIDE DEF u
      <3>3. Bounded(u) /\ Due(u)
        BY <1>0, <3>2 DEF Bounded, Attempted, Due
      <3> QED  BY <2>1, <3>1, <3>2, <3>3, EndSound
    <2> QED  BY <1>0, <2>3, <2>4, <2>5
  <1>3. CASE outcome \in {"runtime", "import", "other"}
    <2> DEFINE after == [t EXCEPT !.failed = @ \cup {"model"}]
    <2>1. after \in Turns /\ after.by = "none" /\ after.attempt = t.attempt
          /\ after.requests = t.requests /\ after.refused = t.refused /\ after.model = t.model
          /\ "model" \in after.failed /\ "sdk" \notin after.failed /\ after.second = t.second
      BY <1>0 DEF Turns
    <2>2. CASE outcome = "import"
      <3>1. Handled(t, outcome) = Again(after)
        BY <2>2 DEF Handled, Broken
      <3>2. Attempted(after) /\ after.attempt <= after.refused /\ after.refused <= after.attempt + 1
            /\ after.model # "rules"
        BY <1>0, <2>1, <2>2 DEF Attempted
      <3> HIDE DEF after
      <3> QED  BY <2>1, <3>1, <3>2, AgainSound
    <2>3. CASE outcome # "import"
      <3> DEFINE u == [after EXCEPT !.at = "answered", !.by = "rules"]
      <3>1. Handled(t, outcome) = u
        BY <1>3, <2>3 DEF Handled, Broken, ByRules, Answered
      <3>2. u \in Turns /\ u.at = "answered" /\ u.refused = t.refused /\ u.second = t.second
            /\ u.attempt = t.attempt /\ u.requests = t.requests /\ u.by = "rules"
            /\ "model" \in u.failed /\ "sdk" \notin u.failed
        <4> HIDE DEF after
        <4> QED  BY <2>1 DEF Turns, Places
      <3> HIDE DEF u
      <3>3. Bounded(u) /\ Due(u)
        BY <1>0, <3>2 DEF Bounded, Attempted, Due
      <3> QED  BY <3>1, <3>2, <3>3, EndSound
    <2> QED  BY <2>2, <2>3
  <1> QED  BY <1>1, <1>2, <1>3 DEF Outcomes

\* The second model answers, or it failed: then the rules do, or the first model
\* is asked again.
LEMMA SecondSound ==
  ASSUME NEW t, Sound(t), t.at \in {"second", "second_direct"}, NEW outcome \in Outcomes
  PROVE  Sound(SecondHandled(t, outcome)) /\ SecondHandled(t, outcome).at \notin Direct
  <1> USE RetriesAssumption
  <1>0. t \in Turns /\ t.by = "none" /\ t.model # "rules" /\ t.refused = Retries + 1
        /\ "model" \in t.failed /\ "sdk" \notin t.failed /\ Attempted(t) /\ Bounded(t)
    <2>1. t \in Turns /\ Bounded(t) /\ Placed(t) /\ t.at # "idle" /\ t.at # "answered"
      BY DEF Sound
    <2>2. t.attempt \in Nat /\ t.requests \in Nat /\ "sdk" \notin t.failed
      BY <2>1 DEF Turns, MaxRequests, Placed
    <2> QED  BY <2>1, <2>2 DEF Placed, Bounded, Attempted
  <1>1. CASE outcome = "answer"
    <2> DEFINE u == [t EXCEPT !.at = "answered", !.by = "second"]
    <2>1. SecondHandled(t, outcome) = u
      BY <1>1 DEF SecondHandled, Answered
    <2>2. u \in Turns /\ u.at = "answered" /\ u.by = "second" /\ u.refused = t.refused
          /\ u.attempt = t.attempt /\ u.requests = t.requests /\ u.failed = t.failed
      BY <1>0 DEF Turns, Places
    <2> HIDE DEF u
    <2>3. Bounded(u) /\ Due(u)
      BY <1>0, <2>2 DEF Bounded, Attempted, Due
    <2> QED  BY <2>1, <2>2, <2>3, EndSound
  <1>2. CASE outcome # "answer"
    <2> DEFINE after == [t EXCEPT !.failed = @ \cup {"second"}]
    <2>1. after \in Turns /\ after.by = "none" /\ after.attempt = t.attempt
          /\ after.requests = t.requests /\ after.refused = t.refused /\ after.model = t.model
          /\ {"model", "second"} \subseteq after.failed /\ "sdk" \notin after.failed
      BY <1>0 DEF Turns
    <2>2. CASE outcome = "import"
      <3>1. SecondHandled(t, outcome) = Again(after)
        BY <1>2, <2>2 DEF SecondHandled
      <3>2. Attempted(after) /\ after.attempt <= after.refused /\ after.refused <= after.attempt + 1
        BY <1>0, <2>1 DEF Attempted, Bounded
      <3> HIDE DEF after
      <3> QED  BY <1>0, <2>1, <3>1, <3>2, AgainSound
    <2>3. CASE outcome # "import"
      <3> DEFINE u == [after EXCEPT !.at = "answered", !.by = "rules"]
      <3>1. SecondHandled(t, outcome) = u
        BY <1>2, <2>3 DEF SecondHandled, ByRules, Answered
      <3>2. u \in Turns /\ u.at = "answered" /\ u.by = "rules" /\ u.refused = t.refused
            /\ u.attempt = t.attempt /\ u.requests = t.requests
            /\ {"model", "second"} \subseteq u.failed /\ "sdk" \notin u.failed
        <4> HIDE DEF after
        <4> QED  BY <2>1 DEF Turns, Places
      <3> HIDE DEF u
      <3>3. Bounded(u) /\ Due(u)
        BY <1>0, <3>2 DEF Bounded, Attempted, Due
      <3> QED  BY <3>1, <3>2, <3>3, EndSound
    <2> QED  BY <2>2, <2>3
  <1> QED  BY <1>1, <1>2

\* agent_node's own request is answered by the first model, or nobody answers.
LEMMA AgainHandledSound ==
  ASSUME NEW t, Sound(t), t.at \in {"again", "again_direct"}, NEW outcome \in Outcomes
  PROVE  Sound(AgainHandled(t, outcome)) /\ AgainHandled(t, outcome).at \notin Direct
  <1>0. t \in Turns /\ t.by = "none" /\ "sdk" \in t.failed /\ Bounded(t) /\ t.at # "idle"
    BY DEF Sound, Placed
  <1> DEFINE u == AgainHandled(t, outcome)
  <1>a. u = IF outcome = "answer" THEN [t EXCEPT !.at = "answered", !.by = "model"]
            ELSE [t EXCEPT !.at = "aborted"]
    BY DEF AgainHandled, Answered
  <1> HIDE DEF u
  <1>1. u \in Turns
        /\ ((u.at = "answered" /\ u.by = "model") \/ (u.at = "aborted" /\ u.by = "none"))
        /\ u.attempt = t.attempt /\ u.requests = t.requests /\ u.refused = t.refused
        /\ u.failed = t.failed
    <2>1. CASE outcome = "answer"
      <3>1. u = [t EXCEPT !.at = "answered", !.by = "model"]
        BY <1>a, <2>1
      <3>2. u.at = "answered" /\ u.by = "model" /\ u.attempt = t.attempt
            /\ u.requests = t.requests /\ u.refused = t.refused /\ u.failed = t.failed
        BY <1>0, <3>1 DEF Turns
      <3>3. u \in Turns
        BY <1>0, <3>1 DEF Turns, Places
      <3> QED  BY <3>2, <3>3
    <2>2. CASE outcome # "answer"
      BY <1>0, <1>a, <2>2 DEF Turns, Places
    <2> QED  BY <2>1, <2>2
  <1>2. Bounded(u) /\ Due(u)
    BY <1>0, <1>1 DEF Bounded, Due
  <1> QED  BY <1>1, <1>2, EndSound DEF u

\* A step that changes one turn, and gives the loop to it or takes it from it.
LEMMA StepSound ==
  ASSUME IInv, NEW r \in Runs, NEW u, turn' = [turn EXCEPT ![r] = u], Sound(u),
         settings' = settings,
         \/ loop' = r /\ loop = NoRun /\ u.at \in Direct
         \/ loop' = NoRun /\ loop \in {r, NoRun} /\ u.at \notin Direct
  PROVE  IInv'
  <1>1. \A q \in Runs : turn'[q] = IF q = r THEN u ELSE turn[q]
    BY DEF IInv
  <1>2. turn' \in [Runs -> Turns]
    BY DEF IInv, Sound
  <1>3. \A q \in Runs : Sound(turn'[q])
    BY <1>1 DEF IInv
  <1>4. \A q \in Runs : turn'[q].at \in Direct <=> loop' = q
    BY <1>1, NoRunAssumption DEF IInv
  <1>5. loop' \in Runs \cup {NoRun}
    OBVIOUS
  <1> QED  BY <1>2, <1>3, <1>4, <1>5 DEF IInv

LEMMA ReturnKeeps ==
  ASSUME IInv, NEW r \in Runs, NEW outcome \in Outcomes, Return(r, outcome)
  PROVE  IInv'
  <1> DEFINE t == turn[r]
  <1>1. Sound(t) /\ t.at = "asked" /\ loop = NoRun /\ (t.model = "rules" => outcome = "answer")
    BY DEF IInv, Return
  <1>2. CASE outcome = "runtime"
    <2> DEFINE u == [t EXCEPT !.at = "direct", !.requests = @ + 1]
    <2>1. turn' = [turn EXCEPT ![r] = u] /\ loop' = r
      BY <1>2 DEF Return, IInv
    <2>2. u.at = "direct" /\ u.requests = t.requests + 1 /\ u.attempt = t.attempt /\ u.refused = t.refused
          /\ u.by = t.by /\ u.second = t.second /\ u.failed = t.failed /\ u.model = t.model
          /\ t.model # "rules"
      BY <1>1, <1>2 DEF Sound, Turns
    <2>3. u \in Turns
      <3>1. t.requests + 1 \in 0 .. MaxRequests
        <4>1. t.requests \in Nat /\ t.attempt \in 0 .. Retries /\ t.requests <= 2 * t.attempt + 1
          BY <1>1, RetriesAssumption DEF Sound, Turns, Placed, MaxRequests
        <4> QED  BY <4>1, RetriesAssumption DEF MaxRequests
      <3> QED  BY <1>1, <3>1 DEF Sound, Turns, Places
    <2>4. Sound(u)
      <3>1. t.requests \in Nat /\ t.attempt \in Nat /\ t.refused \in Nat
        BY <1>1, RetriesAssumption DEF Sound, Turns, MaxRequests
      <3> HIDE DEF u, t
      <3> QED  BY <1>1, <2>2, <2>3, <3>1 DEF Sound, Due, Bounded, Placed
    <2> HIDE DEF u
    <2> QED  BY <1>1, <2>1, <2>2, <2>4, StepSound DEF Return, Direct
  <1>3. CASE outcome # "runtime"
    <2>1. turn' = [turn EXCEPT ![r] = Handled(t, outcome)] /\ loop' = loop
      BY <1>3 DEF Return
    <2> QED  BY <1>1, <2>1, HandledSound, StepSound DEF Return, IInv
  <1> QED  BY <1>2, <1>3

LEMMA ReturnDirectKeeps ==
  ASSUME IInv, NEW r \in Runs, NEW outcome \in Outcomes, ReturnDirect(r, outcome)
  PROVE  IInv'
  <1>1. Sound(turn[r]) /\ turn[r].at = "direct" /\ loop = r
    BY DEF IInv, ReturnDirect, Direct
  <1>2. turn[r].model # "rules"
    BY <1>1 DEF Sound, Placed
  <1>3. turn' = [turn EXCEPT ![r] = Handled(turn[r], outcome)]
    BY DEF ReturnDirect
  <1> QED  BY <1>1, <1>2, <1>3, HandledSound, StepSound DEF ReturnDirect, IInv

LEMMA RetryKeeps ==
  ASSUME IInv, NEW r \in Runs, Retry(r)
  PROVE  IInv'
  <1> DEFINE t == turn[r]
             u == [t EXCEPT !.at = "asked", !.attempt = @ + 1, !.requests = @ + 1]
  <1>1. Sound(t) /\ t.at = "waiting" /\ loop = NoRun
    BY DEF IInv, Retry
  <1>2. turn' = [turn EXCEPT ![r] = u]
    BY DEF Retry, IInv
  <1>3. /\ t.attempt + 1 \in 0 .. Retries
        /\ t.requests + 1 \in 0 .. MaxRequests
        /\ t.attempt \in Nat /\ t.requests \in Nat /\ t.refused = t.attempt + 1
        /\ t.attempt < t.requests /\ t.requests <= 2 * (t.attempt + 1)
    <2>1. t.attempt \in 0 .. Retries /\ t.attempt < Retries /\ t.requests \in 0 .. MaxRequests
          /\ t.requests <= 2 * (t.attempt + 1) /\ t.refused = t.attempt + 1 /\ t.attempt < t.requests
      BY <1>1 DEF Sound, Turns, Placed, Bounded
    <2> QED  BY <2>1, RetriesAssumption DEF MaxRequests
  <1>4. u \in Turns /\ u.at = "asked" /\ u.attempt = t.attempt + 1 /\ u.requests = t.requests + 1
        /\ u.refused = t.refused /\ u.by = t.by /\ u.second = t.second /\ u.failed = t.failed
    BY <1>1, <1>3 DEF Sound, Turns, Places
  <1>5. Sound(u)
    <2> HIDE DEF u
    <2> QED  BY <1>1, <1>3, <1>4 DEF Sound, Due, Bounded, Placed
  <1> HIDE DEF u
  <1> QED  BY <1>1, <1>2, <1>4, <1>5, StepSound DEF Retry, Direct

LEMMA ReturnSecondKeeps ==
  ASSUME IInv, NEW r \in Runs, NEW outcome \in Outcomes,
         ReturnSecond(r, outcome) \/ ReturnSecondDirect(r, outcome)
  PROVE  IInv'
  <1> DEFINE t == turn[r]
  <1>1. Sound(t) /\ t.at \in {"second", "second_direct"} /\ settings' = settings
    BY DEF IInv, ReturnSecond, ReturnSecondDirect
  <1>2. CASE turn' = [turn EXCEPT ![r].at = "second_direct"] /\ loop = NoRun /\ loop' = r
    <2> DEFINE u == [t EXCEPT !.at = "second_direct"]
    <2>1. turn' = [turn EXCEPT ![r] = u]
      BY <1>2 DEF IInv
    <2>2. u \in Turns /\ u.at = "second_direct" /\ u.attempt = t.attempt /\ u.requests = t.requests
          /\ u.refused = t.refused /\ u.by = t.by /\ u.failed = t.failed /\ u.model = t.model
      BY <1>1 DEF Sound, Turns, Places
    <2>3. Sound(u)
      <3> HIDE DEF u
      <3> QED  BY <1>1, <2>2 DEF Sound, Due, Bounded, Placed
    <2> HIDE DEF u
    <2> QED  BY <1>1, <1>2, <2>1, <2>2, <2>3, StepSound DEF Direct
  <1>3. CASE turn' = [turn EXCEPT ![r] = SecondHandled(t, outcome)] /\ loop \in {r, NoRun} /\ loop' = NoRun
    BY <1>1, <1>3, SecondSound, StepSound
  <1>4. loop \in {r, NoRun}
    BY DEF IInv, ReturnSecond, ReturnSecondDirect, Direct
  <1> QED  BY <1>2, <1>3, <1>4 DEF ReturnSecond, ReturnSecondDirect

LEMMA ReturnAgainKeeps ==
  ASSUME IInv, NEW r \in Runs, NEW outcome \in Outcomes,
         ReturnAgain(r, outcome) \/ ReturnAgainDirect(r, outcome)
  PROVE  IInv'
  <1> DEFINE t == turn[r]
             u == [t EXCEPT !.at = "again_direct", !.requests = @ + 1]
  <1>1. Sound(t) /\ t.at \in {"again", "again_direct"} /\ settings' = settings
    BY DEF IInv, ReturnAgain, ReturnAgainDirect
  <1>2. CASE /\ turn' = [turn EXCEPT ![r].at = "again_direct", ![r].requests = @ + 1]
             /\ t.at = "again" /\ loop = NoRun /\ loop' = r
    <2>1. turn' = [turn EXCEPT ![r] = u]
      BY <1>2 DEF IInv
    <2>2. t.attempt \in 0 .. Retries /\ t.requests \in Nat /\ t.refused \in Nat
          /\ t.requests <= 2 * (t.attempt + 1) + 1 /\ t.attempt < t.requests
      BY <1>1, <1>2, RetriesAssumption DEF Sound, Turns, Placed, Bounded, MaxRequests
    <2>3. t.requests + 1 \in 0 .. MaxRequests
      BY <2>2, RetriesAssumption DEF MaxRequests
    <2>4. u \in Turns /\ u.at = "again_direct" /\ u.requests = t.requests + 1
          /\ u.attempt = t.attempt /\ u.refused = t.refused /\ u.by = t.by
          /\ u.failed = t.failed /\ u.model = t.model
      BY <1>1, <2>3 DEF Sound, Turns, Places
    <2> HIDE DEF u
    <2>5. t.attempt <= t.refused /\ t.refused <= t.attempt + 1 /\ "sdk" \in t.failed
          /\ t.by = "none" /\ t.model # "rules"
      BY <1>1, <1>2 DEF Sound, Placed, Bounded
    <2>6. Bounded(u)
      BY <2>2, <2>4, <2>5, RetriesAssumption DEF Bounded
    <2>7. Due(u) /\ Placed(u)
      BY <2>4, <2>5 DEF Due, Placed
    <2>8. Sound(u) /\ u.at \in Direct
      BY <2>4, <2>6, <2>7 DEF Sound, Direct
    <2> QED  BY <1>1, <1>2, <2>1, <2>8, StepSound
  <1>3. CASE turn' = [turn EXCEPT ![r] = AgainHandled(t, outcome)] /\ loop \in {r, NoRun} /\ loop' = NoRun
    BY <1>1, <1>3, AgainHandledSound, StepSound
  <1>4. loop \in {r, NoRun}
    BY DEF IInv, ReturnAgain, ReturnAgainDirect, Direct
  <1> QED  BY <1>2, <1>3, <1>4 DEF ReturnAgain, ReturnAgainDirect

\* A turn that begins has made one request and nothing else.
LEMMA TurnKeeps ==
  ASSUME IInv, NEW r \in Runs, Turn(r)
  PROVE  IInv'
  <1> DEFINE u == [Idle EXCEPT !.at = "asked", !.model = Chosen, !.requests = 1]
  <1>1. Chosen \in Families \cup {"rules"}
    BY SettingsAssumption DEF IInv, Chosen
  <1>2. u \in Turns /\ u.at = "asked" /\ u.attempt = 0 /\ u.requests = 1
        /\ u.refused = 0 /\ u.by = "none" /\ u.second = "none" /\ u.failed = {}
    <2>1. 0 \in 0 .. Retries /\ 1 \in 0 .. MaxRequests /\ 0 \in 0 .. Retries + 1
      BY RetriesAssumption DEF MaxRequests
    <2> QED  BY <1>1, <2>1 DEF Idle, Turns, Places
  <1>3. turn' = [turn EXCEPT ![r] = u]
    BY DEF Turn
  <1> HIDE DEF u
  <1>4. Sound(u)
    BY <1>2 DEF Sound, Due, Bounded, Placed
  <1> QED  BY <1>2, <1>3, <1>4, StepSound DEF Turn, Direct

\* The invariant of the turns.
THEOREM Invariant == Spec => []IInv
  <1>1. Init => IInv
    <2>1. 0 \in 0 .. Retries /\ 0 \in 0 .. MaxRequests /\ 0 \in 0 .. Retries + 1
      BY RetriesAssumption DEF MaxRequests
    <2>2. Idle \in Turns
      BY <2>1 DEF Idle, Turns, Places
    <2>3. Idle.at = "idle" /\ Idle.by = "none" /\ Idle.attempt = 0 /\ Idle.refused = 0
      BY DEF Idle
    <2>4. Sound(Idle)
      BY <2>2, <2>3 DEF Sound, Due, Bounded, Placed
    <2> QED  BY <2>2, <2>3, <2>4, NoRunAssumption DEF Init, IInv, Direct
  <1>2. IInv /\ [Next]_vars => IInv'
    <2> SUFFICES ASSUME IInv, [Next]_vars PROVE IInv'
      OBVIOUS
    <2>1. ASSUME NEW s \in Settings, Save(s) PROVE IInv'
      BY <2>1 DEF Save, IInv
    <2>2. ASSUME NEW r \in Runs, Turn(r) \/ Progress(r) PROVE IInv'
      BY <2>2, TurnKeeps, RetryKeeps, ReturnKeeps, ReturnDirectKeeps, ReturnSecondKeeps,
        ReturnAgainKeeps DEF Progress
    <2>3. CASE UNCHANGED vars
      BY <2>3 DEF vars, IInv
    <2> QED  BY <2>1, <2>2, <2>3 DEF Next
  <1> QED  BY <1>1, <1>2, PTL DEF Spec

\* Every counter of a turn keeps its range, and the loop is with the run whose
\* request it makes (chat_with_rate_limit).
THEOREM TypeCorrect == Spec => []TypeOK
  <1>1. IInv => TypeOK
    BY DEF IInv, TypeOK, Turns, Direct
  <1> QED  BY <1>1, Invariant, PTL

\* The rules answer only for a model that failed, and after the last refusal
\* only for a second one that failed as well or is not there; where an SDK was
\* missing they do not (resilience.py:54-83, nodes.py:291-305).
THEOREM StandInsAreDue == Spec => []StandInIsDue
  <1>1. IInv => StandInIsDue
    BY DEF IInv, Sound, Due, StandInIsDue
  <1> QED  BY <1>1, Invariant, PTL

\* No attempt without a refusal before it, and two requests an attempt at most,
\* with two more for a missing SDK (resilience.py:24-53, nodes.py:291-298).
THEOREM RequestsAreBounded == Spec => []RequestsBounded
  <1>1. IInv => RequestsBounded
    BY DEF IInv, Sound, Bounded, RequestsBounded
  <1> QED  BY <1>1, Invariant, PTL
=============================================================================
