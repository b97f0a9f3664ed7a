---------------------------- MODULE PlannerCall ----------------------------
(***************************************************************************)
(* How an agent turn gets its reply: the choice of a model in agent_node   *)
(* (app/agent/nodes.py), the retries and the second model of               *)
(* chat_with_rate_limit (app/agent/resilience.py), what the models of      *)
(* app/shared/provider.py do with the tools they are sent, and the         *)
(* rule-based planner that answers when no model does.                     *)
(*                                                                         *)
(* All runs share one event loop.  A request is made in a thread, but a    *)
(* RuntimeError from there is taken for "there is no loop", and the model  *)
(* is asked once more, by the loop itself, which then serves no one else.  *)
(* An ImportError, of the SDK a model loads when it is asked, is taken by   *)
(* agent_node for a missing chat_with_rate_limit: it asks the first model   *)
(* again itself, and what goes wrong then ends the graph invocation.        *)
(* The settings in llm.yaml are read on every turn and again for the       *)
(* second model; the admin page may rewrite them at any time.  What a      *)
(* reply says is AgentGraph's concern.                                     *)
(***************************************************************************)
EXTENDS Integers, FiniteSets

CONSTANTS
    Runs,      \* runs whose turns are under way at the same time
    Retries,   \* how often a rate-limited model is asked again
    Settings,  \* what llm.yaml may say
    NoRun      \* nobody holds the loop

ASSUME RetriesAssumption == Retries \in Nat
ASSUME NoRunAssumption == NoRun \notin Runs

\* Families by the tool schemas they take: OpenAI's own and its lookalikes
\* (deepseek, ollama, vllm, lmstudio, custom) take only their own.
Families == {"openai", "anthropic", "gemini"}

\* keyed says whether the model's key is set, if it needs one; an unknown name
\* cannot be made a model of, and a second model of such a name is none.
ASSUME SettingsAssumption ==
    Settings \subseteq [model : Families \cup {"unknown"}, keyed : BOOLEAN,
                        second : Families \cup {"none"}]

\* A request is answered, refused with 429, or fails with a RuntimeError, an
\* ImportError or some other exception.
Outcomes == {"answer", "limit", "runtime", "import", "other"}

VARIABLES
    settings,  \* llm.yaml
    loop,      \* the run whose request the loop itself makes
    turn       \* where each run's turn is

vars == <<settings, loop, turn>>

\* Where chat_with_rate_limit is, then where agent_node is without it.
Places == {"idle", "asked", "direct", "waiting", "second", "second_direct",
           "again", "again_direct", "answered", "aborted"}

\* Where the loop itself makes the request.
Direct == {"direct", "second_direct", "again_direct"}

\* The most requests to the model chosen first.
MaxRequests == 2 * (Retries + 1) + 2

TypeOK ==
    /\ settings \in Settings
    /\ loop \in Runs \cup {NoRun}
    /\ turn \in [Runs -> [at : Places, model : Families \cup {"rules"}, attempt : 0 .. Retries,
                          requests : 0 .. MaxRequests, refused : 0 .. Retries + 1,
                          second : Families \cup {"none"},
                          failed : SUBSET {"model", "second", "sdk"},
                          by : {"none", "model", "second", "rules"}]]
    \* The loop makes the request of the run that is there, and only of that.
    /\ \A r \in Runs : turn[r].at \in Direct <=> loop = r

Idle == [at |-> "idle", model |-> "rules", attempt |-> 0, requests |-> 0, refused |-> 0,
         second |-> "none", failed |-> {}, by |-> "none"]

Init == settings \in Settings /\ loop = NoRun /\ turn = [r \in Runs |-> Idle]
-----------------------------------------------------------------------------
\* The admin page saves the settings or sets a key, in a request that the loop
\* serves too.
Save(s) ==
    /\ loop = NoRun
    /\ settings' = s
    /\ UNCHANGED <<loop, turn>>

\* The model for a turn, or the rules where none can be asked.
Chosen == IF settings.model = "unknown" \/ ~settings.keyed THEN "rules" ELSE settings.model

\* agent_node up to the first request.
Turn(r) ==
    /\ turn[r].at \in {"idle", "answered", "aborted"} /\ loop = NoRun
    /\ turn' = [turn EXCEPT ![r] = [Idle EXCEPT !.at = "asked", !.model = Chosen, !.requests = 1]]
    /\ UNCHANGED <<settings, loop>>

Answered(t, who) == [t EXCEPT !.at = "answered", !.by = who]

\* agent_node takes what the rules say when any other exception comes out.
ByRules(t) == Answered(t, "rules")

\* On an ImportError it asks the first model once more, in a thread.
Again(t) == [t EXCEPT !.at = "again", !.requests = @ + 1, !.failed = @ \cup {"sdk"}]

\* Nothing catches what goes wrong there.
AgainHandled(t, outcome) ==
    IF outcome = "answer" THEN Answered(t, "model") ELSE [t EXCEPT !.at = "aborted"]

\* Faulty variant: the second model is asked at the first refusal.
RefusedAtOnce(t) ==
    IF settings.second # "none"
    THEN [t EXCEPT !.at = "second", !.second = settings.second, !.refused = @ + 1, !.failed = @ \cup {"model"}]
    ELSE ByRules([t EXCEPT !.refused = @ + 1, !.failed = @ \cup {"model"}])

\* Faulty variant: a new wait, but the attempts are not counted.
RefusedUncounted(t) == [t EXCEPT !.at = "waiting", !.failed = @ \cup {"model"}]

\* A refusal: wait and ask again, or ask the model the settings name now.
Refused(t) ==
    LET after == [t EXCEPT !.refused = @ + 1, !.failed = @ \cup {"model"}]
    IN  IF t.attempt < Retries THEN [after EXCEPT !.at = "waiting"]
        ELSE IF settings.second # "none"
             THEN [after EXCEPT !.at = "second", !.second = settings.second]
             ELSE ByRules(after)

\* What any other exception does: it ends the attempts.
Broken(t, outcome) ==
    LET after == [t EXCEPT !.failed = @ \cup {"model"}]
    IN  IF outcome = "import" THEN Again(after) ELSE ByRules(after)

\* The exception handler of an attempt, and its return.
Handled(t, outcome) ==
    CASE outcome = "answer" -> Answered(t, IF t.model = "rules" THEN "rules" ELSE "model")
      [] outcome = "limit" -> Refused(t)
      [] OTHER -> Broken(t, outcome)

\* The thread's request comes back.  The rules always answer.
Return(r, outcome) ==
    /\ turn[r].at = "asked" /\ loop = NoRun
    /\ turn[r].model = "rules" => outcome = "answer"
    /\ IF outcome = "runtime"
       THEN /\ turn' = [turn EXCEPT ![r].at = "direct", ![r].requests = @ + 1]
            /\ loop' = r
       ELSE /\ turn' = [turn EXCEPT ![r] = Handled(@, outcome)]
            /\ UNCHANGED loop
    /\ UNCHANGED settings

\* Faulty variant: the loop is not given back.
ReturnDirectHeld(r, outcome) ==
    /\ turn[r].at = "direct"
    /\ turn' = [turn EXCEPT ![r] = Handled(@, outcome)]
    /\ UNCHANGED <<settings, loop>>

\* The loop's own request comes back.
ReturnDirect(r, outcome) ==
    /\ turn[r].at = "direct"
    /\ turn' = [turn EXCEPT ![r] = Handled(@, outcome)]
    /\ loop' = NoRun
    /\ UNCHANGED settings

\* After the wait, which doubles with every attempt.
Retry(r) ==
    /\ turn[r].at = "waiting" /\ loop = NoRun
    /\ turn' = [turn EXCEPT ![r].at = "asked", ![r].attempt = @ + 1, ![r].requests = @ + 1]
    /\ UNCHANGED <<settings, loop>>

\* The tools a model is sent are in the format of the model chosen first.
Format(model) == model

\* The formats each family's chat passes on or converts.
OpenAITakes == {"openai"}
AnthropicTakes == Families
GeminiTakes == Families

Takes(family, format) ==
    CASE family = "openai" -> format \in OpenAITakes
      [] family = "anthropic" -> format \in AnthropicTakes
      [] family = "gemini" -> format \in GeminiTakes

\* Faulty variant: the second model is asked until it answers.
SecondInsisted(t, outcome) ==
    IF outcome = "answer" THEN Answered(t, "second") ELSE [t EXCEPT !.at = "second"]

\* What the second model's outcome makes of a turn.
SecondHandled(t, outcome) ==
    LET after == [t EXCEPT !.failed = @ \cup {"second"}]
    IN  IF outcome = "answer" THEN Answered(t, "second")
        ELSE IF outcome = "import" THEN Again(after) ELSE ByRules(after)

\* The SDK is loaded before the tools are looked at.
ReturnSecond(r, outcome) ==
    /\ turn[r].at = "second" /\ loop = NoRun
    /\ ~Takes(turn[r].second, Format(turn[r].model)) => outcome \in {"import", "other"}
    /\ IF outcome = "runtime"
       THEN turn' = [turn EXCEPT ![r].at = "second_direct"] /\ loop' = r
       ELSE turn' = [turn EXCEPT ![r] = SecondHandled(@, outcome)] /\ UNCHANGED loop
    /\ UNCHANGED settings

ReturnSecondDirect(r, outcome) ==
    /\ turn[r].at = "second_direct"
    /\ turn' = [turn EXCEPT ![r] = SecondHandled(@, outcome)]
    /\ loop' = NoRun
    /\ UNCHANGED settings

\* agent_node's own request, by a thread or, after a RuntimeError, by the loop.
ReturnAgain(r, outcome) ==
    /\ turn[r].at = "again" /\ loop = NoRun
    /\ IF outcome = "runtime"
       THEN /\ turn' = [turn EXCEPT ![r].at = "again_direct", ![r].requests = @ + 1]
            /\ loop' = r
       ELSE turn' = [turn EXCEPT ![r] = AgainHandled(@, outcome)] /\ UNCHANGED loop
    /\ UNCHANGED settings

ReturnAgainDirect(r, outcome) ==
    /\ turn[r].at = "again_direct"
    /\ turn' = [turn EXCEPT ![r] = AgainHandled(@, outcome)]
    /\ loop' = NoRun
    /\ UNCHANGED settings

Progress(r) ==
    \/ Retry(r)
    \/ \E outcome \in Outcomes :
          \/ Return(r, outcome) \/ ReturnDirect(r, outcome)
          \/ ReturnSecond(r, outcome) \/ ReturnSecondDirect(r, outcome)
          \/ ReturnAgain(r, outcome) \/ ReturnAgainDirect(r, outcome)

Next ==
    \/ \E s \in Settings : Save(s)
    \/ \E r \in Runs : Turn(r) \/ Progress(r)

Spec == Init /\ [][Next]_vars

\* Every request comes back, answered, refused or timed out, and the loop takes
\* up what is ready in the order it became so, however long other runs held it.
LiveSpec == Spec /\ \A r \in Runs : SF_vars(Progress(r))
-----------------------------------------------------------------------------
\* The rules stand in for a model only when it failed, and for one that was
\* refused to the end only when there was no second one or that failed too;
\* and a second model answers for no other reason.  They do not stand in where
\* an SDK was missing: such a turn is answered by the first model or by nobody.
\* The settings change while the turn is under way.
StandInIsDue ==
    \A r \in Runs :
        LET t == turn[r] IN
        /\ t.by = "second" => t.refused = Retries + 1
        /\ t.by = "rules" /\ t.model # "rules" =>
              /\ "model" \in t.failed /\ "sdk" \notin t.failed
              /\ t.refused = Retries + 1 => t.second = "none" \/ "second" \in t.failed
        /\ t.at = "aborted" => "sdk" \in t.failed

\* A model that fails for another reason than a refusal is not tried again, but
\* for a missing SDK, its own or the second model's: every new attempt is one
\* more refusal, and an attempt is one request, or two if the loop had to
\* repeat it; a missing SDK costs one request more, which the loop may have to
\* repeat as well.
RequestsBounded ==
    \A r \in Runs :
        LET t == turn[r] IN
        /\ t.attempt <= t.refused /\ t.refused <= t.attempt + 1
        /\ t.at # "idle" =>
              /\ t.attempt < t.requests
              /\ t.requests <= 2 * (t.attempt + 1) + (IF "sdk" \in t.failed THEN 2 ELSE 0)

\* Every turn that was begun is answered, or given up for a missing SDK, whatever
\* else the models do and however often other runs hold the loop.
EveryTurnConcludes ==
    \A r \in Runs :
        turn[r].at # "idle" ~>
            \/ turn[r].at = "answered"
            \/ turn[r].at = "aborted" /\ "sdk" \in turn[r].failed
=============================================================================
