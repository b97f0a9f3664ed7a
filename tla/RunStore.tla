------------------------------ MODULE RunStore ------------------------------
(***************************************************************************)
(* The run registry of app/main.py, the ordered dictionary `runs', and the *)
(* calls that fill it: webhook, demo run, background run, answer, resets.  *)
(* The graph behind a call is app/agent/run.py; of its thread only what an *)
(* observer can read from the checkpoint is kept.                          *)
(*                                                                         *)
(* Registry and checkpoint are two stores.  A webhook or demo run enters   *)
(* the registry when its call returns, a background run before it starts;  *)
(* an answer goes by the checkpoint alone and writes its report to         *)
(* whatever entry is there by then.                                        *)
(***************************************************************************)
EXTENDS Integers, FiniteSets, SequencesExt

CONSTANTS
    Ids,      \* run ids
    MaxRuns   \* MAX_RUNS

ASSUME StoreAssumption == MaxRuns \in Nat \ {0}

\* What the latest checkpoint of a thread shows: nothing yet, a step between
\* gates, a gate (of an escalation or not), a timeout just handled, the end.
Snapshots == {"none", "between", "waiting", "escalated", "halted", "completed"}
Interrupted == {"waiting", "escalated"}
Calls == {"none", "direct", "background", "answer"}
Statuses == {"running", "waiting_hitl", "escalated", "halted", "completed"}

VARIABLES
    runs,    \* the registry: entries in the order of their insertion
    thread,  \* what the checkpoint of each run shows
    call,    \* the call of each run that is under way: one at a time
    reset,   \* runs that a reset removed and that did not come back
    cut,     \* runs whose latest call ended in an exception
    lost     \* background runs that ended in an exception

vars == <<runs, thread, call, reset, cut, lost>>

Entries == [run : Ids, status : Statuses]
-----------------------------------------------------------------------------
\* No run is registered twice: insertion and removal go by the run id.
TypeOK ==
    /\ runs \in Seq(Entries)
    /\ \A i, j \in DOMAIN runs : runs[i].run = runs[j].run => i = j
    /\ thread \in [Ids -> Snapshots]
    /\ call \in [Ids -> Calls]
    /\ reset \subseteq Ids /\ cut \subseteq Ids /\ lost \subseteq Ids

Listed(store) == {store[k].run : k \in DOMAIN store}

\* The id is drawn by the call itself, so no one has used it before.
Fresh(r) == thread[r] = "none" /\ call[r] = "none" /\ r \notin cut

\* The status field of a checkpoint at a gate, or after a timeout.
StatusOf(snapshot) == IF snapshot = "waiting" THEN "waiting_hitl" ELSE snapshot

\* What run_agent and resume_agent report of a thread that stopped.
Report(snapshot) == IF snapshot \in Interrupted THEN "waiting_hitl" ELSE "completed"

\* Faulty variant: the registry is trimmed as soon as it is full.
TrimEarly(store) == IF Len(store) >= MaxRuns THEN Tail(store) ELSE store

\* Every insertion is followed by this; it drops one entry at most.
Trim(store) == IF Len(store) > MaxRuns THEN Tail(store) ELSE store

Marked(store, r, status) ==
    [k \in DOMAIN store |-> IF store[k].run = r THEN [store[k] EXCEPT !.status = status]
                            ELSE store[k]]

\* Faulty variant: a re-inserted entry is not followed by an eviction.
AnsweredUntrimmed(store, r, status) ==
    IF r \in Listed(store) THEN Marked(store, r, status)
    ELSE Append(store, [run |-> r, status |-> status])

\* Faulty variant: the entry is looked up and then inserted all the same.
AnsweredTwice(store, r, status) == Trim(Append(Marked(store, r, status), [run |-> r, status |-> status]))

\* Faulty variant: an entry that exists keeps the status it had.
AnsweredUnread(store, r, status) ==
    IF r \in Listed(store) THEN store
    ELSE Trim(Append(store, [run |-> r, status |-> status]))

\* hitl_respond: the entry is updated, or made anew if it is gone.
Answered(store, r, status) ==
    IF r \in Listed(store) THEN Marked(store, r, status)
    ELSE Trim(Append(store, [run |-> r, status |-> status]))

\* Faulty variant: the background run does not ask whether it is registered.
FinishedAnyway(store, r, status) ==
    IF r \in Listed(store) THEN Trim(Marked(store, r, status))
    ELSE Trim(Append(store, [run |-> r, status |-> status]))

\* Faulty variant: only a run that stopped at a gate is written back.
FinishedAtGate(store, r, status) ==
    Trim(IF status = "waiting_hitl" THEN Marked(store, r, status) ELSE store)

\* _run_agent_background: an entry that is gone stays gone.
Finished(store, r, status) == Trim(Marked(store, r, status))

\* receive_webhook and run_demo: the entry is made when the run has stopped.
Returned(kind, store, r, status) ==
    CASE kind = "answer" -> Answered(store, r, status)
      [] kind = "background" -> Finished(store, r, status)
      [] OTHER -> Trim(Append(store, [run |-> r, status |-> status]))

\* A new registry; who is in it was not reset, or came back.
Become(store) ==
    /\ runs' = store
    /\ reset' = reset \ Listed(store)
-----------------------------------------------------------------------------
Init ==
    /\ runs = <<>>
    /\ thread = [r \in Ids |-> "none"]
    /\ call = [r \in Ids |-> "none"]
    /\ reset = {} /\ cut = {} /\ lost = {}

\* A webhook or demo run: its client waits for the report.
StartDirect(r) ==
    /\ Fresh(r)
    /\ call' = [call EXCEPT ![r] = "direct"]
    /\ UNCHANGED <<runs, thread, reset, cut, lost>>

\* run_event: the entry is made at once, without an eviction, and the run is
\* left to a task of its own.
StartBackground(r) ==
    /\ Fresh(r)
    /\ call' = [call EXCEPT ![r] = "background"]
    /\ Become(Append(runs, [run |-> r, status |-> "running"]))
    /\ UNCHANGED <<thread, cut, lost>>

\* hitl_respond passes the staleness check and resumes the thread.  Whether
\* the run is registered does not matter.
Answer(r) ==
    /\ call[r] = "none"
    /\ thread[r] \notin {"none", "halted"}
    /\ call' = [call EXCEPT ![r] = "answer"]
    /\ UNCHANGED <<runs, thread, reset, cut, lost>>

\* hitl_respond finds the gate closed by a timeout, or its card expired: the
\* answer is refused and the entry takes the checkpoint's status.
Refuse(r) ==
    /\ thread[r] \in Interrupted \union {"halted"}
    /\ r \in Listed(runs)
    /\ runs' = Marked(runs, r, StatusOf(thread[r]))
    /\ UNCHANGED <<thread, call, reset, cut, lost>>

\* The graph writes a checkpoint; a thread that came to its end stays there.
Save(r) ==
    /\ call[r] # "none"
    /\ thread[r] # "completed"
    /\ \E snapshot \in Snapshots \ {"none"} : thread' = [thread EXCEPT ![r] = snapshot]
    /\ UNCHANGED <<runs, call, reset, cut, lost>>

\* The graph stopped at a gate or at its end.  Its report is written before
\* the call gives up the event loop again.
Return(r) ==
    /\ call[r] # "none"
    /\ thread[r] \in Interrupted \union {"completed"}
    /\ Become(Returned(call[r], runs, r, Report(thread[r])))
    /\ call' = [call EXCEPT ![r] = "none"]
    /\ cut' = cut \ {r}
    /\ UNCHANGED <<thread, lost>>

\* An exception.  A client is answered 500; the handler of a background run
\* fails on a name it does not know before it marks the entry.  No entry
\* changes.
Raise(r) ==
    /\ call[r] # "none"
    /\ call' = [call EXCEPT ![r] = "none"]
    /\ cut' = cut \union {r}
    /\ lost' = IF call[r] = "background" THEN lost \union {r} ELSE lost
    /\ UNCHANGED <<runs, thread, reset>>

\* The reset endpoints: one entry, or all.  Calls and threads go on.
ResetRun(r) ==
    /\ \E k \in DOMAIN runs : runs[k].run = r /\ runs' = RemoveAt(runs, k)
    /\ reset' = reset \union {r}
    /\ UNCHANGED <<thread, call, cut, lost>>

ResetAll ==
    /\ runs # <<>>
    /\ runs' = <<>>
    /\ reset' = reset \union Listed(runs)
    /\ UNCHANGED <<thread, call, cut, lost>>

Next ==
    \/ \E r \in Ids :
          \/ StartDirect(r) \/ StartBackground(r) \/ Answer(r) \/ Refuse(r)
          \/ Save(r) \/ Return(r) \/ Raise(r) \/ ResetRun(r)
    \/ ResetAll

Spec == Init /\ [][Next]_vars

\* Every call of the agent ends, by a report or an exception (AgentGraph's
\* EveryInvocationEnds; LangGraph's recursion limit ends the others).
Fairness == \A r \in Ids : WF_vars(Return(r) \/ Raise(r))

LiveSpec == Spec /\ Fairness
-----------------------------------------------------------------------------
Backgrounds == {r \in Ids : call[r] = "background"}

\* The registry exceeds MAX_RUNS by no more than the background runs that
\* are under way or failed: each of them was inserted without an eviction,
\* and only its regular end makes up for it (main.py:831).
RegistryBounded == Len(runs) <= MaxRuns + Cardinality(Backgrounds) + Cardinality(lost)

\* An entry says what the checkpoint says, once no call of its run is under
\* way: a gate is reported as waiting_hitl, the end as completed, whatever
\* was evicted, reset, answered or refused in between.  Two exceptions: the
\* latest call failed, or an expired answer wrote "escalated" into the entry
\* of a run that waits at its escalation's gate.
ReportIsCurrent ==
    \A k \in DOMAIN runs :
        LET r == runs[k].run
        IN  call[r] = "none" /\ r \notin cut =>
              runs[k].status \in {Report(thread[r]), thread[r]} \ {"waiting"}

\* A run that was reset comes back only by an answer to it: a run that ends
\* behind the operator's back does not (main.py:823, "if run_id in runs").
ResetIsFinal ==
    [][\A r \in reset : r \in Listed(runs') => call[r] = "answer" /\ Return(r)]_vars

\* An entry nobody reset is dropped only as the oldest one, and only while
\* the registry stays full.
EvictsOldest ==
    [][\A r \in Listed(runs) \ Listed(runs') :
          r \in reset' \/ (r = runs[1].run /\ Len(runs') >= MaxRuns)]_vars

\* A run the client was told is running gets its report, unless it fails or
\* leaves the registry.
StartedIsReported ==
    \A r \in Ids :
        (\E k \in DOMAIN runs : runs[k] = [run |-> r, status |-> "running"])
            ~> (r \in lost \/ \A k \in DOMAIN runs : runs[k] # [run |-> r, status |-> "running"])
=============================================================================
