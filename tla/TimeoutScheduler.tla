-------------------------- MODULE TimeoutScheduler --------------------------
(***************************************************************************)
(* The gate timers of app/hitl/timeout_scheduler.py together with the two  *)
(* callers that drive them, hitl_node (app/hitl/gates.py) and the reset    *)
(* endpoints (app/main.py).  Of a run only its gates are kept: a run waits *)
(* at a gate, an answer resumes it, and it comes to the same gate again,   *)
(* to the next one, or to its end.                                         *)
(*                                                                         *)
(* A timer is an asyncio task.  cancel() does not end it: the task is      *)
(* thrown a CancelledError when the event loop next runs it, and only then *)
(* does its finally clause drop whatever the registry holds under its key. *)
(* A timer that fires works on the dictionary hitl_node had before its     *)
(* interrupt, which is not the checkpoint.                                 *)
(***************************************************************************)
EXTENDS Integers

CONSTANTS
    Runs,         \* thread ids
    Invocations,  \* answers that may be under way at once, over all runs
    LastGate,     \* gates 1..LastGate are passed in order
    Tasks,        \* ids of timer tasks that can be alive at once
    Races,        \* may a run be answered while an answer to it is under way?
    Resets        \* the sets of runs that can be reset together

ASSUME SchedulerAssumption ==
    /\ LastGate \in Nat \ {0}
    /\ Races \in BOOLEAN /\ Resets \subseteq SUBSET Runs

Gates == 1..LastGate
NoGate == 0
Keys == Runs \X Gates
NoTask == "no task"
NoKey == <<"no run", NoGate>>
Nobody == "nobody"
Phases == {"unused", "created", "sleeping", "cancelling"}
Steps == {"idle", "resuming", "showing"}

ASSUME IdsAssumption ==
    NoTask \notin Tasks /\ Nobody \notin Invocations /\ NoKey[1] \notin Runs

VARIABLES
    task,     \* each task's phase, the key it was scheduled under and, once
              \* it is being cancelled, the invocation that cancelled it
    pending,  \* the registry _pending: key -> task
    waiting,  \* the gate each run's checkpoint is interrupted at
    inv,      \* each invocation: its step, its run and the gate it deals with
    told,     \* keys for which a timeout was announced and not shown since
    gone      \* runs the operator has reset

vars == <<task, pending, waiting, inv, told, gone>>

Dead == [phase |-> "unused", key |-> NoKey, by |-> Nobody]
Idle == [step |-> "idle", run |-> NoKey[1], gate |-> NoGate]
-----------------------------------------------------------------------------
TypeOK ==
    /\ task \in [Tasks -> [phase : Phases, key : Keys \union {NoKey},
                         by : Invocations \union {Nobody}]]
    /\ pending \in [Keys -> Tasks \union {NoTask}]
    /\ waiting \in [Runs -> Gates \union {NoGate}]
    /\ inv \in [Invocations -> [step : Steps, run : Runs \union {NoKey[1]},
                                gate : Gates \union {NoGate}]]
    /\ told \subseteq Keys /\ gone \subseteq Runs

Alive(t) == task[t].phase \in {"created", "sleeping"}

\* Faulty variant: a task that already sleeps is taken for a finished one.
CancelledUnstarted(t, by) == IF task[t].phase = "created" THEN Dead ELSE task[t]

\* Task.cancel(): a task that never ran ends without its finally clause.
Cancelled(t, by) ==
    CASE task[t].phase = "created" -> Dead
      [] task[t].phase = "sleeping" -> [task[t] EXCEPT !.phase = "cancelling", !.by = by]
      [] OTHER -> task[t]

\* Faulty variant: the registry is searched by gate only.
CancelGate(keys, by) ==
    [t \in Tasks |-> IF \E k \in keys : task[t].key[2] = k[2]
                     THEN Cancelled(t, by) ELSE task[t]]

\* cancel_timeout, for the tasks of some keys.
CancelAt(keys, by) ==
    [t \in Tasks |-> IF \E k \in keys : pending[k] = t THEN Cancelled(t, by) ELSE task[t]]

\* Faulty variant: the early return is taken for a positive timeout as well.
ScheduleNothing(key, new, by) ==
    /\ task' = CancelAt({key}, by)
    /\ pending' = [pending EXCEPT ![key] = NoTask]

\* schedule_timeout: cancel what the key holds, then register a new task.  It
\* registers none for a gate without a timeout; all five gates have one.
Schedule(key, new, by) ==
    /\ task[new].phase = "unused"
    /\ task' = [CancelAt({key}, by) EXCEPT
                   ![new] = [phase |-> "created", key |-> key, by |-> Nobody]]
    /\ pending' = [pending EXCEPT ![key] = new]

Init ==
    /\ task = [t \in Tasks |-> Dead]
    /\ pending = [k \in Keys |-> NoTask]
    /\ waiting = [r \in Runs |-> NoGate]
    /\ inv \in [Invocations -> {Idle} \union
                    [step : {"showing"}, run : Runs, gate : {1}]]
    /\ \A r \in Runs : \E i \in Invocations : \A j \in Invocations : inv[j].run = r <=> j = i
    /\ told = {} /\ gone = {}

\* Every step of an invocation is some turns of the event loop after its last
\* one, and a cancelled task ends within a turn: before that step.
Unwound(i, r) ==
    \A t \in Tasks : task[t].phase = "cancelling" =>
        task[t].by # i /\ (task[t].by = Nobody => task[t].key[1] # r)

\* hitl_node up to its interrupt: the timer starts, the card is shown.
Show(i) ==
    /\ inv[i].step = "showing"
    /\ Unwound(i, inv[i].run)
    /\ LET key == <<inv[i].run, inv[i].gate>>
       IN  /\ \E new \in Tasks : Schedule(key, new, i)
           /\ told' = told \ {key}
    /\ waiting' = [waiting EXCEPT ![inv[i].run] = inv[i].gate]
    /\ inv' = [inv EXCEPT ![i] = Idle]
    /\ UNCHANGED gone

\* An answer arrives and its invocation loads the checkpoint.
Answer(i, r) ==
    /\ inv[i].step = "idle"
    /\ waiting[r] # NoGate
    /\ Unwound(i, r)
    /\ Races \/ \A j \in Invocations : inv[j].run # r
    /\ inv' = [inv EXCEPT ![i] = [step |-> "resuming", run |-> r, gate |-> waiting[r]]]
    /\ UNCHANGED <<task, pending, waiting, told, gone>>

\* Faulty variant: the last gate is not known for the last.
OnwardTooFar(run, next) == [step |-> "showing", run |-> run, gate |-> next]

\* Where a run goes from its answer: to a gate, or to its end.
Onward(run, next) ==
    IF next > LastGate THEN Idle ELSE [step |-> "showing", run |-> run, gate |-> next]

\* hitl_node again, from its start: it schedules a timer a second time, the
\* interrupt returns the answer, and the timer it has just scheduled is
\* cancelled before it ran.  Then the run goes on to a gate or to its end.
Resume(i) ==
    /\ inv[i].step = "resuming"
    /\ LET key == <<inv[i].run, inv[i].gate>>
           g == inv[i].gate
       IN  /\ task' = CancelAt({key}, i)
           /\ pending' = [pending EXCEPT ![key] = NoTask]
           /\ \E next \in {g, g + 1} :
                inv' = [inv EXCEPT ![i] = Onward(@.run, next)]
    /\ waiting' = [waiting EXCEPT ![inv[i].run] = NoGate]
    /\ UNCHANGED <<told, gone>>

\* The task's first turn on the event loop.
StartTask(t) ==
    /\ task[t].phase = "created"
    /\ task' = [task EXCEPT ![t].phase = "sleeping"]
    /\ UNCHANGED <<pending, waiting, inv, told, gone>>

\* Faulty variant: a timer that fired stays in the registry.
FireStays(t) ==
    /\ task[t].phase = "sleeping"
    /\ told' = told \union {task[t].key}
    /\ task' = [task EXCEPT ![t] = Dead]
    /\ UNCHANGED <<pending, waiting, inv, gone>>

\* The sleep is over.  The guard looks at the dictionary of the task itself,
\* where the gate is always still pending, so the timeout is announced and
\* handled there; the finally clause clears the key.
Fire(t) ==
    /\ task[t].phase = "sleeping"
    /\ told' = told \union {task[t].key}
    /\ pending' = [pending EXCEPT ![task[t].key] = NoTask]
    /\ task' = [task EXCEPT ![t] = Dead]
    /\ UNCHANGED <<waiting, inv, gone>>

\* The CancelledError arrives: the finally clause clears the key, whichever
\* task it names by now.
Unwind(t) ==
    /\ task[t].phase = "cancelling"
    /\ pending' = [pending EXCEPT ![task[t].key] = NoTask]
    /\ task' = [task EXCEPT ![t] = Dead]
    /\ UNCHANGED <<waiting, inv, told, gone>>

\* The reset endpoints, for one run or for all: every timer of every run is
\* cancelled, and the checkpoints stay what they are.
Reset(runs) ==
    /\ task' = CancelAt(Keys, Nobody)
    /\ pending' = [k \in Keys |-> NoTask]
    /\ gone' = gone \union runs
    /\ UNCHANGED <<waiting, inv, told>>

Next ==
    \/ \E i \in Invocations : Show(i) \/ Resume(i) \/ \E r \in Runs : Answer(i, r)
    \/ \E t \in Tasks : StartTask(t) \/ Fire(t) \/ Unwind(t)
    \/ \E runs \in Resets : Reset(runs)

Spec == Init /\ [][Next]_vars

\* The event loop runs every task that is ready and every timer expires;
\* answers and resets are nobody's duty.
Fairness ==
    /\ \A i \in Invocations : WF_vars(Show(i)) /\ WF_vars(Resume(i))
    /\ \A t \in Tasks : WF_vars(StartTask(t)) /\ WF_vars(Fire(t)) /\ WF_vars(Unwind(t))

LiveSpec == Spec /\ Fairness
-----------------------------------------------------------------------------
\* While a run that was not reset waits at a gate whose timeout was not
\* announced yet, a timer of that gate is registered: it will fire, or be
\* cancelled by the answer (reset_run docstring: "Clear a single run's SSE
\* buffer, cancel HITL timeouts").
WaitingIsTimed ==
    \A r \in Runs \ gone :
        LET key == <<r, waiting[r]>>
        IN  waiting[r] # NoGate /\ key \notin told =>
              pending[key] # NoTask /\ Alive(pending[key])

\* The registry names only live timers, each under its own key: nothing is
\* cancelled for another gate, and no timer is out of reach of its answer.
RegistryIsExact ==
    /\ \A k \in Keys : pending[k] # NoTask =>
          Alive(pending[k]) /\ task[pending[k]].key = k
    /\ \A t \in Tasks : Alive(t) => pending[task[t].key] = t

\* A timeout is only announced for the gate its run is waiting at: once the
\* answer was taken, the timer stays silent (manual decisions cancel it).
NoFalseAlarm ==
    [][\A k \in Keys : k \in told' \ told => waiting[k[1]] = k[2]]_vars

\* A gate nobody answers is announced as timed out.
SilenceIsAnnounced ==
    \A r \in Runs, g \in Gates :
        waiting[r] = g ~> (waiting[r] # g \/ <<r, g>> \in told \/ r \in gone)

\* A gate that timed out is not waited for any longer: the run was escalated,
\* cancelled, held or halted (module docstring: the task "auto-fires the
\* configured timeout_action via handler").
TimeoutTakesEffect == \A k \in told : waiting[k[1]] # k[2]
=============================================================================
