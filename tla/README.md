# Verification of PSA Nexus

PSA Nexus coordinates an inter-terminal transfer at a container port. An LLM agent (or a
deterministic mock planner) calls tools, and five human approval gates, HITL-1 to HITL-5, stand
between its proposals and the world: the split of the containers over road and sea (1), the
dispatch of the trucks (2), the feeder hold (3), the loading sequence at Tuas (4), and the duty
manager's decision on an escalation (5). This directory models the coordination logic of
`src/app` in TLA+, model-checks it with TLC, and proves its central safety properties with TLAPS.

Paths below are relative to `src/`.

## 1. The system

| Component | State it keeps | Operations | Hard behaviour |
|---|---|---|---|
| **Agent graph** `app/agent/graph.py`, `run.py` | one LangGraph thread per run: a checkpoint (state, next node), any number of `ainvoke` calls under way | start, resume, one step per node, save after each node | an invocation loads the checkpoint once and overwrites it at every step; nothing serialises two answers; exceptions cut invocations short |
| **Agent node** `nodes.py`, `escalation.py` | `hitl_pending`, `escalation`, `deferred_escalation_triggers`, `context` | two gating blocks, preview, planner reply, escalation, deferral | three copies of the gating logic have to agree |
| **Tool node** `nodes.py` | `tool_results`, context shortcuts | guard, run, record, escalate, HITL-4 | partial failure of a batch; errors recorded as results; tools unregistered between check, guard and call |
| **Human gates** `app/hitl/gates.py`, `handler.py`, `resilience.py` | `hitl_history`, `hitl_gate_entered_at` | interrupt, resume, approve / reject / modify / timeout / unknown, staleness | late and repeated answers; state written before the interrupt is lost |
| **Monitor** `monitor.py` | `monitored`, `deviation_log` | berth conflict, emergency re-split, stale data | runs once, after HITL-4 only |
| **Mock planner** `mock_provider.py` | none (a function of the state) | next batch of calls | retries, call ids against tool names, two different `deviation_log` fields |
| **Gate timers** `app/hitl/timeout_scheduler.py` | `_pending`: key to asyncio task | schedule, cancel, cancel all, fire, the `finally` clause | cancellation is delivered later; the timer works on a dictionary of its own |
| **Event stream** `app/agent/sse.py`, `main.py`, `use-sse.ts` | per run: replay buffer, id counter, live queue, queue flag | publish, stream (replay, then live), clear, reconnect | publishing during replay, lost chunks, buffer overflow, reset |
| **Run registry, HTTP API** `app/main.py` | `runs`, an ordered dictionary beside the checkpoints; problem status | webhook, demo run, background run, respond, status, reset of one or all | eviction at `MAX_RUNS`, background runs that fail, a reset or an answer while a graph is under way |
| **Tools and registry** `app/tools/registry.py`, `base.py` | the tools of one problem, `_active_pid` | register, call with the second approval guard | one registry for all runs, changed while a run awaits; errors come back as answers |
| **Split optimiser, validation** `tools/optimiser.py`, `agent/validation.py`, `dispatch_road_itt.py`, `tuas_loading.py` | none | the split, trips, loads per truck, lists for Tuas, guards on the operator's numbers | rounding, the order of 40ft and 20ft containers, a re-computation in a berth conflict |
| **Problem switch** `agent/problem_switcher.py`, `configs/` | the active problem | switch, set by a demo run or event | set without re-registering the tools |
| **Mock port systems** `app/mocks`, `tools/edge_cases.py` | injected overrides | query, inject, reset | overrides of one run and of all; every query draws its answer afresh |
| **LLM call** `shared/provider.py`, `agent/resilience.py`, `tools/tool_adapter.py`, `admin/router.py` | `llm.yaml`, the attempts of a turn | choose a model, retry, second model, rules, once more after a missing SDK | retries in a thread and on the loop, settings rewritten in mid-turn, exceptions that miss their handler |
| **Dashboard** `app/frontend` | one EventSource per page | open, reconnect, reset | the order of its reset |

How they interact. `main.py` starts a graph (`run_agent`) and returns when it interrupts at a
gate. `hitl_node` starts the gate's timer, publishes `hitl_required` and interrupts. The operator
answers through `POST /agent/hitl/respond`, which checks `is_hitl_stale` and resumes the thread
with `Command(resume=...)`; `hitl_node` then runs *again from its start*, reaches its interrupt a
second time, gets the answer, cancels the timer and calls `handle_hitl_response`. All nodes publish
to the broadcaster. The reset endpoints clear the stream and cancel timers, and leave checkpoints
and graphs under way alone.

What makes the components correct: gates pass in order and nothing is done before its gates; an
approval is the operator's own, for that very card; a rejected gate stays closed; an escalation
stands before everything else; trucks are sent once; runs end; a waiting gate always has its timer,
and only a waiting gate's timer speaks; a dashboard misses no event that is still buffered; the
registry stays bounded and says of a run what its checkpoint says; no container is lost or sent twice
between the yard, the trucks and the ship; a dispatch is guarded twice; every agent turn comes to an end.

## 2. Modules

```
GatePipeline                    what a run promises about its gates (abstract)
   ^ refined by
AgentGraph                      one thread: nodes, checkpoint, invocations, operator, clock
   ^            ^
MockPlanner   AgentGraphProofs <- AgentGraphPipeline <- MockPlannerProofs (extends MockPlanner too)
TimeoutScheduler <- TimeoutSchedulerProofs    the gate timers and their callers
SseBroadcaster <- SseBroadcasterProofs        the event stream of a run and its listeners
RunStore <- RunStoreProofs      the registry of runs against their checkpoints
SplitPlan <- ToolLayer <- ToolLayerProofs     the arithmetic of a split; the tools of one transfer
PlannerCall <- PlannerCallProofs              how an agent turn gets its reply
MCAgentGraph, MCMockPlanner, MCTimeoutScheduler, MCSseBroadcaster, MCToolLayer, MCPlannerCall    TLC instances
```

### AgentGraph
`ckpt` is the thread's latest checkpoint, `inv` the graph invocations, each with its own copy of the
run state, `shown` and `consent` record what the operator saw and approved, and `sent` counts the
dispatches that reached the trucking system. A run state is a record:

| field | code |
|---|---|
| `calls` | `pending_tool_calls`, by call id |
| `ok` | calls whose latest entry in `tool_results` is no error |
| `pending`, `esc`, `status` | `hitl_pending` (0 = none), `escalation`, `status` |
| `approved` | gates with an approve anywhere in `hitl_history` (what `_hitl_approved` reads) |
| `rejected` | gates whose latest entry in `hitl_history` is a reject |
| `facts` | the keys of `context` that are set, also by a call that failed |
| `done` | what a tool has really done: a dispatch, a hold, an update of the sequence whose result in the trace is no error |
| `split`, `card` | `context.split_result`; whether `context.dispatch_result` belongs to it |
| `deviated` | top-level `deviation_log` is not empty |
| `deferred`, `entered`, `trace` | deferred triggers, `hitl_gate_entered_at`, length of the trace while it matters |

One action per node and path: `AgentFastExit`, `AgentFastGate`, `AgentReason` (agent_node),
`RefuseTool`, `RunTool`, `MissTool`, `FinishTools` (tool_node, one step per call because other invocations run
between two awaited calls), `HitlPass`, `HitlPause`, `HitlResume` (hitl_node), `MonitorStep`; and of
the environment `Start`, `Respond`, `Abort` (an exception or the recursion limit), `Tick` (the clock
passes a gate's `timeout_seconds`). Every node's action contains its router and the save.

`Switches` lets another problem's tools be registered while a call is made (`MissTool`) or a split re-computed
(`ReplanOutcomes`). The guard of `tool_node` applies to a tool it *finds* (`nodes.py:742`), so the call of an
unregistered dispatch is neither refused nor carried out: `registry.call` answers it with an error, and the run
records that error like a result (`facts` gets `dispatched`, `done` does not). If the tool is back before the call,
the registry's own guard answers with an error as well, because `tool_node` passes its consent only for a tool it found.

The planner is any batch of calls, any number of unknown tools, or text. `MockPlanner` replaces it
by the deterministic planner of `mock_provider.py` (`Plan`): which calls it wants (`Wanted`), in the
order it lists them (`Listed`), at most three at once, a dispatch or a hold alone. While another problem's tools
are registered, `agent_node` finds none of them known (`PlannerReply`).

Definitions headed "Faulty variant" are not part of the specification: each is the operator after
it with a plausible mistake, and the property `PROJECT.json` names for it under `mutants` is violated
when the mistake is put in.

Two things of LangGraph are modelled as the code uses it: a node's writes are saved when it returns,
so what `hitl_node` wrote before its interrupt is not in the checkpoint; and a key a node *pops* is
no write, so the entry stamp survives an approve.

### GatePipeline
The abstract promise: `passed` grows by the next gate only, never while `urgent`; `taken` grows by
actions whose gate was passed. `AgentGraph!Pipeline` maps `passed` to the approved ordinary gates,
`taken` to the dispatch and the hold that were *done* and the monitor's re-plan, and `urgent` to an open escalation of the *checkpoint*.

### TimeoutScheduler
Tasks have the life cycle asyncio gives them: created, sleeping, cancelling, gone. `cancel()` on a
task that never ran ends it without its `finally`; on a sleeping task the `finally` runs at the
task's next turn and pops its key, *whatever task the key names by then*. `Unwound` states the
ordering asyncio does give: a cancelled task has its turn before the invocation that cancelled it
gets to its next node. `Fire` announces the timeout and leaves `waiting` alone, because the
dictionary it works on is not the checkpoint.

### SseBroadcaster
One run's buffer, counter and queue, the `stream()` generators, and the pages. Clearing forgets all
three while an open stream keeps its queue object; `epoch` tells these apart. `Replay` and `Live` are
separate steps, so events are published between the snapshot and every yield. `Drop` breaks a
connection unnoticed by the server, which goes on taking chunks off the queue.

### RunStore
`runs` is the registry, a sequence of entries in the order of insertion; `thread` is what the
checkpoint of each run shows; `call` the HTTP call or task that drives it. `StartDirect`,
`StartBackground`, `Answer`, `Refuse` are the beginnings of the calls, `Save` (LangGraph's, external)
a checkpoint written meanwhile, `Return` and `Raise` their ends, `ResetRun` and `ResetAll` the reset
endpoints. `Returned` says what each kind of call does to the registry at its end: the three differ in
whether they update, insert or leave an entry that is gone, and in when they evict. The graph between
two saves is `AgentGraph`'s concern.

### SplitPlan and ToolLayer
`SplitPlan` has the operators on numbers: `FleetSplit` and `LimitedSplit` (the optimiser without and
with a berth conflict), `TripsOf` (40ft containers first), `Loads` (the dispatch's chunks, rounded up),
`Expected` (the lists for Tuas), `Acceptable` (the guards on an operator's counts). A yard is the
sequence of its containers' sizes; which container it is, is its index.

`ToolLayer` is one transfer. `context` is what its tools answered, `doing` the batch of calls in hand,
`approved` how many gates have approved, as `AgentGraph` has them. `Ask` is the planner's turn,
`Guard` and `Call` the two halves of one call in `tool_node`, between which `asyncio.wait_for` lets
other requests run; `Modify`, `MonitorQuery` and `MonitorResplit` re-compute the split. `SwitchProblem`,
`SetProblem`, `Inject` and `ResetMocks` are those other requests. An error is an answer of its own kind
(`Empty("failed")`), because the code stores it where the answer would go.

### PlannerCall
One record per run says where its turn is (`at`), how often the model was asked and refused, and who
answered. `Turn` is `agent_node` up to the request, `Return` and `ReturnDirect` the two requests an
attempt may make, `Retry` the end of a wait, `ReturnSecond` and `ReturnSecondDirect` the second model,
`Save` the admin page. The providers import their SDK when they are asked, so an ImportError may come out of
any of these requests; `agent_node` takes it for a missing `resilience` module and asks the first model once more itself
(`Again`, `ReturnAgain`, `ReturnAgainDirect`). What goes wrong there, but for a RuntimeError, nobody catches: the
invocation ends (`aborted`, which is an `Abort` of `AgentGraph`). `loop` is the run whose request the event loop itself makes: as long as it does,
no other step is taken. A model is the *family* whose tool schemas it takes.

## 3. Runs

| run | instance | what it shows |
|---|---|---|
| `graph_any` | any planner over T4, T5, dispatch, hold, any of them unregistered under a call; one invocation, aborts, expiry, conflicts, timeouts | gate order, approvals behind every action, escalation first, emergency last, rejects, consent; the thread refines `GatePipeline` |
| `mock_safe` | mock planner, all 12 calls, tools unregistered under any call, all decisions, late answers, expiry, one trigger | one invocation at a time sends the trucks at most once |
| `mock_race` | mock planner, **two** invocations of one thread, failing dispatch, hold and T5, aborts, conflicts | notices and consent survive any overwriting of checkpoints (order and rejects: by the proofs, for any number of invocations) |
| `mock_live` | mock planner, attended | every invocation ends; an operator who approves in the end gets a finished run |
| `timers` | two runs, two gates, four tasks, reset of all runs | a waiting gate has its live timer, the registry is exact, no false alarm, silence is announced |
| `stream` | one page, one stream at a time, buffer 2, four events per epoch, one clear, three broken connections | what a page misses of the buffer is on its way and would be replayed to it, a first stream is exact, events arrive |
| `registry` | two runs over one place in the registry | the registry is bounded and without doubles, says what the checkpoints say, keeps out what was reset, evicts its oldest; a run reported as running gets its report |
| `tools` | two yards, fleets of one and two, one room, two operator's counts, three reports, problem switches | containers are conserved and fit from yard to trucks and ship, trips suffice, the double guard holds, injected reports stay with their run, failed calls are retried |
| `planner` | two runs, one retry, four settings, missing SDKs | the rules stand in only when they must, requests are bounded, every turn is answered or, without an SDK, given up |
| `late_answer`, `timer_effect`, `modify_ignored` | smallest instance showing it | the three disagreements of section 4 |

**Bounds and why they are enough.**
- *`Calls`, `MaxBatch`, `MaxBad` in `graph_any`.* T4 creates the split, T5 the sequence, dispatch and
  hold are the guarded calls; the other calls set facts no gate reads. Batches of one bring calls in
  any order with gates and escalations between them; `mock_safe` and `mock_race` run batches of three,
  where there are none between, and the proofs cover every batch size.
- *Triggers.* `mock_safe` has one deferrable trigger (`stale`), which the monitor reads as well. `graph_any` has
  none: its escalations are those of a timeout decision (HITL-1, HITL-3) and of the monitor's conflict, whose
  trigger is computed, not chosen (`long_hold`); `mock_live` has long feeder holds too. The proofs cover any set of
  triggers.
- *`Switches`, `Faulty`.* With `Switches` any call may come to an error and any reply find no tool known, which is
  more than a set of failing tools allows; so `graph_any` and `mock_safe` need no `Faulty` ones. `mock_race` has
  failing tools without switches, to keep two invocations small. `mock_live` and `late_answer` have neither: a
  run completes only if its tools are there to stay.
- *Two invocations* are what it takes for one to overwrite the other's checkpoint. `SYMMETRY` is used
  only in `mock_race`, which checks invariants only.
- *`TraceLimit` = 6* is the code's own limit. The length is dropped once there is a first result,
  when no router reads it any more.
- *`sent`* stops at 2, which is "more than once". *Ages* are fresh and old because only
  the comparison with `timeout_seconds` matters.
- *`timers`.* Two runs to have another run's timer disturbed, two gates to have a next one, four tasks
  so that one can be unwinding while its successor is scheduled, for both runs.
- *`registry`.* One place (`MaxRuns` = 1) makes every second insertion an eviction, two runs are one that
  is evicted and one that evicts. The theorems hold for any number of either.
- *`tools`.* The yards have an odd and an even number of 20ft containers, and a 40ft one early and late,
  which is what rounding and the trip count depend on; at most one container may go by sea (20 in the
  code) and both yards have more; one of the operator's counts is within the feeder's room and one is not.
  The reports are one for this run, one for another and one for all.
- *`planner`.* One retry; the code has two, but the second differs from the first in its count only, and the theorems
  hold for any number. The settings are the shipped pair (the second model
  cannot take the first one's tools), a pair that can, none, and no key. Two runs are one that holds the
  loop and one that waits for it.
- *`stream`.* Four events overflow a buffer of two twice; three breaks allow a reconnect that breaks
  again and a page reload; one clear separates two epochs.

`CHECK_DEADLOCK FALSE` is set because a run that has ended, a gate nobody answers and an event
bound that is used up really stop, and in `registry` every
run comes to its end. `tools` and `planner` are checked for deadlock.

**Fairness.** `mock_live`: weak fairness of starting and of the graph's own steps, which the event
loop schedules until the graph ends or interrupts; strong fairness of an approve for each gate, which
is the assumption on the operator (he may reject or modify any number of times in between).
`timers`: weak fairness of the node steps, of a task's first turn, of the end of its sleep and of its
cancellation; none for answers and resets. `stream`: weak fairness of each generator and of the
browser's reconnect; none for publishing, opening, closing and clearing. `registry`: weak fairness, for
each run, of the end of its call (return or exception). `tools`: weak fairness of the agent's turn, of
the two halves of a call and of the monitor's re-split; none for requests, approvals, modifications.
`planner`: strong fairness of each run's progress. Strong, because another run may hold the loop again
and again: the loop takes up what is ready in the order it became so (asyncio's ready queue), and every
request comes back or times out in its client library.

### Where the properties stop
These bound what the passing runs say. Those that name a property which fails are confirmed with TLC on
variations of the runs above; the others are read from the code while modelling it, and the model follows it.
- With two invocations under way `DispatchedOnce` fails: two approves of HITL-3 for one card resume
  the thread twice from one checkpoint, and both invocations reach the dispatch
  (`buildplan/demoplan.md:507` asks for "No duplicate processing"). The theorem `TrucksSentOnce` has the
  converse: one invocation at a time that no exception cuts short. An exception between the dispatch and the
  save leaves the checkpoint before the dispatch; a late answer to an earlier card resumes it there and
  dispatches again.
- With two invocations the thread does not refine `GatePipeline`: the slower one saves an older copy
  over an approval. `GateOrder` and the other state invariants hold nevertheless.
- With `Races = TRUE` (two answers to one run) `NoFalseAlarm` fails: a late `finally` pops the entry
  of the timer that replaced it, so the next answer cannot cancel that timer.
- With two streams on a run `NothingMissed` fails, for two pages and for one page whose broken
  predecessor is still being served: they share one queue (`buildplan/demoplan.md:506` says "Both tabs
  receive SSE events"). The theorem `NothingIsMissed` says that this is the only way: it assumes
  no more than that at no time two generators of the current queue exist.
- After a reconnect events arrive twice, from the buffer and from the queue, which goes on collecting
  (`FirstStreamIsExact` therefore speaks of first streams; `buildplan/demoplan.md:345`).
- The monitor's emergency plan is never carried out under the mock planner (theorem
  `EmergencyPlanNotCarriedOut`): the planner asks for the second dispatch only if
  `context.deviation_log` is set (`mock_provider.py:141`, `:196`, `:257`), the monitor writes the
  top-level `deviation_log` (`monitor.py:92`), and `README.md:482` says "on approve: send 4 more trucks,
  call T5 again".
- The dispatch preview is cached on the first split and survives a modified one (`nodes.py:67`, where the
  comment of `:64` explains the cache): the operator may approve the old card.
- A card rejected and shown again keeps the entry stamp of the first time (`resilience.py:158`). Once it
  exceeds the timeout no answer is accepted, and `ApprovalsComplete` fails in a run with `Expiry`.
- Resetting one run cancels the timers of all (`main.py:478`); `WaitingIsTimed` then fails for the others.
- HITL-5 rejected after a timeout leaves the escalation in place: agent and hitl pass the run to and fro
  until LangGraph's recursion limit. `mock_live` leaves timeouts out.
- `RunStore`: a run_demo or webhook call in flight during a reset of all runs enters its run afterwards,
  as a new entry (`ResetIsFinal` speaks of runs a reset *removed*). A background run that raises keeps the
  status `running`, because its error handler uses a name `main.py` does not import (`main.py:834`); the
  properties except it. An expired answer to HITL-5 writes `escalated` into an entry whose run waits.
  A background run's own entry may be the one that is evicted when it reports.
- `ToolLayer`: `NobodyLeftBehind` needs that the monitor has not re-split; after it a retried dispatch
  sends other containers than Tuas was told of. In a berth conflict the sea share may exceed the
  feeder's room (only the confidence falls) and the split ignores the fleet. A split that *failed* is
  stored where a split goes: HITL-1 is put up for it, and a dispatch of a guessed count follows an approval.
  The monitor takes a departure that goes back to plan for a deviation. The stale-data trigger
  (`agent/escalation.py:80-86`, headed "Per-run stale isolation") reads the overrides of all runs, and
  `request_feeder_hold` ignores the override of its own.
- The registry takes up the active problem only when it is empty (`nodes.py:189`): after a demo run of
  another problem a transfer runs without its tools until a switch. `RetriedUntilDone` assumes they come
  back to stay.
- `PlannerCall`: `admin/router.py:189` says provider changes "take effect on next agent run", but a run's
  stored configuration has no `llm` part and the file is read on every turn. The second model is sent the tools
  in the first one's format (`resilience.py:72`), which for the shipped pair an OpenAI endpoint does not
  take (assumed of the endpoint), so a turn refused to the end falls to the rules. A RuntimeError raised in the
  request's thread is repeated on the event loop (`resilience.py:36-41`), which the comment of
  `nodes.py:294` ("run in thread pool to avoid blocking") means to avoid.
- `tool_node`'s guard is skipped for a tool that is not registered (`nodes.py:742-743`). After a problem switch between
  `agent_node`'s check of the names and that line, a dispatch that nobody approved leaves `context.dispatched` behind
  (`nodes.py:973`), and a hold `feeder_hold_result` (`:988`). No truck is sent, no feeder held, and the call counts as
  failed; `ActionsApproved` and `ImplementsPipeline` therefore speak of what was *done*, and do not hold of the
  record. The record opens HITL-4 in the block after the planner (`ReasonedGate`) and lets the monitor run,
  once the gates before have passed, and on the dashboard it reads like a dispatch.
- A missing SDK ends the invocation where the comment of `nodes.py:300` promises a "deterministic fallback response
  if LLM fails", and asks the first model a further time although nobody refused (`nodes.py:291-298`, where the
  ImportError meant is that of `app.agent.resilience`). `EveryTurnConcludes` and `RequestsBounded` name that case.
- `_compute_trips` (`dispatch_road_itt.py:26-42`) looks sizes up in a map of the default yard that the process keeps;
  in another scenario it counts a 40ft container it does not know as a 20ft one, so the `total_trips` it reports may be
  too low. `TripsSuffice` speaks of the trips the containers really need.
- Left out because nothing reads the difference: `schedule_timeout` registers no task for a timeout of zero or less
  (`timeout_scheduler.py:49`), which no gate has; `delta_dispatched` is also set when the dispatch's output contains
  the word "delta" (`nodes.py:975`), and only calls that wait for `context.deviation_log` read it.
- Approving with a card that is no longer pending is excluded in `graph_any` and `mock_race`
  (`LateAnswers = FALSE`), because of the first finding.

## 4. Findings

1. `late_answer`: the answer's `gate_id` is never compared with the pending gate
   (`hitl/gates.py:263`), so a second approve of HITL-1 approves HITL-2.
2. `timer_effect`: a timer that fires announces a timeout but does not change the thread.
3. `modify_ignored`: the road and sea counts of a modify are validated and passed to the optimiser,
   which never reads them; the split presented next is the one the fleet gives.

`PROJECT.json` quotes for each the line of the repository that says otherwise.

## 5. Proofs

All for **every** value of the constants that `ConstantsAssumption` allows: any set of calls, any
batch size, any triggers, any set of invocations.

- **AgentGraphProofs, part 1** `TypeCorrect`. One lemma per operator, one step per action.
- **AgentGraphProofs, part 2** `Invariant`, and from it `GatesPassInOrder`, `NothingTakenUnapproved`,
  `EscalationComesFirst`, `EmergencyComesLast`, `RejectedIsNotApproved`. The five are not inductive
  alone: that a rejected gate is not approved needs that the pending gate is not approved yet; that
  a hold that was made has HITL-1 and HITL-2 behind it needs the order of approvals, because the guard of
  `tool_node` looks at HITL-3 only; that the monitor re-plans a dispatched run needs that an invocation at
  the monitor was routed there. `NothingTakenUnapproved` is about `done`: the guard stands before every call that
  succeeds (`ExecutedSound`), and `MissTool`, which has no guard, does nothing. `IInv` is their conjunction (`Sound`) about the checkpoint *and every
  copy* an invocation is working on. That is why racing invocations cannot break it: whatever
  is saved last was sound by itself. Steps that leave the relevant fields alone are handled by
  `Agrees`. `GatingCopiesAgree` follows: a gate that the block before the planner puts up (`nodes.py`)
  the block after it puts up too, and the one at the end of `tool_node` offers HITL-4 in exactly the
  states in which the first would, for any copy of the state.
- **AgentGraphProofs, part 3** `ApprovalsHaveConsent`, assuming `LateAnswers = FALSE`. The invariant adds that
  an approve under way is for the gate of the copy it travels with. Finding 1 is the proof that the
  assumption is needed.
- **AgentGraphPipeline** `ThreadIsAPipeline`: with at most one invocation, `Spec` implements
  `GatePipeline`. `CopiesFollow` says the invocation's copy is the checkpoint, or ahead of it inside
  the tools node; each step is then quiet, passes one gate, or takes actions behind their gates.

- **MockPlannerProofs** `MockIsAPlanner`: `MockSpec` implements `Spec`, because the planner's batch is one of
  `Batches`: three registered calls at most. `MockKeepsOrder` and `MockThreadIsAPipeline` carry the theorems
  above over. Two invariants are the mock planner's own.
  `HonestInv` is about the checkpoint and every copy, so that it survives racing, aborts and expiry: a call
  among the results, or a notice in the batch in hand, has its deed (`done`) behind it, and nothing of the emergency
  plan is ever asked for. That the context flags say less, because a failed or an unregistered call sets them too, is
  why the invariant is stated with `done`. Notices are asked for in a turn of the planner and sent in a later step,
  possibly after a failing tool of the same batch; the batch part carries the truth over that gap.
  From it `PartiesToldTheTruth` and `EmergencyPlanNotCarriedOut`.
  `SingleInv` is for one invocation without aborts: a dispatch is alone in its batch; once trucks were sent
  a dispatch is among the results of every state that can still be worked on; the checkpoint lags behind
  the copy only while the tools run. From it `TrucksSentOnce`. Without the second part a planner that
  repeats a refused dispatch would have nothing to go by; without the third a resume could load a
  state from before the dispatch, which is exactly what an abort or a second invocation does.
  `PlannerAssumption`: the registered calls are the twelve the planner knows, a batch may hold three, and with
  `Switches` a reply may hold three unknown ones.
- **SseBroadcasterProofs** `TypeCorrect`, `FirstStream`, `NothingIsMissed`, `OneStreamMissesNothing`, for any
  buffer limit, any number of pages, streams, events, breaks and resets. The common shape: buffer,
  what a stream has yet to replay, the queue, and what the first stream's page has got, are each a block of
  consecutive ids. `FirstStream` needs that the three blocks of a run's only stream join without a gap
  or an overlap (`Exact`). `NothingIsMissed` assumes `[]OneListener` (no two generators of the current queue at one time)
  and not a single stream: it holds through reconnects, reloads and resets. Its invariant `MissInv` says that a page has every buffered event up to its last
  id, and that its stream can still bring the rest; that a page cannot overtake its stream
  uses that the queue ends at the counter.

The invariants of this part (`IInv`, `CopiesFollow`, `HonestInv`, `SingleInv`, and those of the stream, with
two pages and two streams) were model-checked before they were proved.

- **RunStoreProofs** `Invariant`, `TypeCorrect`, `RegistryStaysBounded`, `ReportsAreCurrent`, `ResetStaysFinal`,
  `OldestIsEvicted`. The bound is not inductive as it stands: an insertion without an eviction
  (`StartBackground`) is paid for when its task ends, so `CountedOnce` and `KnownOnce` tie the surplus
  to the background runs under way or failed. `ReportsAreCurrent` needs that a call under way is the
  only writer of its run's entry.
- **ToolLayerProofs** `Invariant`, and from it `TypeCorrect`, `ConflictsAreOwn`, `SplitsCover`, `LoadsFit`,
  `AllAccountedFor`, `DispatchIsApproved`, `DispatchWithinTrips`, for any yards longer than the sea limit,
  fleets, rooms, counts and reports. The invariant's heart is `Planned`: a split, *wherever* it is held (the
  current one, the arguments of calls in hand, the last dispatch, the lists), is one the optimiser gives
  for this yard and fleet. A dispatch and a loading list made at different times, with modifications
  between, are then complements, because until the monitor re-splits both follow from the same
  yard, fleet and feeder.
- **TimeoutSchedulerProofs** `TypeCorrect`, and, assuming one answer at a time per run (`Races` = FALSE),
  `RegistryExact`, `WaitingGatesAreTimed` (for resets of all runs) and `AlarmsAreTrue`. The invariant adds what
  makes the delayed `finally` harmless: the key of a task being cancelled is free until its turn comes
  (`Unwinding`), since whoever would schedule it anew is the one that cancelled it, or waits for it.

- **PlannerCallProofs** `TypeCorrect`, `StandInsAreDue`, `RequestsAreBounded`, for any number of retries and any
  settings, changed at any time. The invariant says for each place of a turn how many refusals and
  requests lie behind it, and that a missing SDK is behind every request `agent_node` makes itself.

`IInv` of each of these was model-checked before it was proved.

Only model-checked is what is out of the prover's reach, liveness under fairness: `EveryInvocationEnds`,
`ApprovalsComplete`, `SilenceIsAnnounced`, `EventsArrive`, `StartedIsReported`, `RetriedUntilDone`,
`EveryTurnConcludes`. Every safety property of a passing run is stated by a theorem. Of the properties
that section 4 refutes, `ConsentBacksApproval` is proved under the condition that finding 1 breaks
(`LateAnswers = FALSE`); the other two have no theorem. In the same way `TrucksSentOnce` and `NothingIsMissed`
assume what the cases of section 3 break: one invocation and no aborts, one generator at a time.

## 6. Not modelled

- `problem_statuses` in `main.py`, the status shown per problem, and the read-only endpoints; `get_registry`
  (which compares a YAML id with a file stem) and `simulate_webhook` (which fails on a missing import).
- Costs, emissions, durations and confidence: figures shown to the operator that no control reads,
  but for the confidence trigger, which `AgentGraph` lets fire at will.
- The cached fallbacks of tools: never registered, and never reached because `base.call` swallows every
  exception (`README.md:412` and `:824` describe them). Reading the YAML files. `create_provider_with_fallback`
  and `chat_with_retry`, which nothing calls.
- The seven trigger conditions, other than the feeder hold, are chosen freely at each check; their
  thresholds are data.
- Prompts, message history, truncation, wire formats, logging, trace contents, admin screens and login, and the
  dashboard's rendering: wording and layout, no control.
- The `waiting` node: no state routes to it (`TypeOK` fails in a variant that does).
- Heartbeats of the stream: they carry no id and change nothing.

## 7. Plan

1. *Core (done):* `AgentGraph`, `GatePipeline`, `MockPlanner`, `TimeoutScheduler`, `SseBroadcaster`, and the
   proofs about `AgentGraph`.
2. *Extend (done):* `RunStore`, `SplitPlan`, `ToolLayer`, `PlannerCall`, with their proofs, and those
   of `TimeoutScheduler`.
3. *Prove (done):* `MockSpec => Spec` and the safety of the mock planner, the event stream, the agreement
   of the gating copies.
4. *Described only:* duplicate dispatch under a doubled answer, two tabs on one stream, events doubled by a
   reconnect, the emergency plan, HITL-5 rejected after a timeout. Section 3 (Where the properties stop) reports
   them; they have no run of their own. What is left to prove about them is how little each needs to be ruled out.
