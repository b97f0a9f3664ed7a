----------------------- MODULE TimeoutSchedulerProofs -----------------------
(***************************************************************************)
(* The registry of timers is exact, waiting gates are timed and no timer   *)
(* speaks for an answered gate, for any runs, gates, tasks and answers,    *)
(* provided that no two answers to one run are under way (Races).  The     *)
(* difficulty is the finally clause of a cancelled task, which drops what  *)
(* its key holds by then: the key has to be free until its turn comes.     *)
(***************************************************************************)
EXTENDS TimeoutScheduler, TLAPS

\* Each run is in the hands of one invocation, which knows its gate.
Owned ==
    /\ \A i \in Invocations : inv[i].step = "idle" => inv[i].run = NoKey[1]
    /\ \A i \in Invocations : inv[i].step # "idle" =>
          /\ inv[i].run \in Runs /\ inv[i].gate \in Gates
          /\ waiting[inv[i].run] = IF inv[i].step = "resuming" THEN inv[i].gate ELSE NoGate
    /\ \A i, j \in Invocations : inv[i].run \in Runs /\ inv[i].run = inv[j].run => i = j

\* A live timer is that of the gate its run waits at.
LiveIsWaiting ==
    \A t \in Tasks : Alive(t) =>
        task[t].key \in Keys /\ waiting[task[t].key[1]] = task[t].key[2]

\* No invocation has to do with the run, and none can come to.
Over(r) == waiting[r] = NoGate /\ \A i \in Invocations : inv[i].run # r

\* The key of a cancelled task is free.  Who cancelled it has not shown the
\* next gate yet, or has brought the run to its end.
Unwinds(t) ==
    /\ task[t].key \in Keys /\ pending[task[t].key] = NoTask
    /\ task[t].by # Nobody =>
          \/ inv[task[t].by].step = "showing" /\ inv[task[t].by].run = task[t].key[1]
          \/ inv[task[t].by].step = "idle" /\ Over(task[t].key[1])

Unwinding == \A t \in Tasks : task[t].phase = "cancelling" => Unwinds(t)

IInv == TypeOK /\ RegistryIsExact /\ Owned /\ LiveIsWaiting /\ Unwinding
-----------------------------------------------------------------------------
TaskRecords ==
    [phase : Phases, key : Keys \union {NoKey}, by : Invocations \union {Nobody}]

Ended(t, by) == {Dead, [phase |-> "cancelling", key |-> task[t].key, by |-> by]}

\* Cancelling some keys ends or begins to unwind their live timers, and leaves
\* every other task alone.
LEMMA CancelEffect ==
  ASSUME TypeOK, RegistryIsExact, NEW keys \in SUBSET Keys,
         NEW by \in Invocations \union {Nobody}, NEW t \in Tasks
  PROVE  /\ CancelAt(keys, by)[t] \in TaskRecords
         /\ Alive(t) /\ task[t].key \in keys => CancelAt(keys, by)[t] \in Ended(t, by)
         /\ ~(Alive(t) /\ task[t].key \in keys) => CancelAt(keys, by)[t] = task[t]
  <1> DEFINE named == \E k \in keys : pending[k] = t
  <1>1. named <=> Alive(t) /\ task[t].key \in keys
    <2>1. ASSUME NEW k \in keys, pending[k] = t PROVE Alive(t) /\ task[t].key = k
      BY <2>1, IdsAssumption DEF RegistryIsExact
    <2>2. Alive(t) => pending[task[t].key] = t
      BY DEF RegistryIsExact
    <2> QED  BY <2>1, <2>2
  <1>2. CancelAt(keys, by)[t] = IF named THEN Cancelled(t, by) ELSE task[t]
    BY DEF CancelAt
  <1>3. task[t] \in TaskRecords
    BY DEF TypeOK, TaskRecords
  <1>4. Alive(t) => Cancelled(t, by) \in Ended(t, by)
    BY <1>3 DEF Alive, Cancelled, Ended, TaskRecords
  <1>5. Cancelled(t, by) \in TaskRecords
    BY <1>3 DEF Cancelled, TaskRecords, Dead, Phases
  <1> HIDE DEF named
  <1> QED  BY <1>1, <1>2, <1>3, <1>4, <1>5

\* A task that ended is neither live nor, unless it is told so, unwinding.
LEMMA EndedIsNotLive ==
  ASSUME NEW t \in Tasks, NEW by, NEW e \in Ended(t, by)
  PROVE  /\ e.phase \notin {"created", "sleeping"}
         /\ e.phase = "cancelling" => e.key = task[t].key /\ e.by = by
  BY DEF Ended, Dead

\* The registry's and the invocations' types, as facts to cite.
LEMMA Types ==
  ASSUME TypeOK
  PROVE  /\ \A t \in Tasks : task[t] \in TaskRecords
         /\ \A k \in Keys : pending[k] \in Tasks \union {NoTask}
         /\ \A r \in Runs : waiting[r] \in Gates \union {NoGate}
         /\ \A r \in Runs, g \in Gates : <<r, g>> \in Keys /\ <<r, g>>[1] = r /\ <<r, g>>[2] = g
         /\ \A k \in Keys : k[1] \in Runs /\ k[2] \in Gates /\ k = <<k[1], k[2]>>
         /\ NoGate \notin Gates
  BY DEF TypeOK, TaskRecords, Keys, Gates, NoGate

\* At the start every run has its invocation and no timer.
LEMMA Initially == Init => IInv
  <1> SUFFICES ASSUME Init PROVE IInv
    OBVIOUS
  <1>1. \A i \in Invocations : inv[i] = Idle \/ inv[i] \in [step : {"showing"}, run : Runs, gate : {1}]
    BY DEF Init
  <1>2. 1 \in Gates
    BY SchedulerAssumption DEF Gates
  <1>3. TypeOK
    <2>1. inv \in [Invocations -> [step : Steps, run : Runs \union {NoKey[1]}, gate : Gates \union {NoGate}]]
      BY <1>2 DEF Init, Idle, Steps
    <2> QED  BY <2>1 DEF Init, TypeOK, Dead, Phases
  <1>4. RegistryIsExact /\ LiveIsWaiting /\ Unwinding
    BY IdsAssumption DEF Init, RegistryIsExact, LiveIsWaiting, Unwinding, Alive, Dead
  <1>5. Owned
    <2>1. ASSUME NEW i \in Invocations, NEW j \in Invocations, inv[i].run \in Runs, inv[i].run = inv[j].run
          PROVE  i = j
      BY <2>1 DEF Init
    <2>2. ASSUME NEW i \in Invocations, inv[i].step # "idle"
          PROVE  inv[i].run \in Runs /\ inv[i].gate \in Gates /\ inv[i].step # "resuming"
      BY <1>1, <1>2, <2>2 DEF Idle
    <2>3. ASSUME NEW i \in Invocations, inv[i].step = "idle" PROVE inv[i].run = NoKey[1]
      BY <1>1, <2>3 DEF Idle
    <2> QED  BY <2>1, <2>2, <2>3 DEF Owned, Init
  <1> QED  BY <1>3, <1>4, <1>5 DEF IInv
-----------------------------------------------------------------------------
(* The steps.  Each keeps IInv while a run has one answer under way.       *)

\* An invocation that shows a gate finds its key free and nothing unwinding
\* for its run.
LEMMA ShowFree ==
  ASSUME IInv, NEW i \in Invocations, inv[i].step = "showing", Unwound(i, inv[i].run)
  PROVE  /\ \A g \in Gates : pending[<<inv[i].run, g>>] = NoTask
         /\ \A t \in Tasks : task[t].phase = "cancelling" =>
               task[t].key[1] # inv[i].run /\ task[t].by # i
  <1> DEFINE r == inv[i].run
  <1>1. r \in Runs /\ waiting[r] = NoGate
    BY DEF IInv, Owned
  <1>2. ASSUME NEW g \in Gates, pending[<<r, g>>] # NoTask PROVE FALSE
    <2>1. <<r, g>> \in Keys /\ <<r, g>>[1] = r /\ <<r, g>>[2] = g /\ g # NoGate
      BY <1>1, Types DEF IInv
    <2>2. PICK t \in Tasks : pending[<<r, g>>] = t
      BY <1>2, <2>1, Types DEF IInv
    <2>3. Alive(t) /\ task[t].key = <<r, g>>
      BY <1>2, <2>1, <2>2 DEF IInv, RegistryIsExact
    <2>4. waiting[r] = g
      BY <2>1, <2>3 DEF IInv, LiveIsWaiting
    <2> QED  BY <1>1, <2>1, <2>4
  <1>3. ASSUME NEW t \in Tasks, task[t].phase = "cancelling"
        PROVE  task[t].key[1] # r /\ task[t].by # i
    <2>1. task[t].by # i /\ (task[t].by = Nobody => task[t].key[1] # r)
      BY <1>3 DEF Unwound
    <2>2. task[t].by \in Invocations \union {Nobody}
      BY Types DEF IInv, TaskRecords
    <2>3. ASSUME task[t].by # Nobody, task[t].key[1] = r PROVE FALSE
      <3>1. CASE inv[task[t].by].step = "showing" /\ inv[task[t].by].run = r
        BY <1>1, <2>1, <2>2, <2>3, <3>1 DEF IInv, Owned
      <3>2. CASE inv[task[t].by].step = "idle" /\ Over(r)
        BY <3>2 DEF Over
      <3> QED  BY <1>3, <2>3, <3>1, <3>2 DEF IInv, Unwinding, Unwinds
    <2> QED  BY <2>1, <2>3
  <1> QED  BY <1>2, <1>3

\* Showing a gate registers its timer and touches no other.
LEMMA ShowKeeps ==
  ASSUME IInv, NEW i \in Invocations, Show(i)
  PROVE  IInv'
  <1> DEFINE r == inv[i].run
             key == <<r, inv[i].gate>>
  <1>1. PICK new \in Tasks : Schedule(key, new, i)
    BY DEF Show
  <1>2. /\ inv[i].step = "showing" /\ r \in Runs /\ inv[i].gate \in Gates
        /\ key \in Keys /\ key[1] = r /\ key[2] = inv[i].gate
    <2>1. inv[i].step = "showing" /\ r \in Runs /\ inv[i].gate \in Gates
      BY DEF Show, IInv, Owned
    <2> QED  BY <2>1, Types DEF IInv
  <1>3. /\ \A g \in Gates : pending[<<r, g>>] = NoTask
        /\ \A t \in Tasks : task[t].phase = "cancelling" => task[t].key[1] # r /\ task[t].by # i
    BY <1>2, ShowFree DEF Show
  <1>4. \A t \in Tasks : Alive(t) => task[t].key[1] # r
    <2> SUFFICES ASSUME NEW t \in Tasks, Alive(t), task[t].key[1] = r PROVE FALSE
      OBVIOUS
    <2>1. task[t].key \in Keys /\ pending[task[t].key] = t
      BY DEF IInv, LiveIsWaiting, RegistryIsExact
    <2>2. task[t].key = <<r, task[t].key[2]>> /\ task[t].key[2] \in Gates
      BY <2>1, Types DEF IInv
    <2> QED  BY <1>3, <2>1, <2>2, IdsAssumption
  <1>5. CancelAt({key}, i) = task
    <2>1. \A t \in Tasks : CancelAt({key}, i)[t] = task[t]
      BY <1>2, <1>4, CancelEffect DEF IInv
    <2>2. CancelAt({key}, i) = [t \in Tasks |-> CancelAt({key}, i)[t]]
      BY DEF CancelAt
    <2>3. task = [t \in Tasks |-> task[t]]
      BY DEF IInv, TypeOK
    <2> QED  BY <2>1, <2>2, <2>3
  <1>6. /\ task[new].phase = "unused"
        /\ \A t \in Tasks : task'[t] = IF t = new THEN [phase |-> "created", key |-> key, by |-> Nobody]
                                       ELSE task[t]
        /\ \A k \in Keys : pending'[k] = IF k = key THEN new ELSE pending[k]
        /\ \A q \in Runs : waiting'[q] = IF q = r THEN inv[i].gate ELSE waiting[q]
        /\ \A j \in Invocations : inv'[j] = IF j = i THEN Idle ELSE inv[j]
    BY <1>1, <1>5 DEF Show, Schedule, IInv, TypeOK
  <1>7. TypeOK'
    <2>1. task' = [task EXCEPT ![new] = [phase |-> "created", key |-> key, by |-> Nobody]]
          /\ pending' = [pending EXCEPT ![key] = new]
      BY <1>1, <1>5 DEF Schedule
    <2> QED  BY <1>2, <2>1 DEF Show, IInv, TypeOK, Phases, Idle, Steps
  <1>8. RegistryIsExact'
    <2>1. ASSUME NEW k \in Keys, pending'[k] # NoTask
          PROVE  task'[pending'[k]].phase \in {"created", "sleeping"} /\ task'[pending'[k]].key = k
      <3>1. CASE k = key
        BY <1>6, <3>1
      <3>2. CASE k # key
        <4>1. pending[k] \in Tasks /\ Alive(pending[k]) /\ task[pending[k]].key = k
          BY <1>6, <2>1, <3>2, Types DEF IInv, RegistryIsExact
        <4>2. pending[k] # new
          BY <1>6, <4>1 DEF Alive
        <4> QED  BY <1>6, <3>2, <4>1, <4>2 DEF Alive
      <3> QED  BY <3>1, <3>2
    <2>2. ASSUME NEW t \in Tasks, Alive(t)' PROVE pending'[task'[t].key] = t
      <3>1. CASE t = new
        BY <1>2, <1>6, <3>1
      <3>2. CASE t # new
        <4>1. Alive(t) /\ task'[t] = task[t]
          BY <1>6, <2>2, <3>2 DEF Alive
        <4>2. task[t].key \in Keys /\ task[t].key # key /\ pending[task[t].key] = t
          BY <1>2, <1>4, <4>1 DEF IInv, LiveIsWaiting, RegistryIsExact
        <4> QED  BY <1>6, <4>1, <4>2
      <3> QED  BY <3>1, <3>2
    <2> QED  BY <2>1, <2>2 DEF RegistryIsExact, Alive
  <1>9. Owned'
    <2>1. NoKey[1] \notin Runs /\ Idle.run = NoKey[1] /\ Idle.step = "idle"
      BY IdsAssumption DEF Idle
    <2>2. \A j \in Invocations : j # i /\ inv[j].step # "idle" => inv[j].run # r
      BY <1>2 DEF IInv, Owned
    <2> QED  BY <1>6, <2>1, <2>2 DEF IInv, Owned
  <1>10. LiveIsWaiting'
    BY <1>2, <1>4, <1>6, Types DEF IInv, LiveIsWaiting, Alive
  <1>11. Unwinding'
    <2> SUFFICES ASSUME NEW t \in Tasks, task'[t].phase = "cancelling" PROVE Unwinds(t)'
      BY DEF Unwinding
    <2>1. task'[t] = task[t] /\ task[t].phase = "cancelling"
      BY <1>6
    <2>2. task[t].key \in Keys /\ task[t].key[1] # r /\ task[t].by # i
          /\ task[t].by \in Invocations \union {Nobody} /\ task[t].key[1] \in Runs
      BY <1>3, <2>1, Types DEF IInv, Unwinding, Unwinds, TaskRecords
    <2>3. Over(task[t].key[1]) => Over(task[t].key[1])'
      BY <1>6, <2>2, IdsAssumption DEF Over, Idle
    <2> QED  BY <1>2, <1>6, <2>1, <2>2, <2>3 DEF IInv, Unwinding, Unwinds
  <1> QED  BY <1>7, <1>8, <1>9, <1>10, <1>11 DEF IInv

\* An answer is taken by an invocation that has nothing left to unwind.
LEMMA AnswerKeeps ==
  ASSUME IInv, Races = FALSE, NEW i \in Invocations, NEW r \in Runs, Answer(i, r)
  PROVE  IInv'
  <1>1. /\ waiting[r] \in Gates /\ inv[i].step = "idle"
        /\ \A j \in Invocations : inv[j].run # r
        /\ \A j \in Invocations : inv'[j] = IF j = i THEN [step |-> "resuming", run |-> r, gate |-> waiting[r]]
                                            ELSE inv[j]
    BY Types DEF Answer, IInv, TypeOK
  <1>2. TypeOK'
    BY <1>1 DEF Answer, IInv, TypeOK, Steps
  <1>3. RegistryIsExact' /\ LiveIsWaiting'
    BY DEF Answer, IInv, RegistryIsExact, LiveIsWaiting, Alive
  <1>4. Owned'
    BY <1>1 DEF Answer, IInv, Owned
  <1>5. Unwinding'
    <2> SUFFICES ASSUME NEW t \in Tasks, task[t].phase = "cancelling" PROVE Unwinds(t)'
      BY DEF Unwinding, Answer
    <2>1. Unwinds(t) /\ task[t].by # i /\ task[t].by \in Invocations \union {Nobody}
          /\ task[t].key[1] \in Runs
      BY Types DEF IInv, Unwinding, Unwinds, Answer, Unwound, TaskRecords
    <2>2. Over(task[t].key[1]) => Over(task[t].key[1])'
      BY <1>1, Types, <2>1 DEF Over, Answer, IInv
    <2> QED  BY <1>1, <2>1, <2>2 DEF Unwinds, Answer
  <1> QED  BY <1>2, <1>3, <1>4, <1>5 DEF IInv

\* A resumed gate loses its timer; the run goes on, or is over.
LEMMA ResumeKeeps ==
  ASSUME IInv, NEW i \in Invocations, Resume(i)
  PROVE  IInv'
  <1> DEFINE r == inv[i].run
             key == <<r, inv[i].gate>>
  <1>1. /\ inv[i].step = "resuming" /\ r \in Runs /\ inv[i].gate \in Gates /\ waiting[r] = inv[i].gate
        /\ key \in Keys /\ key[1] = r /\ key[2] = inv[i].gate
    <2>1. inv[i].step = "resuming" /\ r \in Runs /\ inv[i].gate \in Gates /\ waiting[r] = inv[i].gate
      BY DEF Resume, IInv, Owned
    <2> QED  BY <2>1, Types DEF IInv
  <1>2. PICK next \in {inv[i].gate, inv[i].gate + 1} : inv' = [inv EXCEPT ![i] = Onward(@.run, next)]
    BY DEF Resume
  <1>3. /\ Onward(r, next) \in {Idle, [step |-> "showing", run |-> r, gate |-> next]}
        /\ Onward(r, next).step = "showing" => next \in Gates
    BY <1>1, SchedulerAssumption DEF Onward, Gates, Idle
  <1>4. /\ task' = CancelAt({key}, i)
        /\ \A k \in Keys : pending'[k] = IF k = key THEN NoTask ELSE pending[k]
        /\ \A q \in Runs : waiting'[q] = IF q = r THEN NoGate ELSE waiting[q]
        /\ \A j \in Invocations : inv'[j] = IF j = i THEN Onward(r, next) ELSE inv[j]
    BY <1>1, <1>2 DEF Resume, IInv, TypeOK
  <1>5. \A t \in Tasks :
          /\ task'[t] \in TaskRecords
          /\ Alive(t) /\ task[t].key = key => task'[t] \in Ended(t, i)
          /\ ~(Alive(t) /\ task[t].key = key) => task'[t] = task[t]
    BY <1>1, <1>4, CancelEffect DEF IInv
  <1>6. \A t \in Tasks : Alive(t)' => Alive(t) /\ task[t].key # key /\ task'[t] = task[t]
    BY <1>5, EndedIsNotLive DEF Alive
  <1>7. TypeOK'
    <2>1. task' \in [Tasks -> TaskRecords]
      BY <1>4, <1>5 DEF CancelAt
    <2>2. pending' = [pending EXCEPT ![key] = NoTask] /\ waiting' = [waiting EXCEPT ![r] = NoGate]
      BY DEF Resume
    <2>3. Onward(r, next) \in [step : Steps, run : Runs \union {NoKey[1]}, gate : Gates \union {NoGate}]
      BY <1>1, <1>3 DEF Idle, Steps
    <2>4. inv' \in [Invocations -> [step : Steps, run : Runs \union {NoKey[1]}, gate : Gates \union {NoGate}]]
      BY <1>1, <1>2, <2>3 DEF IInv, TypeOK
    <2> QED  BY <2>1, <2>2, <2>4 DEF Resume, IInv, TypeOK, TaskRecords
  <1>8. RegistryIsExact'
    <2>1. ASSUME NEW k \in Keys, pending'[k] # NoTask
          PROVE  task'[pending'[k]].phase \in {"created", "sleeping"} /\ task'[pending'[k]].key = k
      <3>1. k # key /\ pending'[k] = pending[k] /\ pending[k] \in Tasks
        BY <1>4, <2>1, Types DEF IInv
      <3>2. Alive(pending[k]) /\ task[pending[k]].key = k
        BY <2>1, <3>1 DEF IInv, RegistryIsExact
      <3>3. task'[pending[k]] = task[pending[k]]
        BY <1>5, <3>1, <3>2
      <3> QED  BY <3>1, <3>2, <3>3 DEF Alive
    <2>2. ASSUME NEW t \in Tasks, Alive(t)' PROVE pending'[task'[t].key] = t
      <3>1. Alive(t) /\ task[t].key # key /\ task'[t] = task[t]
        BY <1>6, <2>2
      <3>2. pending[task[t].key] = t /\ task[t].key \in Keys
        BY <3>1 DEF IInv, RegistryIsExact, LiveIsWaiting
      <3> QED  BY <1>4, <3>1, <3>2
    <2> QED  BY <2>1, <2>2 DEF RegistryIsExact, Alive
  <1>9. Owned'
    <2>1. NoKey[1] \notin Runs /\ Idle.run = NoKey[1] /\ Idle.step = "idle"
      BY IdsAssumption DEF Idle
    <2>2. \A j \in Invocations : j # i => inv[j].run # r
      BY <1>1 DEF IInv, Owned
    <2> QED  BY <1>1, <1>3, <1>4, <2>1, <2>2 DEF IInv, Owned
  <1>10. LiveIsWaiting'
    <2> SUFFICES ASSUME NEW t \in Tasks, Alive(t)'
                 PROVE  task'[t].key \in Keys /\ waiting'[task'[t].key[1]] = task'[t].key[2]
      BY DEF LiveIsWaiting
    <2>1. Alive(t) /\ task[t].key # key /\ task'[t] = task[t]
      BY <1>6
    <2>2. task[t].key \in Keys /\ waiting[task[t].key[1]] = task[t].key[2]
      BY <2>1 DEF IInv, LiveIsWaiting
    <2>3. task[t].key[1] # r
      BY <1>1, <2>1, <2>2, Types DEF IInv
    <2> QED  BY <1>4, <2>1, <2>2, <2>3, Types DEF IInv
  <1>11. Unwinding'
    <2> SUFFICES ASSUME NEW t \in Tasks, task'[t].phase = "cancelling" PROVE Unwinds(t)'
      BY DEF Unwinding
    <2>1. \/ inv'[i].step = "showing" /\ inv'[i].run = r
          \/ inv'[i].step = "idle" /\ inv'[i].run = NoKey[1]
      BY <1>1, <1>3, <1>4, IdsAssumption DEF Idle
    <2>2. ASSUME NEW q \in Runs, Over(q) PROVE Over(q)'
      <3>1. q # r
        BY <2>2 DEF Over
      <3>2. inv'[i].run # q
        BY <1>3, <1>4, <3>1, <2>2, IdsAssumption DEF Idle
      <3> QED  BY <1>4, <2>2, <3>1, <3>2 DEF Over
    <2>3. CASE Alive(t) /\ task[t].key = key
      <3>1. task'[t].key = key /\ task'[t].by = i
        BY <1>5, <2>3, EndedIsNotLive
      <3>2. ASSUME NEW q \in Runs, q = r, inv'[i].step = "idle" PROVE Over(q)'
        <4>1. \A j \in Invocations : j # i => inv[j].run # r
          BY <1>1 DEF IInv, Owned
        <4>2. inv'[i].run # q /\ waiting'[q] = NoGate
          BY <1>4, <2>1, <3>2, IdsAssumption
        <4> QED  BY <1>4, <3>2, <4>1, <4>2 DEF Over
      <3>3. task'[t].key[1] \in Runs /\ task'[t].key[1] = r /\ pending'[key] = NoTask
        BY <1>1, <1>4, <3>1
      <3>4. inv'[i].step = "idle" => Over(task[t].key[1])'
        BY <3>2, <3>3 DEF Over
      <3> QED  BY <1>1, <2>1, <3>1, <3>3, <3>4 DEF Unwinds
    <2>4. CASE ~(Alive(t) /\ task[t].key = key)
      <3>1. task'[t] = task[t] /\ Unwinds(t) /\ task[t].by \in Invocations \union {Nobody}
            /\ task[t].key[1] \in Runs
        BY <1>5, <2>4, Types DEF IInv, Unwinding, Unwinds, TaskRecords
      <3>2. task[t].by # i
        BY <1>1, <3>1, IdsAssumption DEF Unwinds
      <3> QED  BY <1>4, <2>2, <3>1, <3>2 DEF Unwinds
    <2> QED  BY <2>3, <2>4
  <1> QED  BY <1>7, <1>8, <1>9, <1>10, <1>11 DEF IInv

\* A task's first turn changes neither its key nor that it is live.
LEMMA StartTaskKeeps ==
  ASSUME IInv, NEW t \in Tasks, StartTask(t)
  PROVE  IInv'
  <1>1. /\ task[t].phase = "created"
        /\ \A u \in Tasks : task'[u] = IF u = t THEN [task[t] EXCEPT !.phase = "sleeping"] ELSE task[u]
    BY DEF StartTask, IInv, TypeOK
  <1>2. \A u \in Tasks : /\ task'[u].key = task[u].key
                         /\ Alive(u) <=> task'[u].phase \in {"created", "sleeping"}
                         /\ task'[u].phase = "cancelling" => task'[u] = task[u]
    BY <1>1, Types DEF Alive, IInv, TaskRecords
  <1>3. TypeOK'
    BY DEF StartTask, IInv, TypeOK, Phases
  <1>4. RegistryIsExact'
    BY <1>2, Types DEF StartTask, IInv, RegistryIsExact, Alive
  <1>5. LiveIsWaiting' /\ Owned'
    BY <1>2 DEF StartTask, IInv, LiveIsWaiting, Owned, Alive
  <1>6. Unwinding'
    BY <1>2 DEF StartTask, IInv, Unwinding, Unwinds, Over
  <1> QED  BY <1>3, <1>4, <1>5, <1>6 DEF IInv

\* A task that ends, having fired or unwound, whose key is free from then on.
LEMMA EndKeeps ==
  ASSUME IInv, NEW t \in Tasks, task[t].key \in Keys,
         pending[task[t].key] \in {t, NoTask},
         pending' = [pending EXCEPT ![task[t].key] = NoTask],
         task' = [task EXCEPT ![t] = Dead],
         UNCHANGED <<waiting, inv, gone>>, told' \subseteq Keys
  PROVE  IInv'
  <1> DEFINE key == task[t].key
  <1>1. /\ \A u \in Tasks : task'[u] = IF u = t THEN Dead ELSE task[u]
        /\ \A k \in Keys : pending'[k] = IF k = key THEN NoTask ELSE pending[k]
        /\ Dead.phase = "unused"
    BY DEF IInv, TypeOK, Dead
  <1>2. TypeOK'
    BY DEF IInv, TypeOK, Dead, Phases
  <1>3. \A u \in Tasks : Alive(u) /\ u # t => task[u].key \in Keys /\ task[u].key # key
    BY IdsAssumption DEF IInv, RegistryIsExact, LiveIsWaiting
  <1>4. RegistryIsExact'
    <2>1. ASSUME NEW k \in Keys, pending'[k] # NoTask
          PROVE  task'[pending'[k]].phase \in {"created", "sleeping"} /\ task'[pending'[k]].key = k
      <3>1. k # key /\ pending'[k] = pending[k] /\ pending[k] \in Tasks
        BY <1>1, <2>1, Types DEF IInv
      <3>2. Alive(pending[k]) /\ task[pending[k]].key = k
        BY <2>1, <3>1 DEF IInv, RegistryIsExact
      <3> QED  BY <1>1, <3>1, <3>2 DEF Alive
    <2>2. ASSUME NEW u \in Tasks, Alive(u)' PROVE pending'[task'[u].key] = u
      <3>1. u # t /\ Alive(u) /\ task'[u] = task[u]
        BY <1>1, <2>2 DEF Alive
      <3> QED  BY <1>1, <1>3, <3>1 DEF IInv, RegistryIsExact
    <2> QED  BY <2>1, <2>2 DEF RegistryIsExact, Alive
  <1>5. LiveIsWaiting' /\ Owned'
    BY <1>1 DEF IInv, LiveIsWaiting, Owned, Alive
  <1>6. Unwinding'
    BY <1>1 DEF IInv, Unwinding, Unwinds, Over
  <1> QED  BY <1>2, <1>4, <1>5, <1>6 DEF IInv

LEMMA FireKeeps ==
  ASSUME IInv, NEW t \in Tasks, Fire(t)
  PROVE  IInv'
  <1>1. Alive(t) /\ task[t].key \in Keys /\ pending[task[t].key] = t
    BY DEF Fire, Alive, IInv, LiveIsWaiting, RegistryIsExact
  <1> QED  BY <1>1, EndKeeps DEF Fire, IInv, TypeOK

LEMMA UnwindKeeps ==
  ASSUME IInv, NEW t \in Tasks, Unwind(t)
  PROVE  IInv'
  <1>1. task[t].key \in Keys /\ pending[task[t].key] = NoTask
    BY DEF Unwind, IInv, Unwinding, Unwinds
  <1> QED  BY <1>1, EndKeeps DEF Unwind, IInv, TypeOK

\* A reset ends every timer, on nobody's behalf.
LEMMA ResetKeeps ==
  ASSUME IInv, NEW runs \in Resets, Reset(runs)
  PROVE  IInv'
  <1>1. \A t \in Tasks :
          /\ task'[t] \in TaskRecords
          /\ Alive(t) => task'[t] \in Ended(t, Nobody)
          /\ ~Alive(t) => task'[t] = task[t]
    BY CancelEffect DEF Reset, IInv, LiveIsWaiting
  <1>2. \A t \in Tasks : ~Alive(t)'
    BY <1>1, EndedIsNotLive DEF Alive
  <1>3. \A k \in Keys : pending'[k] = NoTask
    BY DEF Reset
  <1>4. TypeOK'
    <2>1. task' \in [Tasks -> TaskRecords]
      BY <1>1 DEF Reset, CancelAt
    <2> QED  BY <2>1, SchedulerAssumption DEF Reset, IInv, TypeOK, TaskRecords
  <1>5. RegistryIsExact' /\ LiveIsWaiting' /\ Owned'
    BY <1>2, <1>3 DEF Reset, IInv, RegistryIsExact, LiveIsWaiting, Owned
  <1>6. Unwinding'
    <2> SUFFICES ASSUME NEW t \in Tasks, task'[t].phase = "cancelling" PROVE Unwinds(t)'
      BY DEF Unwinding
    <2>1. CASE Alive(t)
      BY <1>1, <1>3, <2>1, EndedIsNotLive DEF Unwinds, IInv, LiveIsWaiting
    <2>2. CASE ~Alive(t)
      BY <1>1, <1>3, <2>2 DEF Reset, IInv, Unwinding, Unwinds, Over
    <2> QED  BY <2>1, <2>2
  <1> QED  BY <1>4, <1>5, <1>6 DEF IInv

LEMMA StutterKeeps == IInv /\ UNCHANGED vars => IInv'
  BY DEF vars, IInv, TypeOK, RegistryIsExact, Owned, LiveIsWaiting, Unwinding, Unwinds, Over, Alive

\* The invariant of the timers.
THEOREM Invariant ==
  ASSUME Races = FALSE
  PROVE  Spec => []IInv
  <1>1. IInv /\ [Next]_vars => IInv'
    <2> SUFFICES ASSUME IInv, [Next]_vars PROVE IInv'
      OBVIOUS
    <2>1. ASSUME NEW i \in Invocations, Show(i) \/ Resume(i) PROVE IInv'
      BY <2>1, ShowKeeps, ResumeKeeps
    <2>2. ASSUME NEW i \in Invocations, NEW r \in Runs, Answer(i, r) PROVE IInv'
      BY <2>2, AnswerKeeps
    <2>3. ASSUME NEW t \in Tasks, StartTask(t) \/ Fire(t) \/ Unwind(t) PROVE IInv'
      BY <2>3, StartTaskKeeps, FireKeeps, UnwindKeeps
    <2>4. ASSUME NEW runs \in Resets, Reset(runs) PROVE IInv'
      BY <2>4, ResetKeeps
    <2> QED  BY <2>1, <2>2, <2>3, <2>4, StutterKeeps DEF Next
  <1> QED  BY <1>1, Initially, PTL DEF Spec

\* Every field keeps its range; a task is cancelled by an invocation or by a
\* reset (timeout_scheduler.py _pending, hitl_node, main.py).
THEOREM TypeCorrect ==
  ASSUME Races = FALSE
  PROVE  Spec => []TypeOK
  <1>1. IInv => TypeOK
    BY DEF IInv
  <1> QED  BY <1>1, Invariant, PTL

\* _pending names live timers only, and all of them (timeout_scheduler.py:100,
\* the finally clause).
THEOREM RegistryExact ==
  ASSUME Races = FALSE
  PROVE  Spec => []RegistryIsExact
  <1>1. IInv => RegistryIsExact
    BY DEF IInv
  <1> QED  BY <1>1, Invariant, PTL

\* A timeout is announced only for the gate its run waits at
\* (timeout_scheduler.py:77-99).
THEOREM AlarmsAreTrue ==
  ASSUME Races = FALSE
  PROVE  Spec => NoFalseAlarm
  <1> DEFINE Silent == \A k \in Keys : k \in told' \ told => waiting[k[1]] = k[2]
  <1>1. IInv /\ [Next]_vars => [Silent]_vars
    <2> SUFFICES ASSUME IInv, Next PROVE Silent
      OBVIOUS
    <2>1. ASSUME NEW t \in Tasks, Fire(t) PROVE Silent
      BY <2>1 DEF Fire, Alive, IInv, LiveIsWaiting
    <2> QED  BY <2>1 DEF Next, Show, Resume, Answer, StartTask, Unwind, Reset
  <1> QED  BY <1>1, Invariant, PTL DEF Spec, NoFalseAlarm

\* What WaitingIsTimed adds to an exact registry.
Timed ==
    \A r \in Runs \ gone :
        waiting[r] # NoGate /\ <<r, waiting[r]>> \notin told => pending[<<r, waiting[r]>>] # NoTask

\* A gate that is waited for has its live timer, or its timeout was announced,
\* where a reset is one of all runs (reset_run is not: main.py:478).
THEOREM WaitingGatesAreTimed ==
  ASSUME Races = FALSE, Resets \subseteq {Runs}
  PROVE  Spec => []WaitingIsTimed
  <1>1. Init => Timed
    BY DEF Init, Timed
  <1>2. IInv /\ Timed /\ [Next]_vars => Timed'
    <2> SUFFICES ASSUME IInv, Timed, [Next]_vars PROVE Timed'
      OBVIOUS
    <2> USE DEF IInv
    <2>1. ASSUME NEW i \in Invocations, Show(i) PROVE Timed'
      <3> DEFINE key == <<inv[i].run, inv[i].gate>>
      <3>1. PICK new \in Tasks : pending' = [pending EXCEPT ![key] = new]
        BY <2>1 DEF Show, Schedule
      <3>2. inv[i].run \in Runs /\ inv[i].gate \in Gates /\ key \in Keys
        BY <2>1, Types DEF Show, Owned
      <3>3. \A k \in Keys : pending'[k] = IF k = key THEN new ELSE pending[k]
        BY <3>1 DEF TypeOK
      <3>4. \A r \in Runs : waiting'[r] = IF r = inv[i].run THEN inv[i].gate ELSE waiting[r]
        BY <2>1 DEF Show, TypeOK
      <3>5. told' = told \ {key} /\ gone' = gone
        BY <2>1 DEF Show
      <3> SUFFICES ASSUME NEW r \in Runs \ gone, waiting'[r] # NoGate, <<r, waiting'[r]>> \notin told'
                   PROVE  pending'[<<r, waiting'[r]>>] # NoTask
        BY <3>5 DEF Timed
      <3>6. CASE r = inv[i].run
        BY <3>2, <3>3, <3>4, <3>6, IdsAssumption
      <3>7. CASE r # inv[i].run
        <4>1. <<r, waiting[r]>> \in Keys /\ <<r, waiting[r]>> # key /\ waiting'[r] = waiting[r]
          BY <3>4, <3>7, Types
        <4> QED  BY <3>3, <3>5, <4>1 DEF Timed
      <3> QED  BY <3>6, <3>7
    <2>2. ASSUME NEW i \in Invocations, Resume(i) PROVE Timed'
      <3> DEFINE key == <<inv[i].run, inv[i].gate>>
      <3>1. inv[i].run \in Runs /\ inv[i].gate \in Gates /\ key \in Keys
        BY <2>2, Types DEF Resume, Owned
      <3>2. \A k \in Keys : pending'[k] = IF k = key THEN NoTask ELSE pending[k]
        BY <2>2 DEF Resume, TypeOK
      <3>3. \A r \in Runs : waiting'[r] = IF r = inv[i].run THEN NoGate ELSE waiting[r]
        BY <2>2 DEF Resume, TypeOK
      <3>4. \A r \in Runs : r # inv[i].run /\ waiting[r] # NoGate =>
              <<r, waiting[r]>> \in Keys /\ <<r, waiting[r]>> # key
        BY Types
      <3> QED  BY <2>2, <3>2, <3>3, <3>4 DEF Resume, Timed
    <2>3. ASSUME NEW t \in Tasks, Fire(t) PROVE Timed'
      <3>1. \A k \in Keys : k # task[t].key => pending'[k] = pending[k]
        BY <2>3 DEF Fire, TypeOK
      <3>2. \A r \in Runs : waiting[r] # NoGate => <<r, waiting[r]>> \in Keys
        BY Types
      <3> QED  BY <2>3, <3>1, <3>2 DEF Fire, Timed
    <2>4. ASSUME NEW t \in Tasks, Unwind(t) PROVE Timed'
      <3>1. task[t].key \in Keys /\ pending[task[t].key] = NoTask
        BY <2>4 DEF Unwind, Unwinding, Unwinds
      <3>2. pending' = pending
        BY <2>4, <3>1 DEF Unwind, TypeOK
      <3> QED  BY <2>4, <3>2 DEF Unwind, Timed
    <2>5. ASSUME NEW runs \in Resets, Reset(runs) PROVE Timed'
      BY <2>5 DEF Reset, Timed
    <2>6. CASE UNCHANGED <<pending, waiting, told, gone>>
      BY <2>6 DEF Timed
    <2> QED  BY <2>1, <2>2, <2>3, <2>4, <2>5, <2>6 DEF Next, Answer, StartTask, vars
  <1>3. IInv /\ Timed => WaitingIsTimed
    <2> SUFFICES ASSUME IInv, Timed, NEW r \in Runs \ gone, waiting[r] # NoGate,
                        <<r, waiting[r]>> \notin told
                 PROVE  /\ pending[<<r, waiting[r]>>] # NoTask
                        /\ Alive(pending[<<r, waiting[r]>>])
      BY DEF WaitingIsTimed
    <2>1. <<r, waiting[r]>> \in Keys /\ pending[<<r, waiting[r]>>] # NoTask
      BY Types DEF IInv, Timed
    <2> QED  BY <2>1 DEF IInv, RegistryIsExact
  <1> QED  BY <1>1, <1>2, <1>3, Invariant, PTL DEF Spec
=============================================================================
