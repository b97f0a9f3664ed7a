----------------------------- MODULE ToolLayer -----------------------------
(***************************************************************************)
(* The tools of one transfer run: app/tools/registry.py and base.py, the   *)
(* tools under app/tools/, tool_node and the re-computations of the gate   *)
(* handler and the monitor that call them, and what they answer.           *)
(*                                                                         *)
(* The registry, the active problem and the mocked port are one for the    *)
(* whole process and change under the run's feet: every request handler    *)
(* may run where the run awaits.  What the tools answered is kept in the   *)
(* run's own context.  Gates are here only as the approvals they leave     *)
(* behind (AgentGraph has the rest), and the arithmetic is in SplitPlan.   *)
(***************************************************************************)
EXTENDS SplitPlan

CONSTANTS
    Yards,    \* container lists the port may report
    Fleets,   \* numbers of trucks it may report
    Rooms,    \* free places on the feeder it may report
    Asked,    \* road and sea counts an operator may ask for at a gate
    Reports   \* reports that may be injected, and for whom

\* The scenarios have 60 containers and more, of which 20 may go by sea.
ASSUME YardsAssumption == \A y \in Yards : y \in Seq(Sizes) /\ Len(y) > SeaLimit

Problems == {"itt", "other"}
Tools == {"candidates", "road", "sea", "split", "dispatch", "loading"}
Order == <<"candidates", "road", "sea", "split", "dispatch", "loading">>
PostApproval == {"dispatch"}

\* What PORTNET says of the feeder: as planned, a berth conflict, or a berth
\* conflict with another latest departure.
Berths == {"clear", "conflict", "delayed"}

ASSUME PortAssumption ==
    /\ Fleets \subseteq Nat \ {0} /\ Rooms \subseteq Nat
    /\ Reports \subseteq [whom : {"own", "other", "all"}, berth : Berths]

Feeders == [room : Nat, berth : Berths]
NoLists == [road |-> {}, sea |-> {}, plan |-> Empty("none")]
NoLoads == [trucks |-> <<>>, plan |-> Empty("none")]
Unasked == [road |-> 0, sea |-> 0]

VARIABLES
    active,      \* the active problem
    registered,  \* the problem whose tools the registry holds
    port,        \* injected reports: for this run, for another, for all
    warned,      \* whether a report was ever injected for this run or for all
    context,     \* what this run's tools answered
    approved,    \* how many gates, in their order, have approved
    ok,          \* tools with an answer that is no error
    doing        \* where the run is, its pending calls and their arguments

process == <<active, registered, port, warned>>
vars == <<active, registered, port, warned, context, approved, ok, doing>>

Splits == [road : Nat, sea : Nat, trips : Nat, kind : Kinds]
Contexts ==
    [yard : Yards \cup {<<>>}, trucks : Fleets \cup {0}, feeder : Feeders,
     split : Splits, asked : Asked \cup {Unasked},
     loads : [trucks : Seq(SUBSET Nat), plan : Splits],
     loading : [road : SUBSET Nat, sea : SUBSET Nat, plan : Splits],
     dispatched : BOOLEAN, monitored : BOOLEAN, deviated : BOOLEAN]

TypeOK ==
    /\ active \in Problems /\ registered \in Problems \cup {"none"}
    /\ port \in [own : Berths, other : Berths, all : Berths]
    /\ warned \in BOOLEAN
    /\ context \in Contexts
    /\ approved \in 0 .. 4
    /\ ok \subseteq Tools
    /\ doing \in [step : {"idle", "asked", "guarded", "resplit"}, calls : SUBSET Tools,
                  pass : BOOLEAN, plan : Splits]
    \* What has an answer is in the context, and there are calls to make.
    /\ "candidates" \in ok => context.yard # <<>>
    /\ "road" \in ok => context.trucks # 0
    /\ doing.step \in {"asked", "guarded"} <=> doing.calls # {}
-----------------------------------------------------------------------------
Idle == [step |-> "idle", calls |-> {}, pass |-> FALSE, plan |-> Empty("none")]

Init ==
    /\ active = "itt" /\ registered = "none"
    /\ port = [own |-> "clear", other |-> "clear", all |-> "clear"]
    /\ warned = FALSE
    /\ context = [yard |-> <<>>, trucks |-> 0,
                  feeder |-> [room |-> 0, berth |-> "clear"],
                  split |-> Empty("none"), asked |-> Unasked,
                  loads |-> NoLoads, loading |-> NoLists,
                  dispatched |-> FALSE, monitored |-> FALSE, deviated |-> FALSE]
    /\ approved = 0 /\ ok = {} /\ doing = Idle
-----------------------------------------------------------------------------
(* The process: requests served while the run awaits.                      *)

\* The switch endpoint: the active problem, and its tools.
SwitchProblem(p) ==
    /\ active' = p /\ registered' = p
    /\ UNCHANGED <<port, warned, context, approved, ok, doing>>

\* A demo run or an event of another problem: its tools are not registered.
SetProblem(p) ==
    /\ active' = p
    /\ UNCHANGED <<registered, port, warned, context, approved, ok, doing>>

\* A berth conflict is injected, for one run or in the data all runs read.
Inject(report) ==
    /\ port' = [port EXCEPT ![report.whom] = report.berth]
    /\ warned' = (warned \/ report.whom # "other")
    /\ UNCHANGED <<active, registered, context, approved, ok, doing>>

ResetMocks ==
    /\ port' = [whom \in DOMAIN port |-> "clear"]
    /\ UNCHANGED <<active, registered, warned, context, approved, ok, doing>>

\* Faulty variant: an override is looked for whatever run it was made for.
BerthOfAnyone ==
    IF port.own # "clear" THEN port.own
    ELSE IF port.other # "clear" THEN port.other ELSE port.all

\* get_feeder_data: the run's own override goes before the common data.
Berth == IF port.own # "clear" THEN port.own ELSE port.all

\* Only an empty registry takes up the active problem.
Ensured == IF registered = "none" THEN active ELSE registered

\* Every query of the port is answered anew while a scenario is active.
Samples == [yard : Yards, trucks : Fleets]
-----------------------------------------------------------------------------
(* Asking for tools, and calling them.                                     *)

\* What the planner still wants; an answer that was an error does not count.
Needed(tool) ==
    /\ tool \notin ok
    /\ CASE tool = "candidates" -> TRUE
         [] tool \in {"road", "sea"} -> "candidates" \in ok
         [] tool = "split" -> {"road", "sea"} \subseteq ok
         [] tool = "dispatch" -> approved >= 2
         [] OTHER -> approved = 3

\* An agent turn.  The arguments are made of the context as it is now; a
\* language model may add a dispatch that no one has approved (early).
Ask(early) ==
    /\ doing.step = "idle"
    /\ registered' = Ensured
    /\ LET extra == IF early /\ approved < 2 /\ context.trucks # 0 THEN {"dispatch"} ELSE {}
           calls == {tool \in Tools : Needed(tool)} \cup extra
       IN  IF registered' = "itt" /\ calls # {}
           THEN doing' = [step |-> "asked", calls |-> calls, pass |-> FALSE, plan |-> context.split]
           ELSE UNCHANGED doing
    /\ UNCHANGED <<active, port, warned, context, approved, ok>>

\* Pending calls are made in the order the planner asks for tools.
Current == Order[Min({k \in DOMAIN Order : Order[k] \in doing.calls})]

\* The next pending call, or back to the agent.
Advanced ==
    IF doing.calls = {Current} THEN Idle
    ELSE [doing EXCEPT !.step = "asked", !.calls = @ \ {Current}, !.pass = FALSE]

\* tool_node before it awaits.  A tool that is not registered at this moment
\* is not asked for its approval, and gets no pass either.
Guard ==
    /\ doing.step = "asked"
    /\ registered' = Ensured
    /\ LET tool == Current
           strict == registered' = "itt" /\ tool \in PostApproval
       IN  IF strict /\ approved < 2
           THEN doing' = Advanced
           ELSE doing' = [doing EXCEPT !.step = "guarded", !.pass = strict]
    /\ UNCHANGED <<active, port, warned, context, approved, ok>>

\* Faulty variant: the registry leaves the approval to tool_node.
AdmittedUnasked(tool) == registered = "itt"

\* ToolRegistry.call: a tool it holds now, and a pass where one is due.
Admitted(tool) == registered = "itt" /\ (tool \in PostApproval => doing.pass)

Conflict == context.feeder.berth # "clear"

\* What a tool that is let in writes to the context.
Executed(tool) ==
    CASE tool = "candidates" -> \E y \in Yards : context' = [context EXCEPT !.yard = y]
      [] tool = "road" -> \E n \in Fleets : context' = [context EXCEPT !.trucks = n]
      [] tool = "sea" -> \E n \in Rooms :
            context' = [context EXCEPT !.feeder = [room |-> n, berth |-> Berth]]
      [] tool = "split" -> \E seen \in Samples :
            context' = [context EXCEPT !.split = OptimalSplit(context.yard, context.trucks, Conflict, seen)]
      [] tool = "dispatch" ->
            LET n == RoadCount(context.yard, context.trucks, doing.plan)
            IN  context' = [context EXCEPT !.dispatched = TRUE,
                               !.loads = [trucks |-> Loads(n, context.trucks), plan |-> doing.plan]]
      [] OTHER ->
            LET lists == Expected(context.yard, doing.plan)
            IN  context' = [context EXCEPT !.loading = [road |-> lists.road, sea |-> lists.sea,
                                                        plan |-> doing.plan]]

\* An error is recorded like an answer.
Failed(tool) ==
    context' = [context EXCEPT
        !.split = IF tool = "split" THEN Empty("failed") ELSE @,
        !.dispatched = @ \/ tool = "dispatch",
        !.loading.plan = IF tool = "loading" THEN Empty("failed") ELSE @]

\* Faulty variant: any answer counts.
AnsweredAnyhow(tool) == ok \cup {tool}

\* The tools that have succeeded, after this call.
Answered(tool) == IF Admitted(tool) THEN ok \cup {tool} ELSE ok

\* The awaited call, in a task of its own.
Call ==
    /\ doing.step = "guarded"
    /\ LET tool == Current
       IN  /\ IF Admitted(tool) THEN Executed(tool) ELSE Failed(tool)
           /\ ok' = Answered(tool)
    /\ doing' = Advanced
    /\ UNCHANGED <<active, registered, port, warned, approved>>
-----------------------------------------------------------------------------
(* The gates and the monitor.                                              *)

\* A gate is approved: HITL-1 once there is a split, be it an error, HITL-4
\* once there is a loading sequence or a dispatch, be they errors.
Approve ==
    /\ doing.step = "idle" /\ approved < 4
    /\ approved = 0 => context.split.kind # "none"
    /\ approved = 3 => context.dispatched \/ context.loading.plan.kind # "none"
    /\ approved' = approved + 1
    /\ UNCHANGED <<active, registered, port, warned, context, ok, doing>>

\* Faulty variant: the fleet is queried once more for the new split.
RecomputedAfresh(seen) == OptimalSplit(context.yard, seen.trucks, Conflict, seen)

\* The split of a modification: the optimiser reads nothing of what was asked.
Recomputed(seen) == OptimalSplit(context.yard, context.trucks, Conflict, seen)

\* A gate, the emergency one of a deviation too, is answered with counts of
\* the operator's own.  Counts the guards do not accept change nothing.
Modify(asked) ==
    /\ doing.step = "idle"
    /\ approved < 4 \/ context.deviated
    /\ context.split.kind # "none"
    /\ Acceptable(asked, context.trucks, context.feeder.room)
    /\ \E seen \in Samples :
          context' = [context EXCEPT !.asked = asked,
                         !.split = IF registered = "itt" THEN Recomputed(seen) ELSE Empty("failed")]
    /\ UNCHANGED <<active, registered, port, warned, approved, ok, doing>>

\* The monitor asks PORTNET again, once.  Another latest departure is a
\* deviation as much as a conflict that was not there, also when it is the
\* planned one that is back.
MonitorQuery ==
    /\ doing.step = "idle" /\ approved = 4
    /\ context.dispatched /\ ~context.monitored
    /\ registered' = IF registered = "itt" THEN "itt" ELSE active
    /\ LET was == context.feeder.berth
           deviates == \/ was = "clear" /\ Berth # "clear"
                       \/ (was = "delayed") # (Berth = "delayed")
       IN  IF registered' = "itt" /\ deviates
           THEN /\ \E n \in Rooms :
                      context' = [context EXCEPT !.monitored = TRUE, !.deviated = TRUE,
                                     !.feeder = [room |-> n, berth |-> Berth]]
                /\ doing' = [Idle EXCEPT !.step = "resplit"]
           ELSE /\ context' = [context EXCEPT !.monitored = TRUE]
                /\ UNCHANGED doing
    /\ UNCHANGED <<active, port, warned, approved, ok>>

\* After a deviation the split is always the one for a berth conflict.
MonitorResplit ==
    /\ doing.step = "resplit"
    /\ \E seen \in Samples :
          context' = [context EXCEPT !.split =
              IF registered = "itt" THEN LimitedSplit(context.yard, seen) ELSE Empty("failed")]
    /\ doing' = Idle
    /\ UNCHANGED <<active, registered, port, warned, approved, ok>>
-----------------------------------------------------------------------------
Process ==
    \/ \E p \in Problems : SwitchProblem(p) \/ SetProblem(p)
    \/ \E report \in Reports : Inject(report)
    \/ ResetMocks

Run ==
    \/ \E early \in BOOLEAN : Ask(early)
    \/ Guard
    \/ Call
    \/ Approve
    \/ \E asked \in Asked : Modify(asked)
    \/ MonitorQuery
    \/ MonitorResplit

Next == Process \/ Run

Spec == Init /\ [][Next]_vars

\* The event loop comes back to a run that awaits an answer; requests and
\* operators owe nothing.
LiveSpec ==
    /\ Spec
    /\ WF_vars(\E early \in BOOLEAN : Ask(early))
    /\ WF_vars(Guard) /\ WF_vars(Call) /\ WF_vars(MonitorResplit)
-----------------------------------------------------------------------------
\* A split accounts for every container of the yard it was made for, in
\* a berth conflict too, where the optimiser puts it together from another
\* query's numbers.
SplitCoversYard ==
    IsPlan(context.split) => context.split.road + context.split.sea = Len(context.yard)

\* The trucks' loads are a partition of the containers that were sent, and
\* under a usual split no truck gets more than two.
DispatchFits ==
    LET loads == context.loads.trucks
        n == RoadCount(context.yard, context.trucks, context.loads.plan)
    IN  loads # <<>> =>
          /\ UNION {loads[k] : k \in DOMAIN loads} = 1 .. n
          /\ \A j, k \in DOMAIN loads : j # k => loads[j] \cap loads[k] = {}
          /\ context.loads.plan.kind = "fleet" =>
                \A k \in DOMAIN loads : Cardinality(loads[k]) <= 2

\* What the trucks carry and what Tuas is told to expect by sea are made at
\* different times, with modifications between; as long as the monitor has not
\* replaced the split they are every container of the yard, and none twice.
NobodyLeftBehind ==
    LET loads == context.loads.trucks
        sent == UNION {loads[k] : k \in DOMAIN loads}
    IN  ~context.deviated /\ IsPlan(context.loads.plan) /\ IsPlan(context.loading.plan) =>
          /\ sent \cup context.loading.sea = DOMAIN context.yard
          /\ sent \cap context.loading.sea = {}

\* A run sees a berth conflict, or deviates, only after one was injected for
\* it or for all runs, never for one that was meant for another run.
ConflictIsOwn == Conflict \/ context.deviated => warned

\* A dispatch that goes out takes no more trips than its split was approved
\* with: the split counts 40ft containers first, the dispatch takes the first
\* of the list.
TripsSuffice ==
    [][LET loads == context'.loads.trucks
           plan == context'.loads.plan
           sent == UNION {loads[k] : k \in DOMAIN loads}
       IN  context'.loads # context.loads /\ plan.kind \in {"fleet", "limited"}
             => TripsOf(context.yard, sent) <= plan.trips]_vars

\* A dispatch goes out under HITL-2 only, also when the registry is switched
\* away and back between tool_node's guard and the call.
GuardedTwice == [][context'.loads # context.loads => approved >= 2]_vars

\* Once the transfer's tools stay registered, a run gets a real split however
\* many of its calls had failed before.
RetriedUntilDone ==
    <>[](registered = "itt")
      => <>(context.yard # <<>> /\ context.trucks # 0 /\ IsPlan(context.split))

\* A modification that is accepted is the split the operator gets to see.
ModificationKept ==
    [][context'.asked # context.asked /\ IsPlan(context'.split)
         => context'.split.road = context'.asked.road]_vars
=============================================================================
