-------------------------- MODULE ToolLayerProofs --------------------------
(***************************************************************************)
(* Proofs about the tools of a run, for any yards, fleets, feeders and     *)
(* injected reports: that a split accounts for its yard, that a dispatch   *)
(* goes out approved, and that a report meant for another run is not seen. *)
(* First the arithmetic of SplitPlan, then one step per action.            *)
(***************************************************************************)
EXTENDS ToolLayer, FiniteSetTheorems, TLAPS

\* Minimum and maximum of two numbers.
LEMMA MinMax ==
  ASSUME NEW a \in Int, NEW b \in Int
  PROVE  /\ Min({a, b}) = IF a <= b THEN a ELSE b
         /\ Max({a, b}) = IF a >= b THEN a ELSE b
  BY DEF Min, Max

\* What is taken at most, or given at least, is a natural number.
LEMMA MinNat ==
  ASSUME NEW a \in Nat, NEW b \in Nat
  PROVE  Min({a, b}) \in Nat
  BY MinMax

LEMMA MaxNat ==
  ASSUME NEW a \in Int
  PROVE  Max({0, a}) \in Nat /\ (a >= 0 => Max({0, a}) = a)
  BY DEF Max

\* A yard's containers of one size are counted by a natural number, and no
\* more than there are.
LEMMA CountType ==
  ASSUME NEW yard \in Seq(Sizes), NEW size
  PROVE  Count(yard, size) \in Nat /\ Count(yard, size) <= Len(yard)
  <1> DEFINE some == {c \in DOMAIN yard : yard[c] = size}
  <1>0. DOMAIN yard = 1 .. Len(yard) /\ Len(yard) \in Nat
    OBVIOUS
  <1>1. IsFiniteSet(1 .. Len(yard)) /\ Cardinality(1 .. Len(yard)) = Len(yard)
    <2>1. Cardinality(1 .. Len(yard)) = IF 1 > Len(yard) THEN 0 ELSE Len(yard) - 1 + 1
      BY <1>0, FS_Interval
    <2> QED  BY <1>0, <2>1, FS_Interval
  <1>2. some \in SUBSET (1 .. Len(yard))
    BY <1>0
  <1>3. IsFiniteSet(some) /\ Cardinality(some) <= Len(yard)
    BY <1>1, <1>2, FS_Subset
  <1> QED  BY <1>3, FS_CardinalityType DEF Count

\* So are trips.
LEMMA TripsType ==
  ASSUME NEW f \in Nat, NEW t \in Nat
  PROVE  Trips(f, t) \in Nat
  BY DEF Trips

LEMMA BaselineType ==
  ASSUME NEW yard \in Seq(Sizes)
  PROVE  BaselineTrips(yard) \in Nat
  BY CountType DEF BaselineTrips

\* The trips of so many containers by road, 40ft ones first.
RoadTrips(yard, road) ==
  LET forties == Min({Count(yard, "40ft"), road}) IN Trips(forties, road - forties)

\* A plan by road accounts for the yard.
LEMMA ByRoadCovers ==
  ASSUME NEW yard \in Seq(Sizes), NEW road \in 0 .. Len(yard), NEW kind \in Kinds
  PROVE  /\ ByRoad(yard, road, kind) \in Splits
         /\ ByRoad(yard, road, kind).road = road
         /\ ByRoad(yard, road, kind).road + ByRoad(yard, road, kind).sea = Len(yard)
         /\ ByRoad(yard, road, kind).kind = kind
         /\ ByRoad(yard, road, kind).trips = RoadTrips(yard, road)
  <1> DEFINE forties == Min({Count(yard, "40ft"), road})
  <1>1. Len(yard) \in Nat /\ road \in Nat /\ Len(yard) - road \in Nat
    OBVIOUS
  <1>2. forties \in Nat /\ road - forties \in Nat
    BY <1>1, CountType, MinMax
  <1>3. Trips(forties, road - forties) \in Nat
    BY <1>2, TripsType
  <1> HIDE DEF forties
  <1>4. ByRoad(yard, road, kind) = [road |-> road, sea |-> Len(yard) - road,
            trips |-> Trips(forties, road - forties), kind |-> kind]
    BY DEF ByRoad, forties
  <1>5. RoadTrips(yard, road) = Trips(forties, road - forties)
    BY DEF RoadTrips, forties
  <1> QED  BY <1>1, <1>3, <1>4, <1>5 DEF Splits

\* The usual split accounts for the yard, whatever the fleet.
LEMMA FleetSplitCovers ==
  ASSUME NEW yard \in Seq(Sizes), NEW trucks \in Nat
  PROVE  /\ FleetSplit(yard, trucks) \in Splits
         /\ FleetSplit(yard, trucks).road + FleetSplit(yard, trucks).sea = Len(yard)
         /\ FleetSplit(yard, trucks).road = IF Len(yard) <= 2 * trucks THEN Len(yard) ELSE 2 * trucks
         /\ FleetSplit(yard, trucks).kind = "fleet"
         /\ FleetSplit(yard, trucks).trips = RoadTrips(yard, FleetSplit(yard, trucks).road)
  <1>1. Min({Len(yard), 2 * trucks}) \in 0 .. Len(yard)
        /\ Min({Len(yard), 2 * trucks}) = IF Len(yard) <= 2 * trucks THEN Len(yard) ELSE 2 * trucks
    BY MinMax
  <1> DEFINE road == Min({Len(yard), 2 * trucks})
  <1>2. FleetSplit(yard, trucks) = ByRoad(yard, road, "fleet")
    BY DEF FleetSplit
  <1> HIDE DEF road
  <1>3. /\ ByRoad(yard, road, "fleet") \in Splits /\ ByRoad(yard, road, "fleet").road = road
        /\ ByRoad(yard, road, "fleet").road + ByRoad(yard, road, "fleet").sea = Len(yard)
        /\ ByRoad(yard, road, "fleet").kind = "fleet"
        /\ ByRoad(yard, road, "fleet").trips = RoadTrips(yard, road)
    BY <1>1, ByRoadCovers DEF Kinds, road
  <1> QED  BY <1>1, <1>2, <1>3 DEF road

\* So does the one in a berth conflict, though it may be put together from
\* another query's numbers: only an alternative with the same counts is taken.
LEMMA LimitedSplitCovers ==
  ASSUME NEW yard \in Seq(Sizes), Len(yard) > SeaLimit, NEW seen \in [yard : Yards, trucks : Fleets]
  PROVE  /\ LimitedSplit(yard, seen) \in Splits
         /\ LimitedSplit(yard, seen).road = Len(yard) - SeaLimit
         /\ LimitedSplit(yard, seen).sea = SeaLimit
         /\ LimitedSplit(yard, seen).kind \in {"limited", "borrowed"}
         /\ LimitedSplit(yard, seen).kind = "limited" =>
              LimitedSplit(yard, seen).trips = RoadTrips(yard, LimitedSplit(yard, seen).road)
  <1>0. SeaLimit \in Nat /\ Len(yard) \in Nat /\ Len(yard) - SeaLimit \in Nat
    BY LimitAssumption
  <1> DEFINE road == Max({0, Len(yard) - SeaLimit})
             same == {a \in Alternatives(seen) : a.road = road /\ a.sea = SeaLimit}
  <1>1. road = Len(yard) - SeaLimit /\ road \in 0 .. Len(yard) /\ SeaLimit \in Nat
    <2>1. Max({0, Len(yard) - SeaLimit}) = Len(yard) - SeaLimit
      BY <1>0, MaxNat
    <2> QED  BY <1>0, <2>1
  <1>2. Alternatives(seen) \subseteq Splits /\ \A a \in Alternatives(seen) : a.kind = "borrowed"
    <2> DEFINE all == BaselineTrips(seen.yard)
               total == Len(seen.yard)
               sea == FleetSplit(seen.yard, seen.trucks).sea
    <2>1. seen.yard \in Seq(Sizes) /\ seen.trucks \in Nat
      BY YardsAssumption, PortAssumption
    <2>2. all \in Nat /\ total \in Nat
      BY <2>1, BaselineType
    <2>3. sea \in Nat
      BY <2>1, FleetSplitCovers DEF Splits
    <2>4. \A a \in Alternatives(seen) :
            \/ a = [road |-> Min({total, all + SeaLimit}), sea |-> 0,
                    trips |-> all + SeaLimit, kind |-> "borrowed"]
            \/ a = [road |-> Max({0, total - sea - SeaLimit}), sea |-> Min({total, sea + SeaLimit}),
                    trips |-> Max({0, all - SeaLimit}), kind |-> "borrowed"]
      BY DEF Alternatives
    <2> HIDE DEF all, total, sea
    <2>5. /\ Min({total, all + SeaLimit}) \in Nat /\ all + SeaLimit \in Nat
          /\ Max({0, total - sea - SeaLimit}) \in Nat /\ Min({total, sea + SeaLimit}) \in Nat
          /\ Max({0, all - SeaLimit}) \in Nat
      <3>1. all + SeaLimit \in Nat /\ sea + SeaLimit \in Nat
        BY <1>0, <2>2, <2>3
      <3>2. total - sea - SeaLimit \in Int /\ all - SeaLimit \in Int
        BY <1>0, <2>2, <2>3
      <3>3. Min({total, all + SeaLimit}) \in Nat /\ Min({total, sea + SeaLimit}) \in Nat
        BY <2>2, <3>1, MinNat
      <3>4. Max({0, total - sea - SeaLimit}) \in Nat
        BY <3>2, MaxNat
      <3>5. Max({0, all - SeaLimit}) \in Nat
        BY <3>2, MaxNat
      <3> QED  BY <3>1, <3>3, <3>4, <3>5
    <2> QED  BY <2>4, <2>5 DEF Splits, Kinds
  <1>3. CASE same # {}
    <2>1. LimitedSplit(yard, seen) = CHOOSE a \in same : TRUE
      BY <1>3 DEF LimitedSplit
    <2>2. LimitedSplit(yard, seen) \in same
      BY <1>3, <2>1
    <2> QED  BY <1>1, <1>2, <2>2
  <1>4. CASE same = {}
    <2>1. LimitedSplit(yard, seen) = [ByRoad(yard, road, "limited") EXCEPT !.sea = SeaLimit]
      BY <1>4 DEF LimitedSplit
    <2>2. ByRoad(yard, road, "limited") \in Splits /\ ByRoad(yard, road, "limited").road = road
          /\ ByRoad(yard, road, "limited").kind = "limited"
          /\ ByRoad(yard, road, "limited").trips = RoadTrips(yard, road)
      BY <1>1, ByRoadCovers DEF Kinds
    <2> HIDE DEF road
    <2> QED  BY <1>1, <2>1, <2>2 DEF Splits
  <1> QED  BY <1>3, <1>4
-----------------------------------------------------------------------------
\* Division is by its remainder.
LEMMA DivDef ==
  ASSUME NEW a \in Nat, NEW b \in Nat, b > 0
  PROVE  a \div b \in Nat /\ b * (a \div b) <= a /\ a < b * (a \div b) + b
  OBVIOUS

\* Multiples grow with their factor.
LEMMA Mono ==
  ASSUME NEW a \in Nat, NEW b \in Nat, NEW c \in Nat, a <= b
  PROVE  a * c <= b * c /\ a * c \in Nat /\ b * c \in Nat
  OBVIOUS

\* What is on the trucks.
Carried(loads) == UNION {loads[k] : k \in DOMAIN loads}

\* The loads are the containers sent: each chunk begins where the one before it
\* ends, and enough chunks are dealt out.
LEMMA LoadsCover ==
  ASSUME NEW n \in Nat, NEW trucks \in Nat, trucks > 0, NEW load, load = Loads(n, trucks)
  PROVE  DOMAIN load = 1 .. trucks /\ Carried(load) = 1 .. n
  <1> DEFINE chunk == (n + trucks - 1) \div trucks
  <1>1. chunk \in Nat /\ n <= trucks * chunk
    <2>1. n + trucks - 1 \in Nat
      OBVIOUS
    <2> DEFINE q == (n + trucks - 1) \div trucks
    <2>2. q \in Nat /\ n + trucks - 1 < trucks * q + trucks
      BY <2>1, DivDef
    <2>3. trucks * q \in Int
      BY <2>2
    <2> QED BY <2>2, <2>3
  <1> HIDE DEF chunk
  <1>2. /\ DOMAIN load = 1 .. trucks
        /\ \A k \in 1 .. trucks : load[k] = ((k - 1) * chunk + 1) .. Min({k * chunk, n})
    BY DEF Loads, chunk
  <1>3. ASSUME NEW k \in 1 .. trucks
        PROVE  load[k] \subseteq 1 .. n
    <2>1. (k - 1) * chunk \in Nat /\ k * chunk \in Nat
      BY <1>1, Mono
    <2>2. Min({k * chunk, n}) <= n /\ Min({k * chunk, n}) \in Nat
      BY <2>1, MinMax
    <2> QED  BY <1>2, <2>1, <2>2
  <1>4. ASSUME NEW c \in 1 .. n
        PROVE  \E k \in 1 .. trucks : c \in load[k]
    <2> DEFINE q == (c - 1) \div chunk
    <2>1. chunk > 0
      BY <1>1
    <2>2. q \in Nat /\ chunk * q <= c - 1 /\ c - 1 < chunk * q + chunk
      BY <1>1, <2>1, DivDef
    <2> HIDE DEF q
    <2>3. q < trucks
      <3> SUFFICES ASSUME trucks <= q PROVE FALSE
        BY <2>2
      <3>1. trucks * chunk <= q * chunk
        BY <1>1, <2>2, Mono
      <3>2. q * chunk = chunk * q /\ chunk * q \in Nat
        BY <1>1, <2>2
      <3> QED  BY <1>1, <2>2, <3>1, <3>2
    <2>4. q + 1 \in 1 .. trucks
      BY <2>2, <2>3
    <2>5. PICK k \in 1 .. trucks : k = q + 1
      BY <2>4
    <2>6. /\ (k - 1) * chunk = chunk * q /\ k * chunk = chunk * q + chunk
          /\ chunk * q \in Nat /\ k * chunk \in Nat
      <3>1. k - 1 = q
        BY <2>2, <2>5
      <3>2. q * chunk = chunk * q /\ (q + 1) * chunk = chunk * q + chunk /\ chunk * q \in Nat
        BY <1>1, <2>2
      <3> QED  BY <1>1, <2>5, <3>1, <3>2
    <2>7. c <= Min({k * chunk, n}) /\ Min({k * chunk, n}) \in Int
      BY <2>2, <2>6, MinMax
    <2>8. c \in ((k - 1) * chunk + 1) .. Min({k * chunk, n})
      BY <2>2, <2>6, <2>7
    <2>9. c \in load[k]
      BY <1>2, <2>8
    <2> QED  BY <2>9
  <1>5. UNION {load[k] : k \in 1 .. trucks} = 1 .. n
    BY <1>3, <1>4
  <1> QED  BY <1>2, <1>5 DEF Carried

\* No container is in two loads: a chunk ends before the next one begins.
LEMMA LoadsApart ==
  ASSUME NEW n \in Nat, NEW trucks \in Nat, trucks > 0,
         NEW j \in 1 .. trucks, NEW k \in 1 .. trucks, j # k
  PROVE  Loads(n, trucks)[j] \cap Loads(n, trucks)[k] = {}
  <1> DEFINE chunk == (n + trucks - 1) \div trucks
  <1>1. chunk \in Nat
    <2>1. n + trucks - 1 \in Nat
      OBVIOUS
    <2> QED  BY <2>1, DivDef
  <1> HIDE DEF chunk
  <1>2. \A i \in 1 .. trucks : Loads(n, trucks)[i] = ((i - 1) * chunk + 1) .. Min({i * chunk, n})
    BY DEF Loads, chunk
  <1>3. ASSUME NEW a \in 1 .. trucks, NEW b \in 1 .. trucks, a < b
        PROVE  Loads(n, trucks)[a] \cap Loads(n, trucks)[b] = {}
    <2>1. a * chunk \in Nat /\ b * chunk \in Nat /\ (b - 1) * chunk \in Nat
          /\ (a - 1) * chunk \in Nat /\ a * chunk <= (b - 1) * chunk
      BY <1>1, <1>3, Mono
    <2>2. Min({a * chunk, n}) <= a * chunk /\ Min({a * chunk, n}) \in Nat
          /\ Min({b * chunk, n}) \in Nat
      BY <2>1, MinMax
    <2> QED  BY <1>2, <2>1, <2>2
  <1>4. CASE j < k
    BY <1>3, <1>4
  <1>5. CASE k < j
    BY <1>3, <1>5
  <1> QED  BY <1>4, <1>5

\* Who sends at most two containers a truck loads at most two on each.
LEMMA LoadsSmall ==
  ASSUME NEW n \in Nat, NEW trucks \in Nat, trucks > 0, n <= 2 * trucks, NEW k \in 1 .. trucks
  PROVE  Cardinality(Loads(n, trucks)[k]) <= 2
  <1> DEFINE chunk == (n + trucks - 1) \div trucks
  <1>1. chunk \in Nat /\ chunk <= 2
    <2> DEFINE q == (n + trucks - 1) \div trucks
    <2>1. n + trucks - 1 \in Nat
      OBVIOUS
    <2>2. q \in Nat /\ trucks * q <= n + trucks - 1
      BY <2>1, DivDef
    <2> HIDE DEF q
    <2>3. ASSUME q >= 3 PROVE FALSE
      <3>1. 3 * trucks <= q * trucks /\ q * trucks = trucks * q
        BY <2>2, <2>3, Mono
      <3> QED  BY <2>2, <3>1
    <2>4. chunk = q
      BY DEF q
    <2> QED  BY <2>2, <2>3, <2>4
  <1> HIDE DEF chunk
  <1>2. Loads(n, trucks)[k] = ((k - 1) * chunk + 1) .. Min({k * chunk, n})
    BY DEF Loads, chunk
  <1> DEFINE low == (k - 1) * chunk + 1
             high == Min({k * chunk, n})
  <1>3. low \in Int /\ high \in Int /\ high <= low + 1
    <2>1. (k - 1) * chunk \in Nat /\ k * chunk \in Nat /\ k * chunk = (k - 1) * chunk + chunk
      BY <1>1, Mono
    <2>2. high \in Nat /\ high <= k * chunk
      BY <2>1, MinMax
    <2> QED  BY <1>1, <2>1, <2>2
  <1> HIDE DEF low, high
  <1>4. Cardinality(low .. high) <= 2
    <2>1. Cardinality(low .. high) = IF low > high THEN 0 ELSE high - low + 1
      BY <1>3, FS_Interval
    <2> QED  BY <1>3, <2>1
  <1> QED  BY <1>2, <1>4 DEF low, high
-----------------------------------------------------------------------------
(* The inductive invariant.                                                *)

Ready == {"candidates", "road", "sea"}

\* The calls a run still has to make are ones it needs.
CallsDue ==
  \A tool \in doing.calls :
    /\ tool \in Ready => tool \notin ok
    /\ tool \in {"road", "sea"} => "candidates" \in ok
    /\ tool = "split" => Ready \subseteq ok
    /\ tool = "dispatch" => context.trucks # 0

\* What a run has reached it has reached in order.
Reached ==
  /\ context.trucks # 0 => "road" \in ok
  /\ {"road", "sea"} \cap ok # {} => "candidates" \in ok
  /\ context.split.kind # "none" => Ready \subseteq ok
  /\ approved > 0 => context.split.kind # "none"
  /\ doing.step = "resplit" => context.deviated /\ context.split.kind # "none"

\* A pass is given under HITL-2 only.
PassIsDue == doing.pass => approved >= 2

\* What is injected for this run or for all is a warning.
Injected == port.own # "clear" \/ port.all # "clear" => warned

\* What the usual split sends by road, and what any split does that was made
\* of this context.
Usual(c) == IF Len(c.yard) <= 2 * c.trucks THEN Len(c.yard) ELSE 2 * c.trucks
Target(c) == IF c.feeder.berth # "clear" THEN Len(c.yard) - SeaLimit ELSE Usual(c)

\* A split that accounts for the yard of context c, whose tools in done have
\* answered; and, until there is a deviation, the only split there is.
Planned(split, c, done) ==
  IsPlan(split) =>
    /\ Ready \subseteq done
    /\ split.road + split.sea = Len(c.yard)
    /\ split.road = IF split.kind = "fleet" THEN Usual(c) ELSE Len(c.yard) - SeaLimit
    /\ split.kind \in {"fleet", "limited"} => split.trips = RoadTrips(c.yard, split.road)
    /\ ~c.deviated => split.road = Target(c)

\* The splits the run holds: the current one, the one its pending calls were
\* asked with, and those the last dispatch and the loading lists were made of.
SplitsPlanned ==
  /\ Planned(context.split, context, ok) /\ Planned(doing.plan, context, ok)
  /\ Planned(context.loads.plan, context, ok) /\ Planned(context.loading.plan, context, ok)

\* A dispatch that went out, and lists that were told.
LoadsMade ==
  context.loads # NoLoads =>
    /\ Ready \subseteq ok
    /\ context.loads.trucks =
         Loads(RoadCount(context.yard, context.trucks, context.loads.plan), context.trucks)

ListsMade ==
  IsPlan(context.loading.plan) =>
    context.loading.sea = Expected(context.yard, context.loading.plan).sea

IInv ==
  /\ TypeOK /\ CallsDue /\ Reached /\ PassIsDue /\ Injected /\ ConflictIsOwn
  /\ SplitsPlanned /\ LoadsMade /\ ListsMade
-----------------------------------------------------------------------------
\* A split stays as planned while yard and fleet do, and the feeder does or
\* there is a deviation.
LEMMA PlannedStays ==
  ASSUME NEW split, NEW c, NEW done, NEW c2, NEW done2, Planned(split, c, done),
         done \subseteq done2, c2.yard = c.yard, c2.trucks = c.trucks,
         c.deviated => c2.deviated, c2.deviated \/ c2.feeder = c.feeder
  PROVE  Planned(split, c2, done2)
  BY DEF Planned, Usual, Target

\* As long as a tool is missing there is no split.
LEMMA PlannedBefore ==
  ASSUME NEW split, NEW c, NEW done, NEW c2, NEW done2, Planned(split, c, done),
         ~(Ready \subseteq done)
  PROVE  Planned(split, c2, done2) /\ ~IsPlan(split)
  BY DEF Planned

\* No split at all is as planned.
LEMMA PlannedEmpty ==
  ASSUME NEW kind \in {"none", "failed"}, NEW c, NEW done
  PROVE  Planned(Empty(kind), c, done) /\ Empty(kind) \in Splits /\ ~IsPlan(Empty(kind))
         /\ Empty(kind).kind = kind
  BY DEF Planned, Empty, IsPlan, Splits, Kinds

\* With candidates, trucks and feeder there is a yard and a fleet.
LEMMA YardKnown ==
  ASSUME TypeOK, Ready \subseteq ok
  PROVE  /\ context.yard \in Seq(Sizes) /\ Len(context.yard) \in Nat
         /\ Len(context.yard) > SeaLimit /\ SeaLimit \in Nat /\ SeaLimit > 0
         /\ context.trucks \in Nat /\ context.trucks > 0
         /\ context.yard \in Yards /\ context.trucks \in Fleets
  <1>1. context.yard \in Yards
    BY DEF TypeOK, Contexts, Ready
  <1>2. context.trucks \in Fleets
    BY DEF TypeOK, Contexts, Ready
  <1>3. context.yard \in Seq(Sizes) /\ Len(context.yard) > SeaLimit
    BY <1>1, YardsAssumption
  <1>4. context.trucks \in Nat /\ context.trucks > 0
    <2>1. Fleets \subseteq Nat \ {0}
      BY PortAssumption
    <2>2. context.trucks \in Nat \ {0}
      BY <1>2, <2>1
    <2> QED  BY <2>2
  <1>5. SeaLimit \in Nat /\ SeaLimit > 0
    BY LimitAssumption
  <1>6. Len(context.yard) \in Nat
    BY <1>3
  <1> QED  BY <1>1, <1>2, <1>3, <1>4, <1>5, <1>6

\* The optimiser's split is as planned, whatever the port answers meanwhile.
LEMMA OptimalIsPlanned ==
  ASSUME TypeOK, Ready \subseteq ok, NEW seen \in Samples
  PROVE  /\ OptimalSplit(context.yard, context.trucks, Conflict, seen) \in Splits
         /\ IsPlan(OptimalSplit(context.yard, context.trucks, Conflict, seen))
         /\ Planned(OptimalSplit(context.yard, context.trucks, Conflict, seen), context, ok)
  <1> DEFINE split == OptimalSplit(context.yard, context.trucks, Conflict, seen)
  <1>1. CASE Conflict
    <2>1. split = LimitedSplit(context.yard, seen)
      BY <1>1 DEF OptimalSplit
    <2>2. /\ split \in Splits /\ split.kind \in {"limited", "borrowed"}
          /\ split.road = Len(context.yard) - SeaLimit /\ split.sea = SeaLimit
          /\ split.kind = "limited" => split.trips = RoadTrips(context.yard, split.road)
      BY <2>1, YardKnown, LimitedSplitCovers DEF Samples
    <2> HIDE DEF split
    <2>3. split.road + split.sea = Len(context.yard)
      BY <2>2, YardKnown
    <2> QED  BY <1>1, <2>2, <2>3 DEF split, Planned, IsPlan, Target, Conflict
  <1>2. CASE ~Conflict
    <2>1. split = FleetSplit(context.yard, context.trucks)
      BY <1>2 DEF OptimalSplit
    <2> HIDE DEF split
    <2>2. /\ split \in Splits /\ split.kind = "fleet" /\ split.road = Usual(context)
          /\ split.road + split.sea = Len(context.yard)
          /\ split.trips = RoadTrips(context.yard, split.road)
      BY <2>1, YardKnown, FleetSplitCovers DEF Usual
    <2> QED  BY <1>2, <2>2 DEF split, Planned, IsPlan, Target, Conflict
  <1> QED  BY <1>1, <1>2

\* So is the monitor's, after a deviation.
LEMMA LimitedIsPlanned ==
  ASSUME TypeOK, Ready \subseteq ok, context.deviated, NEW seen \in Samples
  PROVE  /\ LimitedSplit(context.yard, seen) \in Splits
         /\ IsPlan(LimitedSplit(context.yard, seen))
         /\ Planned(LimitedSplit(context.yard, seen), context, ok)
  <1> DEFINE split == LimitedSplit(context.yard, seen)
  <1>1. /\ split \in Splits /\ split.kind \in {"limited", "borrowed"}
        /\ split.road = Len(context.yard) - SeaLimit /\ split.sea = SeaLimit
        /\ split.kind = "limited" => split.trips = RoadTrips(context.yard, split.road)
    BY YardKnown, LimitedSplitCovers DEF Samples
  <1> HIDE DEF split
  <1>2. split.road + split.sea = Len(context.yard)
    BY <1>1, YardKnown
  <1> QED  BY <1>1, <1>2 DEF split, Planned, IsPlan

\* The next call is one of the pending ones.
LEMMA CurrentIsDue ==
  ASSUME TypeOK, doing.calls # {}
  PROVE  Current \in doing.calls /\ Current \in Tools
  <1> DEFINE places == {k \in DOMAIN Order : Order[k] \in doing.calls}
  <1>1. doing.calls \subseteq Tools
    BY DEF TypeOK
  <1>2. DOMAIN Order = 1 .. 6 /\ Tools = {Order[k] : k \in 1 .. 6}
    BY DEF Order, Tools
  <1>3. places \subseteq 1 .. 6 /\ places # {}
    BY <1>1, <1>2
  <1>4. \E k \in places : \A j \in places : k <= j
    <2> HIDE DEF places
    <2>1. CASE 1 \in places
      BY <1>3, <2>1
    <2>2. CASE 1 \notin places /\ 2 \in places
      BY <1>3, <2>2
    <2>3. CASE 1 \notin places /\ 2 \notin places /\ 3 \in places
      BY <1>3, <2>3
    <2>4. CASE places \subseteq 4 .. 6 /\ 4 \in places
      BY <1>3, <2>4
    <2>5. CASE places \subseteq 5 .. 6 /\ 5 \in places
      BY <1>3, <2>5
    <2>6. CASE places \subseteq {6}
      <3>1. PICK k \in places : TRUE
        BY <1>3
      <3>2. \A j \in places : j = 6
        BY <2>6
      <3>3. k <= k /\ \A j \in places : j = k
        BY <3>1, <3>2
      <3> QED  BY <3>1, <3>3
    <2> QED  BY <1>3, <2>1, <2>2, <2>3, <2>4, <2>5, <2>6
  <1>5. Min(places) \in places
    BY <1>4 DEF Min
  <1>6. Current = Order[Min(places)]
    BY DEF Current
  <1> HIDE DEF places
  <1>7. Order[Min(places)] \in doing.calls
    BY <1>5 DEF places
  <1> QED  BY <1>1, <1>6, <1>7

\* Advancing takes the current call off and leaves no pass.
LEMMA AdvancedType ==
  ASSUME TypeOK, doing.step \in {"asked", "guarded"}
  PROVE  /\ Advanced \in [step : {"idle", "asked"}, calls : SUBSET Tools, pass : {FALSE}, plan : Splits]
         /\ Advanced.calls = doing.calls \ {Current}
         /\ Advanced.step = "asked" <=> Advanced.calls # {}
         /\ Advanced.plan \in {doing.plan, Empty("none")}
  <1>1. doing.calls # {}
    BY DEF TypeOK
  <1>2. Current \in doing.calls
    BY <1>1, CurrentIsDue
  <1>3. CASE doing.calls = {Current}
    BY <1>3, PlannedEmpty DEF Advanced, Idle
  <1>4. CASE doing.calls # {Current}
    BY <1>2, <1>4 DEF Advanced, TypeOK
  <1> QED  BY <1>3, <1>4

\* A number of containers is sent, and dealt out to lists of them.
LEMMA LoadsType ==
  ASSUME NEW yard \in Seq(Sizes), NEW trucks \in Nat, trucks > 0, NEW split \in Splits
  PROVE  /\ RoadCount(yard, trucks, split) \in Nat
         /\ Loads(RoadCount(yard, trucks, split), trucks) \in Seq(SUBSET Nat)
         /\ Loads(RoadCount(yard, trucks, split), trucks) # <<>>
  <1>1. RoadCount(yard, trucks, split) \in Nat
    <2>1. BaselineTrips(yard) \in Nat /\ 2 * trucks \in Nat
      BY BaselineType
    <2>2. Min({BaselineTrips(yard), 2 * trucks}) \in Nat
      BY <2>1, MinNat
    <2>3. split.road \in Nat
      BY DEF Splits
    <2> QED  BY <2>2, <2>3 DEF RoadCount
  <1> DEFINE n == RoadCount(yard, trucks, split)
             load == Loads(n, trucks)
  <1> HIDE DEF n
  <1>2. DOMAIN load = 1 .. trucks /\ Carried(load) = 1 .. n /\ n \in Nat
    BY <1>1, LoadsCover DEF n
  <1>3. load = [k \in 1 .. trucks |-> load[k]]
    BY <1>2 DEF Loads
  <1> HIDE DEF load
  <1>4. \A k \in 1 .. trucks : load[k] \in SUBSET Nat
    <2>1. \A k \in 1 .. trucks : load[k] \subseteq UNION {load[j] : j \in 1 .. trucks}
      OBVIOUS
    <2>2. 1 .. n \subseteq Nat
      BY <1>2
    <2> QED  BY <1>2, <2>1, <2>2 DEF Carried
  <1>5. load \in Seq(SUBSET Nat)
    BY <1>3, <1>4
  <1>6. load # <<>>
    <2>1. 1 \in DOMAIN load
      BY <1>2
    <2> QED  BY <2>1
  <1> QED  BY <1>1, <1>5, <1>6 DEF load, n

\* What Tuas is told to expect are lists of places.
LEMMA ExpectedType ==
  ASSUME NEW yard \in Seq(Sizes), NEW split \in Splits
  PROVE  Expected(yard, split).road \in SUBSET Nat /\ Expected(yard, split).sea \in SUBSET Nat
  <1> DEFINE told == split.road + split.sea > 0
             road == IF told THEN split.road ELSE BaselineTrips(yard)
             sea == IF told THEN split.sea ELSE Len(yard) - road
  <1>1. road \in Nat /\ sea \in Int
    BY BaselineType DEF Splits
  <1>2. Expected(yard, split).road = 1 .. road /\ Expected(yard, split).sea = (road + 1) .. (road + sea)
    BY DEF Expected
  <1> HIDE DEF road, sea
  <1>3. 1 .. road \subseteq Nat /\ (road + 1) .. (road + sea) \subseteq Nat
    BY <1>1
  <1> QED  BY <1>2, <1>3

\* A yard that is not known yet is a list too.
LEMMA YardType ==
  ASSUME TypeOK
  PROVE  context.yard \in Seq(Sizes)
  <1>1. context.yard \in Yards \cup {<<>>}
    BY DEF TypeOK, Contexts
  <1>2. \A y \in Yards : y \in Seq(Sizes)
    BY YardsAssumption
  <1>3. <<>> \in Seq(Sizes)
    OBVIOUS
  <1> QED  BY <1>1, <1>2, <1>3
-----------------------------------------------------------------------------
LEMMA Initially == Init => IInv
  <1> SUFFICES ASSUME Init PROVE IInv
    OBVIOUS
  <1>1. Planned(Empty("none"), context, ok) /\ Empty("none") \in Splits
        /\ Empty("none").kind = "none" /\ ~IsPlan(Empty("none"))
    BY PlannedEmpty
  <1>2. TypeOK
    <2>1. context \in Contexts
      BY <1>1 DEF Init, Contexts, Feeders, Berths, NoLoads, NoLists, Unasked
    <2>2. active \in Problems /\ registered \in Problems \cup {"none"} /\ warned \in BOOLEAN
          /\ port \in [own : Berths, other : Berths, all : Berths]
      BY DEF Init, Problems, Berths
    <2>3. doing \in [step : {"idle", "asked", "guarded", "resplit"}, calls : SUBSET Tools,
                     pass : BOOLEAN, plan : Splits]
          /\ doing.step = "idle" /\ doing.calls = {}
      BY <1>1 DEF Init, Idle
    <2>4. approved \in 0 .. 4 /\ ok = {}
      BY DEF Init
    <2> QED  BY <2>1, <2>2, <2>3, <2>4 DEF TypeOK
  <1>3. SplitsPlanned
    BY <1>1 DEF Init, Idle, NoLoads, NoLists, SplitsPlanned
  <1>4. LoadsMade
    BY DEF Init, LoadsMade
  <1>5. ListsMade
    BY <1>1 DEF Init, ListsMade, NoLists
  <1>6. CallsDue /\ Reached /\ PassIsDue
    BY <1>1 DEF Init, CallsDue, Reached, PassIsDue, Idle
  <1>7. Injected /\ ConflictIsOwn
    BY DEF Init, Injected, ConflictIsOwn, Conflict
  <1> QED  BY <1>2, <1>3, <1>4, <1>5, <1>6, <1>7 DEF IInv

\* What the process does behind the run's back leaves the run's own state.
LEMMA RunUntouched ==
  ASSUME IInv, UNCHANGED <<context, approved, ok, doing>>, warned => warned'
  PROVE  CallsDue' /\ Reached' /\ PassIsDue' /\ ConflictIsOwn' /\ SplitsPlanned'
         /\ LoadsMade' /\ ListsMade'
  <1>1. CallsDue'
    BY DEF IInv, CallsDue
  <1>2. Reached'
    BY DEF IInv, Reached
  <1>3. PassIsDue'
    BY DEF IInv, PassIsDue
  <1>4. ConflictIsOwn'
    BY DEF IInv, ConflictIsOwn, Conflict
  <1>5. SplitsPlanned'
    BY DEF IInv, SplitsPlanned
  <1>6. LoadsMade'
    BY DEF IInv, LoadsMade
  <1>7. ListsMade'
    BY DEF IInv, ListsMade
  <1> QED  BY <1>1, <1>2, <1>3, <1>4, <1>5, <1>6, <1>7

LEMMA ProcessKeeps ==
  ASSUME IInv, Process
  PROVE  IInv'
  <1>1. CASE \E p \in Problems : SwitchProblem(p) \/ SetProblem(p)
    <2>1. UNCHANGED <<port, warned, context, approved, ok, doing>>
          /\ active' \in Problems /\ registered' \in Problems \cup {"none"}
      BY <1>1 DEF SwitchProblem, SetProblem, IInv, TypeOK
    <2>2. TypeOK'
      BY <2>1 DEF IInv, TypeOK
    <2>3. Injected'
      BY <2>1 DEF IInv, Injected
    <2> QED  BY <2>1, <2>2, <2>3, RunUntouched DEF IInv
  <1>2. ASSUME NEW report \in Reports, Inject(report)
        PROVE  IInv'
    <2>1. report.whom \in {"own", "other", "all"} /\ report.berth \in Berths
      <3>1. Reports \subseteq [whom : {"own", "other", "all"}, berth : Berths]
        BY PortAssumption
      <3> QED  BY <3>1
    <2>2. UNCHANGED <<active, registered, context, approved, ok, doing>>
          /\ port' = [port EXCEPT ![report.whom] = report.berth]
          /\ warned' = (warned \/ report.whom # "other")
      BY <1>2 DEF Inject
    <2>3. port' \in [own : Berths, other : Berths, all : Berths] /\ warned' \in BOOLEAN
      BY <2>1, <2>2 DEF IInv, TypeOK
    <2>4. TypeOK'
      BY <2>2, <2>3 DEF IInv, TypeOK
    <2>5. Injected'
      <3>1. CASE report.whom = "other"
        <4>1. port'.own = port.own /\ port'.all = port.all /\ warned' = warned
          BY <2>2, <3>1 DEF IInv, TypeOK
        <4> QED  BY <4>1 DEF IInv, Injected
      <3>2. CASE report.whom # "other"
        BY <2>2, <3>2 DEF Injected
      <3> QED  BY <3>1, <3>2
    <2>6. warned => warned'
      BY <2>2
    <2> QED  BY <2>2, <2>4, <2>5, <2>6, RunUntouched DEF IInv
  <1>3. CASE ResetMocks
    <2>1. UNCHANGED <<active, registered, warned, context, approved, ok, doing>>
          /\ port' = [whom \in DOMAIN port |-> "clear"]
      BY <1>3 DEF ResetMocks
    <2>2. port' \in [own : Berths, other : Berths, all : Berths]
          /\ port'.own = "clear" /\ port'.all = "clear"
      BY <2>1 DEF IInv, TypeOK, Berths
    <2>3. TypeOK'
      BY <2>1, <2>2 DEF IInv, TypeOK
    <2>4. Injected'
      BY <2>2 DEF Injected
    <2> QED  BY <2>1, <2>3, <2>4, RunUntouched DEF IInv
  <1> QED  BY <1>1, <1>2, <1>3 DEF Process-----------------------------------------------------------------------------

\* A step that changes nothing of what the run holds but its pending calls.
LEMMA DoingKeeps ==
  ASSUME IInv, UNCHANGED <<active, port, warned, context, approved, ok>>,
         registered' \in Problems \cup {"none"},
         doing' \in [step : {"idle", "asked", "guarded"}, calls : SUBSET Tools,
                     pass : BOOLEAN, plan : Splits],
         doing'.step # "idle" <=> doing'.calls # {},
         doing'.plan \in {doing.plan, context.split, Empty("none")},
         CallsDue', PassIsDue'
  PROVE  IInv'
  <1>1. TypeOK'
    BY DEF IInv, TypeOK
  <1>2. Reached'
    BY DEF IInv, Reached
  <1>3. Injected' /\ ConflictIsOwn'
    BY DEF IInv, Injected, ConflictIsOwn, Conflict
  <1>4. SplitsPlanned'
    <2>1. Planned(Empty("none"), context, ok)
      BY PlannedEmpty
    <2>2. Planned(doing'.plan, context', ok')
      BY <2>1 DEF IInv, SplitsPlanned
    <2> QED  BY <2>2 DEF IInv, SplitsPlanned
  <1>5. LoadsMade' /\ ListsMade'
    BY DEF IInv, LoadsMade, ListsMade
  <1> QED  BY <1>1, <1>2, <1>3, <1>4, <1>5 DEF IInv

LEMMA AskKeeps ==
  ASSUME IInv, NEW early \in BOOLEAN, Ask(early)
  PROVE  IInv'
  <1> DEFINE extra == IF early /\ approved < 2 /\ context.trucks # 0 THEN {"dispatch"} ELSE {}
             calls == {tool \in Tools : Needed(tool)} \cup extra
  <1>1. /\ UNCHANGED <<active, port, warned, context, approved, ok>> /\ doing.step = "idle"
        /\ registered' \in Problems \cup {"none"}
        /\ \/ doing' = doing
           \/ /\ calls # {}
              /\ doing' = [step |-> "asked", calls |-> calls, pass |-> FALSE, plan |-> context.split]
    BY DEF Ask, Ensured, IInv, TypeOK
  <1>2. calls \subseteq Tools
    BY DEF Tools
  <1>3. \A tool \in calls : Needed(tool) \/ (tool = "dispatch" /\ context.trucks # 0)
    OBVIOUS
  <1>4. approved >= 2 => context.trucks # 0
    BY DEF IInv, TypeOK, Reached, Ready
  <1>5. \A tool \in calls :
          /\ tool \in Ready => tool \notin ok
          /\ tool \in {"road", "sea"} => "candidates" \in ok
          /\ tool = "split" => Ready \subseteq ok
          /\ tool = "dispatch" => context.trucks # 0
    <2> SUFFICES ASSUME NEW tool \in calls
                 PROVE  /\ tool \in Ready => tool \notin ok
                        /\ tool \in {"road", "sea"} => "candidates" \in ok
                        /\ tool = "split" => Ready \subseteq ok
                        /\ tool = "dispatch" => context.trucks # 0
      OBVIOUS
    <2>1. CASE tool = "dispatch" /\ context.trucks # 0
      BY <2>1 DEF Ready
    <2>2. CASE Needed(tool)
      <3>1. {"road", "sea"} \subseteq ok => "candidates" \in ok
        BY DEF IInv, Reached
      <3> QED  BY <1>4, <2>2, <3>1 DEF Needed, Ready
    <2> QED  BY <1>3, <2>1, <2>2
  <1> HIDE DEF extra, calls
  <1>6. CASE doing' = doing
    <2>1. CallsDue' /\ PassIsDue'
      BY <1>1, <1>6 DEF IInv, CallsDue, PassIsDue
    <2>2. doing' \in [step : {"idle", "asked", "guarded"}, calls : SUBSET Tools,
                      pass : BOOLEAN, plan : Splits]
          /\ doing'.step = "idle" /\ doing'.calls = {}
      BY <1>1, <1>6 DEF IInv, TypeOK
    <2> QED  BY <1>1, <1>6, <2>1, <2>2, DoingKeeps
  <1>7. CASE /\ calls # {}
             /\ doing' = [step |-> "asked", calls |-> calls, pass |-> FALSE, plan |-> context.split]
    <2>1. doing'.calls = calls /\ doing'.pass = FALSE /\ doing'.plan = context.split
          /\ doing'.step = "asked"
      BY <1>7
    <2>2. CallsDue' /\ PassIsDue'
      BY <1>1, <1>5, <2>1 DEF CallsDue, PassIsDue
    <2>3. context.split \in Splits
      BY DEF IInv, TypeOK, Contexts
    <2>4. doing' \in [step : {"idle", "asked", "guarded"}, calls : SUBSET Tools,
                      pass : BOOLEAN, plan : Splits]
      BY <1>2, <1>7, <2>3
    <2> QED  BY <1>1, <1>7, <2>1, <2>2, <2>4, DoingKeeps
  <1> QED  BY <1>1, <1>6, <1>7

LEMMA GuardKeeps ==
  ASSUME IInv, Guard
  PROVE  IInv'
  <1> DEFINE strict == registered' = "itt" /\ Current \in PostApproval
  <1>1. /\ UNCHANGED <<active, port, warned, context, approved, ok>> /\ doing.step = "asked"
        /\ registered' \in Problems \cup {"none"}
        /\ \/ doing' = Advanced
           \/ (strict => approved >= 2) /\ doing' = [doing EXCEPT !.step = "guarded", !.pass = strict]
    <2>1. approved \in 0 .. 4
      BY DEF IInv, TypeOK
    <2> QED  BY <2>1 DEF Guard, Ensured, IInv, TypeOK
  <1>2. CASE doing' = Advanced
    <2>1. /\ Advanced \in [step : {"idle", "asked"}, calls : SUBSET Tools, pass : {FALSE}, plan : Splits]
          /\ Advanced.calls = doing.calls \ {Current}
          /\ Advanced.step = "asked" <=> Advanced.calls # {}
          /\ Advanced.plan \in {doing.plan, Empty("none")}
      BY <1>1, AdvancedType DEF IInv
    <2>2. CallsDue' /\ PassIsDue'
      BY <1>1, <1>2, <2>1 DEF IInv, CallsDue, PassIsDue
    <2> QED  BY <1>1, <1>2, <2>1, <2>2, DoingKeeps
  <1>3. CASE (strict => approved >= 2) /\ doing' = [doing EXCEPT !.step = "guarded", !.pass = strict]
    <2>1. strict \in BOOLEAN
      OBVIOUS
    <2> HIDE DEF strict
    <2>2. /\ doing' \in [step : {"guarded"}, calls : SUBSET Tools, pass : BOOLEAN, plan : Splits]
          /\ doing'.calls = doing.calls /\ doing'.plan = doing.plan /\ doing'.pass = strict
          /\ doing.calls # {}
      BY <1>1, <1>3, <2>1 DEF IInv, TypeOK
    <2>3. CallsDue' /\ PassIsDue'
      BY <1>1, <1>3, <2>2 DEF IInv, CallsDue, PassIsDue
    <2> QED  BY <1>1, <2>2, <2>3, DoingKeeps
  <1> QED  BY <1>1, <1>2, <1>3-----------------------------------------------------------------------------

\* What is pending after a call was due before it.
LEMMA DueAfterCall ==
  ASSUME IInv, doing.step = "guarded", doing' = Advanced, ok \subseteq ok',
         ok' \subseteq ok \cup {Current}, context.trucks # 0 => context'.trucks # 0
  PROVE  /\ CallsDue' /\ PassIsDue' /\ Current \in doing.calls
         /\ doing' \in [step : {"idle", "asked", "guarded"}, calls : SUBSET Tools,
                        pass : BOOLEAN, plan : Splits]
         /\ doing'.step # "idle" <=> doing'.calls # {}
         /\ doing'.step \notin {"resplit", "guarded"}
         /\ doing'.plan \in {doing.plan, Empty("none")}
  <1>1. /\ doing' \in [step : {"idle", "asked"}, calls : SUBSET Tools, pass : {FALSE}, plan : Splits]
        /\ doing'.calls = doing.calls \ {Current}
        /\ doing'.step = "asked" <=> doing'.calls # {}
        /\ doing'.plan \in {doing.plan, Empty("none")}
    BY AdvancedType DEF IInv
  <1>2. Current \in doing.calls
    BY CurrentIsDue DEF IInv, TypeOK
  <1>3. CallsDue'
    BY <1>1 DEF IInv, CallsDue, Ready
  <1>4. PassIsDue'
    BY <1>1 DEF PassIsDue
  <1> QED  BY <1>1, <1>2, <1>3, <1>4

\* The first answers of the port: as long as one is missing there is no split
\* to be kept, nothing was dispatched and no list was told.
LEMMA AnswerKeeps ==
  ASSUME IInv, Call, Current \in Ready, Admitted(Current)
  PROVE  IInv'
  <1>1. /\ doing.step = "guarded" /\ doing' = Advanced /\ ok' = ok \cup {Current}
        /\ Executed(Current)
        /\ UNCHANGED <<active, registered, port, warned, approved>>
    BY DEF Call, Answered
  <1>2. \/ /\ Current = "candidates"
           /\ \E y \in Yards : context' = [context EXCEPT !.yard = y]
        \/ /\ Current = "road"
           /\ \E n \in Fleets : context' = [context EXCEPT !.trucks = n]
        \/ /\ Current = "sea"
           /\ \E n \in Rooms : context' = [context EXCEPT !.feeder = [room |-> n, berth |-> Berth]]
    BY <1>1 DEF Executed, Ready
  <1>3. context \in Contexts /\ Berth \in Berths /\ \A y \in Yards : y # <<>>
    <2>1. \A y \in Yards : y # <<>>
      BY YardsAssumption, LimitAssumption
    <2> QED  BY <2>1 DEF IInv, TypeOK, Berth
  <1>4. \A n \in Fleets : n # 0
    BY PortAssumption
  <1>5. /\ context' \in Contexts
        /\ context'.split = context.split /\ context'.loads = context.loads
        /\ context'.loading = context.loading /\ context'.deviated = context.deviated
        /\ context'.dispatched = context.dispatched
        /\ \/ context'.yard = context.yard
           \/ Current = "candidates" /\ context'.yard # <<>>
        /\ \/ context'.trucks = context.trucks
           \/ Current = "road" /\ context'.trucks # 0
        /\ \/ context'.feeder = context.feeder
           \/ context'.feeder.berth = Berth
        /\ Current = "candidates" => context'.yard # <<>>
        /\ Current = "road" => context'.trucks # 0
    <2>1. CASE Current = "candidates"
      <3>1. PICK y \in Yards : context' = [context EXCEPT !.yard = y]
        BY <1>2, <2>1
      <3> QED  BY <1>3, <2>1, <3>1 DEF Contexts
    <2>2. CASE Current = "road"
      <3>1. PICK n \in Fleets : context' = [context EXCEPT !.trucks = n]
        BY <1>2, <2>2
      <3> QED  BY <1>3, <1>4, <2>2, <3>1 DEF Contexts
    <2>3. CASE Current = "sea"
      <3>1. PICK n \in Rooms : context' = [context EXCEPT !.feeder = [room |-> n, berth |-> Berth]]
        BY <1>2, <2>3
      <3>2. n \in Nat
        BY PortAssumption
      <3>3. [room |-> n, berth |-> Berth] \in Feeders
        BY <1>3, <3>2 DEF Feeders
      <3> QED  BY <1>3, <2>3, <3>1, <3>3 DEF Contexts
    <2> QED  BY <2>1, <2>2, <2>3 DEF Ready
  <1>6. context.trucks # 0 => context'.trucks # 0
    BY <1>5
  <1>7. /\ CallsDue' /\ PassIsDue' /\ Current \in doing.calls
        /\ doing' \in [step : {"idle", "asked", "guarded"}, calls : SUBSET Tools,
                       pass : BOOLEAN, plan : Splits]
        /\ doing'.step # "idle" <=> doing'.calls # {}
        /\ doing'.step \notin {"resplit", "guarded"}
        /\ doing'.plan \in {doing.plan, Empty("none")}
    BY <1>1, <1>6, DueAfterCall
  <1>8. Current \notin ok /\ ~(Ready \subseteq ok)
        /\ (Current \in {"road", "sea"} => "candidates" \in ok)
    BY <1>7 DEF IInv, CallsDue
  <1>9. context.split.kind = "none" /\ approved = 0
    BY <1>8 DEF IInv, Reached, TypeOK
  <1>10. TypeOK'
    <2>1. ok' \subseteq Tools
      BY <1>1 DEF IInv, TypeOK, Ready, Tools
    <2>2. ("candidates" \in ok' => context'.yard # <<>>) /\ ("road" \in ok' => context'.trucks # 0)
      BY <1>1, <1>5 DEF IInv, TypeOK
    <2> QED  BY <1>1, <1>5, <1>7, <2>1, <2>2 DEF IInv, TypeOK
  <1>11. Reached'
    BY <1>1, <1>5, <1>7, <1>8, <1>9 DEF IInv, Reached, Ready
  <1>12. Injected'
    BY <1>1 DEF IInv, Injected
  <1>13. ConflictIsOwn'
    <2>1. Berth # "clear" => warned
      BY DEF IInv, Injected, Berth
    <2> QED  BY <1>1, <1>5, <2>1 DEF IInv, ConflictIsOwn, Conflict
  <1>14. SplitsPlanned'
    <2>1. Planned(context.split, context', ok') /\ Planned(doing.plan, context', ok')
          /\ Planned(context.loads.plan, context', ok')
          /\ Planned(context.loading.plan, context', ok')
      BY <1>8, PlannedBefore DEF IInv, SplitsPlanned
    <2>2. Planned(Empty("none"), context', ok')
      BY PlannedEmpty
    <2>3. Planned(doing'.plan, context', ok')
      BY <1>7, <2>1, <2>2
    <2> QED  BY <1>5, <2>1, <2>3 DEF SplitsPlanned
  <1>15. LoadsMade'
    BY <1>5, <1>8 DEF IInv, LoadsMade
  <1>16. ListsMade'
    <2>1. ~IsPlan(context.loading.plan)
      BY <1>8, PlannedBefore DEF IInv, SplitsPlanned
    <2> QED  BY <1>5, <2>1 DEF ListsMade
  <1> QED  BY <1>7, <1>10, <1>11, <1>12, <1>13, <1>14, <1>15, <1>16 DEF IInv

\* A step that leaves the yard and the fleet alone, and the feeder too unless
\* it is a deviation: what it replaces must be as planned, the rest stays so.
LEMMA LaterKeeps ==
  ASSUME IInv, UNCHANGED <<active, port, warned>>, registered' \in Problems \cup {"none"},
         context' \in Contexts,
         context'.yard = context.yard, context'.trucks = context.trucks,
         context.deviated => context'.deviated,
         context'.deviated \/ context'.feeder = context.feeder,
         ok \subseteq ok', ok' \subseteq Tools, ok' \cap Ready = ok \cap Ready,
         doing' \in [step : {"idle", "asked", "guarded", "resplit"}, calls : SUBSET Tools,
                     pass : BOOLEAN, plan : Splits],
         doing'.step \in {"asked", "guarded"} <=> doing'.calls # {},
         doing'.step = "resplit" => context'.deviated /\ context'.split.kind # "none",
         doing'.plan \in {doing.plan, Empty("none")},
         CallsDue', PassIsDue', ConflictIsOwn',
         approved' \in 0 .. 4, approved' > 0 => context'.split.kind # "none",
         context'.split = context.split
           \/ (Ready \subseteq ok /\ Planned(context'.split, context', ok')),
         context'.loads = context.loads
           \/ (LoadsMade' /\ Planned(context'.loads.plan, context', ok')),
         context'.loading = context.loading
           \/ (ListsMade' /\ Planned(context'.loading.plan, context', ok'))
  PROVE  IInv'
  <1>1. TypeOK'
    <2>1. ("candidates" \in ok' => context'.yard # <<>>) /\ ("road" \in ok' => context'.trucks # 0)
      BY DEF IInv, TypeOK, Ready
    <2> QED  BY <2>1 DEF IInv, TypeOK
  <1>2. Reached'
    <2>1. context'.trucks # 0 => "road" \in ok'
      BY DEF IInv, Reached
    <2>2. {"road", "sea"} \cap ok' # {} => "candidates" \in ok'
      BY DEF IInv, Reached, Ready
    <2>3. context'.split.kind # "none" => Ready \subseteq ok'
      BY DEF IInv, Reached
    <2> QED  BY <2>1, <2>2, <2>3 DEF Reached
  <1>3. Injected'
    BY DEF IInv, Injected
  <1>4. SplitsPlanned'
    <2>1. Planned(context.split, context', ok') /\ Planned(doing.plan, context', ok')
          /\ Planned(context.loads.plan, context', ok')
          /\ Planned(context.loading.plan, context', ok')
      <3>1. Planned(context.split, context, ok) /\ Planned(doing.plan, context, ok)
            /\ Planned(context.loads.plan, context, ok)
            /\ Planned(context.loading.plan, context, ok)
        BY DEF IInv, SplitsPlanned
      <3> QED  BY <3>1, PlannedStays
    <2>2. Planned(Empty("none"), context', ok')
      BY PlannedEmpty
    <2>3. Planned(doing'.plan, context', ok')
      BY <2>1, <2>2
    <2>4. Planned(context'.split, context', ok')
      BY <2>1
    <2>5. Planned(context'.loads.plan, context', ok')
      BY <2>1
    <2>6. Planned(context'.loading.plan, context', ok')
      BY <2>1
    <2> QED  BY <2>3, <2>4, <2>5, <2>6 DEF SplitsPlanned
  <1>5. LoadsMade'
    BY DEF IInv, LoadsMade
  <1>6. ListsMade'
    BY DEF IInv, ListsMade
  <1> QED  BY <1>1, <1>2, <1>3, <1>4, <1>5, <1>6 DEF IInv

LEMMA SplitKeeps ==
  ASSUME IInv, Call, Current = "split", Admitted(Current)
  PROVE  IInv'
  <1>1. /\ doing.step = "guarded" /\ doing' = Advanced /\ ok' = ok \cup {Current}
        /\ Executed(Current)
        /\ UNCHANGED <<active, registered, port, warned, approved>>
    BY DEF Call, Answered
  <1>2. PICK seen \in Samples :
          context' = [context EXCEPT !.split = OptimalSplit(context.yard, context.trucks, Conflict, seen)]
    BY <1>1 DEF Executed
  <1> DEFINE split == OptimalSplit(context.yard, context.trucks, Conflict, seen)
  <1>3. Current \in doing.calls
    BY <1>1, CurrentIsDue DEF IInv, TypeOK
  <1>4. Ready \subseteq ok
    BY <1>3 DEF IInv, CallsDue
  <1>5. split \in Splits /\ IsPlan(split) /\ Planned(split, context, ok)
    BY <1>4, OptimalIsPlanned DEF IInv
  <1> HIDE DEF split
  <1>6. /\ context' \in Contexts /\ context'.split = split
        /\ context'.yard = context.yard /\ context'.trucks = context.trucks
        /\ context'.feeder = context.feeder /\ context'.deviated = context.deviated
        /\ context'.loads = context.loads /\ context'.loading = context.loading
    BY <1>2, <1>5 DEF split, IInv, TypeOK, Contexts
  <1>7. /\ CallsDue' /\ PassIsDue'
        /\ doing' \in [step : {"idle", "asked", "guarded"}, calls : SUBSET Tools,
                       pass : BOOLEAN, plan : Splits]
        /\ doing'.step # "idle" <=> doing'.calls # {}
        /\ doing'.step \notin {"resplit", "guarded"}
        /\ doing'.plan \in {doing.plan, Empty("none")}
    BY <1>1, <1>6, DueAfterCall
  <1>8. Planned(split, context', ok') /\ split.kind # "none"
    BY <1>1, <1>5, <1>6, PlannedStays DEF IsPlan
  <1>9. ConflictIsOwn'
    BY <1>1, <1>6 DEF IInv, ConflictIsOwn, Conflict
  <1>10. ok' \subseteq Tools /\ ok' \cap Ready = ok \cap Ready /\ ok \subseteq ok'
    BY <1>1 DEF IInv, TypeOK, Ready, Tools
  <1>11. registered' \in Problems \cup {"none"} /\ approved' \in 0 .. 4
    BY <1>1 DEF IInv, TypeOK
  <1> QED  BY <1>1, <1>4, <1>6, <1>7, <1>8, <1>9, <1>10, <1>11, LaterKeeps

LEMMA DispatchKeeps ==
  ASSUME IInv, Call, Current = "dispatch", Admitted(Current)
  PROVE  IInv'
  <1>1. /\ doing.step = "guarded" /\ doing' = Advanced /\ ok' = ok \cup {Current}
        /\ Executed(Current) /\ doing.pass
        /\ UNCHANGED <<active, registered, port, warned, approved>>
    BY DEF Call, Answered, Admitted, PostApproval
  <1> DEFINE plan == doing.plan
             trucks == Loads(RoadCount(context.yard, context.trucks, plan), context.trucks)
  <1>2. context' = [context EXCEPT !.dispatched = TRUE,
                                   !.loads = [trucks |-> trucks, plan |-> plan]]
    BY <1>1 DEF Executed
  <1>3. Ready \subseteq ok
    <2>1. approved \in 0 .. 4 /\ approved >= 2
      BY <1>1 DEF IInv, PassIsDue, TypeOK
    <2>2. approved > 0
      BY <2>1
    <2> QED  BY <2>2 DEF IInv, Reached
  <1>4. plan \in Splits /\ trucks \in Seq(SUBSET Nat)
    <2>1. plan \in Splits
      BY DEF IInv, TypeOK
    <2> HIDE DEF plan
    <2>2. context.yard \in Seq(Sizes) /\ context.trucks \in Nat /\ context.trucks > 0
      BY <1>3, YardKnown DEF IInv
    <2> QED  BY <2>1, <2>2, LoadsType
  <1> HIDE DEF plan, trucks
  <1>5. /\ context' \in Contexts /\ context'.loads = [trucks |-> trucks, plan |-> plan]
        /\ context'.yard = context.yard /\ context'.trucks = context.trucks
        /\ context'.feeder = context.feeder /\ context'.deviated = context.deviated
        /\ context'.split = context.split /\ context'.loading = context.loading
    BY <1>2, <1>4 DEF IInv, TypeOK, Contexts
  <1>6. /\ CallsDue' /\ PassIsDue'
        /\ doing' \in [step : {"idle", "asked", "guarded"}, calls : SUBSET Tools,
                       pass : BOOLEAN, plan : Splits]
        /\ doing'.step # "idle" <=> doing'.calls # {}
        /\ doing'.step \notin {"resplit", "guarded"}
        /\ doing'.plan \in {doing.plan, Empty("none")}
    BY <1>1, <1>5, DueAfterCall
  <1>7. ConflictIsOwn'
    BY <1>1, <1>5 DEF IInv, ConflictIsOwn, Conflict
  <1>8. ok' \subseteq Tools /\ ok' \cap Ready = ok \cap Ready /\ ok \subseteq ok'
    BY <1>1 DEF IInv, TypeOK, Ready, Tools
  <1>9. LoadsMade'
    BY <1>3, <1>5, <1>8 DEF LoadsMade, trucks
  <1>10. Planned(plan, context', ok')
    BY <1>5, <1>8, PlannedStays DEF IInv, SplitsPlanned, plan
  <1>11. Planned(context'.loads.plan, context', ok')
    BY <1>5, <1>10
  <1>12. registered' \in Problems \cup {"none"} /\ approved' \in 0 .. 4
         /\ (approved' > 0 => context'.split.kind # "none")
    BY <1>1, <1>5 DEF IInv, TypeOK, Reached
  <1> QED  BY <1>1, <1>5, <1>6, <1>7, <1>8, <1>9, <1>11, <1>12, LaterKeeps

LEMMA LoadingKeeps ==
  ASSUME IInv, Call, Current = "loading", Admitted(Current)
  PROVE  IInv'
  <1>1. /\ doing.step = "guarded" /\ doing' = Advanced /\ ok' = ok \cup {Current}
        /\ Executed(Current)
        /\ UNCHANGED <<active, registered, port, warned, approved>>
    BY DEF Call, Answered
  <1> DEFINE plan == doing.plan
             lists == Expected(context.yard, plan)
  <1>2. context' = [context EXCEPT !.loading = [road |-> lists.road, sea |-> lists.sea, plan |-> plan]]
    BY <1>1 DEF Executed
  <1>3. plan \in Splits /\ lists.road \in SUBSET Nat /\ lists.sea \in SUBSET Nat
    <2>1. plan \in Splits
      BY DEF IInv, TypeOK
    <2> HIDE DEF plan
    <2> QED  BY <2>1, YardType, ExpectedType DEF IInv
  <1> HIDE DEF plan, lists
  <1>4. /\ context' \in Contexts
        /\ context'.loading = [road |-> lists.road, sea |-> lists.sea, plan |-> plan]
        /\ context'.yard = context.yard /\ context'.trucks = context.trucks
        /\ context'.feeder = context.feeder /\ context'.deviated = context.deviated
        /\ context'.split = context.split /\ context'.loads = context.loads
    BY <1>2, <1>3 DEF IInv, TypeOK, Contexts
  <1>5. /\ CallsDue' /\ PassIsDue'
        /\ doing' \in [step : {"idle", "asked", "guarded"}, calls : SUBSET Tools,
                       pass : BOOLEAN, plan : Splits]
        /\ doing'.step # "idle" <=> doing'.calls # {}
        /\ doing'.step \notin {"resplit", "guarded"}
        /\ doing'.plan \in {doing.plan, Empty("none")}
    BY <1>1, <1>4, DueAfterCall
  <1>6. ConflictIsOwn'
    BY <1>1, <1>4 DEF IInv, ConflictIsOwn, Conflict
  <1>7. ok' \subseteq Tools /\ ok' \cap Ready = ok \cap Ready /\ ok \subseteq ok'
    BY <1>1 DEF IInv, TypeOK, Ready, Tools
  <1>8. ListsMade'
    <2>1. context'.loading.sea = Expected(context'.yard, context'.loading.plan).sea
      BY <1>4 DEF lists
    <2> QED  BY <2>1 DEF ListsMade
  <1>9. Planned(plan, context', ok')
    BY <1>4, <1>7, PlannedStays DEF IInv, SplitsPlanned, plan
  <1>10. Planned(context'.loading.plan, context', ok')
    BY <1>4, <1>9
  <1>11. registered' \in Problems \cup {"none"} /\ approved' \in 0 .. 4
         /\ (approved' > 0 => context'.split.kind # "none")
    BY <1>1, <1>4 DEF IInv, TypeOK, Reached
  <1> QED  BY <1>1, <1>4, <1>5, <1>6, <1>7, <1>8, <1>10, <1>11, LaterKeeps

\* A call that fails takes nothing away but the split it was to make.
LEMMA FailureKeeps ==
  ASSUME IInv, Call, ~Admitted(Current)
  PROVE  IInv'
  <1>1. /\ doing.step = "guarded" /\ doing' = Advanced /\ ok' = ok /\ Failed(Current)
        /\ UNCHANGED <<active, registered, port, warned, approved>>
    BY DEF Call, Answered
  <1>2. Planned(Empty("failed"), context', ok') /\ Empty("failed") \in Splits
        /\ ~IsPlan(Empty("failed")) /\ Empty("failed").kind = "failed"
    BY PlannedEmpty
  <1>3. context \in Contexts
    BY DEF IInv, TypeOK
  <1>4. /\ context' \in Contexts
        /\ context'.split = IF Current = "split" THEN Empty("failed") ELSE context.split
        /\ \/ context'.loading = context.loading
           \/ context'.loading.plan = Empty("failed")
        /\ context'.yard = context.yard /\ context'.trucks = context.trucks
        /\ context'.feeder = context.feeder /\ context'.deviated = context.deviated
        /\ context'.loads = context.loads
    BY <1>1, <1>2, <1>3 DEF Failed, Contexts
  <1>5. /\ CallsDue' /\ PassIsDue' /\ Current \in doing.calls
        /\ doing' \in [step : {"idle", "asked", "guarded"}, calls : SUBSET Tools,
                       pass : BOOLEAN, plan : Splits]
        /\ doing'.step # "idle" <=> doing'.calls # {}
        /\ doing'.step \notin {"resplit", "guarded"}
        /\ doing'.plan \in {doing.plan, Empty("none")}
    BY <1>1, <1>4, DueAfterCall
  <1>6. Current = "split" => Ready \subseteq ok
    BY <1>5 DEF IInv, CallsDue
  <1>7. ConflictIsOwn'
    BY <1>1, <1>4 DEF IInv, ConflictIsOwn, Conflict
  <1>8. /\ context'.split = context.split
             \/ (Ready \subseteq ok /\ Planned(context'.split, context', ok'))
        /\ context'.loading = context.loading
             \/ (ListsMade' /\ Planned(context'.loading.plan, context', ok'))
    <2>1. CASE context'.loading.plan = Empty("failed")
      <3>1. ListsMade'
        BY <1>2, <2>1 DEF ListsMade
      <3> QED  BY <1>2, <1>4, <1>6, <2>1, <3>1
    <2>2. CASE context'.loading = context.loading
      BY <1>2, <1>4, <1>6, <2>2
    <2> QED  BY <1>4, <2>1, <2>2
  <1>9. registered' \in Problems \cup {"none"} /\ approved' \in 0 .. 4
         /\ (approved' > 0 => context'.split.kind # "none")
    BY <1>1, <1>2, <1>4 DEF IInv, TypeOK, Reached
  <1>10. ok' \subseteq Tools
    BY <1>1 DEF IInv, TypeOK
  <1> QED  BY <1>1, <1>4, <1>5, <1>7, <1>8, <1>9, <1>10, LaterKeeps-----------------------------------------------------------------------------

LEMMA ApproveKeeps ==
  ASSUME IInv, Approve
  PROVE  IInv'
  <1>1. UNCHANGED <<active, registered, port, warned, context, ok, doing>>
        /\ approved' = approved + 1 /\ approved < 4
        /\ (approved = 0 => context.split.kind # "none")
    BY DEF Approve
  <1>2. approved \in 0 .. 4
    BY DEF IInv, TypeOK
  <1>3. approved' \in 0 .. 4 /\ approved <= approved' /\ context.split.kind # "none"
    BY <1>1, <1>2 DEF IInv, Reached
  <1>4. TypeOK'
    BY <1>1, <1>3 DEF IInv, TypeOK
  <1>5. Reached'
    BY <1>1, <1>3 DEF IInv, Reached
  <1>6. PassIsDue'
    BY <1>1, <1>2, <1>3 DEF IInv, PassIsDue
  <1>7. CallsDue' /\ Injected' /\ ConflictIsOwn'
    BY <1>1 DEF IInv, CallsDue, Injected, ConflictIsOwn, Conflict
  <1>8. SplitsPlanned' /\ LoadsMade' /\ ListsMade'
    BY <1>1 DEF IInv, SplitsPlanned, LoadsMade, ListsMade
  <1> QED  BY <1>4, <1>5, <1>6, <1>7, <1>8 DEF IInv

LEMMA ModifyKeeps ==
  ASSUME IInv, NEW asked \in Asked, Modify(asked)
  PROVE  IInv'
  <1>1. PICK seen \in Samples :
          context' = [context EXCEPT !.asked = asked,
                        !.split = IF registered = "itt" THEN Recomputed(seen) ELSE Empty("failed")]
    BY DEF Modify
  <1>2. /\ UNCHANGED <<active, registered, port, warned, approved, ok, doing>>
        /\ doing.step = "idle" /\ context.split.kind # "none"
    BY DEF Modify
  <1>3. Ready \subseteq ok
    BY <1>2 DEF IInv, Reached
  <1> DEFINE split == IF registered = "itt" THEN Recomputed(seen) ELSE Empty("failed")
  <1>4. split \in Splits /\ split.kind # "none" /\ Planned(split, context, ok)
    <2>1. CASE registered = "itt"
      <3>1. split = OptimalSplit(context.yard, context.trucks, Conflict, seen)
        BY <2>1 DEF Recomputed
      <3> HIDE DEF split
      <3> QED  BY <1>3, <3>1, OptimalIsPlanned DEF IInv, IsPlan
    <2>2. CASE registered # "itt"
      BY <2>2, PlannedEmpty
    <2> QED  BY <2>1, <2>2
  <1>5. context' = [context EXCEPT !.asked = asked, !.split = split]
    BY <1>1
  <1> HIDE DEF split
  <1>6. /\ context' \in Contexts /\ context'.split = split
        /\ context'.yard = context.yard /\ context'.trucks = context.trucks
        /\ context'.feeder = context.feeder /\ context'.deviated = context.deviated
        /\ context'.loads = context.loads /\ context'.loading = context.loading
    BY <1>4, <1>5 DEF IInv, TypeOK, Contexts
  <1>7. CallsDue' /\ PassIsDue' /\ ConflictIsOwn'
    BY <1>2, <1>6 DEF IInv, CallsDue, PassIsDue, ConflictIsOwn, Conflict
  <1>8. Planned(context'.split, context', ok')
    BY <1>2, <1>4, <1>6, PlannedStays
  <1>9. /\ ok' \subseteq Tools /\ ok' = ok /\ registered' \in Problems \cup {"none"}
        /\ approved' \in 0 .. 4 /\ doing' = doing
        /\ doing \in [step : {"idle", "asked", "guarded", "resplit"}, calls : SUBSET Tools,
                      pass : BOOLEAN, plan : Splits]
        /\ (doing.step \in {"asked", "guarded"} <=> doing.calls # {})
    BY <1>2 DEF IInv, TypeOK
  <1> QED  BY <1>2, <1>3, <1>4, <1>6, <1>7, <1>8, <1>9, LaterKeeps

LEMMA MonitorQueryKeeps ==
  ASSUME IInv, MonitorQuery
  PROVE  IInv'
  <1>1. /\ UNCHANGED <<active, port, warned, approved, ok>> /\ doing.step = "idle"
        /\ approved = 4 /\ registered' \in Problems \cup {"none"}
    BY DEF MonitorQuery, IInv, TypeOK, Problems
  <1>2. context.split.kind # "none" /\ context \in Contexts
    BY <1>1 DEF IInv, Reached, TypeOK
  <1>3. /\ ok' \subseteq Tools /\ ok' = ok /\ approved' \in 0 .. 4
        /\ doing \in [step : {"idle", "asked", "guarded", "resplit"}, calls : SUBSET Tools,
                      pass : BOOLEAN, plan : Splits]
        /\ doing.calls = {}
    BY <1>1 DEF IInv, TypeOK
  <1>4. ASSUME context' = [context EXCEPT !.monitored = TRUE], doing' = doing
        PROVE  IInv'
    <2>1. /\ context' \in Contexts /\ context'.split = context.split
          /\ context'.yard = context.yard /\ context'.trucks = context.trucks
          /\ context'.feeder = context.feeder /\ context'.deviated = context.deviated
          /\ context'.loads = context.loads /\ context'.loading = context.loading
      BY <1>2, <1>4 DEF Contexts
    <2>2. CallsDue' /\ PassIsDue' /\ ConflictIsOwn'
      BY <1>1, <1>4, <2>1 DEF IInv, CallsDue, PassIsDue, ConflictIsOwn, Conflict
    <2> QED  BY <1>1, <1>2, <1>3, <1>4, <2>1, <2>2, LaterKeeps
  <1>5. ASSUME NEW n \in Rooms, doing' = [Idle EXCEPT !.step = "resplit"],
               Berth # "clear" \/ Conflict,
               context' = [context EXCEPT !.monitored = TRUE, !.deviated = TRUE,
                             !.feeder = [room |-> n, berth |-> Berth]]
        PROVE  IInv'
    <2>1. [room |-> n, berth |-> Berth] \in Feeders
      <3>1. n \in Nat
        BY PortAssumption
      <3> QED  BY <3>1 DEF IInv, TypeOK, Feeders, Berth
    <2>2. /\ context' \in Contexts /\ context'.split = context.split
          /\ context'.yard = context.yard /\ context'.trucks = context.trucks
          /\ context'.deviated = TRUE
          /\ context'.loads = context.loads /\ context'.loading = context.loading
      BY <1>2, <1>5, <2>1 DEF Contexts
    <2>3. doing' = [step |-> "resplit", calls |-> {}, pass |-> FALSE, plan |-> Empty("none")]
      BY <1>5 DEF Idle
    <2>4. doing' \in [step : {"idle", "asked", "guarded", "resplit"}, calls : SUBSET Tools,
                      pass : BOOLEAN, plan : Splits]
          /\ doing'.step = "resplit" /\ doing'.calls = {} /\ doing'.pass = FALSE
          /\ doing'.plan = Empty("none")
      BY <2>3, PlannedEmpty
    <2>5. CallsDue' /\ PassIsDue'
      BY <2>4 DEF CallsDue, PassIsDue
    <2>6. ConflictIsOwn'
      <3>1. warned
        BY <1>5 DEF IInv, Injected, ConflictIsOwn, Berth
      <3> QED  BY <1>1, <3>1 DEF ConflictIsOwn
    <2> QED  BY <1>1, <1>2, <1>3, <2>2, <2>4, <2>5, <2>6, LaterKeeps
  <1> DEFINE deviates == \/ context.feeder.berth = "clear" /\ Berth # "clear"
                         \/ (context.feeder.berth = "delayed") # (Berth = "delayed")
  <1>6. deviates => Berth # "clear" \/ Conflict
    BY DEF Conflict
  <1>7. CASE registered' = "itt" /\ deviates
    <2>1. /\ doing' = [Idle EXCEPT !.step = "resplit"]
          /\ \E n \in Rooms :
                context' = [context EXCEPT !.monitored = TRUE, !.deviated = TRUE,
                              !.feeder = [room |-> n, berth |-> Berth]]
      BY <1>7 DEF MonitorQuery
    <2> QED  BY <1>5, <1>6, <1>7, <2>1
  <1>8. CASE ~(registered' = "itt" /\ deviates)
    BY <1>4, <1>8 DEF MonitorQuery
  <1> QED  BY <1>7, <1>8

LEMMA MonitorResplitKeeps ==
  ASSUME IInv, MonitorResplit
  PROVE  IInv'
  <1>1. /\ UNCHANGED <<active, registered, port, warned, approved, ok>>
        /\ doing.step = "resplit" /\ doing' = Idle
    BY DEF MonitorResplit
  <1>2. context.deviated /\ context.split.kind # "none" /\ Ready \subseteq ok
    BY <1>1 DEF IInv, Reached
  <1>3. PICK seen \in Samples :
          context' = [context EXCEPT !.split =
              IF registered = "itt" THEN LimitedSplit(context.yard, seen) ELSE Empty("failed")]
    BY DEF MonitorResplit
  <1> DEFINE split == IF registered = "itt" THEN LimitedSplit(context.yard, seen) ELSE Empty("failed")
  <1>4. split \in Splits /\ split.kind # "none" /\ Planned(split, context, ok)
    <2>1. CASE registered = "itt"
      <3>1. split = LimitedSplit(context.yard, seen)
        BY <2>1
      <3> HIDE DEF split
      <3> QED  BY <1>2, <3>1, LimitedIsPlanned DEF IInv, IsPlan
    <2>2. CASE registered # "itt"
      BY <2>2, PlannedEmpty
    <2> QED  BY <2>1, <2>2
  <1>5. context' = [context EXCEPT !.split = split]
    BY <1>3
  <1> HIDE DEF split
  <1>6. /\ context' \in Contexts /\ context'.split = split
        /\ context'.yard = context.yard /\ context'.trucks = context.trucks
        /\ context'.feeder = context.feeder /\ context'.deviated = context.deviated
        /\ context'.loads = context.loads /\ context'.loading = context.loading
    BY <1>4, <1>5 DEF IInv, TypeOK, Contexts
  <1>7. doing' \in [step : {"idle", "asked", "guarded", "resplit"}, calls : SUBSET Tools,
                    pass : BOOLEAN, plan : Splits]
        /\ doing'.step = "idle" /\ doing'.calls = {} /\ doing'.pass = FALSE
        /\ doing'.plan = Empty("none")
    BY <1>1, PlannedEmpty DEF Idle
  <1>8. CallsDue' /\ PassIsDue'
    BY <1>7 DEF CallsDue, PassIsDue
  <1>9. ConflictIsOwn'
    BY <1>1, <1>6 DEF IInv, ConflictIsOwn, Conflict
  <1>10. Planned(context'.split, context', ok')
    BY <1>1, <1>4, <1>6, PlannedStays
  <1>11. ok' \subseteq Tools /\ ok' = ok /\ registered' \in Problems \cup {"none"}
         /\ approved' \in 0 .. 4
    BY <1>1 DEF IInv, TypeOK
  <1> QED  BY <1>1, <1>2, <1>4, <1>6, <1>7, <1>8, <1>9, <1>10, <1>11, LaterKeeps-----------------------------------------------------------------------------

LEMMA RunKeeps ==
  ASSUME IInv, Run
  PROVE  IInv'
  <1>1. CASE Call
    <2>1. Current \in Tools
      BY <1>1, CurrentIsDue DEF Call, IInv, TypeOK
    <2>2. CASE Admitted(Current)
      <3>1. Current \in Ready \/ Current = "split" \/ Current = "dispatch" \/ Current = "loading"
        BY <2>1 DEF Tools, Ready
      <3> QED  BY <1>1, <2>2, <3>1, AnswerKeeps, SplitKeeps, DispatchKeeps, LoadingKeeps
    <2>3. CASE ~Admitted(Current)
      BY <1>1, <2>3, FailureKeeps
    <2> QED  BY <2>2, <2>3
  <1>2. CASE \E early \in BOOLEAN : Ask(early)
    BY <1>2, AskKeeps
  <1>3. CASE Guard
    BY <1>3, GuardKeeps
  <1>4. CASE Approve
    BY <1>4, ApproveKeeps
  <1>5. CASE \E asked \in Asked : Modify(asked)
    BY <1>5, ModifyKeeps
  <1>6. CASE MonitorQuery
    BY <1>6, MonitorQueryKeeps
  <1>7. CASE MonitorResplit
    BY <1>7, MonitorResplitKeeps
  <1> QED  BY <1>1, <1>2, <1>3, <1>4, <1>5, <1>6, <1>7 DEF Run

LEMMA Stutter ==
  ASSUME IInv, UNCHANGED vars
  PROVE  IInv'
  <1>1. UNCHANGED <<active, registered, port, warned, context, approved, ok, doing>>
    BY DEF vars
  <1>2. TypeOK' /\ Injected'
    BY <1>1 DEF IInv, TypeOK, Injected
  <1> QED  BY <1>1, <1>2, RunUntouched DEF IInv

\* Every state the process and the run reach satisfies the inductive invariant.
THEOREM Invariant == Spec => []IInv
  <1>1. Init => IInv
    BY Initially
  <1>2. IInv /\ [Next]_vars => IInv'
    <2> SUFFICES ASSUME IInv, [Next]_vars PROVE IInv'
      OBVIOUS
    <2>1. CASE Process
      BY <2>1, ProcessKeeps
    <2>2. CASE Run
      BY <2>2, RunKeeps
    <2>3. CASE UNCHANGED vars
      BY <2>3, Stutter
    <2> QED  BY <2>1, <2>2, <2>3 DEF Next
  <1> QED  BY <1>1, <1>2, PTL DEF Spec

\* The context keeps its type, and what has an answer is in it.
THEOREM TypeCorrect == Spec => []TypeOK
  <1>1. IInv => TypeOK
    BY DEF IInv
  <1> QED  BY <1>1, Invariant, PTL

\* A run sees or deviates for a berth conflict only after one was injected for
\* it or for all runs.
THEOREM ConflictsAreOwn == Spec => []ConflictIsOwn
  <1>1. IInv => ConflictIsOwn
    BY DEF IInv
  <1> QED  BY <1>1, Invariant, PTL

\* A split accounts for every container of its yard, in a berth conflict too.
THEOREM SplitsCover == Spec => []SplitCoversYard
  <1>1. IInv => SplitCoversYard
    BY DEF IInv, SplitsPlanned, Planned, SplitCoversYard
  <1> QED  BY <1>1, Invariant, PTL

\* A plan sends what it says by road, which is something and not all the yard
\* but for a fleet that carries it.
LEMMA PlanIsSent ==
  ASSUME IInv, NEW split \in Splits, IsPlan(split), Planned(split, context, ok)
  PROVE  /\ RoadCount(context.yard, context.trucks, split) = split.road
         /\ split.road \in 1 .. Len(context.yard) /\ Ready \subseteq ok
  <1>1. /\ context.yard \in Seq(Sizes) /\ Len(context.yard) \in Nat
        /\ Len(context.yard) > SeaLimit /\ SeaLimit \in Nat /\ SeaLimit > 0
        /\ context.trucks \in Nat /\ context.trucks > 0
    BY YardKnown DEF IInv, Planned
  <1>2. split.road \in 1 .. Len(context.yard)
    BY <1>1 DEF Planned, Usual
  <1> QED  BY <1>2 DEF RoadCount, Planned

\* The trucks' loads are a partition of what is sent, and under a usual split
\* no truck gets more than two containers.
THEOREM LoadsFit == Spec => []DispatchFits
  <1>1. ASSUME IInv PROVE DispatchFits
    <2> DEFINE loads == context.loads.trucks
               plan == context.loads.plan
               n == RoadCount(context.yard, context.trucks, plan)
    <2> SUFFICES ASSUME loads # <<>>
                 PROVE  /\ UNION {loads[k] : k \in DOMAIN loads} = 1 .. n
                        /\ \A j, k \in DOMAIN loads : j # k => loads[j] \cap loads[k] = {}
                        /\ plan.kind = "fleet" =>
                              \A k \in DOMAIN loads : Cardinality(loads[k]) <= 2
      BY DEF DispatchFits
    <2>1. context.loads # NoLoads
      BY DEF NoLoads
    <2>2. Ready \subseteq ok /\ loads = Loads(n, context.trucks)
      BY <1>1, <2>1 DEF IInv, LoadsMade
    <2>3. /\ context.yard \in Seq(Sizes) /\ context.trucks \in Nat /\ context.trucks > 0
          /\ Len(context.yard) \in Nat
      BY <1>1, <2>2, YardKnown DEF IInv
    <2>4. plan \in Splits /\ Planned(plan, context, ok)
      BY <1>1 DEF IInv, TypeOK, Contexts, SplitsPlanned
    <2>5. n \in Nat
      BY <2>3, <2>4, LoadsType
    <2>6. plan.kind = "fleet" => n <= 2 * context.trucks
      <3> SUFFICES ASSUME plan.kind = "fleet" PROVE n <= 2 * context.trucks
        OBVIOUS
      <3>1. IsPlan(plan)
        BY DEF IsPlan
      <3>2. n = plan.road
        BY <1>1, <2>4, <3>1, PlanIsSent
      <3>3. plan.road = Usual(context)
        BY <2>4, <3>1 DEF Planned
      <3> HIDE DEF n, plan
      <3> QED  BY <2>3, <3>2, <3>3 DEF Usual
    <2> HIDE DEF loads, n, plan
    <2>7. DOMAIN loads = 1 .. context.trucks /\ Carried(loads) = 1 .. n
      BY <2>2, <2>3, <2>5, LoadsCover
    <2>8. \A j, k \in 1 .. context.trucks : j # k => loads[j] \cap loads[k] = {}
      BY <2>2, <2>3, <2>5, LoadsApart
    <2>9. plan.kind = "fleet" => \A k \in 1 .. context.trucks : Cardinality(loads[k]) <= 2
      BY <2>2, <2>3, <2>5, <2>6, LoadsSmall
    <2> QED  BY <2>7, <2>8, <2>9 DEF Carried
  <1> QED  BY <1>1, Invariant, PTL

\* Until the monitor replaces the split, the trucks' loads and the list of the
\* containers by sea are the whole yard and have none in common.
THEOREM AllAccountedFor == Spec => []NobodyLeftBehind
  <1>1. ASSUME IInv PROVE NobodyLeftBehind
    <2> DEFINE loads == context.loads.trucks
               plan == context.loads.plan
               told == context.loading.plan
               sent == UNION {loads[k] : k \in DOMAIN loads}
    <2> SUFFICES ASSUME ~context.deviated, IsPlan(plan), IsPlan(told)
                 PROVE  /\ sent \cup context.loading.sea = DOMAIN context.yard
                        /\ sent \cap context.loading.sea = {}
      BY DEF NobodyLeftBehind
    <2>1. plan \in Splits /\ told \in Splits
          /\ Planned(plan, context, ok) /\ Planned(told, context, ok)
      BY <1>1 DEF IInv, TypeOK, Contexts, SplitsPlanned
    <2>2. context.loads # NoLoads
      BY PlannedEmpty DEF NoLoads
    <2> HIDE DEF plan, told
    <2>3. /\ RoadCount(context.yard, context.trucks, plan) = plan.road /\ Ready \subseteq ok
          /\ plan.road \in 1 .. Len(context.yard)
      BY <1>1, <2>1, PlanIsSent
    <2>4. plan.road = Target(context) /\ told.road = Target(context)
          /\ told.road + told.sea = Len(context.yard)
      BY <2>1 DEF Planned
    <2>5. /\ context.yard \in Seq(Sizes) /\ context.trucks \in Nat /\ context.trucks > 0
          /\ Len(context.yard) \in Nat /\ Len(context.yard) > 0
          /\ DOMAIN context.yard = 1 .. Len(context.yard)
      <3>1. /\ context.yard \in Seq(Sizes) /\ context.trucks \in Nat /\ context.trucks > 0
            /\ Len(context.yard) \in Nat
        BY <1>1, <2>3, YardKnown DEF IInv
      <3>2. DOMAIN context.yard = 1 .. Len(context.yard)
        BY <3>1
      <3> QED  BY <2>3, <3>1, <3>2
    <2>6. loads = Loads(plan.road, context.trucks)
      BY <1>1, <2>2, <2>3 DEF IInv, LoadsMade, plan
    <2> HIDE DEF loads
    <2>7. sent = 1 .. plan.road
      <3>1. plan.road \in Nat
        BY <2>3, <2>5
      <3>2. DOMAIN loads = 1 .. context.trucks /\ Carried(loads) = 1 .. plan.road
        BY <2>5, <2>6, <3>1, LoadsCover
      <3> QED  BY <3>2 DEF Carried
    <2>8. context.loading.sea = Expected(context.yard, told).sea
      BY <1>1 DEF IInv, ListsMade, told
    <2>9. Expected(context.yard, told).sea = (told.road + 1) .. (told.road + told.sea)
      BY <2>4, <2>5 DEF Expected
    <2>10. context.loading.sea = (plan.road + 1) .. Len(context.yard)
      BY <2>4, <2>8, <2>9
    <2> HIDE DEF sent
    <2> QED  BY <2>3, <2>5, <2>7, <2>10
  <1> QED  BY <1>1, Invariant, PTL

\* Only a dispatch that is let in changes the loads, and it had its pass.
LEMMA LoadsChange ==
  ASSUME IInv, [Next]_vars, context'.loads # context.loads
  PROVE  /\ approved >= 2 /\ context.yard' = context.yard
         /\ context'.loads.plan = doing.plan
         /\ context'.loads.trucks =
              Loads(RoadCount(context.yard, context.trucks, doing.plan), context.trucks)
  <1>1. context \in Contexts
    BY DEF IInv, TypeOK
  <1>2. Call
    <2>1. CASE Process \/ UNCHANGED vars
      BY <2>1 DEF Process, SwitchProblem, SetProblem, Inject, ResetMocks, vars
    <2>2. CASE \/ \E early \in BOOLEAN : Ask(early)
               \/ Guard
               \/ Approve
      BY <2>2 DEF Ask, Guard, Approve
    <2>3. CASE \E asked \in Asked : Modify(asked)
      BY <1>1, <2>3 DEF Modify, Contexts
    <2>4. CASE MonitorQuery
      BY <1>1, <2>4 DEF MonitorQuery, Contexts
    <2>5. CASE MonitorResplit
      BY <1>1, <2>5 DEF MonitorResplit, Contexts
    <2> QED  BY <2>1, <2>2, <2>3, <2>4, <2>5 DEF Next, Run
  <1>3. Current \in Tools
    BY <1>2, CurrentIsDue DEF Call, IInv, TypeOK
  <1>4. Admitted(Current) /\ Executed(Current)
    <2> SUFFICES ASSUME ~Admitted(Current) PROVE FALSE
      BY <1>2 DEF Call
    <2>1. Failed(Current)
      BY <1>2 DEF Call
    <2> QED  BY <1>1, <2>1 DEF Failed, Contexts
  <1>5. Current = "dispatch"
    <2> SUFFICES ASSUME Current # "dispatch" PROVE FALSE
      OBVIOUS
    <2> QED  BY <1>1, <1>3, <1>4 DEF Executed, Contexts, Tools
  <1>6. approved >= 2
    BY <1>4, <1>5 DEF Admitted, PostApproval, IInv, PassIsDue
  <1>7. context' = [context EXCEPT !.dispatched = TRUE,
                     !.loads = [trucks |-> Loads(RoadCount(context.yard, context.trucks, doing.plan),
                                                 context.trucks),
                                plan |-> doing.plan]]
    BY <1>4, <1>5 DEF Executed
  <1> QED  BY <1>1, <1>6, <1>7 DEF Contexts

\* A dispatch goes out under HITL-2 only, whatever the registry holds meanwhile.
THEOREM DispatchIsApproved == Spec => GuardedTwice
  <1>1. IInv /\ [Next]_vars => [context'.loads # context.loads => approved >= 2]_vars
    BY LoadsChange
  <1> QED  BY <1>1, Invariant, PTL DEF Spec, GuardedTwice

\* Whatever 40ft containers are among the first of a list, they take no more
\* trips than if all of the list's came first.
LEMMA TripsCover ==
  ASSUME NEW yard \in Seq(Sizes), NEW n \in 0 .. Len(yard)
  PROVE  TripsOf(yard, 1 .. n) <= RoadTrips(yard, n)
  <1> DEFINE forties == {c \in 1 .. n : yard[c] = "40ft"}
             twenties == {c \in 1 .. n : yard[c] = "20ft"}
             all == {c \in DOMAIN yard : yard[c] = "40ft"}
             f == Cardinality(forties)
             t == Cardinality(twenties)
  <1>1. Len(yard) \in Nat /\ n \in Nat /\ DOMAIN yard = 1 .. Len(yard)
        /\ \A c \in 1 .. n : yard[c] \in Sizes
    OBVIOUS
  <1>2. IsFiniteSet(1 .. n) /\ Cardinality(1 .. n) = n
    <2>1. Cardinality(1 .. n) = IF 1 > n THEN 0 ELSE n - 1 + 1
      BY <1>1, FS_Interval
    <2> QED  BY <1>1, <2>1, FS_Interval
  <1>3. forties \in SUBSET (1 .. n) /\ twenties \in SUBSET (1 .. n)
        /\ forties \cup twenties = 1 .. n /\ forties \cap twenties = {}
    BY <1>1 DEF Sizes
  <1>4. IsFiniteSet(forties) /\ IsFiniteSet(twenties) /\ f \in Nat /\ t \in Nat /\ f <= n
    <2>1. IsFiniteSet(forties) /\ f <= n
      BY <1>2, <1>3, FS_Subset
    <2>2. IsFiniteSet(twenties)
      BY <1>2, <1>3, FS_Subset
    <2> QED  BY <2>1, <2>2, FS_CardinalityType
  <1>5. f + t = n
    <2> HIDE DEF forties, twenties
    <2>1. Cardinality(forties \cup twenties) = f + t - Cardinality(forties \cap twenties)
      BY <1>4, FS_Union
    <2>2. Cardinality(forties \cap twenties) = 0
      BY <1>3, FS_EmptySet
    <2>3. Cardinality(forties \cup twenties) = n
      BY <1>2, <1>3
    <2> QED  BY <1>1, <1>4, <2>1, <2>2, <2>3
  <1>6. Count(yard, "40ft") \in Nat /\ f <= Count(yard, "40ft")
    <2>1. IsFiniteSet(1 .. Len(yard))
      BY <1>1, FS_Interval
    <2>2. all \in SUBSET (1 .. Len(yard))
      BY <1>1
    <2>3. IsFiniteSet(all)
      BY <2>1, <2>2, FS_Subset
    <2>4. forties \in SUBSET all
      BY <1>1
    <2>5. f <= Cardinality(all)
      BY <2>3, <2>4, FS_Subset
    <2>6. Count(yard, "40ft") = Cardinality(all)
      BY DEF Count
    <2> QED  BY <2>5, <2>6, CountType
  <1>7. TripsOf(yard, 1 .. n) = f + (t + 1) \div 2
    BY DEF TripsOf, Trips
  <1> HIDE DEF f, t
  <1>8. PICK m \in Nat : m = Min({Count(yard, "40ft"), n}) /\ f <= m /\ m <= n
    BY <1>1, <1>4, <1>6, MinMax
  <1>9. RoadTrips(yard, n) = m + (n - m + 1) \div 2
    BY <1>8 DEF RoadTrips, Trips
  <1> QED  BY <1>1, <1>4, <1>5, <1>7, <1>8, <1>9

\* A dispatch takes no more trips than its split was approved with.
THEOREM DispatchWithinTrips == Spec => TripsSuffice
  <1> DEFINE Suffices ==
        LET loads == context'.loads.trucks
            plan == context'.loads.plan
            sent == UNION {loads[k] : k \in DOMAIN loads}
        IN  context'.loads # context.loads /\ plan.kind \in {"fleet", "limited"}
              => TripsOf(context.yard, sent) <= plan.trips
  <1>1. ASSUME IInv, [Next]_vars PROVE Suffices
    <2> DEFINE plan == doing.plan
               trucks == Loads(RoadCount(context.yard, context.trucks, plan), context.trucks)
    <2> SUFFICES ASSUME context'.loads # context.loads, context'.loads.plan.kind \in {"fleet", "limited"}
                 PROVE  TripsOf(context.yard, Carried(context'.loads.trucks)) <= context'.loads.plan.trips
      BY DEF Carried
    <2>1. context'.loads.plan = plan /\ context'.loads.trucks = trucks
      BY <1>1, LoadsChange
    <2>2. plan \in Splits /\ Planned(plan, context, ok)
      BY <1>1 DEF IInv, TypeOK, SplitsPlanned
    <2> HIDE DEF plan
    <2>3. IsPlan(plan)
      BY <2>1 DEF IsPlan
    <2>4. /\ RoadCount(context.yard, context.trucks, plan) = plan.road
          /\ plan.road \in 1 .. Len(context.yard) /\ Ready \subseteq ok
      BY <1>1, <2>2, <2>3, PlanIsSent
    <2>5. context.yard \in Seq(Sizes) /\ context.trucks \in Nat /\ context.trucks > 0
          /\ plan.road \in Nat /\ plan.road \in 0 .. Len(context.yard)
      BY <1>1, <2>4, YardKnown DEF IInv
    <2>6. trucks = Loads(plan.road, context.trucks)
      BY <2>4
    <2> HIDE DEF trucks
    <2>7. Carried(trucks) = 1 .. plan.road
      BY <2>5, <2>6, LoadsCover
    <2>8. TripsOf(context.yard, 1 .. plan.road) <= RoadTrips(context.yard, plan.road)
      BY <2>5, TripsCover
    <2>9. plan.trips = RoadTrips(context.yard, plan.road)
      BY <2>1, <2>2, <2>3 DEF Planned
    <2> QED  BY <2>1, <2>7, <2>8, <2>9
  <1>2. IInv /\ [Next]_vars => [Suffices]_vars
    BY <1>1
  <1> QED  BY <1>2, Invariant, PTL DEF Spec, TripsSuffice
=============================================================================
