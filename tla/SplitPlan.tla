----------------------------- MODULE SplitPlan -----------------------------
(***************************************************************************)
(* The arithmetic of a transfer: how app/tools/optimiser.py divides the    *)
(* containers between road and sea, what app/agent/validation.py accepts   *)
(* of an operator's own numbers, and how dispatch_road_itt.py deals the    *)
(* containers out to the trucks.                                           *)
(*                                                                         *)
(* A yard is the list of the containers' sizes in the order T1 reports     *)
(* them; a container is its place in that list.  Costs are left out: they  *)
(* are the trips and the sea lifts at fixed rates.                         *)
(***************************************************************************)
EXTENDS Integers, Sequences, FiniteSets, FiniteSetsExt

CONSTANTS
    SeaLimit   \* containers that may still go by sea in a berth conflict

ASSUME LimitAssumption == SeaLimit \in Nat \ {0}

Sizes == {"20ft", "40ft"}

Count(yard, size) == Cardinality({c \in DOMAIN yard : yard[c] = size})

\* A prime mover takes one 40ft container, or two 20ft ones, on a trip.
Trips(forties, twenties) == forties + (twenties + 1) \div 2

\* The trips of the all-road baseline, which rounds the last half trip away.
BaselineTrips(yard) == Count(yard, "40ft") + Count(yard, "20ft") \div 2

Kinds == {"none", "failed", "fleet", "limited", "borrowed"}
Empty(kind) == [road |-> 0, sea |-> 0, trips |-> 0, kind |-> kind]
IsPlan(split) == split.kind \notin {"none", "failed"}

\* So many by road, 40ft containers first, and the rest by sea.
ByRoad(yard, road, kind) ==
    LET forties == Min({Count(yard, "40ft"), road})
    IN  [road |-> road, sea |-> Len(yard) - road,
         trips |-> Trips(forties, road - forties), kind |-> kind]

\* Faulty variant: the 20ft containers are put on the road first.
FleetTwentiesFirst(yard, trucks) ==
    LET road == Min({Len(yard), 2 * trucks})
        twenties == Min({Count(yard, "20ft"), road})
    IN  [ByRoad(yard, road, "fleet") EXCEPT !.trips = Trips(road - twenties, twenties)]

\* The usual split: as much by road as the trucks carry at two each.
FleetSplit(yard, trucks) == ByRoad(yard, Min({Len(yard), 2 * trucks}), "fleet")

\* What is offered beside the split comes from compute_itt_split_default,
\* which asks the port systems again and may see another yard and fleet.
Alternatives(seen) ==
    LET all == BaselineTrips(seen.yard)
        total == Len(seen.yard)
        sea == FleetSplit(seen.yard, seen.trucks).sea
    IN  {[road |-> Min({total, all + SeaLimit}), sea |-> 0,
          trips |-> all + SeaLimit, kind |-> "borrowed"],
         [road |-> Max({0, total - sea - SeaLimit}), sea |-> Min({total, sea + SeaLimit}),
          trips |-> Max({0, all - SeaLimit}), kind |-> "borrowed"]}

\* Faulty variant: the total is the one that was just asked for again.
LimitedOfSeen(yard, seen) ==
    [road |-> Len(seen.yard) - SeaLimit, sea |-> SeaLimit,
     trips |-> BaselineTrips(seen.yard), kind |-> "limited"]

\* The split in a berth conflict.  It is not held against the fleet or the
\* feeder's room, and an alternative with the same numbers is taken for it.
LimitedSplit(yard, seen) ==
    LET road == Max({0, Len(yard) - SeaLimit})
        same == {a \in Alternatives(seen) : a.road = road /\ a.sea = SeaLimit}
    IN  IF same # {} THEN CHOOSE a \in same : TRUE
        ELSE [ByRoad(yard, road, "limited") EXCEPT !.sea = SeaLimit]

\* compute_itt_split.
OptimalSplit(yard, trucks, conflict, seen) ==
    IF conflict THEN LimitedSplit(yard, seen) ELSE FleetSplit(yard, trucks)

\* validate_split_modification: of its six guards the ones that numbers typed
\* by an operator can fail.  That they add up is not asked.
Acceptable(asked, trucks, room) == trucks >= 1 /\ asked.sea <= room
-----------------------------------------------------------------------------
\* Faulty variant: every truck takes the rounded-down share.
LoadsRoundedDown(n, trucks) ==
    [k \in 1 .. trucks |-> ((k - 1) * (n \div trucks) + 1) .. k * (n \div trucks)]

\* dispatch_road_itt: n containers in equal chunks over the trucks; the last
\* trucks may stay empty.
Loads(n, trucks) ==
    LET chunk == (n + trucks - 1) \div trucks
    IN  [k \in 1 .. trucks |-> ((k - 1) * chunk + 1) .. Min({k * chunk, n})]

\* How many containers the planner sends: what the split says, or a guess
\* when it says nothing.
RoadCount(yard, trucks, split) ==
    IF split.road > 0 THEN split.road ELSE Min({BaselineTrips(yard), 2 * trucks})

\* The lists the loading sequence at Tuas is told to expect.
Expected(yard, split) ==
    LET told == split.road + split.sea > 0
        road == IF told THEN split.road ELSE BaselineTrips(yard)
        sea == IF told THEN split.sea ELSE Len(yard) - road
    IN  [road |-> 1 .. road, sea |-> (road + 1) .. (road + sea)]

\* The trips a list of containers really takes.  The code looks the sizes up in
\* a process-wide map of the default yard, and counts ids it does not find there
\* as 20ft ones (if it finds none, three of them take two trips); only the
\* figure it reports, total_trips, changes, and no container moves by it.
TripsOf(yard, containers) ==
    LET some(size) == Cardinality({c \in containers : yard[c] = size})
    IN  Trips(some("40ft"), some("20ft"))
=============================================================================
