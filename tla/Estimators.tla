------------------------------- MODULE Estimators -------------------------------
(***************************************************************************)
(* The calculations of the estimators of a route: demand, travel time and  *)
(* revenue, as functions of what their queries return.  Stops, segments and *)
(* corridors are numbered from 1, a pace is a number of seconds per Unit of *)
(* length, and a weight is a share of Whole.                                *)
(***************************************************************************)
EXTENDS Integers, Sequences, FiniteSetsExt, Functions

CONSTANTS
  Corridors,               \* how many radii the policy has, narrowest first
  MinimumReferenceRoutes,  \* how many lines make a sample
  Whole,                   \* the weight 1
  Unit,                    \* the length a pace is given for
  Radius,                  \* how far from its stop a cell may be
  Jurisdictions            \* the tariff authorities

ASSUME EstimatorsAssumption ==
  /\ Corridors \in Nat \ {0}
  /\ MinimumReferenceRoutes \in Nat \ {0}
  /\ Whole \in Nat \ {0}
  /\ Unit \in Nat \ {0}
  /\ Radius \in Nat \ {0}

Scenarios == {"offPeak", "typical", "peak"}

-----------------------------------------------------------------------------
(* route.  A path has two ends, which are stops, and a length.              *)
Validate(route) ==
  /\ route.jurisdiction \in Jurisdictions
  /\ Len(route.stops) >= 2
  /\ \A i, j \in DOMAIN route.stops : route.stops[i] = route.stops[j] => i = j
  /\ Len(route.paths) = Len(route.stops) - 1
  /\ \A i \in DOMAIN route.paths :
       /\ route.paths[i].from = route.stops[i]
       /\ route.paths[i].to = route.stops[i + 1]
       /\ route.paths[i].length > 0

-----------------------------------------------------------------------------
(* demand.  A candidate is a cell near a stop of the route and its distance.*)
FindCellCandidates(stops, near) ==
  LET Near == {q \in (DOMAIN stops) \X near : q[2].stop = stops[q[1]] /\ q[2].distance < Radius} IN
  {[cell |-> q[2].cell, stop |-> q[1], distance |-> q[2].distance] : q \in Near}

remainingAccessibility(distance) == IF distance >= Radius THEN 0 ELSE Radius - distance

candidatePrecedes(candidate, current) ==
  \/ candidate.distance < current.distance
  \/ candidate.distance = current.distance /\ candidate.stop < current.stop

\* Mutant of assignCells: a cell counts for every stop it is near.
assignEverywhere(candidates) == candidates

\* Each cell to one stop.
assignCells(candidates) ==
  {c \in candidates :
     \A d \in candidates : d.cell = c.cell /\ d # c => candidatePrecedes(c, d)}

\* Mutant of Downstream: a stop is downstream of itself.
DownstreamOrSame(origin, destination) == origin <= destination

Downstream(origin, destination) == origin < destination

(* The trips of the matrix between the cells of two stops.                  *)
Served(cells, trips, i, j) ==
  {x \in cells \X cells \X trips :
     x[1].stop = i /\ x[2].stop = j /\ x[3].from = x[1].cell /\ x[3].to = x[2].cell}

Gross(served) == SumFunction([x \in served |-> x[3].count])

Potential(served) ==
  SumFunction([x \in served |-> x[3].count * remainingAccessibility(x[1].distance)
                                          * remainingAccessibility(x[2].distance)])

(* find_demand_by_stop_pair.sql; a pair without a trip is not in the answer.*)
DemandByStopPair(cells, trips) ==
  LET Stops == {c.stop : c \in cells}
      Trips(q) == Served(cells, trips, q[1], q[2]) IN
  {[origin |-> q[1], destination |-> q[2], gross |-> Gross(Trips(q)),
    potential |-> Potential(Trips(q))] :
     q \in {r \in Stops \X Stops : Downstream(r[1], r[2]) /\ Trips(r) # {}}}

GrossDemand(pairs) == SumFunction([p \in pairs |-> p.gross])

-----------------------------------------------------------------------------
(* traveltime.  A reference is a fragment of a line near the segment, from  *)
(* its stop nro on, with its paces and its weight.                          *)
validPaces(paces) ==
  /\ paces["offPeak"] > 0
  /\ paces["offPeak"] <= paces["typical"]
  /\ paces["typical"] <= paces["peak"]

WeightOf(values) == SumFunction([v \in values |-> v.weight])

(* One vote per line, of at most Whole, with the average of its fragments.  *)
consolidateRoutes(references) ==
  LET valid == {f \in references : validPaces(f.paces) /\ f.weight > 0}
      Of(r) == {f \in valid : f.route = r}
      Pace(r, s) == SumFunction([f \in Of(r) |-> f.paces[s] * f.weight]) \div WeightOf(Of(r)) IN
  {[route |-> r, weight |-> Min({WeightOf(Of(r)), Whole}),
    paces |-> [s \in Scenarios |-> Pace(r, s)]] :
     r \in {f.route : f \in valid}}

\* Mutant of weightedMedian: the ranks of the typical scenario serve for all.
medianByTypical(values, s) ==
  LET Precedes(u, v) ==
        \/ u.paces["typical"] < v.paces["typical"]
        \/ u.paces["typical"] = v.paces["typical"] /\ u.route < v.route
      Half(v) == 2 * WeightOf({u \in values : u = v \/ Precedes(u, v)}) >= WeightOf(values) IN
  (CHOOSE v \in values : Half(v) /\ \A u \in values : Half(u) => u = v \/ Precedes(v, u)).paces[s]

\* The first value, in order, at which half of the weight is reached.
weightedMedian(values, s) ==
  LET Precedes(u, v) ==
        \/ u.paces[s] < v.paces[s]
        \/ u.paces[s] = v.paces[s] /\ u.route < v.route
      Half(v) == 2 * WeightOf({u \in values : u = v \/ Precedes(u, v)}) >= WeightOf(values) IN
  (CHOOSE v \in values : Half(v) /\ \A u \in values : Half(u) => u = v \/ Precedes(v, u)).paces[s]

Medians(references) == [s \in Scenarios |-> weightedMedian(consolidateRoutes(references), s)]

(* pacesAtRadius finds paces for a segment in a corridor.                   *)
Resolves(references, corridor) ==
  LET routes == consolidateRoutes(references) IN
  /\ \/ Cardinality(routes) >= MinimumReferenceRoutes
     \/ corridor = Corridors /\ routes # {}
  /\ validPaces(Medians(references))

\* Rounded to the nearest second.
estimatedSeconds(length, pace) == Max({1, (2 * length * pace + Unit) \div (2 * Unit)})

-----------------------------------------------------------------------------
(* revenue.  A band has an exclusive maximum, or none (0).                  *)
validateBands(bands) ==
  /\ bands # << >>
  /\ \A i \in DOMAIN bands : bands[i].max = 0 \/ bands[i].min < bands[i].max

Between(segments, from, to) == SumFunction([i \in from .. to - 1 |-> segments[i].distance])

(* pairDistance finds the segments of the pair.                             *)
PairMatches(pair, stops, segments) ==
  /\ pair.origin < pair.destination
  /\ pair.destination <= Len(segments) + 1
  /\ segments[pair.origin].origin = stops[pair.origin]
  /\ segments[pair.destination - 1].destination = stops[pair.destination]

pairDistance(pair, segments) == Between(segments, pair.origin, pair.destination)

Covers(band, distance) == distance >= band.min /\ (band.max = 0 \/ distance < band.max)

HasTariff(distance, bands) == \E i \in DOMAIN bands : Covers(bands[i], distance)

tariffForDistance(distance, bands) ==
  bands[CHOOSE i \in DOMAIN bands :
          /\ Covers(bands[i], distance)
          /\ \A j \in 1 .. i - 1 : ~ Covers(bands[j], distance)].fare

-----------------------------------------------------------------------------
(* The fares of a detour.                                                   *)
Order(stops, stop) == CHOOSE i \in DOMAIN stops : stops[i] = stop

validateDetourStops(baseline, proposed) ==
  /\ Range(proposed) \subseteq Range(baseline)
  /\ \A i, j \in DOMAIN proposed :
       i < j => Order(baseline, proposed[i]) < Order(baseline, proposed[j])

SegmentsMatch(baseline, segments) ==
  /\ Len(segments) = Len(baseline) - 1
  /\ \A i \in DOMAIN segments :
       segments[i].origin = baseline[i] /\ segments[i].destination = baseline[i + 1]

(* Consecutive stops of the detour, with their distance on the original     *)
(* route.                                                                   *)
detourFareTravelTime(baseline, proposed, segments) ==
  [i \in 1 .. Len(proposed) - 1 |->
     [origin |-> proposed[i], destination |-> proposed[i + 1],
      distance |-> Between(segments, Order(baseline, proposed[i]),
                                     Order(baseline, proposed[i + 1]))]]
=================================================================================
