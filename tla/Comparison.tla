------------------------------- MODULE Comparison -------------------------------
(***************************************************************************)
(* One call of simulation.Service: Simulate, Compare or CompareDetour.      *)
(*                                                                          *)
(* The estimations of the two routes are goroutines of an errgroup that     *)
(* query the database concurrently: the cells near the stops, the demand    *)
(* between pairs of stops, the references of the segments one corridor      *)
(* after the other, the paces of the whole network.  When both have         *)
(* returned, each route is charged with the tariffs of its jurisdiction.    *)
(* Each query sees the database as it is at that moment: they share no      *)
(* transaction.  Simulate is a group of one.                                *)
(***************************************************************************)
EXTENDS Estimators, Sequencing, TLC

CONSTANTS
  Calls,        \* what callers ask: records [kind, baseline, proposed]
  Databases,    \* what the database may hold: [near, trips, references, global]
  TariffTables, \* what the administrators may load: jurisdiction -> bands
  MaxUpdates,   \* bound on the loads of tariffs during the call
  None          \* no answer, no error, no result, no paces

Sides == {"baseline", "proposed"}

Errors == {"validation", "unavailable", "canceled", "noReferences", "noTariff", "internal"}

(* What the columns the estimators read may hold (ddl.sql).                 *)
DatabaseOK(d) ==
  /\ IsFiniteSet(d.near) /\ \A n \in d.near : n.distance \in Nat
  /\ IsFiniteSet(d.trips) /\ \A t \in d.trips : t.count \in Nat
  /\ \A p \in DOMAIN d.references :
       /\ DOMAIN d.references[p] = 1 .. Corridors
       /\ \A k \in 1 .. Corridors :
            /\ IsFiniteSet(d.references[p][k])
            /\ d.references[p][k] \subseteq
                 [route : Nat, nro : Nat, paces : [Scenarios -> Int], weight : Nat]

ASSUME ComparisonAssumption ==
  /\ MaxUpdates \in Nat
  /\ None \notin {"ok"} \cup Errors
  /\ \A c \in Calls :
       /\ c.kind \in {"simulate", "compare", "detour"}
       /\ \A s \in Sides : /\ c[s].stops \in Seq(Int)
                          /\ c[s].paths \in Seq([from : Int, to : Int, length : Int])
  /\ \A d \in Databases : DatabaseOK(d)
  /\ \A t \in TariffTables :
       /\ DOMAIN t = Jurisdictions
       /\ \A j \in Jurisdictions : t[j] \in Seq([min : Nat, max : Nat, fare : Nat])

VARIABLES
  call, database,  \* what is asked, and what the data of the estimators are
  tariffs,         \* the table tarifas_colectivo
  updates,         \* how many times it was loaded since
  context,         \* the caller's context
  group,           \* the errgroup's context
  groupErr,        \* the error the errgroup keeps
  pc,              \* where each goroutine is
  cells, pairs,    \* its assigned cells and the demand between its stops
  pending,         \* the segments it has no paces for, in order
  corridor,        \* the corridor it searches next
  estimates,       \* the estimate of each of its segments
  results,         \* the two results
  answer           \* what the call returns

vars == <<call, database, tariffs, updates, context, group, groupErr, pc, cells, pairs,
          pending, corridor, estimates, results, answer>>

data == <<call, database>>
work == <<cells, pairs, pending, corridor, estimates>>

-----------------------------------------------------------------------------
Running == IF call.kind = "simulate" THEN {"baseline"} ELSE Sides

Route(s) == call[s]
Stops(s) == Route(s).stops
Paths(s) == Route(s).paths

Unresolved == [corridor |-> 0, paces |-> None]

References(path, k) ==
  IF path \in DOMAIN database.references THEN database.references[path][k] ELSE {}

\* The segments of a route, in its order.
SegmentResults(s) ==
  [i \in DOMAIN Paths(s) |->
     [origin |-> Stops(s)[i], destination |-> Stops(s)[i + 1], distance |-> Paths(s)[i].length,
      seconds |-> [c \in Scenarios |-> estimatedSeconds(Paths(s)[i].length, estimates[s][i].paces[c])]]]

\* Mutant of FareSegments: a detour is charged for its own length.
OwnSegments(s) == SegmentResults(s)

FareSegments(s) ==
  IF call.kind = "detour" /\ s = "proposed"
    THEN detourFareTravelTime(Stops("baseline"), Stops("proposed"), SegmentResults("baseline"))
    ELSE SegmentResults(s)

Init ==
  /\ call \in Calls
  /\ database \in Databases
  /\ tariffs \in TariffTables
  /\ updates = 0
  /\ context = "live" /\ group = "live" /\ groupErr = None
  /\ pc = [s \in Sides |-> "called"]
  /\ cells = [s \in Sides |-> {}]
  /\ pairs = [s \in Sides |-> {}]
  /\ pending = [s \in Sides |-> << >>]
  /\ corridor = [s \in Sides |-> 1]
  /\ estimates = [s \in Sides |-> << >>]
  /\ results = [s \in Sides |-> None]
  /\ answer = None

-----------------------------------------------------------------------------
(* The call.                                                                *)
Accepted ==
  /\ \A s \in Running : Validate(Route(s))
  /\ call.kind # "simulate" => call.baseline.jurisdiction = call.proposed.jurisdiction
  /\ call.kind = "detour" => validateDetourStops(Stops("baseline"), Stops("proposed"))

Called == answer = None /\ \A s \in Sides : pc[s] = "called"

Reject ==
  /\ Called /\ ~ Accepted
  /\ answer' = "validation"
  /\ UNCHANGED <<data, tariffs, updates, context, group, groupErr, pc, work, results>>

Estimate ==
  /\ Called /\ Accepted
  /\ pc' = [s \in Sides |-> IF s \in Running THEN "cells" ELSE "estimated"]
  /\ pending' = [s \in Sides |-> IF s \in Running THEN [i \in DOMAIN Paths(s) |-> i] ELSE << >>]
  /\ estimates' = [s \in Sides |-> IF s \in Running THEN [i \in DOMAIN Paths(s) |-> Unresolved]
                                                    ELSE << >>]
  /\ UNCHANGED <<data, tariffs, updates, context, group, groupErr, cells, pairs, corridor,
                 results, answer>>

-----------------------------------------------------------------------------
(* A query under a context: it answers only while the context is live.      *)
QueryErrors(ctx) == {"unavailable"} \cup (IF ctx = "live" THEN {} ELSE {"canceled"})

\* The errgroup keeps the first error.
Kept(kept, err) == IF kept = None THEN err ELSE kept

\* The goroutine of s returns an error, which cancels the other's queries.
Fail(s, err) ==
  /\ pc' = [pc EXCEPT ![s] = "failed"]
  /\ groupErr' = Kept(groupErr, err)
  /\ group' = "canceled"
  /\ UNCHANGED <<data, tariffs, updates, context, work, results, answer>>

Step(s, next) ==
  /\ pc' = [pc EXCEPT ![s] = next]
  /\ UNCHANGED <<data, tariffs, updates, context, group, groupErr, results, answer>>

QueryFails(s) ==
  /\ \/ pc[s] \in {"cells", "radius", "global"}
     \/ pc[s] = "pairs" /\ cells[s] # {}
  /\ \E err \in QueryErrors(group) : Fail(s, err)

FindCells(s) ==
  /\ pc[s] = "cells" /\ group = "live"
  /\ cells' = [cells EXCEPT ![s] = assignCells(FindCellCandidates(Stops(s), database.near))]
  /\ Step(s, "pairs")
  /\ UNCHANGED <<pairs, pending, corridor, estimates>>

\* Without cells there is nothing to ask the database for.
FindPairs(s) ==
  /\ pc[s] = "pairs"
  /\ cells[s] # {} => group = "live"
  /\ pairs' = [pairs EXCEPT ![s] = DemandByStopPair(cells[s], database.trips)]
  /\ Step(s, "radius")
  /\ UNCHANGED <<cells, pending, corridor, estimates>>

\* Mutant of Target: the position among the pending segments, not the order.
TargetPosition(segments, position) == position

\* The segment whose estimate an answer is for.
Target(segments, position) == segments[position]

\* Mutant of AfterRadius: one corridor too many.
AfterRadiusBeyond(left, k) ==
  CASE left = << >> -> "estimated"
    [] left # << >> /\ k <= Corridors -> "radius"
    [] OTHER -> "global"

\* Where the search goes when these segments are left after corridor k.
AfterRadius(left, k) ==
  CASE left = << >> -> "estimated"
    [] left # << >> /\ k < Corridors -> "radius"
    [] OTHER -> "global"

\* resolveLocalPaces, one turn: the pending segments in one corridor.
Widen(s) ==
  LET k == corridor[s]
      Found(i) == References(Paths(s)[i], k)
      Resolved(i) == Resolves(Found(i), k)
      left == Filtered(pending[s], LAMBDA i : ~ Resolved(i))
      At(i) == {p \in DOMAIN pending[s] : Resolved(pending[s][p]) /\ Target(pending[s], p) = i} IN
  /\ pc[s] = "radius" /\ group = "live"
  /\ estimates' = [estimates EXCEPT ![s] =
       [i \in DOMAIN @ |-> IF At(i) = {} THEN @[i]
                           ELSE [corridor |-> k, paces |-> Medians(Found(pending[s][CHOOSE p \in At(i) : TRUE]))]]]
  /\ pending' = [pending EXCEPT ![s] = left]
  /\ corridor' = [corridor EXCEPT ![s] = k + 1]
  /\ Step(s, AfterRadius(left, k))
  /\ UNCHANGED <<cells, pairs>>

\* One query for all the segments that are left.
FindGlobal(s) ==
  /\ pc[s] = "global" /\ group = "live"
  /\ IF database.global # None /\ validPaces(database.global)
       THEN /\ estimates' = [estimates EXCEPT ![s] =
                 [i \in DOMAIN @ |-> IF @[i] = Unresolved
                                     THEN [corridor |-> 0, paces |-> database.global] ELSE @[i]]]
            /\ pending' = [pending EXCEPT ![s] = << >>]
            /\ Step(s, "estimated")
            /\ UNCHANGED <<cells, pairs, corridor>>
       ELSE Fail(s, "noReferences")

-----------------------------------------------------------------------------
(* After the goroutines.                                                    *)
Mismatch ==
  call.kind = "detour" /\ ~ SegmentsMatch(Stops("baseline"), SegmentResults("baseline"))

GroupAnswer ==
  IF groupErr # None THEN groupErr ELSE IF Mismatch THEN "internal" ELSE None

Wait ==
  /\ ~ Called /\ answer = None
  /\ \A s \in Sides : pc[s] \in {"estimated", "failed"}
  /\ group' = "canceled"
  /\ answer' = GroupAnswer
  /\ pc' = [s \in Sides |-> IF GroupAnswer # None THEN pc[s]
                            ELSE IF s \in Running THEN "charge" ELSE "charged"]
  /\ UNCHANGED <<data, tariffs, updates, context, groupErr, work, results>>

\* Mutant of ChargingContext: the group's, which Wait has cancelled.
GroupContext == group

\* The queries after the group run under the caller's context.
ChargingContext == context

Turn(s) == answer = None /\ pc[s] = "charge" /\ (s = "proposed" => pc["baseline"] = "charged")

(* The totals of a route, the fare of each of its pairs and what each stop  *)
(* contributes.  Capture and payment mix are factors common to all fares.   *)
Result(s, bands) ==
  LET segments == FareSegments(s)
      Distance(p) == pairDistance(p, segments)
      Fare(p) == tariffForDistance(Distance(p), bands)
      Demand(p) == p.gross
      Revenue(p) == p.potential * Fare(p)
      By(Value(_), i, end) == SumFunction([p \in {q \in pairs[s] : q[end] = i} |-> Value(p)]) IN
  [gross |-> GrossDemand(pairs[s]),
   revenue |-> SumFunction([p \in pairs[s] |-> Revenue(p)]),
   fares |-> {[from |-> Stops(s)[p.origin], to |-> Stops(s)[p.destination],
               distance |-> Distance(p), fare |-> Fare(p)] : p \in pairs[s]},
   byStop |-> [i \in DOMAIN Stops(s) |->
     [originGross |-> By(Demand, i, "origin"), destinationGross |-> By(Demand, i, "destination"),
      originRevenue |-> By(Revenue, i, "origin"),
      destinationRevenue |-> By(Revenue, i, "destination")]]]

\* What is wrong with the bands or with the pairs, or None.
Fault(s, bands) ==
  LET segments == FareSegments(s) IN
  IF ~ validateBands(bands) THEN "noTariff"
  ELSE IF \E p \in pairs[s] : ~ PairMatches(p, Stops(s), segments) THEN "internal"
  ELSE IF \E p \in pairs[s] : ~ HasTariff(pairDistance(p, segments), bands) THEN "noTariff"
  ELSE None

Charge(s) ==
  LET bands == tariffs[Route(s).jurisdiction]
      Last == \A r \in Sides \ {s} : pc[r] = "charged" IN
  /\ Turn(s) /\ ChargingContext = "live"
  /\ IF Fault(s, bands) # None
       THEN answer' = Fault(s, bands) /\ UNCHANGED <<pc, results>>
       ELSE /\ results' = [results EXCEPT ![s] = Result(s, bands)]
            /\ pc' = [pc EXCEPT ![s] = "charged"]
            /\ answer' = IF Last THEN "ok" ELSE None
  /\ UNCHANGED <<data, tariffs, updates, context, group, groupErr, work>>

ChargeFails(s) ==
  /\ Turn(s)
  /\ \E err \in QueryErrors(ChargingContext) : answer' = err
  /\ UNCHANGED <<data, tariffs, updates, context, group, groupErr, pc, work, results>>

-----------------------------------------------------------------------------
(* The surroundings.                                                        *)
\* The client leaves or the deadline of the handler passes.
EndContext ==
  /\ answer = None /\ context = "live"
  /\ context' = "canceled" /\ group' = "canceled"
  /\ UNCHANGED <<data, tariffs, updates, groupErr, pc, work, results, answer>>

\* An administrator loads a new table of tariffs, in one statement.
UpdateTariffs ==
  /\ answer = None /\ updates < MaxUpdates
  /\ tariffs' \in TariffTables \ {tariffs}
  /\ updates' = updates + 1
  /\ UNCHANGED <<data, context, group, groupErr, pc, work, results, answer>>

Terminated == answer # None /\ UNCHANGED vars

Goroutine(s) == FindCells(s) \/ FindPairs(s) \/ Widen(s) \/ FindGlobal(s) \/ QueryFails(s)

Next ==
  \/ Reject \/ Estimate \/ Wait
  \/ \E s \in Sides : Goroutine(s) \/ Charge(s) \/ ChargeFails(s)
  \/ EndContext \/ UpdateTariffs
  \/ Terminated

Spec == Init /\ [][Next]_vars

-----------------------------------------------------------------------------
(* The state's shape: who is where, and what may have gone wrong.           *)
TypeOK ==
  /\ call \in Calls /\ database \in Databases /\ tariffs \in TariffTables
  /\ updates \in 0 .. MaxUpdates
  /\ context \in {"live", "canceled"} /\ group \in {"live", "canceled"}
  /\ groupErr \in Errors \cup {None}
  /\ pc \in [Sides -> {"called", "cells", "pairs", "radius", "global", "estimated", "failed",
                       "charge", "charged"}]
  /\ corridor \in [Sides -> 1 .. Corridors + 1]
  /\ \A s \in Sides : pc[s] = "radius" => corridor[s] \in 1 .. Corridors
  /\ \A s \in Sides : \A p \in DOMAIN pending[s] : pending[s][p] \in DOMAIN estimates[s]
  /\ answer \in Errors \cup {None, "ok"}

(* A failure of one estimation cancels the other's queries, and Wait cancels*)
(* the group in any case; still no caller is told of a cancellation that is *)
(* not of its own context.                                                  *)
CauseIsReported == answer = "canceled" => context = "canceled"

(* Nothing is answered "ok" once the caller's context has ended, whichever  *)
(* query was next.                                                          *)
CancellationStops == [][context = "canceled" => answer' # "ok"]_<<answer>>

(* resolveLocalPaces widens the corridor only for the segments that need    *)
(* it: each one gets its paces from the narrowest corridor that has enough  *)
(* lines, from any line in the widest, or else from the whole network.      *)
LinesIn(s, i, k) ==
  {f.route : f \in {g \in References(Paths(s)[i], k) : validPaces(g.paces) /\ g.weight > 0}}

Sufficient(s, i) ==
  {k \in 1 .. Corridors :
     \/ Cardinality(LinesIn(s, i, k)) >= MinimumReferenceRoutes
     \/ k = Corridors /\ LinesIn(s, i, k) # {}}

NarrowestCorridor ==
  \A s \in Running : pc[s] \in {"estimated", "charge", "charged"} =>
    \A i \in DOMAIN Paths(s) :
      estimates[s][i].corridor = IF Sufficient(s, i) = {} THEN 0 ELSE Min(Sufficient(s, i))

(* The pace of a segment is a median of its own references in each scenario:*)
(* the lines at least that slow and those at least that fast each have half *)
(* of the weight, a line never weighing more than Whole.                    *)
Balanced(votes, pace, c) ==
  /\ 2 * WeightOf({v \in votes : v.paces[c] <= pace}) >= WeightOf(votes)
  /\ 2 * WeightOf({v \in votes : v.paces[c] >= pace}) >= WeightOf(votes)

PacesAreMedian ==
  \A s \in Running : \A i \in DOMAIN estimates[s] :
    LET e == estimates[s][i] IN
    e.corridor > 0 => \A c \in Scenarios :
      Balanced(consolidateRoutes(References(Paths(s)[i], e.corridor)), e.paces[c], c)

(* A trip of the matrix counts at most once, however many stops its cells   *)
(* are near, and what the stops contribute as origins and as destinations   *)
(* adds up to the totals.                                                   *)
Reached(s) == {n.cell : n \in {m \in database.near : m.stop \in Range(Stops(s)) /\ m.distance < Radius}}

TripsAreCountedOnce ==
  \A s \in Sides : results[s] # None =>
    LET r == results[s]
        Sum(field) == SumFunction([i \in DOMAIN r.byStop |-> r.byStop[i][field]])
        Counts == [t \in {u \in database.trips : {u.from, u.to} \subseteq Reached(s)} |-> t.count] IN
    /\ r.gross <= SumFunction(Counts)
    /\ r.gross = Sum("originGross") /\ r.gross = Sum("destinationGross")
    /\ r.revenue = Sum("originRevenue") /\ r.revenue = Sum("destinationRevenue")

(* A detour charges a pair of stops by the distance the original route has  *)
(* between them, whatever stops the variant omits and however it goes.      *)
FaresOfTheOriginal ==
  call.kind = "detour" /\ results["proposed"] # None =>
    \A f \in results["proposed"].fares :
      LET Along == {i \in DOMAIN Paths("baseline") :
                      /\ Order(Stops("baseline"), f.from) <= i
                      /\ i < Order(Stops("baseline"), f.to)} IN
      f.distance = SumFunction([i \in Along |-> Paths("baseline")[i].length])

(* The checks of pairDistance and detourFareTravelTime that the stops of the*)
(* demand are those of the segments never fail.                             *)
NeverFailsInternally == answer # "internal"

(* Two pairs of a comparison at the same distance pay the same fare: the    *)
(* difference between the two routes is of the routes and not of the tariff.*)
OneTariff ==
  \A s, r \in Sides : results[s] # None /\ results[r] # None =>
    \A f \in results[s].fares, g \in results[r].fares :
      f.distance = g.distance => f.fare = g.fare
=================================================================================
