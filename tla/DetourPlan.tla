------------------------------ MODULE DetourPlan ------------------------------
(***************************************************************************)
(* Service.Plan of internal/simulation/detour: the portions of a route     *)
(* inside the search area of a cut become intervals (mergeInsidePieces),   *)
(* each interval becomes a plan of stops and anchors (buildIntervalPlans), *)
(* the stops to keep are selected interval by interval (selectInterval)    *)
(* and the variant is sewn from the original route and the paths found     *)
(* (reconstructRoute).                                                     *)
(*                                                                         *)
(* A location on the route is its scalar(), in Parts-ths of a segment, so  *)
(* that locationTolerance separates nothing.  Geometry, directions and     *)
(* travel times are left out; of pgRouting's answers what matters is which *)
(* stops they let Select keep: any Feasible set of DetourSelector.         *)
(***************************************************************************)
EXTENDS Integers, FiniteSets, SequencesExt, Sequencing

CONSTANTS
  StopCount,  \* len(input.Stops)
  Parts,      \* distinguished locations per segment
  NoStop,     \* the stopOrder of an anchor, -1
  NoPath,     \* no path between two points
  NoState     \* see DetourSelector

ASSUME PlanAssumption ==
  /\ StopCount \in Nat \ {0, 1}
  /\ Parts \in Nat \ {0}
  /\ NoStop \notin 0 .. StopCount - 1
  /\ NoPath \notin Nat

Stops == 0 .. StopCount - 1
RouteEnd == (StopCount - 1) * Parts
At(k) == k * Parts

(* The part u of the route lies between the locations u and u + 1.          *)
RouteParts == 0 .. RouteEnd - 1

Span(from, to) == from .. to - 1

VARIABLES
  phase,         \* the call Plan is at
  next,          \* the piece, interval or plan its loop is at, from 1
  pieces,        \* Analyze: portions of segments inside the search area
  intervals,     \* analysis.Intervals
  availability,  \* stop -> StopAvailability, from ClassifyStops
  plans,         \* interval -> nodes and boundaryOmitted
  omitted,       \* stops that are left out
  replacements,  \* connections selected so far
  paths,         \* the variant's PathToNext, in order, once it is sewn
  answer         \* "none" while Plan runs

vars == <<phase, next, pieces, intervals, availability, plans, omitted, replacements, paths, answer>>

Inside == UNION {Span(pieces[i].from, pieces[i].to) : i \in 1 .. Len(pieces)}

Touches(k) == {At(k) - 1, At(k)} \cap Inside # {}

(* The rows of analyze_detour.sql, by segment and fraction.  A piece longer *)
(* than a part is merged as its parts in a row are.                         *)
PiecesOf(area) ==
  LET order == Ascending(area)
  IN [i \in 1 .. Len(order) |->
       [segment |-> order[i] \div Parts, from |-> order[i], to |-> order[i] + 1]]

(* The search radius is at least the radius of optional stops.              *)
Init ==
  /\ \E area \in (SUBSET RouteParts) \ {{}} : pieces = PiecesOf(area)
  /\ availability \in {f \in [Stops -> {"forced", "optional", "required"}] :
                         \A k \in Stops : ~ Touches(k) => f[k] = "required"}
  /\ phase = "merge"
  /\ next = 1
  /\ intervals = <<>>
  /\ plans = <<>>
  /\ omitted = {}
  /\ replacements = <<>>
  /\ paths = <<>>
  /\ answer = "none"

-----------------------------------------------------------------------------
\* Mutant of Contiguous: the pieces of neighbouring segments are contiguous.
ContiguousSegments(left, right) ==
  IF left.segment = right.segment
  THEN left.to = right.from
  ELSE right.segment = left.segment + 1

(* mergeInsidePieces and contiguousPieces.                                  *)
Contiguous(left, right) ==
  IF left.segment = right.segment
  THEN left.to = right.from
  ELSE /\ right.segment = left.segment + 1
       /\ left.to = At(left.segment + 1)
       /\ right.from = At(right.segment)

Merge ==
  /\ phase = "merge"
  /\ next <= Len(pieces)
  /\ LET piece == pieces[next] IN
     intervals' =
       IF next > 1 /\ Contiguous(pieces[next - 1], piece)
       THEN [intervals EXCEPT ![Len(intervals)].exit = piece.to]
       ELSE Append(intervals, [entry |-> piece.from, exit |-> piece.to])
  /\ next' = next + 1
  /\ UNCHANGED <<phase, pieces, availability, plans, omitted, replacements, paths, answer>>

Enter(place) == phase' = place /\ next' = 1

Analyzed ==
  /\ phase = "merge"
  /\ next > Len(pieces)
  /\ Enter("traffic")
  /\ UNCHANGED <<pieces, intervals, availability, plans, omitted, replacements, paths, answer>>

Fail(error) ==
  /\ phase' = "done"
  /\ answer' = error
  /\ UNCHANGED <<next, pieces, intervals, availability, omitted, replacements, paths>>

(* trafficProvider.Snapshot; TrafficClient models it.                       *)
Snapshot ==
  /\ phase = "traffic"
  /\ Enter("build")
  /\ UNCHANGED <<pieces, intervals, availability, plans, omitted, replacements, paths, answer>>

(* The calls of Plan that may fail for a reason of their own: the traffic   *)
(* snapshot or its tile limit, Repository.Route, CompareDetour.             *)
DependencyFails ==
  /\ phase \in {"traffic", "route", "compare"}
  /\ Fail("dependency")
  /\ UNCHANGED plans

-----------------------------------------------------------------------------
(* buildIntervalPlans.                                                      *)
Anchor(location) == [at |-> location, stop |-> NoStop]

\* Mutant of AtBoundary: the stop and the anchor are both nodes.
NeverAtBoundary(k, interval) == FALSE

(* A stop exactly where the route enters or leaves the area is no node, as  *)
(* the anchor there stands for it; at an end of the route there is no       *)
(* anchor.                                                                  *)
AtBoundary(k, interval) ==
  \/ At(k) = interval.entry /\ interval.entry > 0
  \/ At(k) = interval.exit /\ interval.exit < RouteEnd

Within(interval) == {k \in Stops : interval.entry <= At(k) /\ At(k) <= interval.exit}

NodesOf(interval) ==
  LET stops == Ascending({k \in Within(interval) : ~ AtBoundary(k, interval)})
  IN (IF interval.entry > 0 THEN <<Anchor(interval.entry)>> ELSE <<>>)
     \o [i \in 1 .. Len(stops) |-> [at |-> At(stops[i]), stop |-> stops[i]]]
     \o (IF interval.exit < RouteEnd THEN <<Anchor(interval.exit)>> ELSE <<>>)

\* Mutant of BoundaryOmitted: the stop that is no node is kept.
BoundaryKept(interval) == {}

BoundaryOmitted(interval) ==
  {k \in Within(interval) : AtBoundary(k, interval) /\ availability[k] = "forced"}

Build ==
  /\ phase = "build"
  /\ next <= Len(intervals)
  /\ LET interval == intervals[next]
         nodes == NodesOf(interval)
     IN IF Len(nodes) < 2
        THEN Fail("no_detour") /\ UNCHANGED plans
        ELSE /\ plans' = Append(plans, [nodes |-> nodes, lost |-> BoundaryOmitted(interval)])
             /\ next' = next + 1
             /\ UNCHANGED <<phase, pieces, intervals, availability, omitted, replacements,
                            paths, answer>>

Built ==
  /\ phase = "build"
  /\ next > Len(intervals)
  /\ Enter("route")
  /\ UNCHANGED <<pieces, intervals, availability, plans, omitted, replacements, paths, answer>>

(* The orders of Select, from 0.                                            *)
Orders(nodes) == 0 .. Len(nodes) - 1

(* An anchor is a required stop for Select.                                 *)
AvailabilityOf(nodes, i) ==
  LET stop == nodes[i + 1].stop IN IF stop = NoStop THEN "required" ELSE availability[stop]

\* Mutant of PairsOf: the stop a path starts at counts as skipped.
PairsFromOptional(nodes) ==
  {p \in Orders(nodes) \X Orders(nodes) :
     /\ p[1] < p[2]
     /\ AvailabilityOf(nodes, p[1]) # "forced"
     /\ AvailabilityOf(nodes, p[2]) # "forced"
     /\ \A i \in p[1] .. p[2] - 1 : AvailabilityOf(nodes, i) # "required"}

(* intervalPairs: the paths asked of the repository.                        *)
PairsOf(nodes) ==
  {p \in Orders(nodes) \X Orders(nodes) :
     /\ p[1] < p[2]
     /\ AvailabilityOf(nodes, p[1]) # "forced"
     /\ AvailabilityOf(nodes, p[2]) # "forced"
     /\ \A i \in p[1] + 1 .. p[2] - 1 : AvailabilityOf(nodes, i) # "required"}

(* Select on the nodes, with the given pairs connected.  An interval has at *)
(* most StopCount + 2 nodes; the orders it does not have count as forced,   *)
(* which changes no selection.                                              *)
SelectorOrders == 0 .. StopCount + 1

Selector(nodes, connected) ==
  INSTANCE DetourSelector WITH
    StopCount    <- StopCount + 2,
    Seconds      <- {0},
    Tolerance    <- 0,
    Unit         <- 1,
    availability <- [i \in SelectorOrders |->
                       IF i \in Orders(nodes) THEN AvailabilityOf(nodes, i) ELSE "forced"],
    connection   <- [p \in SelectorOrders \X SelectorOrders |->
                       IF p \in connected THEN 0 ELSE NoPath],
    criterion    <- "shortestTime",
    phase        <- "done",
    end          <- 0,
    incoming     <- {},
    bestByEnd    <- <<>>,
    best         <- NoState

Selections(nodes) ==
  {K \in SUBSET Orders(nodes) : Selector(nodes, PairsOf(nodes))!Feasible(K)}

(* Repository.Route answers, or cannot match an anchor or a required stop;  *)
(* an optional stop it does not match just has no paths.                    *)
Route ==
  /\ phase = "route"
  /\ Enter("select")
  /\ UNCHANGED <<pieces, intervals, availability, plans, omitted, replacements, paths, answer>>

PointUnmatched ==
  /\ phase = "route"
  /\ \E p \in 1 .. Len(plans) :
       \E i \in Orders(plans[p].nodes) : AvailabilityOf(plans[p].nodes, i) = "required"
  /\ Fail("unmatched")
  /\ UNCHANGED plans

-----------------------------------------------------------------------------
(* The loop of Plan over the intervals.                                     *)
Replacements(nodes, K) ==
  LET order == Ascending(K)
  IN [i \in 1 .. Len(order) - 1 |->
       [start |-> nodes[order[i] + 1].at, end |-> nodes[order[i + 1] + 1].at]]

\* Mutant of OmittedStops: an anchor that is not kept counts as a stop.
OmittedNodes(nodes, K) == {nodes[i + 1].stop : i \in Orders(nodes)}

OmittedStops(nodes, K) == {nodes[i + 1].stop : i \in Orders(nodes) \ K} \ {NoStop}

SelectInterval ==
  /\ phase = "select"
  /\ next <= Len(plans)
  /\ LET nodes == plans[next].nodes IN
     \E K \in Selections(nodes) :
       /\ replacements' = replacements \o Replacements(nodes, K)
       /\ omitted' = omitted \cup OmittedStops(nodes, K) \cup plans[next].lost
  /\ next' = next + 1
  /\ UNCHANGED <<phase, pieces, intervals, availability, plans, paths, answer>>

(* Some paths do not exist.  The diagnosis on the topology may still find a *)
(* selection: then it is the traffic coverage that is missing.              *)
SelectionFails ==
  /\ phase = "select"
  /\ next <= Len(plans)
  /\ \/ Fail("no_detour")
     \/ Selections(plans[next].nodes) # {} /\ Fail("coverage")
  /\ UNCHANGED plans

Selected ==
  /\ phase = "select"
  /\ next > Len(plans)
  /\ Enter("sew")
  /\ UNCHANGED <<pieces, intervals, availability, plans, omitted, replacements, paths, answer>>

-----------------------------------------------------------------------------
(* reconstructRoute.  The replacements are sorted by start and end; those   *)
(* that are equal in both keep their order.                                 *)
Precedes(i, j) ==
  LET r == replacements[i]
      s == replacements[j]
  IN \/ r.start < s.start
     \/ r.start = s.start /\ r.end < s.end
     \/ r.start = s.start /\ r.end = s.end /\ i < j

Ordered ==
  [k \in DOMAIN replacements |->
     replacements[CHOOSE j \in DOMAIN replacements :
                    Cardinality({i \in DOMAIN replacements : Precedes(i, j)}) = k - 1]]

Malformed ==
  \E i \in 1 .. Len(Ordered) :
    \/ Ordered[i].start >= Ordered[i].end
    \/ i > 1 /\ Ordered[i - 1].end > Ordered[i].start

Kept == Ascending(Stops \ omitted)

(* reconstructPath from k to l: the replacements between the two, and the   *)
(* original route before, between and after them.                           *)
Between(k, l) == Filtered(Ordered, LAMBDA r : r.end > At(k) /\ r.start < At(l))

PathOf(k, l) ==
  LET taken == Between(k, l)
      Cursor(i) == IF i = 0 THEN At(k) ELSE taken[i].end
      Until(i) == IF i = Len(taken) THEN At(l) ELSE taken[i + 1].start
  IN [from      |-> k,
      to        |-> l,
      detours   |-> ToSet(taken),
      originals |-> {[from |-> Cursor(i), to |-> Until(i)] : i \in 0 .. Len(taken)}]

(* "replacement crosses retained stop boundary", or an original slice that  *)
(* runs backwards.                                                          *)
Crosses(k, l) ==
  \/ \E r \in PathOf(k, l).detours : r.start < At(k) \/ r.end > At(l)
  \/ \E s \in PathOf(k, l).originals : s.from > s.to

Sew ==
  /\ phase = "sew"
  /\ LET consecutive == 1 .. Len(Kept) - 1 IN
     CASE Len(Kept) < 2 -> answer' = "no_detour" /\ UNCHANGED paths
       [] Len(Kept) >= 2 /\ (Malformed \/ \E i \in consecutive : Crosses(Kept[i], Kept[i + 1])) ->
            answer' = "internal" /\ UNCHANGED paths
       [] OTHER ->
            /\ paths' = [i \in consecutive |-> PathOf(Kept[i], Kept[i + 1])]
            /\ UNCHANGED answer
  /\ phase' = IF answer' = "none" THEN "compare" ELSE "done"
  /\ UNCHANGED <<next, pieces, intervals, availability, plans, omitted, replacements>>

(* CompareDetour evaluates the variant and Plan answers.                    *)
Compare ==
  /\ phase = "compare"
  /\ phase' = "done"
  /\ answer' = "variant"
  /\ UNCHANGED <<next, pieces, intervals, availability, plans, omitted, replacements, paths>>

Next ==
  \/ Merge \/ Analyzed \/ Snapshot
  \/ Build \/ Built
  \/ Route \/ PointUnmatched
  \/ SelectInterval \/ SelectionFails \/ Selected
  \/ Sew \/ Compare
  \/ DependencyFails

Spec == Init /\ [][Next]_vars

-----------------------------------------------------------------------------
Location == 0 .. RouteEnd
Node == [at : Location, stop : Stops \cup {NoStop}]

TypeOK ==
  /\ phase \in {"merge", "traffic", "build", "route", "select", "sew", "compare", "done"}
  /\ next \in 1 .. RouteEnd + 1
  /\ pieces \in Seq([segment : Stops, from : Location, to : Location])
  /\ intervals \in Seq([entry : Location, exit : Location])
  /\ availability \in [Stops -> {"forced", "optional", "required"}]
  /\ plans \in Seq([nodes : Seq(Node), lost : SUBSET Stops])
  /\ omitted \subseteq Stops
  /\ replacements \in Seq([start : Location, end : Location])
  /\ answer \in {"none", "variant", "no_detour", "coverage", "unmatched", "dependency", "internal"}

(* Plan asks the repository for every path it could use: each choice of     *)
(* nodes that Select may make if everything is connected can be made from   *)
(* the pairs of intervalPairs.                                              *)
EveryCandidateIsRouted ==
  \A p \in 1 .. Len(plans) :
    LET nodes == plans[p].nodes
        all == Orders(nodes) \X Orders(nodes)
    IN \A K \in SUBSET Orders(nodes) :
         Selector(nodes, all)!Feasible(K) => K \in Selections(nodes)

(* The stops of the variant: every required stop, wherever it is, and no    *)
(* forced stop, were it exactly where the route enters the search area      *)
(* ("never omits a stop at more than 500 m", docs/plan_rf05_desvios.md).    *)
StopsAreServed ==
  answer = "variant" =>
    /\ \A k \in Stops : availability[k] = "required" => k \notin omitted
    /\ \A k \in Stops : availability[k] = "forced" => k \in omitted

Covered(spans) == UNION spans

(* The sewing is exact.  Between two stops of the variant the original      *)
(* route outside the search area is kept, all of it, and the route inside   *)
(* is replaced, all of it and once; nothing is left to jump over.           *)
SewnExactly ==
  answer = "variant" =>
    \A i \in 1 .. Len(paths) :
      LET path == paths[i]
          stretch == Span(At(path.from), At(path.to))
          Replaced(r) == Span(r.start, r.end)
      IN /\ Covered({Span(s.from, s.to) : s \in path.originals}) = stretch \ Inside
         /\ Covered({Replaced(r) : r \in path.detours}) = stretch \cap Inside
         /\ \A r, s \in path.detours : r # s => Replaced(r) \cap Replaced(s) = {}

(* What Plan built fits together: reconstructRoute never refuses it as      *)
(* overlapping, empty, reversed or crossing a retained stop, which would    *)
(* answer a valid request with an internal error.                           *)
NeverFailsInternally == answer # "internal"

(* "Si se pierde la primera o la ultima parada, la variante arranca o       *)
(* termina antes" (docs/arquitectura_motor.md, 13.4): when every interval   *)
(* is at an end of the route and has only lost stops, and two stops remain, *)
(* there is no need of a path.  The code does not keep this.                *)
LostEndsShortenTheRoute ==
  answer = "no_detour" =>
    ~ /\ \A i \in 1 .. Len(intervals) :
           /\ intervals[i].entry = 0 \/ intervals[i].exit = RouteEnd
           /\ \A k \in Within(intervals[i]) : availability[k] = "forced"
      /\ Cardinality({k \in Stops : ~ Touches(k)}) >= 2
===============================================================================
