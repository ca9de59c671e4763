--------------------------------- MODULE Lines ---------------------------------
(***************************************************************************)
(* internal/lines: a stored line exported as a route that can be simulated *)
(* (Get), and the shortlist of the stored lines that share the corridor of *)
(* a drawn route (FindSimilar), with the rows find_line.sql and            *)
(* find_similar_lines.sql read.                                            *)
(*                                                                         *)
(* A position is a member of Places and Meters is the distance between two *)
(* of them.  How much of one line runs along another is an input: a share  *)
(* of Whole in each direction.                                             *)
(***************************************************************************)
EXTENDS Paging

CONSTANTS
  Places, Meters(_, _),
  AlignmentTolerance, EndpointTolerance,
  Whole, MinimumCoverage,
  DefaultCount, MaximumCount     \* of FindSimilar

ASSUME LinesAssumption ==
  /\ Places \subseteq Nat
  /\ \A p, q \in Places :
       Meters(p, q) \in Nat /\ Meters(p, q) = Meters(q, p) /\ (Meters(p, q) = 0 <=> p = q)
  /\ {AlignmentTolerance, EndpointTolerance, Whole, MinimumCoverage, MaximumCount} \subseteq Nat
  /\ DefaultCount \in 1..MaximumCount

NoPath == <<>>       \* tramo_hasta_siguiente IS NULL
NoPlace == -1        \* the row of a line without stops

-----------------------------------------------------------------------------
(* Get.  A stored line is the sequence of its rows by nro_parada; the row   *)
(* of the LEFT JOIN that carries no stop is skipped.                        *)
StoredStops(rows) == Filtered(rows, LAMBDA row : row.at # NoPlace)

(* A stop seen before gets its stop_sequence appended: "%s#%d".             *)
StopName(stops, i, taken) ==
  IF stops[i].id \in taken THEN Append(stops[i].id, stops[i].nro) ELSE stops[i].id

UniqueStopIDs(stops) ==
  LET ids[i \in 0..Len(stops)] ==
        IF i = 0 THEN <<>>
        ELSE Append(ids[i - 1], StopName(stops, i, ToSet(ids[i - 1])))
  IN ids[Len(stops)]

Forward(path, o, d) == Meters(Head(path), o) + Meters(Last(path), d)
Backward(path, o, d) == Meters(Head(path), d) + Meters(Last(path), o)

\* Mutant of Reversed: a path is taken to run forward.
ReversedNever(path, o, d) == FALSE

(* reverseGap < forwardGap: left as it is, for Validate to refuse.          *)
Reversed(path, o, d) == Backward(path, o, d) < Forward(path, o, d)

TooFar(path, o, d) ==
  Meters(Head(path), o) > AlignmentTolerance \/ Meters(Last(path), d) > AlignmentTolerance

(* AlignStoredPathEndpoints, per segment: a GapError or the path it leaves.  *)
GapError(path, o, d) == Len(path) >= 2 /\ ~ Reversed(path, o, d) /\ TooFar(path, o, d)

Aligned(path, o, d) ==
  IF Len(path) < 2 \/ Reversed(path, o, d) THEN path
  ELSE [path EXCEPT ![1] = o, ![Len(path)] = d]

Length(path) == SumFunction([i \in 1..(Len(path) - 1) |-> Meters(path[i], path[i + 1])])

(* route.Validate, of a path and of a route.                                *)
ValidPath(path, o, d) ==
  /\ Len(path) >= 2
  /\ ~ (/\ Meters(Head(path), d) <= EndpointTolerance
        /\ Meters(Last(path), o) <= EndpointTolerance
        /\ Backward(path, o, d) < Forward(path, o, d))
  /\ Meters(Head(path), o) <= EndpointTolerance
  /\ Meters(Last(path), d) <= EndpointTolerance
  /\ Length(path) > 0

ValidRoute(route) ==
  /\ Len(route) >= 2
  /\ \A i, j \in DOMAIN route : i # j => route[i].id # route[j].id
  /\ \A i \in 1..(Len(route) - 1) : ValidPath(route[i].path, route[i].at, route[i + 1].at)

NotSimulable == [status |-> "not_simulable", route |-> <<>>]
NotFound == [status |-> "not_found", route |-> <<>>]

(* Detail.Route.                                                            *)
Exported(stops) ==
  [i \in DOMAIN stops |->
     [id |-> UniqueStopIDs(stops)[i],
      at |-> stops[i].at,
      path |-> IF i = Len(stops) THEN NoPath
               ELSE Aligned(stops[i].path, stops[i].at, stops[i + 1].at)]]

Get(rows) ==
  LET stops == StoredStops(rows)
      segments == 1..(Len(stops) - 1)
  IN CASE rows = <<>> -> NotFound
       [] \/ rows # <<>> /\ Len(stops) < 2
          \/ \E i \in segments :
               stops[i].path = NoPath \/ GapError(stops[i].path, stops[i].at, stops[i + 1].at) ->
            NotSimulable
       [] OTHER ->
            IF ValidRoute(Exported(stops)) THEN [status |-> "ok", route |-> Exported(stops)]
            ELSE NotSimulable

-----------------------------------------------------------------------------
(* FindSimilar.  DrawnPath: the segments in order, a missing one straight,  *)
(* without repeated positions.                                              *)
DrawnSegment(route, i) ==
  IF Len(route[i].path) < 2 THEN <<route[i].at, route[i + 1].at>> ELSE route[i].path

AppendPosition(positions, p) ==
  IF positions # <<>> /\ Last(positions) = p THEN positions ELSE Append(positions, p)

DrawnPath(route) ==
  FoldLeft(AppendPosition, <<>>,
           FlattenSeq([i \in 1..(Len(route) - 1) |-> DrawnSegment(route, i)]))

(* validateDrawnRoute.  A path present and shorter than two positions, or   *)
(* after the last stop, is refused.                                         *)
ValidDrawnRoute(route) ==
  /\ Len(route) >= 2
  /\ \A i \in DOMAIN route : route[i].path # NoPath => i < Len(route) /\ Len(route[i].path) >= 2

ResultCount(requested) == Clamped(requested, DefaultCount, MaximumCount)

(* find_similar_lines.sql.  A candidate has the shares of the overlap, and  *)
(* a drawn route of no length overlaps nothing.                             *)
CoverageOfDrawn(path, c) == IF Length(path) > 0 THEN Smaller(Whole, c.drawn) ELSE 0
CoverageOfStored(c) == Smaller(Whole, c.stored)

Weakest(path, c) == Smaller(CoverageOfDrawn(path, c), CoverageOfStored(c))
Strongest(path, c) == Greater(CoverageOfDrawn(path, c), CoverageOfStored(c))

Similar(path, candidates) ==
  {c \in candidates : c.near /\ c.stops >= 2 /\ Strongest(path, c) >= MinimumCoverage}

\* Mutant of Ranks: the stronger direction comes first.
RanksByStrongest(path, c) == <<-Strongest(path, c), -Weakest(path, c), c.id>>

Ranks(path, c) == <<-Weakest(path, c), -Strongest(path, c), c.id>>

Shortlists(path, candidates, limit) ==
  {Window(s, 0, limit) : s \in Orders(Similar(path, candidates), LAMBDA c : Ranks(path, c))}
=============================================================================
