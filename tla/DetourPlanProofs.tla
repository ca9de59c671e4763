---------------------------- MODULE DetourPlanProofs ----------------------------
(***************************************************************************)
(* Theorems about DetourPlan, for a route of any length and any number of  *)
(* distinguished locations per segment.                                    *)
(***************************************************************************)
EXTENDS DetourPlan, Collections

-----------------------------------------------------------------------------
(* What a selection is: a Feasible set of Select's on the nodes.            *)
LEMMA FeasibleIsChain ==
  ASSUME NEW nodes, NEW connected, NEW K \in SUBSET Orders(nodes)
  PROVE  Selector(nodes, connected)!Feasible(K) <=>
           /\ K \subseteq SelectorOrders
           /\ \A i \in Orders(nodes) \cap SelectorOrders :
                /\ AvailabilityOf(nodes, i) = "required" => i \in K
                /\ AvailabilityOf(nodes, i) = "forced" => i \notin K
           /\ \A i, j \in K : i < j /\ K \cap (i + 1 .. j - 1) = {} => <<i, j>> \in connected
           /\ \E i, j \in K : i # j
<1> DEFINE avail == [i \in SelectorOrders |->
                      IF i \in Orders(nodes) THEN AvailabilityOf(nodes, i) ELSE "forced"]
           conn == [p \in SelectorOrders \X SelectorOrders |->
                      IF p \in connected THEN 0 ELSE NoPath]
           Keeps == \A k \in SelectorOrders :
                      /\ avail[k] = "required" => k \in K
                      /\ avail[k] = "forced" => k \notin K
           Joined == \A i, j \in K : i < j /\ K \cap (i + 1 .. j - 1) = {} => conn[<<i, j>>] # NoPath
<1>1. 0 .. (StopCount + 2) - 1 = SelectorOrders
  BY PlanAssumption DEF SelectorOrders
<1>2. Selector(nodes, connected)!Feasible(K) <=>
        K \subseteq SelectorOrders /\ Keeps /\ Joined /\ \E i, j \in K : i # j
  BY <1>1 DEF Selector!Feasible, Selector!Path, Selector!Chained, Selector!Orders
<1>3. Keeps <=> \A i \in Orders(nodes) \cap SelectorOrders :
                  /\ AvailabilityOf(nodes, i) = "required" => i \in K
                  /\ AvailabilityOf(nodes, i) = "forced" => i \notin K
  <2>1. \A i \in SelectorOrders : avail[i] = IF i \in Orders(nodes) THEN AvailabilityOf(nodes, i)
                                             ELSE "forced"
    OBVIOUS
  <2> HIDE DEF avail
  <2> QED
    BY <2>1
<1>4. ASSUME K \subseteq SelectorOrders, NEW i \in K, NEW j \in K
      PROVE  conn[<<i, j>>] # NoPath <=> <<i, j>> \in connected
  <2>1. <<i, j>> \in SelectorOrders \X SelectorOrders
    BY <1>4
  <2>2. conn[<<i, j>>] = IF <<i, j>> \in connected THEN 0 ELSE NoPath
    BY <2>1
  <2>3. NoPath # 0
    BY PlanAssumption
  <2> QED
    BY <2>2, <2>3
<1> HIDE DEF avail, conn, Keeps
<1> QED
  BY <1>2, <1>3, <1>4

(* EveryCandidateIsRouted holds of any nodes: between consecutive stops of  *)
(* a selection no required one is left out, and no stop of it is forced.    *)
LEMMA CandidatesAreRouted ==
  ASSUME NEW nodes, Len(nodes) \in Nat, NEW K \in SUBSET Orders(nodes),
         Selector(nodes, Orders(nodes) \X Orders(nodes))!Feasible(K)
  PROVE  K \in Selections(nodes)
<1>1. /\ K \subseteq SelectorOrders
      /\ \A i \in Orders(nodes) \cap SelectorOrders :
           /\ AvailabilityOf(nodes, i) = "required" => i \in K
           /\ AvailabilityOf(nodes, i) = "forced" => i \notin K
      /\ \E i, j \in K : i # j
  BY FeasibleIsChain
<1>2. ASSUME NEW i \in K, NEW j \in K, i < j, K \cap (i + 1 .. j - 1) = {}
      PROVE  <<i, j>> \in PairsOf(nodes)
  <2>1. AvailabilityOf(nodes, i) # "forced" /\ AvailabilityOf(nodes, j) # "forced"
    BY <1>1
  <2>2. \A m \in i + 1 .. j - 1 : m \in Orders(nodes) \cap SelectorOrders
    <3>1. i \in 0 .. Len(nodes) - 1 /\ j \in 0 .. Len(nodes) - 1
      BY DEF Orders
    <3>2. i \in 0 .. StopCount + 1 /\ j \in 0 .. StopCount + 1 /\ StopCount \in Nat
      BY <1>1, PlanAssumption DEF SelectorOrders
    <3> QED
      BY <3>1, <3>2 DEF Orders, SelectorOrders
  <2>3. \A m \in i + 1 .. j - 1 : AvailabilityOf(nodes, m) # "required"
    BY <1>1, <1>2, <2>2
  <2>4. <<i, j>> \in Orders(nodes) \X Orders(nodes)
    OBVIOUS
  <2> QED
    BY <1>2, <2>1, <2>3, <2>4 DEF PairsOf
<1>3. Selector(nodes, PairsOf(nodes))!Feasible(K)
  BY <1>1, <1>2, FeasibleIsChain
<1> QED
  BY <1>3 DEF Selections

-----------------------------------------------------------------------------
(* The inductive invariant.                                                 *)

(* The pieces are parts of the route, in its order.                         *)
PiecesInv ==
  /\ pieces \in Seq([segment : Stops, from : Location, to : Location])
  /\ Len(pieces) <= RouteEnd
  /\ \A i \in 1 .. Len(pieces) :
       /\ pieces[i].from \in RouteParts
       /\ pieces[i].segment = pieces[i].from \div Parts
       /\ pieces[i].to = pieces[i].from + 1
  /\ \A i, j \in 1 .. Len(pieces) : i < j => pieces[i].from < pieces[j].from

(* The pieces that the loop of Merge is through with.                       *)
MergedPieces == IF phase = "merge" THEN next - 1 ELSE Len(pieces)

Lies(u, interval) == interval.entry <= u /\ u < interval.exit

(* The intervals cover these pieces and are apart from one another: between *)
(* two of them there is original route.                                     *)
IntervalsInv ==
  /\ intervals \in Seq([entry : Location, exit : Location])
  /\ MergedPieces \in 0 .. Len(pieces)
  /\ Len(intervals) <= MergedPieces
  /\ \A i \in 1 .. Len(intervals) : intervals[i].entry < intervals[i].exit
  /\ \A i, j \in 1 .. Len(intervals) : i < j => intervals[i].exit < intervals[j].entry
  /\ MergedPieces > 0 =>
       /\ Len(intervals) > 0
       /\ intervals[Len(intervals)].exit = pieces[MergedPieces].to
  /\ \A u \in RouteParts :
       (\E i \in 1 .. Len(intervals) : Lies(u, intervals[i]))
         <=> (\E i \in 1 .. MergedPieces : pieces[i].from = u)

(* The phases after the plans are made.                                     *)
Planned == phase \in {"route", "select", "sew", "compare"} \/ answer = "variant"

PlansInv ==
  /\ Len(plans) <= Len(intervals)
  /\ phase \in {"merge", "traffic"} => plans = <<>>
  /\ phase = "build" => next = Len(plans) + 1
  /\ Planned => Len(plans) = Len(intervals)
  /\ \A p \in 1 .. Len(plans) :
       plans[p] = [nodes |-> NodesOf(intervals[p]), lost |-> BoundaryOmitted(intervals[p])]

Selecting == phase \in {"select", "sew", "compare"} \/ answer = "variant"

(* The intervals that have a selection.                                     *)
Settled == IF phase = "select" THEN next - 1 ELSE Len(intervals)

ReplacedPart(u) ==
  \E n \in 1 .. Len(replacements) : replacements[n].start <= u /\ u < replacements[n].end

NoneKeptUpTo(u) == \A k \in Stops : At(k) <= u => k \in omitted
NoneKeptAfter(u) == \A k \in Stops : u < At(k) => k \in omitted

(* The replacements are in the order of the route and within the intervals, *)
(* over no stop that is kept; what they leave of an interval is before the  *)
(* first stop that is kept or after the last.                               *)
SeparateReplacements ==
  /\ \A n \in 1 .. Len(replacements) : replacements[n].start < replacements[n].end
  /\ \A m, n \in 1 .. Len(replacements) : m < n => replacements[m].end <= replacements[n].start

ReplacementsInside ==
  \A n \in 1 .. Len(replacements) :
    \E p \in 1 .. Settled :
      intervals[p].entry <= replacements[n].start /\ replacements[n].end <= intervals[p].exit

NoKeptStopInside ==
  \A n \in 1 .. Len(replacements), k \in Stops :
    replacements[n].start < At(k) /\ At(k) < replacements[n].end => k \in omitted

IntervalsReplaced ==
  \A p \in 1 .. Settled : \A u \in RouteParts :
    Lies(u, intervals[p]) => ReplacedPart(u) \/ NoneKeptUpTo(u) \/ NoneKeptAfter(u)

ForcedOmitted ==
  \A p \in 1 .. Settled : \A k \in Within(intervals[p]) : availability[k] = "forced" => k \in omitted

RequiredKept == \A k \in omitted : availability[k] # "required"

ReplacementsInv ==
  Selecting =>
    /\ Settled \in 0 .. Len(intervals)
    /\ SeparateReplacements
    /\ ReplacementsInside
    /\ NoKeptStopInside
    /\ IntervalsReplaced
    /\ ForcedOmitted
    /\ RequiredKept

(* Nothing is selected before.                                              *)
NothingYet ==
  phase \in {"merge", "traffic", "build", "route"} => replacements = <<>> /\ omitted = {}

(* A stop far from the search area is required.                             *)
ForcedNear == \A k \in Stops : availability[k] = "forced" => Touches(k)

(* The variant is sewn between the stops that are kept.                     *)
PathsInv ==
  phase = "compare" \/ answer = "variant" =>
    paths = [i \in 1 .. Len(Kept) - 1 |-> PathOf(Kept[i], Kept[i + 1])]

(* "done" is the phase of every answer, and only of answers.                *)
AnswersInv == (phase = "done") <=> (answer # "none")

PlanInv ==
  /\ TypeOK
  /\ PiecesInv
  /\ IntervalsInv
  /\ PlansInv
  /\ NothingYet
  /\ ReplacementsInv
  /\ ForcedNear
  /\ PathsInv
  /\ AnswersInv
  /\ NeverFailsInternally

-----------------------------------------------------------------------------
(* Locations.                                                               *)
LEMMA AtType == \A k \in Nat : At(k) \in Nat
  BY PlanAssumption DEF At

LEMMA AtNext == \A k \in Nat : At(k + 1) = At(k) + Parts
  BY PlanAssumption DEF At

LEMMA AtIncreases ==
  ASSUME NEW k \in Nat, NEW l \in Nat, k < l
  PROVE  At(k) + 1 <= At(l)
<1> DEFINE d == l - k - 1
<1>1. d \in Nat /\ l = k + 1 + d /\ Parts \in Nat /\ Parts >= 1
  BY PlanAssumption
<1> HIDE DEF d
<1>2. l * Parts = k * Parts + Parts + d * Parts
  BY <1>1
<1>3. d * Parts \in Nat /\ k * Parts \in Nat
  BY <1>1
<1>4. l * Parts >= k * Parts + 1
  <2> DEFINE x == l * Parts
             y == k * Parts
             z == d * Parts
  <2>1. x = y + Parts + z /\ y \in Nat /\ z \in Nat
    BY <1>2, <1>3
  <2> HIDE DEF x, y, z
  <2>2. x >= y + 1
    BY <1>1, <2>1
  <2> QED
    BY <2>2 DEF x, y
<1> QED
  BY <1>3, <1>4 DEF At

LEMMA AtOrder ==
  ASSUME NEW k \in Nat, NEW l \in Nat
  PROVE  /\ k < l <=> At(k) < At(l)
         /\ k = l <=> At(k) = At(l)
<1>1. At(k) \in Nat /\ At(l) \in Nat
  BY AtType
<1>2. (k < l => At(k) + 1 <= At(l)) /\ (l < k => At(l) + 1 <= At(k))
  BY AtIncreases
<1> QED
  BY <1>1, <1>2

LEMMA RouteEndType ==
  /\ RouteEnd \in Nat /\ 0 < RouteEnd
  /\ At(0) = 0 /\ At(StopCount - 1) = RouteEnd
<1>1. At(0) = 0 /\ At(StopCount - 1) = RouteEnd
  BY PlanAssumption DEF At, RouteEnd
<1>2. StopCount - 1 \in Nat /\ 0 \in Nat /\ 0 < StopCount - 1
  BY PlanAssumption
<1>3. At(0) + 1 <= At(StopCount - 1) /\ At(StopCount - 1) \in Nat
  BY <1>2, AtIncreases, AtType
<1> QED
  BY <1>1, <1>3

LEMMA StopsAreOnTheRoute ==
  ASSUME NEW k \in Stops
  PROVE  /\ k \in Nat
         /\ At(k) \in Location
<1>1. k \in Nat /\ StopCount - 1 \in Nat /\ k <= StopCount - 1
  BY PlanAssumption DEF Stops
<1>2. At(k) \in Nat /\ At(k) <= At(StopCount - 1)
  BY <1>1, AtType, AtIncreases
<1> QED
  BY <1>1, <1>2, RouteEndType DEF Location

(* The segment of a location.                                               *)
LEMMA SegmentOf ==
  ASSUME NEW o \in Nat
  PROVE  /\ o \div Parts \in Nat
         /\ At(o \div Parts) <= o
         /\ o < At(o \div Parts + 1)
<1>1. Parts \in Nat /\ Parts > 0
  BY PlanAssumption
<1>2. o \div Parts \in Nat
  BY <1>1
<1>3. Parts * (o \div Parts) <= o /\ o < Parts * (o \div Parts) + Parts
  BY <1>1
<1> QED
  BY <1>1, <1>2, <1>3 DEF At

LEMMA SegmentIsStop ==
  ASSUME NEW o \in RouteParts
  PROVE  /\ o \in Nat /\ o \in Location /\ o + 1 \in Location
         /\ o \div Parts \in Stops
<1>1. o \in Nat /\ o < RouteEnd /\ RouteEnd \in Nat
  BY RouteEndType DEF RouteParts
<1> DEFINE q == o \div Parts
           last == StopCount - 1
<1>2. q \in Nat /\ At(q) <= o
  BY <1>1, SegmentOf
<1>3. last \in Nat /\ At(last) = RouteEnd
  BY RouteEndType, PlanAssumption
<1>4. q \in Stops
  <2>1. At(q) \in Nat
    BY <1>2, AtType
  <2> HIDE DEF q, last
  <2>2. At(q) < At(last)
    BY <1>1, <1>2, <1>3, <2>1
  <2>3. q < last
    BY <1>2, <1>3, <2>2, AtOrder
  <2> QED
    BY <1>2, <1>3, <2>3 DEF Stops, last
<1> HIDE DEF q
<1> QED
  BY <1>1, <1>4 DEF Location, q

(* Two pieces are contiguous when the second begins where the first ends.   *)
IsPiece(piece) ==
  /\ piece.from \in RouteParts
  /\ piece.segment = piece.from \div Parts
  /\ piece.to = piece.from + 1

LEMMA ContiguousPieces ==
  ASSUME NEW left, NEW right, IsPiece(left), IsPiece(right), left.from < right.from
  PROVE  Contiguous(left, right) <=> right.from = left.to
<1> DEFINE o == left.from
           p == right.from
           q == left.segment
           r == right.segment
<1>1. /\ o \in Nat /\ p \in Nat /\ o < p /\ left.to = o + 1
      /\ q = o \div Parts /\ r = p \div Parts
  BY SegmentIsStop DEF IsPiece
<1>2. /\ q \in Nat /\ At(q) <= o /\ o < At(q + 1)
      /\ r \in Nat /\ At(r) <= p /\ p < At(r + 1)
  BY <1>1, SegmentOf
<1>3. /\ At(q) \in Nat /\ At(q + 1) \in Nat /\ At(r) \in Nat /\ At(r + 1) \in Nat
      /\ q + 1 \in Nat /\ r + 1 \in Nat
  BY <1>2, AtType
<1> HIDE DEF o, p, q, r
<1>4. ASSUME q # r, p = o + 1 PROVE r = q + 1 /\ o + 1 = At(q + 1)
  <2>1. q < r
    <3> SUFFICES ASSUME r < q PROVE FALSE
      BY <1>2, <1>4
    <3>1. r + 1 < q \/ r + 1 = q
      BY <1>2
    <3>2. At(r + 1) <= At(q)
      BY <1>2, <1>3, <3>1, AtOrder
    <3>3. p < o + 1
      BY <1>1, <1>2, <1>3, <3>2
    <3> QED
      BY <1>1, <1>4, <3>3
  <2>2. q + 1 < r \/ q + 1 = r
    BY <1>2, <2>1
  <2>3. At(q + 1) <= At(r)
    BY <1>2, <1>3, <2>2, AtOrder
  <2>4. At(r) <= o + 1 /\ o + 1 <= At(q + 1)
    BY <1>1, <1>2, <1>3, <1>4
  <2>5. At(q + 1) = At(r) /\ o + 1 = At(q + 1)
    BY <1>1, <1>3, <2>3, <2>4
  <2>6. q + 1 = r
    BY <1>2, <1>3, <2>5, AtOrder
  <2> QED
    BY <2>5, <2>6
<1>5. Contiguous(left, right) <=>
        IF q = r THEN o + 1 = p
        ELSE r = q + 1 /\ o + 1 = At(q + 1) /\ p = At(r)
  BY <1>1 DEF Contiguous, o, p, q, r
<1>6. CASE q = r
  BY <1>1, <1>5, <1>6 DEF p
<1>7. CASE q # r
  <2>1. ASSUME p = o + 1 PROVE Contiguous(left, right)
    BY <1>4, <1>5, <1>7, <2>1
  <2>2. ASSUME Contiguous(left, right) PROVE p = o + 1
    BY <1>5, <1>7, <2>2
  <2> QED
    BY <1>1, <2>1, <2>2 DEF p
<1> QED
  BY <1>6, <1>7

(* The rows of analyze_detour.sql are the parts of the area in their order. *)
LEMMA PiecesInitially == Init => PiecesInv
<1> SUFFICES ASSUME NEW area \in SUBSET RouteParts, pieces = PiecesOf(area)
             PROVE  PiecesInv
  BY DEF Init
<1> DEFINE a == Ascending(area)
           n == Cardinality(area)
<1>1. RouteParts \subseteq Nat /\ IsFiniteSet(RouteParts) /\ Cardinality(RouteParts) = RouteEnd
  <2>1. RouteEnd \in Nat /\ 0 < RouteEnd /\ 0 \in Int /\ RouteEnd - 1 \in Int
    BY RouteEndType
  <2>2. /\ IsFiniteSet(0 .. RouteEnd - 1)
        /\ Cardinality(0 .. RouteEnd - 1) = IF 0 > RouteEnd - 1 THEN 0 ELSE RouteEnd - 1 - 0 + 1
    BY <2>1, FS_Interval
  <2>3. Cardinality(0 .. RouteEnd - 1) = RouteEnd
    BY <2>1, <2>2
  <2> QED
    BY <2>1, <2>2, <2>3 DEF RouteParts
<1>2. area \subseteq Nat /\ IsFiniteSet(area) /\ n <= RouteEnd
  BY <1>1, FS_Subset
<1>3. /\ n \in Nat /\ a \in Seq(area) /\ Len(a) = n
      /\ \A i, j \in 1 .. n : i < j => a[i] < a[j]
  BY <1>2, AscendingIsSorted
<1> HIDE DEF a, n
<1>4. pieces = [i \in 1 .. n |-> [segment |-> a[i] \div Parts, from |-> a[i], to |-> a[i] + 1]]
  BY <1>3 DEF PiecesOf, a
<1>5. ASSUME NEW i \in 1 .. n
      PROVE  /\ IsPiece(pieces[i])
             /\ pieces[i] \in [segment : Stops, from : Location, to : Location]
             /\ pieces[i].from = a[i]
  <2>1. a[i] \in RouteParts
    BY <1>3
  <2>2. a[i] \div Parts \in Stops /\ a[i] \in Location /\ a[i] + 1 \in Location
    BY <2>1, SegmentIsStop
  <2> QED
    BY <1>4, <2>1, <2>2 DEF IsPiece
<1>6. pieces \in Seq([segment : Stops, from : Location, to : Location]) /\ Len(pieces) = n
  BY <1>3, <1>4, <1>5
<1> QED
  BY <1>2, <1>3, <1>5, <1>6 DEF PiecesInv, IsPiece

-----------------------------------------------------------------------------
(* Merge keeps the intervals apart: a piece either begins where the last    *)
(* interval ends, and lengthens it, or lies after a gap.                    *)
LEMMA MergeKeepsIntervals ==
  ASSUME TypeOK, PiecesInv, IntervalsInv, Merge
  PROVE  IntervalsInv'
<1> DEFINE L == Len(intervals)
           piece == pieces[next]
           fresh == [entry |-> piece.from, exit |-> piece.to]
           I == [entry : Location, exit : Location]
<1>1. /\ phase = "merge" /\ phase' = "merge" /\ next \in Nat /\ next' = next + 1
      /\ pieces' = pieces /\ Len(pieces) \in Nat
      /\ next \in 1 .. Len(pieces)
      /\ MergedPieces = next - 1 /\ MergedPieces' = next
  BY DEF Merge, TypeOK, MergedPieces
<1>2. /\ intervals \in Seq(I) /\ L \in Nat /\ L <= next - 1
      /\ \A i \in 1 .. L : /\ intervals[i].entry < intervals[i].exit
                           /\ intervals[i].entry \in Location /\ intervals[i].exit \in Location
      /\ \A i, j \in 1 .. L : i < j => intervals[i].exit < intervals[j].entry
      /\ next > 1 => L > 0 /\ intervals[L].exit = pieces[next - 1].to
      /\ \A u \in RouteParts : (\E i \in 1 .. L : Lies(u, intervals[i]))
                                 <=> (\E i \in 1 .. next - 1 : pieces[i].from = u)
  <2>1. intervals \in Seq(I) /\ L \in Nat
    BY DEF IntervalsInv
  <2>2. \A i \in 1 .. L : intervals[i] \in I
    <3> HIDE DEF I
    <3> QED
      BY <2>1, ElementOfSeq
  <2> QED
    BY <1>1, <2>1, <2>2 DEF IntervalsInv
<1>3. /\ IsPiece(piece) /\ piece.from \in Nat /\ piece.to = piece.from + 1
      /\ piece.from \in Location /\ piece.to \in Location
  BY <1>1, SegmentIsStop DEF PiecesInv, IsPiece
<1>4. \A u \in RouteParts : (\E i \in 1 .. next : pieces[i].from = u)
                              <=> u = piece.from \/ \E i \in 1 .. next - 1 : pieces[i].from = u
  <2>1. 1 .. next = (1 .. next - 1) \cup {next}
    BY <1>1
  <2> QED
    BY <2>1
<1>5. Location \subseteq Nat /\ RouteParts \subseteq Nat
  BY RouteEndType DEF Location, RouteParts
<1>6. ASSUME next > 1
      PROVE  /\ Contiguous(pieces[next - 1], piece) <=> piece.from = intervals[L].exit
             /\ intervals[L].exit <= piece.from
  <2>1. next - 1 \in 1 .. Len(pieces)
    BY <1>1, <1>6
  <2>2. IsPiece(pieces[next - 1]) /\ pieces[next - 1].from < piece.from
    BY <1>1, <2>1 DEF PiecesInv, IsPiece
  <2>3. Contiguous(pieces[next - 1], piece) <=> piece.from = pieces[next - 1].to
    BY <1>3, <2>2, ContiguousPieces
  <2>4. pieces[next - 1].from \in Nat /\ pieces[next - 1].to = pieces[next - 1].from + 1
    BY <2>2, SegmentIsStop DEF IsPiece
  <2>5. pieces[next - 1].to <= piece.from
    BY <1>3, <2>2, <2>4
  <2> QED
    BY <1>2, <1>6, <2>3, <2>5
<1>7. intervals' = IF next > 1 /\ Contiguous(pieces[next - 1], piece)
                   THEN [intervals EXCEPT ![L].exit = piece.to]
                   ELSE Append(intervals, fresh)
  BY DEF Merge
<1> HIDE DEF L, piece, fresh
<1>8. SUFFICES
        /\ intervals' \in Seq(I)
        /\ Len(intervals') \in Nat /\ Len(intervals') > 0 /\ Len(intervals') <= next
        /\ \A i \in 1 .. Len(intervals') : intervals'[i].entry < intervals'[i].exit
        /\ \A i, j \in 1 .. Len(intervals') : i < j => intervals'[i].exit < intervals'[j].entry
        /\ intervals'[Len(intervals')].exit = piece.to
        /\ \A u \in RouteParts : (\E i \in 1 .. Len(intervals') : Lies(u, intervals'[i]))
                                   <=> u = piece.from \/ \E i \in 1 .. L : Lies(u, intervals[i])
  <2>1. pieces[next] = piece
    BY DEF piece
  <2>2. next \in 0 .. Len(pieces) /\ next > 0
    BY <1>1
  <2> QED
    BY <1>1, <1>2, <1>4, <2>1, <2>2 DEF IntervalsInv, Lies
<1>9. CASE next > 1 /\ Contiguous(pieces[next - 1], piece)
  <2>1. intervals' = [intervals EXCEPT ![L].exit = piece.to]
    BY <1>7, <1>9
  <2>2. L \in 1 .. L /\ intervals[L].exit = piece.from
    BY <1>2, <1>6, <1>9
  <2>3. DOMAIN intervals = 1 .. L
    BY <1>2 DEF L
  <2>4. DOMAIN intervals' = 1 .. L
    BY <2>1, <2>3
  <2>5. \A i \in 1 .. L : intervals'[i] = IF i = L THEN [intervals[i] EXCEPT !.exit = piece.to]
                                          ELSE intervals[i]
    BY <2>1, <2>3
  <2>6. \A i \in 1 .. L : /\ intervals[i] \in I /\ intervals'[i] \in I
                          /\ intervals'[i].entry = intervals[i].entry
                          /\ intervals'[i].exit = IF i = L THEN piece.to ELSE intervals[i].exit
    <3>1. \A i \in 1 .. L : intervals[i] \in I
      <4> HIDE DEF I
      <4> QED
        BY <1>2, ElementOfSeq DEF L
    <3> QED
      BY <1>3, <2>5, <3>1
  <2>7. intervals' \in Seq(I) /\ Len(intervals') = L
    <3> HIDE DEF I
    <3>1. intervals' \in [1 .. L -> I]
      <4>1. intervals' = [i \in 1 .. L |-> intervals'[i]]
        BY <2>1, <2>3, <2>4
      <4> QED
        BY <2>6, <4>1
    <3> QED
      BY <1>2, <3>1
  <2>8. \A i \in 1 .. L : intervals'[i].entry < intervals'[i].exit
    <3> SUFFICES ASSUME NEW i \in 1 .. L PROVE intervals'[i].entry < intervals'[i].exit
      OBVIOUS
    <3>1. intervals[i].entry \in Nat /\ intervals[i].entry < intervals[i].exit
      BY <1>2, <1>5
    <3>2. i = L => intervals[i].entry < piece.to
      BY <1>3, <2>2, <3>1
    <3> QED
      BY <2>6, <3>1, <3>2
  <2>9. \A i, j \in 1 .. L : i < j => intervals'[i].exit < intervals'[j].entry
    BY <1>2, <2>6
  <2>10. ASSUME NEW u \in RouteParts
         PROVE  (\E i \in 1 .. L : Lies(u, intervals'[i]))
                  <=> u = piece.from \/ \E i \in 1 .. L : Lies(u, intervals[i])
    <3>1. u \in Nat /\ intervals[L].entry \in Nat /\ intervals[L].entry < piece.from
      BY <1>2, <1>5, <2>2
    <3>2. Lies(u, intervals'[L]) <=> u = piece.from \/ Lies(u, intervals[L])
      BY <1>3, <2>2, <2>6, <3>1 DEF Lies
    <3>3. \A i \in 1 .. L : i # L => (Lies(u, intervals'[i]) <=> Lies(u, intervals[i]))
      BY <2>6 DEF Lies
    <3> QED
      BY <2>2, <3>2, <3>3
  <2>11. L \in Nat /\ L > 0 /\ L <= next
    BY <1>1, <1>2, <1>9
  <2> HIDE DEF I
  <2> QED
    BY <2>2, <2>6, <2>7, <2>8, <2>9, <2>10, <2>11
<1>10. CASE ~ (next > 1 /\ Contiguous(pieces[next - 1], piece))
  <2>1. intervals' = Append(intervals, fresh)
    BY <1>7, <1>10
  <2>2. fresh \in I /\ fresh.entry = piece.from /\ fresh.exit = piece.to
    BY <1>3 DEF fresh
  <2>3. /\ intervals' \in Seq(I) /\ Len(intervals') = L + 1
        /\ \A i \in 1 .. L : intervals'[i] = intervals[i]
        /\ intervals'[L + 1] = fresh
    BY <1>2, <2>1, <2>2, AppendProperties DEF L
  <2>4. \A i \in 1 .. L : intervals[i].exit < piece.from
    <3> SUFFICES ASSUME NEW i \in 1 .. L PROVE intervals[i].exit < piece.from
      OBVIOUS
    <3>1. next > 1 /\ L \in 1 .. L
      BY <1>1, <1>2
    <3>2. intervals[L].exit < piece.from
      <4>1. intervals[L].exit \in Nat /\ intervals[L].exit <= piece.from
        BY <1>2, <1>5, <1>6, <3>1
      <4>2. intervals[L].exit # piece.from
        BY <1>6, <1>10, <3>1
      <4> QED
        BY <1>3, <4>1, <4>2
    <3>3. i # L => intervals[i].exit < intervals[L].entry
      BY <1>2, <3>1
    <3>4. /\ intervals[i].exit \in Nat /\ intervals[L].entry \in Nat /\ intervals[L].exit \in Nat
          /\ intervals[L].entry < intervals[L].exit
      BY <1>2, <1>5, <3>1
    <3> QED
      BY <1>3, <3>2, <3>3, <3>4
  <2>5. 1 .. L + 1 = (1 .. L) \cup {L + 1} /\ L + 1 \notin 1 .. L
    BY <1>2
  <2>6. \A i \in 1 .. L + 1 : intervals'[i].entry < intervals'[i].exit
    BY <1>2, <1>3, <2>2, <2>3, <2>5
  <2>7. \A i, j \in 1 .. L + 1 : i < j => intervals'[i].exit < intervals'[j].entry
    <3> SUFFICES ASSUME NEW i \in 1 .. L + 1, NEW j \in 1 .. L + 1, i < j
                 PROVE  intervals'[i].exit < intervals'[j].entry
      OBVIOUS
    <3>1. i \in 1 .. L
      BY <1>2
    <3> QED
      BY <1>2, <2>2, <2>3, <2>4, <2>5, <3>1
  <2>8. ASSUME NEW u \in RouteParts
        PROVE  (\E i \in 1 .. L + 1 : Lies(u, intervals'[i]))
                 <=> u = piece.from \/ \E i \in 1 .. L : Lies(u, intervals[i])
    <3>1. Lies(u, fresh) <=> u = piece.from
      BY <1>3, <1>5, <2>2 DEF Lies
    <3> QED
      BY <2>3, <2>5, <3>1
  <2>9. L + 1 \in Nat /\ L + 1 > 0 /\ L + 1 <= next
    BY <1>1, <1>2
  <2> QED
    BY <2>2, <2>3, <2>6, <2>7, <2>8, <2>9
<1> QED
  BY <1>9, <1>10

-----------------------------------------------------------------------------
(* The nodes of an interval go up strictly from its entry to its exit: an   *)
(* anchor where there is route before it, its stops, an anchor where there  *)
(* is route after it.                                                       *)
StopNode(k) == [at |-> At(k), stop |-> k]

NodesShape(interval, nodes) ==
  /\ nodes \in Seq(Node)
  /\ Len(nodes) <= StopCount + 2
  /\ \A i \in 1 .. Len(nodes) : interval.entry <= nodes[i].at /\ nodes[i].at <= interval.exit
  /\ \A i, j \in 1 .. Len(nodes) : i < j => nodes[i].at < nodes[j].at
  /\ interval.entry > 0 => Len(nodes) > 0 /\ nodes[1] = Anchor(interval.entry)
  /\ interval.exit < RouteEnd => Len(nodes) > 0 /\ nodes[Len(nodes)] = Anchor(interval.exit)
  /\ \A k \in Within(interval) : ~ AtBoundary(k, interval) =>
       \E i \in 1 .. Len(nodes) : nodes[i] = StopNode(k)

LEMMA NodesHaveShape ==
  ASSUME NEW interval, interval.entry \in Location, interval.exit \in Location,
         interval.entry < interval.exit
  PROVE  NodesShape(interval, NodesOf(interval))
<1> DEFINE S == {k \in Within(interval) : ~ AtBoundary(k, interval)}
           b == Cardinality(S)
           order == Ascending(S)
           A == IF interval.entry > 0 THEN <<Anchor(interval.entry)>> ELSE <<>>
           B == [i \in 1 .. b |-> StopNode(order[i])]
           C == IF interval.exit < RouteEnd THEN <<Anchor(interval.exit)>> ELSE <<>>
           a == IF interval.entry > 0 THEN 1 ELSE 0
           c == IF interval.exit < RouteEnd THEN 1 ELSE 0
           nodes == NodesOf(interval)
<1>1. Location \subseteq Nat /\ RouteEnd \in Nat /\ \A x \in Location : x <= RouteEnd
  BY RouteEndType DEF Location
<1>2. S \subseteq Stops /\ Stops \subseteq Nat /\ IsFiniteSet(S) /\ b <= StopCount
  <2>1. S \subseteq Stops
    BY DEF Within
  <2>2. IsFiniteSet(Stops) /\ Stops \subseteq Nat /\ Cardinality(Stops) = StopCount
    <3>1. 0 \in Int /\ StopCount - 1 \in Int /\ 0 <= StopCount - 1
      BY PlanAssumption
    <3>2. /\ IsFiniteSet(0 .. StopCount - 1)
          /\ Cardinality(0 .. StopCount - 1) = IF 0 > StopCount - 1 THEN 0 ELSE StopCount - 1 - 0 + 1
      BY <3>1, FS_Interval
    <3>3. Cardinality(0 .. StopCount - 1) = StopCount
      <4>1. StopCount \in Nat /\ ~ (0 > StopCount - 1) /\ StopCount - 1 - 0 + 1 = StopCount
        BY PlanAssumption
      <4> QED
        BY <3>2, <4>1
    <3> QED
      BY <3>1, <3>2, <3>3 DEF Stops
  <2> QED
    BY <2>1, <2>2, FS_Subset
<1>3. /\ b \in Nat /\ order \in Seq(S) /\ Len(order) = b
      /\ \A i, j \in 1 .. b : i < j => order[i] < order[j]
      /\ \A k \in S : \E i \in 1 .. b : order[i] = k
  <2>1. S \subseteq Nat
    BY <1>2
  <2> HIDE DEF S
  <2> QED
    BY <1>2, <2>1, AscendingIsSorted
<1>4. \A k \in S : /\ k \in Stops /\ At(k) \in Location
                   /\ interval.entry <= At(k) /\ At(k) <= interval.exit
                   /\ interval.entry > 0 => interval.entry < At(k)
                   /\ interval.exit < RouteEnd => At(k) < interval.exit
  <2> TAKE k \in S
  <2>1. k \in Stops /\ At(k) \in Location /\ interval.entry <= At(k) /\ At(k) <= interval.exit
    BY <1>2, StopsAreOnTheRoute DEF Within
  <2>2. /\ ~ (At(k) = interval.entry /\ interval.entry > 0)
        /\ ~ (At(k) = interval.exit /\ interval.exit < RouteEnd)
    BY DEF AtBoundary
  <2>3. At(k) \in Nat /\ interval.entry \in Nat /\ interval.exit \in Nat
    BY <1>1, <2>1
  <2> QED
    BY <2>1, <2>2, <2>3
<1>5. \A i \in 1 .. b : order[i] \in S
  BY <1>3
<1>6. /\ A \in Seq(Node) /\ Len(A) = a /\ \A i \in 1 .. a : A[i] = Anchor(interval.entry)
      /\ C \in Seq(Node) /\ Len(C) = c /\ \A i \in 1 .. c : C[i] = Anchor(interval.exit)
  <2>1. Anchor(interval.entry) \in Node /\ Anchor(interval.exit) \in Node
    BY DEF Anchor, Node
  <2> HIDE DEF Node
  <2> QED
    BY <2>1
<1>7. B \in Seq(Node) /\ Len(B) = b
  <2>1. \A i \in 1 .. b : StopNode(order[i]) \in Node
    BY <1>4, <1>5 DEF StopNode, Node
  <2> HIDE DEF Node
  <2>2. B \in [1 .. b -> Node]
    BY <2>1
  <2> QED
    BY <1>3, <2>2
<1>8. nodes = (A \o B) \o C
  <2>1. \A i \in 1 .. b : StopNode(order[i]) = [at |-> At(order[i]), stop |-> order[i]]
    BY DEF StopNode
  <2>2. B = [i \in 1 .. Len(order) |-> [at |-> At(order[i]), stop |-> order[i]]]
    BY <1>3, <2>1
  <2> QED
    BY <2>2 DEF NodesOf
<1>9. a \in Nat /\ c \in Nat
  OBVIOUS
<1> HIDE DEF A, C, nodes, a, c
<1>10. /\ (A \o B) \in Seq(Node) /\ Len(A \o B) = a + b
       /\ \A i \in 1 .. a : (A \o B)[i] = Anchor(interval.entry)
       /\ \A i \in a + 1 .. a + b : (A \o B)[i] = StopNode(order[i - a])
  <2>1. /\ (A \o B) \in Seq(Node) /\ Len(A \o B) = a + b
        /\ \A i \in 1 .. a : (A \o B)[i] = A[i]
        /\ \A i \in a + 1 .. a + b : (A \o B)[i] = B[i - a]
    <3> HIDE DEF B, b
    <3>1. /\ (A \o B) \in Seq(Node) /\ Len(A \o B) = Len(A) + Len(B)
          /\ \A i \in 1 .. Len(A) : (A \o B)[i] = A[i]
          /\ \A i \in Len(A) + 1 .. Len(A) + Len(B) : (A \o B)[i] = B[i - Len(A)]
      <4>1. A \in Seq(Node) /\ B \in Seq(Node)
        BY <1>6, <1>7
      <4> HIDE DEF Node
      <4> QED
        BY <4>1, ElementsOfConcat
    <3> QED
      BY <1>6, <1>7, <3>1
  <2>2. \A i \in a + 1 .. a + b : B[i - a] = StopNode(order[i - a])
    <3>1. \A i \in a + 1 .. a + b : i - a \in 1 .. b
      BY <1>3, <1>9
    <3> HIDE DEF b
    <3> QED
      BY <3>1
  <2> QED
    BY <1>6, <2>1, <2>2
<1> HIDE DEF B, b, order, S
<1>11. /\ nodes \in Seq(Node) /\ Len(nodes) = a + b + c
       /\ \A i \in 1 .. a : nodes[i] = Anchor(interval.entry)
       /\ \A i \in a + 1 .. a + b : nodes[i] = StopNode(order[i - a])
       /\ \A i \in a + b + 1 .. a + b + c : nodes[i] = Anchor(interval.exit)
  <2>1. /\ nodes \in Seq(Node) /\ Len(nodes) = a + b + c
        /\ \A i \in 1 .. a + b : nodes[i] = (A \o B)[i]
        /\ \A i \in a + b + 1 .. a + b + c : nodes[i] = C[i - (a + b)]
    <3> DEFINE AB == A \o B
    <3>1. AB \in Seq(Node) /\ Len(AB) = a + b /\ nodes = AB \o C
      BY <1>8, <1>10
    <3> HIDE DEF AB
    <3>2. /\ (AB \o C) \in Seq(Node) /\ Len(AB \o C) = Len(AB) + Len(C)
          /\ \A i \in 1 .. Len(AB) : (AB \o C)[i] = AB[i]
          /\ \A i \in Len(AB) + 1 .. Len(AB) + Len(C) : (AB \o C)[i] = C[i - Len(AB)]
      BY <1>6, <3>1, ElementsOfConcat
    <3> QED
      BY <1>6, <3>1, <3>2 DEF AB
  <2>2. (\A i \in 1 .. a : i \in 1 .. a + b) /\ (\A i \in a + 1 .. a + b : i \in 1 .. a + b)
    BY <1>3, <1>9
  <2>3. \A i \in a + b + 1 .. a + b + c : i - (a + b) \in 1 .. c
    BY <1>3, <1>9
  <2> QED
    BY <1>6, <1>10, <2>1, <2>2, <2>3
<1>12. \A i \in a + 1 .. a + b : i - a \in 1 .. b /\ order[i - a] \in S
  BY <1>3, <1>5, <1>9
<1>13. \A i \in 1 .. Len(nodes) :
         \/ i \in 1 .. a
         \/ i \in a + 1 .. a + b
         \/ i \in a + b + 1 .. a + b + c
  BY <1>3, <1>9, <1>11
<1>14. a > 0 <=> interval.entry > 0
  BY DEF a
<1>15. c > 0 <=> interval.exit < RouteEnd
  BY DEF c
<1>16. /\ \A i \in 1 .. a : nodes[i].at = interval.entry /\ interval.entry > 0
       /\ \A i \in a + 1 .. a + b : nodes[i].at = At(order[i - a])
       /\ \A i \in a + b + 1 .. a + b + c : nodes[i].at = interval.exit /\ interval.exit < RouteEnd
  <2>1. \A x : Anchor(x).at = x
    BY DEF Anchor
  <2>2. \A k : StopNode(k).at = At(k)
    BY DEF StopNode
  <2>3. (\A i \in 1 .. a : a > 0) /\ (\A i \in a + b + 1 .. a + b + c : c > 0)
    BY <1>3, <1>9
  <2> QED
    BY <1>11, <1>14, <1>15, <2>1, <2>2, <2>3
<1>17. \A i \in 1 .. Len(nodes) : interval.entry <= nodes[i].at /\ nodes[i].at <= interval.exit
  <2>1. interval.entry \in Nat /\ interval.exit \in Nat
    BY <1>1
  <2>2. interval.entry <= interval.entry /\ interval.exit <= interval.exit
    BY <2>1
  <2>3. interval.entry <= interval.exit
    BY <2>1
  <2> QED
    BY <1>4, <1>12, <1>13, <1>16, <2>2, <2>3
<1>18. ASSUME NEW i \in 1 .. Len(nodes), NEW j \in 1 .. Len(nodes), i < j
       PROVE  nodes[i].at < nodes[j].at
  <2>1. a <= 1 /\ c <= 1
    BY DEF a, c
  <2>2. CASE i \in 1 .. a
    <3>1. j \in a + 1 .. a + b \/ j \in a + b + 1 .. a + b + c
      BY <1>9, <1>13, <1>18, <2>1, <2>2
    <3> QED
      BY <1>1, <1>4, <1>12, <1>16, <2>2, <3>1
  <2>3. CASE i \in a + 1 .. a + b
    <3>1. j \in a + 1 .. a + b \/ j \in a + b + 1 .. a + b + c
      BY <1>9, <1>13, <1>18, <2>3
    <3>2. CASE j \in a + 1 .. a + b
      <4>1. i - a < j - a
        BY <1>9, <1>18, <2>3, <3>2
      <4>2. order[i - a] < order[j - a]
        BY <1>3, <1>12, <2>3, <3>2, <4>1
      <4>3. order[i - a] \in Nat /\ order[j - a] \in Nat
        BY <1>2, <1>12, <2>3, <3>2
      <4> QED
        BY <1>16, <2>3, <3>2, <4>2, <4>3, AtOrder
    <3>3. CASE j \in a + b + 1 .. a + b + c
      BY <1>4, <1>12, <1>16, <2>3, <3>3
    <3> QED
      BY <3>1, <3>2, <3>3
  <2>4. CASE i \in a + b + 1 .. a + b + c
    <3>1. j > a + b + c
      BY <1>3, <1>9, <1>18, <2>1, <2>4
    <3> QED
      BY <1>3, <1>9, <1>11, <3>1
  <2> QED
    BY <1>13, <2>2, <2>3, <2>4
<1>19. interval.entry > 0 => Len(nodes) > 0 /\ nodes[1] = Anchor(interval.entry)
  BY <1>3, <1>9, <1>11, <1>14
<1>20. interval.exit < RouteEnd => Len(nodes) > 0 /\ nodes[Len(nodes)] = Anchor(interval.exit)
  <2> SUFFICES ASSUME c > 0 PROVE Len(nodes) > 0 /\ nodes[Len(nodes)] = Anchor(interval.exit)
    BY <1>15
  <2>1. Len(nodes) \in a + b + 1 .. a + b + c /\ Len(nodes) > 0
    BY <1>3, <1>9, <1>11
  <2> QED
    BY <1>11, <2>1
<1>21. ASSUME NEW k \in Within(interval), ~ AtBoundary(k, interval)
       PROVE  \E i \in 1 .. Len(nodes) : nodes[i] = StopNode(k)
  <2>1. k \in S
    BY <1>21 DEF S
  <2>2. PICK i \in 1 .. b : order[i] = k
    BY <1>3, <2>1
  <2>3. i + a \in a + 1 .. a + b /\ (i + a) - a = i /\ i + a \in 1 .. Len(nodes)
    BY <1>3, <1>9, <1>11
  <2>4. nodes[i + a] = StopNode(k)
    BY <1>11, <2>2, <2>3
  <2> QED
    BY <2>3, <2>4
<1>22. Len(nodes) <= StopCount + 2
  <2>1. a <= 1 /\ c <= 1 /\ StopCount \in Nat
    BY PlanAssumption DEF a, c
  <2>2. b <= StopCount
    BY <1>2 DEF b
  <2> QED
    BY <1>3, <1>9, <1>11, <2>1, <2>2
<1> QED
  BY <1>11, <1>17, <1>18, <1>19, <1>20, <1>21, <1>22 DEF NodesShape, nodes

-----------------------------------------------------------------------------
(* What a selection keeps: the anchors and the required stops, no forced    *)
(* one, and something at all.                                               *)
LEMMA SelectionKeeps ==
  ASSUME NEW interval, NEW nodes, NodesShape(interval, nodes), NEW K \in Selections(nodes)
  PROVE  /\ K \subseteq Orders(nodes) /\ Orders(nodes) \subseteq Nat /\ K # {}
         /\ \A i \in Orders(nodes) : /\ AvailabilityOf(nodes, i) = "required" => i \in K
                                     /\ AvailabilityOf(nodes, i) = "forced" => i \notin K
<1>1. Len(nodes) \in Nat /\ Len(nodes) <= StopCount + 2 /\ StopCount \in Nat
  BY PlanAssumption DEF NodesShape
<1>2. Orders(nodes) \subseteq SelectorOrders /\ Orders(nodes) \subseteq Nat
  BY <1>1 DEF Orders, SelectorOrders
<1>3. K \in SUBSET Orders(nodes) /\ Selector(nodes, PairsOf(nodes))!Feasible(K)
  BY DEF Selections
<1>4. /\ \A i \in Orders(nodes) \cap SelectorOrders :
           /\ AvailabilityOf(nodes, i) = "required" => i \in K
           /\ AvailabilityOf(nodes, i) = "forced" => i \notin K
      /\ \E i, j \in K : i # j
  BY <1>3, FeasibleIsChain
<1> QED
  BY <1>2, <1>3, <1>4

(* What a selection makes of the interval: replacements one after the other *)
(* over the stops that are left out, from the first node that is kept to the*)
(* last.  Only at an end of the route may that be less than the interval,   *)
(* and then no stop of the rest is kept.                                    *)
LEMMA SelectionReplaces ==
  ASSUME NEW interval, interval.entry \in Location, interval.exit \in Location,
         NEW nodes, NodesShape(interval, nodes), NEW K \in Selections(nodes)
  PROVE  LET R == Replacements(nodes, K)
             lost == OmittedStops(nodes, K)
         IN /\ R \in Seq([start : Location, end : Location])
            /\ \A n \in 1 .. Len(R) : /\ R[n].start < R[n].end
                                      /\ interval.entry <= R[n].start /\ R[n].end <= interval.exit
            /\ \A m, n \in 1 .. Len(R) : m < n => R[m].end <= R[n].start
            /\ \A n \in 1 .. Len(R), k \in Stops :
                 R[n].start < At(k) /\ At(k) < R[n].end => k \in lost
            /\ \A u \in RouteParts : Lies(u, interval) =>
                 \/ \E n \in 1 .. Len(R) : R[n].start <= u /\ u < R[n].end
                 \/ \A k \in Stops : At(k) <= u => k \in lost
                 \/ \A k \in Stops : u < At(k) => k \in lost
<1> DEFINE R == Replacements(nodes, K)
           lost == OmittedStops(nodes, K)
           order == Ascending(K)
           c == Cardinality(K)
           v == [n \in 1 .. c |-> nodes[order[n] + 1].at]
<1>1. /\ K \subseteq Orders(nodes) /\ Orders(nodes) \subseteq Nat /\ K # {}
      /\ \A i \in Orders(nodes) : AvailabilityOf(nodes, i) = "required" => i \in K
  BY SelectionKeeps
<1>2. /\ nodes \in Seq(Node) /\ Len(nodes) \in Nat
      /\ \A i \in 1 .. Len(nodes) : interval.entry <= nodes[i].at /\ nodes[i].at <= interval.exit
      /\ \A i, j \in 1 .. Len(nodes) : i < j => nodes[i].at < nodes[j].at
  BY DEF NodesShape
<1>3. \A i \in 1 .. Len(nodes) : nodes[i].at \in Location
  <2>1. \A i \in 1 .. Len(nodes) : nodes[i] \in Node
    <3> HIDE DEF Node
    <3> QED
      BY <1>2, ElementOfSeq
  <2> QED
    BY <2>1 DEF Node
<1>4. Location \subseteq Nat /\ RouteParts \subseteq Nat
  BY RouteEndType DEF Location, RouteParts
<1>5. /\ c \in Nat /\ order \in Seq(K) /\ Len(order) = c
      /\ \A i, j \in 1 .. c : i < j => order[i] < order[j]
      /\ \A x \in K : \E i \in 1 .. c : order[i] = x
  <2>1. IsFiniteSet(Orders(nodes))
    <3>1. 0 \in Int /\ Len(nodes) - 1 \in Int
      BY <1>2
    <3> QED
      BY <3>1, FS_Interval DEF Orders
  <2>2. IsFiniteSet(K) /\ K \subseteq Nat
    BY <1>1, <2>1, FS_Subset
  <2> QED
    BY <2>2, AscendingIsSorted
<1> HIDE DEF order, c
<1>6. /\ c >= 1
      /\ \A n \in 1 .. c : order[n] \in K /\ order[n] \in Nat /\ order[n] + 1 \in 1 .. Len(nodes)
  <2>1. \A n \in 1 .. c : order[n] \in K
    BY <1>5
  <2>2. \A x \in K : x \in Nat /\ x + 1 \in 1 .. Len(nodes)
    BY <1>1, <1>2 DEF Orders
  <2>3. 1 .. c # {}
    BY <1>1, <1>5
  <2> QED
    BY <1>5, <2>1, <2>2, <2>3
<1>7. /\ \A n \in 1 .. c : /\ v[n] = nodes[order[n] + 1].at /\ v[n] \in Location /\ v[n] \in Nat
                           /\ interval.entry <= v[n] /\ v[n] <= interval.exit
      /\ \A m, n \in 1 .. c : m < n => v[m] < v[n]
  <2>1. \A n \in 1 .. c : /\ v[n] = nodes[order[n] + 1].at /\ v[n] \in Location /\ v[n] \in Nat
                          /\ interval.entry <= v[n] /\ v[n] <= interval.exit
    BY <1>2, <1>3, <1>4, <1>6
  <2>2. ASSUME NEW m \in 1 .. c, NEW n \in 1 .. c, m < n PROVE v[m] < v[n]
    <3>1. order[m] + 1 < order[n] + 1
      <4>1. order[m] < order[n]
        BY <1>5, <2>2
      <4>2. order[m] \in Nat /\ order[n] \in Nat
        BY <1>6
      <4> QED
        BY <4>1, <4>2
    <3> QED
      BY <1>2, <1>6, <2>1, <3>1
  <2> QED
    BY <2>1, <2>2
<1>8. \A n \in 1 .. c - 1 : n \in 1 .. c /\ n + 1 \in 1 .. c /\ n < n + 1
  BY <1>6, <1>5
<1>9. /\ R \in Seq([start : Location, end : Location]) /\ Len(R) = c - 1
      /\ \A n \in 1 .. c - 1 : R[n].start = v[n] /\ R[n].end = v[n + 1]
  <2>1. R = [n \in 1 .. c - 1 |-> [start |-> v[n], end |-> v[n + 1]]]
    BY <1>5, <1>7, <1>8 DEF Replacements, order
  <2> HIDE DEF R, v
  <2>2. \A n \in 1 .. c - 1 : [start |-> v[n], end |-> v[n + 1]] \in [start : Location, end : Location]
    BY <1>7, <1>8
  <2>3. c - 1 \in Nat
    BY <1>5, <1>6
  <2>4. R \in Seq([start : Location, end : Location]) /\ Len(R) = c - 1
    <3> DEFINE Both == [start : Location, end : Location]
               b == c - 1
    <3>1. R \in [1 .. b -> Both]
      BY <2>1, <2>2
    <3>2. b \in Nat
      BY <2>3
    <3> HIDE DEF Both, b
    <3>3. R \in Seq(Both) /\ Len(R) = b
      BY <3>1, <3>2
    <3> QED
      BY <3>3 DEF Both, b
  <2> QED
    BY <2>1, <2>4
<1> HIDE DEF R, v
(* Where a stop of the interval is kept, there is a value of v.             *)
<1>10. ASSUME NEW k \in Stops, k \in Within(interval), ~ AtBoundary(k, interval),
              \A n \in 1 .. c : v[n] # At(k)
       PROVE  k \in lost
  <2>1. PICK i \in 1 .. Len(nodes) : nodes[i] = StopNode(k)
    BY <1>10 DEF NodesShape
  <2>2. nodes[i].at = At(k) /\ nodes[i].stop = k
    BY <2>1 DEF StopNode
  <2>3. i - 1 \in Orders(nodes) /\ (i - 1) + 1 = i
    BY <1>2 DEF Orders
  <2>4. i - 1 \notin K
    <3> SUFFICES ASSUME i - 1 \in K PROVE FALSE
      OBVIOUS
    <3>1. PICK n \in 1 .. c : order[n] = i - 1
      BY <1>5
    <3>2. v[n] = At(k)
      BY <1>7, <2>2, <2>3, <3>1
    <3> QED
      BY <1>10, <3>2
  <2>5. k # NoStop
    BY PlanAssumption DEF Stops
  <2>6. nodes[(i - 1) + 1].stop \in {nodes[j + 1].stop : j \in Orders(nodes) \ K}
    BY <2>3, <2>4
  <2> QED
    BY <2>2, <2>3, <2>5, <2>6 DEF OmittedStops
<1>11. ASSUME NEW n \in 1 .. c - 1, NEW k \in Stops, v[n] < At(k), At(k) < v[n + 1]
       PROVE  k \in lost
  <2>1. At(k) \in Nat /\ interval.entry \in Nat /\ interval.exit \in Nat
    BY <1>4, StopsAreOnTheRoute
  <2>2. interval.entry < At(k) /\ At(k) < interval.exit
    BY <1>7, <1>8, <1>11, <2>1
  <2>3. k \in Within(interval) /\ ~ AtBoundary(k, interval)
    BY <2>1, <2>2 DEF Within, AtBoundary
  <2>4. ASSUME NEW m \in 1 .. c PROVE v[m] # At(k)
    <3>1. m < n \/ m = n \/ m = n + 1 \/ n + 1 < m
      BY <1>5
    <3>2. v[m] <= v[n] \/ v[n + 1] <= v[m]
      BY <1>7, <1>8, <3>1
    <3> QED
      BY <1>7, <1>8, <1>11, <2>1, <3>2
  <2> QED
    BY <1>10, <2>3, <2>4
<1>12. 1 \in 1 .. c /\ c \in 1 .. c /\ \A m \in 1 .. c : v[1] <= v[m] /\ v[m] <= v[c]
  <2>1. 1 \in 1 .. c /\ c \in 1 .. c
    BY <1>5, <1>6
  <2>2. ASSUME NEW m \in 1 .. c PROVE v[1] <= v[m] /\ v[m] <= v[c]
    <3>1. (1 < m \/ 1 = m) /\ (m < c \/ m = c)
      BY <1>5
    <3> QED
      BY <1>7, <2>1, <3>1
  <2> QED
    BY <2>1, <2>2
<1>13. ASSUME NEW i \in 1 .. Len(nodes), nodes[i].stop = NoStop
       PROVE  \E n \in 1 .. c : v[n] = nodes[i].at
  <2>1. i - 1 \in Orders(nodes) /\ (i - 1) + 1 = i
    BY <1>2 DEF Orders
  <2>2. AvailabilityOf(nodes, i - 1) = "required"
    BY <1>13, <2>1 DEF AvailabilityOf
  <2>3. PICK n \in 1 .. c : order[n] = i - 1
    BY <1>1, <1>5, <2>1, <2>2
  <2> QED
    BY <1>7, <2>1, <2>3
<1>14. ASSUME NEW u \in RouteParts, Lies(u, interval), u < v[1],
              NEW k \in Stops, At(k) <= u
       PROVE  k \in lost
  <2>1. At(k) \in Nat /\ interval.entry \in Nat /\ interval.exit \in Nat /\ u \in Nat
    BY <1>4, StopsAreOnTheRoute
  <2>2. interval.entry <= u /\ u < interval.exit
    BY <1>14 DEF Lies
  <2>3. ~ (interval.entry > 0)
    <3> SUFFICES ASSUME interval.entry > 0 PROVE FALSE
      OBVIOUS
    <3>1. Len(nodes) > 0 /\ nodes[1] = Anchor(interval.entry)
      BY DEF NodesShape
    <3>2. 1 \in 1 .. Len(nodes) /\ nodes[1].stop = NoStop /\ nodes[1].at = interval.entry
      BY <1>2, <3>1 DEF Anchor
    <3>3. PICK n \in 1 .. c : v[n] = interval.entry
      BY <1>13, <3>2
    <3>4. v[1] <= interval.entry
      BY <1>12, <3>3
    <3> QED
      BY <1>7, <1>12, <1>14, <2>1, <2>2, <3>4
  <2>4. k \in Within(interval) /\ ~ AtBoundary(k, interval)
    BY <1>14, <2>1, <2>2, <2>3 DEF Within, AtBoundary
  <2>5. \A n \in 1 .. c : v[n] # At(k)
    BY <1>7, <1>12, <1>14, <2>1
  <2> QED
    BY <1>10, <2>4, <2>5
<1>15. ASSUME NEW u \in RouteParts, Lies(u, interval), v[c] <= u,
              NEW k \in Stops, u < At(k)
       PROVE  k \in lost
  <2>1. /\ At(k) \in Nat /\ interval.entry \in Nat /\ interval.exit \in Nat /\ u \in Nat
        /\ At(k) <= RouteEnd /\ interval.exit <= RouteEnd /\ RouteEnd \in Nat
    BY <1>4, StopsAreOnTheRoute, RouteEndType DEF Location
  <2>2. interval.entry <= u /\ u < interval.exit
    BY <1>15 DEF Lies
  <2>3. interval.exit = RouteEnd
    <3> SUFFICES ASSUME interval.exit < RouteEnd PROVE FALSE
      BY <2>1
    <3>1. Len(nodes) > 0 /\ nodes[Len(nodes)] = Anchor(interval.exit)
      BY DEF NodesShape
    <3>2. /\ Len(nodes) \in 1 .. Len(nodes) /\ nodes[Len(nodes)].stop = NoStop
          /\ nodes[Len(nodes)].at = interval.exit
      BY <1>2, <3>1 DEF Anchor
    <3>3. PICK n \in 1 .. c : v[n] = interval.exit
      BY <1>13, <3>2
    <3>4. interval.exit <= v[c]
      BY <1>12, <3>3
    <3> QED
      BY <1>7, <1>12, <1>15, <2>1, <2>2, <3>4
  <2>4. k \in Within(interval) /\ ~ AtBoundary(k, interval)
    BY <1>15, <2>1, <2>2, <2>3 DEF Within, AtBoundary
  <2>5. \A n \in 1 .. c : v[n] # At(k)
    BY <1>7, <1>12, <1>15, <2>1
  <2> QED
    BY <1>10, <2>4, <2>5
<1>16. ASSUME NEW u \in RouteParts, v[1] <= u, u < v[c]
       PROVE  \E n \in 1 .. c - 1 : v[n] <= u /\ u < v[n + 1]
  <2> DEFINE T == {m \in 1 .. c : u < v[m]}
  <2>1. T \subseteq Nat /\ T # {}
    BY <1>12, <1>16
  <2>2. PICK m \in T : \A y \in T : m <= y
    BY <2>1, LeastNatural
  <2>3. m # 1
    BY <1>4, <1>7, <1>12, <1>16
  <2>4. m - 1 \in 1 .. c - 1 /\ m - 1 \in 1 .. c /\ (m - 1) + 1 = m
    BY <1>5, <2>3
  <2>5. ~ (u < v[m - 1])
    BY <2>2, <2>4
  <2>6. v[m - 1] <= u
    BY <1>4, <1>7, <2>4, <2>5
  <2> QED
    BY <2>4, <2>6
<1>17. ASSUME NEW u \in RouteParts, Lies(u, interval)
       PROVE  \/ \E n \in 1 .. c - 1 : v[n] <= u /\ u < v[n + 1]
              \/ \A k \in Stops : At(k) <= u => k \in lost
              \/ \A k \in Stops : u < At(k) => k \in lost
  <2>1. u < v[1] \/ v[c] <= u \/ (v[1] <= u /\ u < v[c])
    BY <1>4, <1>7, <1>12
  <2> QED
    BY <1>14, <1>15, <1>16, <1>17, <2>1
<1>18. ASSUME NEW m \in 1 .. c - 1, NEW n \in 1 .. c - 1, m < n
       PROVE  v[m + 1] <= v[n]
  <2>1. m + 1 < n \/ m + 1 = n
    BY <1>5, <1>18
  <2> QED
    BY <1>7, <1>8, <2>1
<1>19. \A n \in 1 .. c - 1 : /\ v[n] < v[n + 1]
                             /\ interval.entry <= v[n] /\ v[n + 1] <= interval.exit
  BY <1>7, <1>8
<1> HIDE DEF lost
<1>20. /\ \A n \in 1 .. Len(R) : /\ R[n].start < R[n].end
                                 /\ interval.entry <= R[n].start /\ R[n].end <= interval.exit
       /\ \A m, n \in 1 .. Len(R) : m < n => R[m].end <= R[n].start
       /\ \A n \in 1 .. Len(R), k \in Stops :
            R[n].start < At(k) /\ At(k) < R[n].end => k \in lost
  <2>1. 1 .. Len(R) = 1 .. c - 1
    BY <1>9
  <2>2. \A n \in 1 .. c - 1 : /\ R[n].start < R[n].end
                              /\ interval.entry <= R[n].start /\ R[n].end <= interval.exit
    BY <1>9, <1>19
  <2>3. \A m, n \in 1 .. c - 1 : m < n => R[m].end <= R[n].start
    BY <1>9, <1>18
  <2>4. \A n \in 1 .. c - 1, k \in Stops : R[n].start < At(k) /\ At(k) < R[n].end => k \in lost
    BY <1>9, <1>11
  <2> QED
    BY <2>1, <2>2, <2>3, <2>4
<1>21. \A u \in RouteParts : Lies(u, interval) =>
         \/ \E n \in 1 .. Len(R) : R[n].start <= u /\ u < R[n].end
         \/ \A k \in Stops : At(k) <= u => k \in lost
         \/ \A k \in Stops : u < At(k) => k \in lost
  BY <1>9, <1>17
<1> QED
  BY <1>9, <1>20, <1>21 DEF R, lost

(* The stops a selection leaves out: every forced one, not a required one.  *)
LEMMA SelectionOmits ==
  ASSUME TypeOK, NEW interval, NEW nodes, NodesShape(interval, nodes), NEW K \in Selections(nodes)
  PROVE  LET lost == OmittedStops(nodes, K) \cup BoundaryOmitted(interval)
         IN /\ lost \subseteq Stops
            /\ \A k \in lost : availability[k] # "required"
            /\ \A k \in Within(interval) : availability[k] = "forced" => k \in lost
<1>1. /\ K \subseteq Orders(nodes) /\ Orders(nodes) \subseteq Nat
      /\ \A i \in Orders(nodes) : /\ AvailabilityOf(nodes, i) = "required" => i \in K
                                  /\ AvailabilityOf(nodes, i) = "forced" => i \notin K
  BY SelectionKeeps
<1>2. nodes \in Seq(Node) /\ Len(nodes) \in Nat
  BY DEF NodesShape
<1>3. NoStop \notin Stops
  BY PlanAssumption DEF Stops
<1>4. ASSUME NEW k \in OmittedStops(nodes, K)
      PROVE  k \in Stops /\ availability[k] # "required"
  <2>1. PICK i \in Orders(nodes) \ K : k = nodes[i + 1].stop /\ k # NoStop
    BY DEF OmittedStops
  <2>2. i + 1 \in 1 .. Len(nodes)
    BY <1>2 DEF Orders
  <2>3. nodes[i + 1] \in Node
    <3> HIDE DEF Node
    <3> QED
      BY <1>2, <2>2, ElementOfSeq
  <2>4. k \in Stops
    BY <2>1, <2>3 DEF Node
  <2>5. AvailabilityOf(nodes, i) = availability[k]
    BY <2>1 DEF AvailabilityOf
  <2> QED
    BY <1>1, <2>1, <2>4, <2>5
<1>5. ASSUME NEW k \in BoundaryOmitted(interval)
      PROVE  k \in Stops /\ availability[k] # "required"
  BY DEF BoundaryOmitted, Within
<1>6. ASSUME NEW k \in Within(interval), availability[k] = "forced", ~ AtBoundary(k, interval)
      PROVE  k \in OmittedStops(nodes, K)
  <2>1. PICK i \in 1 .. Len(nodes) : nodes[i] = StopNode(k)
    BY <1>6 DEF NodesShape
  <2>2. i - 1 \in Orders(nodes) /\ (i - 1) + 1 = i /\ nodes[i].stop = k /\ k # NoStop
    BY <1>2, <1>3, <2>1 DEF Orders, StopNode, Within
  <2>3. AvailabilityOf(nodes, i - 1) = "forced"
    BY <1>6, <2>2 DEF AvailabilityOf
  <2>4. i - 1 \in Orders(nodes) \ K
    BY <1>1, <2>2, <2>3
  <2>5. nodes[(i - 1) + 1].stop \in {nodes[j + 1].stop : j \in Orders(nodes) \ K}
    BY <2>4
  <2> QED
    BY <2>2, <2>5 DEF OmittedStops
<1>7. ASSUME NEW k \in Within(interval), availability[k] = "forced", AtBoundary(k, interval)
      PROVE  k \in BoundaryOmitted(interval)
  BY <1>7 DEF BoundaryOmitted
<1> QED
  BY <1>4, <1>5, <1>6, <1>7

-----------------------------------------------------------------------------
(* What does not change.                                                    *)
LEMMA InputsKept ==
  ASSUME [Next]_vars
  PROVE  UNCHANGED <<pieces, availability>>
  BY DEF Next, vars, Merge, Analyzed, Snapshot, Build, Built, Route, PointUnmatched, SelectInterval,
         SelectionFails, Selected, Sew, Compare, DependencyFails, Fail, Enter

LEMMA PiecesKept == ASSUME PiecesInv, ForcedNear, UNCHANGED <<pieces, availability>>
                    PROVE  PiecesInv' /\ ForcedNear'
<1>1. PiecesInv'
  BY DEF PiecesInv
<1>2. ForcedNear'
  BY DEF ForcedNear, Touches, Inside
<1> QED
  BY <1>1, <1>2

IntervalsKept == UNCHANGED <<pieces, intervals>> /\ MergedPieces' = MergedPieces

LEMMA IntervalsFrame == ASSUME IntervalsInv, IntervalsKept PROVE IntervalsInv'
  BY DEF IntervalsInv, IntervalsKept, Lies

(* The plan of an interval.                                                 *)
PlanOf(interval) == [nodes |-> NodesOf(interval), lost |-> BoundaryOmitted(interval)]

LEMMA PlanOfFrame == ASSUME UNCHANGED availability, NEW interval
                     PROVE  PlanOf(interval)' = PlanOf(interval)
  BY DEF PlanOf, BoundaryOmitted

ReplacementsKept == UNCHANGED <<replacements, intervals, availability, omitted>> /\ Settled' = Settled

LEMMA ReplacementsFrame ==
  ASSUME ReplacementsInv, Selecting, ReplacementsKept
  PROVE  ReplacementsInv'
<1> USE DEF ReplacementsKept
<1>1. Settled' \in 0 .. Len(intervals')
  BY DEF ReplacementsInv
<1>2. SeparateReplacements'
  BY DEF ReplacementsInv, SeparateReplacements
<1>3. ReplacementsInside'
  BY DEF ReplacementsInv, ReplacementsInside
<1>4. NoKeptStopInside'
  BY DEF ReplacementsInv, NoKeptStopInside
<1>5. IntervalsReplaced'
  BY DEF ReplacementsInv, IntervalsReplaced, Lies, ReplacedPart, NoneKeptUpTo, NoneKeptAfter
<1>6. ForcedOmitted'
  BY DEF ReplacementsInv, ForcedOmitted
<1>7. RequiredKept'
  BY DEF ReplacementsInv, RequiredKept
<1> QED
  BY <1>1, <1>2, <1>3, <1>4, <1>5, <1>6, <1>7 DEF ReplacementsInv

LEMMA SewnFrame ==
  ASSUME UNCHANGED <<replacements, omitted>>
  PROVE  Kept' = Kept /\ \A k, l : PathOf(k, l)' = PathOf(k, l)
<1>1. Kept' = Kept
  BY DEF Kept
<1>2. Ordered' = Ordered
  BY DEF Ordered, Precedes
<1>3. ASSUME NEW k, NEW l PROVE Between(k, l)' = Between(k, l)
  BY <1>2 DEF Between, Filtered
<1>4. ASSUME NEW k, NEW l PROVE PathOf(k, l)' = PathOf(k, l)
  BY <1>3 DEF PathOf
<1> QED
  BY <1>1, <1>4

LEMMA PathsFrame ==
  ASSUME PathsInv, phase = "compare" \/ answer = "variant",
         UNCHANGED <<replacements, omitted, paths>>
  PROVE  PathsInv'
  BY SewnFrame DEF PathsInv

-----------------------------------------------------------------------------
(* The invariant holds initially.                                           *)
LEMMA PlanInitially == Init => PlanInv
<1> SUFFICES ASSUME Init PROVE PlanInv
  OBVIOUS
<1>1. PiecesInv
  BY PiecesInitially
<1>2. TypeOK
  <2>1. next \in 1 .. RouteEnd + 1
    BY RouteEndType DEF Init
  <2>2. availability \in [Stops -> {"forced", "optional", "required"}]
    BY DEF Init
  <2> QED
    BY <1>1, <2>1, <2>2 DEF Init, TypeOK, PiecesInv
<1>3. MergedPieces = 0 /\ Len(intervals) = 0
  BY DEF Init, MergedPieces
<1>4. IntervalsInv
  <2>1. intervals \in Seq([entry : Location, exit : Location])
    BY DEF Init
  <2>2. Len(pieces) \in Nat
    BY <1>1 DEF PiecesInv
  <2>3. 0 \in 0 .. Len(pieces) /\ 0 <= 0 /\ ~ (0 > 0) /\ 1 .. 0 = {}
    BY <2>2
  <2> QED
    BY <1>3, <2>1, <2>3 DEF IntervalsInv
<1>5. PlansInv
  <2>1. Len(plans) = 0 /\ plans = <<>>
    BY DEF Init
  <2>2. 0 <= 0 /\ 1 .. 0 = {}
    OBVIOUS
  <2> QED
    BY <1>3, <2>1, <2>2 DEF Init, PlansInv, Planned
<1>6. NothingYet /\ ReplacementsInv /\ PathsInv /\ AnswersInv /\ NeverFailsInternally
  BY DEF Init, NothingYet, ReplacementsInv, Selecting, PathsInv, AnswersInv, NeverFailsInternally
<1>7. ForcedNear
  <2>1. \A k \in Stops : ~ Touches(k) => availability[k] = "required"
    BY DEF Init
  <2> QED
    BY <2>1 DEF ForcedNear
<1> QED
  BY <1>1, <1>2, <1>4, <1>5, <1>6, <1>7 DEF PlanInv

(* What a step must keep besides what the inputs give.                      *)
StepInv ==
  /\ TypeOK /\ IntervalsInv /\ PlansInv /\ NothingYet /\ ReplacementsInv /\ PathsInv
  /\ AnswersInv /\ NeverFailsInternally

Errors == {"no_detour", "coverage", "unmatched", "dependency"}

(* A failure ends the call, whatever it had built.                          *)
LEMMA FailKeepsInv ==
  ASSUME PlanInv, phase \notin {"merge", "done"}, NEW error \in Errors, Fail(error), UNCHANGED plans
  PROVE  StepInv'
<1>1. /\ phase' = "done" /\ answer' = error
      /\ UNCHANGED <<next, pieces, intervals, availability, omitted, replacements, paths, plans>>
  BY DEF Fail
<1>2. TypeOK'
  BY <1>1 DEF PlanInv, TypeOK, Errors
<1>3. IntervalsInv'
  <2>1. IntervalsKept
    BY <1>1 DEF IntervalsKept, MergedPieces
  <2> QED
    BY <2>1, IntervalsFrame DEF PlanInv
<1>4. answer' \notin {"none", "variant", "internal"}
  BY <1>1 DEF Errors
<1>5. PlansInv'
  <2>1. \A p \in 1 .. Len(plans) : plans[p] = PlanOf(intervals[p])
    BY DEF PlanInv, PlansInv, PlanOf
  <2>2. \A p \in 1 .. Len(plans) : PlanOf(intervals[p])' = PlanOf(intervals[p])
    BY <1>1, PlanOfFrame DEF PlanOf, BoundaryOmitted
  <2>3. Len(plans') <= Len(intervals')
    BY <1>1 DEF PlanInv, PlansInv
  <2>4. ~ Planned' /\ phase' \notin {"merge", "traffic", "build"}
    BY <1>1, <1>4 DEF Planned
  <2> QED
    BY <1>1, <2>1, <2>2, <2>3, <2>4 DEF PlansInv, PlanOf, BoundaryOmitted
<1>6. NothingYet' /\ ReplacementsInv' /\ PathsInv' /\ AnswersInv' /\ NeverFailsInternally'
  BY <1>1, <1>4 DEF NothingYet, ReplacementsInv, Selecting, PathsInv, AnswersInv, NeverFailsInternally
<1> QED
  BY <1>2, <1>3, <1>5, <1>6 DEF StepInv

LEMMA MergeKeepsInv == ASSUME PlanInv, Merge PROVE StepInv'
<1>1. /\ phase = "merge" /\ next <= Len(pieces) /\ next' = next + 1
      /\ UNCHANGED <<phase, pieces, availability, plans, omitted, replacements, paths, answer>>
  BY DEF Merge
<1>2. IntervalsInv'
  BY MergeKeepsIntervals DEF PlanInv
<1>3. TypeOK'
  <2>1. next \in Nat /\ next >= 1 /\ Len(pieces) \in Nat /\ Len(pieces) <= RouteEnd /\ RouteEnd \in Nat
    BY RouteEndType DEF PlanInv, TypeOK, PiecesInv
  <2>2. next' \in 1 .. RouteEnd + 1
    BY <1>1, <2>1
  <2> QED
    BY <1>1, <1>2, <2>2 DEF PlanInv, TypeOK, IntervalsInv
<1>4. PlansInv'
  <2>1. plans = <<>> /\ Len(plans) = 0
    BY <1>1 DEF PlanInv, PlansInv
  <2>2. Len(intervals') \in Nat
    BY <1>2 DEF IntervalsInv
  <2>3. 1 .. 0 = {} /\ 0 <= Len(intervals')
    BY <2>2
  <2>4. answer # "variant"
    BY <1>1 DEF PlanInv, AnswersInv
  <2> QED
    BY <1>1, <2>1, <2>3, <2>4 DEF PlansInv, Planned
<1>5. NothingYet' /\ ReplacementsInv' /\ PathsInv' /\ AnswersInv' /\ NeverFailsInternally'
  BY <1>1 DEF PlanInv, NothingYet, ReplacementsInv, Selecting, PathsInv, AnswersInv,
              NeverFailsInternally
<1> QED
  BY <1>2, <1>3, <1>4, <1>5 DEF StepInv

(* From one loop or call of Plan to the next: of the state, only the phase  *)
(* and the index of the loop change.                                        *)
Moves == UNCHANGED <<pieces, intervals, availability, plans, omitted, replacements, paths, answer>>

LEMMA EnterKeepsInv ==
  ASSUME PlanInv, phase # "done", Moves, NEW place, Enter(place),
         \/ phase = "merge" /\ next > Len(pieces) /\ place = "traffic"
         \/ phase = "traffic" /\ place = "build"
         \/ phase = "build" /\ next > Len(intervals) /\ place = "route"
         \/ phase = "route" /\ place = "select"
         \/ phase = "select" /\ next > Len(plans) /\ place = "sew"
  PROVE  StepInv'
<1>1. /\ phase' = place /\ next' = 1
      /\ UNCHANGED <<pieces, intervals, availability, plans, omitted, replacements, paths, answer>>
  BY DEF Moves, Enter
<1>2. answer = "none"
  BY DEF PlanInv, AnswersInv
<1>3. TypeOK'
  <2>1. 1 \in 1 .. RouteEnd + 1
    BY RouteEndType
  <2> QED
    BY <1>1, <2>1 DEF PlanInv, TypeOK
<1>4. /\ Len(intervals) \in Nat /\ Len(plans) \in Nat /\ Len(pieces) \in Nat /\ next \in Nat
      /\ Len(plans) <= Len(intervals)
  BY DEF PlanInv, TypeOK, PlansInv
<1>5. IntervalsInv'
  <2>1. phase = "merge" => MergedPieces = Len(pieces)
    <3>1. phase = "merge" => MergedPieces = next - 1 /\ MergedPieces \in 0 .. Len(pieces)
      BY DEF PlanInv, IntervalsInv, MergedPieces
    <3> QED
      BY <1>4, <3>1
  <2>2. IntervalsKept
    BY <1>1, <2>1 DEF IntervalsKept, MergedPieces
  <2> QED
    BY <2>2, IntervalsFrame DEF PlanInv
<1>6. PlansInv'
  <2>1. \A p \in 1 .. Len(plans) : plans[p] = PlanOf(intervals[p])
    BY DEF PlanInv, PlansInv, PlanOf
  <2>2. phase \in {"merge", "traffic"} => plans = <<>>
    BY DEF PlanInv, PlansInv
  <2>3. place = "build" => next' = Len(plans) + 1
    BY <1>1, <2>2
  <2>4. place \in {"route", "select", "sew"} => Len(plans) = Len(intervals)
    <3>1. phase = "build" => next = Len(plans) + 1
      BY DEF PlanInv, PlansInv
    <3>2. phase \in {"route", "select"} => Len(plans) = Len(intervals)
      BY DEF PlanInv, PlansInv, Planned
    <3> QED
      BY <1>4, <3>1, <3>2
  <2>5. place \in {"traffic", "build", "route", "select", "sew"}
    OBVIOUS
  <2>6. place = "traffic" => plans = <<>>
    BY <2>2
  <2> QED
    BY <1>1, <1>2, <1>4, <2>1, <2>3, <2>4, <2>5, <2>6 DEF PlansInv, Planned, PlanOf, BoundaryOmitted
<1>7. NothingYet'
  BY <1>1 DEF PlanInv, NothingYet
<1>8. ReplacementsInv'
  <2>1. CASE place \in {"traffic", "build", "route"}
    BY <1>1, <1>2, <2>1 DEF ReplacementsInv, Selecting
  <2>2. CASE place = "select"
    <3>1. replacements = <<>> /\ omitted = {}
      BY <2>2 DEF PlanInv, NothingYet
    <3>2. Settled' = 0
      BY <1>1, <2>2 DEF Settled
    <3>3. 1 .. Len(replacements) = {} /\ 1 .. 0 = {} /\ 0 \in 0 .. Len(intervals)
      BY <1>4, <3>1
    <3> QED
      BY <1>1, <3>1, <3>2, <3>3 DEF ReplacementsInv, SeparateReplacements, ReplacementsInside,
         NoKeptStopInside, IntervalsReplaced, ForcedOmitted, RequiredKept
  <2>3. CASE place = "sew"
    <3>1. phase = "select" /\ Selecting /\ Len(plans) = Len(intervals)
      BY <2>3 DEF PlanInv, PlansInv, Planned, Selecting
    <3>2. Settled = next - 1 /\ Settled \in 0 .. Len(intervals)
      BY <3>1 DEF PlanInv, ReplacementsInv, Settled
    <3>3. Settled = Len(intervals)
      BY <1>4, <2>3, <3>1, <3>2
    <3>4. Settled' = Settled
      BY <1>1, <2>3, <3>3 DEF Settled
    <3>5. ReplacementsKept
      BY <1>1, <3>4 DEF ReplacementsKept
    <3> QED
      BY <3>1, <3>5, ReplacementsFrame DEF PlanInv
  <2> QED
    BY <2>1, <2>2, <2>3
<1>9. PathsInv' /\ AnswersInv' /\ NeverFailsInternally'
  BY <1>1, <1>2 DEF PathsInv, AnswersInv, NeverFailsInternally
<1> QED
  BY <1>3, <1>5, <1>6, <1>7, <1>8, <1>9 DEF StepInv

(* The intervals are portions of the route.                                 *)
LEMMA IntervalTypes ==
  ASSUME PlanInv, NEW p \in 1 .. Len(intervals)
  PROVE  /\ intervals[p].entry \in Location /\ intervals[p].exit \in Location
         /\ intervals[p].entry < intervals[p].exit
<1>1. intervals[p] \in [entry : Location, exit : Location]
  <2> DEFINE I == [entry : Location, exit : Location]
  <2>1. intervals \in Seq(I)
    BY DEF PlanInv, TypeOK
  <2> HIDE DEF I
  <2>2. intervals[p] \in I
    BY <2>1, ElementOfSeq
  <2> QED
    BY <2>2 DEF I
<1> QED
  BY <1>1 DEF PlanInv, IntervalsInv

LEMMA BuildKeepsInv == ASSUME PlanInv, Build PROVE StepInv'
<1> DEFINE interval == intervals[next]
           nodes == NodesOf(interval)
<1>1. CASE Len(nodes) < 2
  <2>1. Fail("no_detour") /\ UNCHANGED plans /\ phase = "build"
    BY <1>1 DEF Build
  <2> QED
    BY <2>1, FailKeepsInv DEF Errors
<1>2. CASE ~ (Len(nodes) < 2)
  <2>1. /\ phase = "build" /\ next <= Len(intervals)
        /\ plans' = Append(plans, PlanOf(interval))
        /\ next' = next + 1
        /\ UNCHANGED <<phase, pieces, intervals, availability, omitted, replacements, paths, answer>>
    BY <1>2 DEF Build, PlanOf
  <2>2. /\ Len(intervals) \in Nat /\ Len(plans) \in Nat /\ Len(pieces) \in Nat /\ next \in Nat
        /\ next = Len(plans) + 1 /\ next \in 1 .. Len(intervals)
        /\ Len(intervals) <= Len(pieces) /\ Len(pieces) <= RouteEnd /\ RouteEnd \in Nat
        /\ answer = "none"
    <3>1. /\ Len(intervals) \in Nat /\ Len(plans) \in Nat /\ Len(pieces) \in Nat /\ next \in Nat
          /\ next = Len(plans) + 1 /\ next >= 1
          /\ Len(pieces) <= RouteEnd /\ RouteEnd \in Nat /\ answer = "none"
      BY <2>1, RouteEndType DEF PlanInv, TypeOK, PlansInv, PiecesInv, AnswersInv
    <3>2. Len(intervals) <= Len(pieces)
      BY <2>1 DEF PlanInv, IntervalsInv, MergedPieces
    <3> QED
      BY <2>1, <3>1, <3>2
  <2>3. NodesShape(interval, nodes)
    BY <2>2, IntervalTypes, NodesHaveShape
  <2> DEFINE P == [nodes : Seq(Node), lost : SUBSET Stops]
  <2>4. PlanOf(interval) \in P
    <3>1. nodes \in Seq(Node)
      BY <2>3 DEF NodesShape
    <3>2. BoundaryOmitted(interval) \subseteq Stops
      BY DEF BoundaryOmitted, Within
    <3> QED
      BY <3>1, <3>2 DEF PlanOf
  <2>5. plans \in Seq(P)
    BY DEF PlanInv, TypeOK
  <2>6. /\ plans' \in Seq(P) /\ Len(plans') = Len(plans) + 1
        /\ \A p \in 1 .. Len(plans) : plans'[p] = plans[p]
        /\ plans'[Len(plans) + 1] = PlanOf(interval)
    <3> HIDE DEF P, interval
    <3> QED
      BY <2>1, <2>4, <2>5, AppendProperties
  <2>7. TypeOK'
    <3>1. next' \in 1 .. RouteEnd + 1
      BY <2>1, <2>2
    <3> QED
      BY <2>1, <2>6, <3>1 DEF PlanInv, TypeOK
  <2>8. IntervalsInv'
    <3>1. IntervalsKept
      BY <2>1 DEF IntervalsKept, MergedPieces
    <3> QED
      BY <3>1, IntervalsFrame DEF PlanInv
  <2>9. PlansInv'
    <3>1. \A p \in 1 .. Len(plans) : plans[p] = PlanOf(intervals[p])
      BY DEF PlanInv, PlansInv, PlanOf
    <3>2. 1 .. Len(plans) + 1 = (1 .. Len(plans)) \cup {next}
      BY <2>2
    <3>3. \A p \in 1 .. Len(plans') : plans'[p] = PlanOf(intervals[p])
      BY <2>2, <2>6, <3>1, <3>2
    <3>4. Len(plans') <= Len(intervals) /\ next' = Len(plans') + 1
      BY <2>1, <2>2, <2>6
    <3> QED
      BY <2>1, <2>2, <3>3, <3>4 DEF PlansInv, Planned, PlanOf, BoundaryOmitted
  <2>10. /\ NothingYet' /\ ReplacementsInv' /\ PathsInv' /\ AnswersInv' /\ NeverFailsInternally'
    BY <2>1, <2>2 DEF PlanInv, NothingYet, ReplacementsInv, Selecting, PathsInv, AnswersInv,
                      NeverFailsInternally
  <2> QED
    BY <2>7, <2>8, <2>9, <2>10 DEF StepInv
<1> QED
  BY <1>1, <1>2

-----------------------------------------------------------------------------
(* The replacements of one more interval follow those of the intervals      *)
(* before it, and nothing it omits was served for another.                  *)
LEMMA SelectIntervalKeepsInv == ASSUME PlanInv, SelectInterval PROVE StepInv'
<1> DEFINE interval == intervals[next]
           nodes == NodesOf(interval)
           Both == [start : Location, end : Location]
<1>1. /\ phase = "select" /\ next <= Len(plans) /\ next' = next + 1
      /\ UNCHANGED <<phase, pieces, intervals, availability, plans, paths, answer>>
  BY DEF SelectInterval
<1>2. /\ Len(intervals) \in Nat /\ Len(plans) = Len(intervals) /\ Len(pieces) \in Nat /\ next \in Nat
      /\ next \in 1 .. Len(intervals)
      /\ Len(intervals) <= Len(pieces) /\ Len(pieces) <= RouteEnd /\ RouteEnd \in Nat
      /\ answer = "none"
  <2>1. /\ Len(intervals) \in Nat /\ Len(pieces) \in Nat /\ next \in Nat
        /\ next >= 1 /\ Len(plans) = Len(intervals)
        /\ Len(pieces) <= RouteEnd /\ RouteEnd \in Nat /\ answer = "none"
    BY <1>1, RouteEndType DEF PlanInv, TypeOK, PlansInv, PiecesInv, AnswersInv, Planned
  <2>2. Len(intervals) <= Len(pieces)
    BY <1>1 DEF PlanInv, IntervalsInv, MergedPieces
  <2> QED
    BY <1>1, <2>1, <2>2
<1>3. /\ interval.entry \in Location /\ interval.exit \in Location /\ interval.entry < interval.exit
      /\ NodesShape(interval, nodes)
  BY <1>2, IntervalTypes, NodesHaveShape
<1>4. plans[next].nodes = nodes /\ plans[next].lost = BoundaryOmitted(interval)
  <2>1. \A p \in 1 .. Len(plans) : plans[p] = PlanOf(intervals[p])
    BY DEF PlanInv, PlansInv, PlanOf
  <2>2. plans[next] = PlanOf(interval)
    BY <1>2, <2>1
  <2> QED
    BY <2>2 DEF PlanOf
<1>5. PICK K \in Selections(nodes) :
        /\ replacements' = replacements \o Replacements(nodes, K)
        /\ omitted' = omitted \cup OmittedStops(nodes, K) \cup BoundaryOmitted(interval)
  BY <1>4 DEF SelectInterval
<1> DEFINE R == Replacements(nodes, K)
           lost == OmittedStops(nodes, K) \cup BoundaryOmitted(interval)
           r == Len(replacements)
           m == Len(R)
<1>6. /\ R \in Seq(Both)
      /\ \A n \in 1 .. m : /\ R[n].start < R[n].end
                           /\ interval.entry <= R[n].start /\ R[n].end <= interval.exit
      /\ \A i, n \in 1 .. m : i < n => R[i].end <= R[n].start
      /\ \A n \in 1 .. m, k \in Stops : R[n].start < At(k) /\ At(k) < R[n].end => k \in lost
      /\ \A u \in RouteParts : Lies(u, interval) =>
           \/ \E n \in 1 .. m : R[n].start <= u /\ u < R[n].end
           \/ \A k \in Stops : At(k) <= u => k \in lost
           \/ \A k \in Stops : u < At(k) => k \in lost
  BY <1>3, SelectionReplaces
<1>7. /\ lost \subseteq Stops
      /\ \A k \in lost : availability[k] # "required"
      /\ \A k \in Within(interval) : availability[k] = "forced" => k \in lost
  <2>1. TypeOK
    BY DEF PlanInv
  <2> QED
    BY <1>3, <2>1, SelectionOmits
<1>8. omitted' = omitted \cup lost
  BY <1>5
<1> HIDE DEF R, lost, nodes
<1>9. replacements \in Seq(Both) /\ omitted \subseteq Stops
  BY DEF PlanInv, TypeOK
<1>10. /\ replacements' \in Seq(Both) /\ r \in Nat /\ m \in Nat /\ Len(replacements') = r + m
       /\ \A i \in 1 .. r : replacements'[i] = replacements[i]
       /\ \A i \in r + 1 .. r + m : i - r \in 1 .. m /\ replacements'[i] = R[i - r]
  <2>1. replacements' = replacements \o R
    BY <1>5 DEF R
  <2> HIDE DEF Both
  <2> QED
    BY <1>6, <1>9, <2>1, ElementsOfConcat
<1>11. \A i \in 1 .. r + m : i \in 1 .. r \/ i \in r + 1 .. r + m
  BY <1>10
<1>12. \A n \in 1 .. m : n + r \in r + 1 .. r + m /\ n + r \in 1 .. r + m /\ replacements'[n + r] = R[n]
  <2> TAKE n \in 1 .. m
  <2>1. n + r \in r + 1 .. r + m /\ n + r \in 1 .. r + m /\ (n + r) - r = n
    BY <1>10
  <2> QED
    BY <1>10, <2>1
<1>13. /\ Settled = next - 1 /\ Settled' = next
       /\ 1 .. Settled = 1 .. next - 1 /\ 1 .. Settled' = (1 .. next - 1) \cup {next}
       /\ \A p \in 1 .. next - 1 : p \in 1 .. Len(intervals) /\ p < next
  BY <1>1, <1>2 DEF Settled
<1>14. Selecting /\ SeparateReplacements /\ ReplacementsInside /\ NoKeptStopInside
       /\ IntervalsReplaced /\ ForcedOmitted /\ RequiredKept
  BY <1>1 DEF PlanInv, ReplacementsInv, Selecting
<1>15. \A p \in 1 .. Len(intervals) :
         intervals[p].entry \in Nat /\ intervals[p].exit \in Nat
  <2>1. Location \subseteq Nat
    BY RouteEndType DEF Location
  <2> QED
    BY <2>1, IntervalTypes
<1>16. \A i \in 1 .. r + m : /\ replacements'[i].start \in Nat /\ replacements'[i].end \in Nat
                             /\ i \in 1 .. r => replacements[i].start \in Nat /\ replacements[i].end \in Nat
  <2>1. \A i \in 1 .. r + m : replacements'[i] \in Both
    <3> HIDE DEF Both
    <3> QED
      BY <1>10, ElementOfSeq
  <2>2. Location \subseteq Nat
    BY RouteEndType DEF Location
  <2> QED
    BY <1>10, <2>1, <2>2
<1>17. TypeOK'
  <2>1. next' \in 1 .. RouteEnd + 1
    BY <1>1, <1>2
  <2>2. omitted' \subseteq Stops
    BY <1>7, <1>8, <1>9
  <2> QED
    BY <1>1, <1>10, <2>1, <2>2 DEF PlanInv, TypeOK
<1>18. IntervalsInv'
  <2>1. IntervalsKept
    BY <1>1 DEF IntervalsKept, MergedPieces
  <2> QED
    BY <2>1, IntervalsFrame DEF PlanInv
<1>19. PlansInv'
  <2>1. \A p \in 1 .. Len(plans) : plans[p] = PlanOf(intervals[p])
    BY DEF PlanInv, PlansInv, PlanOf
  <2>2. Len(plans) <= Len(intervals)
    BY DEF PlanInv, PlansInv
  <2> QED
    BY <1>1, <1>2, <2>1, <2>2 DEF PlansInv, Planned, PlanOf, BoundaryOmitted
<1>20. SeparateReplacements'
  <2>1. ASSUME NEW n \in 1 .. r + m PROVE replacements'[n].start < replacements'[n].end
    BY <1>6, <1>10, <1>11, <1>14 DEF SeparateReplacements
  <2>2. ASSUME NEW i \in 1 .. r + m, NEW n \in 1 .. r + m, i < n
        PROVE  replacements'[i].end <= replacements'[n].start
    <3>1. CASE i \in 1 .. r /\ n \in 1 .. r
      BY <1>10, <1>14, <2>2, <3>1 DEF SeparateReplacements
    <3>2. CASE i \in 1 .. r /\ n \in r + 1 .. r + m
      <4>1. PICK p \in 1 .. next - 1 : replacements[i].end <= intervals[p].exit
        BY <1>13, <1>14, <3>2 DEF ReplacementsInside
      <4>2. intervals[p].exit < interval.entry
        BY <1>2, <1>13 DEF PlanInv, IntervalsInv
      <4>3. interval.entry <= replacements'[n].start
        BY <1>6, <1>10, <3>2
      <4>4. replacements'[i].end = replacements[i].end
        BY <1>10, <3>2
      <4>5. /\ replacements'[i].end \in Nat /\ replacements'[n].start \in Nat
            /\ intervals[p].exit \in Nat /\ interval.entry \in Nat
        BY <1>2, <1>13, <1>15, <1>16
      <4>6. replacements'[i].end <= intervals[p].exit
        BY <4>1, <4>4
      <4> HIDE DEF interval, r, m
      <4> QED
        BY <4>2, <4>3, <4>5, <4>6
    <3>3. CASE i \in r + 1 .. r + m /\ n \in r + 1 .. r + m
      <4>1. i - r < n - r
        BY <1>10, <2>2
      <4> QED
        BY <1>6, <1>10, <3>3, <4>1
    <3>4. ~ (i \in r + 1 .. r + m /\ n \in 1 .. r)
      BY <1>10, <2>2
    <3> QED
      BY <1>11, <3>1, <3>2, <3>3, <3>4
  <2> QED
    BY <1>10, <2>1, <2>2 DEF SeparateReplacements
<1>21. ReplacementsInside'
  <2>1. ASSUME NEW n \in 1 .. r + m
        PROVE  \E p \in 1 .. Settled' : /\ intervals[p].entry <= replacements'[n].start
                                        /\ replacements'[n].end <= intervals[p].exit
    <3>1. CASE n \in 1 .. r
      <4>1. PICK p \in 1 .. Settled : /\ intervals[p].entry <= replacements[n].start
                                      /\ replacements[n].end <= intervals[p].exit
        BY <1>14, <3>1 DEF ReplacementsInside
      <4>2. p \in 1 .. Settled'
        BY <1>13
      <4> QED
        BY <1>10, <3>1, <4>1, <4>2
    <3>2. CASE n \in r + 1 .. r + m
      <4>1. next \in 1 .. Settled'
        BY <1>13
      <4>2. interval.entry <= replacements'[n].start /\ replacements'[n].end <= interval.exit
        BY <1>6, <1>10, <3>2
      <4> QED
        BY <4>1, <4>2
    <3> QED
      BY <1>11, <3>1, <3>2
  <2> QED
    BY <1>1, <1>10, <2>1 DEF ReplacementsInside
<1>22. NoKeptStopInside'
  <2>1. ASSUME NEW n \in 1 .. r + m, NEW k \in Stops,
               replacements'[n].start < At(k), At(k) < replacements'[n].end
        PROVE  k \in omitted'
    <3>1. CASE n \in 1 .. r
      BY <1>8, <1>10, <1>14, <2>1, <3>1 DEF NoKeptStopInside
    <3>2. CASE n \in r + 1 .. r + m
      BY <1>6, <1>8, <1>10, <2>1, <3>2
    <3> QED
      BY <1>11, <3>1, <3>2
  <2> QED
    BY <1>10, <2>1 DEF NoKeptStopInside
<1>23. IntervalsReplaced'
  <2>1. ASSUME NEW u, ReplacedPart(u) PROVE ReplacedPart(u)'
    <3>1. PICK n \in 1 .. r : replacements[n].start <= u /\ u < replacements[n].end
      BY <2>1 DEF ReplacedPart
    <3>2. n \in 1 .. r + m /\ replacements'[n] = replacements[n]
      BY <1>10
    <3> QED
      BY <1>10, <3>1, <3>2 DEF ReplacedPart
  <2>2. ASSUME NEW u, NoneKeptUpTo(u) PROVE NoneKeptUpTo(u)'
    BY <1>8, <2>2 DEF NoneKeptUpTo
  <2>3. ASSUME NEW u, NoneKeptAfter(u) PROVE NoneKeptAfter(u)'
    BY <1>8, <2>3 DEF NoneKeptAfter
  <2>4. ASSUME NEW p \in 1 .. Settled', NEW u \in RouteParts, Lies(u, intervals[p])
        PROVE  ReplacedPart(u)' \/ NoneKeptUpTo(u)' \/ NoneKeptAfter(u)'
    <3>1. CASE p \in 1 .. next - 1
      <4>1. ReplacedPart(u) \/ NoneKeptUpTo(u) \/ NoneKeptAfter(u)
        BY <1>13, <1>14, <2>4, <3>1 DEF IntervalsReplaced
      <4> QED
        BY <2>1, <2>2, <2>3, <4>1
    <3>2. CASE p = next
      <4>1. ASSUME NEW n \in 1 .. m, R[n].start <= u, u < R[n].end
            PROVE  ReplacedPart(u)'
        BY <1>10, <1>12, <4>1 DEF ReplacedPart
      <4>2. (\A k \in Stops : At(k) <= u => k \in lost) => NoneKeptUpTo(u)'
        BY <1>8 DEF NoneKeptUpTo
      <4>3. (\A k \in Stops : u < At(k) => k \in lost) => NoneKeptAfter(u)'
        BY <1>8 DEF NoneKeptAfter
      <4>4. \/ \E n \in 1 .. m : R[n].start <= u /\ u < R[n].end
            \/ \A k \in Stops : At(k) <= u => k \in lost
            \/ \A k \in Stops : u < At(k) => k \in lost
        BY <1>6, <2>4, <3>2
      <4> QED
        BY <4>1, <4>2, <4>3, <4>4
    <3> QED
      BY <1>13, <3>1, <3>2
  <2> QED
    BY <1>1, <2>4 DEF IntervalsReplaced, Lies
<1>24. ForcedOmitted'
  <2>1. ASSUME NEW p \in 1 .. Settled', NEW k \in Within(intervals[p]), availability[k] = "forced"
        PROVE  k \in omitted'
    <3>1. CASE p \in 1 .. next - 1
      BY <1>8, <1>13, <1>14, <2>1, <3>1 DEF ForcedOmitted
    <3>2. CASE p = next
      BY <1>7, <1>8, <2>1, <3>2
    <3> QED
      BY <1>13, <3>1, <3>2
  <2> QED
    BY <1>1, <2>1 DEF ForcedOmitted
<1>25. RequiredKept'
  BY <1>1, <1>7, <1>8, <1>14 DEF RequiredKept
<1>26. Settled' \in 0 .. Len(intervals')
  BY <1>1, <1>2, <1>13
<1>27. ReplacementsInv'
  BY <1>20, <1>21, <1>22, <1>23, <1>24, <1>25, <1>26 DEF ReplacementsInv
<1>28. NothingYet' /\ PathsInv' /\ AnswersInv' /\ NeverFailsInternally'
  BY <1>1, <1>2 DEF PlanInv, NothingYet, PathsInv, AnswersInv, NeverFailsInternally
<1> QED
  BY <1>17, <1>18, <1>19, <1>27, <1>28 DEF StepInv

-----------------------------------------------------------------------------
(* The sewing.  The replacements are sorted as they are.                    *)
LEMMA AlreadyOrdered ==
  ASSUME TypeOK, SeparateReplacements
  PROVE  Ordered = replacements
<1> DEFINE r == Len(replacements)
           Both == [start : Location, end : Location]
<1>1. r \in Nat /\ DOMAIN replacements = 1 .. r /\ replacements \in Seq(Both)
  BY DEF TypeOK
<1>2. \A n \in 1 .. r : replacements[n].start \in Nat /\ replacements[n].end \in Nat
  <2>1. \A n \in 1 .. r : replacements[n] \in Both
    <3> HIDE DEF Both
    <3> QED
      BY <1>1, ElementOfSeq
  <2>2. Location \subseteq Nat
    BY RouteEndType DEF Location
  <2> QED
    BY <2>1, <2>2
<1>3. /\ \A n \in 1 .. r : replacements[n].start < replacements[n].end
      /\ \A m, n \in 1 .. r : m < n => replacements[m].end <= replacements[n].start
  BY DEF SeparateReplacements
<1> HIDE DEF r
<1>4. \A m, n \in 1 .. r : m < n => replacements[m].start < replacements[n].start
  <2> SUFFICES ASSUME NEW m \in 1 .. r, NEW n \in 1 .. r, m < n
               PROVE  replacements[m].start < replacements[n].start
    OBVIOUS
  <2>1. replacements[m].start < replacements[m].end /\ replacements[m].end <= replacements[n].start
    BY <1>3
  <2>2. replacements[m].start \in Nat /\ replacements[m].end \in Nat /\ replacements[n].start \in Nat
    BY <1>2
  <2> QED
    BY <2>1, <2>2
<1>5. ASSUME NEW m \in 1 .. r, NEW n \in 1 .. r PROVE Precedes(m, n) <=> m < n
  <2>1. CASE m < n
    BY <1>4, <2>1 DEF Precedes
  <2>2. CASE n < m
    <3>1. replacements[n].start < replacements[m].start
      BY <1>4, <2>2
    <3>2. replacements[m].start \in Nat /\ replacements[n].start \in Nat
      BY <1>2
    <3>3. ~ (replacements[m].start < replacements[n].start) /\ replacements[m].start # replacements[n].start
      BY <3>1, <3>2
    <3>4. ~ (m < n)
      BY <1>1, <2>2
    <3> QED
      BY <3>3, <3>4 DEF Precedes
  <2>3. CASE m = n
    <3>1. replacements[n].start \in Nat /\ replacements[n].end \in Nat
      BY <1>2
    <3>2. /\ ~ (replacements[n].start < replacements[n].start)
          /\ ~ (replacements[n].end < replacements[n].end)
          /\ ~ (n < n)
      BY <1>1, <3>1
    <3> QED
      BY <2>3, <3>2 DEF Precedes
  <2> QED
    BY <1>1, <2>1, <2>2, <2>3
<1>6. ASSUME NEW n \in DOMAIN replacements
      PROVE  Cardinality({m \in DOMAIN replacements : Precedes(m, n)}) = n - 1
  <2>1. {m \in DOMAIN replacements : Precedes(m, n)} = {m \in 1 .. r : m < n}
    BY <1>1, <1>5
  <2>2. {m \in 1 .. r : m < n} = 1 .. n - 1
    BY <1>1
  <2>3. 1 \in Int /\ n - 1 \in Int
    BY <1>1
  <2>4. Cardinality(1 .. n - 1) = IF 1 > n - 1 THEN 0 ELSE n - 1 - 1 + 1
    BY <2>3, FS_Interval
  <2>5. Cardinality(1 .. n - 1) = n - 1
    <3>1. n \in Nat /\ n >= 1 /\ (1 > n - 1 => n - 1 = 0) /\ n - 1 - 1 + 1 = n - 1
      BY <1>1
    <3> QED
      BY <2>4, <3>1
  <2> QED
    BY <2>1, <2>2, <2>5
<1>7. ASSUME NEW k \in DOMAIN replacements PROVE Ordered[k] = replacements[k]
  <2> DEFINE P(n) == Cardinality({m \in DOMAIN replacements : Precedes(m, n)}) = k - 1
  <2>1. P(k)
    BY <1>6
  <2>2. \A n \in DOMAIN replacements : P(n) => n = k
    <3> SUFFICES ASSUME NEW n \in DOMAIN replacements, P(n) PROVE n = k
      OBVIOUS
    <3>1. n - 1 = k - 1
      BY <1>6
    <3> QED
      BY <1>1, <3>1
  <2>3. Ordered[k] = replacements[CHOOSE n \in DOMAIN replacements : P(n)]
    BY DEF Ordered
  <2> HIDE DEF P
  <2>4. (CHOOSE n \in DOMAIN replacements : P(n)) = k
    BY <2>1, <2>2
  <2> QED
    BY <2>3, <2>4
<1>8. Ordered = [k \in DOMAIN replacements |-> Ordered[k]]
  BY DEF Ordered
<1>9. Ordered = [k \in DOMAIN replacements |-> replacements[k]]
  BY <1>7, <1>8
<1> QED
  BY <1>1, <1>9

(* Consecutive stops of the variant.                                        *)
LEMMA KeptStops ==
  ASSUME TypeOK
  PROVE  /\ Len(Kept) \in Nat
         /\ \A i \in 1 .. Len(Kept) : Kept[i] \in Stops /\ Kept[i] \notin omitted
         /\ \A i \in 1 .. Len(Kept) - 1 : /\ i \in 1 .. Len(Kept) /\ i + 1 \in 1 .. Len(Kept)
                                          /\ At(Kept[i]) < At(Kept[i + 1])
<1> DEFINE S == Stops \ omitted
<1>1. S \subseteq Nat /\ IsFiniteSet(S)
  <2>1. 0 \in Int /\ StopCount - 1 \in Int
    BY PlanAssumption
  <2>2. IsFiniteSet(0 .. StopCount - 1)
    BY <2>1, FS_Interval
  <2> QED
    BY <2>1, <2>2, FS_Subset DEF Stops
<1>2. /\ Cardinality(S) \in Nat /\ Ascending(S) \in Seq(S) /\ Len(Ascending(S)) = Cardinality(S)
      /\ \A i, j \in 1 .. Cardinality(S) : i < j => Ascending(S)[i] < Ascending(S)[j]
  <2> HIDE DEF S
  <2> QED
    BY <1>1, AscendingIsSorted
<1>3. Kept = Ascending(S)
  BY DEF Kept
<1>4. Kept \in Seq(S) /\ Len(Kept) \in Nat
      /\ \A i, j \in 1 .. Len(Kept) : i < j => Kept[i] < Kept[j]
  BY <1>2, <1>3
<1>5. \A i \in 1 .. Len(Kept) : Kept[i] \in S
  <2> HIDE DEF S
  <2> QED
    BY <1>4, ElementOfSeq
<1>6. ASSUME NEW i \in 1 .. Len(Kept) - 1
      PROVE  /\ i \in 1 .. Len(Kept) /\ i + 1 \in 1 .. Len(Kept)
             /\ At(Kept[i]) < At(Kept[i + 1])
  <2>1. i \in 1 .. Len(Kept) /\ i + 1 \in 1 .. Len(Kept) /\ i < i + 1
    BY <1>4
  <2>2. Kept[i] < Kept[i + 1] /\ Kept[i] \in Nat /\ Kept[i + 1] \in Nat
    BY <1>1, <1>4, <1>5, <2>1
  <2> QED
    BY <2>1, <2>2, AtOrder
<1> QED
  BY <1>4, <1>5, <1>6

(* Every interval has its replacements.                                     *)
AllSettled ==
  /\ TypeOK /\ PiecesInv /\ IntervalsInv /\ MergedPieces = Len(pieces)
  /\ SeparateReplacements /\ NoKeptStopInside
  /\ \A n \in 1 .. Len(replacements) :
       \E p \in 1 .. Len(intervals) :
         intervals[p].entry <= replacements[n].start /\ replacements[n].end <= intervals[p].exit
  /\ \A p \in 1 .. Len(intervals) : \A u \in RouteParts :
       Lies(u, intervals[p]) => ReplacedPart(u) \/ NoneKeptUpTo(u) \/ NoneKeptAfter(u)

LEMMA AllAreSettled ==
  ASSUME PlanInv, phase \in {"sew", "compare"} \/ answer = "variant"
  PROVE  AllSettled
<1>1. phase \notin {"merge", "select"}
  BY DEF PlanInv, AnswersInv
<1>2. Selecting /\ Settled = Len(intervals) /\ MergedPieces = Len(pieces)
  BY <1>1 DEF Selecting, Settled, MergedPieces
<1> QED
  BY <1>2 DEF PlanInv, ReplacementsInv, ReplacementsInside, IntervalsReplaced, AllSettled

LEMMA InsideIsIntervals ==
  ASSUME AllSettled
  PROVE  /\ Inside \subseteq RouteParts
         /\ \A u \in RouteParts :
              u \in Inside <=> \E p \in 1 .. Len(intervals) : Lies(u, intervals[p])
<1>1. ASSUME NEW i \in 1 .. Len(pieces)
      PROVE  pieces[i].from \in RouteParts /\ Span(pieces[i].from, pieces[i].to) = {pieces[i].from}
  <2>1. pieces[i].from \in RouteParts /\ pieces[i].to = pieces[i].from + 1
    BY DEF AllSettled, PiecesInv
  <2>2. pieces[i].from \in Nat
    BY <2>1, SegmentIsStop
  <2> DEFINE x == pieces[i].from
  <2> HIDE DEF x
  <2>3. x \in Nat => x .. (x + 1) - 1 = {x}
    OBVIOUS
  <2> QED
    BY <2>1, <2>2, <2>3 DEF Span, x
<1>2. \A u : u \in Inside <=> \E i \in 1 .. Len(pieces) : pieces[i].from = u
  BY <1>1 DEF Inside
<1>3. \A u \in RouteParts : (\E p \in 1 .. Len(intervals) : Lies(u, intervals[p]))
                              <=> \E i \in 1 .. Len(pieces) : pieces[i].from = u
  BY DEF AllSettled, IntervalsInv
<1> QED
  BY <1>1, <1>2, <1>3

(* The replacements between two stops of the variant lie between them, one  *)
(* after the other.                                                         *)
LEMMA TakenReplacements ==
  ASSUME AllSettled, NEW k \in Stops \ omitted, NEW l \in Stops \ omitted
  PROVE  LET taken == Between(k, l)
         IN /\ Len(taken) \in Nat /\ DOMAIN taken = 1 .. Len(taken)
            /\ \A i \in 1 .. Len(taken) : /\ taken[i].start \in Nat /\ taken[i].end \in Nat
                                          /\ taken[i].start < taken[i].end
                                          /\ At(k) <= taken[i].start /\ taken[i].end <= At(l)
            /\ \A i, j \in 1 .. Len(taken) : i < j => taken[i].end <= taken[j].start
            /\ \A i \in 1 .. Len(taken) : \E n \in 1 .. Len(replacements) : taken[i] = replacements[n]
            /\ \A n \in 1 .. Len(replacements) :
                 At(k) < replacements[n].end /\ replacements[n].start < At(l) =>
                   \E i \in 1 .. Len(taken) : taken[i] = replacements[n]
<1> DEFINE r == Len(replacements)
           Both == [start : Location, end : Location]
           chosen == {n \in 1 .. r : replacements[n].end > At(k) /\ replacements[n].start < At(l)}
           order == Ascending(chosen)
           c == Cardinality(chosen)
           taken == Between(k, l)
<1>1. r \in Nat /\ DOMAIN replacements = 1 .. r /\ replacements \in Seq(Both)
  BY DEF AllSettled, TypeOK
<1>2. \A n \in 1 .. r : replacements[n].start \in Nat /\ replacements[n].end \in Nat
  <2>1. \A n \in 1 .. r : replacements[n] \in Both
    <3> HIDE DEF Both
    <3> QED
      BY <1>1, ElementOfSeq
  <2>2. Location \subseteq Nat
    BY RouteEndType DEF Location
  <2> QED
    BY <2>1, <2>2
<1>3. Ordered = replacements
  BY AlreadyOrdered DEF AllSettled
<1>4. chosen \subseteq Nat /\ chosen \subseteq 1 .. r /\ IsFiniteSet(chosen)
  <2>1. 1 \in Int /\ r \in Int
    BY <1>1
  <2>2. IsFiniteSet(1 .. r)
    BY <2>1, FS_Interval
  <2>3. chosen \subseteq 1 .. r /\ 1 .. r \subseteq Nat
    BY <1>1
  <2> HIDE DEF chosen, r
  <2> QED
    BY <2>2, <2>3, FS_Subset
<1>5. /\ c \in Nat /\ order \in Seq(chosen) /\ Len(order) = c
      /\ \A i, j \in 1 .. c : i < j => order[i] < order[j]
      /\ \A n \in chosen : \E i \in 1 .. c : order[i] = n
  <2> HIDE DEF chosen
  <2> QED
    BY <1>4, AscendingIsSorted
<1>6. taken = [i \in 1 .. c |-> replacements[order[i]]]
  <2>1. chosen = {n \in DOMAIN Ordered : Ordered[n].end > At(k) /\ Ordered[n].start < At(l)}
    BY <1>1, <1>3
  <2>2. DOMAIN order = 1 .. c
    BY <1>5
  <2>3. taken = [i \in DOMAIN order |-> Ordered[order[i]]]
    BY <2>1 DEF Between, Filtered
  <2> HIDE DEF order, chosen, taken
  <2> QED
    BY <1>3, <2>2, <2>3
<1>7. \A i \in 1 .. c : order[i] \in chosen
  <2> HIDE DEF chosen
  <2> QED
    BY <1>5
<1> HIDE DEF taken, order, c, r
<1>8. Len(taken) = c /\ DOMAIN taken = 1 .. c /\ \A i \in 1 .. c : taken[i] = replacements[order[i]]
  BY <1>5, <1>6
<1>9. ASSUME NEW n \in chosen
      PROVE  /\ n \in 1 .. r /\ replacements[n].start < replacements[n].end
             /\ At(k) <= replacements[n].start /\ replacements[n].end <= At(l)
  <2>1. n \in 1 .. r /\ At(k) < replacements[n].end /\ replacements[n].start < At(l)
    <3>1. n \in 1 .. r /\ replacements[n].end > At(k) /\ replacements[n].start < At(l)
      OBVIOUS
    <3>2. replacements[n].end \in Nat /\ At(k) \in Nat
      BY <1>2, <3>1, AtType, StopsAreOnTheRoute
    <3> QED
      BY <3>1, <3>2
  <2>2. ~ (replacements[n].start < At(k)) /\ ~ (At(l) < replacements[n].end)
    BY <2>1 DEF AllSettled, NoKeptStopInside, r
  <2>3. At(k) \in Nat /\ At(l) \in Nat
    BY AtType, StopsAreOnTheRoute
  <2>4. replacements[n].start < replacements[n].end
    BY <2>1 DEF AllSettled, SeparateReplacements, r
  <2>5. replacements[n].start \in Nat /\ replacements[n].end \in Nat
    BY <1>2, <2>1 DEF r
  <2> QED
    BY <2>1, <2>2, <2>3, <2>4, <2>5
<1>10. \A i \in 1 .. c : /\ order[i] \in 1 .. r
                         /\ taken[i].start \in Nat /\ taken[i].end \in Nat
                         /\ taken[i].start < taken[i].end
                         /\ At(k) <= taken[i].start /\ taken[i].end <= At(l)
  BY <1>2, <1>7, <1>8, <1>9 DEF r
<1>11. \A i, j \in 1 .. c : i < j => taken[i].end <= taken[j].start
  <2> SUFFICES ASSUME NEW i \in 1 .. c, NEW j \in 1 .. c, i < j
               PROVE  taken[i].end <= taken[j].start
    OBVIOUS
  <2>1. order[i] < order[j] /\ order[i] \in 1 .. r /\ order[j] \in 1 .. r
    BY <1>5, <1>10
  <2> QED
    BY <1>8, <2>1 DEF AllSettled, SeparateReplacements, r
<1>12. ASSUME NEW n \in 1 .. r, At(k) < replacements[n].end, replacements[n].start < At(l)
       PROVE  \E i \in 1 .. c : taken[i] = replacements[n]
  <2>1. At(k) \in Nat /\ replacements[n].end \in Nat
    BY <1>2, AtType, StopsAreOnTheRoute DEF r
  <2>2. replacements[n].end > At(k)
    BY <1>12, <2>1
  <2>3. n \in chosen
    BY <1>12, <2>2 DEF r
  <2> QED
    BY <1>5, <1>8, <2>3
<1>13. \A i \in 1 .. c : \E n \in 1 .. r : taken[i] = replacements[n]
  BY <1>8, <1>10
<1> QED
  BY <1>5, <1>8, <1>10, <1>11, <1>12, <1>13 DEF r, taken

(* The path from one stop of the variant to the next is the original route  *)
(* outside the search area and the replacements inside, and nothing else.   *)
LEMMA PathIsExact ==
  ASSUME AllSettled, NEW k \in Stops \ omitted, NEW l \in Stops \ omitted, At(k) < At(l)
  PROVE  LET path == PathOf(k, l)
             stretch == Span(At(k), At(l))
             Replaced(r) == Span(r.start, r.end)
         IN /\ ~ Crosses(k, l)
            /\ Covered({Span(s.from, s.to) : s \in path.originals}) = stretch \ Inside
            /\ Covered({Replaced(r) : r \in path.detours}) = stretch \cap Inside
            /\ \A r, s \in path.detours : r # s => Replaced(r) \cap Replaced(s) = {}
<1> DEFINE path == PathOf(k, l)
           taken == Between(k, l)
           c == Len(taken)
           stretch == Span(At(k), At(l))
           Cursor(i) == IF i = 0 THEN At(k) ELSE taken[i].end
           Until(i) == IF i = c THEN At(l) ELSE taken[i + 1].start
<1>1. /\ c \in Nat /\ DOMAIN taken = 1 .. c
      /\ \A i \in 1 .. c : /\ taken[i].start \in Nat /\ taken[i].end \in Nat
                           /\ taken[i].start < taken[i].end
                           /\ At(k) <= taken[i].start /\ taken[i].end <= At(l)
      /\ \A i, j \in 1 .. c : i < j => taken[i].end <= taken[j].start
      /\ \A i \in 1 .. c : \E n \in 1 .. Len(replacements) : taken[i] = replacements[n]
      /\ \A n \in 1 .. Len(replacements) :
           At(k) < replacements[n].end /\ replacements[n].start < At(l) =>
             \E i \in 1 .. c : taken[i] = replacements[n]
  BY TakenReplacements
<1>2. /\ path.from = k /\ path.to = l /\ path.detours = {taken[i] : i \in 1 .. c}
      /\ path.originals = {[from |-> Cursor(i), to |-> Until(i)] : i \in 0 .. c}
  <2>1. ToSet(taken) = {taken[i] : i \in 1 .. c}
    BY <1>1 DEF ToSet
  <2> QED
    BY <2>1 DEF PathOf
<1>3. /\ At(k) \in Nat /\ At(l) \in Nat /\ At(l) <= RouteEnd /\ RouteEnd \in Nat
      /\ k \in Stops /\ l \in Stops /\ k \notin omitted /\ l \notin omitted
  BY StopsAreOnTheRoute, AtType, RouteEndType DEF Location
<1> HIDE DEF c, taken, path
<1>4. \A u : u \in stretch <=> u \in Int /\ At(k) <= u /\ u < At(l)
  BY <1>3 DEF Span
<1>5. stretch \subseteq RouteParts /\ RouteParts \subseteq Nat
  BY <1>3 DEF Span, RouteParts
<1>6. \A i \in 0 .. c : /\ i # 0 => i \in 1 .. c
                        /\ i # c => i + 1 \in 1 .. c
  BY <1>1
<1>7. \A i \in 0 .. c : /\ Cursor(i) \in Nat /\ Until(i) \in Nat
                        /\ At(k) <= Cursor(i) /\ Until(i) <= At(l) /\ Cursor(i) <= Until(i)
  <2> SUFFICES ASSUME NEW i \in 0 .. c
               PROVE  /\ Cursor(i) \in Nat /\ Until(i) \in Nat
                      /\ At(k) <= Cursor(i) /\ Until(i) <= At(l) /\ Cursor(i) <= Until(i)
    OBVIOUS
  <2>1. CASE i = 0 /\ i = c
    BY <1>3, <2>1
  <2>2. CASE i = 0 /\ i # c
    <3>1. i + 1 \in 1 .. c
      BY <1>6, <2>2
    <3>2. /\ taken[i + 1].start \in Nat /\ taken[i + 1].end \in Nat
          /\ taken[i + 1].start < taken[i + 1].end
          /\ At(k) <= taken[i + 1].start /\ taken[i + 1].end <= At(l)
      BY <1>1, <3>1
    <3> QED
      BY <1>3, <2>2, <3>2
  <2>3. CASE i # 0 /\ i = c
    <3>1. /\ taken[i].start \in Nat /\ taken[i].end \in Nat /\ taken[i].start < taken[i].end
          /\ At(k) <= taken[i].start /\ taken[i].end <= At(l)
      BY <1>1, <1>6, <2>3
    <3> QED
      BY <1>3, <2>3, <3>1
  <2>4. CASE i # 0 /\ i # c
    <3>1. i \in 1 .. c /\ i + 1 \in 1 .. c /\ i < i + 1
      BY <1>6, <2>4
    <3>2. /\ taken[i].start \in Nat /\ taken[i].end \in Nat /\ taken[i].start < taken[i].end
          /\ At(k) <= taken[i].start
          /\ taken[i + 1].start \in Nat /\ taken[i + 1].end \in Nat
          /\ taken[i + 1].start < taken[i + 1].end /\ taken[i + 1].end <= At(l)
          /\ taken[i].end <= taken[i + 1].start
      BY <1>1, <3>1
    <3> QED
      BY <1>3, <2>4, <3>2
  <2> QED
    BY <2>1, <2>2, <2>3, <2>4
<1>8. ~ Crosses(k, l)
  <2>1. \A r \in path.detours : ~ (r.start < At(k) \/ r.end > At(l))
    BY <1>1, <1>2, <1>3
  <2>2. \A s \in path.originals : ~ (s.from > s.to)
    <3> SUFFICES ASSUME NEW i \in 0 .. c PROVE ~ (Cursor(i) > Until(i))
      BY <1>2
    <3> HIDE DEF Cursor, Until
    <3> QED
      BY <1>7
  <2> QED
    BY <2>1, <2>2 DEF Crosses, path
(* A part of the stretch is inside the search area if it is replaced.       *)
<1>9. ASSUME NEW u \in stretch
      PROVE  u \in Inside <=> \E i \in 1 .. c : taken[i].start <= u /\ u < taken[i].end
  <2>1. u \in RouteParts /\ u \in Nat /\ At(k) <= u /\ u < At(l)
    BY <1>4, <1>5
  <2>2. ASSUME u \in Inside PROVE \E i \in 1 .. c : taken[i].start <= u /\ u < taken[i].end
    <3>1. PICK p \in 1 .. Len(intervals) : Lies(u, intervals[p])
      BY <2>1, <2>2, InsideIsIntervals
    <3>2. ReplacedPart(u) \/ NoneKeptUpTo(u) \/ NoneKeptAfter(u)
      BY <2>1, <3>1 DEF AllSettled
    <3>3. ~ NoneKeptUpTo(u) /\ ~ NoneKeptAfter(u)
      BY <1>3, <2>1 DEF NoneKeptUpTo, NoneKeptAfter
    <3>4. PICK n \in 1 .. Len(replacements) : replacements[n].start <= u /\ u < replacements[n].end
      BY <3>2, <3>3 DEF ReplacedPart
    <3>5. replacements[n].start \in Nat /\ replacements[n].end \in Nat
      <4> DEFINE Both == [start : Location, end : Location]
      <4>1. replacements \in Seq(Both)
        BY DEF AllSettled, TypeOK
      <4> HIDE DEF Both
      <4>2. replacements[n] \in Both
        BY <4>1, ElementOfSeq
      <4> QED
        BY <4>2, RouteEndType DEF Both, Location
    <3>6. At(k) < replacements[n].end /\ replacements[n].start < At(l)
      BY <1>3, <2>1, <3>4, <3>5
    <3> QED
      BY <1>1, <3>4, <3>6
  <2>3. ASSUME NEW i \in 1 .. c, taken[i].start <= u, u < taken[i].end PROVE u \in Inside
    <3>1. PICK n \in 1 .. Len(replacements) : taken[i] = replacements[n]
      BY <1>1
    <3>2. PICK p \in 1 .. Len(intervals) : /\ intervals[p].entry <= taken[i].start
                                           /\ taken[i].end <= intervals[p].exit
      BY <3>1 DEF AllSettled
    <3>3. intervals[p].entry \in Nat /\ intervals[p].exit \in Nat
      <4> DEFINE I == [entry : Location, exit : Location]
      <4>1. intervals \in Seq(I)
        BY DEF AllSettled, TypeOK
      <4> HIDE DEF I
      <4>2. intervals[p] \in I
        BY <4>1, ElementOfSeq
      <4> QED
        BY <4>2, RouteEndType DEF I, Location
    <3>4. Lies(u, intervals[p])
      <4>1. taken[i].start \in Nat /\ taken[i].end \in Nat
        BY <1>1
      <4>2. u \in Nat /\ taken[i].start <= u /\ u < taken[i].end
        BY <2>1, <2>3
      <4> DEFINE a == intervals[p].entry
                 b == taken[i].start
                 e == taken[i].end
                 x == intervals[p].exit
      <4>3. a \in Nat /\ b \in Nat /\ e \in Nat /\ x \in Nat /\ u \in Nat
            /\ a <= b /\ b <= u /\ u < e /\ e <= x
        BY ONLY <3>2, <3>3, <4>1, <4>2
      <4> HIDE DEF a, b, e, x
      <4>4. a <= u /\ u < x
        BY ONLY <4>3
      <4> QED
        BY ONLY <4>4 DEF Lies, a, x
    <3> QED
      BY <2>1, <3>4, InsideIsIntervals
  <2> QED
    BY <2>2, <2>3
(* What is kept of the original lies between two replacements in a row.     *)
<1>10. ASSUME NEW u \in stretch, u \in Inside, NEW i \in 0 .. c, Cursor(i) <= u, u < Until(i)
       PROVE  FALSE
  <2>1. PICK j \in 1 .. c : taken[j].start <= u /\ u < taken[j].end
    BY <1>9, <1>10
  <2>2. u \in Nat /\ taken[j].start \in Nat /\ taken[j].end \in Nat
    BY <1>1, <1>5
  <2>3. CASE j <= i
    <3>1. i \in 1 .. c /\ Cursor(i) = taken[i].end /\ taken[i].end \in Nat /\ taken[i].start \in Nat
      BY <1>1, <1>6, <2>3
    <3>2. taken[j].end <= taken[i].end
      <4>1. CASE j = i
        BY <2>2, <4>1
      <4>2. CASE j < i
        <5>1. taken[j].end <= taken[i].start /\ taken[i].start < taken[i].end
          BY <1>1, <3>1, <4>2
        <5> QED
          BY <2>2, <3>1, <5>1
      <4> QED
        BY <1>1, <2>3, <4>1, <4>2
    <3> QED
      BY <1>10, <2>1, <2>2, <3>1, <3>2
  <2>4. CASE i < j
    <3>1. i # c /\ i + 1 \in 1 .. c /\ Until(i) = taken[i + 1].start
      BY <1>1, <1>6, <2>4
    <3>2. taken[i + 1].start <= taken[j].start
      <4>1. i + 1 = j \/ i + 1 < j
        BY <1>1, <2>4
      <4>2. CASE i + 1 = j
        BY <2>2, <4>2
      <4>3. CASE i + 1 < j
        <5>1. taken[i + 1].end <= taken[j].start /\ taken[i + 1].start < taken[i + 1].end
              /\ taken[i + 1].start \in Nat /\ taken[i + 1].end \in Nat
          BY <1>1, <3>1, <4>3
        <5> QED
          BY <2>2, <5>1
      <4> QED
        BY <4>1, <4>2, <4>3
    <3>3. taken[i + 1].start \in Nat
      BY <1>1, <3>1
    <3> QED
      BY <1>10, <2>1, <2>2, <3>1, <3>2, <3>3
  <2> QED
    BY <1>1, <2>3, <2>4
<1>11. ASSUME NEW u \in stretch, u \notin Inside
       PROVE  \E i \in 0 .. c : Cursor(i) <= u /\ u < Until(i)
  <2> DEFINE T == {i \in 0 .. c : u < Until(i)}
  <2>1. u \in Nat /\ At(k) <= u /\ u < At(l)
    BY <1>4, <1>5
  <2>2. c \in T /\ T \subseteq Nat
    <3>1. c \in 0 .. c /\ Until(c) = At(l)
      BY <1>1
    <3> QED
      BY <2>1, <3>1
  <2>3. PICK i \in T : \A j \in T : i <= j
    BY <2>2, LeastNatural
  <2>4. Cursor(i) <= u
    <3>1. CASE i = 0
      BY <2>1, <3>1
    <3>2. CASE i # 0
      <4>1. i \in 1 .. c /\ i - 1 \in 0 .. c /\ i - 1 # c /\ (i - 1) + 1 = i /\ ~ (i <= i - 1)
        BY <1>1, <3>2
      <4>2. ~ (u < Until(i - 1))
        BY <2>3, <4>1
      <4>3. Until(i - 1) = taken[i].start
        BY <4>1
      <4>4. ~ (taken[i].start <= u /\ u < taken[i].end)
        BY <1>9, <1>11, <4>1
      <4>5. taken[i].start \in Nat /\ taken[i].end \in Nat
        BY <1>1, <4>1
      <4>6. taken[i].end <= u
        BY <2>1, <4>2, <4>3, <4>4, <4>5
      <4> QED
        BY <3>2, <4>6
    <3> QED
      BY <3>1, <3>2
  <2> QED
    BY <2>3, <2>4
<1>12. \A i \in 0 .. c : \A u : u \in Span(Cursor(i), Until(i)) <=> u \in Int /\ Cursor(i) <= u /\ u < Until(i)
  <2> HIDE DEF Cursor, Until
  <2> QED
    BY <1>7 DEF Span
<1>13. \A i \in 1 .. c : \A u : u \in Span(taken[i].start, taken[i].end)
                                  <=> u \in Int /\ taken[i].start <= u /\ u < taken[i].end
  BY <1>1 DEF Span
<1>14. \A i \in 0 .. c : Span(Cursor(i), Until(i)) \subseteq stretch
  <2> SUFFICES ASSUME NEW i \in 0 .. c, NEW u \in Int, Cursor(i) <= u, u < Until(i)
               PROVE  At(k) <= u /\ u < At(l)
    <3> HIDE DEF Cursor, Until, stretch
    <3> QED
      BY <1>4, <1>12
  <2> HIDE DEF Cursor, Until
  <2> QED
    BY <1>3, <1>7
<1>15. \A i \in 1 .. c : Span(taken[i].start, taken[i].end) \subseteq stretch
  <2> SUFFICES ASSUME NEW i \in 1 .. c, NEW u \in Int, taken[i].start <= u, u < taken[i].end
               PROVE  At(k) <= u /\ u < At(l)
    BY <1>4, <1>13
  <2> QED
    BY <1>1, <1>3
<1> HIDE DEF stretch, Cursor, Until
<1>16. Covered({Span(s.from, s.to) : s \in path.originals}) = stretch \ Inside
  <2>1. {Span(s.from, s.to) : s \in path.originals} = {Span(Cursor(i), Until(i)) : i \in 0 .. c}
    <3> DEFINE Slice(i) == [from |-> Cursor(i), to |-> Until(i)]
    <3>1. \A i \in 0 .. c : Slice(i).from = Cursor(i) /\ Slice(i).to = Until(i)
      OBVIOUS
    <3>2. path.originals = {Slice(i) : i \in 0 .. c}
      BY <1>2
    <3> HIDE DEF Slice
    <3>3. \A s \in path.originals : \E i \in 0 .. c : Span(s.from, s.to) = Span(Cursor(i), Until(i))
      BY <3>1, <3>2
    <3>4. \A i \in 0 .. c : \E s \in path.originals : Span(s.from, s.to) = Span(Cursor(i), Until(i))
      BY <3>1, <3>2
    <3> QED
      BY <3>3, <3>4
  <2>2. UNION {Span(Cursor(i), Until(i)) : i \in 0 .. c} \subseteq stretch \ Inside
    BY <1>10, <1>12, <1>14
  <2>3. stretch \ Inside \subseteq UNION {Span(Cursor(i), Until(i)) : i \in 0 .. c}
    <3>1. stretch \subseteq Int
      BY <1>4
    <3> QED
      BY <1>11, <1>12, <3>1
  <2> QED
    BY <2>1, <2>2, <2>3 DEF Covered
<1>17. Covered({Span(r.start, r.end) : r \in path.detours}) = stretch \cap Inside
  <2>1. {Span(r.start, r.end) : r \in path.detours}
          = {Span(taken[i].start, taken[i].end) : i \in 1 .. c}
    BY <1>2
  <2>2. UNION {Span(taken[i].start, taken[i].end) : i \in 1 .. c} \subseteq stretch \cap Inside
    BY <1>9, <1>13, <1>15
  <2>3. stretch \cap Inside \subseteq UNION {Span(taken[i].start, taken[i].end) : i \in 1 .. c}
    <3>1. stretch \subseteq Int
      BY <1>4
    <3> QED
      BY <1>9, <1>13, <3>1
  <2> QED
    BY <2>1, <2>2, <2>3 DEF Covered
<1>18. ASSUME NEW i \in 1 .. c, NEW j \in 1 .. c, taken[i] # taken[j]
       PROVE  Span(taken[i].start, taken[i].end) \cap Span(taken[j].start, taken[j].end) = {}
  <2>1. i < j \/ j < i
    BY <1>1, <1>18
  <2>2. taken[i].end <= taken[j].start \/ taken[j].end <= taken[i].start
    BY <1>1, <2>1
  <2>3. /\ taken[i].start \in Nat /\ taken[i].end \in Nat
        /\ taken[j].start \in Nat /\ taken[j].end \in Nat
    BY <1>1
  <2> QED
    BY <1>13, <2>2, <2>3
<1>19. \A r, s \in path.detours : r # s => Span(r.start, r.end) \cap Span(s.start, s.end) = {}
  BY <1>2, <1>18
<1> QED
  BY <1>8, <1>16, <1>17, <1>19 DEF path, stretch

(* The sewing finds nothing to refuse, so it answers or makes the paths.    *)
LEMMA NothingRefused ==
  ASSUME PlanInv, phase = "sew"
  PROVE  ~ (Malformed \/ \E i \in 1 .. Len(Kept) - 1 : Crosses(Kept[i], Kept[i + 1]))
<1>1. AllSettled
  BY AllAreSettled
<1>2. Ordered = replacements
  BY <1>1, AlreadyOrdered DEF AllSettled
<1>3. ~ Malformed
  <2> DEFINE Both == [start : Location, end : Location]
             n == Len(replacements)
  <2>1. replacements \in Seq(Both) /\ n \in Nat
    BY DEF PlanInv, TypeOK
  <2>2. \A i \in 1 .. n : replacements[i].start \in Nat /\ replacements[i].end \in Nat
    <3>1. \A i \in 1 .. n : replacements[i] \in Both
      <4> HIDE DEF Both
      <4> QED
        BY <2>1, ElementOfSeq
    <3>2. Location \subseteq Nat
      BY RouteEndType DEF Location
    <3> QED
      BY <3>1, <3>2
  <2>3. \A i \in 1 .. n : replacements[i].start < replacements[i].end
    BY <1>1 DEF AllSettled, SeparateReplacements
  <2>4. \A i \in 1 .. n : ~ (replacements[i].start >= replacements[i].end)
    BY <2>2, <2>3
  <2>5. ASSUME NEW i \in 1 .. n, i > 1 PROVE ~ (replacements[i - 1].end > replacements[i].start)
    <3>1. i - 1 \in 1 .. n /\ i - 1 < i
      BY <2>1, <2>5
    <3>2. replacements[i - 1].end <= replacements[i].start
      BY <1>1, <3>1 DEF AllSettled, SeparateReplacements
    <3> QED
      BY <2>2, <3>1, <3>2
  <2> QED
    BY <1>2, <2>4, <2>5 DEF Malformed
<1>4. ASSUME NEW i \in 1 .. Len(Kept) - 1 PROVE ~ Crosses(Kept[i], Kept[i + 1])
  <2>1. /\ Kept[i] \in Stops \ omitted /\ Kept[i + 1] \in Stops \ omitted
        /\ At(Kept[i]) < At(Kept[i + 1])
    BY <1>1, KeptStops DEF AllSettled
  <2> QED
    BY <1>1, <2>1, PathIsExact
<1> QED
  BY <1>3, <1>4

LEMMA SewKeepsInv == ASSUME PlanInv, Sew PROVE StepInv'
<1>1. /\ phase = "sew" /\ answer = "none"
      /\ UNCHANGED <<next, pieces, intervals, availability, plans, omitted, replacements>>
  BY DEF Sew, PlanInv, AnswersInv
<1>2. CASE Len(Kept) < 2
  <2>1. answer' = "no_detour" /\ UNCHANGED paths /\ phase' = "done"
    BY <1>2 DEF Sew
  <2>2. Fail("no_detour")
    BY <1>1, <2>1 DEF Fail
  <2> QED
    BY <1>1, <2>2, FailKeepsInv DEF Errors
<1>3. CASE ~ (Len(Kept) < 2)
  <2>1. /\ paths' = [i \in 1 .. Len(Kept) - 1 |-> PathOf(Kept[i], Kept[i + 1])]
        /\ answer' = "none" /\ phase' = "compare"
    BY <1>1, <1>3, NothingRefused DEF Sew
  <2>2. TypeOK'
    BY <1>1, <2>1 DEF PlanInv, TypeOK
  <2>3. IntervalsInv'
    <3>1. IntervalsKept
      BY <1>1, <2>1 DEF IntervalsKept, MergedPieces
    <3> QED
      BY <3>1, IntervalsFrame DEF PlanInv
  <2>4. PlansInv'
    <3>1. \A p \in 1 .. Len(plans) : plans[p] = PlanOf(intervals[p])
      BY DEF PlanInv, PlansInv, PlanOf
    <3>2. Len(plans) <= Len(intervals) /\ Len(plans) = Len(intervals)
      BY <1>1 DEF PlanInv, PlansInv, Planned
    <3> QED
      BY <1>1, <2>1, <3>1, <3>2 DEF PlansInv, PlanOf, BoundaryOmitted
  <2>5. ReplacementsInv'
    <3>1. Selecting /\ ReplacementsKept
      BY <1>1, <2>1 DEF Selecting, ReplacementsKept, Settled
    <3> QED
      BY <3>1, ReplacementsFrame DEF PlanInv
  <2>6. PathsInv'
    <3>1. Kept' = Kept /\ \A k, l : PathOf(k, l)' = PathOf(k, l)
      BY <1>1, SewnFrame
    <3> QED
      BY <2>1, <3>1 DEF PathsInv
  <2>7. NothingYet' /\ AnswersInv' /\ NeverFailsInternally'
    BY <2>1 DEF NothingYet, AnswersInv, NeverFailsInternally
  <2> QED
    BY <2>2, <2>3, <2>4, <2>5, <2>6, <2>7 DEF StepInv
<1> QED
  BY <1>2, <1>3

LEMMA CompareKeepsInv == ASSUME PlanInv, Compare PROVE StepInv'
<1>1. /\ phase = "compare" /\ phase' = "done" /\ answer' = "variant"
      /\ UNCHANGED <<next, pieces, intervals, availability, plans, omitted, replacements, paths>>
  BY DEF Compare
<1>2. TypeOK'
  BY <1>1 DEF PlanInv, TypeOK
<1>3. IntervalsInv'
  <2>1. IntervalsKept
    BY <1>1 DEF IntervalsKept, MergedPieces
  <2> QED
    BY <2>1, IntervalsFrame DEF PlanInv
<1>4. PlansInv'
  <2>1. \A p \in 1 .. Len(plans) : plans[p] = PlanOf(intervals[p])
    BY DEF PlanInv, PlansInv, PlanOf
  <2>2. Len(plans) <= Len(intervals) /\ Len(plans) = Len(intervals)
    BY <1>1 DEF PlanInv, PlansInv, Planned
  <2> QED
    BY <1>1, <2>1, <2>2 DEF PlansInv, PlanOf, BoundaryOmitted
<1>5. ReplacementsInv'
  <2>1. Selecting /\ ReplacementsKept
    BY <1>1 DEF Selecting, ReplacementsKept, Settled
  <2> QED
    BY <2>1, ReplacementsFrame DEF PlanInv
<1>6. PathsInv'
  BY <1>1, PathsFrame DEF PlanInv
<1>7. NothingYet' /\ AnswersInv' /\ NeverFailsInternally'
  BY <1>1 DEF NothingYet, AnswersInv, NeverFailsInternally
<1> QED
  BY <1>2, <1>3, <1>4, <1>5, <1>6, <1>7 DEF StepInv

-----------------------------------------------------------------------------
(* The invariant is inductive.                                              *)
LEMMA StepKeepsInv == ASSUME PlanInv, Next PROVE StepInv'
<1>1. CASE Merge
  BY <1>1, MergeKeepsInv
<1>2. CASE Analyzed
  <2>1. phase = "merge" /\ next > Len(pieces) /\ Enter("traffic") /\ Moves
    BY <1>2 DEF Analyzed, Moves
  <2> QED
    BY <2>1, EnterKeepsInv
<1>3. CASE Snapshot
  <2>1. phase = "traffic" /\ Enter("build") /\ Moves
    BY <1>3 DEF Snapshot, Moves
  <2> QED
    BY <2>1, EnterKeepsInv
<1>4. CASE Build
  BY <1>4, BuildKeepsInv
<1>5. CASE Built
  <2>1. phase = "build" /\ next > Len(intervals) /\ Enter("route") /\ Moves
    BY <1>5 DEF Built, Moves
  <2> QED
    BY <2>1, EnterKeepsInv
<1>6. CASE Route
  <2>1. phase = "route" /\ Enter("select") /\ Moves
    BY <1>6 DEF Route, Moves
  <2> QED
    BY <2>1, EnterKeepsInv
<1>7. CASE PointUnmatched
  <2>1. phase = "route" /\ Fail("unmatched") /\ UNCHANGED plans
    BY <1>7 DEF PointUnmatched
  <2> QED
    BY <2>1, FailKeepsInv DEF Errors
<1>8. CASE SelectInterval
  BY <1>8, SelectIntervalKeepsInv
<1>9. CASE SelectionFails
  <2>1. phase = "select" /\ (Fail("no_detour") \/ Fail("coverage")) /\ UNCHANGED plans
    BY <1>9 DEF SelectionFails
  <2> QED
    BY <2>1, FailKeepsInv DEF Errors
<1>10. CASE Selected
  <2>1. phase = "select" /\ next > Len(plans) /\ Enter("sew") /\ Moves
    BY <1>10 DEF Selected, Moves
  <2> QED
    BY <2>1, EnterKeepsInv
<1>11. CASE Sew
  BY <1>11, SewKeepsInv
<1>12. CASE Compare
  BY <1>12, CompareKeepsInv
<1>13. CASE DependencyFails
  <2>1. phase \notin {"merge", "done"} /\ Fail("dependency") /\ UNCHANGED plans
    BY <1>13 DEF DependencyFails
  <2> QED
    BY <2>1, FailKeepsInv DEF Errors
<1> QED
  BY <1>1, <1>2, <1>3, <1>4, <1>5, <1>6, <1>7, <1>8, <1>9, <1>10, <1>11, <1>12, <1>13 DEF Next

LEMMA PlanStep == PlanInv /\ [Next]_vars => PlanInv'
<1> SUFFICES ASSUME PlanInv, [Next]_vars PROVE PlanInv'
  OBVIOUS
<1>1. PiecesInv' /\ ForcedNear'
  BY InputsKept, PiecesKept DEF PlanInv
<1>2. CASE Next
  BY <1>1, <1>2, StepKeepsInv DEF PlanInv, StepInv
<1>3. CASE UNCHANGED vars
  <2>1. UNCHANGED <<phase, next, pieces, intervals, availability, plans, omitted, replacements, paths,
                    answer>>
    BY <1>3 DEF vars
  <2>2. TypeOK'
    BY <2>1 DEF PlanInv, TypeOK
  <2>3. IntervalsInv'
    <3>1. IntervalsKept
      BY <2>1 DEF IntervalsKept, MergedPieces
    <3> QED
      BY <3>1, IntervalsFrame DEF PlanInv
  <2>4. PlansInv'
    <3>1. \A p \in 1 .. Len(plans) : plans[p] = PlanOf(intervals[p])
      BY DEF PlanInv, PlansInv, PlanOf
    <3> QED
      BY <2>1, <3>1 DEF PlanInv, PlansInv, Planned, PlanOf, BoundaryOmitted
  <2>5. ReplacementsInv'
    <3>1. Selecting' = Selecting /\ ReplacementsKept
      BY <2>1 DEF Selecting, ReplacementsKept, Settled
    <3>2. CASE Selecting
      BY <3>1, <3>2, ReplacementsFrame DEF PlanInv
    <3>3. CASE ~ Selecting
      BY <3>1, <3>3 DEF ReplacementsInv
    <3> QED
      BY <3>2, <3>3
  <2>6. PathsInv'
    <3>1. CASE phase = "compare" \/ answer = "variant"
      BY <2>1, <3>1, PathsFrame DEF PlanInv
    <3>2. CASE ~ (phase = "compare" \/ answer = "variant")
      BY <2>1, <3>2 DEF PathsInv
    <3> QED
      BY <3>1, <3>2
  <2>7. NothingYet' /\ AnswersInv' /\ NeverFailsInternally'
    BY <2>1 DEF PlanInv, NothingYet, AnswersInv, NeverFailsInternally
  <2> QED
    BY <1>1, <2>2, <2>3, <2>4, <2>5, <2>6, <2>7 DEF PlanInv
<1> QED
  BY <1>2, <1>3

(* At every step of Plan the intervals are exactly the merged pieces, apart *)
(* from one another, with one plan for each; and the replacements selected  *)
(* so far are in the order of the route, within their intervals and over no *)
(* stop that is kept.                                                       *)
THEOREM PlanInvariant == Spec => []PlanInv
<1> QED
  BY PlanInitially, PlanStep, PTL DEF Spec

-----------------------------------------------------------------------------
(* The values of Plan are of their types: no loop of it runs past the end   *)
(* of what it walks, whatever the area cut and the stops left out.          *)
THEOREM TypeCorrect == Spec => []TypeOK
<1>1. PlanInv => TypeOK
  BY DEF PlanInv
<1> QED
  BY <1>1, PlanInvariant, PTL

(* reconstructRoute never refuses what mergeInsidePieces,                   *)
(* buildIntervalPlans and Select built for it: no replacement is empty,     *)
(* overlaps another or crosses the boundary of a retained stop, and no      *)
(* slice of the original is reversed.                                       *)
THEOREM NoInternalError == Spec => []NeverFailsInternally
<1>1. PlanInv => NeverFailsInternally
  BY DEF PlanInv
<1> QED
  BY <1>1, PlanInvariant, PTL

(* intervalPairs asks the repository for every path that a selection of     *)
(* Select could use, so the answer does not depend on what it left out.     *)
THEOREM CandidatesRouted == Spec => []EveryCandidateIsRouted
<1>1. ASSUME PlanInv PROVE EveryCandidateIsRouted
  <2> DEFINE P == [nodes : Seq(Node), lost : SUBSET Stops]
  <2>1. ASSUME NEW p \in 1 .. Len(plans) PROVE Len(plans[p].nodes) \in Nat
    <3>1. plans \in Seq(P)
      BY <1>1 DEF PlanInv, TypeOK
    <3>2. plans[p] \in P
      <4> HIDE DEF P
      <4> QED
        BY <2>1, <3>1, ElementOfSeq
    <3> QED
      BY <3>2
  <2> QED
    BY <2>1, CandidatesAreRouted DEF EveryCandidateIsRouted
<1> QED
  BY <1>1, PlanInvariant, PTL

(* The variant serves every required stop, and leaves out every forced one, *)
(* be it exactly where the route enters or leaves the search area.          *)
THEOREM StopsServed == Spec => []StopsAreServed
<1>1. ASSUME PlanInv, answer = "variant", NEW k \in Stops
      PROVE  /\ availability[k] = "required" => k \notin omitted
             /\ availability[k] = "forced" => k \in omitted
  <2>1. phase = "done" /\ Selecting /\ Settled = Len(intervals)
    BY <1>1 DEF PlanInv, AnswersInv, Selecting, Settled
  <2>2. RequiredKept /\ ForcedOmitted
    BY <1>1, <2>1 DEF PlanInv, ReplacementsInv
  <2>3. ASSUME availability[k] = "forced" PROVE k \in omitted
    <3>1. PICK u \in Inside : u = At(k) - 1 \/ u = At(k)
      BY <1>1, <2>3 DEF PlanInv, ForcedNear, Touches
    <3>2. u \in RouteParts /\ \E p \in 1 .. Len(intervals) : Lies(u, intervals[p])
      BY <1>1, AllAreSettled, InsideIsIntervals
    <3>3. PICK p \in 1 .. Len(intervals) : Lies(u, intervals[p])
      BY <3>2
    <3>4. /\ intervals[p].entry \in Nat /\ intervals[p].exit \in Nat /\ At(k) \in Nat /\ u \in Nat
      <4>1. intervals[p].entry \in Location /\ intervals[p].exit \in Location
        BY <1>1, IntervalTypes
      <4>2. At(k) \in Location
        BY StopsAreOnTheRoute
      <4>3. u \in Nat
        BY <3>2, SegmentIsStop
      <4> QED
        BY <4>1, <4>2, <4>3, RouteEndType DEF Location
    <3>5. intervals[p].entry <= At(k) /\ At(k) <= intervals[p].exit
      BY <3>1, <3>3, <3>4 DEF Lies
    <3> QED
      BY <2>1, <2>2, <2>3, <3>5 DEF ForcedOmitted, Within
  <2> QED
    BY <2>2, <2>3 DEF RequiredKept
<1>2. PlanInv => StopsAreServed
  BY <1>1 DEF StopsAreServed
<1> QED
  BY <1>2, PlanInvariant, PTL

(* reconstructPath: between two stops of the variant in a row, the original *)
(* slices are the route outside the search area, all of it, and the         *)
(* replacements stand for the route inside, all of it and once.             *)
THEOREM SewingIsExact == Spec => []SewnExactly
<1>1. ASSUME PlanInv, answer = "variant", NEW i \in 1 .. Len(paths)
      PROVE  /\ i \in 1 .. Len(Kept) - 1
             /\ paths[i] = PathOf(Kept[i], Kept[i + 1])
  <2> DEFINE n == Len(Kept) - 1
             m == IF n < 0 THEN 0 ELSE n
  <2>1. n \in Int
    BY <1>1, KeptStops DEF PlanInv
  <2>2. m \in Nat /\ 1 .. m = 1 .. n
    BY <2>1
  <2>3. paths = [j \in 1 .. m |-> PathOf(Kept[j], Kept[j + 1])]
    BY <1>1, <2>2 DEF PlanInv, PathsInv
  <2> HIDE DEF m
  <2>4. Len(paths) = m
    BY <2>2, <2>3
  <2> QED
    BY <1>1, <2>2, <2>3, <2>4
<1>2. PlanInv => SewnExactly
  <2> DEFINE Exact(path) ==
        LET stretch == Span(At(path.from), At(path.to))
            Replaced(r) == Span(r.start, r.end)
        IN /\ Covered({Span(s.from, s.to) : s \in path.originals}) = stretch \ Inside
           /\ Covered({Replaced(r) : r \in path.detours}) = stretch \cap Inside
           /\ \A r, s \in path.detours : r # s => Replaced(r) \cap Replaced(s) = {}
  <2> SUFFICES ASSUME PlanInv, answer = "variant", NEW i \in 1 .. Len(paths) PROVE Exact(paths[i])
    BY DEF SewnExactly
  <2> DEFINE k == Kept[i]
             l == Kept[i + 1]
  <2>1. AllSettled
    BY AllAreSettled
  <2>2. i \in 1 .. Len(Kept) - 1 /\ paths[i] = PathOf(k, l)
    BY <1>1
  <2>3. k \in Stops \ omitted /\ l \in Stops \ omitted /\ At(k) < At(l)
    BY <2>1, <2>2, KeptStops DEF AllSettled
  <2> HIDE DEF k, l
  <2>4. PathOf(k, l).from = k /\ PathOf(k, l).to = l
    BY DEF PathOf
  <2>5. Exact(PathOf(k, l))
    BY <2>1, <2>3, <2>4, PathIsExact
  <2> HIDE DEF Exact
  <2> QED
    BY <2>2, <2>5
<1> QED
  BY <1>2, PlanInvariant, PTL
=============================================================================
