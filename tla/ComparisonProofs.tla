---------------------------- MODULE ComparisonProofs ----------------------------
(***************************************************************************)
(* Theorems about Comparison, for any calls, data, tariffs and corridors.   *)
(***************************************************************************)
EXTENDS Comparison, Collections

Places == {"called", "cells", "pairs", "radius", "global", "estimated", "failed", "charge", "charged"}

(* A goroutine of s is under way.                                           *)
Working(s) == pc[s] \in {"cells", "pairs", "radius", "global"}

(* A cancellation of the group comes from the caller, from an error that is *)
(* kept already or from Wait, when nobody works under it any more.          *)
CauseInv ==
  /\ pc \in [Sides -> Places]
  /\ context \in {"live", "canceled"} /\ group \in {"live", "canceled"}
  /\ groupErr \in Errors \cup {None}
  /\ groupErr = "canceled" => context = "canceled"
  /\ answer = "canceled" => context = "canceled"
  /\ group = "canceled" /\ groupErr = None /\ context = "live" =>
       \A s \in Sides : pc[s] \in {"estimated", "failed", "charge", "charged"}

LEMMA NoneIsNothing == None \notin Errors /\ None # "ok" /\ None # "canceled"
  BY ComparisonAssumption DEF Errors

(* What every action does to the parts CauseInv speaks of is in its control;*)
(* the estimates themselves do not matter.                                  *)
LEMMA CauseInitially == Init => CauseInv
  BY NoneIsNothing DEF Init, CauseInv, Places, Sides, Errors

LEMMA FailKeepsCause ==
  ASSUME CauseInv, NEW s \in Sides, Working(s), NEW err \in Errors, Fail(s, err),
         err = "canceled" => group = "canceled"
  PROVE  CauseInv'
<1>1. group = "live" \/ context = "canceled" \/ groupErr # None
  BY DEF CauseInv, Working
<1>2. groupErr' \in Errors /\ (groupErr' = "canceled" => context = "canceled")
  BY <1>1, NoneIsNothing DEF CauseInv, Fail, Kept, Errors
<1> QED
  BY <1>2, NoneIsNothing DEF CauseInv, Fail, Places

LEMMA StepKeepsCause ==
  ASSUME CauseInv, NEW s \in Sides, Working(s), group = "live",
         NEW next \in Places, Step(s, next)
  PROVE  CauseInv'
  BY DEF CauseInv, Step, Places

LEMMA CauseKept == CauseInv /\ [Next]_vars => CauseInv'
<1> SUFFICES ASSUME CauseInv, [Next]_vars
             PROVE  CauseInv'
  OBVIOUS
<1>1. CASE Reject
  BY <1>1 DEF Reject, CauseInv
<1>2. CASE Estimate
  BY <1>2 DEF Estimate, CauseInv, Called, Places, Sides
<1>3. CASE Wait
  BY <1>3, NoneIsNothing DEF Wait, GroupAnswer, CauseInv, Places, Sides, Errors
<1>4. ASSUME NEW s \in Sides, FindCells(s) PROVE CauseInv'
  BY <1>4, StepKeepsCause DEF FindCells, Working, Places
<1>5. ASSUME NEW s \in Sides, FindPairs(s) PROVE CauseInv'
  BY <1>5 DEF FindPairs, Step, CauseInv, Places
<1>6. ASSUME NEW s \in Sides, Widen(s) PROVE CauseInv'
  <2>1. \A left, k : AfterRadius(left, k) \in Places
    BY DEF AfterRadius, Places
  <2>2. pc[s] = "radius" /\ group = "live" /\ \E next \in Places : Step(s, next)
    BY <1>6, <2>1 DEF Widen
  <2> QED
    BY <2>2, StepKeepsCause DEF Working
<1>7. ASSUME NEW s \in Sides, FindGlobal(s) PROVE CauseInv'
  <2>1. pc[s] = "global" /\ group = "live" /\ (Step(s, "estimated") \/ Fail(s, "noReferences"))
    BY <1>7 DEF FindGlobal
  <2> QED
    BY <2>1, StepKeepsCause, FailKeepsCause DEF Working, Places, Errors
<1>8. ASSUME NEW s \in Sides, QueryFails(s) PROVE CauseInv'
  <2>1. Working(s) /\ \E err \in Errors : Fail(s, err) /\ (err = "canceled" => group = "canceled")
    BY <1>8 DEF QueryFails, QueryErrors, Working, Errors, CauseInv
  <2> QED
    BY <2>1, FailKeepsCause
<1>9. ASSUME NEW s \in Sides, Charge(s) PROVE CauseInv'
  <2>1. pc' \in [Sides -> Places] /\ answer' \in {"noTariff", "internal", "ok", None}
    BY <1>9 DEF Charge, Fault, CauseInv, Places
  <2>2. \A r \in Sides : pc[r] \in {"estimated", "failed", "charge", "charged"}
                        => pc'[r] \in {"estimated", "failed", "charge", "charged"}
    BY <1>9 DEF Charge, CauseInv
  <2>3. UNCHANGED <<context, group, groupErr>>
    BY <1>9 DEF Charge
  <2> QED
    BY <2>1, <2>2, <2>3, NoneIsNothing DEF CauseInv, Errors
<1>10. ASSUME NEW s \in Sides, ChargeFails(s) PROVE CauseInv'
  BY <1>10 DEF ChargeFails, QueryErrors, ChargingContext, CauseInv
<1>11. CASE EndContext
  BY <1>11 DEF EndContext, CauseInv
<1>12. CASE UpdateTariffs
  BY <1>12 DEF UpdateTariffs, CauseInv
<1>13. CASE UNCHANGED vars
  BY <1>13 DEF vars, CauseInv
<1> QED
  BY <1>1, <1>2, <1>3, <1>4, <1>5, <1>6, <1>7, <1>8, <1>9, <1>10, <1>11, <1>12, <1>13
  DEF Next, Goroutine, Terminated

(* No caller is told of a cancellation that is not of its own context:      *)
(* neither the errgroup's, which the other route's failure cancels, nor that*)
(* of Wait.                                                                 *)
THEOREM CausesAreReported == Spec => []CauseIsReported
<1>1. CauseInv => CauseIsReported
  BY DEF CauseInv, CauseIsReported
<1> QED
  BY CauseInitially, CauseKept, <1>1, PTL DEF Spec

(* Once the caller's context has ended the call does not succeed.           *)
THEOREM CancelledCallsFail == Spec => CancellationStops
<1>1. CauseInv /\ [Next]_vars => [context = "canceled" => answer' # "ok"]_<<answer>>
  <2> SUFFICES ASSUME CauseInv, [Next]_vars, context = "canceled", answer' # answer
               PROVE  answer' # "ok"
    OBVIOUS
  <2>1. CASE Wait
    BY <2>1, NoneIsNothing DEF Wait, GroupAnswer, CauseInv, Errors
  <2>2. ASSUME NEW s \in Sides, Charge(s) PROVE FALSE
    BY <2>2 DEF Charge, ChargingContext
  <2>3. ASSUME NEW s \in Sides, ChargeFails(s) PROVE answer' # "ok"
    BY <2>3 DEF ChargeFails, QueryErrors
  <2>4. ASSUME NEW s \in Sides, Goroutine(s) PROVE FALSE
    BY <2>4 DEF Goroutine, FindCells, FindPairs, Widen, FindGlobal, QueryFails, Step, Fail
  <2> QED
    BY <2>1, <2>2, <2>3, <2>4
    DEF Next, Reject, Estimate, EndContext, UpdateTariffs, Terminated, vars
<1> QED
  BY CauseInitially, CauseKept, <1>1, PTL DEF Spec, CancellationStops


-----------------------------------------------------------------------------
(* Past validation the routes are valid, the demand is of pairs of their    *)
(* stops in order, and no check of the stops has failed.                    *)
PairOf(s, p) ==
  /\ p.origin \in DOMAIN Stops(s) /\ p.destination \in DOMAIN Stops(s)
  /\ p.origin < p.destination

StopInv ==
  /\ call \in Calls
  /\ pc \in [Sides -> Places]
  /\ cells = [s \in Sides |-> cells[s]] /\ pairs = [s \in Sides |-> pairs[s]]
  /\ (\E s \in Sides : pc[s] # "called") => Accepted
  /\ \A s \in Sides : pc[s] \notin {"called", "estimated", "charged"} => s \in Running
  /\ \A s \in Sides : \A c \in cells[s] : c.stop \in DOMAIN Stops(s)
  /\ \A s \in Sides : \A p \in pairs[s] : PairOf(s, p)
  /\ groupErr # "internal"
  /\ answer # "internal"

(* What the assumption says of a valid route.                               *)
LEMMA RoutesHaveSegments ==
  ASSUME call \in Calls, NEW s \in Sides, Validate(Route(s))
  PROVE  /\ Stops(s) \in Seq(Int) /\ Len(Stops(s)) \in Nat /\ Len(Stops(s)) >= 2
         /\ DOMAIN Stops(s) = 1 .. Len(Stops(s))
         /\ DOMAIN Paths(s) = 1 .. Len(Stops(s)) - 1
<1>1. Stops(s) \in Seq(Int) /\ Paths(s) \in Seq([from : Int, to : Int, length : Int])
  BY ComparisonAssumption DEF Stops, Paths, Route
<1> QED
  BY <1>1 DEF Validate, Stops, Paths, Route

(* The segments of the result of a route are those between its stops.       *)
LEMMA SegmentsAreBetweenStops ==
  ASSUME call \in Calls, NEW s \in Sides, Validate(Route(s))
  PROVE  /\ SegmentsMatch(Stops(s), SegmentResults(s))
         /\ Len(SegmentResults(s)) = Len(Stops(s)) - 1
         /\ \A i \in 1 .. Len(Stops(s)) - 1 :
              /\ SegmentResults(s)[i].origin = Stops(s)[i]
              /\ SegmentResults(s)[i].destination = Stops(s)[i + 1]
<1> DEFINE n == Len(Stops(s)) - 1
           Segment(i) ==
             [origin |-> Stops(s)[i], destination |-> Stops(s)[i + 1], distance |-> Paths(s)[i].length,
              seconds |-> [c \in Scenarios |-> estimatedSeconds(Paths(s)[i].length, estimates[s][i].paces[c])]]
<1>1. n \in Nat /\ DOMAIN Paths(s) = 1 .. n
  BY RoutesHaveSegments
<1>2. SegmentResults(s) = [i \in 1 .. n |-> Segment(i)]
  BY <1>1 DEF SegmentResults
<1>3. \A i : Segment(i).origin = Stops(s)[i] /\ Segment(i).destination = Stops(s)[i + 1]
  OBVIOUS
<1> HIDE DEF Segment
<1>4. DOMAIN SegmentResults(s) = 1 .. n /\ Len(SegmentResults(s)) = n
  BY <1>1, <1>2
<1> QED
  BY <1>1, <1>2, <1>3, <1>4 DEF SegmentsMatch

(* So are those a detour is charged by.                                     *)
LEMMA FareSegmentsAreBetweenStops ==
  ASSUME call \in Calls, NEW s \in Running, Accepted
  PROVE  /\ Len(FareSegments(s)) = Len(Stops(s)) - 1
         /\ \A i \in 1 .. Len(Stops(s)) - 1 :
              /\ FareSegments(s)[i].origin = Stops(s)[i]
              /\ FareSegments(s)[i].destination = Stops(s)[i + 1]
<1>1. s \in Sides /\ Validate(Route(s))
  BY DEF Accepted, Running, Sides
<1>2. CASE call.kind = "detour" /\ s = "proposed"
  <2> DEFINE n == Len(Stops(s)) - 1
             Distance(i) == Between(SegmentResults("baseline"), Order(Stops("baseline"), Stops(s)[i]),
                                    Order(Stops("baseline"), Stops(s)[i + 1]))
  <2>1. n \in Nat
    BY <1>1, RoutesHaveSegments
  <2>2. FareSegments(s) =
          [i \in 1 .. n |-> [origin |-> Stops(s)[i], destination |-> Stops(s)[i + 1], distance |-> Distance(i)]]
    BY <1>2 DEF FareSegments, detourFareTravelTime
  <2> HIDE DEF Distance
  <2> QED
    BY <2>1, <2>2
<1>3. CASE ~ (call.kind = "detour" /\ s = "proposed")
  BY <1>1, <1>3, SegmentsAreBetweenStops DEF FareSegments
<1> QED
  BY <1>2, <1>3

LEMMA PairsMatch ==
  ASSUME StopInv, NEW s \in Running, Accepted, NEW p \in pairs[s]
  PROVE  PairMatches(p, Stops(s), FareSegments(s))
<1>1. s \in Sides /\ Validate(Route(s))
  BY DEF Accepted, Running, Sides
<1>2. /\ p.origin \in 1 .. Len(Stops(s)) /\ p.destination \in 1 .. Len(Stops(s))
      /\ p.origin < p.destination /\ Len(Stops(s)) \in Nat
  BY <1>1, RoutesHaveSegments DEF StopInv, PairOf
<1>3. /\ p.origin \in 1 .. Len(Stops(s)) - 1 /\ p.destination - 1 \in 1 .. Len(Stops(s)) - 1
      /\ (p.destination - 1) + 1 = p.destination
  BY <1>2
<1>4. /\ Len(FareSegments(s)) = Len(Stops(s)) - 1
      /\ FareSegments(s)[p.origin].origin = Stops(s)[p.origin]
      /\ FareSegments(s)[p.destination - 1].destination = Stops(s)[(p.destination - 1) + 1]
  BY <1>3, FareSegmentsAreBetweenStops DEF StopInv
<1> QED
  BY <1>2, <1>3, <1>4 DEF PairMatches

LEMMA DemandIsOfTheRoute ==
  ASSUME NEW stops, NEW near, NEW trips, NEW found
  PROVE  /\ \A c \in assignCells(FindCellCandidates(stops, near)) : c.stop \in DOMAIN stops
         /\ \A p \in DemandByStopPair(found, trips) :
              /\ \E c, d \in found : p.origin = c.stop /\ p.destination = d.stop
              /\ p.origin < p.destination
<1>1. \A c \in FindCellCandidates(stops, near) : c.stop \in DOMAIN stops
  BY DEF FindCellCandidates
<1>2. assignCells(FindCellCandidates(stops, near)) \subseteq FindCellCandidates(stops, near)
  BY DEF assignCells
<1>3. ASSUME NEW p \in DemandByStopPair(found, trips)
      PROVE  /\ \E c, d \in found : p.origin = c.stop /\ p.destination = d.stop
             /\ p.origin < p.destination
  BY <1>3 DEF DemandByStopPair, Downstream
<1> QED
  BY <1>1, <1>2, <1>3

LEMMA StopsInitially == Init => StopInv
  BY NoneIsNothing DEF Init, StopInv, Places, Sides, PairOf, Errors

LEMMA FailKeepsStops ==
  ASSUME StopInv, NEW s \in Sides, Working(s), NEW err \in Errors \ {"internal"}, Fail(s, err)
  PROVE  StopInv'
<1>1. groupErr' # "internal"
  BY DEF StopInv, Fail, Kept
<1>2. s \in Running /\ Accepted
  BY DEF StopInv, Working
<1> QED
  BY <1>1, <1>2 DEF StopInv, Fail, Places, Accepted, Running, Stops, Route, PairOf, data, work

LEMMA StepKeepsStops ==
  ASSUME StopInv, NEW s \in Sides, Working(s), NEW next \in Places, Step(s, next), UNCHANGED <<cells, pairs>>
  PROVE  StopInv'
<1>1. s \in Running /\ Accepted
  BY DEF StopInv, Working
<1> QED
  BY <1>1 DEF StopInv, Step, Places, Accepted, Running, Stops, Route, PairOf, data

LEMMA StopsKept == StopInv /\ [Next]_vars => StopInv'
<1> SUFFICES ASSUME StopInv, [Next]_vars
             PROVE  StopInv'
  OBVIOUS
<1>1. CASE Reject
  BY <1>1 DEF Reject, StopInv, Accepted, Running, Stops, Route, PairOf, data, work
<1>2. CASE Estimate
  BY <1>2 DEF Estimate, StopInv, Called, Places, Sides, Accepted, Running, Stops, Route, PairOf, data
<1>3. CASE Wait
  <2>1. Accepted
    BY <1>3 DEF Wait, Called, StopInv
  <2>2. ~ Mismatch
    <3>1. "baseline" \in Running /\ "baseline" \in Sides
      BY DEF Running, Sides
    <3> QED
      BY <2>1, <3>1, SegmentsAreBetweenStops DEF Mismatch, Accepted, StopInv
  <2>3. GroupAnswer # "internal"
    BY <2>2, NoneIsNothing DEF GroupAnswer, StopInv, Errors
  <2> QED
    BY <1>3, <2>1, <2>3 DEF Wait, StopInv, Places, Sides, Accepted, Running, Stops, Route, PairOf, data, work
<1>4. ASSUME NEW s \in Sides, FindCells(s) PROVE StopInv'
  <2>1. s \in Running /\ Accepted /\ call \in Calls
    BY <1>4 DEF FindCells, StopInv
  <2>2. cells' = [cells EXCEPT ![s] = assignCells(FindCellCandidates(Stops(s), database.near))]
    BY <1>4 DEF FindCells
  <2>3. \A r \in Sides : \A c \in cells'[r] : c.stop \in DOMAIN Stops(r)
    BY <2>2, DemandIsOfTheRoute DEF StopInv
  <2> QED
    BY <1>4, <2>1, <2>2, <2>3
    DEF FindCells, Step, StopInv, Places, Accepted, Running, Stops, Route, PairOf, data
<1>5. ASSUME NEW s \in Sides, FindPairs(s) PROVE StopInv'
  <2>1. s \in Running /\ Accepted /\ call \in Calls
    BY <1>5 DEF FindPairs, StopInv
  <2>2. pairs' = [pairs EXCEPT ![s] = DemandByStopPair(cells[s], database.trips)]
    BY <1>5 DEF FindPairs
  <2>3. \A p \in DemandByStopPair(cells[s], database.trips) : PairOf(s, p)
    <3> SUFFICES ASSUME NEW p \in DemandByStopPair(cells[s], database.trips) PROVE PairOf(s, p)
      OBVIOUS
    <3>1. \E c, d \in cells[s] : p.origin = c.stop /\ p.destination = d.stop
      BY DemandIsOfTheRoute
    <3>2. p.origin < p.destination
      BY DemandIsOfTheRoute
    <3> QED
      BY <3>1, <3>2 DEF StopInv, PairOf
  <2>4. \A r \in Sides : \A p \in pairs'[r] : PairOf(r, p)
    BY <2>2, <2>3 DEF StopInv
  <2> QED
    BY <1>5, <2>1, <2>2, <2>4
    DEF FindPairs, Step, StopInv, Places, Accepted, Running, Stops, Route, PairOf, data
<1>6. ASSUME NEW s \in Sides, Widen(s) PROVE StopInv'
  <2>1. \A left, k : AfterRadius(left, k) \in Places
    BY DEF AfterRadius, Places
  <2>2. pc[s] = "radius" /\ UNCHANGED <<cells, pairs>> /\ \E next \in Places : Step(s, next)
    BY <1>6, <2>1 DEF Widen
  <2> QED
    BY <2>2, StepKeepsStops DEF Working
<1>7. ASSUME NEW s \in Sides, FindGlobal(s) PROVE StopInv'
  <2>1. pc[s] = "global" /\ ((Step(s, "estimated") /\ UNCHANGED <<cells, pairs>>) \/ Fail(s, "noReferences"))
    BY <1>7 DEF FindGlobal
  <2> QED
    BY <2>1, StepKeepsStops, FailKeepsStops DEF Working, Places, Errors
<1>8. ASSUME NEW s \in Sides, QueryFails(s) PROVE StopInv'
  <2>1. Working(s) /\ \E err \in Errors \ {"internal"} : Fail(s, err)
    BY <1>8 DEF QueryFails, QueryErrors, Working, Errors
  <2> QED
    BY <2>1, FailKeepsStops
<1>9. ASSUME NEW s \in Sides, Charge(s) PROVE StopInv'
  <2>1. s \in Running /\ Accepted
    BY <1>9 DEF Charge, Turn, StopInv
  <2>2. \A bands : Fault(s, bands) # "internal"
    BY <2>1, PairsMatch, NoneIsNothing DEF Fault, Errors
  <2>3. answer' # "internal"
    BY <1>9, <2>2, NoneIsNothing DEF Charge, Errors
  <2>4. pc' = pc \/ pc' = [pc EXCEPT ![s] = "charged"]
    BY <1>9 DEF Charge
  <2>5. UNCHANGED <<call, groupErr, cells, pairs>>
    BY <1>9 DEF Charge, data, work
  <2> QED
    BY <2>1, <2>3, <2>4, <2>5 DEF StopInv, Places, Accepted, Running, Stops, Route, PairOf
<1>10. ASSUME NEW s \in Sides, ChargeFails(s) PROVE StopInv'
  BY <1>10 DEF ChargeFails, QueryErrors, StopInv, Accepted, Running, Stops, Route, PairOf, data, work
<1>11. CASE EndContext
  BY <1>11 DEF EndContext, StopInv, Accepted, Running, Stops, Route, PairOf, data, work
<1>12. CASE UpdateTariffs
  BY <1>12 DEF UpdateTariffs, StopInv, Accepted, Running, Stops, Route, PairOf, data, work
<1>13. CASE UNCHANGED vars
  BY <1>13 DEF vars, StopInv, Accepted, Running, Stops, Route, PairOf
<1> QED
  BY <1>1, <1>2, <1>3, <1>4, <1>5, <1>6, <1>7, <1>8, <1>9, <1>10, <1>11, <1>12, <1>13
  DEF Next, Goroutine, Terminated

(* Whatever routes validation accepts, the demand never names stops that the*)
(* segments charged do not have, detours that omit stops included.          *)
THEOREM StopsAlwaysMatch == Spec => []NeverFailsInternally
<1>1. StopInv => NeverFailsInternally
  BY DEF StopInv, NeverFailsInternally
<1> QED
  BY StopsInitially, StopsKept, <1>1, PTL DEF Spec

-----------------------------------------------------------------------------
(* The distance between two stops is the sum of the segments between them.  *)
LEMMA IntervalsAreFinite ==
  ASSUME NEW from \in Int, NEW to \in Int
  PROVE  IsFiniteSet(from .. to - 1)
<1>1. to - 1 \in Int
  OBVIOUS
<1> QED
  BY <1>1, FS_Interval

LEMMA BetweenIsTotal ==
  ASSUME NEW segments, NEW from \in Int, NEW to \in Int, NEW L,
         \A i \in from .. to - 1 : L[i] \in Nat /\ segments[i].distance = L[i]
  PROVE  Between(segments, from, to) = Total(L, from .. to - 1)
<1> DEFINE S == from .. to - 1
           w == [i \in S |-> segments[i].distance]
<1>1. IsFiniteSet(S)
  BY IntervalsAreFinite
<1>2. DOMAIN w = S /\ \A i \in S : w[i] = L[i] /\ w[i] \in Nat
  OBVIOUS
<1>3. Between(segments, from, to) = SumFunction(w)
  BY DEF Between
<1> HIDE DEF S, w
<1>4. SumFunction(w) = Total(w, S)
  BY <1>1, <1>2, SumOfFunction
<1>5. Total(w, S) = Total(L, S)
  BY <1>2, TotalOfEqual
<1> QED
  BY <1>3, <1>4, <1>5 DEF S

(* D is the lengths L of the steps between the places ord, which increase.  *)
Steps(D, L, ord, o, last) ==
  /\ o \in Nat /\ last \in Nat
  /\ \A i \in o .. last : ord[i] \in Nat
  /\ \A i, j \in o .. last : i < j => ord[i] < ord[j]
  /\ \A i, j \in o .. last : \A x \in ord[i] .. ord[j] - 1 : L[x] \in Nat
  /\ \A i \in o .. last - 1 : D[i] = Total(L, ord[i] .. ord[i + 1] - 1)

LEMMA StepsAddUp ==
  ASSUME NEW D, NEW L, NEW ord, NEW o, NEW last, Steps(D, L, ord, o, last), NEW d \in o .. last
  PROVE  Total(D, o .. d - 1) = Total(L, ord[o] .. ord[d] - 1)
<1> USE DEF Steps
<1> DEFINE T == {e \in o .. last : Total(D, o .. e - 1) # Total(L, ord[o] .. ord[e] - 1)}
<1> SUFFICES ASSUME T # {} PROVE FALSE
  OBVIOUS
<1>1. T \subseteq Nat
  OBVIOUS
<1>2. PICK e \in T : \A c \in T : e <= c
  BY <1>1, LeastNatural
<1>3. e # o
  <2>1. o .. o - 1 = {} /\ ord[o] .. ord[o] - 1 = {}
    BY SMTT(20)
  <2>2. Total(D, o .. o - 1) = Total(L, ord[o] .. ord[o] - 1)
    BY <2>1, TotalOfNothing
  <2> QED
    BY <2>2
<1> DEFINE c == e - 1
           A == ord[o] .. ord[c] - 1
           B == ord[c] .. ord[e] - 1
<1>4. /\ c \in o .. last /\ c \in o .. last - 1 /\ c \in Nat /\ c < e /\ c + 1 = e
      /\ e \in o .. last /\ o \in o .. last /\ ~ (e <= c)
  BY <1>3
<1>5. Total(D, o .. c - 1) = Total(L, A)
  BY <1>2, <1>4
<1>6. D[c] = Total(L, B)
  BY <1>4
<1>7. /\ ord[o] \in Nat /\ ord[c] \in Nat /\ ord[e] \in Nat
      /\ ord[c] < ord[e] /\ (c = o \/ ord[o] < ord[c])
  BY <1>4
<1>8. IsFiniteSet(A) /\ IsFiniteSet(B) /\ IsFiniteSet(o .. c - 1)
  <2>1. o \in Int /\ c \in Int /\ ord[o] \in Int /\ ord[c] \in Int /\ ord[e] \in Int
    BY <1>4, <1>7
  <2> HIDE DEF c
  <2> QED
    BY <2>1, IntervalsAreFinite
<1>9. A \cap B = {} /\ A \cup B = ord[o] .. ord[e] - 1
  <2> SUFFICES ASSUME NEW x \in Nat, NEW y \in Nat, NEW z \in Nat, y < z, x = y \/ x < y
               PROVE  /\ (x .. y - 1) \cap (y .. z - 1) = {}
                      /\ (x .. y - 1) \cup (y .. z - 1) = x .. z - 1
    <3>1. c = o => ord[c] = ord[o]
      OBVIOUS
    <3> HIDE DEF c
    <3> QED
      BY <1>7, <3>1
  <2> QED
    BY SMTT(20)
<1>10. \A x \in A \cup B : L[x] \in Nat
  BY <1>4, <1>9
<1>11. Total(L, A) \in Nat /\ Total(L, B) \in Nat
       /\ Total(L, A \cup B) = Total(L, A) + Total(L, B)
  BY ONLY <1>8, <1>9, <1>10, TotalType, TotalOfUnion
<1>12. \A i \in (o .. c - 1) \cup {c} : D[i] \in Nat
  <2> SUFFICES ASSUME NEW i \in (o .. c - 1) \cup {c} PROVE D[i] \in Nat
    OBVIOUS
  <2>1. i \in o .. last - 1 /\ i \in o .. last /\ i + 1 \in o .. last
    BY <1>4
  <2>2. D[i] = Total(L, ord[i] .. ord[i + 1] - 1) /\ \A x \in ord[i] .. ord[i + 1] - 1 : L[x] \in Nat
    BY <2>1
  <2>3. IsFiniteSet(ord[i] .. ord[i + 1] - 1)
    <3>1. ord[i] \in Int /\ ord[i + 1] \in Int
      BY <2>1
    <3> QED
      BY <3>1, IntervalsAreFinite
  <2> QED
    BY <2>2, <2>3, TotalType
<1>13. (o .. c - 1) \cup {c} = o .. e - 1 /\ c \notin o .. c - 1
  BY <1>4
<1>14. Total(D, o .. e - 1) = Total(D, o .. c - 1) + D[c]
  <2> DEFINE P == o .. c - 1
             Q == o .. e - 1
  <2>1. IsFiniteSet(P) /\ c \notin P /\ P \cup {c} = Q /\ \A i \in P \cup {c} : D[i] \in Nat
    BY <1>8, <1>12, <1>13
  <2> HIDE DEF c, P, Q
  <2>2. Total(D, P \cup {c}) = Total(D, P) + D[c]
    <3>1. IsFiniteSet({c}) /\ P \cap {c} = {} /\ D[c] \in Nat
      BY <2>1, FS_Singleton
    <3>2. Total(D, P \cup {c}) = Total(D, P) + Total(D, {c})
      BY ONLY <2>1, <3>1, TotalOfUnion
    <3> QED
      BY <3>1, <3>2, TotalOfOne
  <2>3. Total(D, Q) = Total(D, P) + D[c]
    BY <2>1, <2>2
  <2> QED
    BY <2>3 DEF P, Q
<1> HIDE DEF A, B, c
<1> QED
  BY <1>2, <1>5, <1>6, <1>9, <1>11, <1>14

(* The distances a detour is charged by, between any two of its stops, are  *)
(* those of the original route: the steps between consecutive stops add up. *)
Along(from, to) ==
  {i \in DOMAIN Paths("baseline") :
     /\ Order(Stops("baseline"), from) <= i
     /\ i < Order(Stops("baseline"), to)}

LEMMA StopsKeepTheirOrder ==
  ASSUME call \in Calls, Accepted, call.kind = "detour"
  PROVE  /\ \A i \in DOMAIN Stops("proposed") :
              Order(Stops("baseline"), Stops("proposed")[i]) \in DOMAIN Stops("baseline")
         /\ \A i, j \in DOMAIN Stops("proposed") :
              i < j => Order(Stops("baseline"), Stops("proposed")[i])
                         < Order(Stops("baseline"), Stops("proposed")[j])
<1>1. validateDetourStops(Stops("baseline"), Stops("proposed"))
  BY DEF Accepted
<1> QED
  BY <1>1 DEF validateDetourStops, Order, Range

LEMMA LengthsArePositive ==
  ASSUME call \in Calls, NEW s \in Sides, Validate(Route(s))
  PROVE  \A i \in DOMAIN Paths(s) : Paths(s)[i].length \in Nat
<1>1. \A i \in DOMAIN Paths(s) : Paths(s)[i].length > 0
  BY DEF Validate, Paths, Route
<1> DEFINE P == [from : Int, to : Int, length : Int]
<1>2. Paths(s) \in Seq(P)
  BY ComparisonAssumption DEF Paths, Route
<1>3. \A p \in P : p.length \in Int
  OBVIOUS
<1> HIDE DEF P
<1>4. \A i \in DOMAIN Paths(s) : Paths(s)[i] \in P
  BY <1>2, ElementsOf
<1> QED
  BY <1>1, <1>3, <1>4

LEMMA DetourDistances ==
  ASSUME call \in Calls, Accepted, call.kind = "detour",
         NEW o \in DOMAIN Stops("proposed"), NEW d \in DOMAIN Stops("proposed"), o < d
  PROVE  Between(FareSegments("proposed"), o, d)
           = SumFunction([i \in Along(Stops("proposed")[o], Stops("proposed")[d])
                            |-> Paths("baseline")[i].length])
<1> DEFINE n == Len(Stops("proposed"))
           m == Len(Stops("baseline"))
           ord == [i \in 1 .. n |-> Order(Stops("baseline"), Stops("proposed")[i])]
           L == [x \in 1 .. m - 1 |-> Paths("baseline")[x].length]
           D == [i \in 1 .. n - 1 |-> FareSegments("proposed")[i].distance]
<1>1. /\ "baseline" \in Sides /\ "proposed" \in Sides
      /\ Validate(Route("baseline")) /\ Validate(Route("proposed"))
  BY DEF Accepted, Running, Sides
<1>2. /\ n \in Nat /\ DOMAIN Stops("proposed") = 1 .. n
      /\ m \in Nat /\ DOMAIN Stops("baseline") = 1 .. m
      /\ DOMAIN Paths("baseline") = 1 .. m - 1
  BY <1>1, RoutesHaveSegments
<1>3. /\ \A i \in 1 .. n : ord[i] \in 1 .. m
      /\ \A i, j \in 1 .. n : i < j => ord[i] < ord[j]
  BY <1>2, StopsKeepTheirOrder
<1>4. \A x \in 1 .. m - 1 : L[x] \in Nat /\ SegmentResults("baseline")[x].distance = L[x]
  <2> SUFFICES ASSUME NEW x \in 1 .. m - 1
               PROVE  L[x] \in Nat /\ SegmentResults("baseline")[x].distance = L[x]
    OBVIOUS
  <2>1. Paths("baseline")[x].length \in Nat
    BY <1>1, <1>2, LengthsArePositive
  <2>2. SegmentResults("baseline")[x].distance = Paths("baseline")[x].length
    BY <1>2 DEF SegmentResults
  <2> QED
    BY <2>1, <2>2
<1>5. \A i \in 1 .. n - 1 : i \in 1 .. n /\ i + 1 \in 1 .. n
  BY <1>2
<1>6. \A i \in 1 .. n - 1 : D[i] = Between(SegmentResults("baseline"), ord[i], ord[i + 1])
  <2> DEFINE Distance(i) == Between(SegmentResults("baseline"),
                                    Order(Stops("baseline"), Stops("proposed")[i]),
                                    Order(Stops("baseline"), Stops("proposed")[i + 1]))
  <2>1. FareSegments("proposed") =
          [i \in 1 .. n - 1 |-> [origin |-> Stops("proposed")[i], destination |-> Stops("proposed")[i + 1],
                                 distance |-> Distance(i)]]
    BY DEF FareSegments, detourFareTravelTime
  <2>2. \A i \in 1 .. n - 1 : Distance(i) = Between(SegmentResults("baseline"), ord[i], ord[i + 1])
    BY <1>5
  <2>3. \A i \in 1 .. n - 1 : D[i] = FareSegments("proposed")[i].distance
    OBVIOUS
  <2> HIDE DEF Distance, n, ord, D
  <2>4. \A i \in 1 .. n - 1 : FareSegments("proposed")[i].distance = Distance(i)
    <3> TAKE i \in 1 .. n - 1
    <3>1. FareSegments("proposed")[i] =
            [origin |-> Stops("proposed")[i], destination |-> Stops("proposed")[i + 1],
             distance |-> Distance(i)]
      BY <2>1
    <3> QED
      BY <3>1
  <2> QED
    BY <2>2, <2>3, <2>4
<1>7. \A i, j \in 1 .. n : ord[i] \in Int /\ \A x \in ord[i] .. ord[j] - 1 : x \in 1 .. m - 1
  BY <1>2, <1>3
<1> HIDE DEF n, m, ord, L
<1>8. \A i \in 1 .. n - 1 : D[i] = Total(L, ord[i] .. ord[i + 1] - 1) /\ D[i] \in Nat
  <2> SUFFICES ASSUME NEW i \in 1 .. n - 1
               PROVE  D[i] = Total(L, ord[i] .. ord[i + 1] - 1) /\ D[i] \in Nat
    OBVIOUS
  <2> HIDE DEF D
  <2>1. /\ ord[i] \in Int /\ ord[i + 1] \in Int
        /\ \A x \in ord[i] .. ord[i + 1] - 1 : L[x] \in Nat /\ SegmentResults("baseline")[x].distance = L[x]
    BY <1>4, <1>5, <1>7
  <2>2. D[i] = Total(L, ord[i] .. ord[i + 1] - 1)
    <3>1. \A from, to \in Int :
            (\A x \in from .. to - 1 : L[x] \in Nat /\ SegmentResults("baseline")[x].distance = L[x])
            => Between(SegmentResults("baseline"), from, to) = Total(L, from .. to - 1)
      BY BetweenIsTotal
    <3> QED
      BY <1>6, <2>1, <3>1
  <2>3. IsFiniteSet(ord[i] .. ord[i + 1] - 1)
    BY <2>1, IntervalsAreFinite
  <2> QED
    BY <2>1, <2>2, <2>3, TotalType
<1>9. o \in 1 .. n /\ d \in 1 .. n /\ o \in Nat /\ o \in Int /\ d \in Int /\ d \in o .. n /\ n \in Nat
  BY <1>2
<1>10. Between(FareSegments("proposed"), o, d) = Total(D, o .. d - 1)
  <2>1. \A i \in o .. d - 1 : i \in 1 .. n - 1
    BY <1>9
  <2>2. \A i \in o .. d - 1 : D[i] \in Nat /\ FareSegments("proposed")[i].distance = D[i]
    BY <2>1, <1>8
  <2> HIDE DEF D
  <2> QED
    BY <1>9, <2>2, BetweenIsTotal
<1> HIDE DEF D
<1>11. Total(D, o .. d - 1) = Total(L, ord[o] .. ord[d] - 1)
  <2>1. \A i \in o .. n : i \in 1 .. n
    BY <1>9
  <2>2. \A i \in o .. n - 1 : i \in 1 .. n - 1
    BY <1>9
  <2>3. \A i \in o .. n : ord[i] \in Nat
    <3>1. \A x \in 1 .. m : x \in Nat
      BY <1>2
    <3> QED
      BY <2>1, <1>3, <3>1
  <2>4. \A i, j \in o .. n : i < j => ord[i] < ord[j]
    BY <2>1, <1>3
  <2>5. \A i, j \in o .. n : \A x \in ord[i] .. ord[j] - 1 : L[x] \in Nat
    BY <2>1, <1>4, <1>7
  <2>6. \A i \in o .. n - 1 : D[i] = Total(L, ord[i] .. ord[i + 1] - 1)
    BY <1>8, <2>2
  <2>7. Steps(D, L, ord, o, n)
    BY <1>9, <2>3, <2>4, <2>5, <2>6 DEF Steps
  <2> QED
    BY <1>9, <2>7, StepsAddUp
<1> DEFINE A == Along(Stops("proposed")[o], Stops("proposed")[d])
           w == [i \in A |-> Paths("baseline")[i].length]
<1>12. A = ord[o] .. ord[d] - 1
  <2>1. A = {i \in 1 .. m - 1 : ord[o] <= i /\ i < ord[d]}
    <3>1. /\ ord[o] = Order(Stops("baseline"), Stops("proposed")[o])
          /\ ord[d] = Order(Stops("baseline"), Stops("proposed")[d])
      BY <1>9 DEF ord
    <3> QED
      BY <1>2, <3>1 DEF Along
  <2>2. ord[o] \in 1 .. m /\ ord[d] \in 1 .. m /\ m \in Nat
    BY <1>2, <1>3, <1>9
  <2>3. \A x, y \in 1 .. m : {i \in 1 .. m - 1 : x <= i /\ i < y} = x .. y - 1
    BY <2>2
  <2> HIDE DEF A
  <2> QED
    BY <2>1, <2>2, <2>3
<1>13. /\ IsFiniteSet(A) /\ DOMAIN w = A
       /\ \A x \in A : w[x] \in Nat /\ w[x] = L[x]
  <2>1. IsFiniteSet(A)
    <3>1. ord[o] \in Int /\ ord[d] \in Int
      BY <1>7, <1>9
    <3> QED
      BY <1>12, <3>1, IntervalsAreFinite
  <2>2. \A x \in A : x \in 1 .. m - 1
    BY <1>7, <1>9, <1>12
  <2>3. \A x \in 1 .. m - 1 : L[x] = Paths("baseline")[x].length
    BY DEF L
  <2> QED
    BY <2>1, <2>2, <2>3, <1>4
<1> HIDE DEF A, w
<1>14. SumFunction(w) = Total(w, A) /\ Total(w, A) = Total(L, A)
  BY <1>13, SumOfFunction, TotalOfEqual
<1> QED
  BY <1>10, <1>11, <1>12, <1>14 DEF A, w

FareInv ==
  /\ StopInv
  /\ results = [s \in Sides |-> results[s]]
  /\ call.kind = "detour" /\ results["proposed"] # None =>
       \A f \in results["proposed"].fares :
         f.distance = SumFunction([i \in Along(f.from, f.to) |-> Paths("baseline")[i].length])

LEMMA FaresInitially == Init => FareInv
  BY StopsInitially DEF Init, FareInv, Sides

LEMMA FaresKept == FareInv /\ [Next]_vars => FareInv'
<1> SUFFICES ASSUME FareInv, [Next]_vars PROVE FareInv'
  OBVIOUS
<1>1. StopInv'
  BY StopsKept DEF FareInv
<1>2. ASSUME call' = call, results' = results PROVE FareInv'
  BY <1>1, <1>2 DEF FareInv, Along, Paths, Stops, Route
<1>3. ASSUME NEW s \in Sides, Charge(s) PROVE FareInv'
  <2> DEFINE bands == tariffs[Route(s).jurisdiction]
  <2>1. call' = call /\ (results' = results \/ results' = [results EXCEPT ![s] = Result(s, bands)])
    BY <1>3 DEF Charge, data
  <2>2. s \in Running /\ Accepted /\ call \in Calls
    BY <1>3 DEF Charge, Turn, FareInv, StopInv
  <2> HIDE DEF bands
  <2>3. CASE s = "proposed" /\ call.kind = "detour" /\ results' = [results EXCEPT ![s] = Result(s, bands)]
    <3>1. \A f \in Result(s, bands).fares : \E p \in pairs[s] :
            /\ f.from = Stops(s)[p.origin] /\ f.to = Stops(s)[p.destination]
            /\ f.distance = pairDistance(p, FareSegments(s))
      BY DEF Result
    <3>2. results'["proposed"] = Result(s, bands)
      BY <2>3 DEF FareInv
    <3>3. \A p \in pairs[s] : PairOf(s, p)
      BY <1>3 DEF FareInv, StopInv
    <3>4. ASSUME NEW f \in Result(s, bands).fares
          PROVE  f.distance = SumFunction([i \in Along(f.from, f.to) |-> Paths("baseline")[i].length])
      <4>1. PICK p \in pairs[s] :
              /\ f.from = Stops(s)[p.origin] /\ f.to = Stops(s)[p.destination]
              /\ f.distance = Between(FareSegments(s), p.origin, p.destination)
        BY <3>1 DEF pairDistance
      <4>2. /\ p.origin \in DOMAIN Stops("proposed") /\ p.destination \in DOMAIN Stops("proposed")
            /\ p.origin < p.destination
        BY <3>3, <2>3 DEF PairOf
      <4>3. Between(FareSegments("proposed"), p.origin, p.destination)
              = SumFunction([i \in Along(Stops("proposed")[p.origin], Stops("proposed")[p.destination])
                               |-> Paths("baseline")[i].length])
        BY <2>2, <2>3, <4>2, DetourDistances
      <4> QED
        BY <2>3, <4>1, <4>3
    <3> QED
      BY <1>1, <2>1, <2>3, <3>2, <3>4 DEF FareInv, Along, Paths, Stops, Route
  <2>4. CASE results' = [results EXCEPT ![s] = Result(s, bands)] /\ ~ (s = "proposed" /\ call.kind = "detour")
    <3>1. call.kind = "detour" => results'["proposed"] = results["proposed"]
      BY <2>4 DEF FareInv
    <3>2. results' = [r \in Sides |-> results'[r]]
      BY <2>4 DEF FareInv
    <3> QED
      BY <1>1, <2>1, <3>1, <3>2 DEF FareInv, Along, Paths, Stops, Route
  <2> QED
    BY <1>2, <2>1, <2>3, <2>4
<1>4. CASE \/ Reject \/ Estimate \/ Wait \/ EndContext \/ UpdateTariffs \/ UNCHANGED vars
           \/ \E s \in Sides : Goroutine(s) \/ ChargeFails(s)
  <2>1. call' = call /\ results' = results
    BY <1>4 DEF Reject, Estimate, Wait, EndContext, UpdateTariffs, Goroutine, ChargeFails, FindCells, FindPairs,
                Widen, FindGlobal, QueryFails, Step, Fail, data, vars
  <2> QED
    BY <1>2, <2>1
<1> QED
  BY <1>3, <1>4 DEF Next, Terminated

(* Whatever stops a detour omits and however long its own paths are, a pair *)
(* of its stops is charged by the distance of the original route: the fares *)
(* of a comparison with a detour differ by the stops alone.                 *)
THEOREM DetoursPayTheOriginal == Spec => []FaresOfTheOriginal
<1>1. FareInv => FaresOfTheOriginal
  BY DEF FareInv, FaresOfTheOriginal, Along
<1> QED
  BY FaresInitially, FaresKept, <1>1, PTL DEF Spec

-----------------------------------------------------------------------------
(* The median of some votes.  Pace and then route order them.               *)
Before(u, v, c) ==
  \/ u.paces[c] < v.paces[c]
  \/ u.paces[c] = v.paces[c] /\ u.route < v.route

UpTo(votes, v, c) == {u \in votes : u = v \/ Before(u, v, c)}

Half(votes, v, c) == 2 * WeightOf(UpTo(votes, v, c)) >= WeightOf(votes)

Votes(votes) ==
  /\ IsFiniteSet(votes)
  /\ \A v \in votes : /\ v.route \in Nat /\ v.weight \in Nat
                      /\ \A c \in Scenarios : v.paces[c] \in Int
  /\ \A u, v \in votes : u.route = v.route => u = v

LEMMA SomeVotes == ASSUME NEW votes, Votes(votes), NEW some, some \subseteq votes PROVE Votes(some)
  BY FS_Subset DEF Votes

(* The order is total.                                                      *)
LEMMA BeforeOrders ==
  ASSUME NEW votes, Votes(votes), NEW c \in Scenarios
  PROVE  /\ \A u, v \in votes : u = v \/ Before(u, v, c) \/ Before(v, u, c)
         /\ \A u \in votes : ~ Before(u, u, c)
         /\ \A u, v, w \in votes : Before(u, v, c) /\ Before(v, w, c) => Before(u, w, c)
  BY DEF Votes, Before

(* So some votes have a first and a last one.                               *)
LEMMA FirstVote ==
  ASSUME NEW votes, Votes(votes), NEW c \in Scenarios, votes # {}
  PROVE  \E v \in votes : \A u \in votes : u = v \/ Before(v, u, c)
<1> DEFINE T == {UpTo(votes, v, c) : v \in votes}
<1>1. T # {} /\ \A s \in T : IsFiniteSet(s)
  <2>1. \A v \in votes : UpTo(votes, v, c) \subseteq votes
    BY DEF UpTo
  <2>2. \A v \in votes : IsFiniteSet(UpTo(votes, v, c))
    BY <2>1, FS_Subset DEF Votes
  <2> QED
    BY <2>2
<1>2. PICK s \in T : \A r \in T : r \subseteq s => r = s
  <2> HIDE DEF T
  <2> QED
    BY <1>1, MinimalSet
<1>3. PICK v \in votes : s = UpTo(votes, v, c)
  OBVIOUS
<1>4. ASSUME NEW u \in votes, u # v, ~ Before(v, u, c) PROVE FALSE
  <2>1. Before(u, v, c) /\ ~ Before(v, u, c)
    BY <1>4, BeforeOrders
  <2>2. UpTo(votes, u, c) \subseteq s
    BY <1>3, <2>1, BeforeOrders DEF UpTo
  <2>3. v \in s /\ v \notin UpTo(votes, u, c)
    BY <1>3, <1>4 DEF UpTo
  <2> QED
    BY <1>2, <2>2, <2>3
<1> QED
  BY <1>4

LEMMA LastVote ==
  ASSUME NEW votes, Votes(votes), NEW c \in Scenarios, votes # {}
  PROVE  \E v \in votes : \A u \in votes : u = v \/ Before(u, v, c)
<1> DEFINE From(v) == {u \in votes : u = v \/ Before(v, u, c)}
           T == {From(v) : v \in votes}
<1>1. T # {} /\ \A s \in T : IsFiniteSet(s)
  <2>1. \A v \in votes : From(v) \subseteq votes
    OBVIOUS
  <2> HIDE DEF From
  <2>2. \A v \in votes : IsFiniteSet(From(v))
    BY <2>1, FS_Subset DEF Votes
  <2> QED
    BY <2>2
<1>2. PICK s \in T : \A r \in T : r \subseteq s => r = s
  <2> HIDE DEF T
  <2> QED
    BY <1>1, MinimalSet
<1>3. PICK v \in votes : s = From(v)
  OBVIOUS
<1>4. ASSUME NEW u \in votes, u # v, ~ Before(u, v, c) PROVE FALSE
  <2>1. Before(v, u, c) /\ ~ Before(u, v, c)
    BY <1>4, BeforeOrders
  <2>2. From(u) \subseteq s
    BY <1>3, <2>1, BeforeOrders
  <2>3. v \in s /\ v \notin From(u)
    BY <1>3, <1>4
  <2> QED
    BY <1>2, <2>2, <2>3
<1> QED
  BY <1>4

(* The weight of some of the votes is at most that of all.                  *)
LEMMA WeightIsTotal ==
  ASSUME NEW votes, Votes(votes)
  PROVE  WeightOf(votes) = Total([v \in votes |-> v.weight], votes) /\ WeightOf(votes) \in Nat
<1> DEFINE w == [v \in votes |-> v.weight]
<1>1. IsFiniteSet(votes) /\ DOMAIN w = votes /\ \A v \in votes : w[v] \in Nat
  BY DEF Votes
<1>2. WeightOf(votes) = SumFunction(w)
  BY DEF WeightOf
<1> HIDE DEF w
<1>3. SumFunction(w) = Total(w, votes) /\ Total(w, votes) \in Nat
  BY <1>1, SumOfFunction, TotalType
<1> QED
  BY <1>2, <1>3 DEF w

LEMMA WeightOfSome ==
  ASSUME NEW votes, Votes(votes), NEW some, some \subseteq votes
  PROVE  /\ WeightOf(some) \in Nat /\ WeightOf(votes) \in Nat
         /\ WeightOf(some) <= WeightOf(votes)
<1> DEFINE w == [v \in votes |-> v.weight]
           x == [v \in some |-> v.weight]
<1>1. Votes(some)
  BY SomeVotes
<1>2. /\ WeightOf(votes) = Total(w, votes) /\ WeightOf(votes) \in Nat
      /\ WeightOf(some) = Total(x, some) /\ WeightOf(some) \in Nat
  BY <1>1, WeightIsTotal
<1>3. /\ IsFiniteSet(votes) /\ \A v \in votes : w[v] \in Nat
      /\ \A v \in some : x[v] \in Nat /\ x[v] <= w[v]
  BY DEF Votes
<1> HIDE DEF w, x
<1>4. Total(x, some) <= Total(w, votes)
  BY <1>3, TotalIsMonotone
<1> QED
  BY <1>2, <1>4

LEMMA WeightOfRest ==
  ASSUME NEW votes, Votes(votes), NEW some, some \subseteq votes
  PROVE  WeightOf(votes) = WeightOf(some) + WeightOf(votes \ some)
<1> DEFINE w == [v \in votes |-> v.weight]
           x == [v \in some |-> v.weight]
           rest == votes \ some
           y == [v \in rest |-> v.weight]
<1>1. Votes(some) /\ Votes(rest)
  BY SomeVotes
<1>2. /\ WeightOf(votes) = Total(w, votes)
      /\ WeightOf(some) = Total(x, some)
      /\ WeightOf(rest) = Total(y, rest)
  BY <1>1, WeightIsTotal
<1>3. /\ \A v \in votes : w[v] \in Nat
      /\ \A v \in some : x[v] = w[v]
      /\ \A v \in rest : y[v] = w[v]
      /\ IsFiniteSet(some) /\ IsFiniteSet(rest) /\ some \cap rest = {} /\ some \cup rest = votes
  BY <1>1 DEF Votes
<1> HIDE DEF w, x, y, rest
<1>4. Total(x, some) = Total(w, some) /\ Total(y, rest) = Total(w, rest)
  BY <1>3, TotalOfEqual
<1>5. Total(w, some \cup rest) = Total(w, some) + Total(w, rest)
  BY <1>3, TotalOfUnion
<1> QED
  BY <1>2, <1>3, <1>4, <1>5 DEF rest

(* The votes at most as slow as the median have half of the weight, and     *)
(* those that are faster less than half.                                    *)
Slowest(votes, pace, c) == {v \in votes : v.paces[c] <= pace}
Faster(votes, pace, c) == {v \in votes : v.paces[c] < pace}

LEMMA MedianSplits ==
  ASSUME NEW votes, Votes(votes), votes # {}, NEW c \in Scenarios
  PROVE  LET m == weightedMedian(votes, c) IN
         /\ \E v \in votes : m = v.paces[c]
         /\ 2 * WeightOf(Slowest(votes, m, c)) >= WeightOf(votes)
         /\ Faster(votes, m, c) = {} \/ 2 * WeightOf(Faster(votes, m, c)) < WeightOf(votes)
<1> DEFINE m == weightedMedian(votes, c)
           H == {v \in votes : Half(votes, v, c)}
           First(v) == /\ v \in votes /\ Half(votes, v, c)
                       /\ \A u \in votes : Half(votes, u, c) => u = v \/ Before(v, u, c)
<1>1. m = (CHOOSE v \in votes : Half(votes, v, c)
             /\ \A u \in votes : Half(votes, u, c) => u = v \/ Before(v, u, c)).paces[c]
  BY DEF weightedMedian, Half, UpTo, Before
<1>2. H # {}
  <2>1. PICK v \in votes : \A u \in votes : u = v \/ Before(u, v, c)
    BY LastVote
  <2>2. UpTo(votes, v, c) = votes
    BY <2>1 DEF UpTo
  <2>3. WeightOf(votes) \in Nat
    BY WeightIsTotal
  <2>4. Half(votes, v, c)
    BY <2>2, <2>3 DEF Half
  <2> QED
    BY <2>4
<1>3. \E v \in votes : First(v)
  <2>1. Votes(H)
    BY SomeVotes
  <2>2. PICK v \in H : \A u \in H : u = v \/ Before(v, u, c)
    BY <1>2, <2>1, FirstVote
  <2> QED
    BY <2>2
<1>4. \E v \in votes : First(v) /\ m = v.paces[c]
  BY <1>1, <1>3
<1>5. PICK v \in votes : First(v) /\ m = v.paces[c]
  BY <1>4
<1> HIDE DEF m
<1>6. m \in Int /\ \A u \in votes : u.paces[c] \in Int
  BY <1>5 DEF Votes
<1>7. 2 * WeightOf(Slowest(votes, m, c)) >= WeightOf(votes)
  <2>1. UpTo(votes, v, c) \subseteq Slowest(votes, m, c)
    BY <1>5, <1>6 DEF UpTo, Before, Slowest
  <2>2. Slowest(votes, m, c) \subseteq votes
    BY DEF Slowest
  <2>3. /\ WeightOf(UpTo(votes, v, c)) \in Nat /\ WeightOf(Slowest(votes, m, c)) \in Nat
        /\ WeightOf(UpTo(votes, v, c)) <= WeightOf(Slowest(votes, m, c))
        /\ WeightOf(votes) \in Nat
    BY <2>1, <2>2, SomeVotes, WeightOfSome
  <2> QED
    BY <1>5, <2>3 DEF Half
<1>8. ASSUME Faster(votes, m, c) # {} PROVE 2 * WeightOf(Faster(votes, m, c)) < WeightOf(votes)
  <2> DEFINE F == Faster(votes, m, c)
  <2>1. F \subseteq votes /\ Votes(F) /\ F # {}
    BY <1>8, SomeVotes DEF Faster
  <2>2. PICK b \in F : \A u \in F : u = b \/ Before(u, b, c)
    BY <2>1, LastVote
  <2>3. UpTo(votes, b, c) = F
    BY <2>1, <2>2, <1>6 DEF UpTo, Before, Faster
  <2>4. ~ Half(votes, b, c)
    <3> SUFFICES ASSUME Half(votes, b, c) PROVE FALSE
      OBVIOUS
    <3>1. b \in votes /\ b.paces[c] < m
      BY <2>2 DEF Faster
    <3>2. b = v \/ Before(v, b, c)
      BY <1>5, <3>1
    <3>3. v.paces[c] <= b.paces[c]
      BY <3>1, <3>2, <1>6 DEF Before
    <3> QED
      BY <1>5, <1>6, <3>1, <3>3
  <2>5. WeightOf(F) \in Nat /\ WeightOf(votes) \in Nat
    BY <2>1, WeightIsTotal
  <2> QED
    BY <2>3, <2>4, <2>5 DEF Half
<1> QED
  BY <1>5, <1>7, <1>8 DEF m

LEMMA MedianIsBalanced ==
  ASSUME NEW votes, Votes(votes), votes # {}, NEW c \in Scenarios
  PROVE  Balanced(votes, weightedMedian(votes, c), c)
<1> DEFINE m == weightedMedian(votes, c)
           S == {v \in votes : v.paces[c] <= m}
           G == {v \in votes : v.paces[c] >= m}
           F == Faster(votes, m, c)
<1>1. /\ \E v \in votes : m = v.paces[c]
      /\ 2 * WeightOf(S) >= WeightOf(votes)
      /\ F = {} \/ 2 * WeightOf(F) < WeightOf(votes)
  BY MedianSplits DEF Slowest
<1>2. \A v \in votes : v.paces[c] \in Int
  BY DEF Votes
<1>3. F \subseteq votes /\ votes \ F = G
  BY <1>1, <1>2 DEF Faster
<1> HIDE DEF m, F, G
<1>4. /\ WeightOf(votes) = WeightOf(F) + WeightOf(G)
      /\ WeightOf(F) \in Nat /\ WeightOf(votes) \in Nat
  BY <1>3, WeightOfRest, WeightOfSome
<1>5. WeightOf(G) \in Nat
  BY <1>3, WeightOfSome
<1>6. F = {} => WeightOf(G) = WeightOf(votes)
  BY <1>3
<1>7. 2 * WeightOf(G) >= WeightOf(votes)
  BY <1>1, <1>4, <1>5, <1>6
<1> QED
  BY <1>1, <1>7 DEF Balanced, G, m

(* If every vote is at most as slow in one scenario as in another, so is    *)
(* the median.                                                              *)
LEMMA MediansAreOrdered ==
  ASSUME NEW votes, Votes(votes), votes # {}, NEW a \in Scenarios, NEW b \in Scenarios,
         \A v \in votes : v.paces[a] <= v.paces[b]
  PROVE  weightedMedian(votes, a) <= weightedMedian(votes, b)
<1> DEFINE x == weightedMedian(votes, a)
           y == weightedMedian(votes, b)
<1>1. /\ \E v \in votes : x = v.paces[a]
      /\ Faster(votes, x, a) = {} \/ 2 * WeightOf(Faster(votes, x, a)) < WeightOf(votes)
  BY MedianSplits
<1>2. /\ \E v \in votes : y = v.paces[b]
      /\ 2 * WeightOf(Slowest(votes, y, b)) >= WeightOf(votes)
  BY MedianSplits
<1> HIDE DEF x, y
<1>3. x \in Int /\ y \in Int /\ \A v \in votes : v.paces[a] \in Int /\ v.paces[b] \in Int
  BY <1>1, <1>2 DEF Votes
<1> SUFFICES ASSUME y < x PROVE FALSE
  BY <1>3 DEF x, y
<1>4. Slowest(votes, y, b) \subseteq Faster(votes, x, a)
  BY <1>3 DEF Slowest, Faster
<1>5. PICK v \in votes : y = v.paces[b]
  BY <1>2
<1>6. v \in Slowest(votes, y, b)
  BY <1>3, <1>5 DEF Slowest
<1>7. Votes(Faster(votes, x, a))
  BY SomeVotes DEF Faster
<1>8. /\ WeightOf(Slowest(votes, y, b)) \in Nat /\ WeightOf(Faster(votes, x, a)) \in Nat
      /\ WeightOf(Slowest(votes, y, b)) <= WeightOf(Faster(votes, x, a))
  BY <1>4, <1>7, WeightOfSome
<1>9. WeightOf(votes) \in Nat
  BY WeightIsTotal
<1> QED
  BY <1>1, <1>2, <1>4, <1>6, <1>8, <1>9

-----------------------------------------------------------------------------
(* The votes of the lines that are near a segment.                          *)
ReferenceValues == [route : Nat, nro : Nat, paces : [Scenarios -> Int], weight : Nat]

Sample(references) == {f \in references : validPaces(f.paces) /\ f.weight > 0}

Fragments(references, r) == {f \in Sample(references) : f.route = r}

PaceSum(references, r, c) ==
  SumFunction([f \in Fragments(references, r) |-> f.paces[c] * f.weight])

Vote(references, r) ==
  [route |-> r, weight |-> Min({WeightOf(Fragments(references, r)), Whole}),
   paces |-> [c \in Scenarios |-> PaceSum(references, r, c) \div WeightOf(Fragments(references, r))]]

LinesOf(references) == {f.route : f \in Sample(references)}

LEMMA VotesOfLines ==
  ASSUME NEW references
  PROVE  consolidateRoutes(references) = {Vote(references, r) : r \in LinesOf(references)}
  BY DEF consolidateRoutes, Vote, LinesOf, PaceSum, Fragments, Sample

(* A quotient grows with its dividend.                                      *)
LEMMA QuotientIsMonotone ==
  ASSUME NEW a \in Nat, NEW b \in Nat, a <= b, NEW n \in Nat \ {0}
  PROVE  a \div n \in Nat /\ b \div n \in Nat /\ a \div n <= b \div n
<1>1. a \div n \in Nat /\ b \div n \in Nat
  OBVIOUS
<1>2. a \div n <= b \div n
  OBVIOUS
<1> QED
  BY <1>1, <1>2

LEMMA QuotientIsPositive ==
  ASSUME NEW a \in Nat, NEW n \in Nat \ {0}, n <= a
  PROVE  a \div n > 0
<1>1. n \div n = 1
  OBVIOUS
<1>2. n \div n <= a \div n /\ a \div n \in Nat
  BY QuotientIsMonotone
<1> QED
  BY <1>1, <1>2

(* The sums over the fragments of a line: the weight is positive, each pace *)
(* counts at least once and those of a busier scenario are no smaller.      *)
LEMMA FragmentsSum ==
  ASSUME NEW references, IsFiniteSet(references), references \subseteq ReferenceValues,
         NEW r \in LinesOf(references)
  PROVE  /\ WeightOf(Fragments(references, r)) \in Nat \ {0}
         /\ \A c \in Scenarios : PaceSum(references, r, c) \in Nat
         /\ WeightOf(Fragments(references, r)) <= PaceSum(references, r, "offPeak")
         /\ PaceSum(references, r, "offPeak") <= PaceSum(references, r, "typical")
         /\ PaceSum(references, r, "typical") <= PaceSum(references, r, "peak")
<1> DEFINE F == Fragments(references, r)
           w == [f \in F |-> f.weight]
           p(c) == [f \in F |-> f.paces[c] * f.weight]
<1>1. IsFiniteSet(F)
  BY FS_Subset DEF Fragments, Sample
<1>2. ASSUME NEW f \in F
      PROVE  /\ f.weight \in Nat /\ f.weight > 0
             /\ \A c \in Scenarios : f.paces[c] \in Nat
             /\ f.paces["offPeak"] >= 1
             /\ f.paces["offPeak"] <= f.paces["typical"]
             /\ f.paces["typical"] <= f.paces["peak"]
  <2>1. f \in ReferenceValues /\ validPaces(f.paces) /\ f.weight > 0
    BY <1>2 DEF Fragments, Sample
  <2>2. f.weight \in Nat /\ \A c \in Scenarios : f.paces[c] \in Int
    BY <2>1 DEF ReferenceValues
  <2>3. /\ f.paces["offPeak"] \in Int /\ f.paces["typical"] \in Int /\ f.paces["peak"] \in Int
    BY <2>2 DEF Scenarios
  <2> QED
    BY <2>1, <2>2, <2>3 DEF validPaces, Scenarios
<1>3. ASSUME NEW x \in Nat, NEW y \in Nat, x <= y, NEW g \in Nat
      PROVE  x * g \in Nat /\ y * g \in Nat /\ x * g <= y * g
  <2>1. y - x \in Nat /\ y = x + (y - x)
    BY <1>3
  <2>2. y * g = x * g + (y - x) * g /\ (y - x) * g \in Nat /\ x * g \in Nat
    BY <2>1
  <2> QED
    BY <2>2
<1>4. \A f \in F : \A c \in Scenarios : p(c)[f] \in Nat
  BY <1>2
<1>5. \A f \in F : w[f] \in Nat /\ w[f] > 0
  BY <1>2
<1>6. \A f \in F : /\ w[f] <= p("offPeak")[f]
                   /\ p("offPeak")[f] <= p("typical")[f]
                   /\ p("typical")[f] <= p("peak")[f]
  <2> SUFFICES ASSUME NEW f \in F
               PROVE  /\ f.weight <= f.paces["offPeak"] * f.weight
                      /\ f.paces["offPeak"] * f.weight <= f.paces["typical"] * f.weight
                      /\ f.paces["typical"] * f.weight <= f.paces["peak"] * f.weight
    OBVIOUS
  <2>1. /\ f.weight \in Nat /\ f.paces["offPeak"] \in Nat /\ f.paces["typical"] \in Nat /\ f.paces["peak"] \in Nat
        /\ 1 <= f.paces["offPeak"] /\ f.paces["offPeak"] <= f.paces["typical"]
        /\ f.paces["typical"] <= f.paces["peak"]
    BY <1>2 DEF Scenarios
  <2>2. 1 * f.weight <= f.paces["offPeak"] * f.weight /\ 1 * f.weight = f.weight
    BY <1>3, <2>1
  <2> QED
    BY <1>3, <2>1, <2>2
<1>7. DOMAIN w = F /\ \A c \in Scenarios : DOMAIN p(c) = F
  OBVIOUS
<1>8. WeightOf(F) = SumFunction(w) /\ \A c \in Scenarios : PaceSum(references, r, c) = SumFunction(p(c))
  BY DEF WeightOf, PaceSum
<1>9. PICK f \in F : TRUE
  BY DEF LinesOf, Fragments
<1> HIDE DEF F, w, p
<1>10. WeightOf(F) = Total(w, F) /\ Total(w, F) \in Nat
  BY <1>1, <1>5, <1>7, <1>8, SumOfFunction, TotalType
<1>11. \A c \in Scenarios : PaceSum(references, r, c) = Total(p(c), F) /\ Total(p(c), F) \in Nat
  <2> SUFFICES ASSUME NEW c \in Scenarios
               PROVE  SumFunction(p(c)) = Total(p(c), F) /\ Total(p(c), F) \in Nat
    BY <1>8
  <2> DEFINE v == p(c)
  <2>1. DOMAIN v = F /\ \A x \in F : v[x] \in Nat
    BY <1>4, <1>7
  <2> HIDE DEF v
  <2>2. SumFunction(v) = Total(v, F) /\ Total(v, F) \in Nat
    BY <1>1, <2>1, SumOfFunction, TotalType
  <2> QED
    BY <2>2 DEF v
<1>12. \A u, v : (\A x \in F : u[x] \in Nat /\ v[x] \in Nat /\ u[x] <= v[x]) => Total(u, F) <= Total(v, F)
  BY <1>1, TotalIsMonotone
<1>13. /\ Total(w, F) <= Total(p("offPeak"), F)
       /\ Total(p("offPeak"), F) <= Total(p("typical"), F)
       /\ Total(p("typical"), F) <= Total(p("peak"), F)
  BY <1>4, <1>5, <1>6, <1>12 DEF Scenarios
<1>14. Total(w, F) > 0
  <2>1. Total(w, {f}) = w[f] /\ w[f] \in Nat /\ w[f] > 0
    BY <1>5, TotalOfOne
  <2>2. Total(w, {f}) <= Total(w, F)
    BY <1>1, <1>5, TotalIsMonotone
  <2> QED
    BY <1>10, <2>1, <2>2
<1> QED
  BY <1>10, <1>11, <1>13, <1>14 DEF F, Scenarios

LEMMA VoteOfLine ==
  ASSUME NEW references, IsFiniteSet(references), references \subseteq ReferenceValues,
         NEW r \in LinesOf(references)
  PROVE  /\ Vote(references, r).route = r /\ r \in Nat
         /\ Vote(references, r).weight \in Nat
         /\ \A c \in Scenarios : Vote(references, r).paces[c] \in Int
         /\ validPaces(Vote(references, r).paces)
<1> DEFINE W == WeightOf(Fragments(references, r))
           S(c) == PaceSum(references, r, c)
           v == Vote(references, r)
<1>1. /\ W \in Nat \ {0} /\ S("offPeak") \in Nat /\ S("typical") \in Nat /\ S("peak") \in Nat
      /\ W <= S("offPeak") /\ S("offPeak") <= S("typical") /\ S("typical") <= S("peak")
  BY FragmentsSum DEF Scenarios
<1>2. v.route = r /\ v.weight = Min({W, Whole})
  BY DEF Vote
<1>3. \A c \in Scenarios : v.paces[c] = S(c) \div W
  BY DEF Vote
<1>4. r \in Nat
  BY DEF LinesOf, Sample, ReferenceValues
<1> HIDE DEF v, W, S
<1>5. v.weight \in Nat
  <2>1. {W, Whole} \subseteq Nat /\ {W, Whole} # {}
    BY <1>1, EstimatorsAssumption
  <2> QED
    BY <1>2, <2>1, MinIsLeast
<1>6. /\ S("offPeak") \div W \in Nat /\ S("typical") \div W \in Nat /\ S("peak") \div W \in Nat
      /\ S("offPeak") \div W <= S("typical") \div W /\ S("typical") \div W <= S("peak") \div W
      /\ S("offPeak") \div W > 0
  BY <1>1, QuotientIsMonotone, QuotientIsPositive
<1>7. /\ v.paces["offPeak"] = S("offPeak") \div W
      /\ v.paces["typical"] = S("typical") \div W
      /\ v.paces["peak"] = S("peak") \div W
  BY <1>3 DEF Scenarios
<1>8. validPaces(v.paces) /\ \A c \in Scenarios : v.paces[c] \in Int
  BY <1>6, <1>7 DEF validPaces, Scenarios
<1> QED
  BY <1>2, <1>4, <1>5, <1>8 DEF v

LEMMA LinesVote ==
  ASSUME NEW references, IsFiniteSet(references), references \subseteq ReferenceValues
  PROVE  /\ Votes(consolidateRoutes(references))
         /\ \A v \in consolidateRoutes(references) : validPaces(v.paces)
         /\ Cardinality(consolidateRoutes(references)) = Cardinality(LinesOf(references))
         /\ consolidateRoutes(references) = {} <=> LinesOf(references) = {}
<1> DEFINE V == consolidateRoutes(references)
           R == LinesOf(references)
           f == [r \in R |-> Vote(references, r)]
<1>1. V = {Vote(references, r) : r \in R}
  BY VotesOfLines
<1>2. \A r \in R : /\ Vote(references, r).route = r /\ r \in Nat
                   /\ Vote(references, r).weight \in Nat
                   /\ \A c \in Scenarios : Vote(references, r).paces[c] \in Int
                   /\ validPaces(Vote(references, r).paces)
  BY VoteOfLine
<1>3. IsFiniteSet(R)
  <2>1. IsFiniteSet(Sample(references))
    BY FS_Subset DEF Sample
  <2> DEFINE route == [g \in Sample(references) |-> g.route]
  <2>2. route \in Surjection(Sample(references), R)
    BY DEF LinesOf, Surjection
  <2> QED
    BY <2>1, <2>2, FS_Surjection
<1> HIDE DEF V, R
<1>4. f \in Bijection(R, V)
  <2>1. f \in [R -> V]
    BY <1>1
  <2>2. \A x, y \in R : f[x] = f[y] => x = y
    BY <1>2
  <2>3. \A v \in V : \E x \in R : f[x] = v
    BY <1>1
  <2> QED
    BY <2>1, <2>2, <2>3 DEF Bijection, Injection, Surjection, IsInjective
<1>5. IsFiniteSet(V) /\ Cardinality(V) = Cardinality(R)
  BY <1>3, <1>4, FS_Bijection DEF ExistsBijection
<1>6. \A v \in V : \E r \in R : v = Vote(references, r)
  BY <1>1
<1>7. Votes(V)
  BY <1>2, <1>5, <1>6 DEF Votes
<1>8. \A v \in V : validPaces(v.paces)
  BY <1>2, <1>6
<1>9. V = {} <=> R = {}
  BY <1>1
<1> QED
  BY <1>5, <1>7, <1>8, <1>9 DEF V, R

(* The paces a sample gives are valid: the median of each scenario is       *)
(* positive and the medians of busier scenarios are no smaller.             *)
LEMMA MediansAreValid ==
  ASSUME NEW references, IsFiniteSet(references), references \subseteq ReferenceValues,
         consolidateRoutes(references) # {}
  PROVE  validPaces(Medians(references))
<1> DEFINE V == consolidateRoutes(references)
           m(c) == weightedMedian(V, c)
<1>1. Votes(V) /\ V # {} /\ \A v \in V : validPaces(v.paces)
  BY LinesVote
<1>2. /\ Medians(references)["offPeak"] = m("offPeak")
      /\ Medians(references)["typical"] = m("typical")
      /\ Medians(references)["peak"] = m("peak")
  BY DEF Medians, Scenarios
<1> HIDE DEF V, m
<1>3. m("offPeak") <= m("typical") /\ m("typical") <= m("peak")
  <2>1. \A v \in V : v.paces["offPeak"] <= v.paces["typical"] /\ v.paces["typical"] <= v.paces["peak"]
    BY <1>1 DEF validPaces
  <2> QED
    BY <1>1, <2>1, MediansAreOrdered DEF Scenarios, m
<1>4. \E v \in V : m("offPeak") = v.paces["offPeak"]
  BY <1>1, MedianSplits DEF Scenarios, m
<1> QED
  BY <1>1, <1>2, <1>3, <1>4 DEF validPaces

(* What a corridor has to have for it to resolve a segment.                 *)
LEMMA ResolvesWithLines ==
  ASSUME NEW references, IsFiniteSet(references), references \subseteq ReferenceValues, NEW k
  PROVE  /\ Resolves(references, k) <=>
              \/ Cardinality(LinesOf(references)) >= MinimumReferenceRoutes
              \/ k = Corridors /\ LinesOf(references) # {}
         /\ Resolves(references, k) =>
              \A c \in Scenarios : Balanced(consolidateRoutes(references), Medians(references)[c], c)
<1> DEFINE V == consolidateRoutes(references)
<1>1. /\ Votes(V) /\ Cardinality(V) = Cardinality(LinesOf(references))
      /\ V = {} <=> LinesOf(references) = {}
  BY LinesVote
<1>2. V # {} => validPaces(Medians(references))
  BY MediansAreValid
<1>3. V = {} => ~ (Cardinality(V) >= MinimumReferenceRoutes)
  BY FS_EmptySet, EstimatorsAssumption
<1>4. Resolves(references, k) <=>
        /\ \/ Cardinality(V) >= MinimumReferenceRoutes
           \/ k = Corridors /\ V # {}
        /\ validPaces(Medians(references))
  BY DEF Resolves
<1>5. \A c \in Scenarios : Medians(references)[c] = weightedMedian(V, c)
  BY DEF Medians
<1> HIDE DEF V
<1>6. Resolves(references, k) => V # {}
  BY <1>3, <1>4
<1>7. V # {} => \A c \in Scenarios : Balanced(V, Medians(references)[c], c)
  BY <1>1, <1>5, MedianIsBalanced
<1> QED
  BY <1>1, <1>2, <1>3, <1>4, <1>6, <1>7 DEF V

-----------------------------------------------------------------------------
(* The search for the paces of the segments of s.  A segment waits for its  *)
(* paces while the corridors searched so far have too few lines for it; its *)
(* paces are of the narrowest corridor that has enough, or, once the search *)
(* is over, of the whole network because no corridor has.                   *)
Over == {"estimated", "charge", "charged"}

Waits(s, i) ==
  /\ \E p \in DOMAIN pending[s] : pending[s][p] = i
  /\ estimates[s][i] = Unresolved
  /\ \A k \in Sufficient(s, i) : corridor[s] <= k

Found(s, i) ==
  /\ \A p \in DOMAIN pending[s] : pending[s][p] # i
  /\ \E k \in Sufficient(s, i) :
       /\ \A j \in Sufficient(s, i) : k <= j
       /\ estimates[s][i] = [corridor |-> k, paces |-> Medians(References(Paths(s)[i], k))]

OfNetwork(s, i) == pc[s] \in Over /\ Sufficient(s, i) = {} /\ estimates[s][i].corridor = 0

SearchOf(s) ==
  /\ pending[s] \in Seq(DOMAIN estimates[s])
  /\ corridor[s] \in 1 .. Corridors + 1
  /\ pc[s] \in {"called", "cells", "pairs"} => corridor[s] = 1
  /\ pc[s] = "radius" => corridor[s] \in 1 .. Corridors
  /\ pc[s] = "global" => corridor[s] = Corridors + 1
  /\ pc[s] \in Over => pending[s] = << >>
  /\ pc[s] = "failed" => groupErr # None
  /\ DOMAIN estimates[s] = IF pc[s] = "called" \/ s \notin Running THEN {} ELSE DOMAIN Paths(s)
  /\ \A i \in DOMAIN estimates[s] : Waits(s, i) \/ Found(s, i) \/ OfNetwork(s, i)

SearchInv ==
  /\ StopInv
  /\ database \in Databases
  /\ pending = [s \in Sides |-> pending[s]]
  /\ corridor = [s \in Sides |-> corridor[s]]
  /\ estimates = [s \in Sides |-> estimates[s]]
  /\ \A s \in Sides : SearchOf(s)

(* A query sees references as the database has them.                        *)
LEMMA ReferencesAreValues ==
  ASSUME database \in Databases, NEW path, NEW k \in 1 .. Corridors
  PROVE  IsFiniteSet(References(path, k)) /\ References(path, k) \subseteq ReferenceValues
<1>1. DatabaseOK(database)
  BY ComparisonAssumption
<1>2. CASE path \in DOMAIN database.references
  <2>1. References(path, k) = database.references[path][k]
    BY <1>2 DEF References
  <2>2. /\ IsFiniteSet(database.references[path][k])
        /\ database.references[path][k] \subseteq
             [route : Nat, nro : Nat, paces : [Scenarios -> Int], weight : Nat]
    BY <1>1, <1>2 DEF DatabaseOK
  <2> QED
    BY <2>1, <2>2 DEF ReferenceValues
<1>3. CASE path \notin DOMAIN database.references
  BY <1>3, FS_EmptySet DEF References
<1> QED
  BY <1>2, <1>3

LEMMA ResolvesWhenSufficient ==
  ASSUME database \in Databases, NEW s, NEW i, NEW k \in 1 .. Corridors
  PROVE  /\ Resolves(References(Paths(s)[i], k), k) <=> k \in Sufficient(s, i)
         /\ k \in Sufficient(s, i) =>
              \A c \in Scenarios :
                Balanced(consolidateRoutes(References(Paths(s)[i], k)),
                         Medians(References(Paths(s)[i], k))[c], c)
<1> DEFINE R == References(Paths(s)[i], k)
<1>1. IsFiniteSet(R) /\ R \subseteq ReferenceValues
  BY ReferencesAreValues
<1>2. LinesIn(s, i, k) = LinesOf(R)
  BY DEF LinesIn, LinesOf, Sample
<1>3. k \in Sufficient(s, i) <=>
        \/ Cardinality(LinesOf(R)) >= MinimumReferenceRoutes
        \/ k = Corridors /\ LinesOf(R) # {}
  BY <1>2 DEF Sufficient
<1> HIDE DEF R
<1>4. /\ Resolves(R, k) <=>
           \/ Cardinality(LinesOf(R)) >= MinimumReferenceRoutes
           \/ k = Corridors /\ LinesOf(R) # {}
      /\ Resolves(R, k) => \A c \in Scenarios : Balanced(consolidateRoutes(R), Medians(R)[c], c)
  BY <1>1, ResolvesWithLines
<1> QED
  BY <1>3, <1>4 DEF R

(* What is found depends on the call and the database alone.                *)
LEMMA SufficientStays ==
  ASSUME UNCHANGED <<call, database>>
  PROVE  /\ Running' = Running
         /\ \A s : Paths(s)' = Paths(s)
         /\ \A s, i : Sufficient(s, i)' = Sufficient(s, i)
         /\ \A path, k : References(path, k)' = References(path, k)
  BY DEF Running, Paths, Route, Sufficient, LinesIn, References

LEMMA SearchMoves ==
  ASSUME UNCHANGED <<call, database>>, NEW s \in Sides, SearchOf(s),
         pending'[s] = pending[s], corridor'[s] = corridor[s], estimates'[s] = estimates[s],
         pc'[s] = "called" <=> pc[s] = "called", pc'[s] \in Over <=> pc[s] \in Over,
         pc'[s] \in {"cells", "pairs"} => corridor[s] = 1,
         pc'[s] = "radius" => corridor[s] \in 1 .. Corridors,
         pc'[s] = "global" => corridor[s] = Corridors + 1,
         pc'[s] = "failed" => groupErr' # None
  PROVE  SearchOf(s)'
<1> USE SufficientStays
<1>1. \A i : Waits(s, i) => Waits(s, i)'
  BY DEF Waits
<1>2. \A i : Found(s, i) => Found(s, i)'
  BY DEF Found
<1>3. \A i : OfNetwork(s, i) => OfNetwork(s, i)'
  BY DEF OfNetwork
<1> QED
  BY <1>1, <1>2, <1>3 DEF SearchOf

(* A side that stays where it is goes on as it was.                         *)
LEMMA SearchRests ==
  ASSUME UNCHANGED <<call, database>>, NEW s \in Sides, SearchOf(s),
         pending'[s] = pending[s], corridor'[s] = corridor[s], estimates'[s] = estimates[s],
         pc'[s] = pc[s], groupErr # None => groupErr' # None
  PROVE  SearchOf(s)'
<1>1. /\ pc[s] \in {"called", "cells", "pairs"} => corridor[s] = 1
      /\ pc[s] = "radius" => corridor[s] \in 1 .. Corridors
      /\ pc[s] = "global" => corridor[s] = Corridors + 1
      /\ pc[s] = "failed" => groupErr # None
  BY DEF SearchOf
<1> QED
  BY <1>1, SearchMoves

LEMMA SearchInitially == Init => SearchInv
<1> SUFFICES ASSUME Init PROVE SearchInv
  OBVIOUS
<1>1. StopInv
  BY StopsInitially
<1>2. \A s \in Sides : SearchOf(s)
  <2> SUFFICES ASSUME NEW s \in Sides PROVE SearchOf(s)
    OBVIOUS
  <2>1. /\ pc[s] = "called" /\ pending[s] = << >> /\ estimates[s] = << >> /\ corridor[s] = 1
    BY DEF Init
  <2>2. DOMAIN estimates[s] = {} /\ pending[s] \in Seq(DOMAIN estimates[s])
    BY <2>1
  <2>3. 1 \in 1 .. Corridors + 1
    BY EstimatorsAssumption
  <2> QED
    BY <2>1, <2>2, <2>3 DEF SearchOf, Over
<1> QED
  BY <1>1, <1>2 DEF Init, SearchInv

LEMMA EstimateKeepsSearch ==
  ASSUME SearchInv, Estimate, NEW s \in Sides
  PROVE  SearchOf(s)'
<1> USE SufficientStays
<1>1. UNCHANGED <<call, database>> /\ Accepted /\ pc[s] = "called" /\ corridor' = corridor
  BY DEF Estimate, Called, data
<1>2. corridor[s] = 1 /\ 1 \in 1 .. Corridors + 1
  BY <1>1, EstimatorsAssumption DEF SearchInv, SearchOf
<1>3. CASE s \in Running
  <2> DEFINE n == Len(Stops(s)) - 1
  <2>1. DOMAIN Paths(s) = 1 .. n /\ n \in Nat
    BY <1>1, <1>3, RoutesHaveSegments DEF SearchInv, StopInv, Accepted
  <2>2. /\ pc'[s] = "cells"
        /\ pending'[s] = [i \in 1 .. n |-> i]
        /\ estimates'[s] = [i \in 1 .. n |-> Unresolved]
    BY <1>3, <2>1 DEF Estimate
  <2> HIDE DEF n
  <2>3. pending'[s] \in Seq(1 .. n) /\ DOMAIN pending'[s] = 1 .. n /\ DOMAIN estimates'[s] = 1 .. n
    BY <2>1, <2>2
  <2>4. ASSUME NEW i \in 1 .. n PROVE Waits(s, i)'
    <3>1. \A k \in Sufficient(s, i) : 1 <= k
      BY DEF Sufficient
    <3>2. estimates'[s][i] = Unresolved /\ pending'[s][i] = i
      BY <2>2
    <3> QED
      BY <1>1, <1>2, <2>3, <3>1, <3>2 DEF Waits
  <2> QED
    BY <1>1, <1>2, <1>3, <2>1, <2>2, <2>3, <2>4 DEF SearchOf, Over
<1>4. CASE s \notin Running
  <2>1. pc'[s] = "estimated" /\ pending'[s] = << >> /\ estimates'[s] = << >>
    BY <1>4 DEF Estimate
  <2>2. DOMAIN estimates'[s] = {} /\ pending'[s] \in Seq(DOMAIN estimates'[s])
    BY <2>1
  <2> QED
    BY <1>1, <1>2, <1>4, <2>1, <2>2 DEF SearchOf, Over
<1> QED
  BY <1>3, <1>4

LEMMA WidenKeepsSearch ==
  ASSUME SearchInv, NEW s \in Sides, Widen(s)
  PROVE  SearchOf(s)'
<1> USE SufficientStays
<1> DEFINE k == corridor[s]
           Refs(i) == References(Paths(s)[i], k)
           Resolved(i) == Resolves(Refs(i), k)
           Place(i) == {p \in DOMAIN pending[s] : Resolved(pending[s][p]) /\ pending[s][p] = i}
           Open == {p \in DOMAIN pending[s] : ~ Resolved(pending[s][p])}
           left == ElementsIn(pending[s], Open)
           I == DOMAIN estimates[s]
<1>1. UNCHANGED <<call, database>> /\ pc[s] = "radius" /\ database \in Databases
  BY DEF Widen, Step, data, SearchInv
<1>2. /\ SearchOf(s) /\ k \in 1 .. Corridors /\ Corridors \in Nat /\ s \in Running
      /\ pending[s] \in Seq(I)
  BY <1>1, EstimatorsAssumption DEF SearchInv, StopInv, SearchOf
<1>3. /\ estimates'[s] = [i \in I |-> IF Place(i) = {} THEN estimates[s][i]
                                      ELSE [corridor |-> k,
                                            paces |-> Medians(Refs(pending[s][CHOOSE p \in Place(i) : TRUE]))]]
      /\ pending'[s] = left
      /\ corridor'[s] = k + 1
      /\ pc'[s] = AfterRadius(left, k)
  BY DEF Widen, Step, Target, SearchInv, StopInv, Filtered, ElementsIn
<1>4. \A i : Resolved(i) <=> k \in Sufficient(s, i)
  BY <1>1, <1>2, ResolvesWhenSufficient
<1>5. /\ left \in Seq(I)
      /\ \A n \in DOMAIN left : \E p \in Open : left[n] = pending[s][p]
      /\ \A p \in Open : \E n \in DOMAIN left : left[n] = pending[s][p]
  <2>1. Open \subseteq DOMAIN pending[s]
    OBVIOUS
  <2>2. \A q \in Seq(I) : \A P : P \subseteq DOMAIN q =>
          /\ ElementsIn(q, P) \in Seq(I)
          /\ \A n \in DOMAIN ElementsIn(q, P) : \E p \in P : ElementsIn(q, P)[n] = q[p]
          /\ \A p \in P : \E n \in DOMAIN ElementsIn(q, P) : ElementsIn(q, P)[n] = q[p]
    BY ElementsAt
  <2> HIDE DEF Open, I, k
  <2> QED
    BY <1>2, <2>1, <2>2
<1>6. \A i \in I : Place(i) # {} => estimates'[s][i] = [corridor |-> k, paces |-> Medians(Refs(i))]
  <2> SUFFICES ASSUME NEW i \in I, Place(i) # {}
               PROVE  estimates'[s][i] = [corridor |-> k, paces |-> Medians(Refs(i))]
    OBVIOUS
  <2> DEFINE p == CHOOSE q \in Place(i) : TRUE
  <2>1. p \in Place(i)
    OBVIOUS
  <2>2. pending[s][p] = i
    BY <2>1
  <2> HIDE DEF p, Refs
  <2>3. estimates'[s][i] = [corridor |-> k, paces |-> Medians(Refs(pending[s][p]))]
    BY <1>3 DEF p
  <2> QED
    BY <2>2, <2>3
<1>7. \A i \in I : Place(i) = {} => estimates'[s][i] = estimates[s][i]
  BY <1>3
<1>8. DOMAIN estimates'[s] = I
  BY <1>3
<1>9. \A i \in I : Place(i) # {} <=> Resolved(i) /\ \E p \in DOMAIN pending[s] : pending[s][p] = i
  OBVIOUS
<1>10. \A i : (\E n \in DOMAIN left : left[n] = i)
                <=> ~ Resolved(i) /\ \E p \in DOMAIN pending[s] : pending[s][p] = i
  BY <1>5
<1> HIDE DEF left, Open, Place, Resolved
<1>11. ASSUME NEW i \in I PROVE Waits(s, i)' \/ Found(s, i)' \/ OfNetwork(s, i)'
  <2>1. CASE Waits(s, i) /\ Resolved(i)
    <3>1. Place(i) # {}
      BY <1>9, <2>1 DEF Waits
    <3>2. estimates'[s][i] = [corridor |-> k, paces |-> Medians(References(Paths(s)[i], k))]
      BY <1>6, <3>1
    <3>3. \A n \in DOMAIN pending'[s] : pending'[s][n] # i
      BY <1>3, <1>10, <2>1
    <3>4. k \in Sufficient(s, i) /\ \A j \in Sufficient(s, i) : k <= j
      BY <1>4, <2>1 DEF Waits
    <3> QED
      BY <1>1, <3>2, <3>3, <3>4 DEF Found
  <2>2. CASE Waits(s, i) /\ ~ Resolved(i)
    <3>1. Place(i) = {} /\ estimates[s][i] = Unresolved
      BY <1>9, <2>2 DEF Waits
    <3>2. estimates'[s][i] = Unresolved
      BY <1>7, <3>1
    <3>3. \E n \in DOMAIN pending'[s] : pending'[s][n] = i
      BY <1>3, <1>10, <2>2 DEF Waits
    <3>4. \A j \in Sufficient(s, i) : k + 1 <= j
      <4> SUFFICES ASSUME NEW j \in Sufficient(s, i) PROVE k + 1 <= j
        OBVIOUS
      <4>1. k <= j /\ j # k
        BY <1>4, <2>2 DEF Waits
      <4>2. j \in 1 .. Corridors
        BY DEF Sufficient
      <4> QED
        BY <1>2, <4>1, <4>2
    <3> QED
      BY <1>1, <1>3, <3>2, <3>3, <3>4 DEF Waits, Unresolved
  <2>3. CASE Found(s, i)
    <3>1. Place(i) = {}
      BY <1>9, <2>3 DEF Found
    <3>2. estimates'[s][i] = estimates[s][i]
      BY <1>7, <3>1
    <3>3. \A n \in DOMAIN pending'[s] : pending'[s][n] # i
      BY <1>3, <1>10, <2>3 DEF Found
    <3> QED
      BY <1>1, <2>3, <3>2, <3>3 DEF Found
  <2>4. ~ OfNetwork(s, i)
    BY <1>1 DEF OfNetwork, Over
  <2> QED
    BY <1>2, <2>1, <2>2, <2>3, <2>4 DEF SearchOf
<1>12. /\ k + 1 \in 1 .. Corridors + 1
       /\ AfterRadius(left, k) = "radius" => k + 1 \in 1 .. Corridors
       /\ AfterRadius(left, k) = "global" => k + 1 = Corridors + 1
       /\ AfterRadius(left, k) \in Over => left = << >>
       /\ AfterRadius(left, k) \notin {"called", "cells", "pairs", "failed"}
  BY <1>2 DEF AfterRadius, Over
<1>13. I = DOMAIN Paths(s)
  BY <1>1, <1>2 DEF SearchOf
<1> HIDE DEF k, I
<1> QED
  BY <1>1, <1>2, <1>3, <1>5, <1>8, <1>11, <1>12, <1>13 DEF SearchOf

LEMMA GlobalKeepsSearch ==
  ASSUME SearchInv, NEW s \in Sides, FindGlobal(s)
  PROVE  SearchOf(s)'
<1>1. UNCHANGED <<call, database>> /\ pc[s] = "global" /\ SearchOf(s) /\ s \in Running /\ corridor' = corridor
  BY DEF FindGlobal, Step, Fail, data, work, SearchInv, StopInv
<1>2. corridor[s] = Corridors + 1 /\ Corridors \in Nat
  BY <1>1, EstimatorsAssumption DEF SearchOf
<1>3. CASE ~ (database.global # None /\ validPaces(database.global))
  <2>1. Fail(s, "noReferences")
    BY <1>3 DEF FindGlobal
  <2>2. pc'[s] = "failed" /\ UNCHANGED <<pending, corridor, estimates>> /\ groupErr' # None
    BY <2>1, NoneIsNothing DEF Fail, Kept, work, Errors, SearchInv, StopInv
  <2> QED
    BY <1>1, <2>2, SearchMoves DEF Over
<1>4. CASE database.global # None /\ validPaces(database.global)
  <2> DEFINE I == DOMAIN estimates[s]
  <2>1. /\ estimates'[s] = [i \in I |-> IF estimates[s][i] = Unresolved
                                        THEN [corridor |-> 0, paces |-> database.global]
                                        ELSE estimates[s][i]]
        /\ pending'[s] = << >> /\ pc'[s] = "estimated"
    BY <1>4 DEF FindGlobal, Step, SearchInv, StopInv
  <2>2. I = DOMAIN Paths(s) /\ \A i \in I : Waits(s, i) \/ Found(s, i) \/ OfNetwork(s, i)
    BY <1>1 DEF SearchOf
  <2>3. ASSUME NEW i \in I PROVE Found(s, i)' \/ OfNetwork(s, i)'
    <3>1. \A k \in Sufficient(s, i) : k \in 1 .. Corridors
      BY DEF Sufficient
    <3>2. CASE Waits(s, i)
      <4>1. Sufficient(s, i) = {}
        BY <1>2, <3>1, <3>2 DEF Waits
      <4>2. estimates'[s][i] = [corridor |-> 0, paces |-> database.global]
        BY <2>1, <3>2 DEF Waits
      <4> QED
        BY <1>1, <2>1, <4>1, <4>2, SufficientStays DEF OfNetwork, Over
    <3>3. CASE Found(s, i)
      <4>1. estimates[s][i].corridor \in 1 .. Corridors /\ Unresolved.corridor = 0
        BY <3>1, <3>3 DEF Found, Unresolved
      <4>2. estimates[s][i] # Unresolved
        BY <4>1
      <4>3. estimates'[s][i] = estimates[s][i]
        BY <2>1, <4>2
      <4>4. \A p \in DOMAIN pending'[s] : pending'[s][p] # i
        BY <2>1
      <4> QED
        BY <1>1, <3>3, <4>3, <4>4, SufficientStays DEF Found
    <3>4. ~ OfNetwork(s, i)
      BY <1>1 DEF OfNetwork, Over
    <3> QED
      BY <2>2, <3>2, <3>3, <3>4
  <2>4. DOMAIN estimates'[s] = I /\ pending'[s] \in Seq(I)
    BY <2>1
  <2>5. corridor'[s] \in 1 .. Corridors + 1
    BY <1>1, <1>2
  <2> HIDE DEF I
  <2> QED
    BY <1>1, <2>1, <2>2, <2>3, <2>4, <2>5, SufficientStays DEF SearchOf, Over
<1> QED
  BY <1>3, <1>4

LEMMA SearchKept == SearchInv /\ [Next]_vars => SearchInv'
<1> SUFFICES ASSUME SearchInv, [Next]_vars PROVE SearchInv'
  OBVIOUS
<1>1. /\ StopInv' /\ pc \in [Sides -> Places] /\ groupErr # "internal"
      /\ \A s \in Sides : SearchOf(s)
  BY StopsKept DEF SearchInv, StopInv
<1> DEFINE Shapes == /\ pending' = [s \in Sides |-> pending'[s]]
                     /\ corridor' = [s \in Sides |-> corridor'[s]]
                     /\ estimates' = [s \in Sides |-> estimates'[s]]
                     /\ UNCHANGED <<call, database>>
<1>2. ASSUME Shapes, \A s \in Sides : SearchOf(s)' PROVE SearchInv'
  BY <1>1, <1>2 DEF SearchInv
<1>3. ASSUME UNCHANGED <<call, database, pending, corridor, estimates>> PROVE Shapes
  BY <1>3 DEF SearchInv
<1>4. ASSUME NEW s \in Sides, Shapes, SearchOf(s)', groupErr # None => groupErr' # None,
             \A r \in Sides \ {s} : /\ pc'[r] = pc[r] /\ pending'[r] = pending[r]
                                    /\ corridor'[r] = corridor[r] /\ estimates'[r] = estimates[r]
      PROVE  SearchInv'
  <2>1. \A r \in Sides \ {s} : SearchOf(r)'
    BY <1>1, <1>4, SearchRests
  <2> HIDE DEF Shapes
  <2> QED
    BY <1>2, <1>4, <2>1
<1>5. ASSUME UNCHANGED <<call, database, pending, corridor, estimates, pc, groupErr>> PROVE SearchInv'
  <2>1. \A s \in Sides : SearchOf(s)'
    BY <1>1, <1>5, SearchRests
  <2> QED
    BY <1>2, <1>3, <1>5, <2>1
<1>6. CASE Estimate
  <2>1. \A s \in Sides : SearchOf(s)'
    BY <1>6, EstimateKeepsSearch
  <2>2. Shapes
    BY <1>6 DEF Estimate, data, SearchInv
  <2> QED
    BY <1>2, <2>1, <2>2
<1>7. CASE Wait
  <2>1. UNCHANGED <<call, database, pending, corridor, estimates, groupErr>>
    BY <1>7 DEF Wait, data, work
  <2>2. ASSUME NEW s \in Sides PROVE SearchOf(s)'
    <3>1. pc[s] \in {"estimated", "failed"} /\ (pc[s] = "failed" => groupErr # None)
      BY <1>1, <1>7 DEF Wait, SearchOf
    <3>2. pc'[s] = pc[s] \/ (pc[s] = "estimated" /\ pc'[s] \in {"charge", "charged"})
      BY <1>7, <3>1 DEF Wait, GroupAnswer
    <3> QED
      BY <1>1, <2>1, <3>1, <3>2, SearchMoves DEF Over
  <2> QED
    BY <1>2, <1>3, <2>1, <2>2
<1>8. ASSUME NEW s \in Sides, FindCells(s) PROVE SearchInv'
  <2>1. /\ UNCHANGED <<call, database, pending, corridor, estimates, groupErr>>
        /\ pc[s] = "cells" /\ pc' = [pc EXCEPT ![s] = "pairs"]
    BY <1>8 DEF FindCells, Step, data
  <2>2. corridor[s] = 1
    BY <1>1, <2>1 DEF SearchOf
  <2>3. SearchOf(s)'
    BY <1>1, <2>1, <2>2, SearchMoves DEF Over
  <2> QED
    BY <1>1, <1>3, <1>4, <2>1, <2>3
<1>9. ASSUME NEW s \in Sides, FindPairs(s) PROVE SearchInv'
  <2>1. /\ UNCHANGED <<call, database, pending, corridor, estimates, groupErr>>
        /\ pc[s] = "pairs" /\ pc' = [pc EXCEPT ![s] = "radius"]
    BY <1>9 DEF FindPairs, Step, data
  <2>2. corridor[s] \in 1 .. Corridors
    BY <1>1, <2>1, EstimatorsAssumption DEF SearchOf
  <2>3. SearchOf(s)'
    BY <1>1, <2>1, <2>2, SearchMoves DEF Over
  <2> QED
    BY <1>1, <1>3, <1>4, <2>1, <2>3
<1>10. ASSUME NEW s \in Sides, Widen(s) PROVE SearchInv'
  <2>1. SearchOf(s)'
    BY <1>10, WidenKeepsSearch
  <2>2. Shapes
    BY <1>10 DEF Widen, Step, data, SearchInv
  <2>3. /\ UNCHANGED groupErr
        /\ \A r \in Sides \ {s} : /\ pc'[r] = pc[r] /\ pending'[r] = pending[r]
                                  /\ corridor'[r] = corridor[r] /\ estimates'[r] = estimates[r]
    BY <1>1, <1>10 DEF Widen, Step, SearchInv
  <2> QED
    BY <1>4, <2>1, <2>2, <2>3
<1>11. ASSUME NEW s \in Sides, FindGlobal(s) PROVE SearchInv'
  <2>1. SearchOf(s)'
    BY <1>11, GlobalKeepsSearch
  <2>2. Shapes
    BY <1>11 DEF FindGlobal, Step, Fail, data, work, SearchInv
  <2>3. /\ groupErr # None => groupErr' # None
        /\ \A r \in Sides \ {s} : /\ pc'[r] = pc[r] /\ pending'[r] = pending[r]
                                  /\ corridor'[r] = corridor[r] /\ estimates'[r] = estimates[r]
    BY <1>1, <1>11 DEF FindGlobal, Step, Fail, Kept, work, SearchInv
  <2> QED
    BY <1>4, <2>1, <2>2, <2>3
<1>12. ASSUME NEW s \in Sides, QueryFails(s) PROVE SearchInv'
  <2>1. PICK err \in QueryErrors(group) : Fail(s, err)
    BY <1>12 DEF QueryFails
  <2>2. /\ UNCHANGED <<call, database, pending, corridor, estimates>>
        /\ pc[s] \in {"cells", "pairs", "radius", "global"} /\ pc' = [pc EXCEPT ![s] = "failed"]
        /\ groupErr' # None
    BY <1>12, <2>1, NoneIsNothing DEF QueryFails, Fail, Kept, QueryErrors, Errors, data, work
  <2>3. SearchOf(s)'
    BY <1>1, <2>2, SearchMoves DEF Over
  <2> QED
    BY <1>1, <1>3, <1>4, <2>2, <2>3
<1>13. ASSUME NEW s \in Sides, Charge(s) PROVE SearchInv'
  <2>1. /\ UNCHANGED <<call, database, pending, corridor, estimates, groupErr>>
        /\ pc[s] = "charge" /\ (pc' = pc \/ pc' = [pc EXCEPT ![s] = "charged"])
    BY <1>13 DEF Charge, Turn, data, work
  <2>2. SearchOf(s)'
    BY <1>1, <2>1, SearchMoves DEF Over
  <2> QED
    BY <1>1, <1>3, <1>4, <2>1, <2>2
<1>14. CASE Reject \/ EndContext \/ UpdateTariffs \/ UNCHANGED vars \/ \E s \in Sides : ChargeFails(s)
  <2>1. UNCHANGED <<call, database, pending, corridor, estimates, pc, groupErr>>
    BY <1>14 DEF Reject, EndContext, UpdateTariffs, ChargeFails, vars, data, work
  <2> QED
    BY <1>5, <2>1
<1> QED
  BY <1>6, <1>7, <1>8, <1>9, <1>10, <1>11, <1>12, <1>13, <1>14 DEF Next, Goroutine, Terminated

(* However the two searches interleave and whoever fails, a segment that is *)
(* estimated has its paces from the narrowest corridor with enough lines,   *)
(* and from the whole network only when no corridor has.                    *)
THEOREM NarrowestIsChosen == Spec => []NarrowestCorridor
<1>1. SearchInv => NarrowestCorridor
  <2> SUFFICES ASSUME SearchInv, NEW s \in Running, pc[s] \in Over, NEW i \in DOMAIN Paths(s)
               PROVE  estimates[s][i].corridor = IF Sufficient(s, i) = {} THEN 0 ELSE Min(Sufficient(s, i))
    BY DEF NarrowestCorridor, Over
  <2>1. s \in Sides /\ SearchOf(s)
    BY DEF SearchInv, Running, Sides
  <2>2. Waits(s, i) \/ Found(s, i) \/ OfNetwork(s, i)
    BY <2>1 DEF SearchOf, Over
  <2>3. ~ Waits(s, i)
    BY <2>1 DEF SearchOf, Waits
  <2>4. CASE Found(s, i)
    <3>1. PICK k \in Sufficient(s, i) :
            (\A j \in Sufficient(s, i) : k <= j) /\ estimates[s][i].corridor = k
      BY <2>4 DEF Found
    <3>2. Sufficient(s, i) \subseteq Nat
      BY EstimatorsAssumption DEF Sufficient
    <3>3. /\ Min(Sufficient(s, i)) \in Sufficient(s, i)
          /\ \A j \in Sufficient(s, i) : Min(Sufficient(s, i)) <= j
      BY <3>1, <3>2, MinIsLeast
    <3>4. k = Min(Sufficient(s, i))
      BY <3>1, <3>2, <3>3
    <3> QED
      BY <3>1, <3>4
  <2> QED
    BY <2>2, <2>3, <2>4 DEF OfNetwork
<1> QED
  BY SearchInitially, SearchKept, <1>1, PTL DEF Spec

(* The paces of a segment that a corridor resolves are medians of the lines *)
(* of that corridor, however their fragments and weights are distributed.   *)
THEOREM LinesAreBalanced == Spec => []PacesAreMedian
<1>1. SearchInv => PacesAreMedian
  <2> SUFFICES ASSUME SearchInv, NEW s \in Running, NEW i \in DOMAIN estimates[s],
                      estimates[s][i].corridor > 0, NEW c \in Scenarios
               PROVE  Balanced(consolidateRoutes(References(Paths(s)[i], estimates[s][i].corridor)),
                               estimates[s][i].paces[c], c)
    BY DEF PacesAreMedian
  <2>1. s \in Sides /\ SearchOf(s) /\ database \in Databases
    BY DEF SearchInv, Running, Sides
  <2>2. Waits(s, i) \/ Found(s, i) \/ OfNetwork(s, i)
    BY <2>1 DEF SearchOf
  <2>3. ~ Waits(s, i) /\ ~ OfNetwork(s, i)
    BY DEF Waits, OfNetwork, Unresolved
  <2>4. PICK k \in Sufficient(s, i) :
          estimates[s][i] = [corridor |-> k, paces |-> Medians(References(Paths(s)[i], k))]
    BY <2>2, <2>3 DEF Found
  <2>5. estimates[s][i].corridor = k /\ estimates[s][i].paces = Medians(References(Paths(s)[i], k))
    BY <2>4
  <2>6. k \in 1 .. Corridors
    BY DEF Sufficient
  <2> QED
    BY <2>1, <2>5, <2>6, ResolvesWhenSufficient
<1> QED
  BY SearchInitially, SearchKept, <1>1, PTL DEF Spec

-----------------------------------------------------------------------------
(* The shape of the state needs the search: which corridor comes next, and  *)
(* whose segments are pending.                                              *)
TypeInv ==
  /\ SearchInv /\ CauseInv
  /\ tariffs \in TariffTables
  /\ updates \in 0 .. MaxUpdates
  /\ answer \in Errors \cup {None, "ok"}

LEMMA TypeInitially == Init => TypeInv
<1>1. Init => 0 \in 0 .. MaxUpdates
  BY ComparisonAssumption
<1> QED
  BY <1>1, SearchInitially, CauseInitially DEF Init, TypeInv

LEMMA TypeKept == TypeInv /\ [Next]_vars => TypeInv'
<1> SUFFICES ASSUME TypeInv, [Next]_vars PROVE TypeInv'
  OBVIOUS
<1>1. SearchInv' /\ CauseInv'
  BY SearchKept, CauseKept DEF TypeInv
<1>2. CASE UpdateTariffs
  <2>1. updates' \in 0 .. MaxUpdates
    BY <1>2, ComparisonAssumption DEF UpdateTariffs, TypeInv
  <2> QED
    BY <1>1, <1>2, <2>1 DEF UpdateTariffs, TypeInv
<1>3. ASSUME UNCHANGED <<tariffs, updates>>, answer' \in Errors \cup {None, "ok"} PROVE TypeInv'
  BY <1>1, <1>3 DEF TypeInv
<1>4. CASE Reject
  BY <1>3, <1>4 DEF Reject, Errors
<1>5. CASE Wait
  BY <1>3, <1>5 DEF Wait, GroupAnswer, TypeInv, CauseInv, Errors
<1>6. ASSUME NEW s \in Sides, Charge(s) PROVE TypeInv'
  BY <1>3, <1>6 DEF Charge, Fault, Errors
<1>7. ASSUME NEW s \in Sides, ChargeFails(s) PROVE TypeInv'
  BY <1>3, <1>7 DEF ChargeFails, QueryErrors, Errors
<1>8. CASE Estimate \/ EndContext \/ UNCHANGED vars \/ \E s \in Sides : Goroutine(s)
  <2>1. UNCHANGED <<tariffs, updates, answer>>
    BY <1>8 DEF Estimate, EndContext, vars, Goroutine, FindCells, FindPairs, Widen, FindGlobal, QueryFails,
                Step, Fail
  <2> QED
    BY <1>3, <2>1 DEF TypeInv
<1> QED
  BY <1>2, <1>4, <1>5, <1>6, <1>7, <1>8 DEF Next, Terminated

(* Everybody is somewhere, what failed has a name, a goroutine never looks  *)
(* past the last corridor nor for a segment the route does not have.        *)
THEOREM TypeCorrect == Spec => []TypeOK
<1>1. TypeInv => TypeOK
  <2> SUFFICES ASSUME TypeInv PROVE TypeOK
    OBVIOUS
  <2>1. \A s \in Sides : SearchOf(s)
    BY DEF TypeInv, SearchInv
  <2>2. corridor \in [Sides -> 1 .. Corridors + 1]
    BY <2>1 DEF TypeInv, SearchInv, SearchOf
  <2>3. \A s \in Sides : \A p \in DOMAIN pending[s] : pending[s][p] \in DOMAIN estimates[s]
    <3> SUFFICES ASSUME NEW s \in Sides, NEW p \in DOMAIN pending[s]
                 PROVE  pending[s][p] \in DOMAIN estimates[s]
      OBVIOUS
    <3> DEFINE I == DOMAIN estimates[s]
               q == pending[s]
    <3>1. q \in Seq(I)
      BY <2>1 DEF SearchOf
    <3> HIDE DEF I, q
    <3>2. \A n \in DOMAIN q : q[n] \in I
      BY <3>1, ElementsOf
    <3> QED
      BY <3>2 DEF I, q
  <2>4. \A s \in Sides : pc[s] = "radius" => corridor[s] \in 1 .. Corridors
    BY <2>1 DEF SearchOf
  <2> QED
    BY <2>2, <2>3, <2>4 DEF TypeInv, SearchInv, StopInv, CauseInv, TypeOK, Places
<1> QED
  BY TypeInitially, TypeKept, <1>1, PTL DEF Spec

-----------------------------------------------------------------------------
(* The trips that a route serves.  Its cells are those of one stop each, so *)
(* a trip between two cells is of one pair of stops.                        *)
Assigned(s, found) ==
  /\ IsFiniteSet(found)
  /\ \A c \in found : /\ c.stop \in DOMAIN Stops(s)
                      /\ c.cell \in Reached(s)
                      /\ c.distance \in Nat
  /\ \A c, d \in found : c.cell = d.cell => c = d

LEMMA CellsAreAssigned ==
  ASSUME call \in Calls, database \in Databases, NEW s \in Sides, Validate(Route(s))
  PROVE  Assigned(s, assignCells(FindCellCandidates(Stops(s), database.near)))
<1> DEFINE near == database.near
           N == {q \in (DOMAIN Stops(s)) \X near : q[2].stop = Stops(s)[q[1]] /\ q[2].distance < Radius}
           candidate == [q \in N |-> [cell |-> q[2].cell, stop |-> q[1], distance |-> q[2].distance]]
           C == FindCellCandidates(Stops(s), near)
           A == assignCells(C)
<1>1. IsFiniteSet(near) /\ \A n \in near : n.distance \in Nat
  BY ComparisonAssumption DEF DatabaseOK
<1>2. DOMAIN Stops(s) = 1 .. Len(Stops(s)) /\ Len(Stops(s)) \in Nat
  BY RoutesHaveSegments
<1>3. C = {[cell |-> q[2].cell, stop |-> q[1], distance |-> q[2].distance] : q \in N}
  BY DEF FindCellCandidates
<1>4. IsFiniteSet(N)
  <2> DEFINE D == DOMAIN Stops(s)
  <2>1. IsFiniteSet(D)
    BY <1>2, FS_Interval
  <2> HIDE DEF D
  <2>2. IsFiniteSet(D \X near)
    BY <1>1, <2>1, FS_Product
  <2>3. N \subseteq D \X near
    BY DEF D
  <2> QED
    BY <2>2, <2>3, FS_Subset
<1>5. IsFiniteSet(C)
  <2>1. candidate \in Surjection(N, C)
    <3> HIDE DEF N, C
    <3> QED
      BY <1>3 DEF Surjection
  <2> QED
    BY <1>4, <2>1, FS_Surjection
<1>6. A \subseteq C
  BY DEF assignCells
<1>7. ASSUME NEW c \in C
      PROVE  /\ c.stop \in DOMAIN Stops(s) /\ c.stop \in Nat
             /\ c.cell \in Reached(s)
             /\ c.distance \in Nat
  <2>1. PICK q \in N : c = [cell |-> q[2].cell, stop |-> q[1], distance |-> q[2].distance]
    BY <1>3
  <2>2. c.cell = q[2].cell /\ c.stop = q[1] /\ c.distance = q[2].distance
    BY <2>1
  <2>3. q[1] \in DOMAIN Stops(s) /\ q[2] \in near /\ q[2].stop = Stops(s)[q[1]] /\ q[2].distance < Radius
    OBVIOUS
  <2>4. q[2].cell \in Reached(s)
    BY <2>3 DEF Reached, Range
  <2> QED
    BY <1>1, <1>2, <2>2, <2>3, <2>4
<1> HIDE DEF C
<1>8. ASSUME NEW c \in A, NEW d \in A, c.cell = d.cell, c # d PROVE FALSE
  <2>1. candidatePrecedes(c, d) /\ candidatePrecedes(d, c)
    BY <1>8 DEF assignCells
  <2>2. c.distance \in Nat /\ d.distance \in Nat /\ c.stop \in Nat /\ d.stop \in Nat
    BY <1>6, <1>7
  <2> QED
    BY <2>1, <2>2 DEF candidatePrecedes
<1>9. IsFiniteSet(A)
  BY <1>5, <1>6, FS_Subset
<1> HIDE DEF A
<1> QED
  BY <1>6, <1>7, <1>8, <1>9 DEF Assigned, A, C

(* A trip with the cells of its ends.                                       *)
LEMMA TriplesAreFinite ==
  ASSUME NEW found, IsFiniteSet(found), NEW trips, IsFiniteSet(trips)
  PROVE  IsFiniteSet(found \X found \X trips)
<1> DEFINE P == found \X found
           T == trips
           Q == P \X T
           f == [q \in Q |-> <<q[1][1], q[1][2], q[2]>>]
<1>1. IsFiniteSet(P)
  BY FS_Product
<1>2. IsFiniteSet(Q)
  <2>1. IsFiniteSet(T)
    OBVIOUS
  <2> HIDE DEF P, T
  <2> QED
    BY <1>1, <2>1, FS_Product
<1>3. f \in Surjection(Q, found \X found \X T)
  <2>1. f \in [Q -> found \X found \X T]
    OBVIOUS
  <2>2. \A x \in found \X found \X T : \E q \in Q : f[q] = x
    <3> TAKE x \in found \X found \X T
    <3> DEFINE q == <<<<x[1], x[2]>>, x[3]>>
    <3>1. q \in Q /\ q[1][1] = x[1] /\ q[1][2] = x[2] /\ q[2] = x[3]
      OBVIOUS
    <3>2. f[q] = <<x[1], x[2], x[3]>>
      BY <3>1
    <3> QED
      BY <3>1, <3>2
  <2> HIDE DEF Q, f
  <2> QED
    BY <2>1, <2>2 DEF Surjection
<1> HIDE DEF Q, f
<1> QED
  BY <1>2, <1>3, FS_Surjection

(* The demand between two stops is a sum of naturals over finitely many     *)
(* trips.                                                                   *)
LEMMA ServedIsFinite ==
  ASSUME database \in Databases, NEW s, NEW found, Assigned(s, found), NEW i, NEW j
  PROVE  LET served == Served(found, database.trips, i, j)
             count == [x \in served |-> x[3].count]
         IN /\ IsFiniteSet(served)
            /\ Gross(served) = Total(count, served)
            /\ Gross(served) \in Nat
            /\ Potential(served) \in Nat
<1> DEFINE served == Served(found, database.trips, i, j)
           count == [x \in served |-> x[3].count]
           weight == [x \in served |-> x[3].count * remainingAccessibility(x[1].distance)
                                                  * remainingAccessibility(x[2].distance)]
<1>1. IsFiniteSet(database.trips) /\ \A t \in database.trips : t.count \in Nat
  BY ComparisonAssumption DEF DatabaseOK
<1>2. IsFiniteSet(found) /\ \A c \in found : c.distance \in Nat
  BY DEF Assigned
<1>3. served \subseteq found \X found \X database.trips
  BY DEF Served
<1>4. IsFiniteSet(served)
  <2>1. IsFiniteSet(found \X found \X database.trips)
    BY <1>1, <1>2, TriplesAreFinite
  <2> HIDE DEF served
  <2> QED
    BY <1>3, <2>1, FS_Subset
<1>5. \A d \in Nat : remainingAccessibility(d) \in Nat
  BY EstimatorsAssumption DEF remainingAccessibility
<1>6. \A x \in served : x[1].distance \in Nat /\ x[2].distance \in Nat /\ x[3].count \in Nat
  BY <1>1, <1>2, <1>3
<1>7. \A a, b, c \in Nat : a * b * c \in Nat
  OBVIOUS
<1>8. Gross(served) = SumFunction(count) /\ Potential(served) = SumFunction(weight)
  BY DEF Gross, Potential
<1>9. \A x \in served : count[x] \in Nat /\ weight[x] \in Nat
  <2> SUFFICES ASSUME NEW x \in served PROVE count[x] \in Nat /\ weight[x] \in Nat
    OBVIOUS
  <2>1. /\ x[3].count \in Nat /\ remainingAccessibility(x[1].distance) \in Nat
        /\ remainingAccessibility(x[2].distance) \in Nat
    BY <1>5, <1>6
  <2>2. weight[x] = x[3].count * remainingAccessibility(x[1].distance) * remainingAccessibility(x[2].distance)
        /\ count[x] = x[3].count
    OBVIOUS
  <2> HIDE DEF weight, count
  <2> QED
    BY <1>7, <2>1, <2>2
<1>10. DOMAIN count = served /\ DOMAIN weight = served
  OBVIOUS
<1> HIDE DEF served, count, weight
<1>11. /\ SumFunction(count) = Total(count, served) /\ Total(count, served) \in Nat
       /\ SumFunction(weight) = Total(weight, served) /\ Total(weight, served) \in Nat
  BY <1>4, <1>9, <1>10, SumOfFunction, TotalType
<1> QED
  BY <1>4, <1>8, <1>11 DEF served, count

(* The trips of the matrix that a route may serve, and how many each is.    *)
Reachable(s) == {u \in database.trips : {u.from, u.to} \subseteq Reached(s)}

Counts(s) == [t \in Reachable(s) |-> t.count]

(* A trip is of one pair of stops at most: what the pairs add up to is at   *)
(* most what the trips are.                                                 *)
LEMMA DemandIsOfTrips ==
  ASSUME database \in Databases, NEW s \in Sides, NEW found, Assigned(s, found)
  PROVE  LET P == DemandByStopPair(found, database.trips)
             gross == [p \in P |-> p.gross]
         IN /\ IsFiniteSet(P)
            /\ \A p \in P : p.gross \in Nat /\ p.potential \in Nat
            /\ Total(gross, P) <= SumFunction(Counts(s))
<1> DEFINE trips == database.trips
           P == DemandByStopPair(found, trips)
           gross == [p \in P |-> p.gross]
           Of(i, j) == Served(found, trips, i, j)
           Pair(i, j) == [origin |-> i, destination |-> j, gross |-> Gross(Of(i, j)),
                          potential |-> Potential(Of(i, j))]
           St == {c.stop : c \in found}
           Q == {q \in St \X St : q[1] < q[2] /\ Of(q[1], q[2]) # {}}
           U == {x \in found \X found \X trips :
                   x[1].stop < x[2].stop /\ x[3].from = x[1].cell /\ x[3].to = x[2].cell}
           w == [x \in U |-> x[3].count]
           f == [x \in U |-> Pair(x[1].stop, x[2].stop)]
           R == Reachable(s)
           g == [x \in U |-> x[3]]
           h == [u \in R |-> Total(w, {x \in U : g[x] = u})]
<1>1. IsFiniteSet(trips) /\ \A t \in trips : t.count \in Nat
  BY ComparisonAssumption DEF DatabaseOK
<1>2. IsFiniteSet(found) /\ \A c, d \in found : c.cell = d.cell => c = d
  BY DEF Assigned
<1>3. P = {Pair(q[1], q[2]) : q \in Q}
  BY DEF DemandByStopPair, Downstream
<1>4. /\ \A i, j : /\ Pair(i, j).origin = i /\ Pair(i, j).destination = j
                   /\ Pair(i, j).gross = Gross(Of(i, j))
                   /\ Pair(i, j).potential = Potential(Of(i, j))
  OBVIOUS
<1>5. \A x : x \in U <=> /\ x \in found \X found \X trips
                         /\ x[1].stop < x[2].stop /\ x[3].from = x[1].cell /\ x[3].to = x[2].cell
  OBVIOUS
<1>6. \A i, j, x : x \in Of(i, j) <=> /\ x \in found \X found \X trips
                                      /\ x[1].stop = i /\ x[2].stop = j
                                      /\ x[3].from = x[1].cell /\ x[3].to = x[2].cell
  BY DEF Served
<1>7. \A q : q \in Q <=> q \in St \X St /\ q[1] < q[2] /\ Of(q[1], q[2]) # {}
  OBVIOUS
<1>8. \A i, j : LET count == [x \in Of(i, j) |-> x[3].count]
                IN /\ IsFiniteSet(Of(i, j))
                   /\ Gross(Of(i, j)) = Total(count, Of(i, j))
                   /\ Gross(Of(i, j)) \in Nat /\ Potential(Of(i, j)) \in Nat
  BY ServedIsFinite
<1>9. IsFiniteSet(St)
  <2> DEFINE stop == [c \in found |-> c.stop]
  <2>1. stop \in Surjection(found, St)
    BY DEF Surjection
  <2> HIDE DEF St, stop
  <2> QED
    BY <1>2, <2>1, FS_Surjection
<1>10. \A c \in found : c.stop \in St
  OBVIOUS
<1> HIDE DEF Of, Pair, St, Q, U, P, trips
<1>11. IsFiniteSet(Q)
  <2>1. IsFiniteSet(St \X St)
    BY <1>9, FS_Product
  <2>2. Q \subseteq St \X St
    BY <1>7
  <2> QED
    BY <2>1, <2>2, FS_Subset
<1>12. IsFiniteSet(P)
  <2> DEFINE pair == [q \in Q |-> Pair(q[1], q[2])]
  <2>1. pair \in Surjection(Q, P)
    BY <1>3 DEF Surjection
  <2> HIDE DEF pair
  <2> QED
    BY <1>11, <2>1, FS_Surjection
<1>13. IsFiniteSet(U)
  <2>1. IsFiniteSet(found \X found \X trips)
    BY <1>1, <1>2, TriplesAreFinite
  <2>2. U \subseteq found \X found \X trips
    BY <1>5
  <2> QED
    BY <2>1, <2>2, FS_Subset
<1>14. IsFiniteSet(R) /\ \A u \in R : u.count \in Nat
  <2>1. R \subseteq trips
    BY DEF Reachable, trips
  <2> HIDE DEF R
  <2> QED
    BY <1>1, <2>1, FS_Subset
<1>15. \A x \in U : w[x] = x[3].count /\ w[x] \in Nat
  BY <1>1, <1>5
<1>16. \A p \in P : p.gross \in Nat /\ p.potential \in Nat
  BY <1>3, <1>4, <1>8
<1>17. Total(gross, P) = Total(w, U)
  <2>1. \A x \in U : f[x] \in P
    <3> SUFFICES ASSUME NEW x \in U PROVE Pair(x[1].stop, x[2].stop) \in P
      OBVIOUS
    <3> DEFINE q == <<x[1].stop, x[2].stop>>
    <3>1. q \in St \X St /\ q[1] = x[1].stop /\ q[2] = x[2].stop
      BY <1>5, <1>10
    <3>2. x \in Of(q[1], q[2]) /\ q[1] < q[2]
      BY <1>5, <1>6, <3>1
    <3>3. q \in Q
      BY <1>7, <3>1, <3>2
    <3> HIDE DEF q
    <3> QED
      BY <1>3, <3>1, <3>3
  <2>2. ASSUME NEW p \in P PROVE gross[p] = Total(w, {x \in U : f[x] = p})
    <3>1. PICK q \in Q : p = Pair(q[1], q[2])
      BY <1>3
    <3> DEFINE V == Of(q[1], q[2])
               count == [x \in V |-> x[3].count]
    <3>2. gross[p] = Total(count, V)
      BY <1>4, <1>8, <3>1
    <3>3. V = {x \in U : f[x] = p}
      <4>1. \A x \in V : x \in U /\ f[x] = p
        BY <1>5, <1>6, <1>7, <3>1
      <4>2. ASSUME NEW x \in U, f[x] = p PROVE x \in V
        <5>1. Pair(x[1].stop, x[2].stop) = Pair(q[1], q[2])
          BY <3>1, <4>2
        <5>2. x[1].stop = q[1] /\ x[2].stop = q[2]
          BY <1>4, <5>1
        <5> QED
          BY <1>5, <1>6, <5>2
      <4> HIDE DEF V, f
      <4> QED
        BY <4>1, <4>2
    <3>4. \A x \in V : count[x] = w[x]
      BY <3>3
    <3> HIDE DEF V, count, w, f
    <3>5. Total(count, V) = Total(w, V)
      BY <3>4, TotalOfEqual
    <3> QED
      BY <3>2, <3>3, <3>5
  <2> HIDE DEF gross, w, f
  <2>3. ByParts(w, U, f, gross, P)
    BY <1>12, <1>13, <1>15, <2>1, <2>2 DEF ByParts
  <2> QED
    BY <2>3, TotalByParts
<1>18. Total(h, R) = Total(w, U)
  <2>1. \A x \in U : g[x] \in R
    <3> SUFFICES ASSUME NEW x \in U PROVE x[3] \in R
      OBVIOUS
    <3>1. x[1] \in found /\ x[2] \in found /\ x[3] \in trips /\ x[3].from = x[1].cell /\ x[3].to = x[2].cell
      BY <1>5
    <3>2. x[1].cell \in Reached(s) /\ x[2].cell \in Reached(s)
      BY <3>1 DEF Assigned
    <3> QED
      BY <3>1, <3>2 DEF Reachable, trips
  <2>2. \A u \in R : h[u] = Total(w, {x \in U : g[x] = u})
    OBVIOUS
  <2> HIDE DEF w, g, h, R
  <2>3. ByParts(w, U, g, h, R)
    BY <1>13, <1>14, <1>15, <2>1, <2>2 DEF ByParts
  <2> QED
    BY <2>3, TotalByParts
<1>19. ASSUME NEW u \in R PROVE h[u] \in Nat /\ h[u] <= u.count
  <2> DEFINE V == {x \in U : g[x] = u}
  <2>1. h[u] = Total(w, V)
    OBVIOUS
  <2>2. \A x, y \in V : x = y
    <3> SUFFICES ASSUME NEW x \in V, NEW y \in V PROVE x = y
      OBVIOUS
    <3>1. x \in U /\ y \in U /\ x[3] = y[3]
      OBVIOUS
    <3>2. /\ x \in found \X found \X trips /\ y \in found \X found \X trips
          /\ x[1].cell = y[1].cell /\ x[2].cell = y[2].cell
      BY <1>5, <3>1
    <3>3. x[1] = y[1] /\ x[2] = y[2]
      BY <1>2, <3>2
    <3> QED
      BY <3>1, <3>2, <3>3
  <2>3. \A x \in V : x \in U /\ w[x] = u.count
    BY <1>15
  <2> HIDE DEF V, w, h
  <2>4. CASE V = {}
    BY <1>14, <2>1, <2>4, TotalOfNothing
  <2>5. CASE V # {}
    <3>1. PICK x \in V : V = {x}
      BY <2>2, <2>5
    <3>2. Total(w, {x}) = w[x]
      BY <1>15, <2>3, TotalOfOne
    <3> QED
      BY <1>14, <2>1, <2>3, <3>1, <3>2
  <2> QED
    BY <2>4, <2>5
<1>20. Total(h, R) <= SumFunction(Counts(s))
  <2> DEFINE c == Counts(s)
  <2>1. DOMAIN c = R /\ \A u \in R : c[u] \in Nat /\ h[u] \in Nat /\ h[u] <= c[u]
    BY <1>14, <1>19 DEF Counts
  <2> HIDE DEF c, h, R
  <2>2. SumFunction(c) = Total(c, R)
    BY <1>14, <2>1, SumOfFunction
  <2>3. Total(h, R) <= Total(c, R)
    BY <1>14, <2>1, TotalIsMonotone
  <2> QED
    BY <2>2, <2>3 DEF c
<1>21. IsFiniteSet(P) /\ (\A p \in P : p.gross \in Nat /\ p.potential \in Nat)
       /\ Total(gross, P) <= SumFunction(Counts(s))
  BY <1>12, <1>16, <1>17, <1>18, <1>20
<1> QED
  BY <1>21 DEF P, trips

(* What the stops contribute adds up to the total.                          *)
PartSums(w, f, I) == [i \in I |-> SumFunction([p \in {q \in DOMAIN w : f[q] = i} |-> w[p]])]

LEMMA SumByStops ==
  ASSUME NEW P, IsFiniteSet(P), NEW w \in [P -> Nat], NEW I, IsFiniteSet(I), NEW f \in [P -> I]
  PROVE  SumFunction(PartSums(w, f, I)) = SumFunction(w)
<1> DEFINE t == PartSums(w, f, I)
<1>1. ASSUME NEW i \in I
      PROVE  t[i] = Total(w, {p \in P : f[p] = i}) /\ t[i] \in Nat
  <2> DEFINE S == {p \in P : f[p] = i}
             v == [p \in S |-> w[p]]
  <2>1. IsFiniteSet(S)
    BY FS_Subset
  <2>2. DOMAIN v = S /\ \A p \in S : v[p] = w[p] /\ v[p] \in Nat /\ w[p] \in Nat
    OBVIOUS
  <2>3. t[i] = SumFunction(v)
    BY DEF PartSums
  <2> HIDE DEF S, v, t
  <2>4. SumFunction(v) = Total(v, S) /\ Total(v, S) = Total(w, S) /\ Total(v, S) \in Nat
    BY <2>1, <2>2, SumOfFunction, TotalOfEqual, TotalType
  <2> QED
    BY <2>3, <2>4 DEF S
<1>2. DOMAIN t = I
  BY DEF PartSums
<1> HIDE DEF t
<1>3. ByParts(w, P, f, t, I)
  BY <1>1 DEF ByParts
<1>4. Total(t, I) = Total(w, P)
  BY <1>3, TotalByParts
<1>5. SumFunction(t) = Total(t, I)
  BY <1>1, <1>2, SumOfFunction
<1>6. SumFunction(w) = Total(w, P)
  BY SumOfFunction
<1> QED
  BY <1>4, <1>5, <1>6 DEF t

(* A fare is that of the first band that covers the distance.               *)
BandValues == [min : Nat, max : Nat, fare : Nat]

LEMMA FaresAreNatural ==
  ASSUME NEW bands \in Seq(BandValues), NEW distance, HasTariff(distance, bands)
  PROVE  tariffForDistance(distance, bands) \in Nat
<1> DEFINE T == {i \in DOMAIN bands : Covers(bands[i], distance)}
           First(i) == Covers(bands[i], distance) /\ \A j \in 1 .. i - 1 : ~ Covers(bands[j], distance)
<1>1. /\ Len(bands) \in Nat /\ DOMAIN bands = 1 .. Len(bands)
      /\ \A i \in 1 .. Len(bands) : bands[i] \in BandValues
  BY ElementsOf
<1>2. T # {} /\ T \subseteq Nat
  BY <1>1 DEF HasTariff
<1>3. PICK i \in T : \A j \in T : i <= j
  BY <1>2, LeastNatural
<1>4. First(i)
  <2> SUFFICES ASSUME NEW j \in 1 .. i - 1 PROVE ~ Covers(bands[j], distance)
    OBVIOUS
  <2>1. i \in 1 .. Len(bands)
    BY <1>1
  <2>2. j \in DOMAIN bands /\ j < i
    BY <1>1, <2>1
  <2>3. j \notin T
    BY <1>3, <2>1, <2>2
  <2> QED
    BY <2>2, <2>3
<1>5. tariffForDistance(distance, bands) = bands[CHOOSE k \in DOMAIN bands : First(k)].fare
  BY DEF tariffForDistance
<1>6. i \in DOMAIN bands
  OBVIOUS
<1> HIDE DEF First
<1>7. (CHOOSE k \in DOMAIN bands : First(k)) \in DOMAIN bands
  BY <1>4, <1>6
<1>8. \A b \in BandValues : b.fare \in Nat
  BY DEF BandValues
<1> QED
  BY <1>1, <1>5, <1>7, <1>8

(* The result of a route: no trip counts twice, as origin or destination or *)
(* for two pairs, in the demand or in the revenue.                          *)
CountedOnce(s, r) ==
  LET Sum(field) == SumFunction([i \in DOMAIN r.byStop |-> r.byStop[i][field]]) IN
  /\ r.gross <= SumFunction(Counts(s))
  /\ r.gross = Sum("originGross") /\ r.gross = Sum("destinationGross")
  /\ r.revenue = Sum("originRevenue") /\ r.revenue = Sum("destinationRevenue")

LEMMA ResultCountsOnce ==
  ASSUME call \in Calls, database \in Databases, NEW s \in Sides, Validate(Route(s)),
         NEW found, Assigned(s, found), pairs[s] = DemandByStopPair(found, database.trips),
         \A p \in pairs[s] : PairOf(s, p),
         NEW bands \in Seq(BandValues), Fault(s, bands) = None
  PROVE  CountedOnce(s, Result(s, bands))
<1> DEFINE P == pairs[s]
           I == DOMAIN Stops(s)
           Fare(p) == tariffForDistance(pairDistance(p, FareSegments(s)), bands)
           gross == [p \in P |-> p.gross]
           revenue == [p \in P |-> p.potential * Fare(p)]
           origin == [p \in P |-> p.origin]
           destination == [p \in P |-> p.destination]
           Gross1(i) == SumFunction([p \in {q \in P : q.origin = i} |-> p.gross])
           Gross2(i) == SumFunction([p \in {q \in P : q.destination = i} |-> p.gross])
           Revenue1(i) == SumFunction([p \in {q \in P : q.origin = i} |-> p.potential * Fare(p)])
           Revenue2(i) == SumFunction([p \in {q \in P : q.destination = i} |-> p.potential * Fare(p)])
           Stop(i) == [originGross |-> Gross1(i), destinationGross |-> Gross2(i),
                       originRevenue |-> Revenue1(i), destinationRevenue |-> Revenue2(i)]
           r == Result(s, bands)
<1>1. r.gross = SumFunction(gross) /\ r.revenue = SumFunction(revenue) /\ r.byStop = [i \in I |-> Stop(i)]
  BY DEF Result, GrossDemand
<1>2. \A i : /\ Stop(i).originGross = Gross1(i) /\ Stop(i).destinationGross = Gross2(i)
             /\ Stop(i).originRevenue = Revenue1(i) /\ Stop(i).destinationRevenue = Revenue2(i)
  OBVIOUS
<1>3. /\ IsFiniteSet(P) /\ \A p \in P : p.gross \in Nat /\ p.potential \in Nat
      /\ Total(gross, P) <= SumFunction(Counts(s))
  BY DemandIsOfTrips
<1>4. \A p \in P : Fare(p) \in Nat
  <2>1. \A p \in P : HasTariff(pairDistance(p, FareSegments(s)), bands)
    BY NoneIsNothing DEF Fault, Errors
  <2> QED
    BY <2>1, FaresAreNatural
<1>5. IsFiniteSet(I)
  <2>1. I = 1 .. Len(Stops(s)) /\ Len(Stops(s)) \in Nat
    BY RoutesHaveSegments
  <2> QED
    BY <2>1, FS_Interval
<1>6. \A p \in P : p.origin \in I /\ p.destination \in I
  BY DEF PairOf
<1> HIDE DEF P, I, Fare, Stop, r
<1>7. /\ DOMAIN gross = P /\ DOMAIN revenue = P
      /\ \A p \in P : /\ gross[p] = p.gross /\ gross[p] \in Nat
                      /\ revenue[p] = p.potential * Fare(p) /\ revenue[p] \in Nat
                      /\ origin[p] = p.origin /\ origin[p] \in I
                      /\ destination[p] = p.destination /\ destination[p] \in I
  BY <1>3, <1>4, <1>6
<1>8. \A i : /\ Gross1(i) = SumFunction([p \in {q \in P : origin[q] = i} |-> gross[p]])
             /\ Gross2(i) = SumFunction([p \in {q \in P : destination[q] = i} |-> gross[p]])
             /\ Revenue1(i) = SumFunction([p \in {q \in P : origin[q] = i} |-> revenue[p]])
             /\ Revenue2(i) = SumFunction([p \in {q \in P : destination[q] = i} |-> revenue[p]])
  <2> TAKE i
  <2>1. {q \in P : origin[q] = i} = {q \in P : q.origin = i}
    BY <1>7
  <2>2. {q \in P : destination[q] = i} = {q \in P : q.destination = i}
    BY <1>7
  <2>3. \A S \in SUBSET P : /\ [p \in S |-> gross[p]] = [p \in S |-> p.gross]
                            /\ [p \in S |-> revenue[p]] = [p \in S |-> p.potential * Fare(p)]
    BY <1>7
  <2> HIDE DEF gross, revenue, origin, destination
  <2>4. {q \in P : q.origin = i} \in SUBSET P /\ {q \in P : q.destination = i} \in SUBSET P
    OBVIOUS
  <2> QED
    BY <2>1, <2>2, <2>3, <2>4
<1>9. /\ gross \in [P -> Nat] /\ revenue \in [P -> Nat]
      /\ origin \in [P -> I] /\ destination \in [P -> I]
  BY <1>7
<1> DEFINE OG == [i \in I |-> Gross1(i)]
           DG == [i \in I |-> Gross2(i)]
           OR == [i \in I |-> Revenue1(i)]
           DR == [i \in I |-> Revenue2(i)]
<1> HIDE DEF gross, revenue, origin, destination, Gross1, Gross2, Revenue1, Revenue2
<1>10. DOMAIN gross = P /\ DOMAIN revenue = P
  BY <1>7
<1>11. /\ OG = PartSums(gross, origin, I) /\ DG = PartSums(gross, destination, I)
       /\ OR = PartSums(revenue, origin, I) /\ DR = PartSums(revenue, destination, I)
  BY <1>8, <1>10 DEF PartSums
<1>12. \A w \in [P -> Nat] : \A f \in [P -> I] : SumFunction(PartSums(w, f, I)) = SumFunction(w)
  BY <1>3, <1>5, SumByStops
<1>13. /\ SumFunction(OG) = SumFunction(gross) /\ SumFunction(DG) = SumFunction(gross)
       /\ SumFunction(OR) = SumFunction(revenue) /\ SumFunction(DR) = SumFunction(revenue)
  <2> HIDE DEF OG, DG, OR, DR
  <2> QED
    BY <1>9, <1>11, <1>12
<1>14. SumFunction(gross) = Total(gross, P)
  BY <1>3, <1>7, SumOfFunction
<1>15. /\ [i \in DOMAIN r.byStop |-> r.byStop[i]["originGross"]] = OG
       /\ [i \in DOMAIN r.byStop |-> r.byStop[i]["destinationGross"]] = DG
       /\ [i \in DOMAIN r.byStop |-> r.byStop[i]["originRevenue"]] = OR
       /\ [i \in DOMAIN r.byStop |-> r.byStop[i]["destinationRevenue"]] = DR
  <2>1. DOMAIN r.byStop = I /\ \A i \in I : r.byStop[i] = Stop(i)
    BY <1>1
  <2> QED
    BY <1>2, <2>1
<1>16. Total(gross, P) <= SumFunction(Counts(s))
  BY <1>3 DEF gross
<1> HIDE DEF OG, DG, OR, DR
<1> QED
  BY <1>1, <1>13, <1>14, <1>15, <1>16 DEF CountedOnce, r

CellsOf(s) == assignCells(FindCellCandidates(Stops(s), database.near))

CountInv ==
  /\ StopInv
  /\ database \in Databases /\ tariffs \in TariffTables
  /\ results = [s \in Sides |-> results[s]]
  /\ \A s \in Sides : /\ cells[s] \in {{}, CellsOf(s)}
                      /\ pairs[s] \in {DemandByStopPair({}, database.trips),
                                       DemandByStopPair(CellsOf(s), database.trips)}
                      /\ results[s] # None => CountedOnce(s, results[s])

LEMMA CountsInitially == Init => CountInv
<1>1. \A trips : DemandByStopPair({}, trips) = {}
  BY DEF DemandByStopPair
<1> QED
  BY <1>1, StopsInitially DEF Init, CountInv, Sides

LEMMA ChargeCounts ==
  ASSUME CountInv, NEW s \in Running, Accepted,
         Fault(s, tariffs[Route(s).jurisdiction]) = None
  PROVE  CountedOnce(s, Result(s, tariffs[Route(s).jurisdiction]))
<1> DEFINE bands == tariffs[Route(s).jurisdiction]
<1>1. s \in Sides /\ Validate(Route(s)) /\ call \in Calls /\ database \in Databases
  BY DEF CountInv, StopInv, Accepted, Running, Sides
<1>2. bands \in Seq(BandValues)
  <2>1. Route(s).jurisdiction \in Jurisdictions
    BY <1>1 DEF Validate
  <2> QED
    BY <2>1, ComparisonAssumption DEF CountInv, BandValues
<1>3. \E found : Assigned(s, found) /\ pairs[s] = DemandByStopPair(found, database.trips)
  <2>1. Assigned(s, {})
    BY FS_EmptySet DEF Assigned
  <2>2. Assigned(s, CellsOf(s))
    BY <1>1, CellsAreAssigned DEF CellsOf
  <2> QED
    BY <1>1, <2>1, <2>2 DEF CountInv
<1>4. \A p \in pairs[s] : PairOf(s, p)
  BY <1>1 DEF CountInv, StopInv
<1> HIDE DEF bands
<1>5. Fault(s, bands) = None
  BY DEF bands
<1>6. CountedOnce(s, Result(s, bands))
  BY <1>1, <1>2, <1>3, <1>4, <1>5, ResultCountsOnce
<1> QED
  BY <1>6 DEF bands

LEMMA CountsStay ==
  ASSUME UNCHANGED <<call, database>>
  PROVE  \A s : CellsOf(s)' = CellsOf(s) /\ Counts(s)' = Counts(s)
BY DEF CellsOf, Counts, Reachable, Reached, Stops, Route

LEMMA CountsKept == CountInv /\ [Next]_vars => CountInv'
<1> SUFFICES ASSUME CountInv, [Next]_vars PROVE CountInv'
  OBVIOUS
<1>1. StopInv'
  BY StopsKept DEF CountInv
<1>2. ASSUME UNCHANGED <<call, database>>, tariffs' \in TariffTables,
             results' = [s \in Sides |-> results'[s]],
             \A s \in Sides : /\ cells'[s] \in {{}, CellsOf(s)}
                              /\ pairs'[s] \in {DemandByStopPair({}, database.trips),
                                                DemandByStopPair(CellsOf(s), database.trips)}
                              /\ results'[s] # None => CountedOnce(s, results'[s])
      PROVE  CountInv'
  <2>1. \A s : CellsOf(s)' = CellsOf(s) /\ Counts(s)' = Counts(s)
    BY <1>2, CountsStay
  <2>2. \A s \in Sides : (results[s] # None => CountedOnce(s, results[s]))'
    <3> SUFFICES ASSUME NEW s \in Sides, results'[s] # None PROVE CountedOnce(s, results[s])'
      OBVIOUS
    <3>1. CountedOnce(s, results'[s])
      BY <1>2
    <3> QED
      BY <3>1, <2>1 DEF CountedOnce
  <2> QED
    BY <1>1, <1>2, <2>1, <2>2 DEF CountInv
<1>3. ASSUME NEW s \in Sides, FindCells(s) PROVE CountInv'
  <2>1. /\ UNCHANGED <<call, database, tariffs, pairs, results>>
        /\ cells' = [cells EXCEPT ![s] = CellsOf(s)]
    BY <1>3 DEF FindCells, Step, data, CellsOf
  <2>2. \A r \in Sides : cells'[r] \in {{}, CellsOf(r)}
    BY <2>1 DEF CountInv, StopInv
  <2> QED
    BY <1>2, <2>1, <2>2 DEF CountInv
<1>4. ASSUME NEW s \in Sides, FindPairs(s) PROVE CountInv'
  <2>1. /\ UNCHANGED <<call, database, tariffs, cells, results>>
        /\ pairs' = [pairs EXCEPT ![s] = DemandByStopPair(cells[s], database.trips)]
    BY <1>4 DEF FindPairs, Step, data
  <2>2. \A r \in Sides : pairs'[r] \in {DemandByStopPair({}, database.trips),
                                        DemandByStopPair(CellsOf(r), database.trips)}
    BY <2>1 DEF CountInv, StopInv
  <2> QED
    BY <1>2, <2>1, <2>2 DEF CountInv
<1>5. ASSUME NEW s \in Sides, Charge(s) PROVE CountInv'
  <2> DEFINE bands == tariffs[Route(s).jurisdiction]
  <2>1. UNCHANGED <<call, database, tariffs, cells, pairs>>
    BY <1>5 DEF Charge, data, work
  <2>2. \/ results' = results
        \/ Fault(s, bands) = None /\ results' = [results EXCEPT ![s] = Result(s, bands)]
    BY <1>5 DEF Charge
  <2>3. s \in Running /\ Accepted
    BY <1>5 DEF Charge, Turn, CountInv, StopInv
  <2>4. Fault(s, bands) = None => CountedOnce(s, Result(s, bands))
    BY <2>3, ChargeCounts
  <2> HIDE DEF bands
  <2>5. /\ results' = [r \in Sides |-> results'[r]]
        /\ \A r \in Sides : results'[r] # None => CountedOnce(r, results'[r])
    BY <2>2, <2>4 DEF CountInv
  <2> QED
    BY <1>2, <2>1, <2>5 DEF CountInv
<1>6. ASSUME UNCHANGED <<call, database, cells, pairs, results>>, tariffs' \in TariffTables PROVE CountInv'
  BY <1>2, <1>6 DEF CountInv
<1>7. CASE \/ Reject \/ Estimate \/ Wait \/ EndContext \/ UpdateTariffs \/ UNCHANGED vars
           \/ \E s \in Sides : Widen(s) \/ FindGlobal(s) \/ QueryFails(s) \/ ChargeFails(s)
  <2>1. UNCHANGED <<call, database, cells, pairs, results>> /\ tariffs' \in TariffTables
    BY <1>7 DEF Reject, Estimate, Wait, EndContext, UpdateTariffs, ChargeFails, Widen, FindGlobal, QueryFails,
                Step, Fail, data, work, vars, CountInv
  <2> QED
    BY <1>6, <2>1
<1> QED
  BY <1>3, <1>4, <1>5, <1>7 DEF Next, Goroutine, Terminated

(* Wherever the cells of the matrix are and however many stops each is near,*)
(* a result counts a trip once, and its totals are what its stops add up to.*)
THEOREM TripsCountOnce == Spec => []TripsAreCountedOnce
<1>1. CountInv => TripsAreCountedOnce
  BY DEF CountInv, TripsAreCountedOnce, CountedOnce, Counts, Reachable
<1> QED
  BY CountsInitially, CountsKept, <1>1, PTL DEF Spec
=================================================================================
