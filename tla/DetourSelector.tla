---------------------------- MODULE DetourSelector ----------------------------
(***************************************************************************)
(* Select of internal/simulation/detour/selector.go: which stops of an     *)
(* affected interval the detour keeps, and along which of the connections  *)
(* that pgRouting found.  The stops are ordered, so their connections form *)
(* a DAG and Select is a dynamic program over the stop a path ends at.     *)
(*                                                                         *)
(* A path is abstracted to the set of stops it keeps and its seconds: the  *)
(* caller (selectInterval) passes at most one connection for a pair of     *)
(* stops, so the stops determine the connections and their edge ids.       *)
(***************************************************************************)
EXTENDS Integers, FiniteSetsExt

CONSTANTS
  StopCount,   \* len(stops)
  Seconds,     \* the TravelSeconds a connection may have
  Tolerance,   \* travelTimeTieToleranceSeconds
  Unit,        \* what meaningful travel times are multiples of: see NoiseIsSmall
  NoPath,      \* no connection between two stops
  NoState      \* the nil *selectionState

(* validateSelectorInput refuses a negative, infinite or NaN travel time.   *)
ASSUME SelectorAssumption ==
  /\ StopCount \in Nat
  /\ Seconds \subseteq Nat
  /\ Tolerance \in Nat
  /\ Unit \in Nat \ {0}
  /\ NoPath \notin Nat
  /\ NoState \notin [kept : SUBSET (0 .. StopCount - 1), seconds : Nat]

Orders == 0 .. StopCount - 1
Pairs == {p \in Orders \X Orders : p[1] < p[2]}
Availabilities == {"forced", "optional", "required"}
Criteria == {"shortestTime", "fewestLostStops"}
State == [kept : SUBSET Orders, seconds : Nat]

VARIABLES
  availability,  \* stop -> its StopAvailability
  connection,    \* <<from, to>> -> TravelSeconds, or NoPath
  criterion,
  phase,         \* where Select is: see Open, Extend, Choose
  end,           \* the stop that the iteration of its loop is at
  incoming,      \* starts of the connections into end that it has yet to try
  bestByEnd,     \* stop -> its best path of one stop, and of at least two
  best           \* the selection, or NoState

Unreached == [alone |-> NoState, longer |-> NoState]

input == <<availability, connection, criterion>>
vars  == <<input, phase, end, incoming, bestByEnd, best>>

Init ==
  /\ availability \in [Orders -> Availabilities]
  /\ connection \in [Pairs -> Seconds \cup {NoPath}]
  /\ criterion \in Criteria
  /\ phase = "open"
  /\ end = 0
  /\ incoming = {}
  /\ bestByEnd = [k \in Orders |-> Unreached]
  /\ best = NoState

ContainsRequired(S) == \E k \in S : availability[k] = "required"

(* compareInts on the increasing sequences of two sets of stops.            *)
ListedBefore(K, L) ==
  LET differ == (K \ L) \cup (L \ K)
      m == Min(differ)
  IN /\ differ # {}
     /\ IF m \in K THEN \E l \in L : l > m ELSE \A k \in K : k < m

\* Mutant of Faster: without the tolerance.
FasterExactly(a, b) == a.seconds < b.seconds

Faster(a, b) == a.seconds < b.seconds - Tolerance

KeepsMore(a, b) == Cardinality(a.kept) > Cardinality(b.kept)

(* Lexicographic: by the two measures of the criterion, in its order, then  *)
(* by the stops kept.  Both states consider the same stops, so that fewer   *)
(* omitted is more kept.                                                    *)
StatePrecedes(a, b) ==
  LET First(x, y)  == IF criterion = "shortestTime" THEN Faster(x, y) ELSE KeepsMore(x, y)
      Second(x, y) == IF criterion = "shortestTime" THEN KeepsMore(x, y) ELSE Faster(x, y)
  IN \/ First(a, b)
     \/ /\ ~ First(b, a)
        /\ \/ Second(a, b)
           \/ ~ Second(b, a) /\ ListedBefore(a.kept, b.kept)

(* The better of two states, either of which may be nil; the current one    *)
(* stays when the candidate is no better.                                   *)
Improved(current, candidate) ==
  IF candidate # NoState /\ (current = NoState \/ StatePrecedes(candidate, current))
  THEN candidate ELSE current

-----------------------------------------------------------------------------
(* The first loop: every stop as the end of a path.                         *)
SkipForced ==
  /\ phase = "open"
  /\ end \in Orders
  /\ availability[end] = "forced"
  /\ end' = end + 1
  /\ UNCHANGED <<input, phase, incoming, bestByEnd, best>>

(* The path that begins at e, unless it would leave out a required stop.    *)
Alone(e) ==
  IF ContainsRequired(0 .. e - 1) THEN NoState ELSE [kept |-> {e}, seconds |-> 0]

Incoming(e) == {s \in 0 .. e - 1 : connection[<<s, e>>] # NoPath}

Open ==
  /\ phase = "open"
  /\ end \in Orders
  /\ availability[end] # "forced"
  /\ bestByEnd' = [bestByEnd EXCEPT ![end] = [alone |-> Alone(end), longer |-> NoState]]
  /\ incoming' = Incoming(end)
  /\ phase' = "extend"
  /\ UNCHANGED <<input, end, best>>

\* Mutant of Skips: the stops between the two are not looked at.
SkipsNothing(s, e) == FALSE

(* The connection passes by a required stop.                                *)
Skips(s, e) == ContainsRequired(s + 1 .. e - 1)

(* The candidate that continues a path to s along its connection to e.      *)
Continued(previous, s, e) ==
  IF previous = NoState THEN NoState
  ELSE [kept |-> previous.kept \cup {e}, seconds |-> previous.seconds + connection[<<s, e>>]]

\* Mutant of Extended: only the longer paths to s are continued.
ExtendedFromLong(s, e) ==
  Improved(bestByEnd[e].longer, Continued(bestByEnd[s].longer, s, e))

(* bestByEnd[e].longer once both categories of s were tried, in their order. *)
Extended(s, e) ==
  Improved(Improved(bestByEnd[e].longer, Continued(bestByEnd[s].alone, s, e)),
           Continued(bestByEnd[s].longer, s, e))

(* The connections into end are tried in the order of the argument, which   *)
(* may be any.                                                              *)
Extend ==
  /\ phase = "extend"
  /\ \E s \in incoming :
       /\ incoming' = incoming \ {s}
       /\ bestByEnd' = IF Skips(s, end) THEN bestByEnd
                       ELSE [bestByEnd EXCEPT ![end].longer = Extended(s, end)]
  /\ UNCHANGED <<input, phase, end, best>>

Close ==
  /\ phase = "extend"
  /\ incoming = {}
  /\ end' = end + 1
  /\ phase' = "open"
  /\ UNCHANGED <<input, incoming, bestByEnd, best>>

-----------------------------------------------------------------------------
(* The second loop: the best path of two stops or more that leaves out no   *)
(* required stop after its end.                                             *)
Rank ==
  /\ phase = "open"
  /\ end = StopCount
  /\ phase' = "choose"
  /\ end' = 0
  /\ UNCHANGED <<input, incoming, bestByEnd, best>>

Complete(e) == bestByEnd[e].longer # NoState /\ ~ ContainsRequired(e + 1 .. StopCount - 1)

Choose ==
  /\ phase = "choose"
  /\ end \in Orders
  /\ best' = IF Complete(end) THEN Improved(best, bestByEnd[end].longer) ELSE best
  /\ end' = end + 1
  /\ UNCHANGED <<input, phase, incoming, bestByEnd>>

(* Select returns best, or ErrorNoDetourWithinSearchArea when it is nil.    *)
Return ==
  /\ phase = "choose"
  /\ end = StopCount
  /\ phase' = "done"
  /\ UNCHANGED <<input, end, incoming, bestByEnd, best>>

Next == SkipForced \/ Open \/ Extend \/ Close \/ Rank \/ Choose \/ Return

Spec == Init /\ [][Next]_vars

-----------------------------------------------------------------------------
TypeOK ==
  /\ availability \in [Orders -> Availabilities]
  /\ connection \in [Pairs -> Seconds \cup {NoPath}]
  /\ criterion \in Criteria
  /\ phase \in {"open", "extend", "choose", "done"}
  /\ end \in 0 .. StopCount
  /\ phase # "extend" => incoming = {}
  /\ phase = "extend" =>
       end \in Orders /\ incoming \subseteq {s \in 0 .. end - 1 : connection[<<s, end>>] # NoPath}
  /\ bestByEnd \in [Orders -> [alone : State \cup {NoState}, longer : State \cup {NoState}]]
  /\ best \in State \cup {NoState}

(* Consecutive stops of K are connected.                                    *)
Chained(K) ==
  \A i, j \in K : i < j /\ K \cap (i + 1 .. j - 1) = {} => connection[<<i, j>>] # NoPath

(* K is a path over the stops S that keeps the required ones, none of the   *)
(* forced ones, and at least two.                                           *)
Path(K, S) ==
  /\ K \subseteq S
  /\ \A k \in S : /\ availability[k] = "required" => k \in K
                  /\ availability[k] = "forced" => k \notin K
  /\ Chained(K)

Feasible(K) == Path(K, Orders) /\ \E i, j \in K : i # j

(* "Required stops can never be skipped and forced stops can never be       *)
(* retained" (the comment of Select): what it returns is a path along the   *)
(* connections it was given, over at least two stops.                       *)
SelectionIsFeasible == phase = "done" /\ best # NoState => Feasible(best.kept)

(* Select fails only if no path exists: neither the skipped prefixes nor    *)
(* the states that were replaced could have become a solution.  Plan tells  *)
(* the caller that there is no detour, or that traffic coverage is missing, *)
(* on this account.                                                         *)
FailureIsReal == phase = "done" /\ best = NoState => \A K \in SUBSET Orders : ~ Feasible(K)

(* What the path over K takes: its connections, each known by where it ends. *)
Previous(K, j) == Max({i \in K : i < j})
Legs(K) == [j \in K \ {Min(K)} |-> connection[<<Previous(K, j), j>>]]
PathSeconds(K) == SumFunction(Legs(K))

(* The same without its noise.                                              *)
Genuine(K) == PathSeconds(K) \div Unit

(* "Differences below one nanosecond are numerical noise, not a meaningful  *)
(* traffic-time advantage": a travel time is a multiple of Unit and noise,  *)
(* the noise of a whole path is within the tolerance, and adds up with it   *)
(* to less than a unit.                                                     *)
NoiseIsSmall ==
  \E noise \in 0 .. Tolerance :
    /\ \A c \in Seconds : c % Unit <= noise
    /\ (StopCount - 1) * noise <= Tolerance
    /\ 2 * Tolerance < Unit

(* The criterion, from the documentation of the two values: the faster path *)
(* or the one that keeps more, then the other measure, then the order.      *)
Preferred(K, L) ==
  LET Shorter == Genuine(K) < Genuine(L)
      Fuller == Cardinality(K) > Cardinality(L)
      AsFull == Cardinality(K) = Cardinality(L)
  IN \/ IF criterion = "shortestTime" THEN Shorter \/ (Genuine(K) = Genuine(L) /\ Fuller)
                                     ELSE Fuller \/ (AsFull /\ Shorter)
     \/ Genuine(K) = Genuine(L) /\ AsFull /\ ListedBefore(K, L)

(* The dynamic program finds the best path of all, and the same one in      *)
(* whatever order the connections come: a prefix that loses at its end      *)
(* never was the start of the best path, and noise below the tolerance      *)
(* decides nothing.                                                         *)
SelectionIsBest ==
  phase = "done" /\ best # NoState =>
    /\ best.seconds = PathSeconds(best.kept)
    /\ \A K \in SUBSET Orders : Feasible(K) /\ K # best.kept => Preferred(best.kept, K)
=============================================================================
