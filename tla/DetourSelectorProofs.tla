------------------------- MODULE DetourSelectorProofs -------------------------
(* Theorems of DetourSelector for every number of stops, every availability *)
(* of them and every set of connections.                                    *)
EXTENDS DetourSelector, Collections

LEMMA ImprovedChoosesOne ==
  ASSUME NEW a, NEW b
  PROVE  /\ Improved(a, b) \in {a, b}
         /\ Improved(a, b) = NoState => a = NoState /\ b = NoState
  BY DEF Improved

LEMMA ContinuedIsState ==
  ASSUME TypeOK, NEW e \in Orders, NEW s \in Orders, s < e, connection[<<s, e>>] # NoPath,
         NEW previous \in State \cup {NoState}
  PROVE  /\ Continued(previous, s, e) \in State \cup {NoState}
         /\ Continued(previous, s, e) = NoState <=> previous = NoState
         /\ previous # NoState => Continued(previous, s, e).kept = previous.kept \cup {e}
<1>1. connection[<<s, e>>] \in Nat
  BY SelectorAssumption DEF TypeOK, Pairs
<1>2. CASE previous = NoState
  BY <1>2 DEF Continued
<1>3. CASE previous # NoState
  <2>1. Continued(previous, s, e) =
          [kept |-> previous.kept \cup {e}, seconds |-> previous.seconds + connection[<<s, e>>]]
    BY <1>3 DEF Continued
  <2>2. Continued(previous, s, e) \in State
    BY <1>1, <1>3, <2>1 DEF State
  <2>3. NoState \notin State
    BY SelectorAssumption DEF State, Orders
  <2> QED
    BY <1>3, <2>1, <2>2, <2>3
<1> QED
  BY <1>2, <1>3

LEMMA ExtendedIsState ==
  ASSUME TypeOK, NEW e \in Orders, NEW s \in Orders, s < e, connection[<<s, e>>] # NoPath
  PROVE  Extended(s, e) \in State \cup {NoState}
<1> DEFINE a == Continued(bestByEnd[s].alone, s, e)
           b == Continued(bestByEnd[s].longer, s, e)
<1>1. a \in State \cup {NoState} /\ b \in State \cup {NoState}
  BY ContinuedIsState DEF TypeOK
<1>2. bestByEnd[e].longer \in State \cup {NoState}
  BY DEF TypeOK
<1>3. Extended(s, e) \in {bestByEnd[e].longer, a, b}
  BY ImprovedChoosesOne DEF Extended
<1> HIDE DEF a, b
<1> QED
  BY <1>1, <1>2, <1>3

Rows == [alone : State \cup {NoState}, longer : State \cup {NoState}]

LEMMA RowUpdate ==
  ASSUME NEW table \in [Orders -> Rows], NEW e \in Orders, NEW x \in State \cup {NoState},
         NEW updated, updated = [table EXCEPT ![e].longer = x]
  PROVE  /\ updated \in [Orders -> Rows]
         /\ updated[e] = [alone |-> table[e].alone, longer |-> x]
         /\ \A k \in Orders \ {e} : updated[k] = table[k]
<1> DEFINE row == [alone |-> table[e].alone, longer |-> x]
<1>1. table[e] \in Rows
  OBVIOUS
<1>2. [table[e] EXCEPT !.longer = x] = row
  BY <1>1 DEF Rows
<1>3. row \in Rows
  BY <1>1 DEF Rows
<1>4. updated = [table EXCEPT ![e] = row]
  BY <1>2
<1> HIDE DEF row
<1>5. updated[e] = row /\ updated \in [Orders -> Rows] /\ \A k \in Orders \ {e} : updated[k] = table[k]
  BY <1>3, <1>4
<1> QED
  BY <1>5 DEF row

LEMMA TypeInit == Init => TypeOK
  BY SelectorAssumption DEF Init, TypeOK, Unreached, Orders, State, Pairs

LEMMA TypeStep == TypeOK /\ [Next]_vars => TypeOK'
<1> SUFFICES ASSUME TypeOK, [Next]_vars PROVE TypeOK'
  OBVIOUS
<1> USE SelectorAssumption DEF TypeOK, Orders
<1>1. CASE SkipForced
  BY <1>1 DEF SkipForced, input
<1>2. CASE Open
  BY <1>2 DEF Open, input, Incoming, Alone, State
<1>3. CASE Extend
  <2>1. PICK s \in incoming :
          /\ phase = "extend" /\ incoming' = incoming \ {s}
          /\ UNCHANGED <<availability, connection, criterion, phase, end, best>>
          /\ \/ bestByEnd' = bestByEnd
             \/ bestByEnd' = [bestByEnd EXCEPT ![end].longer = Extended(s, end)]
    BY <1>3 DEF Extend, input
  <2>2. end \in Orders /\ s \in Orders /\ s < end /\ connection[<<s, end>>] # NoPath
    BY <2>1
  <2>3. Extended(s, end) \in State \cup {NoState}
    BY <2>2, ExtendedIsState
  <2>4. bestByEnd' \in [Orders -> Rows]
    <3>1. bestByEnd \in [Orders -> Rows]
      BY DEF Rows
    <3>2. CASE bestByEnd' = [bestByEnd EXCEPT ![end].longer = Extended(s, end)]
      BY <2>2, <2>3, <3>1, <3>2, RowUpdate
    <3> QED
      BY <2>1, <3>1, <3>2
  <2> QED
    BY <2>1, <2>2, <2>4 DEF Rows
<1>4. CASE Close
  BY <1>4 DEF Close, input
<1>5. CASE Rank
  BY <1>5 DEF Rank, input
<1>6. CASE Choose
  <2>1. best' \in {best, bestByEnd[end].longer}
    BY <1>6, ImprovedChoosesOne DEF Choose
  <2> QED
    BY <1>6, <2>1 DEF Choose, input
<1>7. CASE Return
  BY <1>7 DEF Return, input
<1>8. CASE UNCHANGED vars
  BY <1>8 DEF vars, input
<1> QED
  BY <1>1, <1>2, <1>3, <1>4, <1>5, <1>6, <1>7, <1>8 DEF Next

(* The variables of Select keep their types.                                *)
THEOREM TypeCorrect == Spec => []TypeOK
  BY TypeInit, TypeStep, PTL DEF Spec

-----------------------------------------------------------------------------
(***************************************************************************)
(* Soundness: every state that Select builds is a path that keeps every    *)
(* required stop up to its end and no forced one, of the length that its   *)
(* category says, and so is the selection over all the stops.              *)
(***************************************************************************)
PathTo(K, e) == e \in K /\ Path(K, 0 .. e)

LongPathTo(K, e) == PathTo(K, e) /\ K # {e}

Sound ==
  /\ \A e \in Orders :
       /\ bestByEnd[e].alone # NoState => bestByEnd[e].alone.kept = {e} /\ PathTo({e}, e)
       /\ bestByEnd[e].longer # NoState => LongPathTo(bestByEnd[e].longer.kept, e)
  /\ phase = "extend" => availability[end] # "forced"
  /\ best # NoState => Feasible(best.kept)

(* A path that continues along a connection past no required stop.          *)
LEMMA PathContinues ==
  ASSUME TypeOK, NEW e \in Orders, NEW s \in 0 .. e - 1, connection[<<s, e>>] # NoPath,
         ~ Skips(s, e), availability[e] # "forced", NEW K, PathTo(K, s)
  PROVE  LongPathTo(K \cup {e}, e)
<1> USE DEF PathTo, Path
<1>1. K \subseteq 0 .. s /\ s \in K /\ e \in Nat /\ s \in Nat /\ s < e
  BY SelectorAssumption DEF Orders
<1>2. K \cup {e} \subseteq 0 .. e /\ K \cup {e} # {e}
  <2>1. \A k \in 0 .. s : k \in 0 .. e
    BY <1>1
  <2>2. e \in 0 .. e /\ s # e
    BY <1>1
  <2> QED
    BY <1>1, <2>1, <2>2, Zenon
<1>3. ASSUME NEW k \in 0 .. e
      PROVE  /\ availability[k] = "required" => k \in K \cup {e}
             /\ availability[k] = "forced" => k \notin K \cup {e}
  <2>1. CASE k \in 0 .. s
    BY <1>1, <2>1
  <2>2. CASE k \in s + 1 .. e - 1
    BY <1>1, <2>2 DEF Skips, ContainsRequired
  <2>3. CASE k = e
    BY <1>1, <2>3
  <2> QED
    BY <1>1, <2>1, <2>2, <2>3
<1>4. Chained(K \cup {e})
  <2> SUFFICES ASSUME NEW i \in K \cup {e}, NEW j \in K \cup {e}, i < j,
                      (K \cup {e}) \cap (i + 1 .. j - 1) = {}
               PROVE  connection[<<i, j>>] # NoPath
    BY DEF Chained
  <2>1. CASE j = e
    <3>1. i \in K /\ i <= s
      BY <1>1, <2>1
    <3>2. ~ (i < s)
      BY <1>1, <2>1, <3>1
    <3>3. i = s /\ j = e
      BY <1>1, <2>1, <3>1, <3>2
    <3> QED
      BY <3>3
  <2>2. CASE j # e
    <3>1. i \in K /\ j \in K
      BY <1>1, <2>2
    <3> QED
      BY <3>1 DEF Chained
  <2> QED
    BY <2>1, <2>2
<1> QED
  BY <1>2, <1>3, <1>4 DEF LongPathTo

LEMMA AloneIsPath ==
  ASSUME TypeOK, NEW e \in Orders, availability[e] # "forced"
  PROVE  Alone(e) # NoState => Alone(e).kept = {e} /\ PathTo({e}, e)
<1> SUFFICES ASSUME Alone(e) # NoState PROVE Alone(e).kept = {e} /\ PathTo({e}, e)
  OBVIOUS
<1>1. ~ ContainsRequired(0 .. e - 1) /\ Alone(e).kept = {e}
  BY DEF Alone
<1>2. e \in Nat
  BY SelectorAssumption DEF Orders
<1>3. \A k \in 0 .. e : k = e \/ (k \in 0 .. e - 1 /\ availability[k] # "required")
  BY <1>1, <1>2 DEF ContainsRequired
<1>4. Chained({e})
  BY <1>2 DEF Chained
<1> QED
  BY <1>1, <1>2, <1>3, <1>4 DEF PathTo, Path

(* What the start s gives to the end of the iteration.                      *)
LEMMA ExtendedIsPath ==
  ASSUME TypeOK, Sound, NEW e \in Orders, NEW s \in 0 .. e - 1,
         connection[<<s, e>>] # NoPath, ~ Skips(s, e), availability[e] # "forced",
         Extended(s, e) # NoState
  PROVE  LongPathTo(Extended(s, e).kept, e)
<1>1. s \in Orders /\ s < e
  BY SelectorAssumption DEF Orders
<1> DEFINE a == Continued(bestByEnd[s].alone, s, e)
           b == Continued(bestByEnd[s].longer, s, e)
<1>2. Extended(s, e) \in {bestByEnd[e].longer, a, b}
  BY ImprovedChoosesOne DEF Extended
<1>3. bestByEnd[s].alone \in State \cup {NoState} /\ bestByEnd[s].longer \in State \cup {NoState}
  BY <1>1 DEF TypeOK
<1>4. ASSUME a # NoState PROVE LongPathTo(a.kept, e)
  <2>1. bestByEnd[s].alone # NoState /\ a.kept = bestByEnd[s].alone.kept \cup {e}
    BY <1>1, <1>3, <1>4, ContinuedIsState
  <2>2. PathTo(bestByEnd[s].alone.kept, s)
    BY <1>1, <2>1 DEF Sound
  <2> QED
    BY <2>1, <2>2, PathContinues
<1>5. ASSUME b # NoState PROVE LongPathTo(b.kept, e)
  <2>1. bestByEnd[s].longer # NoState /\ b.kept = bestByEnd[s].longer.kept \cup {e}
    BY <1>1, <1>3, <1>5, ContinuedIsState
  <2>2. PathTo(bestByEnd[s].longer.kept, s)
    BY <1>1, <2>1 DEF Sound, LongPathTo
  <2> QED
    BY <2>1, <2>2, PathContinues
<1>6. ASSUME bestByEnd[e].longer # NoState PROVE LongPathTo(bestByEnd[e].longer.kept, e)
  BY <1>6 DEF Sound
<1> HIDE DEF a, b
<1> QED
  BY <1>2, <1>4, <1>5, <1>6

(* The selection: a long path to a stop after which none is required.       *)
LEMMA CompleteIsFeasible ==
  ASSUME TypeOK, Sound, NEW e \in Orders, Complete(e)
  PROVE  Feasible(bestByEnd[e].longer.kept)
<1> DEFINE K == bestByEnd[e].longer.kept
<1>1. LongPathTo(K, e) /\ ~ ContainsRequired(e + 1 .. StopCount - 1)
  BY DEF Complete, Sound
<1> HIDE DEF K
<1>2. K \subseteq 0 .. e /\ e \in K /\ Chained(K) /\ e \in Nat /\ StopCount \in Nat /\ e < StopCount
  BY <1>1, SelectorAssumption DEF LongPathTo, PathTo, Path, Orders
<1>3. \E i, j \in K : i # j
  BY <1>1, <1>2 DEF LongPathTo
<1>4. ASSUME NEW k \in Orders
      PROVE  /\ availability[k] = "required" => k \in K
             /\ availability[k] = "forced" => k \notin K
  <2>1. CASE k \in 0 .. e
    BY <1>1, <2>1 DEF LongPathTo, PathTo, Path
  <2>2. CASE k \in e + 1 .. StopCount - 1
    BY <1>1, <1>2, <2>2 DEF ContainsRequired
  <2> QED
    BY <1>2, <2>1, <2>2 DEF Orders
<1>5. K \subseteq Orders
  BY <1>2 DEF Orders
<1> QED
  BY <1>2, <1>3, <1>4, <1>5 DEF Feasible, Path, K

LEMMA SoundInit == Init => Sound
  BY DEF Init, Sound, Unreached

(* Steps that build no state.                                               *)
LEMMA SoundFrame ==
  ASSUME Sound, UNCHANGED <<input, bestByEnd, best>>, phase' # "extend"
  PROVE  Sound'
  BY DEF Sound, input, LongPathTo, PathTo, Path, Chained, Feasible

LEMMA SoundStep == TypeOK /\ Sound /\ [Next]_vars => Sound'
<1> SUFFICES ASSUME TypeOK, Sound, [Next]_vars PROVE Sound'
  OBVIOUS
<1>1. CASE SkipForced
  BY <1>1, SoundFrame DEF SkipForced, TypeOK
<1>2. CASE Open
  <2>1. /\ end \in Orders /\ availability[end] # "forced" /\ UNCHANGED <<input, end, best>>
        /\ bestByEnd' = [bestByEnd EXCEPT ![end] = [alone |-> Alone(end), longer |-> NoState]]
    BY <1>2 DEF Open
  <2>2. bestByEnd'[end] = [alone |-> Alone(end), longer |-> NoState]
        /\ \A k \in Orders \ {end} : bestByEnd'[k] = bestByEnd[k]
    BY <2>1 DEF TypeOK
  <2>3. Alone(end) # NoState => Alone(end).kept = {end} /\ PathTo({end}, end)
    BY <2>1, AloneIsPath
  <2> QED
    BY <2>1, <2>2, <2>3 DEF Sound, input, LongPathTo, PathTo, Path, Chained, Feasible
<1>3. CASE Extend
  <2>1. PICK s \in incoming :
          /\ phase = "extend" /\ UNCHANGED <<input, phase, end, best>>
          /\ bestByEnd' = IF Skips(s, end) THEN bestByEnd
                          ELSE [bestByEnd EXCEPT ![end].longer = Extended(s, end)]
    BY <1>3 DEF Extend
  <2>2. end \in Orders /\ s \in 0 .. end - 1 /\ connection[<<s, end>>] # NoPath
        /\ availability[end] # "forced"
    BY <2>1 DEF TypeOK, Sound
  <2>3. CASE Skips(s, end)
    BY <2>1, <2>3 DEF Sound, input, LongPathTo, PathTo, Path, Chained, Feasible
  <2>4. CASE ~ Skips(s, end)
    <3>1. bestByEnd \in [Orders -> Rows] /\ Extended(s, end) \in State \cup {NoState}
      BY <2>2, ExtendedIsState, SelectorAssumption DEF TypeOK, Rows, Orders
    <3>2. /\ bestByEnd'[end] = [alone |-> bestByEnd[end].alone, longer |-> Extended(s, end)]
          /\ \A k \in Orders \ {end} : bestByEnd'[k] = bestByEnd[k]
      <4>1. bestByEnd' = [bestByEnd EXCEPT ![end].longer = Extended(s, end)]
        BY <2>1, <2>4
      <4> QED
        BY <2>2, <3>1, <4>1, RowUpdate
    <3>3. Extended(s, end) # NoState => LongPathTo(Extended(s, end).kept, end)
      BY <2>2, <2>4, ExtendedIsPath
    <3> QED
      BY <2>1, <2>2, <3>2, <3>3 DEF Sound, input, LongPathTo, PathTo, Path, Chained, Feasible
  <2> QED
    BY <2>3, <2>4
<1>4. CASE Close
  BY <1>4, SoundFrame DEF Close
<1>5. CASE Rank
  BY <1>5, SoundFrame DEF Rank
<1>6. CASE Choose
  <2>1. /\ end \in Orders /\ phase' = "choose" /\ UNCHANGED <<input, bestByEnd>>
        /\ best' = best \/ (Complete(end) /\ best' = bestByEnd[end].longer)
    BY <1>6, ImprovedChoosesOne DEF Choose
  <2>2. best' # NoState => Feasible(best'.kept)
    BY <2>1, CompleteIsFeasible DEF Sound
  <2> QED
    BY <2>1, <2>2 DEF Sound, input, LongPathTo, PathTo, Path, Chained, Feasible
<1>7. CASE Return
  BY <1>7, SoundFrame DEF Return
<1>8. CASE UNCHANGED vars
  BY <1>8 DEF vars, Sound, input, LongPathTo, PathTo, Path, Chained, Feasible
<1> QED
  BY <1>1, <1>2, <1>3, <1>4, <1>5, <1>6, <1>7, <1>8 DEF Next

(* What Select returns keeps every required stop, no forced one, at least   *)
(* two in all, and goes along the connections it was given.                 *)
THEOREM SelectionsAreFeasible == Spec => []SelectionIsFeasible
<1>1. Sound => SelectionIsFeasible
  BY DEF Sound, SelectionIsFeasible
<1> QED
  BY <1>1, TypeInit, TypeStep, SoundInit, SoundStep, PTL DEF Spec

-----------------------------------------------------------------------------
(***************************************************************************)
(* Completeness: a stop whose iteration has ended has a state for every    *)
(* path that ends there, a stop being extended for every path over the     *)
(* starts that were tried, and the second loop has a selection as soon as  *)
(* it has seen a complete path.  It is the argument of the dynamic program *)
(* without its minimum: a path to e is a path to its last stop before e,   *)
(* which was closed earlier.                                               *)
(***************************************************************************)
Reached(K, e) == IF K = {e} THEN bestByEnd[e].alone # NoState ELSE bestByEnd[e].longer # NoState

Closed == IF phase \in {"open", "extend"} THEN 0 .. end - 1 ELSE Orders

Chosen == IF phase = "choose" THEN 0 .. end - 1 ELSE IF phase = "done" THEN Orders ELSE {}

ClosedReached == \A e \in Closed, K \in SUBSET Orders : PathTo(K, e) => Reached(K, e)

TriedReached ==
  phase = "extend" =>
    /\ PathTo({end}, end) => bestByEnd[end].alone # NoState
    /\ \A s \in Incoming(end) \ incoming :
         ~ Skips(s, end) /\ bestByEnd[s] # Unreached => bestByEnd[end].longer # NoState

SelectionSeen == \A e \in Chosen : Complete(e) => best # NoState

Exhaustive == ClosedReached /\ TriedReached /\ SelectionSeen

LEMMA GreatestExists ==
  ASSUME NEW e \in Nat, NEW K \in SUBSET (0 .. e), K # {}
  PROVE  \E s \in K : \A k \in K : k <= s
<1> DEFINE S == {e - k : k \in K}
<1>1. S \in SUBSET Nat /\ S # {}
  <2>1. \A k \in K : e - k \in Nat
    OBVIOUS
  <2>2. \E k \in K : e - k \in S
    OBVIOUS
  <2> QED
    BY <2>1, <2>2
<1>2. PICK x \in S : \A y \in S : x <= y
  <2> HIDE DEF S
  <2> QED
    BY <1>1, LeastNatural
<1>3. PICK s \in K : x = e - s
  OBVIOUS
<1>4. ASSUME NEW k \in K PROVE k <= s
  <2>1. e - k \in S
    OBVIOUS
  <2>2. x <= e - k
    BY <1>2, <2>1, Zenon
  <2>3. k \in 0 .. e /\ s \in 0 .. e
    OBVIOUS
  <2> HIDE DEF S
  <2> QED
    BY <1>3, <2>2, <2>3
<1>5. \A k \in K : k <= s
  BY <1>4
<1> QED
  BY <1>5

(* A path of two stops or more to e extends a path to some start of e.      *)
LEMMA PathShortens ==
  ASSUME TypeOK, NEW e \in Orders, NEW K, LongPathTo(K, e)
  PROVE  \E s \in Incoming(e) : ~ Skips(s, e) /\ PathTo(K \ {e}, s)
<1>1. /\ e \in Nat /\ K \subseteq 0 .. e /\ e \in K /\ K \ {e} # {} /\ Chained(K)
      /\ \A k \in 0 .. e : /\ availability[k] = "required" => k \in K
                           /\ availability[k] = "forced" => k \notin K
  BY SelectorAssumption DEF LongPathTo, PathTo, Path, Orders
<1>2. PICK s \in K \ {e} : \A k \in K \ {e} : k <= s
  BY <1>1, GreatestExists
<1>3. s \in 0 .. e - 1 /\ s < e /\ K \cap (s + 1 .. e - 1) = {} /\ K \ {e} \subseteq 0 .. s
  BY <1>1, <1>2
<1>4. connection[<<s, e>>] # NoPath
  BY <1>1, <1>3 DEF Chained
<1>5. ~ Skips(s, e)
  BY <1>1, <1>3 DEF Skips, ContainsRequired
<1>6. Chained(K \ {e})
  <2> SUFFICES ASSUME NEW i \in K \ {e}, NEW j \in K \ {e}, i < j,
                      (K \ {e}) \cap (i + 1 .. j - 1) = {}
               PROVE  connection[<<i, j>>] # NoPath
    BY DEF Chained
  <2>1. K \cap (i + 1 .. j - 1) = {}
    BY <1>1
  <2> QED
    BY <1>1, <2>1 DEF Chained
<1>7. PathTo(K \ {e}, s)
  BY <1>1, <1>2, <1>3, <1>6 DEF PathTo, Path
<1> QED
  BY <1>3, <1>4, <1>5, <1>7 DEF Incoming

LEMMA ReachedIsNotUnreached ==
  ASSUME NEW e, NEW K, Reached(K, e)
  PROVE  bestByEnd[e] # Unreached
  BY DEF Reached, Unreached

(* A start that was reached gives end a state, and none takes it away.      *)
LEMMA ExtendedReaches ==
  ASSUME TypeOK, NEW e \in Orders, NEW s \in Orders, s < e, connection[<<s, e>>] # NoPath
  PROVE  /\ bestByEnd[s] # Unreached => Extended(s, e) # NoState
         /\ bestByEnd[e].longer # NoState => Extended(s, e) # NoState
<1> DEFINE a == Continued(bestByEnd[s].alone, s, e)
           b == Continued(bestByEnd[s].longer, s, e)
<1>1. bestByEnd[s] \in Rows
  BY DEF TypeOK, Rows
<1>2. bestByEnd[s] # Unreached => bestByEnd[s].alone # NoState \/ bestByEnd[s].longer # NoState
  BY <1>1 DEF Rows, Unreached
<1>3. bestByEnd[s].alone # NoState => a # NoState
  BY <1>1, ContinuedIsState DEF Rows
<1>4. bestByEnd[s].longer # NoState => b # NoState
  BY <1>1, ContinuedIsState DEF Rows
<1> HIDE DEF a, b
<1>5. a # NoState \/ b # NoState \/ bestByEnd[e].longer # NoState
        => Improved(Improved(bestByEnd[e].longer, a), b) # NoState
  BY ImprovedChoosesOne
<1> QED
  BY <1>2, <1>3, <1>4, <1>5 DEF Extended, a, b

LEMMA ExhaustiveInit == Init => Exhaustive
  BY DEF Init, Exhaustive, ClosedReached, TriedReached, SelectionSeen, Closed, Chosen

LEMMA ExhaustiveStep == TypeOK /\ Exhaustive /\ [Next]_vars => Exhaustive'
<1> SUFFICES ASSUME TypeOK, Exhaustive, [Next]_vars PROVE Exhaustive'
  OBVIOUS
<1>1. ClosedReached /\ TriedReached /\ SelectionSeen /\ StopCount \in Nat /\ end \in Nat
  BY SelectorAssumption DEF Exhaustive, TypeOK
<1>2. input' = input
  BY DEF Next, SkipForced, Open, Extend, Close, Rank, Choose, Return, vars
<1>3. /\ \A K, e : PathTo(K, e)' <=> PathTo(K, e)
      /\ \A s, e : Skips(s, e)' <=> Skips(s, e)
      /\ \A e : Incoming(e)' = Incoming(e)
  BY <1>2 DEF input, PathTo, Path, Chained, Skips, ContainsRequired, Incoming
<1>4. CASE SkipForced
  <2>1. /\ phase = "open" /\ end \in Orders /\ availability[end] = "forced" /\ end' = end + 1
        /\ UNCHANGED <<phase, incoming, bestByEnd, best>>
    BY <1>4 DEF SkipForced
  <2>2. \A K : ~ PathTo(K, end)
    BY <1>1, <2>1 DEF PathTo, Path
  <2>3. ClosedReached'
    BY <1>1, <1>3, <2>1, <2>2 DEF ClosedReached, Closed, Reached
  <2> QED
    BY <2>1, <2>3 DEF Exhaustive, TriedReached, SelectionSeen, Chosen
<1>5. CASE Open
  <2>1. /\ phase = "open" /\ phase' = "extend" /\ end \in Orders /\ incoming' = Incoming(end)
        /\ UNCHANGED <<end, best>>
        /\ bestByEnd' = [bestByEnd EXCEPT ![end] = [alone |-> Alone(end), longer |-> NoState]]
    BY <1>5 DEF Open
  <2>2. bestByEnd'[end].alone = Alone(end) /\ \A k \in Orders \ {end} : bestByEnd'[k] = bestByEnd[k]
    BY <2>1 DEF TypeOK
  <2>3. PathTo({end}, end) => Alone(end) # NoState
    <3>1. [kept |-> {end}, seconds |-> 0] # NoState
      BY <2>1, SelectorAssumption DEF Orders
    <3>2. PathTo({end}, end) => ~ ContainsRequired(0 .. end - 1)
      BY <1>1 DEF PathTo, Path, ContainsRequired
    <3> QED
      BY <3>1, <3>2 DEF Alone
  <2>4. ClosedReached'
    <3>1. Closed' = Closed /\ \A e \in Closed : e \in Orders \ {end}
      BY <1>1, <2>1 DEF Closed, Orders
    <3> QED
      BY <1>1, <1>3, <2>2, <3>1 DEF ClosedReached, Reached
  <2>5. TriedReached'
    BY <1>3, <2>1, <2>2, <2>3 DEF TriedReached
  <2> QED
    BY <2>1, <2>4, <2>5 DEF Exhaustive, SelectionSeen, Chosen
<1>6. CASE Extend
  <2>1. PICK s \in incoming :
          /\ phase = "extend" /\ incoming' = incoming \ {s} /\ UNCHANGED <<phase, end, best>>
          /\ bestByEnd' = IF Skips(s, end) THEN bestByEnd
                          ELSE [bestByEnd EXCEPT ![end].longer = Extended(s, end)]
    BY <1>6 DEF Extend
  <2>2. end \in Orders /\ s \in Orders /\ s < end /\ connection[<<s, end>>] # NoPath
    BY <2>1, SelectorAssumption DEF TypeOK, Orders
  <2>3. /\ bestByEnd'[end].alone = bestByEnd[end].alone
        /\ bestByEnd[end].longer # NoState => bestByEnd'[end].longer # NoState
        /\ ~ Skips(s, end) /\ bestByEnd[s] # Unreached => bestByEnd'[end].longer # NoState
        /\ \A k \in Orders \ {end} : bestByEnd'[k] = bestByEnd[k]
    <3>1. CASE Skips(s, end)
      BY <2>1, <3>1
    <3>2. CASE ~ Skips(s, end)
      <4>1. bestByEnd \in [Orders -> Rows] /\ Extended(s, end) \in State \cup {NoState}
        BY <2>2, ExtendedIsState DEF TypeOK, Rows
      <4>2. bestByEnd' = [bestByEnd EXCEPT ![end].longer = Extended(s, end)]
        BY <2>1, <3>2
      <4>3. /\ bestByEnd'[end] = [alone |-> bestByEnd[end].alone, longer |-> Extended(s, end)]
            /\ \A k \in Orders \ {end} : bestByEnd'[k] = bestByEnd[k]
        BY <2>2, <4>1, <4>2, RowUpdate
      <4> QED
        BY <2>2, <4>3, ExtendedReaches
    <3> QED
      BY <3>1, <3>2
  <2>4. ClosedReached'
    <3>1. Closed' = Closed /\ \A e \in Closed : e \in Orders \ {end}
      BY <1>1, <2>1, <2>2 DEF Closed, Orders
    <3> QED
      BY <1>1, <1>3, <2>3, <3>1 DEF ClosedReached, Reached
  <2>5. TriedReached'
    <3>1. \A k \in Incoming(end) : k \in Orders \ {end}
      BY <1>1, <2>2 DEF Incoming, Orders
    <3> QED
      BY <1>1, <1>3, <2>1, <2>3, <3>1 DEF TriedReached
  <2> QED
    BY <2>1, <2>4, <2>5 DEF Exhaustive, SelectionSeen, Chosen
<1>7. CASE Close
  <2>1. /\ phase = "extend" /\ phase' = "open" /\ incoming = {} /\ end \in Orders
        /\ end' = end + 1 /\ UNCHANGED <<bestByEnd, best>>
    BY <1>7 DEF Close, TypeOK
  <2>2. ASSUME NEW K \in SUBSET Orders, PathTo(K, end) PROVE Reached(K, end)
    <3>1. CASE K = {end}
      BY <1>1, <2>1, <2>2, <3>1 DEF TriedReached, Reached
    <3>2. CASE K # {end}
      <4>1. PICK s \in Incoming(end) : ~ Skips(s, end) /\ PathTo(K \ {end}, s)
        BY <2>1, <2>2, <3>2, PathShortens DEF LongPathTo
      <4>2. s \in Closed
        BY <2>1 DEF Incoming, Closed
      <4>3. bestByEnd[s] # Unreached
        BY <1>1, <4>1, <4>2, ReachedIsNotUnreached DEF ClosedReached
      <4> QED
        BY <1>1, <2>1, <3>2, <4>1, <4>3 DEF TriedReached, Reached
    <3> QED
      BY <3>1, <3>2
  <2>3. \A e \in Closed' : e \in Closed \/ e = end
    BY <1>1, <2>1 DEF Closed
  <2>4. ClosedReached'
    BY <1>1, <1>3, <2>1, <2>2, <2>3 DEF ClosedReached, Reached
  <2> QED
    BY <2>1, <2>4 DEF Exhaustive, TriedReached, SelectionSeen, Chosen
<1>8. CASE Rank
  <2>1. /\ phase = "open" /\ phase' = "choose" /\ end = StopCount /\ end' = 0
        /\ UNCHANGED <<bestByEnd, best>>
    BY <1>8 DEF Rank
  <2>2. Closed' = Closed
    BY <2>1 DEF Closed, Orders
  <2> QED
    BY <1>1, <1>3, <2>1, <2>2
    DEF Exhaustive, ClosedReached, Reached, TriedReached, SelectionSeen, Chosen
<1>9. CASE Choose
  <2>1. /\ phase = "choose" /\ phase' = "choose" /\ end \in Orders /\ end' = end + 1
        /\ bestByEnd' = bestByEnd
        /\ best' = IF Complete(end) THEN Improved(best, bestByEnd[end].longer) ELSE best
    BY <1>9 DEF Choose
  <2>2. (best # NoState => best' # NoState) /\ (Complete(end) => best' # NoState)
    BY <2>1, ImprovedChoosesOne DEF Complete
  <2>3. \A e : Complete(e)' <=> Complete(e)
    BY <1>2, <2>1 DEF Complete, ContainsRequired, input
  <2>4. SelectionSeen'
    <3>1. \A e \in Chosen' : e \in Chosen \/ e = end
      BY <1>1, <2>1 DEF Chosen
    <3> QED
      BY <1>1, <2>2, <2>3, <3>1 DEF SelectionSeen
  <2>5. ClosedReached'
    BY <1>1, <1>3, <2>1 DEF ClosedReached, Closed, Reached
  <2> QED
    BY <2>1, <2>4, <2>5 DEF Exhaustive, TriedReached
<1>10. CASE Return
  <2>1. /\ phase = "choose" /\ phase' = "done" /\ end = StopCount
        /\ UNCHANGED <<end, bestByEnd, best>>
    BY <1>10 DEF Return
  <2>2. Closed' = Closed /\ Chosen' = Chosen
    BY <2>1 DEF Closed, Chosen, Orders
  <2>3. \A e : Complete(e)' <=> Complete(e)
    BY <1>2, <2>1 DEF Complete, ContainsRequired, input
  <2> QED
    BY <1>1, <1>3, <2>1, <2>2, <2>3 DEF Exhaustive, ClosedReached, Reached, TriedReached, SelectionSeen
<1>11. CASE UNCHANGED vars
  <2>1. UNCHANGED <<phase, end, incoming, bestByEnd, best>>
    BY <1>11 DEF vars
  <2>2. \A e : Complete(e)' <=> Complete(e)
    BY <1>2, <2>1 DEF Complete, ContainsRequired, input
  <2> QED
    BY <1>1, <1>3, <2>1, <2>2
    DEF Exhaustive, ClosedReached, Reached, TriedReached, SelectionSeen, Closed, Chosen
<1> QED
  BY <1>4, <1>5, <1>6, <1>7, <1>8, <1>9, <1>10, <1>11 DEF Next

(* Select fails only when no path keeps every required stop, no forced one  *)
(* and at least two in all.                                                 *)
THEOREM FailuresAreReal == Spec => []FailureIsReal
<1>1. TypeOK /\ Exhaustive => FailureIsReal
  <2> SUFFICES ASSUME TypeOK, Exhaustive, phase = "done", best = NoState,
                      NEW K \in SUBSET Orders, Feasible(K)
               PROVE  FALSE
    BY DEF FailureIsReal
  <2>1. StopCount \in Nat /\ Path(K, Orders) /\ \E i, j \in K : i # j
    BY SelectorAssumption DEF Feasible
  <2>2. StopCount - 1 \in Nat /\ K \in SUBSET (0 .. StopCount - 1) /\ K # {}
    BY <2>1 DEF Orders
  <2>3. PICK e \in K : \A k \in K : k <= e
    BY <2>2, GreatestExists
  <2>4. e \in Orders /\ e \in Nat /\ K \subseteq 0 .. e /\ K # {e}
    BY <2>1, <2>2, <2>3 DEF Orders
  <2>5. PathTo(K, e)
    BY <2>1, <2>2, <2>3, <2>4 DEF PathTo, Path, Orders
  <2>6. bestByEnd[e].longer # NoState
    BY <2>4, <2>5 DEF Exhaustive, ClosedReached, Closed, Reached
  <2>7. ~ ContainsRequired(e + 1 .. StopCount - 1)
    BY <2>1, <2>2, <2>4 DEF ContainsRequired, Path, Orders
  <2> QED
    BY <2>4, <2>6, <2>7 DEF Exhaustive, SelectionSeen, Chosen, Complete
<1> QED
  BY <1>1, TypeInit, TypeStep, ExhaustiveInit, ExhaustiveStep, PTL DEF Spec

-----------------------------------------------------------------------------
(***************************************************************************)
(* Optimality, with its minimum.  The paths in question are compared by    *)
(* their genuine time, their number of stops and their order, and each of  *)
(* the three orders two paths to s as it orders what follows from them     *)
(* along a connection out of s.  That leaves the noise: while it is small, *)
(* StatePrecedes decides by the genuine times.                             *)
(***************************************************************************)

(* The first stop that K and L do not share, seen from K.                   *)
Leads(K, L, m) ==
  /\ \A i \in Nat : i < m => (i \in K <=> i \in L)
  /\ \/ m \in K /\ m \notin L /\ \E l \in L : l > m
     \/ m \in L /\ m \notin K /\ \A k \in K : k < m

LEMMA ListedBeforeLeads ==
  ASSUME NEW K \in SUBSET Nat, NEW L \in SUBSET Nat
  PROVE  ListedBefore(K, L) <=> \E m \in Nat : Leads(K, L, m)
<1> DEFINE D == (K \ L) \cup (L \ K)
<1>1. D \subseteq Nat /\ \A x : x \in D <=> ~ (x \in K <=> x \in L)
  OBVIOUS
<1>2. ListedBefore(K, L) <=>
        D # {} /\ IF Min(D) \in K THEN \E l \in L : l > Min(D) ELSE \A k \in K : k < Min(D)
  BY DEF ListedBefore
<1> HIDE DEF D
<1>3. ASSUME D # {} PROVE Min(D) \in Nat /\ Min(D) \in D /\ \A y \in D : Min(D) <= y
  BY <1>1, <1>3, MinIsLeast
<1>4. ASSUME ListedBefore(K, L) PROVE Min(D) \in Nat /\ Leads(K, L, Min(D))
  <2>1. Min(D) \in Nat /\ Min(D) \in D /\ \A i \in Nat : i < Min(D) => i \notin D
    BY <1>1, <1>2, <1>3, <1>4
  <2> QED
    BY <1>1, <1>2, <1>4, <2>1 DEF Leads
<1>5. ASSUME NEW m \in Nat, Leads(K, L, m) PROVE ListedBefore(K, L)
  <2>1. m \in D /\ \A y \in D : m <= y
    BY <1>1, <1>5 DEF Leads
  <2>2. Min(D) = m
    BY <1>1, <1>3, <2>1
  <2> QED
    BY <1>1, <1>2, <1>5, <2>1, <2>2 DEF Leads
<1> QED
  BY <1>4, <1>5

LEMMA ListedBeforeIsTotal ==
  ASSUME NEW K \in SUBSET Nat, NEW L \in SUBSET Nat, K # L
  PROVE  ListedBefore(K, L) \/ ListedBefore(L, K)
<1> DEFINE D == (K \ L) \cup (L \ K)
<1>1. D \subseteq Nat /\ D # {}
  OBVIOUS
<1>2. PICK m \in D : \A y \in D : m <= y
  BY <1>1, LeastNatural
<1>3. m \in Nat /\ \A i \in Nat : i < m => (i \in K <=> i \in L)
  BY <1>2
<1>4. CASE m \in K
  <2>1. CASE \E l \in L : l > m
    BY <1>2, <1>3, <1>4, <2>1, ListedBeforeLeads DEF Leads
  <2>2. CASE \A l \in L : ~ (l > m)
    <3>1. \A l \in L : l < m
      BY <1>2, <1>3, <1>4, <2>2
    <3>2. Leads(L, K, m)
      BY <1>2, <1>3, <1>4, <3>1 DEF Leads
    <3> QED
      BY <1>3, <3>2, ListedBeforeLeads
  <2> QED
    BY <2>1, <2>2
<1>5. CASE m \in L
  <2>1. CASE \E k \in K : k > m
    <3>1. Leads(L, K, m)
      BY <1>2, <1>3, <1>5, <2>1 DEF Leads
    <3> QED
      BY <1>3, <3>1, ListedBeforeLeads
  <2>2. CASE \A k \in K : ~ (k > m)
    <3>1. \A k \in K : k < m
      BY <1>2, <1>3, <1>5, <2>2
    <3>2. Leads(K, L, m)
      BY <1>2, <1>3, <1>5, <3>1 DEF Leads
    <3> QED
      BY <1>3, <3>2, ListedBeforeLeads
  <2> QED
    BY <2>1, <2>2
<1> QED
  BY <1>2, <1>4, <1>5

LEMMA ListedBeforeIsTransitive ==
  ASSUME NEW K \in SUBSET Nat, NEW L \in SUBSET Nat, NEW M \in SUBSET Nat,
         ListedBefore(K, L), ListedBefore(L, M)
  PROVE  ListedBefore(K, M)
<1>1. PICK m \in Nat : Leads(K, L, m)
  BY ListedBeforeLeads
<1>2. PICK n \in Nat : Leads(L, M, n)
  BY ListedBeforeLeads
<1>3. CASE m < n
  <2>1. Leads(K, M, m)
    BY <1>1, <1>2, <1>3 DEF Leads
  <2> QED
    BY <2>1, ListedBeforeLeads
<1>4. CASE n < m
  <2>1. Leads(K, M, n)
    BY <1>1, <1>2, <1>4 DEF Leads
  <2> QED
    BY <2>1, ListedBeforeLeads
<1>5. CASE m = n
  \* K is the beginning of M.
  <2>1. /\ m \notin K /\ m \notin M /\ \A k \in K : k < m
        /\ \A i \in Nat : i < m => (i \in K <=> i \in M)
    BY <1>1, <1>2, <1>5 DEF Leads
  <2>2. PICK x \in M : x > m
    BY <1>1, <1>2, <1>5 DEF Leads
  <2>3. PICK y \in {z \in M : z > m} : \A z \in {z \in M : z > m} : y <= z
    BY <2>2, LeastNatural
  <2>4. y \in Nat /\ y \in M /\ y > m /\ \A z \in M : z > m => y <= z
    BY <2>3
  <2>5. Leads(K, M, y)
    BY <2>1, <2>4 DEF Leads
  <2> QED
    BY <2>4, <2>5, ListedBeforeLeads
<1> QED
  BY <1>3, <1>4, <1>5

LEMMA ListedBeforeExtends ==
  ASSUME NEW e \in Nat, NEW s \in 0 .. e - 1, NEW K \in SUBSET (0 .. s), NEW L \in SUBSET (0 .. s),
         s \in K, s \in L, ListedBefore(K, L)
  PROVE  ListedBefore(K \cup {e}, L \cup {e})
<1>1. K \in SUBSET Nat /\ L \in SUBSET Nat /\ K \cup {e} \in SUBSET Nat /\ L \cup {e} \in SUBSET Nat
  OBVIOUS
<1>2. PICK m \in Nat : Leads(K, L, m)
  BY <1>1, ListedBeforeLeads
<1>3. m < e /\ m # s
  BY <1>2 DEF Leads
<1>4. Leads(K \cup {e}, L \cup {e}, m)
  BY <1>2, <1>3 DEF Leads
<1> QED
  BY <1>1, <1>4, ListedBeforeLeads

LEMMA UnitsAdd ==
  ASSUME NEW u \in Nat \ {0}, NEW a \in Nat, NEW b \in Nat, (a % u) + (b % u) < u
  PROVE  /\ (a + b) % u = (a % u) + (b % u)
         /\ (a + b) \div u = a \div u + b \div u
<1>1. /\ a = u * (a \div u) + (a % u) /\ b = u * (b \div u) + (b % u)
      /\ a \div u \in Nat /\ b \div u \in Nat /\ a % u \in Nat /\ b % u \in Nat
  OBVIOUS
<1>2. a + b = u * (a \div u + b \div u) + ((a % u) + (b % u))
  BY <1>1
<1> QED
  BY <1>1, <1>2

LEMMA UnitsDecide ==
  ASSUME NEW u \in Nat \ {0}, NEW t \in Nat, 2 * t < u,
         NEW a \in Nat, NEW b \in Nat, a % u <= t, b % u <= t
  PROVE  a < b - t <=> a \div u < b \div u
<1>1. /\ a = u * (a \div u) + (a % u) /\ b = u * (b \div u) + (b % u)
      /\ a \div u \in Nat /\ b \div u \in Nat /\ a % u \in Nat /\ b % u \in Nat
  OBVIOUS
<1>2. CASE a \div u < b \div u
  <2>1. u * (a \div u) + u <= u * (b \div u)
    BY <1>1, <1>2
  <2> QED
    BY <1>1, <1>2, <2>1
<1>3. CASE b \div u <= a \div u
  <2>1. u * (b \div u) <= u * (a \div u)
    BY <1>1, <1>3
  <2> QED
    BY <1>1, <1>3, <2>1
<1> QED
  BY <1>1, <1>2, <1>3

(* Sets of stops along which the connections lead.                          *)
Walk(K) == K \in SUBSET Orders /\ K # {} /\ Chained(K)

LEMMA WalkIsFinite ==
  ASSUME NEW K, Walk(K)
  PROVE  /\ IsFiniteSet(K) /\ K \subseteq Nat /\ \A k \in K : k \in Nat
         /\ Cardinality(K) \in Nat /\ 1 <= Cardinality(K) /\ Cardinality(K) <= StopCount
<1>1. StopCount \in Nat /\ K \subseteq 0 .. StopCount - 1 /\ K # {}
  BY SelectorAssumption DEF Walk, Orders
<1>2. IsFiniteSet(0 .. StopCount - 1) /\ Cardinality(0 .. StopCount - 1) <= StopCount
  BY <1>1, FS_Interval, SMTT(20)
<1>3. IsFiniteSet(K) /\ Cardinality(K) <= Cardinality(0 .. StopCount - 1)
  BY <1>1, <1>2, FS_Subset
<1>4. Cardinality(K) \in Nat /\ Cardinality(K) # 0
  BY <1>1, <1>3, FS_CardinalityType, FS_EmptySet
<1> QED
  BY <1>1, <1>2, <1>3, <1>4, FS_CardinalityType

LEMMA MaxOfBounded ==
  ASSUME NEW e \in Nat, NEW S \in SUBSET (0 .. e), S # {}
  PROVE  Max(S) \in S /\ \A i \in S : i <= Max(S)
<1>1. \E x \in S : \A i \in S : x >= i
  BY GreatestExists
<1> QED
  BY <1>1 DEF Max

(* Every leg of a walk is a connection that was given.                      *)
LEMMA LegsAreGiven ==
  ASSUME TypeOK, NEW K, Walk(K), NEW j \in K \ {Min(K)}
  PROVE  /\ Previous(K, j) \in K /\ Previous(K, j) < j
         /\ \A i \in K : i < j => i <= Previous(K, j)
         /\ Legs(K)[j] \in Seconds
<1>1. K \subseteq Nat /\ K # {} /\ j \in Nat /\ \A k \in K : k \in Nat
  BY WalkIsFinite DEF Walk
<1>2. PICK m \in Nat : m = Min(K) /\ m \in K /\ \A i \in K : m <= i
  BY <1>1, MinIsLeast
<1> DEFINE S == {i \in K : i < j}
<1>3. m \in S /\ S \in SUBSET (0 .. j)
  <2>1. m < j /\ \A i \in K : i < j => i \in 0 .. j
    BY <1>1, <1>2
  <2> QED
    BY <1>2, <2>1, Zenon
<1>4. Previous(K, j) \in S /\ \A i \in S : i <= Previous(K, j)
  <2>1. Previous(K, j) = Max(S)
    BY DEF Previous
  <2> HIDE DEF S
  <2> QED
    BY <1>1, <1>3, <2>1, MaxOfBounded
<1>5. K \cap (Previous(K, j) + 1 .. j - 1) = {}
  <2>1. Previous(K, j) \in Nat /\ \A i \in K : i < j => i <= Previous(K, j)
    BY <1>1, <1>4
  <2> QED
    BY <1>1, <2>1
<1>6. connection[<<Previous(K, j), j>>] # NoPath
  BY <1>4, <1>5 DEF Walk, Chained
<1>7. <<Previous(K, j), j>> \in Pairs
  BY <1>4 DEF Pairs, Walk
<1>8. connection[<<Previous(K, j), j>>] \in Seconds
  BY <1>6, <1>7 DEF TypeOK
<1> QED
  BY <1>4, <1>8 DEF Legs

LEMMA SecondsAreTotals ==
  ASSUME TypeOK, NEW K, Walk(K)
  PROVE  /\ PathSeconds(K) = Total(Legs(K), K \ {Min(K)})
         /\ PathSeconds(K) \in Nat
<1>1. IsFiniteSet(K \ {Min(K)})
  BY WalkIsFinite, FS_Subset
<1>2. DOMAIN Legs(K) = K \ {Min(K)} /\ \A j \in K \ {Min(K)} : Legs(K)[j] \in Nat
  BY LegsAreGiven, SelectorAssumption DEF Legs
<1>3. PathSeconds(K) = Total(Legs(K), K \ {Min(K)})
  BY <1>1, <1>2, SumOfFunction DEF PathSeconds
<1> QED
  BY <1>1, <1>2, <1>3, TotalType

LEMMA AloneTakesNothing ==
  ASSUME TypeOK, NEW e \in Orders
  PROVE  Walk({e}) /\ PathSeconds({e}) = 0
<1>1. e \in Nat /\ Walk({e})
  BY SelectorAssumption DEF Orders, Walk, Chained
<1>2. {e} \ {Min({e})} = {}
  BY <1>1, MinIsLeast
<1> QED
  BY <1>1, <1>2, SecondsAreTotals, TotalOfNothing

(* A walk that goes on to e.                                                *)
LEMMA WalkGoesOn ==
  ASSUME TypeOK, NEW K, Walk(K), NEW s \in K, \A k \in K : k <= s,
         NEW e \in Orders, s < e, connection[<<s, e>>] # NoPath
  PROVE  /\ Walk(K \cup {e})
         /\ Cardinality(K \cup {e}) = Cardinality(K) + 1
         /\ connection[<<s, e>>] \in Seconds
         /\ PathSeconds(K \cup {e}) = PathSeconds(K) + connection[<<s, e>>]
<1> DEFINE J == K \cup {e}
<1>1. /\ IsFiniteSet(K) /\ K \subseteq Nat /\ K # {} /\ s \in Nat /\ e \in Nat
      /\ e \notin K /\ J \subseteq Nat /\ J # {} /\ \A k \in K : k \in Nat
  <2>1. IsFiniteSet(K) /\ K \subseteq Nat /\ K # {} /\ \A k \in K : k \in Nat
    BY WalkIsFinite DEF Walk
  <2>2. e \in Nat
    BY SelectorAssumption DEF Orders
  <2> QED
    BY <2>1, <2>2
<1>2. Walk(J)
  <2>1. J \in SUBSET Orders
    BY DEF Walk
  <2>2. ASSUME NEW i \in J, NEW j \in J, i < j, J \cap (i + 1 .. j - 1) = {}
        PROVE  connection[<<i, j>>] # NoPath
    <3>1. CASE j = e
      <4>1. i \in K /\ i <= s
        BY <1>1, <2>2, <3>1
      <4>2. ~ (i < s)
        BY <1>1, <2>2, <3>1, <4>1
      <4>3. i = s
        BY <1>1, <4>1, <4>2
      <4> QED
        BY <3>1, <4>3
    <3>2. CASE j # e
      <4>1. i \in K /\ j \in K
        BY <1>1, <2>2, <3>2
      <4> QED
        BY <2>2, <4>1 DEF Walk, Chained
    <3> QED
      BY <3>1, <3>2
  <2> QED
    BY <1>1, <2>1, <2>2 DEF Walk, Chained
<1>3. Min(J) = Min(K) /\ Min(K) \in K
  <2>1. PICK m \in Nat : m = Min(K) /\ m \in K /\ \A k \in K : m <= k
    BY <1>1, MinIsLeast
  <2> HIDE DEF J
  <2>2. PICK n \in Nat : n = Min(J) /\ n \in J /\ \A k \in J : n <= k
    BY <1>1, MinIsLeast
  <2>3. \A k : k \in J <=> k \in K \/ k = e
    BY DEF J
  <2>4. m < e /\ n <= m
    BY <1>1, <2>1, <2>2, <2>3
  <2>5. n \in K
    BY <2>2, <2>3, <2>4
  <2> QED
    BY <2>1, <2>2, <2>4, <2>5
<1>4. J \ {Min(J)} = (K \ {Min(K)}) \cup {e} /\ e \notin K \ {Min(K)}
  BY <1>1, <1>3
<1>5. Previous(J, e) = s
  <2>1. ~ (e < e) /\ \A k \in K : k < e /\ k \in 0 .. e
    BY <1>1
  <2>2. {i \in J : i < e} = K
    BY <2>1, Zenon
  <2>3. PICK m \in K : m = Max(K) /\ \A k \in K : k <= m
    BY <1>1, <2>1, MaxOfBounded
  <2>4. m = s
    BY <1>1, <2>3
  <2> QED
    BY <2>2, <2>3, <2>4 DEF Previous
<1>6. ASSUME NEW j \in K \ {Min(K)} PROVE Legs(J)[j] = Legs(K)[j]
  <2>1. {i \in J : i < j} = {i \in K : i < j}
    BY <1>1
  <2> QED
    BY <1>4, <2>1 DEF Legs, Previous
<1>7. Legs(J)[e] = connection[<<s, e>>]
  BY <1>4, <1>5 DEF Legs
<1> HIDE DEF J
<1>8. \A j \in J \ {Min(J)} : Legs(J)[j] \in Seconds /\ Legs(J)[j] \in Nat
  BY <1>2, LegsAreGiven, SelectorAssumption
<1>9. Total(Legs(J), J \ {Min(J)}) = Total(Legs(J), K \ {Min(K)}) + Legs(J)[e]
  <2>1. IsFiniteSet(K \ {Min(K)}) /\ \A j \in (K \ {Min(K)}) \cup {e} : Legs(J)[j] \in Nat
    BY <1>1, <1>4, <1>8, FS_Subset
  <2>2. Total(Legs(J), (K \ {Min(K)}) \cup {e}) = Total(Legs(J), K \ {Min(K)}) + Legs(J)[e]
    BY <1>4, <2>1, TotalWithOne, ZenonT(40)
  <2> QED
    BY <1>4, <2>2
<1>10. Total(Legs(J), K \ {Min(K)}) = Total(Legs(K), K \ {Min(K)})
  BY <1>6, TotalOfEqual
<1>11. Cardinality(J) = Cardinality(K) + 1
  BY <1>1, FS_AddElement DEF J
<1>12. connection[<<s, e>>] \in Seconds
  BY <1>4, <1>7, <1>8
<1>13. PathSeconds(J) = PathSeconds(K) + connection[<<s, e>>]
  BY <1>2, <1>7, <1>9, <1>10, SecondsAreTotals
<1> QED
  BY <1>2, <1>11, <1>12, <1>13 DEF J

(* A walk without its last stop.                                            *)
LEMMA WalkShortens ==
  ASSUME NEW K, Walk(K), NEW e \in K, \A k \in K : k <= e, K # {e}
  PROVE  \E s \in K \ {e} : /\ s < e /\ \A k \in K \ {e} : k <= s
                            /\ connection[<<s, e>>] # NoPath
                            /\ Walk(K \ {e})
<1> DEFINE J == K \ {e}
<1>1. K \subseteq Nat /\ e \in Nat /\ \A k \in K : k \in Nat
  BY WalkIsFinite
<1>2. J # {} /\ J \in SUBSET (0 .. e)
  BY <1>1
<1>3. PICK s \in J : \A k \in J : k <= s
  BY <1>1, <1>2, GreatestExists
<1>4. s \in K /\ s \in Nat /\ s < e
  BY <1>1, <1>3
<1>5. \A i \in K : ~ (i \in s + 1 .. e - 1)
  BY <1>1, <1>3, <1>4
<1>6. connection[<<s, e>>] # NoPath
  BY <1>4, <1>5 DEF Walk, Chained
<1>7. Chained(J)
  <2> SUFFICES ASSUME NEW i \in J, NEW j \in J, i < j, J \cap (i + 1 .. j - 1) = {}
               PROVE  connection[<<i, j>>] # NoPath
    BY DEF Chained
  <2>1. e \notin i + 1 .. j - 1
    BY <1>1
  <2>2. K \cap (i + 1 .. j - 1) = {}
    BY <2>1
  <2> QED
    BY <2>2 DEF Walk, Chained
<1>8. Walk(J)
  BY <1>2, <1>7 DEF Walk
<1> QED
  BY <1>3, <1>4, <1>6, <1>8

(* The noise of the connections: up to noise each.                          *)
Noisy(noise) ==
  /\ noise \in 0 .. Tolerance
  /\ \A c \in Seconds : c % Unit <= noise
  /\ (StopCount - 1) * noise <= Tolerance
  /\ 2 * Tolerance < Unit

LEMMA NoiseAddsUp ==
  ASSUME TypeOK, NEW noise, Noisy(noise), NEW K, Walk(K)
  PROVE  PathSeconds(K) % Unit <= (Cardinality(K) - 1) * noise
<1> DEFINE Quiet(J) == PathSeconds(J) % Unit <= (Cardinality(J) - 1) * noise
           T == {J \in SUBSET Orders : Walk(J) /\ ~ Quiet(J)}
<1>1. \A J : Walk(J) => J \in SUBSET Orders /\ IsFiniteSet(J)
  BY WalkIsFinite DEF Walk
<1> HIDE DEF Quiet
<1>2. /\ Unit \in Nat \ {0} /\ noise \in Nat /\ noise <= Tolerance /\ Tolerance \in Nat
      /\ 2 * Tolerance < Unit /\ StopCount \in Nat /\ (StopCount - 1) * noise <= Tolerance
  BY SelectorAssumption DEF Noisy
<1> SUFFICES ASSUME T # {} PROVE FALSE
  BY <1>1 DEF Quiet
<1>3. PICK J \in T : \A I \in T : I \subseteq J => I = J
  <2>1. \A J \in T : IsFiniteSet(J)
    BY <1>1
  <2> HIDE DEF T
  <2> QED
    BY <2>1, MinimalSet
<1>4. Walk(J) /\ ~ Quiet(J)
  OBVIOUS
<1> HIDE DEF T
<1>5. PICK e \in J : \A k \in J : k <= e
  <2>1. StopCount \in Nat /\ J # {} /\ J \subseteq 0 .. StopCount - 1
    BY <1>2, <1>4 DEF Walk, Orders
  <2>2. StopCount - 1 \in Nat
    BY <1>2, <1>4, WalkIsFinite
  <2> QED
    BY <2>1, <2>2, GreatestExists
<1>6. e \in Orders
  BY <1>4 DEF Walk
<1>7. CASE J = {e}
  <2>1. PathSeconds(J) = 0 /\ Cardinality(J) = 1
    BY <1>6, <1>7, AloneTakesNothing, FS_Singleton
  <2>2. 0 % Unit = 0 /\ (1 - 1) * noise = 0
    BY <1>2
  <2> QED
    BY <1>4, <2>1, <2>2 DEF Quiet
<1>8. CASE J # {e}
  <2> DEFINE I == J \ {e}
  <2>1. PICK s \in I : s < e /\ (\A k \in I : k <= s) /\ connection[<<s, e>>] # NoPath /\ Walk(I)
    BY <1>4, <1>5, <1>8, WalkShortens
  <2>2. I \cup {e} = J /\ I \subseteq J /\ I # J
    BY <1>5
  <2> HIDE DEF I
  <2>3. I \notin T
    BY <1>3, <2>2
  <2>4. Quiet(I)
    BY <1>1, <2>1, <2>3 DEF T
  <2> DEFINE c == connection[<<s, e>>]
  <2>5. /\ Cardinality(J) = Cardinality(I) + 1 /\ c \in Seconds
        /\ PathSeconds(J) = PathSeconds(I) + c
    BY <1>6, <2>1, <2>2, WalkGoesOn
  <2> HIDE DEF c
  <2>6. /\ PathSeconds(I) \in Nat /\ c \in Nat /\ c % Unit <= noise /\ c % Unit \in Nat
        /\ PathSeconds(I) % Unit \in Nat
        /\ Cardinality(I) \in Nat /\ Cardinality(I) >= 1 /\ Cardinality(I) + 1 <= StopCount
    <3>1. PathSeconds(I) \in Nat /\ c \in Nat /\ c % Unit <= noise
      BY <2>1, <2>5, SecondsAreTotals, SelectorAssumption DEF Noisy
    <3>2. c % Unit \in Nat /\ PathSeconds(I) % Unit \in Nat
      BY <1>2, <3>1
    <3>3. Cardinality(I) \in Nat /\ 1 <= Cardinality(I) /\ Cardinality(J) <= StopCount
      BY <1>4, <2>1, WalkIsFinite
    <3> QED
      BY <2>5, <3>1, <3>2, <3>3
  <2>7. PathSeconds(I) % Unit <= (Cardinality(I) - 1) * noise
    BY <2>4 DEF Quiet
  <2>8. (Cardinality(I) - 1) * noise + noise = Cardinality(I) * noise
        /\ Cardinality(I) * noise <= (StopCount - 1) * noise
    BY <1>2, <2>6
  <2>9. (PathSeconds(I) % Unit) + (c % Unit) <= Cardinality(I) * noise
        /\ (PathSeconds(I) % Unit) + (c % Unit) < Unit
    BY <1>2, <2>6, <2>7, <2>8
  <2>10. PathSeconds(J) % Unit = (PathSeconds(I) % Unit) + (c % Unit)
    BY <1>2, <2>5, <2>6, <2>9, UnitsAdd
  <2>11. (Cardinality(J) - 1) * noise = Cardinality(I) * noise
    BY <2>5, <2>6
  <2>12. Quiet(J)
    BY <2>9, <2>10, <2>11 DEF Quiet
  <2> QED
    BY <1>4, <2>12
<1> QED
  BY <1>7, <1>8

LEMMA WalksAreTimed ==
  ASSUME TypeOK, NoiseIsSmall, NEW K, Walk(K)
  PROVE  /\ PathSeconds(K) \in Nat /\ PathSeconds(K) % Unit <= Tolerance
         /\ Genuine(K) \in Nat
<1>1. PICK noise : Noisy(noise)
  BY DEF NoiseIsSmall, Noisy
<1>2. /\ Unit \in Nat \ {0} /\ noise \in Nat /\ StopCount \in Nat
      /\ (StopCount - 1) * noise <= Tolerance /\ Tolerance \in Nat
  BY <1>1, SelectorAssumption DEF Noisy
<1>3. PathSeconds(K) \in Nat /\ Cardinality(K) \in Nat /\ Cardinality(K) >= 1 /\ Cardinality(K) <= StopCount
  BY <1>2, SecondsAreTotals, WalkIsFinite
<1>4. PathSeconds(K) % Unit <= (Cardinality(K) - 1) * noise
  BY <1>1, NoiseAddsUp
<1>5. (Cardinality(K) - 1) * noise <= (StopCount - 1) * noise
  BY <1>2, <1>3
<1>6. PathSeconds(K) % Unit \in Nat /\ PathSeconds(K) \div Unit \in Nat
  BY <1>2, <1>3
<1>7. (Cardinality(K) - 1) * noise \in Nat /\ (StopCount - 1) * noise \in Int
  BY <1>2, <1>3
<1> QED
  BY <1>2, <1>3, <1>4, <1>5, <1>6, <1>7 DEF Genuine

LEMMA GenuineGoesOn ==
  ASSUME TypeOK, NoiseIsSmall, NEW K, Walk(K), NEW s \in K, \A k \in K : k <= s,
         NEW e \in Orders, s < e, connection[<<s, e>>] # NoPath
  PROVE  Genuine(K \cup {e}) = Genuine(K) + (connection[<<s, e>>] \div Unit)
<1> DEFINE c == connection[<<s, e>>]
<1>1. c \in Seconds /\ PathSeconds(K \cup {e}) = PathSeconds(K) + c
  BY WalkGoesOn
<1> HIDE DEF c
<1>2. Unit \in Nat \ {0} /\ Tolerance \in Nat /\ 2 * Tolerance < Unit /\ c \in Nat
  BY <1>1, SelectorAssumption DEF NoiseIsSmall
<1>3. c % Unit <= Tolerance
  BY <1>1, <1>2 DEF NoiseIsSmall
<1>4. PathSeconds(K) \in Nat /\ PathSeconds(K) % Unit <= Tolerance
  BY WalksAreTimed
<1>5. (PathSeconds(K) % Unit) + (c % Unit) < Unit
  BY <1>2, <1>3, <1>4
<1>6. (PathSeconds(K) + c) \div Unit = PathSeconds(K) \div Unit + c \div Unit
  BY <1>2, <1>4, <1>5, UnitsAdd
<1> QED
  BY <1>1, <1>6 DEF Genuine, c

(* The order of the criterion on walks.                                     *)
LEMMA PreferredIsTotal ==
  ASSUME TypeOK, NoiseIsSmall, NEW K, Walk(K), NEW L, Walk(L), K # L
  PROVE  Preferred(K, L) \/ Preferred(L, K)
<1>1. /\ Genuine(K) \in Nat /\ Genuine(L) \in Nat
      /\ Cardinality(K) \in Nat /\ Cardinality(L) \in Nat
      /\ K \in SUBSET Nat /\ L \in SUBSET Nat
  BY WalksAreTimed, WalkIsFinite
<1>2. ListedBefore(K, L) \/ ListedBefore(L, K)
  BY <1>1, ListedBeforeIsTotal
<1> QED
  BY <1>1, <1>2 DEF Preferred

LEMMA PreferredIsTransitive ==
  ASSUME TypeOK, NoiseIsSmall, NEW K, Walk(K), NEW L, Walk(L), NEW M, Walk(M),
         Preferred(K, L), Preferred(L, M)
  PROVE  Preferred(K, M)
<1>1. /\ Genuine(K) \in Nat /\ Genuine(L) \in Nat /\ Genuine(M) \in Nat
      /\ Cardinality(K) \in Nat /\ Cardinality(L) \in Nat /\ Cardinality(M) \in Nat
      /\ K \in SUBSET Nat /\ L \in SUBSET Nat /\ M \in SUBSET Nat
  BY WalksAreTimed, WalkIsFinite
<1>2. ListedBefore(K, L) /\ ListedBefore(L, M) => ListedBefore(K, M)
  BY <1>1, ListedBeforeIsTransitive
<1> QED
  BY <1>1, <1>2 DEF Preferred

(* What is best at s is best for all that follows along a connection from s. *)
LEMMA PreferredGoesOn ==
  ASSUME TypeOK, NoiseIsSmall, NEW s \in Orders,
         NEW K, Walk(K), s \in K, \A k \in K : k <= s,
         NEW L, Walk(L), s \in L, \A l \in L : l <= s,
         NEW e \in Orders, s < e, connection[<<s, e>>] # NoPath, Preferred(K, L)
  PROVE  Preferred(K \cup {e}, L \cup {e})
<1> DEFINE c == connection[<<s, e>>] \div Unit
<1>1. /\ Genuine(K) \in Nat /\ Genuine(L) \in Nat
      /\ Cardinality(K) \in Nat /\ Cardinality(L) \in Nat
      /\ \A k \in K : k \in Nat
      /\ \A l \in L : l \in Nat
  BY WalksAreTimed, WalkIsFinite
<1>2. /\ Genuine(K \cup {e}) = Genuine(K) + c /\ Genuine(L \cup {e}) = Genuine(L) + c
      /\ Cardinality(K \cup {e}) = Cardinality(K) + 1
      /\ Cardinality(L \cup {e}) = Cardinality(L) + 1
  BY GenuineGoesOn, WalkGoesOn
<1>3. c \in Nat
  <2>1. connection[<<s, e>>] \in Nat
    BY WalkGoesOn, SelectorAssumption
  <2> QED
    BY <2>1, SelectorAssumption
<1> HIDE DEF c
<1>4. ListedBefore(K, L) => ListedBefore(K \cup {e}, L \cup {e})
  <2>1. e \in Nat /\ s \in Nat /\ s \in 0 .. e - 1
    BY SelectorAssumption DEF Orders
  <2>2. K \in SUBSET (0 .. s) /\ L \in SUBSET (0 .. s)
    BY <1>1, <2>1
  <2> QED
    BY <2>1, <2>2, ListedBeforeExtends
<1> QED
  BY <1>1, <1>2, <1>3, <1>4 DEF Preferred

(* A state that tells of the walk it is.                                    *)
Tells(x) == x \in State /\ Walk(x.kept) /\ x.seconds = PathSeconds(x.kept)

LEMMA PrecedesIsPreferred ==
  ASSUME TypeOK, NoiseIsSmall, NEW a, Tells(a), NEW b, Tells(b)
  PROVE  StatePrecedes(a, b) <=> Preferred(a.kept, b.kept)
<1> DEFINE K == a.kept
           L == b.kept
<1>1. Walk(K) /\ Walk(L) /\ a.seconds = PathSeconds(K) /\ b.seconds = PathSeconds(L)
  BY DEF Tells
<1>2. Unit \in Nat \ {0} /\ Tolerance \in Nat /\ 2 * Tolerance < Unit
  BY SelectorAssumption DEF NoiseIsSmall
<1>3. /\ PathSeconds(K) \in Nat /\ PathSeconds(K) % Unit <= Tolerance /\ Genuine(K) \in Nat
      /\ PathSeconds(L) \in Nat /\ PathSeconds(L) % Unit <= Tolerance /\ Genuine(L) \in Nat
      /\ Cardinality(K) \in Nat /\ Cardinality(L) \in Nat
  BY <1>1, WalksAreTimed, WalkIsFinite
<1>4. (Faster(a, b) <=> Genuine(K) < Genuine(L)) /\ (Faster(b, a) <=> Genuine(L) < Genuine(K))
  <2> HIDE DEF K, L
  <2> QED
    BY <1>1, <1>2, <1>3, UnitsDecide DEF Faster, Genuine
<1>5. /\ KeepsMore(a, b) <=> Cardinality(K) > Cardinality(L)
      /\ KeepsMore(b, a) <=> Cardinality(L) > Cardinality(K)
  BY DEF KeepsMore
<1> QED
  BY <1>3, <1>4, <1>5 DEF StatePrecedes, Preferred

(* x is the best of the paths P, and nothing if there are none.             *)
IsBestOf(x, P) ==
  /\ x = NoState => P = {}
  /\ x # NoState => Tells(x) /\ x.kept \in P /\ \A K \in P \ {x.kept} : Preferred(x.kept, K)

LEMMA ImprovedIsBest ==
  ASSUME TypeOK, NoiseIsSmall, NEW P, NEW Q, \A K \in P \cup Q : Walk(K),
         NEW a, IsBestOf(a, P), NEW b, IsBestOf(b, Q)
  PROVE  IsBestOf(Improved(a, b), P \cup Q)
<1>1. CASE b = NoState
  BY <1>1 DEF IsBestOf, Improved
<1>2. CASE b # NoState /\ a = NoState
  BY <1>2 DEF IsBestOf, Improved
<1>3. CASE b # NoState /\ a # NoState
  <2>1. /\ Tells(a) /\ a.kept \in P /\ \A K \in P \ {a.kept} : Preferred(a.kept, K)
        /\ Tells(b) /\ b.kept \in Q /\ \A K \in Q \ {b.kept} : Preferred(b.kept, K)
    BY <1>3 DEF IsBestOf
  <2>2. StatePrecedes(b, a) <=> Preferred(b.kept, a.kept)
    BY <2>1, PrecedesIsPreferred
  <2>3. CASE StatePrecedes(b, a)
    <3>1. Improved(a, b) = b
      BY <1>3, <2>3 DEF Improved
    <3>2. ASSUME NEW K \in (P \cup Q) \ {b.kept} PROVE Preferred(b.kept, K)
      <4>1. CASE K \in Q
        BY <2>1, <4>1
      <4>2. CASE K = a.kept
        BY <2>2, <2>3, <4>2
      <4>3. CASE K \in P \ {a.kept}
        BY <2>1, <2>2, <2>3, <4>3, PreferredIsTransitive
      <4> QED
        BY <4>1, <4>2, <4>3
    <3> QED
      BY <1>3, <2>1, <3>1, <3>2 DEF IsBestOf
  <2>4. CASE ~ StatePrecedes(b, a)
    <3>1. Improved(a, b) = a
      BY <1>3, <2>4 DEF Improved
    <3>2. a.kept = b.kept \/ Preferred(a.kept, b.kept)
      BY <2>1, <2>2, <2>4, PreferredIsTotal
    <3>3. ASSUME NEW K \in (P \cup Q) \ {a.kept} PROVE Preferred(a.kept, K)
      <4>1. CASE K \in P
        BY <2>1, <4>1
      <4>2. CASE K = b.kept
        BY <3>2, <4>2
      <4>3. CASE K \in Q \ {b.kept}
        BY <2>1, <3>2, <4>3, PreferredIsTransitive
      <4> QED
        BY <4>1, <4>2, <4>3
    <3> QED
      BY <1>3, <2>1, <3>1, <3>3 DEF IsBestOf
  <2> QED
    BY <2>3, <2>4
<1> QED
  BY <1>1, <1>2, <1>3

LEMMA PathIsWalk ==
  ASSUME NEW e \in Orders, NEW K, PathTo(K, e)
  PROVE  Walk(K) /\ e \in K /\ \A k \in K : k <= e
<1>1. StopCount \in Nat /\ e \in 0 .. StopCount - 1 /\ K \subseteq 0 .. e /\ e \in K
  BY SelectorAssumption DEF PathTo, Path, Orders
<1>2. K \in SUBSET Orders /\ \A k \in K : k <= e
  BY <1>1 DEF Orders
<1> QED
  BY <1>1, <1>2 DEF PathTo, Path, Walk

LEMMA ContinuedIsBest ==
  ASSUME TypeOK, NoiseIsSmall, NEW e \in Orders, NEW s \in Orders, s < e, connection[<<s, e>>] # NoPath,
         NEW P, \A K \in P : PathTo(K, s), NEW x, IsBestOf(x, P)
  PROVE  IsBestOf(Continued(x, s, e), {K \cup {e} : K \in P})
<1>1. CASE x = NoState
  <2>1. P = {} /\ Continued(x, s, e) = NoState
    BY <1>1 DEF IsBestOf, Continued
  <2> QED
    BY <2>1 DEF IsBestOf
<1>2. CASE x # NoState
  <2> DEFINE y == Continued(x, s, e)
  <2>1. Tells(x) /\ x.kept \in P /\ \A K \in P \ {x.kept} : Preferred(x.kept, K)
    BY <1>2 DEF IsBestOf
  <2>2. \A K \in P : Walk(K) /\ s \in K /\ \A k \in K : k <= s
    BY PathIsWalk
  <2>3. y \in State /\ y # NoState /\ y.kept = x.kept \cup {e}
        /\ y.seconds = x.seconds + connection[<<s, e>>]
    <3>1. x \in State \cup {NoState}
      BY <2>1 DEF Tells
    <3>2. y \in State \cup {NoState} /\ y # NoState /\ y.kept = x.kept \cup {e}
      BY <1>2, <3>1, ContinuedIsState
    <3> QED
      BY <1>2, <3>2 DEF Continued
  <2> HIDE DEF y
  <2>4. Walk(x.kept \cup {e}) /\ PathSeconds(x.kept \cup {e}) = PathSeconds(x.kept) + connection[<<s, e>>]
    BY <2>1, <2>2, WalkGoesOn
  <2>5. Tells(y)
    BY <2>1, <2>3, <2>4 DEF Tells
  <2>6. ASSUME NEW K \in P, K \cup {e} # y.kept PROVE Preferred(y.kept, K \cup {e})
    <3>1. K # x.kept
      BY <2>3, <2>6
    <3>2. Preferred(x.kept, K)
      BY <2>1, <3>1
    <3>3. Preferred(x.kept \cup {e}, K \cup {e})
      BY <2>1, <2>2, <3>2, PreferredGoesOn
    <3> QED
      BY <2>3, <3>3
  <2>7. IsBestOf(y, {K \cup {e} : K \in P})
    BY <2>1, <2>3, <2>5, <2>6 DEF IsBestOf
  <2> QED
    BY <2>7 DEF y
<1> QED
  BY <1>1, <1>2

PathsTo(e) == {K \in SUBSET Orders : PathTo(K, e)}
Lone(e) == {K \in PathsTo(e) : K = {e}}
LongPaths(e) == {K \in PathsTo(e) : K # {e}}

(* The long paths to e whose last stop before e is in S.                    *)
Through(e, S) == {K \in LongPaths(e) : \E s \in S : PathTo(K \ {e}, s)}

LEMMA ThroughAll ==
  ASSUME TypeOK, NEW e \in Orders
  PROVE  Through(e, Incoming(e)) = LongPaths(e)
  BY PathShortens DEF Through, LongPaths, PathsTo, LongPathTo

LEMMA ThroughOne ==
  ASSUME TypeOK, NEW e \in Orders, availability[e] # "forced", NEW s \in Orders, s < e,
         connection[<<s, e>>] # NoPath
  PROVE  /\ Skips(s, e) => Through(e, {s}) = {}
         /\ ~ Skips(s, e) => Through(e, {s}) = {K \cup {e} : K \in PathsTo(s)}
<1>1. e \in Nat /\ s \in Nat /\ s \in 0 .. e - 1 /\ e \notin 0 .. s
  BY SelectorAssumption DEF Orders
<1>2. ASSUME Skips(s, e), NEW K \in Through(e, {s}) PROVE FALSE
  <2>1. PathTo(K, e) /\ PathTo(K \ {e}, s)
    BY DEF Through, LongPaths, PathsTo
  <2>2. PICK k \in s + 1 .. e - 1 : availability[k] = "required"
    BY <1>2 DEF Skips, ContainsRequired
  <2>3. k \in 0 .. e /\ k # e /\ k \notin 0 .. s
    BY <1>1
  <2>4. k \in K
    BY <2>1, <2>2, <2>3 DEF PathTo, Path
  <2>5. k \in K \ {e}
    BY <2>3, <2>4
  <2> QED
    BY <2>1, <2>3, <2>5 DEF PathTo, Path
<1>3. ASSUME ~ Skips(s, e), NEW K \in PathsTo(s) PROVE K \cup {e} \in Through(e, {s})
  <2>1. LongPathTo(K \cup {e}, e)
    BY <1>1, <1>3, PathContinues DEF PathsTo
  <2>2. e \notin K
    BY <1>1 DEF PathsTo, PathTo, Path
  <2>3. (K \cup {e}) \ {e} = K
    BY <2>2
  <2> QED
    BY <2>1, <2>3 DEF Through, LongPaths, PathsTo, LongPathTo
<1>4. ASSUME NEW K \in Through(e, {s}) PROVE K \ {e} \in PathsTo(s) /\ K = (K \ {e}) \cup {e}
  BY DEF Through, LongPaths, PathsTo, PathTo
<1>5. ASSUME ~ Skips(s, e) PROVE Through(e, {s}) = {K \cup {e} : K \in PathsTo(s)}
  <2>1. ASSUME NEW K \in Through(e, {s}) PROVE K \in {J \cup {e} : J \in PathsTo(s)}
    BY <1>4
  <2>2. ASSUME NEW K \in {J \cup {e} : J \in PathsTo(s)} PROVE K \in Through(e, {s})
    BY <1>3, <1>5
  <2> QED
    BY <2>1, <2>2
<1> QED
  BY <1>2, <1>5

(* What the start s gives to the end e, whose paths over S it has.          *)
LEMMA ExtendedIsBest ==
  ASSUME TypeOK, NoiseIsSmall, NEW e \in Orders, availability[e] # "forced",
         NEW s \in Orders, s < e, connection[<<s, e>>] # NoPath, ~ Skips(s, e),
         IsBestOf(bestByEnd[s].alone, Lone(s)), IsBestOf(bestByEnd[s].longer, LongPaths(s)),
         NEW S, IsBestOf(bestByEnd[e].longer, Through(e, S))
  PROVE  IsBestOf(Extended(s, e), Through(e, S \cup {s}))
<1> DEFINE A == {K \cup {e} : K \in Lone(s)}
           B == {K \cup {e} : K \in LongPaths(s)}
           T == Through(e, S)
<1>1. \A K \in Lone(s) \cup LongPaths(s) : PathTo(K, s)
  BY DEF Lone, LongPaths, PathsTo
<1>2. /\ IsBestOf(Continued(bestByEnd[s].alone, s, e), A)
      /\ IsBestOf(Continued(bestByEnd[s].longer, s, e), B)
  BY <1>1, ContinuedIsBest
<1>3. A \cup B = Through(e, {s})
  <2>1. Lone(s) \cup LongPaths(s) = PathsTo(s)
    BY DEF Lone, LongPaths
  <2>2. A \cup B = {K \cup {e} : K \in PathsTo(s)}
    BY <2>1
  <2> QED
    BY <2>2, ThroughOne
<1>4. (T \cup A) \cup B = Through(e, S \cup {s})
  <2>1. Through(e, S \cup {s}) = T \cup Through(e, {s})
    BY DEF Through
  <2> QED
    BY <1>3, <2>1
<1>5. \A K \in (T \cup A) \cup B : Walk(K)
  BY <1>4, PathIsWalk DEF Through, LongPaths, PathsTo
<1> HIDE DEF A, B, T
<1>6. IsBestOf(Improved(bestByEnd[e].longer, Continued(bestByEnd[s].alone, s, e)), T \cup A)
  BY <1>2, <1>5, ImprovedIsBest DEF T
<1>7. IsBestOf(Extended(s, e), (T \cup A) \cup B)
  BY <1>2, <1>5, <1>6, ImprovedIsBest DEF Extended
<1> QED
  BY <1>4, <1>7

LEMMA AloneIsBest ==
  ASSUME TypeOK, NEW e \in Orders, availability[e] # "forced"
  PROVE  IsBestOf(Alone(e), Lone(e))
<1>1. CASE ContainsRequired(0 .. e - 1)
  <2>1. e \in Nat
    BY SelectorAssumption DEF Orders
  <2>2. ~ PathTo({e}, e)
    BY <1>1, <2>1 DEF PathTo, Path, ContainsRequired
  <2>3. Lone(e) = {} /\ Alone(e) = NoState
    BY <1>1, <2>2 DEF Lone, PathsTo, Alone
  <2> QED
    BY <2>3 DEF IsBestOf
<1>2. CASE ~ ContainsRequired(0 .. e - 1)
  <2>1. Alone(e) = [kept |-> {e}, seconds |-> 0] /\ Alone(e) # NoState /\ Alone(e) \in State
    BY <1>2, SelectorAssumption DEF Alone, State, Orders
  <2>2. PathTo({e}, e)
    BY <2>1, AloneIsPath
  <2>3. Lone(e) = {{e}}
    BY <2>2 DEF Lone, PathsTo
  <2>4. Tells(Alone(e))
    BY <2>1, AloneTakesNothing DEF Tells
  <2> QED
    BY <2>1, <2>3, <2>4 DEF IsBestOf
<1> QED
  BY <1>1, <1>2

(* The solutions that end at a stop of S.                                   *)
Solutions(S) == {K \in SUBSET Orders : Feasible(K) /\ \E e \in S : e \in K /\ \A k \in K : k <= e}

LEMMA SolutionsAt ==
  ASSUME TypeOK, NEW e \in Orders
  PROVE  Solutions({e}) = IF ContainsRequired(e + 1 .. StopCount - 1) THEN {} ELSE LongPaths(e)
<1>1. StopCount \in Nat /\ e \in Nat /\ e < StopCount /\ \A k \in Orders : k \in Nat
  BY SelectorAssumption DEF Orders
<1>2. ASSUME NEW K \in Solutions({e})
      PROVE  ~ ContainsRequired(e + 1 .. StopCount - 1) /\ K \in LongPaths(e)
  <2>1. K \subseteq Orders /\ Path(K, Orders) /\ (\E i, j \in K : i # j) /\ e \in K /\ \A k \in K : k <= e
    BY DEF Solutions, Feasible
  <2>2. K \subseteq 0 .. e
    BY <1>1, <2>1
  <2>3. ~ ContainsRequired(e + 1 .. StopCount - 1)
    <3> SUFFICES ASSUME NEW k \in e + 1 .. StopCount - 1, availability[k] = "required" PROVE FALSE
      BY DEF ContainsRequired
    <3>1. k \in Orders /\ ~ (k <= e)
      BY <1>1 DEF Orders
    <3>2. k \in K
      BY <2>1, <3>1 DEF Path
    <3> QED
      BY <2>1, <3>1, <3>2
  <2>4. \A k \in 0 .. e : k \in Orders
    BY <1>1 DEF Orders
  <2>5. PathTo(K, e) /\ K # {e}
    BY <2>1, <2>2, <2>4 DEF PathTo, Path
  <2> QED
    BY <2>1, <2>3, <2>5 DEF LongPaths, PathsTo
<1>3. ASSUME ~ ContainsRequired(e + 1 .. StopCount - 1), NEW K \in LongPaths(e)
      PROVE  K \in Solutions({e})
  <2>1. K \subseteq Orders /\ PathTo(K, e) /\ K # {e} /\ e \in K /\ \A k \in K : k <= e
    BY PathIsWalk DEF LongPaths, PathsTo
  <2>2. \E i, j \in K : i # j
    BY <2>1
  <2>3. ASSUME NEW k \in Orders
        PROVE  /\ availability[k] = "required" => k \in K
               /\ availability[k] = "forced" => k \notin K
    <3>1. CASE k \in 0 .. e
      BY <2>1, <3>1 DEF PathTo, Path
    <3>2. CASE k \notin 0 .. e
      <4>1. k \in e + 1 .. StopCount - 1
        BY <1>1, <3>2 DEF Orders
      <4> QED
        BY <1>3, <2>1, <3>2, <4>1 DEF ContainsRequired, PathTo, Path
    <3> QED
      BY <3>1, <3>2
  <2> QED
    BY <2>1, <2>2, <2>3 DEF Solutions, Feasible, Path, PathTo
<1> QED
  BY <1>2, <1>3

(* What Choose makes of the best path to e.                                 *)
LEMMA ChosenIsBest ==
  ASSUME TypeOK, NoiseIsSmall, NEW e \in Orders, IsBestOf(bestByEnd[e].longer, LongPaths(e)),
         NEW S, IsBestOf(best, Solutions(S))
  PROVE  IsBestOf(IF Complete(e) THEN Improved(best, bestByEnd[e].longer) ELSE best,
                  Solutions(S \cup {e}))
<1>1. Solutions(S \cup {e}) = Solutions(S) \cup Solutions({e})
  BY DEF Solutions
<1>2. CASE Complete(e)
  <2>1. Solutions({e}) = LongPaths(e)
    BY <1>2, SolutionsAt DEF Complete
  <2>2. \A K \in Solutions(S) \cup LongPaths(e) : Walk(K)
    BY PathIsWalk DEF Solutions, Feasible, Path, Walk, LongPaths, PathsTo
  <2>3. IsBestOf(Improved(best, bestByEnd[e].longer), Solutions(S) \cup LongPaths(e))
    BY <2>2, ImprovedIsBest
  <2> QED
    BY <1>1, <1>2, <2>1, <2>3
<1>3. CASE ~ Complete(e)
  <2>1. Solutions({e}) = {}
    BY <1>3, SolutionsAt DEF Complete, IsBestOf
  <2> QED
    BY <1>1, <1>3, <2>1
<1> QED
  BY <1>2, <1>3

ClosedAreBest ==
  \A e \in Closed : /\ IsBestOf(bestByEnd[e].alone, Lone(e))
                    /\ IsBestOf(bestByEnd[e].longer, LongPaths(e))

OpenIsBest ==
  phase = "extend" =>
    /\ availability[end] # "forced"
    /\ IsBestOf(bestByEnd[end].alone, Lone(end))
    /\ IsBestOf(bestByEnd[end].longer, Through(end, Incoming(end) \ incoming))

OthersAreUnreached ==
  \A e \in Orders \ Closed : phase = "open" \/ e # end => bestByEnd[e] = Unreached

Optimal ==
  /\ ClosedAreBest
  /\ OpenIsBest
  /\ OthersAreUnreached
  /\ IsBestOf(best, Solutions(Chosen))

LEMMA OptimalInit == Init => Optimal
<1> SUFFICES ASSUME Init PROVE Optimal
  OBVIOUS
<1>1. Closed = {} /\ Chosen = {} /\ phase = "open" /\ best = NoState
  BY DEF Init, Closed, Chosen
<1>2. IsBestOf(best, Solutions(Chosen))
  BY <1>1 DEF IsBestOf, Solutions
<1> QED
  BY <1>1, <1>2 DEF Init, Optimal, ClosedAreBest, OpenIsBest, OthersAreUnreached

LEMMA PathsStay ==
  ASSUME input' = input
  PROVE  /\ \A x, P : IsBestOf(x, P)' <=> IsBestOf(x, P)
         /\ \A e : Lone(e)' = Lone(e) /\ LongPaths(e)' = LongPaths(e) /\ Incoming(e)' = Incoming(e)
         /\ \A e, S : Through(e, S)' = Through(e, S)
         /\ \A S : Solutions(S)' = Solutions(S)
<1>1. UNCHANGED <<availability, connection, criterion>>
  BY DEF input
<1>2. /\ \A K : Chained(K)' <=> Chained(K)
      /\ \A K, S : Path(K, S)' <=> Path(K, S)
  BY <1>1 DEF Chained, Path
<1>3. \A K : PathSeconds(K)' = PathSeconds(K)
  <2>1. \A K : Legs(K)' = Legs(K)
    BY <1>1 DEF Legs, Previous
  <2> QED
    BY <2>1 DEF PathSeconds
<1>4. \A K, L : Preferred(K, L)' <=> Preferred(K, L)
  BY ONLY <1>1, <1>3 DEF Preferred, Genuine, ListedBefore
<1>5. \A x : Tells(x)' <=> Tells(x)
  BY <1>2, <1>3 DEF Tells, Walk
<1>6. \A x, P : IsBestOf(x, P)' <=> IsBestOf(x, P)
  BY <1>4, <1>5 DEF IsBestOf
<1>7. \A e : PathsTo(e)' = PathsTo(e)
  BY <1>2 DEF PathsTo, PathTo
<1>8. \A e : Lone(e)' = Lone(e) /\ LongPaths(e)' = LongPaths(e) /\ Incoming(e)' = Incoming(e)
  BY <1>1, <1>7 DEF Lone, LongPaths, Incoming
<1>9. \A e, S : Through(e, S)' = Through(e, S)
  BY <1>2, <1>8 DEF Through, PathTo
<1>10. \A S : Solutions(S)' = Solutions(S)
  BY <1>2 DEF Solutions, Feasible
<1> QED
  BY <1>6, <1>8, <1>9, <1>10

LEMMA OptimalStep == TypeOK /\ NoiseIsSmall /\ Optimal /\ [Next]_vars => Optimal'
<1> SUFFICES ASSUME TypeOK, NoiseIsSmall, Optimal, [Next]_vars PROVE Optimal'
  OBVIOUS
<1>1. /\ ClosedAreBest /\ OpenIsBest /\ OthersAreUnreached /\ IsBestOf(best, Solutions(Chosen))
      /\ StopCount \in Nat /\ end \in Nat
  BY SelectorAssumption DEF Optimal, TypeOK
<1>2. input' = input
  BY DEF Next, SkipForced, Open, Extend, Close, Rank, Choose, Return, vars
<1>3. /\ \A x, P : IsBestOf(x, P)' <=> IsBestOf(x, P)
      /\ \A e : Lone(e)' = Lone(e) /\ LongPaths(e)' = LongPaths(e) /\ Incoming(e)' = Incoming(e)
      /\ \A e, S : Through(e, S)' = Through(e, S)
      /\ \A S : Solutions(S)' = Solutions(S)
  BY <1>2, PathsStay
<1>4. ASSUME best' = best, Chosen' = Chosen
      PROVE  IsBestOf(best, Solutions(Chosen))'
  BY <1>1, <1>3, <1>4
<1>5. CASE SkipForced
  <2>1. /\ phase = "open" /\ phase' = phase /\ end \in Orders /\ availability[end] = "forced"
        /\ end' = end + 1 /\ UNCHANGED <<bestByEnd, best>>
    BY <1>5 DEF SkipForced
  <2>2. /\ Closed = 0 .. end - 1 /\ Closed' = 0 .. end /\ Chosen = {} /\ Chosen' = {}
        /\ end \in Orders \ Closed /\ Closed' = Closed \cup {end}
    BY <1>1, <2>1 DEF Closed, Chosen
  <2>3. bestByEnd[end] = Unreached
    BY <1>1, <2>1, <2>2 DEF OthersAreUnreached
  <2>4. Lone(end) = {} /\ LongPaths(end) = {}
    BY <1>1, <2>1 DEF Lone, LongPaths, PathsTo, PathTo, Path
  <2>5. IsBestOf(bestByEnd[end].alone, Lone(end)) /\ IsBestOf(bestByEnd[end].longer, LongPaths(end))
    BY <2>3, <2>4 DEF IsBestOf, Unreached
  <2>6. ClosedAreBest'
    BY <1>1, <1>3, <2>1, <2>2, <2>5 DEF ClosedAreBest
  <2>7. OthersAreUnreached'
    BY <1>1, <2>1, <2>2 DEF OthersAreUnreached
  <2> QED
    BY <1>4, <2>1, <2>2, <2>6, <2>7 DEF Optimal, OpenIsBest
<1>6. CASE Open
  <2>1. /\ phase = "open" /\ phase' = "extend" /\ end \in Orders /\ availability[end] # "forced"
        /\ incoming' = Incoming(end) /\ UNCHANGED <<end, best>> /\ availability' = availability
        /\ bestByEnd' = [bestByEnd EXCEPT ![end] = [alone |-> Alone(end), longer |-> NoState]]
    BY <1>6 DEF Open, input
  <2>2. /\ bestByEnd'[end] = [alone |-> Alone(end), longer |-> NoState]
        /\ \A k \in Orders \ {end} : bestByEnd'[k] = bestByEnd[k]
    BY <2>1 DEF TypeOK
  <2>3. /\ Closed' = Closed /\ \A e \in Closed : e \in Orders \ {end}
        /\ Chosen = {} /\ Chosen' = {}
    BY <1>1, <2>1 DEF Closed, Chosen, Orders
  <2>4. ClosedAreBest'
    BY <1>1, <1>3, <2>2, <2>3 DEF ClosedAreBest
  <2>5. IsBestOf(bestByEnd'[end].alone, Lone(end))
    BY <2>1, <2>2, AloneIsBest
  <2>6. IsBestOf(bestByEnd'[end].longer, Through(end, Incoming(end) \ incoming'))
    <3>1. Through(end, Incoming(end) \ incoming') = {}
      BY <2>1 DEF Through
    <3> QED
      BY <2>2, <3>1 DEF IsBestOf
  <2>7. OpenIsBest'
    BY <1>3, <2>1, <2>5, <2>6 DEF OpenIsBest
  <2>8. OthersAreUnreached'
    BY <1>1, <2>1, <2>2, <2>3 DEF OthersAreUnreached
  <2> QED
    BY <1>4, <2>1, <2>3, <2>4, <2>7, <2>8 DEF Optimal
<1>7. CASE Extend
  <2>1. PICK s \in incoming :
          /\ phase = "extend" /\ incoming' = incoming \ {s} /\ UNCHANGED <<phase, end, best>>
          /\ bestByEnd' = IF Skips(s, end) THEN bestByEnd
                          ELSE [bestByEnd EXCEPT ![end].longer = Extended(s, end)]
    BY <1>7 DEF Extend
  <2>2. /\ end \in Orders /\ s \in Orders /\ s < end /\ connection[<<s, end>>] # NoPath
        /\ s \in Incoming(end) /\ availability' = availability
    BY <1>2, <2>1, SelectorAssumption DEF TypeOK, Orders, Incoming, input
  <2>3. /\ availability[end] # "forced" /\ IsBestOf(bestByEnd[end].alone, Lone(end))
        /\ IsBestOf(bestByEnd[end].longer, Through(end, Incoming(end) \ incoming))
    BY <1>1, <2>1 DEF OpenIsBest
  <2>4. IsBestOf(bestByEnd[s].alone, Lone(s)) /\ IsBestOf(bestByEnd[s].longer, LongPaths(s))
    <3>1. s \in Closed
      BY <2>1, <2>2 DEF Closed, Incoming
    <3> QED
      BY <1>1, <3>1 DEF ClosedAreBest
  <2>5. Incoming(end) \ incoming' = (Incoming(end) \ incoming) \cup {s}
    BY <2>1, <2>2
  <2>6. /\ bestByEnd'[end].alone = bestByEnd[end].alone
        /\ IsBestOf(bestByEnd'[end].longer, Through(end, Incoming(end) \ incoming'))
        /\ \A k \in Orders \ {end} : bestByEnd'[k] = bestByEnd[k]
    <3>1. CASE Skips(s, end)
      <4>1. Through(end, Incoming(end) \ incoming')
              = Through(end, Incoming(end) \ incoming) \cup Through(end, {s})
        BY <2>5 DEF Through
      <4>2. Through(end, {s}) = {}
        BY <2>2, <2>3, <3>1, ThroughOne
      <4> QED
        BY <2>1, <2>3, <3>1, <4>1, <4>2
    <3>2. CASE ~ Skips(s, end)
      <4>1. bestByEnd \in [Orders -> Rows] /\ Extended(s, end) \in State \cup {NoState}
        BY <2>2, ExtendedIsState DEF TypeOK, Rows
      <4>2. bestByEnd' = [bestByEnd EXCEPT ![end].longer = Extended(s, end)]
        BY <2>1, <3>2
      <4>3. /\ bestByEnd'[end] = [alone |-> bestByEnd[end].alone, longer |-> Extended(s, end)]
            /\ \A k \in Orders \ {end} : bestByEnd'[k] = bestByEnd[k]
        BY <2>2, <4>1, <4>2, RowUpdate
      <4>4. IsBestOf(Extended(s, end), Through(end, (Incoming(end) \ incoming) \cup {s}))
        BY <2>2, <2>3, <2>4, <3>2, ExtendedIsBest
      <4> QED
        BY <2>5, <4>3, <4>4
    <3> QED
      BY <3>1, <3>2
  <2>7. Closed' = Closed /\ Chosen' = Chosen /\ \A e \in Closed : e \in Orders \ {end}
    BY <1>1, <2>1, <2>2 DEF Closed, Chosen, Orders
  <2>8. ClosedAreBest'
    BY <1>1, <1>3, <2>6, <2>7 DEF ClosedAreBest
  <2>9. OpenIsBest'
    BY <1>3, <2>1, <2>2, <2>3, <2>6 DEF OpenIsBest
  <2>10. OthersAreUnreached'
    BY <1>1, <2>1, <2>6, <2>7 DEF OthersAreUnreached
  <2> QED
    BY <1>4, <2>1, <2>7, <2>8, <2>9, <2>10 DEF Optimal
<1>8. CASE Close
  <2>1. /\ phase = "extend" /\ phase' = "open" /\ incoming = {} /\ end \in Orders
        /\ end' = end + 1 /\ UNCHANGED <<bestByEnd, best>>
    BY <1>8 DEF Close, TypeOK
  <2>2. Closed' = Closed \cup {end} /\ end \notin Closed /\ Chosen = {} /\ Chosen' = {}
    BY <1>1, <2>1 DEF Closed, Chosen
  <2>3. IsBestOf(bestByEnd[end].alone, Lone(end)) /\ IsBestOf(bestByEnd[end].longer, LongPaths(end))
    <3>1. Incoming(end) \ incoming = Incoming(end)
      BY <2>1
    <3> QED
      BY <1>1, <2>1, <3>1, ThroughAll DEF OpenIsBest
  <2>4. ClosedAreBest'
    BY <1>1, <1>3, <2>1, <2>2, <2>3 DEF ClosedAreBest
  <2>5. OthersAreUnreached'
    BY <1>1, <2>1, <2>2 DEF OthersAreUnreached
  <2> QED
    BY <1>4, <2>1, <2>2, <2>4, <2>5 DEF Optimal, OpenIsBest
<1>9. CASE Rank
  <2>1. /\ phase = "open" /\ phase' = "choose" /\ end = StopCount /\ end' = 0
        /\ UNCHANGED <<bestByEnd, best>>
    BY <1>9 DEF Rank
  <2>2. Closed = Orders /\ Closed' = Orders /\ Chosen = {} /\ Chosen' = {}
    BY <2>1 DEF Closed, Chosen, Orders
  <2>3. ClosedAreBest'
    BY <1>1, <1>3, <2>1, <2>2 DEF ClosedAreBest
  <2> QED
    BY <1>4, <2>1, <2>2, <2>3 DEF Optimal, OpenIsBest, OthersAreUnreached
<1>10. CASE Choose
  <2>1. /\ phase = "choose" /\ phase' = "choose" /\ end \in Orders /\ end' = end + 1
        /\ bestByEnd' = bestByEnd
        /\ best' = IF Complete(end) THEN Improved(best, bestByEnd[end].longer) ELSE best
    BY <1>10 DEF Choose
  <2>2. Closed = Orders /\ Closed' = Orders /\ Chosen' = Chosen \cup {end}
    BY <1>1, <2>1 DEF Closed, Chosen
  <2>3. IsBestOf(best', Solutions(Chosen \cup {end}))
    <3>1. IsBestOf(bestByEnd[end].longer, LongPaths(end))
      BY <1>1, <2>1, <2>2 DEF ClosedAreBest
    <3> QED
      BY <1>1, <2>1, <3>1, ChosenIsBest
  <2>4. IsBestOf(best, Solutions(Chosen))'
    BY <1>3, <2>2, <2>3
  <2>5. ClosedAreBest'
    BY <1>1, <1>3, <2>1, <2>2 DEF ClosedAreBest
  <2> QED
    BY <2>1, <2>2, <2>4, <2>5 DEF Optimal, OpenIsBest, OthersAreUnreached
<1>11. CASE Return
  <2>1. /\ phase = "choose" /\ phase' = "done" /\ end = StopCount /\ UNCHANGED <<end, bestByEnd, best>>
    BY <1>11 DEF Return
  <2>2. Closed = Orders /\ Closed' = Orders /\ Chosen' = Chosen
    BY <2>1 DEF Closed, Chosen, Orders
  <2>3. ClosedAreBest'
    BY <1>1, <1>3, <2>1, <2>2 DEF ClosedAreBest
  <2> QED
    BY <1>4, <2>1, <2>2, <2>3 DEF Optimal, OpenIsBest, OthersAreUnreached
<1>12. CASE UNCHANGED vars
  <2>1. UNCHANGED <<phase, end, incoming, bestByEnd, best, availability>>
    BY <1>12 DEF vars, input
  <2>2. Closed' = Closed /\ Chosen' = Chosen
    BY <2>1 DEF Closed, Chosen
  <2> QED
    BY <1>1, <1>3, <1>4, <2>1, <2>2 DEF Optimal, ClosedAreBest, OpenIsBest, OthersAreUnreached
<1> QED
  BY <1>5, <1>6, <1>7, <1>8, <1>9, <1>10, <1>11, <1>12 DEF Next

(* While noise is small, what Select returns is the best of all the paths   *)
(* there are, by the criterion asked for, with the time of that very path.  *)
THEOREM SelectionsAreBest == NoiseIsSmall /\ Spec => []SelectionIsBest
<1>1. TypeOK /\ Optimal => SelectionIsBest
  <2> SUFFICES ASSUME TypeOK, Optimal, phase = "done", best # NoState PROVE
                 /\ best.seconds = PathSeconds(best.kept)
                 /\ \A K \in SUBSET Orders : Feasible(K) /\ K # best.kept => Preferred(best.kept, K)
    BY DEF SelectionIsBest
  <2>1. /\ best.seconds = PathSeconds(best.kept)
        /\ \A K \in Solutions(Orders) \ {best.kept} : Preferred(best.kept, K)
    BY DEF Optimal, Chosen, IsBestOf, Tells
  <2>2. ASSUME NEW K \in SUBSET Orders, Feasible(K) PROVE K \in Solutions(Orders)
    <3>1. K # {} /\ K \in SUBSET (0 .. StopCount - 1)
      BY <2>2 DEF Feasible, Orders
    <3>2. StopCount - 1 \in Nat
      <4>1. Walk(K)
        BY <2>2, <3>1 DEF Feasible, Path, Walk
      <4> QED
        BY <4>1, WalkIsFinite, SelectorAssumption
    <3>3. \E e \in K : \A k \in K : k <= e
      BY <3>1, <3>2, GreatestExists
    <3> QED
      BY <2>2, <3>3 DEF Solutions
  <2> QED
    BY <2>1, <2>2
<1>2. NoiseIsSmall /\ Init => NoiseIsSmall /\ Optimal
  BY OptimalInit
<1>3. (NoiseIsSmall /\ Optimal) /\ TypeOK /\ [Next]_vars => (NoiseIsSmall /\ Optimal)'
  BY OptimalStep
<1> QED
  BY <1>1, <1>2, <1>3, TypeInit, TypeStep, PTL DEF Spec
=============================================================================
