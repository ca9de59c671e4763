------------------------------ MODULE Collections ------------------------------
(***************************************************************************)
(* Lemmas the proofs of several components need: least elements, ascending *)
(* order, sequences without repetition, and what the sums of the community *)
(* modules (MapThenSumSet, SumFunction) are.                               *)
(*                                                                         *)
(* A sum there is a CHOOSE of a recursive function.  A sum of naturals     *)
(* over a finite set is also the number of points under its graph, and     *)
(* that number satisfies the recursion, which has one solution: what holds *)
(* of cardinalities then holds of the sums.                                *)
(***************************************************************************)
EXTENDS Integers, SequencesExt, Sequencing, SequenceTheorems, FiniteSetTheorems, NaturalsInduction,
        WellFoundedInduction, TLAPS

(* Every nonempty set of naturals has a least element.                      *)
LEMMA LeastNatural ==
  ASSUME NEW T, T \subseteq Nat, T # {}
  PROVE  \E x \in T : \A y \in T : x <= y
<1>1. \E x \in T : \A y \in T : ~ (<<y, x>> \in OpToRel(<, Nat))
  BY NatLessThanWellFounded, WFMin
<1>2. \A x, y \in Nat : y < x => <<y, x>> \in OpToRel(<, Nat)
  BY DEF OpToRel
<1>3. PICK x \in T : \A y \in T : ~ (<<y, x>> \in OpToRel(<, Nat))
  BY <1>1
<1>4. \A y \in T : x <= y
  <2> TAKE y \in T
  <2>1. ~ (y < x)
    BY <1>2, <1>3
  <2> QED
    BY <2>1
<1> QED
  BY <1>4

LEMMA MinIsLeast ==
  ASSUME NEW S, S \subseteq Nat, S # {}
  PROVE  Min(S) \in S /\ \A y \in S : Min(S) <= y
<1>1. \E x \in S : \A y \in S : x <= y
  BY LeastNatural
<1> QED
  BY <1>1 DEF Min

(* Every nonempty set of finite sets has a minimal one.                     *)
LEMMA MinimalSet ==
  ASSUME NEW T, T # {}, \A s \in T : IsFiniteSet(s)
  PROVE  \E s \in T : \A r \in T : r \subseteq s => r = s
<1> DEFINE C == {Cardinality(s) : s \in T}
<1>1. C \subseteq Nat /\ C # {}
  BY FS_CardinalityType
<1>2. PICK c \in C : \A d \in C : c <= d
  BY <1>1, LeastNatural
<1>3. PICK s \in T : Cardinality(s) = c
  OBVIOUS
<1>4. ASSUME NEW r \in T, r \subseteq s PROVE r = s
  <2>1. Cardinality(r) <= Cardinality(s) /\ (Cardinality(s) = Cardinality(r) => s = r)
    BY <1>4, FS_Subset
  <2>2. Cardinality(s) <= Cardinality(r)
    BY <1>2, <1>3
  <2>3. Cardinality(r) \in Nat /\ Cardinality(s) \in Nat
    BY FS_CardinalityType
  <2> QED
    BY <2>1, <2>2, <2>3
<1> QED
  BY <1>4

-----------------------------------------------------------------------------
(* The points under the graph of w over the set S, and their number.        *)
Under(w, S) == {p \in S \X Nat : p[2] < w[p[1]]}

Total(w, S) == Cardinality(Under(w, S))

LEMMA UnderOne ==
  ASSUME NEW w, NEW x, w[x] \in Nat
  PROVE  IsFiniteSet(Under(w, {x})) /\ Total(w, {x}) = w[x]
<1> DEFINE column == {x} \X (0 .. w[x] - 1)
<1>1. Under(w, {x}) = column
  BY DEF Under
<1>2. IsFiniteSet({x}) /\ Cardinality({x}) = 1
  BY FS_Singleton
<1>3. IsFiniteSet(0 .. w[x] - 1) /\ Cardinality(0 .. w[x] - 1) = w[x]
  <2>1. 0 \in Int /\ w[x] - 1 \in Int
    OBVIOUS
  <2>2. /\ IsFiniteSet(0 .. w[x] - 1)
        /\ Cardinality(0 .. w[x] - 1) = IF 0 > w[x] - 1 THEN 0 ELSE (w[x] - 1) - 0 + 1
    BY <2>1, FS_Interval
  <2> QED
    BY <2>2
<1>4. IsFiniteSet(column) /\ Cardinality(column) = Cardinality({x}) * Cardinality(0 .. w[x] - 1)
  BY <1>2, <1>3, FS_Product
<1>5. Cardinality(column) = w[x]
  BY <1>2, <1>3, <1>4
<1> QED
  BY <1>1, <1>4, <1>5 DEF Total

LEMMA UnderNothing ==
  ASSUME NEW w
  PROVE  IsFiniteSet(Under(w, {})) /\ Total(w, {}) = 0
<1>1. Under(w, {}) = {}
  BY DEF Under
<1> QED
  BY <1>1, FS_EmptySet DEF Total

LEMMA UnderUnion ==
  ASSUME NEW w, NEW A, NEW B, IsFiniteSet(Under(w, A)), IsFiniteSet(Under(w, B)), A \cap B = {}
  PROVE  /\ IsFiniteSet(Under(w, A \cup B))
         /\ Total(w, A \cup B) = Total(w, A) + Total(w, B)
<1>1. Under(w, A \cup B) = Under(w, A) \cup Under(w, B)
  BY DEF Under
<1>2. Under(w, A) \cap Under(w, B) = {}
  BY DEF Under
<1>3. /\ IsFiniteSet(Under(w, A) \cup Under(w, B))
      /\ Cardinality(Under(w, A) \cup Under(w, B))
           = Cardinality(Under(w, A)) + Cardinality(Under(w, B)) - Cardinality(Under(w, A) \cap Under(w, B))
  BY FS_Union
<1>4. Cardinality(Under(w, A)) \in Nat /\ Cardinality(Under(w, B)) \in Nat
  BY FS_CardinalityType
<1>5. Cardinality(Under(w, A) \cap Under(w, B)) = 0
  BY <1>2, FS_EmptySet
<1>6. Cardinality(Under(w, A) \cup Under(w, B)) = Cardinality(Under(w, A)) + Cardinality(Under(w, B))
  BY <1>3, <1>4, <1>5
<1> QED
  BY <1>1, <1>3, <1>6 DEF Total

LEMMA UnderIsFinite ==
  ASSUME NEW S, IsFiniteSet(S), NEW w, \A x \in S : w[x] \in Nat
  PROVE  IsFiniteSet(Under(w, S))
<1> DEFINE T == {s \in SUBSET S : ~ IsFiniteSet(Under(w, s))}
<1> SUFFICES ASSUME T # {}
             PROVE  FALSE
  OBVIOUS
<1>1. PICK s \in T : \A r \in T : r \subseteq s => r = s
  <2>1. \A r \in T : IsFiniteSet(r)
    BY FS_Subset
  <2> HIDE DEF T
  <2> QED
    BY <2>1, MinimalSet
<1>2. PICK x \in s : TRUE
  <2>1. s # {}
    BY UnderNothing
  <2> QED
    BY <2>1
<1>3. IsFiniteSet(Under(w, s \ {x}))
  BY <1>1
<1>4. IsFiniteSet(Under(w, {x}))
  BY UnderOne
<1>5. (s \ {x}) \cup {x} = s /\ (s \ {x}) \cap {x} = {}
  OBVIOUS
<1>6. IsFiniteSet(Under(w, s))
  BY <1>3, <1>4, <1>5, UnderUnion
<1> QED
  BY <1>6

-----------------------------------------------------------------------------
(* What a sum is, from here on.                                             *)
LEMMA TotalType ==
  ASSUME NEW S, IsFiniteSet(S), NEW w, \A x \in S : w[x] \in Nat
  PROVE  Total(w, S) \in Nat
  BY UnderIsFinite, FS_CardinalityType DEF Total

LEMMA TotalOfNothing == ASSUME NEW w PROVE Total(w, {}) = 0
  BY UnderNothing

LEMMA TotalOfOne == ASSUME NEW w, NEW x, w[x] \in Nat PROVE Total(w, {x}) = w[x]
  BY UnderOne

LEMMA TotalOfUnion ==
  ASSUME NEW w, NEW A, NEW B, IsFiniteSet(A), IsFiniteSet(B), A \cap B = {},
         \A x \in A \cup B : w[x] \in Nat
  PROVE  Total(w, A \cup B) = Total(w, A) + Total(w, B)
  BY UnderIsFinite, UnderUnion

LEMMA TotalWithOne ==
  ASSUME NEW S, IsFiniteSet(S), NEW w, NEW x, x \notin S, \A y \in S \cup {x} : w[y] \in Nat
  PROVE  Total(w, S \cup {x}) = Total(w, S) + w[x]
<1>1. IsFiniteSet({x}) /\ S \cap {x} = {} /\ w[x] \in Nat
  BY FS_Singleton
<1>2. Total(w, S \cup {x}) = Total(w, S) + Total(w, {x})
  BY <1>1, TotalOfUnion
<1> QED
  BY <1>1, <1>2, TotalOfOne

(* A multiple of every summand multiplies the sum.                          *)
LEMMA TotalScaled ==
  ASSUME NEW S, IsFiniteSet(S), NEW c \in Nat, NEW w, NEW v,
         \A x \in S : w[x] \in Nat /\ v[x] = w[x] * c
  PROVE  Total(v, S) = Total(w, S) * c
<1> DEFINE T == {s \in SUBSET S : Total(v, s) # Total(w, s) * c}
<1> SUFFICES ASSUME T # {} PROVE FALSE
  OBVIOUS
<1>1. PICK s \in T : \A r \in T : r \subseteq s => r = s
  <2>1. \A r \in T : IsFiniteSet(r)
    BY FS_Subset
  <2> HIDE DEF T
  <2> QED
    BY <2>1, MinimalSet
<1>2. s \in SUBSET S /\ Total(v, s) # Total(w, s) * c
  OBVIOUS
<1>3. PICK x \in s : TRUE
  <2>1. Total(v, {}) = 0 /\ Total(w, {}) = 0 /\ 0 * c = 0
    BY TotalOfNothing
  <2>2. s # {}
    BY <1>2, <2>1
  <2> QED
    BY <2>2
<1> DEFINE r == s \ {x}
<1>4. r \in SUBSET S /\ r \subseteq s /\ r # s /\ x \notin r /\ r \cup {x} = s /\ x \in S
  BY <1>2, <1>3
<1>5. Total(v, r) = Total(w, r) * c
  BY <1>1, <1>4
<1> HIDE DEF r, T
<1>6. IsFiniteSet(r)
  BY <1>4, FS_Subset
<1>7. \A y \in S : v[y] \in Nat /\ w[y] \in Nat
  <2>1. \A a \in Nat : a * c \in Nat
    OBVIOUS
  <2> QED
    BY <2>1
<1>8. Total(v, s) = Total(v, r) + v[x] /\ Total(w, s) = Total(w, r) + w[x]
  <2>1. \A y \in r \cup {x} : v[y] \in Nat
    BY <1>4, <1>7
  <2>2. \A y \in r \cup {x} : w[y] \in Nat
    BY <1>4, <1>7
  <2>3. x \notin r
    BY <1>4
  <2>4. Total(v, r \cup {x}) = Total(v, r) + v[x]
    BY ONLY <1>6, <2>1, <2>3, TotalWithOne
  <2>5. Total(w, r \cup {x}) = Total(w, r) + w[x]
    BY ONLY <1>6, <2>2, <2>3, TotalWithOne
  <2> QED
    BY <1>4, <2>4, <2>5
<1>9. Total(w, r) \in Nat /\ w[x] \in Nat /\ v[x] = w[x] * c
  BY <1>4, <1>6, <1>7, TotalType
<1>10. \A a, b \in Nat : (a + b) * c = a * c + b * c
  OBVIOUS
<1> QED
  BY <1>2, <1>5, <1>8, <1>9, <1>10

(* A sum depends on the summands alone.                                     *)
LEMMA TotalOfEqual ==
  ASSUME NEW S, NEW w, NEW v, \A x \in S : w[x] = v[x]
  PROVE  Total(w, S) = Total(v, S)
<1>1. Under(w, S) = Under(v, S)
  BY DEF Under
<1> QED
  BY <1>1 DEF Total

(* A sum over fewer elements, or of smaller ones, is no larger.             *)
LEMMA TotalIsMonotone ==
  ASSUME NEW S, IsFiniteSet(S), NEW R, R \subseteq S, NEW w, NEW v,
         \A x \in S : v[x] \in Nat, \A x \in R : w[x] \in Nat /\ w[x] <= v[x]
  PROVE  Total(w, R) <= Total(v, S)
<1>1. Under(w, R) \subseteq Under(v, S)
  BY DEF Under
<1> QED
  BY <1>1, UnderIsFinite, FS_Subset DEF Total

(* The recursion of MapThenSumSet has one solution over a finite set.       *)
LEMMA SumRecursion ==
  ASSUME NEW S, IsFiniteSet(S), NEW w, \A x \in S : w[x] \in Nat
  PROVE  /\ \E sum : sum = [s \in SUBSET S |->
                              IF s = {} THEN 0
                              ELSE w[CHOOSE x \in s : TRUE] + sum[s \ {CHOOSE x \in s : TRUE}]]
         /\ \A sum : sum = [s \in SUBSET S |->
                              IF s = {} THEN 0
                              ELSE w[CHOOSE x \in s : TRUE] + sum[s \ {CHOOSE x \in s : TRUE}]]
                     => sum[S] = Total(w, S)
<1> DEFINE pick(s) == CHOOSE x \in s : TRUE
<1>1. ASSUME NEW s \in SUBSET S, s # {}
      PROVE  pick(s) \in s /\ Total(w, s) = w[pick(s)] + Total(w, s \ {pick(s)})
  <2>1. pick(s) \in s
    BY <1>1
  <2> HIDE DEF pick
  <2>2. (s \ {pick(s)}) \cup {pick(s)} = s /\ pick(s) \notin s \ {pick(s)} /\ IsFiniteSet(s \ {pick(s)})
    BY <2>1, FS_Subset
  <2>3. Total(w, s) = Total(w, s \ {pick(s)}) + w[pick(s)]
    BY <2>1, <2>2, TotalWithOne
  <2>4. Total(w, s \ {pick(s)}) \in Nat /\ w[pick(s)] \in Nat
    BY <2>1, <2>2, TotalType
  <2> QED
    BY <2>1, <2>3, <2>4
<1> HIDE DEF pick
<1> DEFINE Solves(sum) == sum = [s \in SUBSET S |-> IF s = {} THEN 0 ELSE w[pick(s)] + sum[s \ {pick(s)}]]
           total == [s \in SUBSET S |-> Total(w, s)]
<1>2. Solves(total)
  <2> DEFINE next == [s \in SUBSET S |-> IF s = {} THEN 0 ELSE w[pick(s)] + total[s \ {pick(s)}]]
  <2>1. ASSUME NEW s \in SUBSET S PROVE total[s] = next[s]
    <3>1. CASE s = {}
      BY <3>1, TotalOfNothing
    <3>2. CASE s # {}
      BY <3>2, <1>1
    <3> QED
      BY <3>1, <3>2
  <2>2. total = next
    BY <2>1
  <2> QED
    BY <2>2
<1>3. ASSUME NEW sum, Solves(sum) PROVE sum[S] = Total(w, S)
  <2> DEFINE T == {s \in SUBSET S : sum[s] # Total(w, s)}
  <2> SUFFICES ASSUME T # {} PROVE FALSE
    OBVIOUS
  <2>1. PICK s \in T : \A r \in T : r \subseteq s => r = s
    <3>1. \A r \in T : IsFiniteSet(r)
      BY FS_Subset
    <3> HIDE DEF T
    <3> QED
      BY <3>1, MinimalSet
  <2>2. \A r \in SUBSET S : sum[r] = IF r = {} THEN 0 ELSE w[pick(r)] + sum[r \ {pick(r)}]
    BY <1>3
  <2>3. s # {}
    BY <2>2, TotalOfNothing
  <2>4. sum[s \ {pick(s)}] = Total(w, s \ {pick(s)})
    BY <2>1, <2>3, <1>1
  <2> QED
    BY <2>2, <2>3, <2>4, <1>1
<1> QED
  BY <1>2, <1>3 DEF pick

(* So the sums of the community modules are.                                *)
LEMMA SumIsTotal ==
  ASSUME NEW S, IsFiniteSet(S), NEW w, \A x \in S : w[x] \in Nat
  PROVE  SumFunctionOnSet(w, S) = Total(w, S)
<1> DEFINE Solves(sum) == sum = [s \in SUBSET S |->
                                  IF s = {} THEN 0
                                  ELSE w[CHOOSE x \in s : TRUE] + sum[s \ {CHOOSE x \in s : TRUE}]]
<1>1. (\E sum : Solves(sum)) /\ \A sum : Solves(sum) => sum[S] = Total(w, S)
  BY SumRecursion
<1>2. SumFunctionOnSet(w, S) = (CHOOSE sum : Solves(sum))[S]
  BY DEF SumFunctionOnSet, FoldFunctionOnSet, MapThenFoldSet
<1> HIDE DEF Solves
<1> QED
  BY <1>1, <1>2

LEMMA SumOfFunction ==
  ASSUME NEW S, IsFiniteSet(S), NEW w, DOMAIN w = S, \A x \in S : w[x] \in Nat
  PROVE  SumFunction(w) = Total(w, S)
  BY SumIsTotal DEF SumFunction

(* A sum taken by parts: over those of each index, then over the indices.   *)
ByParts(w, S, f, t, I) ==
  /\ IsFiniteSet(S) /\ \A x \in S : w[x] \in Nat
  /\ IsFiniteSet(I) /\ \A x \in S : f[x] \in I
  /\ \A i \in I : t[i] = Total(w, {x \in S : f[x] = i})

LEMMA TotalByParts ==
  ASSUME NEW w, NEW S, NEW f, NEW t, NEW I, ByParts(w, S, f, t, I)
  PROVE  Total(t, I) = Total(w, S)
<1> USE DEF ByParts
<1> DEFINE Of(J) == {x \in S : f[x] \in J}
           One(i) == {x \in S : f[x] = i}
           T == {J \in SUBSET I : Total(t, J) # Total(w, Of(J))}
<1>1. \A J \in SUBSET I : IsFiniteSet(J)
  BY FS_Subset
<1>2. \A i : One(i) \subseteq S /\ IsFiniteSet(One(i))
  <2>1. \A i : One(i) \subseteq S
    OBVIOUS
  <2> HIDE DEF One
  <2> QED
    BY <2>1, FS_Subset
<1>3. \A J : Of(J) \subseteq S /\ IsFiniteSet(Of(J))
  <2>1. \A J : Of(J) \subseteq S
    OBVIOUS
  <2> HIDE DEF Of
  <2> QED
    BY <2>1, FS_Subset
<1>4. \A i \in I : t[i] = Total(w, One(i)) /\ t[i] \in Nat
  <2> SUFFICES ASSUME NEW i \in I PROVE Total(w, One(i)) \in Nat
    OBVIOUS
  <2>1. \A x \in One(i) : w[x] \in Nat
    OBVIOUS
  <2> HIDE DEF One
  <2> QED
    BY <1>2, <2>1, TotalType
<1>5. T = {}
  <2> SUFFICES ASSUME T # {} PROVE FALSE
    OBVIOUS
  <2>1. PICK J \in T : \A K \in T : K \subseteq J => K = J
    <3>1. \A J \in T : IsFiniteSet(J)
      BY <1>1
    <3> HIDE DEF T
    <3> QED
      BY <3>1, MinimalSet
  <2>2. J # {}
    <3>1. Of({}) = {}
      OBVIOUS
    <3> HIDE DEF Of
    <3> QED
      BY <3>1, TotalOfNothing
  <2>3. PICK i \in J : TRUE
    BY <2>2
  <2> DEFINE K == J \ {i}
  <2>4. K \in SUBSET I /\ K \subseteq J /\ K # J /\ i \notin K /\ K \cup {i} = J /\ i \in I /\ J \subseteq I
    OBVIOUS
  <2>5. Of(J) = Of(K) \cup One(i) /\ Of(K) \cap One(i) = {}
    BY <2>4
  <2> HIDE DEF K, Of, One
  <2>6. Total(t, K) = Total(w, Of(K))
    <3>1. K \notin T
      BY <2>1, <2>4
    <3> QED
      BY <2>4, <3>1
  <2>7. \A y \in K \cup {i} : t[y] \in Nat
    BY <1>4, <2>4
  <2>8. Total(t, J) = Total(t, K) + t[i]
    <3>1. Total(t, K \cup {i}) = Total(t, K) + t[i]
      BY <1>1, <2>4, <2>7, TotalWithOne, SMTT(20)
    <3> QED
      BY <2>4, <3>1
  <2>9. Total(w, Of(J)) = Total(w, Of(K)) + Total(w, One(i))
    <3>1. \A x \in Of(K) \cup One(i) : w[x] \in Nat
      BY <1>2, <1>3
    <3>2. Total(w, Of(K) \cup One(i)) = Total(w, Of(K)) + Total(w, One(i))
      BY <1>2, <1>3, <2>5, <3>1, TotalOfUnion
    <3> QED
      BY <2>5, <3>2
  <2> QED
    BY <1>4, <2>1, <2>4, <2>6, <2>8, <2>9
<1>6. Of(I) = S
  OBVIOUS
<1> HIDE DEF Of
<1> QED
  BY <1>5, <1>6

-----------------------------------------------------------------------------
(* Sequences without repetition: lists of pointers, LRU lists.              *)
Distinct(s) == \A i, j \in DOMAIN s : s[i] = s[j] => i = j

LEMMA ElementsOf ==
  ASSUME NEW S, NEW s \in Seq(S)
  PROVE  /\ Len(s) \in Nat /\ DOMAIN s = 1 .. Len(s)
         /\ \A i \in 1 .. Len(s) : s[i] \in S
         /\ ToSet(s) = {s[i] : i \in 1 .. Len(s)}
  BY LenProperties, ElementOfSeq DEF ToSet

(* It is as long as the set of its elements is large.                       *)
LEMMA DistinctLength ==
  ASSUME NEW S, NEW s \in Seq(S), Distinct(s)
  PROVE  IsFiniteSet(ToSet(s)) /\ Cardinality(ToSet(s)) = Len(s)
<1>1. Len(s) \in Nat /\ DOMAIN s = 1 .. Len(s) /\ ToSet(s) = {s[i] : i \in 1 .. Len(s)}
  BY ElementsOf
<1>2. s \in [1 .. Len(s) -> ToSet(s)]
  BY <1>1, LenProperties
<1>3. s \in Bijection(1 .. Len(s), ToSet(s))
  BY <1>1, <1>2 DEF Distinct, Bijection, Injection, Surjection, IsInjective
<1>4. IsFiniteSet(1 .. Len(s)) /\ Cardinality(1 .. Len(s)) = Len(s)
  BY ONLY <1>1, FS_Interval
<1> QED
  BY <1>3, <1>4, FS_Bijection DEF ExistsBijection

(* RemoveFirst takes its element out of it.                                 *)
LEMMA RemoveFromDistinct ==
  ASSUME NEW S, NEW s \in Seq(S), Distinct(s), NEW e
  PROVE  /\ RemoveFirst(s, e) \in Seq(S)
         /\ Distinct(RemoveFirst(s, e))
         /\ ToSet(RemoveFirst(s, e)) = ToSet(s) \ {e}
         /\ Len(RemoveFirst(s, e)) = IF e \in ToSet(s) THEN Len(s) - 1 ELSE Len(s)
<1>1. Len(s) \in Nat /\ DOMAIN s = 1 .. Len(s) /\ \A i \in 1 .. Len(s) : s[i] \in S
  BY ElementsOf
<1>2. CASE e \notin ToSet(s)
  <2>1. ~ \E i \in 1 .. Len(s) : s[i] = e
    BY <1>1, <1>2 DEF ToSet
  <2>2. RemoveFirst(s, e) = s
    BY <2>1 DEF RemoveFirst
  <2> QED
    BY <1>2, <2>2
<1>3. CASE e \in ToSet(s)
  <2> DEFINE I == {i \in 1 .. Len(s) : s[i] = e}
             k == SelectInSeq(s, LAMBDA v : v = e)
             left == SubSeq(s, 1, k - 1)
             right == SubSeq(s, k + 1, Len(s))
  <2>1. I # {} /\ \E i \in 1 .. Len(s) : s[i] = e
    BY <1>1, <1>3 DEF ToSet
  <2>2. k = Min(I)
    BY <2>1 DEF SelectInSeq
  <2>3. PICK i \in I : I = {i}
    BY <1>1, <2>1 DEF Distinct
  <2>4. Min(I) = i
    BY <1>1, <2>3 DEF Min
  <2>5. k \in 1 .. Len(s) /\ s[k] = e
    BY <2>2, <2>3, <2>4
  <2>6. RemoveFirst(s, e) = left \o right
    BY <2>1 DEF RemoveFirst, RemoveAt
  <2> HIDE DEF k
  <2>7. /\ left \in Seq(S) /\ Len(left) = k - 1
        /\ \A j \in 1 .. k - 1 : left[j] = s[j]
    <3>1. /\ left \in Seq(S) /\ Len(left) = IF 1 <= k - 1 THEN (k - 1) - 1 + 1 ELSE 0
          /\ \A j \in 1 .. (k - 1) - 1 + 1 : left[j] = s[1 + j - 1]
      <4>1. 1 \in Int /\ k - 1 \in Int /\ \A m \in 1 .. k - 1 : s[m] \in S
        BY <1>1, <2>5
      <4> QED
        BY <4>1, SubSeqProperties
    <3>2. (k - 1) - 1 + 1 = k - 1 /\ (~ (1 <= k - 1) => k - 1 = 0)
      BY <1>1, <2>5
    <3>3. \A j \in 1 .. k - 1 : 1 + j - 1 = j
      BY <1>1, <2>5
    <3> QED
      BY <3>1, <3>2, <3>3
  <2>8. /\ right \in Seq(S) /\ Len(right) = Len(s) - k
        /\ \A j \in 1 .. Len(s) - k : right[j] = s[k + j]
    <3>1. /\ right \in Seq(S) /\ Len(right) = IF k + 1 <= Len(s) THEN Len(s) - (k + 1) + 1 ELSE 0
          /\ \A j \in 1 .. Len(s) - (k + 1) + 1 : right[j] = s[(k + 1) + j - 1]
      <4>1. k + 1 \in Int /\ Len(s) \in Int /\ \A m \in k + 1 .. Len(s) : s[m] \in S
        BY <1>1, <2>5
      <4> QED
        BY <4>1, SubSeqProperties
    <3>2. Len(s) - (k + 1) + 1 = Len(s) - k /\ (~ (k + 1 <= Len(s)) => Len(s) - k = 0)
      <4>1. Len(s) \in Int /\ k \in Int /\ k <= Len(s)
        BY <1>1, <2>5
      <4> HIDE DEF left, right, I
      <4> QED
        BY <4>1
    <3>3. \A j \in 1 .. Len(s) - k : (k + 1) + j - 1 = k + j
      BY <1>1, <2>5
    <3> QED
      BY <3>1, <3>2, <3>3
  <2> HIDE DEF left, right
  <2>9. /\ left \o right \in Seq(S)
        /\ Len(left \o right) = Len(s) - 1
        /\ \A j \in 1 .. Len(s) - 1 : (left \o right)[j] = IF j < k THEN s[j] ELSE s[j + 1]
    <3>1. /\ left \o right \in Seq(S) /\ Len(left \o right) = Len(left) + Len(right)
          /\ \A j \in 1 .. Len(left) + Len(right) :
               (left \o right)[j] = IF j <= Len(left) THEN left[j] ELSE right[j - Len(left)]
      BY <2>7, <2>8, ConcatProperties
    <3>2. ASSUME NEW j \in 1 .. Len(s) - 1
          PROVE  (left \o right)[j] = IF j < k THEN s[j] ELSE s[j + 1]
      <4>1. j \in 1 .. Len(left) + Len(right)
        BY <1>1, <2>5, <2>7, <2>8
      <4>2. CASE j < k
        BY <1>1, <2>5, <2>7, <3>1, <4>1, <4>2
      <4>3. CASE ~ (j < k)
        <5>1. j - Len(left) \in 1 .. Len(s) - k /\ k + (j - Len(left)) = j + 1 /\ ~ (j <= Len(left))
          BY <1>1, <2>5, <2>7, <4>3
        <5> QED
          BY <2>8, <3>1, <4>1, <4>3, <5>1
      <4> QED
        BY <4>2, <4>3
    <3>3. Len(left) + Len(right) = Len(s) - 1
      BY <1>1, <2>5, <2>7, <2>8
    <3> QED
      BY <3>1, <3>2, <3>3
  <2> DEFINE r == left \o right
  <2>10. DOMAIN r = 1 .. Len(s) - 1 /\ ToSet(r) = {r[j] : j \in 1 .. Len(s) - 1}
    BY <2>9, ElementsOf
  <2> HIDE DEF r
  <2>11. Distinct(r)
    <3>1. ASSUME NEW i1 \in 1 .. Len(s) - 1, NEW i2 \in 1 .. Len(s) - 1, r[i1] = r[i2]
          PROVE  i1 = i2
      <4> DEFINE at(m) == IF m < k THEN m ELSE m + 1
      <4>1. at(i1) \in 1 .. Len(s) /\ at(i2) \in 1 .. Len(s) /\ (at(i1) = at(i2) => i1 = i2)
        BY <1>1, <2>5
      <4>2. r[i1] = s[at(i1)] /\ r[i2] = s[at(i2)]
        BY <2>9 DEF r
      <4> HIDE DEF at
      <4> QED
        BY <1>1, <3>1, <4>1, <4>2 DEF Distinct
    <3> QED
      BY <2>10, <3>1 DEF Distinct
  <2>12. ToSet(r) = ToSet(s) \ {e}
    <3>1. ASSUME NEW j \in 1 .. Len(s) - 1 PROVE r[j] \in ToSet(s) \ {e}
      <4>1. \E m \in 1 .. Len(s) : m # k /\ r[j] = s[m]
        <5>1. CASE j < k
          BY <1>1, <2>5, <2>9, <5>1 DEF r
        <5>2. CASE ~ (j < k)
          <6>1. j + 1 \in 1 .. Len(s) /\ j + 1 # k
            BY <1>1, <2>5, <5>2
          <6> QED
            BY <2>9, <5>2, <6>1 DEF r
        <5> QED
          BY <5>1, <5>2
      <4> QED
        BY <1>1, <2>5, <4>1 DEF ToSet, Distinct
    <3>2. ASSUME NEW x \in ToSet(s) \ {e} PROVE x \in ToSet(r)
      <4>1. PICK m \in 1 .. Len(s) : x = s[m]
        BY <1>1 DEF ToSet
      <4>2. m # k
        BY <2>5, <4>1, <3>2
      <4>3. CASE m < k
        <5>1. m \in 1 .. Len(s) - 1 /\ r[m] = s[m]
          BY <1>1, <2>5, <2>9, <4>3 DEF r
        <5> QED
          BY <2>10, <4>1, <5>1
      <4>4. CASE m > k
        <5>1. m - 1 \in 1 .. Len(s) - 1 /\ r[m - 1] = s[m]
          <6>1. m - 1 \in 1 .. Len(s) - 1 /\ ~ (m - 1 < k) /\ (m - 1) + 1 = m
            BY <1>1, <2>5, <4>4
          <6> QED
            BY <2>9, <6>1 DEF r
        <5> QED
          BY <2>10, <4>1, <5>1
      <4> QED
        BY <1>1, <2>5, <4>2, <4>3, <4>4
    <3> QED
      BY <2>10, <3>1, <3>2
  <2> QED
    BY <1>3, <2>6, <2>9, <2>11, <2>12 DEF r
<1> QED
  BY <1>2, <1>3

(* Cons puts an element that it does not have before it.                    *)
LEMMA ConsToDistinct ==
  ASSUME NEW S, NEW s \in Seq(S), Distinct(s), NEW e \in S, e \notin ToSet(s)
  PROVE  /\ Cons(e, s) \in Seq(S)
         /\ Distinct(Cons(e, s))
         /\ ToSet(Cons(e, s)) = ToSet(s) \cup {e}
         /\ Len(Cons(e, s)) = Len(s) + 1
<1>1. /\ Len(s) \in Nat /\ DOMAIN s = 1 .. Len(s) /\ \A i \in 1 .. Len(s) : s[i] \in S
      /\ ToSet(s) = {s[i] : i \in 1 .. Len(s)}
  BY ElementsOf
<1> DEFINE c == <<e>> \o s
<1>2. <<e>> \in Seq(S) /\ Len(<<e>>) = 1 /\ <<e>>[1] = e
  OBVIOUS
<1>3. /\ c \in Seq(S) /\ Len(c) = Len(s) + 1
      /\ \A j \in 1 .. Len(s) + 1 : c[j] = IF j = 1 THEN e ELSE s[j - 1]
  <2>1. /\ c \in Seq(S) /\ Len(c) = Len(<<e>>) + Len(s)
        /\ \A j \in 1 .. Len(<<e>>) + Len(s) :
             c[j] = IF j <= Len(<<e>>) THEN <<e>>[j] ELSE s[j - Len(<<e>>)]
    BY <1>2, ConcatProperties
  <2> QED
    BY <1>1, <1>2, <2>1
<1> HIDE DEF c
<1>4. DOMAIN c = 1 .. Len(s) + 1 /\ ToSet(c) = {c[j] : j \in 1 .. Len(s) + 1}
  <2>1. DOMAIN c = 1 .. Len(c) /\ ToSet(c) = {c[j] : j \in 1 .. Len(c)}
    BY <1>3, ElementsOf
  <2> QED
    BY <1>3, <2>1
<1>5. Distinct(c)
  BY <1>1, <1>3, <1>4 DEF Distinct
<1>6. ToSet(c) = ToSet(s) \cup {e}
  <2>1. ASSUME NEW j \in 1 .. Len(s) + 1 PROVE c[j] \in ToSet(s) \cup {e}
    BY <1>1, <1>3
  <2>2. ASSUME NEW i \in 1 .. Len(s) PROVE s[i] \in ToSet(c)
    <3>1. i + 1 \in 1 .. Len(s) + 1 /\ c[i + 1] = s[i]
      BY <1>1, <1>3
    <3> QED
      BY <1>4, <3>1
  <2>3. e \in ToSet(c)
    BY <1>1, <1>3, <1>4
  <2> QED
    BY <1>1, <1>4, <2>1, <2>2, <2>3
<1> QED
  BY <1>3, <1>5, <1>6 DEF Cons, c

(* Its front has no repetition, and nothing of the rest.                    *)
LEMMA FrontOfDistinct ==
  ASSUME NEW S, NEW s \in Seq(S), Distinct(s), NEW n \in 0 .. Len(s)
  PROVE  /\ SubSeq(s, 1, n) \in Seq(S)
         /\ Distinct(SubSeq(s, 1, n))
         /\ ToSet(SubSeq(s, 1, n)) = ToSet(s) \ {s[i] : i \in n + 1 .. Len(s)}
         /\ Len(SubSeq(s, 1, n)) = n
<1>1. /\ Len(s) \in Nat /\ DOMAIN s = 1 .. Len(s) /\ \A i \in 1 .. Len(s) : s[i] \in S
      /\ ToSet(s) = {s[i] : i \in 1 .. Len(s)}
  BY ElementsOf
<1> DEFINE f == SubSeq(s, 1, n)
<1>2. f \in Seq(S) /\ Len(f) = n /\ \A j \in 1 .. n : f[j] = s[j]
  <2>1. /\ f \in Seq(S) /\ Len(f) = IF 1 <= n THEN n - 1 + 1 ELSE 0
        /\ \A j \in 1 .. n - 1 + 1 : f[j] = s[1 + j - 1]
    BY <1>1, SubSeqProperties
  <2> QED
    BY <1>1, <2>1
<1>3. DOMAIN f = 1 .. n /\ ToSet(f) = {f[j] : j \in 1 .. n}
  BY <1>2, ElementsOf
<1> HIDE DEF f
<1>4. Distinct(f)
  BY <1>1, <1>2, <1>3 DEF Distinct
<1>5. ToSet(f) = ToSet(s) \ {s[i] : i \in n + 1 .. Len(s)}
  <2>1. ASSUME NEW j \in 1 .. n PROVE f[j] \in ToSet(s) \ {s[i] : i \in n + 1 .. Len(s)}
    BY <1>1, <1>2 DEF Distinct
  <2>2. ASSUME NEW j \in 1 .. Len(s), s[j] \notin {s[i] : i \in n + 1 .. Len(s)} PROVE s[j] \in ToSet(f)
    <3>1. j \in 1 .. n
      BY <1>1, <2>2
    <3> QED
      BY <1>2, <1>3, <3>1
  <2> QED
    BY <1>1, <1>3, <2>1, <2>2
<1> QED
  BY <1>2, <1>4, <1>5 DEF f

(* The first elements of a concatenation are those of s, the others of t.   *)
LEMMA ElementsOfConcat ==
  ASSUME NEW S, NEW s \in Seq(S), NEW t \in Seq(S)
  PROVE  /\ (s \o t) \in Seq(S)
         /\ Len(s) \in Nat /\ Len(t) \in Nat
         /\ Len(s \o t) = Len(s) + Len(t)
         /\ \A i \in 1 .. Len(s) : (s \o t)[i] = s[i]
         /\ \A i \in Len(s) + 1 .. Len(s) + Len(t) :
              i - Len(s) \in 1 .. Len(t) /\ (s \o t)[i] = t[i - Len(s)]
<1>1. /\ (s \o t) \in Seq(S) /\ Len(s \o t) = Len(s) + Len(t)
      /\ \A i \in 1 .. Len(s) + Len(t) :
           (s \o t)[i] = IF i <= Len(s) THEN s[i] ELSE t[i - Len(s)]
  BY ConcatProperties
<1>2. Len(s) \in Nat /\ Len(t) \in Nat
  OBVIOUS
<1>3. \A i \in 1 .. Len(s) : i \in 1 .. Len(s) + Len(t) /\ i <= Len(s)
  BY <1>2
<1>4. \A i \in Len(s) + 1 .. Len(s) + Len(t) :
        i - Len(s) \in 1 .. Len(t) /\ i \in 1 .. Len(s) + Len(t) /\ ~ (i <= Len(s))
  BY <1>2
<1> QED
  BY <1>1, <1>2, <1>3, <1>4

-----------------------------------------------------------------------------
(* A finite set of naturals in ascending order.                             *)

RankOf(S, x) == Cardinality({y \in S : y < x})

LEMMA RankType ==
  ASSUME NEW S, S \subseteq Nat, IsFiniteSet(S), NEW x \in S
  PROVE  RankOf(S, x) \in 0 .. Cardinality(S) - 1
<1> DEFINE B == {y \in S : y < x}
<1>1. x \notin B /\ B \subseteq S \ {x}
  OBVIOUS
<1>2. IsFiniteSet(S \ {x}) /\ Cardinality(S \ {x}) = Cardinality(S) - 1
  BY FS_RemoveElement
<1>3. IsFiniteSet(B) /\ Cardinality(B) <= Cardinality(S \ {x})
  BY <1>1, <1>2, FS_Subset
<1>4. Cardinality(B) \in Nat /\ Cardinality(S) \in Nat
  BY <1>3, FS_CardinalityType
<1> HIDE DEF B
<1>5. Cardinality(B) \in 0 .. Cardinality(S) - 1
  BY <1>2, <1>3, <1>4
<1> QED
  BY <1>5 DEF B, RankOf

LEMMA RankIncreases ==
  ASSUME NEW S, S \subseteq Nat, IsFiniteSet(S), NEW x \in S, NEW y \in S, x < y
  PROVE  RankOf(S, x) < RankOf(S, y)
<1> DEFINE B == {z \in S : z < x}
           C == {z \in S : z < y}
<1>1. B \subseteq C /\ x \in C /\ x \notin B /\ C \subseteq S
  <2>1. x \in Nat /\ y \in Nat /\ ~ (x < x) /\ \A z \in S : z < x => z < y
    OBVIOUS
  <2> QED
    BY <2>1
<1>2. IsFiniteSet(C)
  BY <1>1, FS_Subset
<1>3. IsFiniteSet(B) /\ Cardinality(B) <= Cardinality(C) /\ Cardinality(B) # Cardinality(C)
  BY <1>1, <1>2, FS_Subset
<1>4. Cardinality(B) \in Nat /\ Cardinality(C) \in Nat
  BY <1>2, <1>3, FS_CardinalityType
<1> HIDE DEF B, C
<1>5. Cardinality(B) < Cardinality(C)
  BY <1>3, <1>4
<1> QED
  BY <1>5 DEF B, C, RankOf

(* Every rank is taken, once.                                               *)
LEMMA RankIsTaken ==
  ASSUME NEW S, S \subseteq Nat, IsFiniteSet(S), NEW n \in 0 .. Cardinality(S) - 1
  PROVE  \E x \in S : RankOf(S, x) = n
<1> DEFINE T == 0 .. Cardinality(S) - 1
           f == [x \in S |-> RankOf(S, x)]
<1>1. Cardinality(S) \in Nat
  BY FS_CardinalityType
<1>2. IsFiniteSet(T) /\ Cardinality(T) = Cardinality(S)
  <2>1. 0 \in Int /\ Cardinality(S) - 1 \in Int
    BY <1>1
  <2>2. IsFiniteSet(T) /\ Cardinality(T) = IF 0 > Cardinality(S) - 1 THEN 0
                                           ELSE Cardinality(S) - 1 - 0 + 1
    BY <2>1, FS_Interval
  <2> HIDE DEF T
  <2> QED
    BY <1>1, <2>2
<1>3. f \in [S -> T]
  BY RankType
<1>4. \A x, y \in S : f[x] = f[y] => x = y
  <2> SUFFICES ASSUME NEW x \in S, NEW y \in S, RankOf(S, x) = RankOf(S, y) PROVE x = y
    OBVIOUS
  <2>1. RankOf(S, x) \in T /\ RankOf(S, y) \in T
    BY RankType
  <2>2. ~ (RankOf(S, x) < RankOf(S, y)) /\ ~ (RankOf(S, y) < RankOf(S, x))
    BY <2>1
  <2>3. ~ (x < y) /\ ~ (y < x)
    BY <2>2, RankIncreases
  <2> QED
    BY <2>3
<1>5. f \in Injection(S, T)
  BY <1>3, <1>4 DEF Injection, IsInjective
<1>6. f \in Surjection(S, T)
  BY <1>2, <1>5, FS_Injection
<1>7. \E x \in S : f[x] = n
  BY <1>6 DEF Surjection
<1> QED
  BY <1>7

LEMMA AscendingIsSorted ==
  ASSUME NEW S, S \subseteq Nat, IsFiniteSet(S)
  PROVE  /\ Cardinality(S) \in Nat
         /\ Ascending(S) \in Seq(S)
         /\ Len(Ascending(S)) = Cardinality(S)
         /\ \A i, j \in 1 .. Cardinality(S) : i < j => Ascending(S)[i] < Ascending(S)[j]
         /\ \A x \in S : \E i \in 1 .. Cardinality(S) : Ascending(S)[i] = x
<1> DEFINE n == Cardinality(S)
           a == Ascending(S)
<1>1. n \in Nat
  BY FS_CardinalityType
<1>2. \A i \in 1 .. n : a[i] \in S /\ RankOf(S, a[i]) = i - 1
  <2> TAKE i \in 1 .. n
  <2>1. i - 1 \in 0 .. n - 1
    BY <1>1
  <2>2. \E x \in S : RankOf(S, x) = i - 1
    BY <2>1, RankIsTaken
  <2>3. a[i] = CHOOSE x \in S : RankOf(S, x) = i - 1
    BY DEF Ascending, RankOf
  <2> QED
    BY <2>2, <2>3
<1>3. a \in [1 .. n -> S]
  BY <1>2 DEF Ascending
<1>4. a \in Seq(S) /\ Len(a) = n
  BY <1>1, <1>3
<1>5. \A i, j \in 1 .. n : i < j => a[i] < a[j]
  <2> SUFFICES ASSUME NEW i \in 1 .. n, NEW j \in 1 .. n, i < j PROVE a[i] < a[j]
    OBVIOUS
  <2>1. a[j] # a[i]
    BY <1>2, <1>1
  <2>2. ~ (a[j] < a[i])
    <3> SUFFICES ASSUME a[j] < a[i] PROVE FALSE
      OBVIOUS
    <3>1. RankOf(S, a[j]) < RankOf(S, a[i])
      BY <1>2, RankIncreases
    <3>2. j - 1 < i - 1
      BY <3>1, <1>2
    <3> QED
      BY <3>2
  <2>3. a[i] \in Nat /\ a[j] \in Nat
    BY <1>2
  <2> HIDE DEF a
  <2> QED
    BY <2>1, <2>2, <2>3
<1>6. \A x \in S : \E i \in 1 .. n : a[i] = x
  <2> TAKE x \in S
  <2>1. RankOf(S, x) \in 0 .. n - 1
    BY RankType
  <2> DEFINE i == RankOf(S, x) + 1
  <2>2. i \in 1 .. n /\ i - 1 = RankOf(S, x)
    BY <1>1, <2>1
  <2>3. a[i] \in S /\ RankOf(S, a[i]) = RankOf(S, x)
    BY <1>2, <2>2
  <2>4. ~ (RankOf(S, x) < RankOf(S, x))
    BY <2>1
  <2>5. ~ (a[i] < x) /\ ~ (x < a[i])
    BY <2>3, <2>4, RankIncreases
  <2>6. a[i] = x
    <3>1. a[i] \in Nat /\ x \in Nat
      BY <2>3
    <3> HIDE DEF a, i
    <3> QED
      BY <3>1, <2>5
  <2> QED
    BY <2>2, <2>6
<1> QED
  BY <1>1, <1>4, <1>5, <1>6

(* The elements of s at some of its places, in their order in s.            *)
ElementsIn(s, P) ==
  LET places == Ascending(P)
  IN [n \in DOMAIN places |-> s[places[n]]]

LEMMA ElementsAt ==
  ASSUME NEW S, NEW s \in Seq(S), NEW P, P \subseteq DOMAIN s
  PROVE  /\ ElementsIn(s, P) \in Seq(S)
         /\ \A n \in DOMAIN ElementsIn(s, P) : \E p \in P : ElementsIn(s, P)[n] = s[p]
         /\ \A p \in P : \E n \in DOMAIN ElementsIn(s, P) : ElementsIn(s, P)[n] = s[p]
<1> DEFINE places == Ascending(P)
           c == Cardinality(P)
<1>1. Len(s) \in Nat /\ DOMAIN s = 1 .. Len(s) /\ \A i \in 1 .. Len(s) : s[i] \in S
  BY ElementsOf
<1>2. P \subseteq Nat /\ IsFiniteSet(P)
  <2>1. IsFiniteSet(1 .. Len(s))
    BY <1>1, FS_Interval
  <2> QED
    BY <1>1, <2>1, FS_Subset
<1>3. /\ c \in Nat /\ places \in Seq(P) /\ Len(places) = c
      /\ \A p \in P : \E n \in 1 .. c : places[n] = p
  BY <1>2, AscendingIsSorted
<1>4. DOMAIN places = 1 .. c /\ \A n \in 1 .. c : places[n] \in P
  <2> HIDE DEF places, c
  <2> QED
    BY <1>3, ElementsOf
<1> HIDE DEF c
<1>5. ElementsIn(s, P) = [n \in 1 .. c |-> s[places[n]]]
  BY <1>4 DEF ElementsIn
<1> HIDE DEF places
<1>6. \A n \in 1 .. c : s[places[n]] \in S
  BY <1>1, <1>4
<1>7. ElementsIn(s, P) \in Seq(S)
  <2>1. ElementsIn(s, P) \in [1 .. c -> S]
    BY <1>5, <1>6
  <2> QED
    BY ONLY <1>3, <2>1
<1>8. DOMAIN ElementsIn(s, P) = 1 .. c /\ \A n \in 1 .. c : ElementsIn(s, P)[n] = s[places[n]]
  BY <1>5
<1>9. \A n \in 1 .. c : \E p \in P : ElementsIn(s, P)[n] = s[p]
  BY <1>4, <1>8
<1>10. \A p \in P : \E n \in 1 .. c : ElementsIn(s, P)[n] = s[p]
  <2> TAKE p \in P
  <2>1. PICK n \in 1 .. c : places[n] = p
    BY <1>3
  <2> QED
    BY <1>8, <2>1
<1> QED
  BY <1>7, <1>8, <1>9, <1>10

(* Elements at increasing places of s.                                      *)
LEMMA ElementsInOrder ==
  ASSUME NEW S, NEW s \in Seq(S), NEW P, P \subseteq DOMAIN s
  PROVE  \A i, j \in DOMAIN ElementsIn(s, P) : i < j =>
           \E p, q \in P : p < q /\ ElementsIn(s, P)[i] = s[p] /\ ElementsIn(s, P)[j] = s[q]
<1> DEFINE places == Ascending(P)
           c == Cardinality(P)
<1>1. Len(s) \in Nat /\ DOMAIN s = 1 .. Len(s)
  BY ElementsOf
<1>2. P \subseteq Nat /\ IsFiniteSet(P)
  <2>1. IsFiniteSet(1 .. Len(s))
    BY <1>1, FS_Interval
  <2> QED
    BY <1>1, <2>1, FS_Subset
<1>3. /\ c \in Nat /\ places \in Seq(P) /\ Len(places) = c
      /\ \A i, j \in 1 .. c : i < j => places[i] < places[j]
  BY <1>2, AscendingIsSorted
<1>4. DOMAIN places = 1 .. c /\ \A n \in 1 .. c : places[n] \in P
  <2> HIDE DEF places, c
  <2> QED
    BY <1>3, ElementsOf
<1> HIDE DEF c
<1>5. ElementsIn(s, P) = [n \in 1 .. c |-> s[places[n]]]
  BY <1>4 DEF ElementsIn
<1> HIDE DEF places
<1> QED
  BY <1>3, <1>4, <1>5

(* Everything is kept of a sequence of which nothing is left out.           *)
LEMMA AscendingInterval ==
  ASSUME NEW n \in Nat
  PROVE  Ascending(1 .. n) = [i \in 1 .. n |-> i]
<1>1. IsFiniteSet(1 .. n) /\ Cardinality(1 .. n) = n
  BY FS_Interval
<1>2. \A x \in 1 .. n : Cardinality({y \in 1 .. n : y < x}) = x - 1
  <2> TAKE x \in 1 .. n
  <2>1. {y \in 1 .. n : y < x} = 1 .. (x - 1)
    OBVIOUS
  <2>2. Cardinality(1 .. (x - 1)) = x - 1
    <3>1. x - 1 \in Nat
      OBVIOUS
    <3> QED
      BY <3>1, FS_Interval
  <2> QED
    BY <2>1, <2>2
<1>3. \A i \in 1 .. n : (CHOOSE x \in 1 .. n : Cardinality({y \in 1 .. n : y < x}) = i - 1) = i
  <2> TAKE i \in 1 .. n
  <2>1. \A x \in 1 .. n : Cardinality({y \in 1 .. n : y < x}) = i - 1 <=> x = i
    <3>1. \A x \in 1 .. n : x - 1 = i - 1 <=> x = i
      OBVIOUS
    <3> QED
      BY <1>2, <3>1
  <2> QED
    BY <2>1
<1> QED
  BY <1>1, <1>3 DEF Ascending

LEMMA ElementsAll ==
  ASSUME NEW S, NEW s \in Seq(S)
  PROVE  ElementsIn(s, DOMAIN s) = s
<1>1. Len(s) \in Nat /\ DOMAIN s = 1 .. Len(s)
  BY ElementsOf
<1>2. Ascending(1 .. Len(s)) = [i \in 1 .. Len(s) |-> i]
  BY <1>1, AscendingInterval
<1>3. ElementsIn(s, DOMAIN s) = [i \in 1 .. Len(s) |-> s[i]]
  BY <1>1, <1>2 DEF ElementsIn
<1>4. s = [i \in 1 .. Len(s) |-> s[i]]
  BY <1>1
<1> QED
  BY <1>3, <1>4

-----------------------------------------------------------------------------
(* Orders.  L holds the pairs of which the first comes strictly before.     *)
LEMMA MinimalElement ==
  ASSUME NEW S, IsFiniteSet(S), S # {}, NEW L,
         \A x \in S : <<x, x>> \notin L,
         \A x, y, z \in S : <<x, y>> \in L /\ <<y, z>> \in L => <<x, z>> \in L
  PROVE  \E x \in S : \A y \in S : <<y, x>> \notin L
<1> DEFINE Below(x) == {y \in S : <<y, x>> \in L}
           T == {Below(x) : x \in S}
<1>1. PICK B \in T : \A r \in T : r \subseteq B => r = B
  <2>1. \A r \in T : r \in SUBSET S
    OBVIOUS
  <2>2. \A r \in T : IsFiniteSet(r)
    <3> HIDE DEF T
    <3> QED
      BY <2>1, FS_Subset
  <2>3. T # {}
    <3>1. PICK x \in S : TRUE
      OBVIOUS
    <3>2. Below(x) \in T
      OBVIOUS
    <3> QED
      BY <3>2
  <2> HIDE DEF T
  <2> QED
    BY <2>2, <2>3, MinimalSet
<1>2. PICK x \in S : B = Below(x)
  OBVIOUS
<1>3. ASSUME NEW y \in S, <<y, x>> \in L PROVE FALSE
  <2>1. Below(y) \subseteq Below(x) /\ y \in Below(x) /\ y \notin Below(y) /\ Below(y) \in T
    BY <1>3
  <2> QED
    BY <2>1, <1>1, <1>2
<1> QED
  BY <1>3

LEMMA MaxIsGreatest ==
  ASSUME NEW S, S \subseteq Nat, IsFiniteSet(S), S # {}
  PROVE  Max(S) \in S /\ \A y \in S : Max(S) >= y
<1> DEFINE L == {e \in S \X S : e[1] > e[2]}
<1>1. \A x, y \in S : <<x, y>> \in L <=> x > y
  OBVIOUS
<1>2. (\A x \in S : <<x, x>> \notin L)
      /\ \A x, y, z \in S : <<x, y>> \in L /\ <<y, z>> \in L => <<x, z>> \in L
  <2> HIDE DEF L
  <2> QED
    BY <1>1
<1> HIDE DEF L
<1>3. \E x \in S : \A y \in S : <<y, x>> \notin L
  BY <1>2, MinimalElement
<1>4. \E x \in S : \A y \in S : x >= y
  <2>1. PICK x \in S : \A y \in S : <<y, x>> \notin L
    BY <1>3
  <2>2. \A y \in S : ~ (y > x)
    BY <1>1, <2>1
  <2>3. \A y \in S : y \in Nat /\ x \in Nat
    OBVIOUS
  <2>4. \A y \in S : x >= y
    BY <2>2, <2>3
  <2> QED
    BY <2>4
<1> QED
  BY <1>4 DEF Max

(* The rows S under ORDER BY, where no two rows have equal keys.            *)
Sorted(s, S, L) ==
  /\ s \in SetToSeqs(S)
  /\ \A i, j \in DOMAIN s : i < j => <<s[j], s[i]>> \notin L

LEMMA SortedIsAll ==
  ASSUME NEW S, IsFiniteSet(S), NEW s \in SetToSeqs(S)
  PROVE  /\ Cardinality(S) \in Nat
         /\ s \in Seq(S) /\ Len(s) = Cardinality(S) /\ DOMAIN s = 1 .. Cardinality(S)
         /\ \A i, j \in 1 .. Cardinality(S) : s[i] = s[j] => i = j
         /\ \A i \in 1 .. Cardinality(S) : s[i] \in S
         /\ \A x \in S : \E i \in 1 .. Cardinality(S) : s[i] = x
<1> DEFINE n == Cardinality(S)
<1>1. n \in Nat
  BY FS_CardinalityType
<1>2. s \in [1 .. n -> S] /\ \A i, j \in 1 .. n : i # j => s[i] # s[j]
  BY DEF SetToSeqs
<1>3. IsFiniteSet(1 .. n) /\ Cardinality(1 .. n) = n
  BY <1>1, FS_Interval
<1> HIDE DEF n
<1>4. s \in Injection(1 .. n, S)
  BY <1>2 DEF Injection, IsInjective
<1>5. s \in Surjection(1 .. n, S)
  BY <1>3, <1>4, FS_Injection DEF n
<1>6. \A x \in S : \E i \in 1 .. n : s[i] = x
  BY <1>5 DEF Surjection
<1>7. s \in Seq(S) /\ Len(s) = n /\ DOMAIN s = 1 .. n
  BY <1>1, <1>2
<1> QED
  BY <1>1, <1>2, <1>6, <1>7 DEF n

LEMMA SortedOnce ==
  ASSUME NEW S, IsFiniteSet(S), NEW L,
         \A x, y \in S : x # y => <<x, y>> \in L \/ <<y, x>> \in L,
         NEW s, Sorted(s, S, L), NEW t, Sorted(t, S, L)
  PROVE  s = t
<1> DEFINE n == Cardinality(S)
           T == {i \in 1 .. n : s[i] # t[i]}
<1> DEFINE Ordered(u) ==
             /\ n \in Nat /\ u \in [1 .. n -> S] /\ DOMAIN u = 1 .. n
             /\ \A i, j \in 1 .. n : u[i] = u[j] => i = j
             /\ \A x \in S : \E i \in 1 .. n : u[i] = x
             /\ \A i, j \in 1 .. n : i < j => <<u[j], u[i]>> \notin L
<1>0. ASSUME NEW u, Sorted(u, S, L) PROVE Ordered(u)
  <2>1. u \in SetToSeqs(S)
    BY <1>0 DEF Sorted
  <2>2. u \in [1 .. n -> S]
    BY <2>1 DEF SetToSeqs
  <2>3. /\ n \in Nat /\ DOMAIN u = 1 .. n
        /\ \A i, j \in 1 .. n : u[i] = u[j] => i = j
        /\ \A x \in S : \E i \in 1 .. n : u[i] = x
    BY <2>1, SortedIsAll
  <2> QED
    BY <1>0, <2>2, <2>3 DEF Sorted
<1>1. /\ n \in Nat /\ s \in [1 .. n -> S] /\ t \in [1 .. n -> S]
      /\ DOMAIN s = 1 .. n /\ DOMAIN t = 1 .. n
      /\ \A i, j \in 1 .. n : s[i] = s[j] => i = j
      /\ \A i, j \in 1 .. n : t[i] = t[j] => i = j
      /\ \A i \in 1 .. n : s[i] \in S /\ t[i] \in S
      /\ \A x \in S : (\E i \in 1 .. n : s[i] = x) /\ \E i \in 1 .. n : t[i] = x
      /\ \A i, j \in 1 .. n : i < j => <<s[j], s[i]>> \notin L
      /\ \A i, j \in 1 .. n : i < j => <<t[j], t[i]>> \notin L
  <2>1. Ordered(s) /\ Ordered(t)
    BY <1>0
  <2> HIDE DEF n
  <2> QED
    BY <2>1
<1> HIDE DEF n, Ordered
<1>2. T = {}
  <2> SUFFICES ASSUME T # {} PROVE FALSE
    OBVIOUS
  <2>1. PICK i \in T : \A k \in T : i <= k
    <3>1. T \subseteq Nat
      BY <1>1
    <3> HIDE DEF T
    <3> QED
      BY <3>1, LeastNatural
  <2>2. i \in 1 .. n /\ s[i] # t[i] /\ \A k \in 1 .. n : k < i => s[k] = t[k]
    <3>1. \A k \in 1 .. n : k < i => k \notin T
      BY <1>1, <2>1
    <3> QED
      BY <3>1
  <2>3. PICK j \in 1 .. n : t[j] = s[i]
    BY <1>1, <2>2
  <2>4. PICK k \in 1 .. n : s[k] = t[i]
    BY <1>1, <2>2
  <2> HIDE DEF T
  <2>5. i < j
    <3>1. j # i
      BY <2>2, <2>3
    <3>2. ~ (j < i)
      BY <1>1, <2>2, <2>3
    <3> QED
      BY <1>1, <2>2, <3>1, <3>2
  <2>6. i < k
    <3>1. k # i
      BY <2>2, <2>4
    <3>2. ~ (k < i)
      BY <1>1, <2>2, <2>4
    <3> QED
      BY <1>1, <2>2, <3>1, <3>2
  <2>7. <<s[i], t[i]>> \notin L /\ <<t[i], s[i]>> \notin L
    BY <1>1, <2>2, <2>3, <2>4, <2>5, <2>6
  <2> QED
    BY <1>1, <2>2, <2>7
<1>3. \A i \in 1 .. n : s[i] = t[i]
  BY <1>2
<1>4. s = [i \in 1 .. n |-> s[i]] /\ t = [i \in 1 .. n |-> t[i]]
  BY <1>1
<1> QED
  BY <1>3, <1>4
===============================================================================
