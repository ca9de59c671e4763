------------------------------- MODULE ApiProofs -------------------------------
(***************************************************************************)
(* Theorems about what the HTTP process serves and how: the catalogue that *)
(* its handlers read, for any data, scripts and clients, and the process   *)
(* itself with its rate gate, for any connections, downloads and           *)
(* deadlines.  The two machines share no variable.                         *)
(***************************************************************************)
EXTENDS Catalogue, Server, Collections

-----------------------------------------------------------------------------
(* The tables, between the statements of the scripts: derived from the      *)
(* survey, or empty after an INSERT that was refused.                       *)
TablesInv ==
  /\ viajes \in Surveys
  /\ script \in {"truncate_conexiones", "insert_conexiones"} => ~ failed
  /\ script = "insert_conexiones" => conexiones = Empty
  /\ script \in {"truncate_od", "insert_od"} => conexiones = IF failed THEN Empty ELSE Conexiones
  /\ script = "insert_od" => od = Empty
  /\ script \in {"rest", "rank"} =>
       \/ ~ failed /\ conexiones = Conexiones /\ od = CombinacionesOD(viajes)
       \/ failed /\ conexiones \in {Empty, Conexiones} /\ od \in {Empty, CombinacionesOD(viajes)}
            /\ (conexiones = Empty \/ od = Empty)
  /\ failed \in BOOLEAN
  /\ script = "rest" => ranking = CombinacionesLineas(conexiones, od)

LEMMA TablesInitially == CatalogueInit => TablesInv
  BY DEF CatalogueInit, TablesInv

LEMMA TablesKept == TablesInv /\ [CatalogueNext]_catalogueVars => TablesInv'
<1> SUFFICES ASSUME TablesInv, [CatalogueNext]_catalogueVars PROVE TablesInv'
  OBVIOUS
<1> USE DEF TablesInv
<1>1. CASE Reload
  BY <1>1 DEF Reload
<1>2. CASE TruncateConexiones
  BY <1>2 DEF TruncateConexiones
<1>3. CASE InsertConexiones
  BY <1>3 DEF InsertConexiones
<1>4. CASE TruncateOD
  BY <1>4 DEF TruncateOD
<1>5. CASE InsertOD
  BY <1>5 DEF InsertOD
<1>6. CASE Rank
  BY <1>6 DEF Rank
<1>7. CASE InsertFails
  BY <1>7 DEF InsertFails
<1>8. CASE Stop
  BY <1>8 DEF Stop
<1>9. CASE Browse
  BY <1>9 DEF Browse, tables
<1>10. CASE Request
  BY <1>10 DEF Request, tables
<1>11. CASE UNCHANGED catalogueVars
  BY <1>11 DEF catalogueVars, tables
<1> QED
  BY <1>1, <1>2, <1>3, <1>4, <1>5, <1>6, <1>7, <1>8, <1>9, <1>10, <1>11
  DEF CatalogueNext, Load, Statement

(* Between the statements and at rest, the tables are derived from the      *)
(* survey or empty after a refused INSERT, whatever statements were stopped *)
(* and run again before.                                                    *)
THEOREM TablesAreDerived == CatalogueSpec => []TablesInv
  BY TablesInitially, TablesKept, PTL DEF CatalogueSpec

(* The ranking the scripts derive from a survey.                            *)
Ranked(sur) == CombinacionesLineas(Conexiones, CombinacionesOD(sur))

(* Without transfers or without trips, no attribution and no ranking.       *)
LEMMA NothingIsRanked ==
  ASSUME NEW c, NEW o, c = Empty \/ o = Empty
  PROVE  CombinacionesLineas(c, o) = {}
<1>1. Atribucion(c, o) = {}
  <2>1. DOMAIN Empty = {}
    BY DEF Empty
  <2>2. CASE o = Empty
    BY <2>1, <2>2 DEF Atribucion
  <2>3. CASE c = Empty
    <3>1. \A a, b : Itinerarios(c, a, b) = {}
      BY <2>1, <2>3 DEF Itinerarios
    <3> QED
      BY <3>1 DEF Atribucion
  <2> QED
    BY <2>2, <2>3
<1> QED
  BY <1>1 DEF CombinacionesLineas

(* At rest everything is derived from the survey, or the ranking is empty.  *)
LEMMA TablesAtRest ==
  ASSUME TablesInv, script = "rest"
  PROVE  /\ viajes \in Surveys
         /\ ranking \subseteq Ranked(viajes)
         /\ IF failed THEN ranking = {} ELSE ranking = Ranked(viajes)
         /\ ranking # {} => conexiones = Conexiones
<1>1. CASE failed
  <2>1. ranking = {}
    BY <1>1, NothingIsRanked DEF TablesInv
  <2> QED
    BY <1>1, <2>1 DEF TablesInv
<1>2. CASE ~ failed
  BY <1>2 DEF TablesInv, Ranked
<1> QED
  BY <1>1, <1>2

-----------------------------------------------------------------------------
(* Journeys: what the first and last stops near a cell decide is what a     *)
(* traveller can do.                                                        *)
LEMMA CallsAreFinite ==
  ASSUME NEW r \in Recorridos, NEW c \in Cells
  PROVE  /\ Calls(r, c) = {i \in DOMAIN StopsOf[r] : StopsOf[r][i] \in StopsNear[c]}
         /\ Calls(r, c) \subseteq Nat
         /\ Calls(r, c) # {} =>
              /\ Primera(r, c) \in Calls(r, c) /\ \A i \in Calls(r, c) : Primera(r, c) <= i
              /\ Ultima(r, c) \in Calls(r, c) /\ \A i \in Calls(r, c) : i <= Ultima(r, c)
<1> DEFINE C == Calls(r, c)
<1>1. StopsOf[r] \in Seq(Stops)
  BY TransfersAssumption
<1>2. Len(StopsOf[r]) \in Nat /\ DOMAIN StopsOf[r] = 1 .. Len(StopsOf[r])
  BY <1>1
<1>3. C = {i \in DOMAIN StopsOf[r] : StopsOf[r][i] \in StopsNear[c]}
  BY DEF Calls
<1>4. C \subseteq 1 .. Len(StopsOf[r])
  BY <1>2, <1>3
<1>5. C \subseteq Nat /\ IsFiniteSet(C)
  <2>1. IsFiniteSet(1 .. Len(StopsOf[r]))
    BY <1>2, FS_Interval
  <2> HIDE DEF C
  <2>2. IsFiniteSet(C)
    BY <1>4, <2>1, FS_Subset
  <2> QED
    BY <1>2, <1>4, <2>1, <2>2
<1>6. ASSUME C # {} PROVE Min(C) \in C /\ (\A i \in C : Min(C) <= i) /\ Max(C) \in C /\ \A i \in C : i <= Max(C)
  <2> HIDE DEF C
  <2>1. Min(C) \in C /\ \A i \in C : Min(C) <= i
    BY <1>5, <1>6, MinIsLeast
  <2>2. Max(C) \in C /\ \A i \in C : Max(C) >= i
    BY <1>5, <1>6, MaxIsGreatest
  <2> QED
    BY <1>5, <2>1, <2>2
<1> QED
  BY <1>3, <1>5, <1>6 DEF Primera, Ultima

LEMMA DirectIsOneSeat ==
  ASSUME NEW o \in Cells, NEW d \in Cells
  PROVE  Directo(o, d) <=> <<o, d>> \in OneSeat
<1>1. ASSUME NEW r \in Serving(o) \cap Serving(d), Ultima(r, d) > Primera(r, o)
      PROVE  <<o, d>> \in OneSeat
  <2>1. r \in Recorridos /\ Calls(r, o) # {} /\ Calls(r, d) # {}
    BY DEF Serving
  <2>2. Primera(r, o) \in Calls(r, o) /\ Ultima(r, d) \in Calls(r, d)
    BY <2>1, CallsAreFinite
  <2>3. Primera(r, o) < Ultima(r, d)
    <3>1. Primera(r, o) \in Nat /\ Ultima(r, d) \in Nat
      BY <2>1, <2>2, CallsAreFinite
    <3> QED
      BY <3>1, <1>1
  <2> QED
    BY <2>1, <2>2, <2>3, CallsAreFinite DEF OneSeat, Flows, Rides
<1>2. ASSUME <<o, d>> \in OneSeat PROVE Directo(o, d)
  <2>1. PICK r \in Recorridos : \E i, j \in DOMAIN StopsOf[r] :
          Rides(r, i, j) /\ StopsOf[r][i] \in StopsNear[o] /\ StopsOf[r][j] \in StopsNear[d]
    BY <1>2 DEF OneSeat
  <2>2. PICK i \in DOMAIN StopsOf[r], j \in DOMAIN StopsOf[r] :
          i < j /\ StopsOf[r][i] \in StopsNear[o] /\ StopsOf[r][j] \in StopsNear[d]
    BY <2>1 DEF Rides
  <2>3. i \in Calls(r, o) /\ j \in Calls(r, d)
    BY <2>2, CallsAreFinite
  <2>4. /\ Primera(r, o) <= i /\ j <= Ultima(r, d)
        /\ {i, j, Primera(r, o), Ultima(r, d)} \subseteq Nat
    BY <2>3, CallsAreFinite
  <2>5. Ultima(r, d) > Primera(r, o)
    BY <2>2, <2>4
  <2> QED
    BY <2>3, <2>5 DEF Directo, Serving
<1> QED
  BY <1>1, <1>2 DEF Directo

LEMMA ConexionesDomain ==
  /\ DOMAIN Conexiones = Connected
  /\ Connected \subseteq Recorridos \X Recorridos
  /\ IsFiniteSet(Connected)
<1>1. DOMAIN Conexiones = Connected
  BY DEF Conexiones
<1>2. Connected \subseteq Recorridos \X Recorridos
  BY DEF Connected
<1>3. IsFiniteSet(Recorridos \X Recorridos)
  BY TransfersAssumption, FS_Product
<1> QED
  BY <1>1, <1>2, <1>3, FS_Subset

(* One boards r after the first stop near the cell exactly when one boards  *)
(* it at some stop near the cell before; and alights likewise.              *)
LEMMA RidesAfter ==
  ASSUME NEW r \in Recorridos, NEW c \in Cells, NEW s
  PROVE  (r \in Serving(c) /\ \E i \in At(r, s) : i > Primera(r, c))
           <=> \E i, j \in DOMAIN StopsOf[r] :
                 Rides(r, i, j) /\ StopsOf[r][i] \in StopsNear[c] /\ StopsOf[r][j] = s
<1>1. DOMAIN StopsOf[r] \subseteq Nat
  BY TransfersAssumption, ElementsOf
<1>2. ASSUME r \in Serving(c), NEW i \in At(r, s), i > Primera(r, c)
      PROVE  \E k, j \in DOMAIN StopsOf[r] :
               Rides(r, k, j) /\ StopsOf[r][k] \in StopsNear[c] /\ StopsOf[r][j] = s
  <2>1. Primera(r, c) \in Calls(r, c) /\ Primera(r, c) \in Nat /\ i \in Nat
    BY <1>1, <1>2, CallsAreFinite DEF Serving, At
  <2>2. Primera(r, c) < i
    BY <2>1, <1>2
  <2>3. Primera(r, c) \in DOMAIN StopsOf[r] /\ StopsOf[r][Primera(r, c)] \in StopsNear[c]
    BY <2>1, CallsAreFinite
  <2> QED
    BY <2>2, <2>3 DEF Rides, At
<1>3. ASSUME NEW i \in DOMAIN StopsOf[r], NEW j \in DOMAIN StopsOf[r],
             Rides(r, i, j), StopsOf[r][i] \in StopsNear[c], StopsOf[r][j] = s
      PROVE  r \in Serving(c) /\ \E k \in At(r, s) : k > Primera(r, c)
  <2>1. i \in Calls(r, c) /\ i < j
    BY <1>3, CallsAreFinite DEF Rides
  <2>2. Primera(r, c) <= i /\ {i, j, Primera(r, c)} \subseteq Nat
    BY <1>1, <2>1, CallsAreFinite
  <2>3. j > Primera(r, c)
    BY <2>1, <2>2
  <2> QED
    BY <1>3, <2>1, <2>3 DEF Serving, At
<1> QED
  BY <1>2, <1>3

LEMMA RidesBefore ==
  ASSUME NEW r \in Recorridos, NEW c \in Cells, NEW s
  PROVE  (r \in Serving(c) /\ \E i \in At(r, s) : i < Ultima(r, c))
           <=> \E i, j \in DOMAIN StopsOf[r] :
                 Rides(r, i, j) /\ StopsOf[r][i] = s /\ StopsOf[r][j] \in StopsNear[c]
<1>1. DOMAIN StopsOf[r] \subseteq Nat
  BY TransfersAssumption, ElementsOf
<1>2. ASSUME r \in Serving(c), NEW i \in At(r, s), i < Ultima(r, c)
      PROVE  \E k, j \in DOMAIN StopsOf[r] :
               Rides(r, k, j) /\ StopsOf[r][k] = s /\ StopsOf[r][j] \in StopsNear[c]
  <2>1. Ultima(r, c) \in Calls(r, c)
    BY <1>2, CallsAreFinite DEF Serving
  <2>2. Ultima(r, c) \in DOMAIN StopsOf[r] /\ StopsOf[r][Ultima(r, c)] \in StopsNear[c]
    BY <2>1, CallsAreFinite
  <2> QED
    BY <1>2, <2>2 DEF Rides, At
<1>3. ASSUME NEW i \in DOMAIN StopsOf[r], NEW j \in DOMAIN StopsOf[r],
             Rides(r, i, j), StopsOf[r][i] = s, StopsOf[r][j] \in StopsNear[c]
      PROVE  r \in Serving(c) /\ \E k \in At(r, s) : k < Ultima(r, c)
  <2>1. j \in Calls(r, c) /\ i < j
    BY <1>3, CallsAreFinite DEF Rides
  <2>2. j <= Ultima(r, c) /\ {i, j, Ultima(r, c)} \subseteq Nat
    BY <1>1, <2>1, CallsAreFinite
  <2>3. i < Ultima(r, c)
    BY <2>1, <2>2
  <2> QED
    BY <1>3, <2>1, <2>3 DEF Serving, At
<1> QED
  BY <1>2, <1>3

LEMMA ItinerariesAreJourneys ==
  ASSUME NEW o \in Cells, NEW d \in Cells, NEW p
  PROVE  p \in Itinerarios(Conexiones, o, d)
           <=> <<o, d>> \notin OneSeat /\ <<p, <<o, d>>>> \in Journeys
<1>1. <<p, <<o, d>>>> \in Journeys <=> p \in Connected /\ Makes(p, o, d)
  BY DEF Journeys, Flows
<1>2. ASSUME p \in Connected
      PROVE  Makes(p, o, d)
               <=> /\ p[1] \in Serving(o) /\ p[2] \in Serving(d)
                   /\ \E i \in At(p[1], Conexiones[p].bajada) : i > Primera(p[1], o)
                   /\ \E i \in At(p[2], Conexiones[p].subida) : i < Ultima(p[2], d)
  <2>1. p[1] \in Recorridos /\ p[2] \in Recorridos
    BY <1>2, ConexionesDomain
  <2>2. (p[1] \in Serving(o) /\ \E i \in At(p[1], Conexiones[p].bajada) : i > Primera(p[1], o))
          <=> \E i, j \in DOMAIN StopsOf[p[1]] :
                /\ Rides(p[1], i, j) /\ StopsOf[p[1]][i] \in StopsNear[o]
                /\ StopsOf[p[1]][j] = Conexiones[p].bajada
    BY <2>1, RidesAfter
  <2>3. (p[2] \in Serving(d) /\ \E i \in At(p[2], Conexiones[p].subida) : i < Ultima(p[2], d))
          <=> \E i, j \in DOMAIN StopsOf[p[2]] :
                /\ Rides(p[2], i, j) /\ StopsOf[p[2]][i] = Conexiones[p].subida
                /\ StopsOf[p[2]][j] \in StopsNear[d]
    BY <2>1, RidesBefore
  <2> QED
    BY <2>2, <2>3 DEF Makes
<1>3. p \in Itinerarios(Conexiones, o, d)
        <=> /\ ~ Directo(o, d) /\ p \in Connected
            /\ p[1] \in Serving(o) /\ p[2] \in Serving(d)
            /\ \E i \in At(p[1], Conexiones[p].bajada) : i > Primera(p[1], o)
            /\ \E i \in At(p[2], Conexiones[p].subida) : i < Ultima(p[2], d)
  BY ConexionesDomain DEF Itinerarios
<1> QED
  BY <1>1, <1>2, <1>3, DirectIsOneSeat

-----------------------------------------------------------------------------
(* The trips of a survey that count, and what each is worth.                *)
With(sur) == {i \in DOMAIN sur : Combines(sur[i])}
FlowOf(sur) == [i \in DOMAIN sur |-> <<sur[i].origen, sur[i].destino>>]
HourOf(sur) == [i \in DOMAIN sur |-> sur[i].hora]
Factors(sur) == [i \in DOMAIN sur |-> Factor(sur[i])]

LEMMA SurveyFacts ==
  ASSUME NEW sur \in Surveys
  PROVE  /\ IsFiniteSet(DOMAIN sur)
         /\ \A i \in DOMAIN sur : Factors(sur)[i] \in Nat
         /\ \A i \in With(sur) : /\ i \in DOMAIN sur
                                 /\ FlowOf(sur)[i] = <<sur[i].origen, sur[i].destino>>
                                 /\ HourOf(sur)[i] = sur[i].hora
                                 /\ FlowOf(sur)[i] \in Flows
                                 /\ HourOf(sur)[i] \in Hours
<1> DEFINE Trips == [origen : Cells \cup {Null}, destino : Cells \cup {Null},
                     hora : Hours \cup {Null}, etapas : Nat, colectivo : Nat,
                     factor : Nat \cup {Null}]
<1>1. sur \in Seq(Trips)
  BY CatalogueAssumption
<1> HIDE DEF Trips
<1>2. Len(sur) \in Nat /\ DOMAIN sur = 1 .. Len(sur) /\ \A i \in DOMAIN sur : sur[i] \in Trips
  BY <1>1, ElementsOf
<1>3. IsFiniteSet(DOMAIN sur)
  BY <1>2, FS_Interval
<1>4. \A i \in DOMAIN sur : Factors(sur)[i] \in Nat
  BY <1>2 DEF Trips, Factors, Factor
<1>5. ASSUME NEW i \in With(sur)
      PROVE  /\ i \in DOMAIN sur
             /\ FlowOf(sur)[i] = <<sur[i].origen, sur[i].destino>> /\ HourOf(sur)[i] = sur[i].hora
             /\ FlowOf(sur)[i] \in Flows /\ HourOf(sur)[i] \in Hours
  <2>1. i \in DOMAIN sur /\ sur[i] \in Trips /\ Null \notin {sur[i].origen, sur[i].destino, sur[i].hora}
    BY <1>2 DEF With, Combines
  <2>2. sur[i].origen \in Cells /\ sur[i].destino \in Cells /\ sur[i].hora \in Hours
    BY <2>1 DEF Trips
  <2> QED
    BY <2>1, <2>2 DEF FlowOf, HourOf, Flows
<1> QED
  BY <1>3, <1>4, <1>5

LEMMA FactorsAreSummed ==
  ASSUME NEW sur \in Surveys, NEW S \in SUBSET DOMAIN sur
  PROVE  /\ IsFiniteSet(S)
         /\ Total(Factors(sur), S) \in Nat
         /\ MapThenSumSet(LAMBDA i : Factor(sur[i]), S) = Total(Factors(sur), S)
<1>1. \A i \in DOMAIN sur : Factors(sur)[i] \in Nat /\ Factors(sur)[i] = Factor(sur[i])
  BY SurveyFacts DEF Factors
<1>2. IsFiniteSet(S)
  BY SurveyFacts, FS_Subset
<1> DEFINE Solves(sum) ==
             sum = [s \in SUBSET S |->
                      IF s = {} THEN 0
                      ELSE Factors(sur)[CHOOSE x \in s : TRUE] + sum[s \ {CHOOSE x \in s : TRUE}]]
           Folds(sum) ==
             sum = [s \in SUBSET S |->
                      IF s = {} THEN 0
                      ELSE Factor(sur[CHOOSE x \in s : TRUE]) + sum[s \ {CHOOSE x \in s : TRUE}]]
<1>3. \A i \in S : Factors(sur)[i] \in Nat
  BY <1>1
<1>4. (\E sum : Solves(sum)) /\ \A sum : Solves(sum) => sum[S] = Total(Factors(sur), S)
  BY <1>2, <1>3, SumRecursion
<1>5. ASSUME NEW sum PROVE Solves(sum) <=> Folds(sum)
  <2>1. \A s \in SUBSET S : s # {} => Factors(sur)[CHOOSE x \in s : TRUE] = Factor(sur[CHOOSE x \in s : TRUE])
    BY <1>1
  <2> QED
    BY <2>1
<1>6. MapThenSumSet(LAMBDA i : Factor(sur[i]), S) = (CHOOSE sum : Folds(sum))[S]
  BY DEF MapThenSumSet, MapThenFoldSet
<1> HIDE DEF Solves, Folds
<1>7. Solves(CHOOSE sum : Folds(sum))
  BY <1>4, <1>5
<1> QED
  BY <1>2, <1>3, <1>4, <1>6, <1>7, TotalType

LEMMA CombinacionesFacts ==
  ASSUME NEW sur \in Surveys, NEW o, NEW d, NEW h
  PROVE  LET of == {i \in With(sur) : FlowOf(sur)[i] = <<o, d>> /\ HourOf(sur)[i] = h} IN
         /\ <<o, d, h>> \in DOMAIN CombinacionesOD(sur) <=> of # {}
         /\ <<o, d, h>> \in DOMAIN CombinacionesOD(sur) =>
              CombinacionesOD(sur)[<<o, d, h>>] = Total(Factors(sur), of)
<1> DEFINE Key(i) == <<sur[i].origen, sur[i].destino, sur[i].hora>>
           of == {i \in With(sur) : FlowOf(sur)[i] = <<o, d>> /\ HourOf(sur)[i] = h}
           same(f) == {i \in With(sur) : Key(i) = f}
<1>1. CombinacionesOD(sur) =
        [f \in {Key(i) : i \in With(sur)} |-> MapThenSumSet(LAMBDA i : Factor(sur[i]), same(f))]
  BY DEF CombinacionesOD, With
<1>2. same(<<o, d, h>>) = of
  BY SurveyFacts
<1>3. of \in SUBSET DOMAIN sur
  BY DEF With
<1>4. <<o, d, h>> \in {Key(i) : i \in With(sur)} <=> of # {}
  BY SurveyFacts
<1> HIDE DEF of, same
<1>5. MapThenSumSet(LAMBDA i : Factor(sur[i]), of) = Total(Factors(sur), of)
  BY <1>3, FactorsAreSummed
<1>6. DOMAIN CombinacionesOD(sur) = {Key(i) : i \in With(sur)}
  BY <1>1
<1>7. \A f \in {Key(i) : i \in With(sur)} :
        CombinacionesOD(sur)[f] = MapThenSumSet(LAMBDA i : Factor(sur[i]), same(f))
  BY <1>1
<1> HIDE DEF Key
<1>8. <<o, d, h>> \in DOMAIN CombinacionesOD(sur) =>
        CombinacionesOD(sur)[<<o, d, h>>] = MapThenSumSet(LAMBDA i : Factor(sur[i]), same(<<o, d, h>>))
  BY <1>6, <1>7
<1> QED
  BY <1>2, <1>4, <1>5, <1>6, <1>8 DEF of

-----------------------------------------------------------------------------
(* The split of a survey among the pairs of lines, and one row of it.       *)
Split(sur) == Atribucion(Conexiones, CombinacionesOD(sur))

Its(o, d) == Itinerarios(Conexiones, o, d)

Attributed(sur, p, o, d, h) ==
  [par |-> p, origen |-> o, destino |-> d, hora |-> h,
   viajes |-> CombinacionesOD(sur)[<<o, d, h>>] * (Parts \div Cardinality(Its(o, d))),
   alternativas |-> Cardinality(Its(o, d))]

LEMMA ItinerariesAreFinite ==
  ASSUME NEW o \in Cells, NEW d \in Cells
  PROVE  /\ IsFiniteSet(Its(o, d))
         /\ Cardinality(Its(o, d)) \in Nat
         /\ <<o, d>> \notin OneSeat => Cardinality({j \in Journeys : j[2] = <<o, d>>}) = Cardinality(Its(o, d))
         /\ (Its(o, d) # {} /\ Cardinality(Its(o, d)) <= MaximumAlternatives) =>
              Parts \div Cardinality(Its(o, d)) \in Nat
<1> DEFINE its == Its(o, d)
           js == {j \in Journeys : j[2] = <<o, d>>}
<1>1. its \subseteq Connected
  BY ItinerariesAreJourneys DEF Its, Journeys
<1>2. IsFiniteSet(its) /\ Cardinality(its) \in Nat
  <2> HIDE DEF its
  <2> QED
    BY <1>1, ConexionesDomain, FS_Subset, FS_CardinalityType
<1>3. ASSUME <<o, d>> \notin OneSeat PROVE Cardinality(js) = Cardinality(its)
  <2> DEFINE f == [p \in its |-> <<p, <<o, d>>>>]
  <2>1. \A p \in its : <<p, <<o, d>>>> \in js
    BY ItinerariesAreJourneys DEF Its
  <2>2. ASSUME NEW j \in js PROVE \E p \in its : j = <<p, <<o, d>>>>
    <3>1. j \in Journeys /\ j = <<j[1], j[2]>> /\ j[2] = <<o, d>>
      BY DEF Journeys
    <3>2. <<j[1], <<o, d>>>> \in Journeys
      BY <3>1
    <3> QED
      BY <1>3, <3>1, <3>2, ItinerariesAreJourneys DEF Its
  <2> HIDE DEF its, js
  <2>3. f \in Injection(its, js)
    BY <2>1 DEF Injection, IsInjective
  <2>4. f \in Surjection(its, js)
    BY <2>1, <2>2 DEF Surjection
  <2>5. f \in Bijection(its, js)
    BY <2>3, <2>4 DEF Bijection
  <2> QED
    BY <1>2, <2>5, FS_Bijection DEF ExistsBijection
<1>4. ASSUME its # {}, Cardinality(its) <= MaximumAlternatives
      PROVE  Parts \div Cardinality(its) \in Nat
  <2> HIDE DEF its
  <2>1. Cardinality(its) # 0
    BY <1>2, <1>4, FS_EmptySet
  <2>2. \A m \in Nat, n \in Nat \ {0} : m \div n \in Nat
    OBVIOUS
  <2>3. Parts \in Nat
    BY TransfersAssumption
  <2> QED
    BY <1>2, <2>1, <2>2, <2>3
<1> QED
  BY <1>2, <1>3, <1>4

LEMMA SplitIs ==
  ASSUME NEW sur \in Surveys, NEW a
  PROVE  a \in Split(sur) <=>
           \E o, d \in Cells, h \in Hours : \E p \in Its(o, d) :
             /\ <<o, d, h>> \in DOMAIN CombinacionesOD(sur)
             /\ Cardinality(Its(o, d)) <= MaximumAlternatives
             /\ a = Attributed(sur, p, o, d, h)
<1> DEFINE OD == CombinacionesOD(sur)
           Fits(f) == IF Cardinality(Its(f[1], f[2])) <= MaximumAlternatives THEN Its(f[1], f[2]) ELSE {}
           Row(f, p) == [par |-> p, origen |-> f[1], destino |-> f[2], hora |-> f[3],
                         viajes |-> OD[f] * (Parts \div Cardinality(Its(f[1], f[2]))),
                         alternativas |-> Cardinality(Its(f[1], f[2]))]
<1>1. Split(sur) = UNION {{Row(f, p) : p \in Fits(f)} : f \in DOMAIN OD}
  BY DEF Split, Atribucion, Its
<1>2. \A f \in DOMAIN OD : \E o, d \in Cells, h \in Hours : f = <<o, d, h>>
  <2>1. DOMAIN OD = {<<sur[i].origen, sur[i].destino, sur[i].hora>> : i \in With(sur)}
    BY DEF CombinacionesOD, With
  <2>2. ASSUME NEW i \in With(sur) PROVE sur[i].origen \in Cells /\ sur[i].destino \in Cells /\ sur[i].hora \in Hours
    <3>1. /\ <<sur[i].origen, sur[i].destino>> \in Flows /\ sur[i].hora \in Hours
      BY SurveyFacts
    <3> QED
      BY <3>1 DEF Flows
  <2> HIDE DEF OD
  <2> QED
    BY <2>1, <2>2
<1>3. \A o, d, h, p : Row(<<o, d, h>>, p) = Attributed(sur, p, o, d, h)
  BY DEF Attributed
<1>4. \A o, d, h : Fits(<<o, d, h>>) = IF Cardinality(Its(o, d)) <= MaximumAlternatives THEN Its(o, d) ELSE {}
  OBVIOUS
<1> HIDE DEF OD, Fits, Row
<1>5. a \in Split(sur) <=> \E f \in DOMAIN OD : \E p \in Fits(f) : a = Row(f, p)
  BY <1>1
<1>6. ASSUME a \in Split(sur)
      PROVE  \E o, d \in Cells, h \in Hours : \E p \in Its(o, d) :
               /\ <<o, d, h>> \in DOMAIN OD /\ Cardinality(Its(o, d)) <= MaximumAlternatives
               /\ a = Attributed(sur, p, o, d, h)
  <2>0. PICK f \in DOMAIN OD : \E p \in Fits(f) : a = Row(f, p)
    BY <1>5, <1>6
  <2>1. PICK p \in Fits(f) : a = Row(f, p)
    BY <2>0
  <2>2. PICK o \in Cells, d \in Cells, h \in Hours : f = <<o, d, h>>
    BY <1>2
  <2>3. p \in Its(o, d) /\ Cardinality(Its(o, d)) <= MaximumAlternatives
    BY <1>4, <2>2
  <2> QED
    BY <1>3, <2>1, <2>2, <2>3
<1>7. ASSUME NEW o \in Cells, NEW d \in Cells, NEW h \in Hours, NEW p \in Its(o, d),
             <<o, d, h>> \in DOMAIN OD, Cardinality(Its(o, d)) <= MaximumAlternatives,
             a = Attributed(sur, p, o, d, h)
      PROVE  a \in Split(sur)
  BY <1>3, <1>4, <1>5, <1>7
<1> QED
  BY <1>6, <1>7 DEF OD

(* The number of trips of a row.                                            *)
Trips(A) == [a \in A |-> a.viajes]

LEMMA SplitFacts ==
  ASSUME NEW sur \in Surveys
  PROVE  /\ IsFiniteSet(Split(sur))
         /\ \A a \in Split(sur) :
              /\ a.par \in Connected /\ a.origen \in Cells /\ a.destino \in Cells /\ a.hora \in Hours
              /\ a.viajes \in Nat
              /\ <<a.par, <<a.origen, a.destino>>>> \in Journeys
         /\ \A a, b \in Split(sur) :
              /\ a.par = b.par /\ a.origen = b.origen /\ a.destino = b.destino /\ a.hora = b.hora
              => a = b
<1>1. ASSUME NEW a \in Split(sur)
      PROVE  /\ a = Attributed(sur, a.par, a.origen, a.destino, a.hora)
             /\ a.par \in Connected /\ a.origen \in Cells /\ a.destino \in Cells /\ a.hora \in Hours
             /\ a.viajes \in Nat
             /\ <<a.par, <<a.origen, a.destino>>>> \in Journeys
  <2>0. PICK o \in Cells, d \in Cells, h \in Hours : \E p \in Its(o, d) :
          /\ <<o, d, h>> \in DOMAIN CombinacionesOD(sur)
          /\ Cardinality(Its(o, d)) <= MaximumAlternatives
          /\ a = Attributed(sur, p, o, d, h)
    BY SplitIs
  <2>1. PICK p \in Its(o, d) :
          /\ <<o, d, h>> \in DOMAIN CombinacionesOD(sur)
          /\ Cardinality(Its(o, d)) <= MaximumAlternatives
          /\ a = Attributed(sur, p, o, d, h)
    BY <2>0
  <2>2. /\ a.par = p /\ a.origen = o /\ a.destino = d /\ a.hora = h
        /\ a.viajes = CombinacionesOD(sur)[<<o, d, h>>] * (Parts \div Cardinality(Its(o, d)))
    BY <2>1 DEF Attributed
  <2>3. <<p, <<o, d>>>> \in Journeys
    BY ItinerariesAreJourneys DEF Its
  <2>4. p \in Connected
    BY <2>3 DEF Journeys
  <2>5. Parts \div Cardinality(Its(o, d)) \in Nat
    BY <2>1, ItinerariesAreFinite
  <2>6. CombinacionesOD(sur)[<<o, d, h>>] \in Nat
    <3> DEFINE of == {i \in With(sur) : FlowOf(sur)[i] = <<o, d>> /\ HourOf(sur)[i] = h}
    <3>1. CombinacionesOD(sur)[<<o, d, h>>] = Total(Factors(sur), of)
      BY <2>1, CombinacionesFacts
    <3>2. of \in SUBSET DOMAIN sur
      BY DEF With
    <3> HIDE DEF of
    <3> QED
      BY <3>1, <3>2, FactorsAreSummed
  <2>7. \A m, n \in Nat : m * n \in Nat
    OBVIOUS
  <2>8. a.viajes \in Nat
    BY <2>2, <2>5, <2>6, <2>7
  <2> QED
    BY <2>1, <2>2, <2>3, <2>4, <2>8
<1>2. \A a, b \in Split(sur) :
        a.par = b.par /\ a.origen = b.origen /\ a.destino = b.destino /\ a.hora = b.hora => a = b
  <2> TAKE a, b \in Split(sur)
  <2>1. /\ a = Attributed(sur, a.par, a.origen, a.destino, a.hora)
        /\ b = Attributed(sur, b.par, b.origen, b.destino, b.hora)
    BY <1>1
  <2> QED
    BY <2>1
<1>3. IsFiniteSet(Split(sur))
  <2> DEFINE places == Connected \X (Flows \X Hours)
             f == [a \in Split(sur) |-> <<a.par, <<<<a.origen, a.destino>>, a.hora>>>>]
  <2>1. IsFiniteSet(Flows)
    BY TransfersAssumption, FS_Product DEF Flows
  <2>2. IsFiniteSet(Flows \X Hours)
    BY <2>1, TransfersAssumption, FS_Product
  <2>3. IsFiniteSet(places)
    BY <2>2, ConexionesDomain, FS_Product
  <2>4. f \in [Split(sur) -> places]
    BY <1>1 DEF Flows
  <2>5. \A a, b \in Split(sur) : f[a] = f[b] => a = b
    BY <1>2
  <2> HIDE DEF places, f
  <2>6. f \in Injection(Split(sur), places)
    BY <2>4, <2>5 DEF Injection, IsInjective
  <2> QED
    BY <2>3, <2>6, FS_Injection
<1> QED
  BY <1>1, <1>2, <1>3

(* What a pair is attributed of a flow is its share of the people who made  *)
(* it: the hours partition both.                                            *)
LEMMA SharesAreAttributed ==
  ASSUME NEW sur \in Surveys, NEW p, NEW o \in Cells, NEW d \in Cells, NEW H, H \subseteq Hours
  PROVE  LET mine == {a \in Split(sur) : a.par = p /\ a.origen = o /\ a.destino = d /\ a.hora \in H} IN
         Total(Trips(Split(sur)), mine) = Share(sur, p, <<o, d>>, H)
<1> DEFINE mine == {a \in Split(sur) : a.par = p /\ a.origen = o /\ a.destino = d /\ a.hora \in H}
           them == {i \in With(sur) : FlowOf(sur)[i] = <<o, d>> /\ HourOf(sur)[i] \in H}
           V == Trips(Split(sur))
           F == Factors(sur)
           n == Cardinality(Its(o, d))
           c == Parts \div n
           carried == p \in Its(o, d) /\ n <= MaximumAlternatives
<1>1. Share(sur, p, <<o, d>>, H) = IF carried THEN Total(F, them) * c ELSE 0
  <2> DEFINE m == Cardinality({j \in Journeys : j[2] = <<o, d>>})
             those == {i \in DOMAIN sur : /\ Combines(sur[i])
                                          /\ <<sur[i].origen, sur[i].destino>> = <<o, d>>
                                          /\ sur[i].hora \in H}
  <2>1. those = them
    BY SurveyFacts DEF With
  <2>2. them \in SUBSET DOMAIN sur
    BY DEF With
  <2>3. MapThenSumSet(LAMBDA i : Factor(sur[i]), those) = Total(F, them)
    <3>1. MapThenSumSet(LAMBDA i : Factor(sur[i]), them) = Total(F, them)
      <4> HIDE DEF them
      <4> QED
        BY <2>2, FactorsAreSummed
    <3> HIDE DEF those, them
    <3> QED
      BY <3>1, <2>1
  <2>4. Share(sur, p, <<o, d>>, H) =
          IF <<o, d>> \in OneSeat \/ <<p, <<o, d>>>> \notin Journeys \/ m > MaximumAlternatives THEN 0
          ELSE MapThenSumSet(LAMBDA i : Factor(sur[i]), those) * (Parts \div m)
    BY DEF Share
  <2>5. <<o, d>> \notin OneSeat => m = n
    BY ItinerariesAreFinite
  <2>6. n \in Nat /\ MaximumAlternatives \in Nat
    BY ItinerariesAreFinite, TransfersAssumption
  <2>7. carried <=> ~ (<<o, d>> \in OneSeat \/ <<p, <<o, d>>>> \notin Journeys \/ m > MaximumAlternatives)
    <3>1. p \in Its(o, d) <=> <<o, d>> \notin OneSeat /\ <<p, <<o, d>>>> \in Journeys
      BY ItinerariesAreJourneys DEF Its
    <3> HIDE DEF m, n
    <3> QED
      BY <2>5, <2>6, <3>1
  <2>8. carried => m = n
    BY <2>5, ItinerariesAreJourneys DEF Its
  <2> HIDE DEF m, those, them, n
  <2> QED
    BY <2>3, <2>4, <2>7, <2>8
<1>2. /\ IsFiniteSet(mine) /\ \A a \in mine : V[a] = a.viajes /\ V[a] \in Nat
  <2>1. mine \subseteq Split(sur)
    OBVIOUS
  <2>2. \A a \in Split(sur) : V[a] = a.viajes /\ V[a] \in Nat
    BY SplitFacts DEF Trips
  <2> HIDE DEF mine, V
  <2> QED
    BY <2>1, <2>2, SplitFacts, FS_Subset
<1>3. CASE ~ carried
  <2>1. mine = {}
    <3> SUFFICES ASSUME NEW a \in mine PROVE FALSE
      OBVIOUS
    <3>1. PICK q \in Cells, e \in Cells, h \in Hours : \E r \in Its(q, e) :
            /\ <<q, e, h>> \in DOMAIN CombinacionesOD(sur)
            /\ Cardinality(Its(q, e)) <= MaximumAlternatives
            /\ a = Attributed(sur, r, q, e, h)
      BY SplitIs
    <3>2. q = o /\ e = d /\ p \in Its(q, e)
      BY <3>1 DEF Attributed
    <3> QED
      BY <1>3, <3>1, <3>2
  <2>2. Total(V, mine) = 0
    <3> HIDE DEF mine, V
    <3> QED
      BY <2>1, TotalOfNothing
  <2> QED
    BY <1>1, <1>3, <2>2
<1>4. CASE carried
  <2> DEFINE Of(h) == {i \in them : HourOf(sur)[i] = h}
             Now(h) == {a \in mine : a.hora = h}
             f == [a \in mine |-> a.hora]
             g == [i \in them |-> HourOf(sur)[i]]
             u == [h \in H |-> Total(F, Of(h))]
             t == [h \in H |-> Total(V, Now(h))]
  <2>1. /\ them \subseteq DOMAIN sur /\ IsFiniteSet(them) /\ IsFiniteSet(H)
        /\ (\A i \in them : F[i] \in Nat /\ HourOf(sur)[i] \in H) /\ c \in Nat
    <3>1. them \subseteq DOMAIN sur /\ \A i \in them : F[i] \in Nat /\ HourOf(sur)[i] \in H
      BY SurveyFacts DEF With
    <3>2. IsFiniteSet(Hours)
      BY TransfersAssumption
    <3>3. Its(o, d) # {} /\ n <= MaximumAlternatives
      BY <1>4
    <3> HIDE DEF them
    <3> QED
      BY <3>1, <3>2, <3>3, SurveyFacts, ItinerariesAreFinite, FS_Subset
  <2>2. ASSUME NEW h \in H PROVE t[h] = u[h] * c /\ u[h] \in Nat
    <3> DEFINE since == {i \in With(sur) : FlowOf(sur)[i] = <<o, d>> /\ HourOf(sur)[i] = h}
    <3>1. Of(h) = since
      OBVIOUS
    <3>2. h \in Hours
      OBVIOUS
    <3>3. u[h] = Total(F, since) /\ t[h] = Total(V, Now(h))
      BY <3>1
    <3>4. since \in SUBSET DOMAIN sur
      BY DEF With
    <3>5. Total(F, since) \in Nat
      <4> HIDE DEF since
      <4> QED
        BY <3>4, FactorsAreSummed
    <3>6. CASE <<o, d, h>> \in DOMAIN CombinacionesOD(sur)
      <4> DEFINE a == Attributed(sur, p, o, d, h)
      <4>1. a \in Split(sur)
        BY <1>4, <3>2, <3>6, SplitIs
      <4>2. a.par = p /\ a.origen = o /\ a.destino = d /\ a.hora = h
            /\ a.viajes = CombinacionesOD(sur)[<<o, d, h>>] * c
        BY DEF Attributed
      <4>3. Now(h) = {a}
        <5>1. a \in Now(h)
          BY <4>1, <4>2
        <5>2. \A b \in Now(h) : b = a
          BY <4>1, <4>2, SplitFacts
        <5> QED
          BY <5>1, <5>2
      <4>4. CombinacionesOD(sur)[<<o, d, h>>] = Total(F, since)
        BY <3>6, CombinacionesFacts
      <4>5. V[a] = a.viajes /\ V[a] \in Nat
        BY <1>2, <4>3
      <4> HIDE DEF a, Now, V, since
      <4>6. Total(V, Now(h)) = V[a]
        BY <4>3, <4>5, TotalOfOne
      <4> QED
        BY <3>3, <3>5, <4>2, <4>4, <4>5, <4>6
    <3>7. CASE <<o, d, h>> \notin DOMAIN CombinacionesOD(sur)
      <4>1. since = {}
        BY <3>7, CombinacionesFacts
      <4>2. Now(h) = {}
        <5> SUFFICES ASSUME NEW b \in Now(h) PROVE FALSE
          OBVIOUS
        <5>1. PICK q \in Cells, e \in Cells, k \in Hours : \E r \in Its(q, e) :
                /\ <<q, e, k>> \in DOMAIN CombinacionesOD(sur)
                /\ Cardinality(Its(q, e)) <= MaximumAlternatives
                /\ b = Attributed(sur, r, q, e, k)
          BY SplitIs
        <5>2. q = o /\ e = d /\ k = h
          BY <5>1 DEF Attributed
        <5> QED
          BY <3>7, <5>1, <5>2
      <4> HIDE DEF Now, V, since, c
      <4>3. Total(F, since) = 0 /\ Total(V, Now(h)) = 0
        BY <4>1, <4>2, TotalOfNothing
      <4>4. 0 * c = 0
        BY <2>1
      <4> QED
        BY <3>3, <3>5, <4>3, <4>4
    <3> QED
      BY <3>6, <3>7
  <2>3. Total(t, H) = Total(V, mine)
    <3>1. ByParts(V, mine, f, t, H)
      <4>1. \A a \in mine : f[a] = a.hora /\ f[a] \in H
        OBVIOUS
      <4>2. \A h \in H : Now(h) = {a \in mine : f[a] = h}
        OBVIOUS
      <4>3. \A h \in H : t[h] = Total(V, Now(h))
        OBVIOUS
      <4> HIDE DEF mine, f, Now, t, V
      <4> QED
        BY <1>2, <2>1, <4>1, <4>2, <4>3 DEF ByParts
    <3> HIDE DEF mine, f, t, V
    <3> QED
      BY <3>1, TotalByParts
  <2>4. Total(u, H) = Total(F, them)
    <3>1. ByParts(F, them, g, u, H)
      <4>1. \A i \in them : g[i] = HourOf(sur)[i]
        OBVIOUS
      <4>2. \A h \in H : Of(h) = {i \in them : g[i] = h}
        OBVIOUS
      <4>3. \A h \in H : u[h] = Total(F, Of(h))
        OBVIOUS
      <4> HIDE DEF them, g, Of, u, F
      <4> QED
        BY <2>1, <4>1, <4>2, <4>3 DEF ByParts
    <3> HIDE DEF them, g, u, F
    <3> QED
      BY <3>1, TotalByParts
  <2>5. Total(t, H) = Total(u, H) * c
    <3> HIDE DEF t, u, c
    <3>1. \A h \in H : u[h] \in Nat /\ t[h] = u[h] * c
      BY <2>2
    <3> QED
      BY <2>1, <3>1, TotalScaled
  <2> HIDE DEF them, t, u, c, F
  <2> QED
    BY <1>1, <1>4, <2>3, <2>4, <2>5
<1> QED
  BY <1>3, <1>4

-----------------------------------------------------------------------------
(* The rows of the ranking: one for each pair and hour, and for the day,    *)
(* with something attributed.                                               *)
Of(sur, p, hora) == {a \in Split(sur) : a.par = p /\ a.hora \in HoursOf(hora)}

LEMMA HoursFacts ==
  /\ \A hora \in Hours \cup {Null} : HoursOf(hora) \subseteq Hours
  /\ HoursOf(Null) = Hours
  /\ \A hora \in Hours : HoursOf(hora) = {hora} /\ hora # Null
<1>1. Null \notin Hours
  BY TransfersAssumption DEF Null
<1> QED
  BY <1>1 DEF HoursOf

LEMMA RowsAre ==
  ASSUME NEW sur \in Surveys, NEW row
  PROVE  row \in Ranked(sur) <=>
           \E p : \E hora \in Hours \cup {Null} : Of(sur, p, hora) # {} /\ row = Fila(Of(sur, p, hora), p, hora)
<1> DEFINE A == Split(sur)
           mine(p) == {a \in A : a.par = p}
           then(p, h) == {a \in mine(p) : a.hora = h}
<1>1. Ranked(sur) = {Fila(mine(p), p, Null) : p \in {a.par : a \in A}}
                      \cup {Fila(then(k[1], k[2]), k[1], k[2]) : k \in {<<a.par, a.hora>> : a \in A}}
  BY DEF Ranked, CombinacionesLineas, Split
<1>2. \A p : mine(p) = Of(sur, p, Null)
  BY HoursFacts, SplitFacts DEF Of
<1>3. \A p : \A h \in Hours : then(p, h) = Of(sur, p, h)
  BY HoursFacts DEF Of
<1>4. \A a \in A : a.hora \in Hours
  BY SplitFacts
<1>5. ASSUME row \in Ranked(sur)
      PROVE  \E p : \E hora \in Hours \cup {Null} :
               Of(sur, p, hora) # {} /\ row = Fila(Of(sur, p, hora), p, hora)
  <2>1. CASE \E p \in {a.par : a \in A} : row = Fila(mine(p), p, Null)
    <3>1. PICK p \in {a.par : a \in A} : row = Fila(mine(p), p, Null)
      BY <2>1
    <3>2. mine(p) # {}
      OBVIOUS
    <3> HIDE DEF mine
    <3> QED
      BY <1>2, <3>1, <3>2
  <2>2. CASE \E k \in {<<a.par, a.hora>> : a \in A} : row = Fila(then(k[1], k[2]), k[1], k[2])
    <3>1. PICK a \in A : row = Fila(then(a.par, a.hora), a.par, a.hora)
      <4> HIDE DEF then, A
      <4> QED
        BY <2>2
    <3>2. then(a.par, a.hora) # {}
      OBVIOUS
    <3>3. a.hora \in Hours
      BY <1>4
    <3> HIDE DEF then
    <3> QED
      BY <1>3, <3>1, <3>2, <3>3
  <2> HIDE DEF A, mine, then
  <2> QED
    BY <1>1, <1>5, <2>1, <2>2
<1>6. ASSUME NEW p, NEW hora \in Hours \cup {Null}, Of(sur, p, hora) # {},
             row = Fila(Of(sur, p, hora), p, hora)
      PROVE  row \in Ranked(sur)
  <2>1. PICK a \in A : a.par = p /\ a.hora \in HoursOf(hora)
    BY <1>6 DEF Of
  <2>2. CASE hora = Null
    <3>1. row = Fila(mine(p), p, Null)
      <4> HIDE DEF mine
      <4> QED
        BY <1>2, <1>6, <2>2
    <3>2. p \in {b.par : b \in A}
      BY <2>1
    <3> HIDE DEF mine, A, then
    <3> QED
      BY <1>1, <3>1, <3>2
  <2>3. CASE hora # Null
    <3>1. hora \in Hours /\ a.hora = hora
      BY <2>1, <2>3, HoursFacts
    <3>2. row = Fila(then(p, hora), p, hora)
      <4> HIDE DEF then
      <4> QED
        BY <1>3, <1>6, <3>1
    <3>3. <<p, hora>> \in {<<b.par, b.hora>> : b \in A}
      BY <2>1, <3>1
    <3> DEFINE k == <<p, hora>>
    <3>4. row = Fila(then(k[1], k[2]), k[1], k[2]) /\ k \in {<<b.par, b.hora>> : b \in A}
      <4> HIDE DEF then, A
      <4> QED
        BY <3>2, <3>3
    <3> HIDE DEF mine, A, then, k
    <3> QED
      BY <1>1, <3>4
  <2> QED
    BY <2>2, <2>3
<1> QED
  BY <1>5, <1>6

LEMMA VolumeIsTotal ==
  ASSUME NEW A, IsFiniteSet(A), \A a \in A : a.viajes \in Nat
  PROVE  Volume(A) = Total(Trips(A), A) /\ Volume(A) \in Nat
<1>1. \A a \in A : Trips(A)[a] \in Nat /\ Trips(A)[a] = a.viajes
  BY DEF Trips
<1> DEFINE Solves(sum) ==
             sum = [s \in SUBSET A |->
                      IF s = {} THEN 0
                      ELSE Trips(A)[CHOOSE x \in s : TRUE] + sum[s \ {CHOOSE x \in s : TRUE}]]
           Folds(sum) ==
             sum = [s \in SUBSET A |->
                      IF s = {} THEN 0
                      ELSE (CHOOSE x \in s : TRUE).viajes + sum[s \ {CHOOSE x \in s : TRUE}]]
<1>2. \A a \in A : Trips(A)[a] \in Nat
  BY <1>1
<1>3. (\E sum : Solves(sum)) /\ \A sum : Solves(sum) => sum[A] = Total(Trips(A), A)
  BY <1>2, SumRecursion
<1>4. ASSUME NEW sum PROVE Solves(sum) <=> Folds(sum)
  <2>1. \A s \in SUBSET A : s # {} => Trips(A)[CHOOSE x \in s : TRUE] = (CHOOSE x \in s : TRUE).viajes
    BY <1>1
  <2> QED
    BY <2>1
<1>5. Volume(A) = (CHOOSE sum : Folds(sum))[A]
  BY DEF Volume, MapThenSumSet, MapThenFoldSet
<1> HIDE DEF Solves, Folds
<1>6. Solves(CHOOSE sum : Folds(sum))
  BY <1>3, <1>4
<1> QED
  BY <1>2, <1>3, <1>5, <1>6, TotalType

(* The volume of some of a split.                                           *)
LEMMA VolumeOfSome ==
  ASSUME NEW sur \in Surveys, NEW B, B \subseteq Split(sur)
  PROVE  /\ IsFiniteSet(B)
         /\ Volume(B) = Total(Trips(Split(sur)), B) /\ Volume(B) \in Nat
<1>1. IsFiniteSet(B) /\ \A a \in B : a.viajes \in Nat
  BY SplitFacts, FS_Subset
<1>2. \A a \in B : Trips(B)[a] = Trips(Split(sur))[a]
  BY DEF Trips
<1>3. Total(Trips(B), B) = Total(Trips(Split(sur)), B)
  BY <1>2, TotalOfEqual
<1> QED
  BY <1>1, <1>3, VolumeIsTotal

(* What a row is attributed for a flow is the share of it.                  *)
LEMMA SharesOfRows ==
  ASSUME NEW sur \in Surveys, NEW p, NEW hora \in Hours \cup {Null}, NEW f \in Flows
  PROVE  LET on == {a \in Of(sur, p, hora) : a.origen = f[1] /\ a.destino = f[2]} IN
         /\ Share(sur, p, f, HoursOf(hora)) = Total(Trips(Split(sur)), on)
         /\ Share(sur, p, f, HoursOf(hora)) = Volume(on)
         /\ Share(sur, p, f, HoursOf(hora)) \in Nat
<1> DEFINE H == HoursOf(hora)
           B == Of(sur, p, hora)
           V == Trips(Split(sur))
           on == {a \in B : a.origen = f[1] /\ a.destino = f[2]}
<1>1. PICK o \in Cells, d \in Cells : f = <<o, d>>
  BY DEF Flows
<1> DEFINE mine == {a \in Split(sur) : a.par = p /\ a.origen = o /\ a.destino = d /\ a.hora \in H}
<1>2. on = mine
  BY <1>1 DEF Of
<1>3. H \subseteq Hours
  BY HoursFacts
<1>4. Total(V, mine) = Share(sur, p, <<o, d>>, H)
  <2> HIDE DEF H
  <2> QED
    BY <1>3, SharesAreAttributed
<1>5. mine \subseteq Split(sur)
  OBVIOUS
<1> HIDE DEF mine, on, V, H
<1>6. Volume(mine) = Total(V, mine) /\ Volume(mine) \in Nat
  BY <1>5, VolumeOfSome DEF V
<1>7. Share(sur, p, f, H) = Total(V, on) /\ Share(sur, p, f, H) = Volume(on) /\ Share(sur, p, f, H) \in Nat
  BY <1>1, <1>2, <1>4, <1>6
<1> QED
  BY <1>7 DEF on, V, H

(* What a row is attributed is the sum of its shares.                       *)
LEMMA RowsAreShares ==
  ASSUME NEW sur \in Surveys, NEW p, NEW hora \in Hours \cup {Null}
  PROVE  LET carried == {f \in Flows : <<p, f>> \in Journeys} IN
         /\ IsFiniteSet(carried)
         /\ MapThenSumSet(LAMBDA f : Share(sur, p, f, HoursOf(hora)), carried) = Volume(Of(sur, p, hora))
<1> DEFINE H == HoursOf(hora)
           carried == {f \in Flows : <<p, f>> \in Journeys}
           B == Of(sur, p, hora)
           V == Trips(Split(sur))
           On(f) == {a \in B : a.origen = f[1] /\ a.destino = f[2]}
           t == [f \in carried |-> Share(sur, p, f, H)]
           flow == [a \in B |-> <<a.origen, a.destino>>]
<1>1. IsFiniteSet(carried)
  <2>1. IsFiniteSet(Flows)
    BY TransfersAssumption, FS_Product DEF Flows
  <2> QED
    BY <2>1, FS_Subset
<1>2. B \subseteq Split(sur)
  BY DEF Of
<1>3. ASSUME NEW f \in Flows
      PROVE  Share(sur, p, f, H) = Total(V, On(f)) /\ Share(sur, p, f, H) \in Nat
  BY SharesOfRows
<1>4. Total(t, carried) = Total(V, B)
  <2>1. \A a \in B : flow[a] = <<a.origen, a.destino>> /\ flow[a] \in carried
    <3> SUFFICES ASSUME NEW a \in B PROVE <<a.origen, a.destino>> \in carried
      OBVIOUS
    <3>1. a.par = p /\ <<a.par, <<a.origen, a.destino>>>> \in Journeys
      BY <1>2, SplitFacts DEF Of
    <3>2. <<a.origen, a.destino>> \in Flows
      BY <3>1 DEF Journeys
    <3> QED
      BY <3>1, <3>2
  <2>2. \A f \in carried : On(f) = {a \in B : flow[a] = f}
    <3> TAKE f \in carried
    <3>1. f = <<f[1], f[2]>>
      BY DEF Flows
    <3> QED
      BY <3>1
  <2>3. \A f \in carried : t[f] = Total(V, On(f))
    BY <1>3
  <2>4. IsFiniteSet(B) /\ \A a \in B : V[a] \in Nat
    BY <1>2, SplitFacts, FS_Subset DEF Trips
  <2> HIDE DEF B, V, On, t, flow, carried
  <2>5. ByParts(V, B, flow, t, carried)
    BY <1>1, <2>1, <2>2, <2>3, <2>4 DEF ByParts
  <2> QED
    BY <2>5, TotalByParts
<1>5. MapThenSumSet(LAMBDA f : Share(sur, p, f, H), carried) = Total(t, carried)
  <2>1. \A f \in carried : t[f] \in Nat /\ t[f] = Share(sur, p, f, H)
    BY <1>3
  <2> DEFINE Solves(sum) ==
               sum = [s \in SUBSET carried |->
                        IF s = {} THEN 0
                        ELSE t[CHOOSE x \in s : TRUE] + sum[s \ {CHOOSE x \in s : TRUE}]]
             Folds(sum) ==
               sum = [s \in SUBSET carried |->
                        IF s = {} THEN 0
                        ELSE Share(sur, p, CHOOSE x \in s : TRUE, H) + sum[s \ {CHOOSE x \in s : TRUE}]]
  <2>2. MapThenSumSet(LAMBDA f : Share(sur, p, f, H), carried) = (CHOOSE sum : Folds(sum))[carried]
    BY DEF MapThenSumSet, MapThenFoldSet
  <2> HIDE DEF t, carried, H
  <2>3. \A f \in carried : t[f] \in Nat
    BY <2>1
  <2>4. (\E sum : Solves(sum)) /\ \A sum : Solves(sum) => sum[carried] = Total(t, carried)
    BY <1>1, <2>3, SumRecursion
  <2>5. ASSUME NEW sum PROVE Solves(sum) <=> Folds(sum)
    <3>1. \A s \in SUBSET carried : s # {} =>
            t[CHOOSE x \in s : TRUE] = Share(sur, p, CHOOSE x \in s : TRUE, H)
      BY <2>1
    <3> QED
      BY <3>1, ZenonT(40)
  <2> HIDE DEF Solves, Folds
  <2>6. Solves(CHOOSE sum : Folds(sum))
    BY <2>4, <2>5
  <2> QED
    BY <2>2, <2>4, <2>6
<1>6. Volume(B) = Total(V, B)
  BY <1>2, VolumeOfSome
<1> HIDE DEF V
<1> QED
  BY <1>1, <1>4, <1>5, <1>6

LEMMA RankedFacts ==
  ASSUME NEW sur \in Surveys
  PROVE  \A row \in Ranked(sur) :
           /\ row.hora \in Hours \cup {Null}
           /\ row = Fila(Of(sur, row.par, row.hora), row.par, row.hora)
           /\ Of(sur, row.par, row.hora) # {}
           /\ row.par \in Connected
           /\ row.viajes = Volume(Of(sur, row.par, row.hora)) /\ row.viajes \in Nat
           /\ row.zonas = Dominante(Of(sur, row.par, row.hora))
<1> SUFFICES ASSUME NEW row \in Ranked(sur)
             PROVE  /\ row.hora \in Hours \cup {Null}
                    /\ row = Fila(Of(sur, row.par, row.hora), row.par, row.hora)
                    /\ Of(sur, row.par, row.hora) # {}
                    /\ row.par \in Connected
                    /\ row.viajes = Volume(Of(sur, row.par, row.hora)) /\ row.viajes \in Nat
                    /\ row.zonas = Dominante(Of(sur, row.par, row.hora))
  OBVIOUS
<1>1. PICK p : \E hora \in Hours \cup {Null} : Of(sur, p, hora) # {} /\ row = Fila(Of(sur, p, hora), p, hora)
  BY RowsAre
<1>2. PICK hora \in Hours \cup {Null} : Of(sur, p, hora) # {} /\ row = Fila(Of(sur, p, hora), p, hora)
  BY <1>1
<1>3. /\ row.par = p /\ row.hora = hora
      /\ row.viajes = Volume(Of(sur, p, hora)) /\ row.zonas = Dominante(Of(sur, p, hora))
  BY <1>2 DEF Fila
<1>4. Of(sur, p, hora) \subseteq Split(sur)
  BY DEF Of
<1>5. Volume(Of(sur, p, hora)) \in Nat
  BY <1>4, VolumeOfSome
<1>6. p \in Connected
  <2>1. PICK a \in Of(sur, p, hora) : TRUE
    BY <1>2
  <2> QED
    BY <2>1, SplitFacts DEF Of
<1> QED
  BY <1>2, <1>3, <1>5, <1>6

(* A pair has one row for an hour, and one for the day.                     *)
LEMMA RowsOfPair ==
  ASSUME NEW sur \in Surveys, NEW p, NEW hora \in Hours \cup {Null}
  PROVE  {row \in Ranked(sur) : row.par = p /\ row.hora = hora}
           = IF Of(sur, p, hora) = {} THEN {} ELSE {Fila(Of(sur, p, hora), p, hora)}
<1> DEFINE mine == {row \in Ranked(sur) : row.par = p /\ row.hora = hora}
           one == Fila(Of(sur, p, hora), p, hora)
<1>1. \A row \in mine : row = one /\ Of(sur, p, hora) # {}
  BY RankedFacts
<1>2. ASSUME Of(sur, p, hora) # {} PROVE one \in mine
  <2>1. one.par = p /\ one.hora = hora
    BY DEF Fila
  <2>2. one \in Ranked(sur)
    <3> HIDE DEF one
    <3>1. one = Fila(Of(sur, p, hora), p, hora)
      BY DEF one
    <3> QED
      BY <1>2, <3>1, RowsAre
  <2> QED
    BY <2>1, <2>2
<1> HIDE DEF one, mine
<1>3. mine = IF Of(sur, p, hora) = {} THEN {} ELSE {one}
  BY <1>1, <1>2
<1> QED
  BY <1>3 DEF one, mine

LEMMA RankedIsTheSplit ==
  ASSUME NEW sur \in Surveys, NEW p \in Recorridos \X Recorridos, NEW hora \in Hours \cup {Null}
  PROVE  LET here == {row \in Ranked(sur) : row.par = p /\ row.hora = hora}
             carried == {f \in Flows : <<p, f>> \in Journeys}
         IN /\ MapThenSumSet(LAMBDA row : row.viajes, here)
                 = MapThenSumSet(LAMBDA f : Share(sur, p, f, HoursOf(hora)), carried)
            /\ here # {} => carried # {}
<1> DEFINE here == {row \in Ranked(sur) : row.par = p /\ row.hora = hora}
           carried == {f \in Flows : <<p, f>> \in Journeys}
           B == Of(sur, p, hora)
           one == Fila(B, p, hora)
<1>1. here = IF B = {} THEN {} ELSE {one}
  BY RowsOfPair
<1>2. MapThenSumSet(LAMBDA f : Share(sur, p, f, HoursOf(hora)), carried) = Volume(B)
  BY RowsAreShares
<1>3. MapThenSumSet(LAMBDA row : row.viajes, here) = Volume(here)
  BY DEF Volume
<1>4. B \subseteq Split(sur)
  BY DEF Of
<1>5. Volume(here) = Volume(B)
  <2>1. CASE B = {}
    <3>1. here = B
      BY <1>1, <2>1
    <3> HIDE DEF here, B
    <3> QED
      BY <3>1
  <2>2. CASE B # {}
    <3>1. here = {one} /\ one.viajes = Volume(B)
      BY <1>1, <2>2 DEF Fila
    <3>2. Volume(B) \in Nat
      BY <1>4, VolumeOfSome
    <3> HIDE DEF here, B, one
    <3>3. \A row \in here : row.viajes \in Nat
      BY <3>1, <3>2
    <3>4. IsFiniteSet(here)
      BY <3>1, FS_Singleton
    <3>5. Volume(here) = Total(Trips(here), here)
      BY <3>3, <3>4, VolumeIsTotal
    <3>6. Trips(here)[one] = Volume(B)
      BY <3>1 DEF Trips
    <3>7. Total(Trips(here), {one}) = Volume(B)
      BY <3>2, <3>6, TotalOfOne
    <3> QED
      BY <3>1, <3>5, <3>7
  <2> QED
    BY <2>1, <2>2
<1>6. here # {} => carried # {}
  <2> SUFFICES ASSUME here # {} PROVE carried # {}
    OBVIOUS
  <2>1. PICK a \in B : TRUE
    BY <1>1
  <2>2. a.par = p /\ <<a.par, <<a.origen, a.destino>>>> \in Journeys
    BY SplitFacts DEF Of
  <2>3. <<a.origen, a.destino>> \in Flows
    BY <2>2 DEF Journeys
  <2> QED
    BY <2>2, <2>3
<1> HIDE DEF here, carried, B
<1>7. MapThenSumSet(LAMBDA row : row.viajes, here)
        = MapThenSumSet(LAMBDA f : Share(sur, p, f, HoursOf(hora)), carried)
  BY <1>2, <1>3, <1>5
<1> QED
  BY <1>6, <1>7 DEF here, carried

(* RankingIsTheSplit, for any network, cells, hours and surveys.            *)
THEOREM RankingStaysTheSplit == CatalogueSpec => []RankingIsTheSplit
<1>1. TablesInv => RankingIsTheSplit
  <2>1. ASSUME TablesInv, Quiet
        PROVE  viajes \in Surveys /\ IF failed THEN ranking = {} ELSE ranking = Ranked(viajes)
    BY <2>1, TablesAtRest DEF Quiet
  <2>2. CASE failed
    BY <2>1, <2>2 DEF RankingIsTheSplit
  <2> SUFFICES ASSUME ~ failed, TablesInv, Quiet,
                      NEW p \in Recorridos \X Recorridos, NEW hora \in Hours \cup {Null}
               PROVE  LET here == {row \in ranking : row.par = p /\ row.hora = hora}
                          carried == {f \in Flows : <<p, f>> \in Journeys}
                      IN /\ MapThenSumSet(LAMBDA row : row.viajes, here)
                              = MapThenSumSet(LAMBDA f : Share(viajes, p, f, HoursOf(hora)), carried)
                         /\ here # {} => carried # {}
    BY <2>2 DEF RankingIsTheSplit
  <2>3. LET here == {row \in Ranked(viajes) : row.par = p /\ row.hora = hora}
            carried == {f \in Flows : <<p, f>> \in Journeys}
        IN /\ MapThenSumSet(LAMBDA row : row.viajes, here)
                = MapThenSumSet(LAMBDA f : Share(viajes, p, f, HoursOf(hora)), carried)
           /\ here # {} => carried # {}
    BY <2>1, RankedIsTheSplit
  <2> QED
    BY <2>1, <2>3
<1> QED
  BY <1>1, TablesAreDerived, PTL

-----------------------------------------------------------------------------
(* Orders of keys.                                                          *)
LEMMA TriplesAreOrdered ==
  ASSUME NEW k, NEW l, NEW m,
         k \in Int \X Int \X Int, l \in Int \X Int \X Int, m \in Int \X Int \X Int
  PROVE  /\ Before(k, l) <=> \/ k[1] < l[1]
                             \/ k[1] = l[1] /\ k[2] < l[2]
                             \/ k[1] = l[1] /\ k[2] = l[2] /\ k[3] < l[3]
         /\ ~ Before(k, k)
         /\ Before(k, l) /\ Before(l, m) => Before(k, m)
         /\ k # l => Before(k, l) \/ Before(l, k)
<1> DEFINE Less(a, b) == \/ a[1] < b[1]
                         \/ a[1] = b[1] /\ a[2] < b[2]
                         \/ a[1] = b[1] /\ a[2] = b[2] /\ a[3] < b[3]
<1>1. ASSUME NEW a \in Int \X Int \X Int, NEW b \in Int \X Int \X Int
      PROVE  Before(a, b) <=> Less(a, b)
  <2>1. DOMAIN a = {1, 2, 3}
    OBVIOUS
  <2>2. 1 .. (1 - 1) = {} /\ 1 .. (2 - 1) = {1} /\ 1 .. (3 - 1) = {1, 2}
    OBVIOUS
  <2>3. Before(a, b) <=> \E i \in {1, 2, 3} : a[i] < b[i] /\ \A j \in 1 .. (i - 1) : a[j] = b[j]
    BY <2>1 DEF Before
  <2> QED
    BY <2>2, <2>3
<1>2. k = <<k[1], k[2], k[3]>> /\ l = <<l[1], l[2], l[3]>>
      /\ {k[1], k[2], k[3], l[1], l[2], l[3], m[1], m[2], m[3]} \subseteq Int
  OBVIOUS
<1>3. ~ Less(k, k) /\ (Less(k, l) /\ Less(l, m) => Less(k, m))
  BY <1>2
<1>4. k # l => Less(k, l) \/ Less(l, k)
  BY <1>2
<1> QED
  BY <1>1, <1>3, <1>4

(* The zones of a row are those of the flow with the largest share.         *)
LEMMA DominanteIsLargest ==
  ASSUME NEW sur \in Surveys, NEW B, B \subseteq Split(sur), B # {}
  PROVE  LET On(f) == {a \in B : a.origen = f[1] /\ a.destino = f[2]} IN
         /\ \E a \in B : Dominante(B) = <<a.origen, a.destino>>
         /\ \A a \in B : Volume(On(<<a.origen, a.destino>>)) <= Volume(On(Dominante(B)))
<1> DEFINE On(f) == {a \in B : a.origen = f[1] /\ a.destino = f[2]}
           S == {<<a.origen, a.destino>> : a \in B}
           Key(f) == <<-Volume(On(f)), f[1], f[2]>>
           L == {e \in S \X S : Before(Key(e[1]), Key(e[2]))}
<1>1. Dominante(B) = CHOOSE f \in S : \A g \in S : ~ Before(Key(g), Key(f))
  BY DEF Dominante, First
<1>2. \A f : Volume(On(f)) \in Nat
  <2> TAKE f
  <2>1. On(f) \subseteq Split(sur)
    OBVIOUS
  <2> HIDE DEF On
  <2> QED
    BY <2>1, VolumeOfSome
<1>3. \A f \in S : f[1] \in Int /\ f[2] \in Int /\ f \in Flows
  <2> TAKE f \in S
  <2>1. PICK a \in B : f = <<a.origen, a.destino>>
    OBVIOUS
  <2>2. a \in Split(sur)
    OBVIOUS
  <2>3. a.origen \in Cells /\ a.destino \in Cells
    BY <2>2, SplitFacts
  <2>4. Cells \subseteq Nat
    BY TransfersAssumption
  <2>5. f[1] = a.origen /\ f[2] = a.destino
    BY <2>1
  <2>6. f \in Flows
    BY <2>1, <2>3 DEF Flows
  <2>7. a.origen \in Int /\ a.destino \in Int
    <3>1. \A c \in Cells : c \in Int
      BY ONLY <2>4
    <3> QED
      BY ONLY <2>3, <3>1
  <2> QED
    BY ONLY <2>5, <2>6, <2>7
<1>4. \A f \in S : Key(f) \in Int \X Int \X Int
  <2> HIDE DEF On, S
  <2> QED
    BY <1>2, <1>3
<1>5. IsFiniteSet(S) /\ S # {}
  <2>1. IsFiniteSet(Flows)
    BY TransfersAssumption, FS_Product DEF Flows
  <2>2. S \subseteq Flows
    BY <1>3
  <2>3. S # {}
    OBVIOUS
  <2> HIDE DEF S
  <2> QED
    BY <2>1, <2>2, <2>3, FS_Subset
<1> HIDE DEF Key, S
<1>6. \A f, g \in S : <<f, g>> \in L <=> Before(Key(f), Key(g))
  OBVIOUS
<1> HIDE DEF L
<1>7. \A f \in S : <<f, f>> \notin L
  BY <1>4, <1>6, TriplesAreOrdered
<1>8. \A f, g, h \in S : <<f, g>> \in L /\ <<g, h>> \in L => <<f, h>> \in L
  BY <1>4, <1>6, TriplesAreOrdered
<1>9. \E f \in S : \A g \in S : <<g, f>> \notin L
  BY <1>5, <1>7, <1>8, MinimalElement
<1>10. Dominante(B) \in S /\ \A g \in S : ~ Before(Key(g), Key(Dominante(B)))
  BY <1>1, <1>6, <1>9
<1>11. ASSUME NEW g \in S PROVE Volume(On(g)) <= Volume(On(Dominante(B)))
  <2> DEFINE z == Dominante(B)
  <2>1. ~ (Key(g)[1] < Key(z)[1])
    BY <1>4, <1>10, TriplesAreOrdered
  <2>2. Key(g)[1] = -Volume(On(g)) /\ Key(z)[1] = -Volume(On(z))
    BY DEF Key
  <2> HIDE DEF On, z
  <2>3. Volume(On(g)) \in Nat /\ Volume(On(z)) \in Nat
    BY <1>2
  <2>4. Volume(On(g)) <= Volume(On(z))
    BY <2>1, <2>2, <2>3
  <2> QED
    BY <2>4 DEF z
<1>12. (\E a \in B : Dominante(B) = <<a.origen, a.destino>>)
       /\ \A a \in B : Volume(On(<<a.origen, a.destino>>)) <= Volume(On(Dominante(B)))
  <2>1. \A a \in B : <<a.origen, a.destino>> \in S
    BY DEF S
  <2>2. \E a \in B : Dominante(B) = <<a.origen, a.destino>>
    BY <1>10 DEF S
  <2> HIDE DEF On
  <2> QED
    BY <1>11, <2>1, <2>2
<1> QED
  BY <1>12

(* ZonesAreOneFlow, for any network, cells, hours and surveys.              *)
THEOREM ZonesStayOneFlow == CatalogueSpec => []ZonesAreOneFlow
<1>1. TablesInv => ZonesAreOneFlow
  <2> SUFFICES ASSUME TablesInv, Quiet, NEW row \in ranking
               PROVE  /\ <<row.par, row.zonas>> \in Journeys
                      /\ \A f \in Flows :
                           Share(viajes, row.par, f, HoursOf(row.hora))
                             <= Share(viajes, row.par, row.zonas, HoursOf(row.hora))
    BY DEF ZonesAreOneFlow
  <2> DEFINE B == Of(viajes, row.par, row.hora)
             On(f) == {a \in B : a.origen = f[1] /\ a.destino = f[2]}
             ShareOf(f) == Share(viajes, row.par, f, HoursOf(row.hora))
  <2>1. viajes \in Surveys /\ row \in Ranked(viajes)
    BY TablesAtRest DEF Quiet
  <2>2. row.hora \in Hours \cup {Null} /\ B # {} /\ row.zonas = Dominante(B) /\ B \subseteq Split(viajes)
    BY <2>1, RankedFacts DEF Of
  <2>3. /\ \E a \in B : row.zonas = <<a.origen, a.destino>>
        /\ \A a \in B : Volume(On(<<a.origen, a.destino>>)) <= Volume(On(row.zonas))
    <3> HIDE DEF B
    <3> QED
      BY <2>1, <2>2, DominanteIsLargest
  <2>4. <<row.par, row.zonas>> \in Journeys /\ row.zonas \in Flows
    <3>1. PICK a \in B : row.zonas = <<a.origen, a.destino>>
      BY <2>3
    <3>2. a.par = row.par /\ <<a.par, <<a.origen, a.destino>>>> \in Journeys
      BY <2>1, SplitFacts DEF Of
    <3> QED
      BY <3>1, <3>2 DEF Journeys
  <2>5. \A f \in Flows : ShareOf(f) = Volume(On(f)) /\ ShareOf(f) \in Nat
    <3> TAKE f \in Flows
    <3> HIDE DEF B
    <3> QED
      BY <2>1, <2>2, SharesOfRows DEF B
  <2>6. ASSUME NEW f \in Flows PROVE ShareOf(f) <= ShareOf(row.zonas)
    <3>1. CASE On(f) = {}
      <4>1. On(f) \subseteq Split(viajes)
        BY DEF Of
      <4>2. Volume(On(f)) = 0
        <5> HIDE DEF On
        <5> QED
          BY <2>1, <3>1, <4>1, VolumeOfSome, TotalOfNothing
      <4> HIDE DEF ShareOf, On
      <4> QED
        BY <2>4, <2>5, <4>2
    <3>2. CASE On(f) # {}
      <4>1. PICK a \in B : a.origen = f[1] /\ a.destino = f[2]
        BY <3>2
      <4>2. f = <<a.origen, a.destino>>
        BY <4>1 DEF Flows
      <4> HIDE DEF ShareOf, On, B
      <4> QED
        BY <2>3, <2>4, <2>5, <4>2
    <3> QED
      BY <3>1, <3>2
  <2> QED
    BY <2>4, <2>6
<1> QED
  BY <1>1, TablesAreDerived, PTL

(* Consecutive windows of a list make a longer beginning of it.             *)
LEMMA WindowFacts ==
  ASSUME NEW S, NEW s \in Seq(S), NEW offset \in Nat, NEW limit \in Nat
  PROVE  LET page == Window(s, offset, limit)
             last == Smaller(offset + limit, Len(s))
         IN /\ page \in Seq(S)
            /\ last \in 0 .. Len(s)
            /\ DOMAIN page = 1 .. Len(page)
            /\ Len(page) = IF offset < last THEN last - offset ELSE 0
            /\ \A i \in 1 .. Len(page) : offset + i \in 1 .. Len(s) /\ page[i] = s[offset + i]
<1> DEFINE last == Smaller(offset + limit, Len(s))
           page == SubSeq(s, offset + 1, last)
<1>1. Len(s) \in Nat /\ \A i \in 1 .. Len(s) : s[i] \in S
  BY ElementsOf
<1>2. last \in 0 .. Len(s)
  BY <1>1 DEF Smaller
<1> HIDE DEF last
<1>3. /\ page \in Seq(S)
      /\ Len(page) = IF offset + 1 <= last THEN last - (offset + 1) + 1 ELSE 0
      /\ \A i \in 1 .. last - (offset + 1) + 1 : page[i] = s[offset + 1 + i - 1]
  <2>1. \A i \in offset + 1 .. last : s[i] \in S
    BY <1>1, <1>2
  <2>2. offset + 1 \in Int /\ last \in Int
    BY <1>1, <1>2
  <2> QED
    BY <2>1, <2>2, SubSeqProperties
<1>4. DOMAIN page = 1 .. Len(page)
  BY <1>3, ElementsOf
<1> HIDE DEF page
<1>5. Len(page) = IF offset < last THEN last - offset ELSE 0
  BY <1>1, <1>2, <1>3
<1>6. \A i \in 1 .. Len(page) : offset + i \in 1 .. Len(s) /\ page[i] = s[offset + i]
  <2> TAKE i \in 1 .. Len(page)
  <2>1. offset < last /\ i \in 1 .. last - offset
    BY <1>1, <1>2, <1>5
  <2>2. i \in 1 .. last - (offset + 1) + 1 /\ offset + 1 + i - 1 = offset + i
    BY <1>1, <1>2, <2>1
  <2> QED
    BY <1>1, <1>2, <1>3, <2>1, <2>2
<1>7. Window(s, offset, limit) = page
  BY DEF Window, page, last
<1> QED
  BY <1>2, <1>3, <1>4, <1>5, <1>6, <1>7 DEF last

LEMMA WindowsMeet ==
  ASSUME NEW S, NEW s \in Seq(S), NEW offset \in Nat, NEW limit \in Nat \ {0}
  PROVE  /\ Window(s, 0, offset) \o Window(s, offset, limit) = Window(s, 0, offset + limit)
         /\ Window(s, offset, limit) = <<>> <=> offset >= Len(s)
         /\ offset >= Len(s) => Window(s, 0, offset) = s
<1> DEFINE front == Window(s, 0, offset)
           page == Window(s, offset, limit)
           more == Window(s, 0, offset + limit)
<1>1. Len(s) \in Nat /\ DOMAIN s = 1 .. Len(s)
  BY ElementsOf
<1>2. /\ front \in Seq(S) /\ DOMAIN front = 1 .. Len(front)
      /\ Len(front) = IF 0 < Smaller(0 + offset, Len(s)) THEN Smaller(0 + offset, Len(s)) - 0 ELSE 0
      /\ \A i \in 1 .. Len(front) : 0 + i \in 1 .. Len(s) /\ front[i] = s[0 + i]
  BY WindowFacts
<1>3. /\ page \in Seq(S) /\ DOMAIN page = 1 .. Len(page)
      /\ Len(page) = IF offset < Smaller(offset + limit, Len(s)) THEN Smaller(offset + limit, Len(s)) - offset ELSE 0
      /\ \A i \in 1 .. Len(page) : offset + i \in 1 .. Len(s) /\ page[i] = s[offset + i]
  BY WindowFacts
<1>4. /\ more \in Seq(S) /\ DOMAIN more = 1 .. Len(more)
      /\ Len(more) = IF 0 < Smaller(0 + (offset + limit), Len(s)) THEN Smaller(0 + (offset + limit), Len(s)) - 0 ELSE 0
      /\ \A i \in 1 .. Len(more) : 0 + i \in 1 .. Len(s) /\ more[i] = s[0 + i]
  <2>1. offset + limit \in Nat
    OBVIOUS
  <2> QED
    BY <2>1, WindowFacts
<1> HIDE DEF front, page, more
<1> DEFINE n == Len(s)
           f == Len(front)
           p == Len(page)
           m == Len(more)
<1>5. /\ {n, offset, limit, f, p, m} \subseteq Nat /\ limit > 0
      /\ f = IF offset < n THEN offset ELSE n
      /\ p = IF offset >= n THEN 0 ELSE IF offset + limit < n THEN limit ELSE n - offset
      /\ m = IF offset + limit < n THEN offset + limit ELSE n
  <2>1. {n, f, p, m} \subseteq Nat
    BY <1>1, <1>2, <1>3, <1>4, ElementsOf
  <2>2. limit \in Nat /\ limit > 0 /\ offset \in Nat
    OBVIOUS
  <2>3. f = IF 0 < Smaller(0 + offset, n) THEN Smaller(0 + offset, n) - 0 ELSE 0
    BY <1>2
  <2>4. p = IF offset < Smaller(offset + limit, n) THEN Smaller(offset + limit, n) - offset ELSE 0
    BY <1>3
  <2>5. m = IF 0 < Smaller(0 + (offset + limit), n) THEN Smaller(0 + (offset + limit), n) - 0 ELSE 0
    BY <1>4
  <2> HIDE DEF n, f, p, m
  <2> QED
    BY ONLY <2>1, <2>2, <2>3, <2>4, <2>5 DEF Smaller
<1>6. /\ front \o page \in Seq(S) /\ Len(front \o page) = f + p
      /\ \A i \in 1 .. f + p : (front \o page)[i] = IF i <= f THEN front[i] ELSE page[i - f]
  BY <1>2, <1>3, ConcatProperties, ZenonT(40)
<1> HIDE DEF n, f, p, m
<1>7. f + p = m
  BY <1>5
<1>8. \A i \in 1 .. m : (front \o page)[i] = more[i]
  <2> TAKE i \in 1 .. m
  <2>1. more[i] = s[i]
    <3>1. 0 + i = i
      BY <1>5
    <3> QED
      BY <1>4, <3>1 DEF m
  <2>2. CASE i <= f
    <3>1. i \in 1 .. f /\ 0 + i = i
      BY <1>5, <2>2
    <3>2. front[i] = s[i]
      BY <1>2, <3>1 DEF f
    <3> QED
      BY <1>6, <1>7, <2>1, <2>2, <3>2
  <2>3. CASE ~ (i <= f)
    <3>1. i - f \in 1 .. p /\ offset + (i - f) = i
      BY <1>5, <1>7, <2>3
    <3>2. page[i - f] = s[i]
      BY <1>3, <3>1 DEF p
    <3> QED
      BY <1>6, <1>7, <2>1, <2>3, <3>2
  <2> QED
    BY <2>2, <2>3
<1>9. front \o page = more
  <2>1. Len(front \o page) = m /\ Len(more) = m
    BY <1>6, <1>7 DEF m
  <2> QED
    BY <1>4, <1>6, <1>8, <2>1, SeqEqual
<1>10. page = <<>> <=> offset >= n
  <2>1. page = <<>> <=> p = 0
    BY <1>3, EmptySeq DEF p
  <2> QED
    BY <1>5, <2>1
<1>11. offset >= n => front = s
  <2> SUFFICES ASSUME offset >= n PROVE front = s
    OBVIOUS
  <2>1. f = n
    BY <1>5
  <2>2. \A i \in 1 .. n : front[i] = s[i]
    <3>1. \A i \in 1 .. n : 0 + i = i
      BY <1>5
    <3> QED
      BY <1>2, <2>1, <3>1 DEF f
  <2>3. Len(front) = n /\ Len(s) = n
    BY <2>1 DEF f, n
  <2> QED
    BY <1>2, <2>2, <2>3, SeqEqual
<1> QED
  BY <1>9, <1>10, <1>11 DEF front, page, more, n

-----------------------------------------------------------------------------
(* The listings have one order each.                                        *)
ListLess(S) == {e \in S \X S : Before(ListKey(e[1]), ListKey(e[2]))}
RankLess(S) == {e \in S \X S : Before(RankKey(e[1]), RankKey(e[2]))}

LEMMA PairsAreOrdered ==
  ASSUME NEW k, NEW l, k \in Int \X Int, l \in Int \X Int
  PROVE  k # l => Before(k, l) \/ Before(l, k)
<1> DEFINE Less(a, b) == a[1] < b[1] \/ (a[1] = b[1] /\ a[2] < b[2])
<1>1. ASSUME NEW a \in Int \X Int, NEW b \in Int \X Int
      PROVE  Before(a, b) <=> Less(a, b)
  <2>1. DOMAIN a = {1, 2}
    OBVIOUS
  <2>2. 1 .. (1 - 1) = {} /\ 1 .. (2 - 1) = {1}
    OBVIOUS
  <2>3. Before(a, b) <=> \E i \in {1, 2} : a[i] < b[i] /\ \A j \in 1 .. (i - 1) : a[j] = b[j]
    BY <2>1 DEF Before
  <2> QED
    BY <2>2, <2>3
<1>2. k = <<k[1], k[2]>> /\ l = <<l[1], l[2]>> /\ {k[1], k[2], l[1], l[2]} \subseteq Int
  OBVIOUS
<1>3. k # l => Less(k, l) \/ Less(l, k)
  BY <1>2
<1> QED
  BY <1>1, <1>3

LEMMA ListOrder ==
  ASSUME NEW S \in Searches
  PROVE  /\ IsFiniteSet(S)
         /\ \A s \in Orders(S, ListKey) : s \in SetToSeqs(S)
         /\ \A s, t \in Orders(S, ListKey) : s = t
<1> DEFINE L == ListLess(S)
<1>1. S \subseteq Recorridos
  BY CatalogueAssumption
<1>2. IsFiniteSet(S)
  BY <1>1, TransfersAssumption, FS_Subset
<1>3. \A x, y \in S : <<x, y>> \in L <=> Before(ListKey(x), ListKey(y))
  BY DEF ListLess
<1> HIDE DEF L
<1>4. \A x, y \in S : x # y => <<x, y>> \in L \/ <<y, x>> \in L
  <2> SUFFICES ASSUME NEW x \in S, NEW y \in S, x # y PROVE <<x, y>> \in L \/ <<y, x>> \in L
    OBVIOUS
  <2>1. {x, y, NameOf[x], NameOf[y]} \subseteq Nat
    BY <1>1, CatalogueAssumption, TransfersAssumption
  <2>2. ListKey(x) \in Int \X Int /\ ListKey(y) \in Int \X Int /\ ListKey(x) # ListKey(y)
    BY <2>1 DEF ListKey
  <2>3. Before(ListKey(x), ListKey(y)) \/ Before(ListKey(y), ListKey(x))
    <3> HIDE DEF ListKey
    <3> QED
      BY <2>2, PairsAreOrdered
  <2> QED
    BY <1>3, <2>3
<1>5. ASSUME NEW s \in Orders(S, ListKey) PROVE s \in SetToSeqs(S) /\ Sorted(s, S, L)
  <2>1. s \in SetToSeqs(S) /\ \A i, j \in DOMAIN s : i < j => ~ Before(ListKey(s[j]), ListKey(s[i]))
    BY DEF Orders
  <2>2. \A i \in DOMAIN s : s[i] \in S
    BY <1>2, <2>1, SortedIsAll
  <2> QED
    BY <1>3, <2>1, <2>2 DEF Sorted
<1>6. \A s, t \in Orders(S, ListKey) : s = t
  BY <1>2, <1>4, <1>5, SortedOnce
<1> QED
  BY <1>2, <1>5, <1>6

LEMMA RankOrder ==
  ASSUME NEW sur \in Surveys, NEW hora \in Hours \cup {Null},
         NEW S, S \subseteq {row \in Ranked(sur) : row.hora = hora}
  PROVE  /\ IsFiniteSet(S)
         /\ \A s \in Orders(S, RankKey) :
              /\ s \in SetToSeqs(S)
              /\ \A i, j \in DOMAIN s : i < j => s[j].viajes <= s[i].viajes
         /\ \A s, t \in Orders(S, RankKey) : s = t
<1> DEFINE L == RankLess(S)
<1>1. /\ Connected \subseteq Recorridos \X Recorridos /\ IsFiniteSet(Connected)
      /\ \A p \in Connected : p = <<p[1], p[2]>> /\ p[1] \in Nat /\ p[2] \in Nat
  <2>1. IsFiniteSet(Recorridos \X Recorridos)
    BY TransfersAssumption, FS_Product
  <2>2. Connected \subseteq Recorridos \X Recorridos
    BY DEF Connected
  <2>3. Recorridos \subseteq Nat
    BY TransfersAssumption
  <2>4. \A p \in Connected : p = <<p[1], p[2]>> /\ p[1] \in Nat /\ p[2] \in Nat
    <3> TAKE p \in Connected
    <3>1. p \in Recorridos \X Recorridos
      BY ONLY <2>2
    <3>2. p = <<p[1], p[2]>> /\ p[1] \in Recorridos /\ p[2] \in Recorridos
      BY ONLY <3>1
    <3>3. \A r \in Recorridos : r \in Nat
      BY ONLY <2>3
    <3> QED
      BY ONLY <3>2, <3>3
  <2>5. IsFiniteSet(Connected)
    BY <2>1, <2>2, FS_Subset
  <2> QED
    BY <2>2, <2>4, <2>5
<1>2. \A row \in S : row.par \in Connected /\ row.viajes \in Nat /\ row = Fila(Of(sur, row.par, hora), row.par, hora)
  BY RankedFacts
<1>3. IsFiniteSet(S)
  <2> DEFINE f == [row \in S |-> row.par]
  <2>1. f \in Injection(S, Connected)
    BY <1>2 DEF Injection, IsInjective
  <2> HIDE DEF f
  <2> QED
    BY <1>1, <2>1, FS_Injection
<1>4. \A x, y \in S : <<x, y>> \in L <=> Before(RankKey(x), RankKey(y))
  BY DEF RankLess
<1> HIDE DEF L
<1>5. \A x \in S : RankKey(x) \in Int \X Int \X Int
  BY <1>1, <1>2 DEF RankKey
<1>6. \A x, y \in S : x # y => <<x, y>> \in L \/ <<y, x>> \in L
  <2> SUFFICES ASSUME NEW x \in S, NEW y \in S, x # y PROVE <<x, y>> \in L \/ <<y, x>> \in L
    OBVIOUS
  <2>1. x.par # y.par
    BY <1>2
  <2>2. RankKey(x) # RankKey(y)
    <3>1. x.par = <<x.par[1], x.par[2]>> /\ y.par = <<y.par[1], y.par[2]>>
      BY <1>1, <1>2
    <3> QED
      BY <2>1, <3>1 DEF RankKey
  <2>3. Before(RankKey(x), RankKey(y)) \/ Before(RankKey(y), RankKey(x))
    <3> HIDE DEF RankKey
    <3> QED
      BY <1>5, <2>2, TriplesAreOrdered
  <2> QED
    BY <1>4, <2>3
<1>7. ASSUME NEW s \in Orders(S, RankKey)
      PROVE  /\ s \in SetToSeqs(S) /\ Sorted(s, S, L)
             /\ \A i, j \in DOMAIN s : i < j => s[j].viajes <= s[i].viajes
  <2>1. s \in SetToSeqs(S) /\ \A i, j \in DOMAIN s : i < j => ~ Before(RankKey(s[j]), RankKey(s[i]))
    BY DEF Orders
  <2>2. \A i \in DOMAIN s : s[i] \in S
    BY <1>3, <2>1, SortedIsAll
  <2>3. Sorted(s, S, L)
    BY <1>4, <2>1, <2>2 DEF Sorted
  <2>4. ASSUME NEW i \in DOMAIN s, NEW j \in DOMAIN s, i < j PROVE s[j].viajes <= s[i].viajes
    <3>1. s[i] \in S /\ s[j] \in S /\ ~ Before(RankKey(s[j]), RankKey(s[i]))
      BY <2>1, <2>2, <2>4
    <3>2. ~ (RankKey(s[j])[1] < RankKey(s[i])[1])
      <4> HIDE DEF RankKey
      <4> QED
        BY <1>5, <3>1, TriplesAreOrdered
    <3>3. ~ (-(s[j].viajes) < -(s[i].viajes))
      BY <3>2 DEF RankKey
    <3>4. s[i].viajes \in Nat /\ s[j].viajes \in Nat
      BY <1>2, <3>1
    <3> QED
      BY <3>3, <3>4
  <2> QED
    BY <2>1, <2>3, <2>4
<1>8. \A s, t \in Orders(S, RankKey) : s = t
  BY <1>3, <1>6, <1>7, SortedOnce
<1> QED
  BY <1>3, <1>7, <1>8

-----------------------------------------------------------------------------
(* What one page of a list says.                                            *)
Marks(s) == [i \in DOMAIN s |-> Marked(s[i])]

LEMMA MarksFacts ==
  ASSUME NEW S, NEW s \in Seq(S), NEW offset \in Nat, NEW limit \in Nat
  PROVE  /\ Marks(s) \in Seq({Marked(row) : row \in S})
         /\ Len(Marks(s)) = Len(s)
         /\ \A i \in 1 .. Len(s) : Marks(s)[i] = Marked(s[i])
         /\ Marks(Window(s, offset, limit)) = Window(Marks(s), offset, limit)
<1> DEFINE M == {Marked(row) : row \in S}
<1>1. ASSUME NEW t \in Seq(S)
      PROVE  Marks(t) \in Seq(M) /\ Len(Marks(t)) = Len(t) /\ \A i \in 1 .. Len(t) : Marks(t)[i] = Marked(t[i])
  <2>1. Len(t) \in Nat /\ DOMAIN t = 1 .. Len(t) /\ \A i \in 1 .. Len(t) : t[i] \in S
    BY ElementsOf
  <2>2. Marks(t) = [i \in 1 .. Len(t) |-> Marked(t[i])]
    BY <2>1 DEF Marks
  <2>3. \A i \in 1 .. Len(t) : Marked(t[i]) \in M
    BY <2>1
  <2> HIDE DEF M
  <2>4. Marks(t) \in [1 .. Len(t) -> M]
    BY <2>2, <2>3
  <2> QED
    BY <2>1, <2>2, <2>4
<1> HIDE DEF M
<1> DEFINE page == Window(s, offset, limit)
           marked == Window(Marks(s), offset, limit)
<1>2. /\ page \in Seq(S) /\ Len(page) \in Nat
      /\ Len(page) = IF offset < Smaller(offset + limit, Len(s)) THEN Smaller(offset + limit, Len(s)) - offset ELSE 0
      /\ \A i \in 1 .. Len(page) : offset + i \in 1 .. Len(s) /\ page[i] = s[offset + i]
  BY WindowFacts, ElementsOf
<1>3. Marks(s) \in Seq(M) /\ Len(Marks(s)) = Len(s) /\ \A i \in 1 .. Len(s) : Marks(s)[i] = Marked(s[i])
  BY <1>1
<1>4. /\ marked \in Seq(M)
      /\ Len(marked) = IF offset < Smaller(offset + limit, Len(Marks(s)))
                         THEN Smaller(offset + limit, Len(Marks(s))) - offset ELSE 0
      /\ \A i \in 1 .. Len(marked) : offset + i \in 1 .. Len(Marks(s)) /\ marked[i] = Marks(s)[offset + i]
  BY <1>3, WindowFacts
<1> HIDE DEF page, marked
<1>5. Marks(page) \in Seq(M) /\ Len(Marks(page)) = Len(page) /\ \A i \in 1 .. Len(page) : Marks(page)[i] = Marked(page[i])
  BY <1>1, <1>2
<1>6. Len(marked) = Len(page)
  BY <1>2, <1>3, <1>4
<1>7. \A i \in 1 .. Len(page) : Marks(page)[i] = marked[i]
  BY <1>2, <1>3, <1>4, <1>5, <1>6
<1>8. Marks(page) = marked
  BY <1>4, <1>5, <1>6, <1>7, SeqEqual
<1> QED
  BY <1>3, <1>8 DEF page, marked, M

LEMMA LinesPage ==
  ASSUME NEW S \in Searches, NEW offset \in Nat, NEW limit \in Nat \ {0},
         NEW page \in LinesPages(S, offset, limit)
  PROVE  \E s \in Orders(S, ListKey) :
           /\ page.rows = Window(s, offset, limit)
           /\ page.total = IF offset >= Len(s) THEN 0 ELSE Len(s)
           /\ page.maximum = 0
<1>1. PICK s \in Orders(S, ListKey) :
        page = [rows |-> Window(s, offset, limit),
                total |-> IF Window(s, offset, limit) = <<>> THEN 0 ELSE Cardinality(S), maximum |-> 0]
  BY DEF LinesPages
<1>2. s \in Seq(S) /\ Len(s) = Cardinality(S)
  BY ListOrder, SortedIsAll
<1>3. Window(s, offset, limit) = <<>> <=> offset >= Len(s)
  BY <1>2, WindowsMeet
<1> QED
  BY <1>1, <1>2, <1>3

LEMMA TransfersPage ==
  ASSUME TablesInv, script = "rest",
         NEW hora \in Hours \cup {Null}, NEW offset \in Nat, NEW limit \in Nat \ {0},
         NEW page \in TransferPages(hora, offset, limit)
  PROVE  \E s \in Orders(OfHour(hora), RankKey) :
           /\ page.rows = Window(Marks(s), offset, limit)
           /\ page.total = IF offset >= Len(s) THEN 0 ELSE Len(s)
           /\ page.maximum = IF offset >= Len(s) THEN 0 ELSE s[1].viajes
<1> DEFINE S == OfHour(hora)
           rows(s) == Joined(Window(s, offset, limit))
<1>1. PICK s \in Orders(S, RankKey) :
        page = [rows |-> Marks(rows(s)),
                total |-> IF rows(s) = <<>> THEN 0 ELSE Cardinality(S),
                maximum |-> IF rows(s) = <<>> THEN 0 ELSE Max({row.viajes : row \in S})]
  BY DEF TransferPages, Marks
<1>2. viajes \in Surveys /\ ranking \subseteq Ranked(viajes) /\ (ranking # {} => conexiones = Conexiones)
  BY TablesAtRest
<1>3. /\ S \subseteq {row \in Ranked(viajes) : row.hora = hora} /\ IsFiniteSet(S)
      /\ s \in SetToSeqs(S)
      /\ \A i, j \in DOMAIN s : i < j => s[j].viajes <= s[i].viajes
  <2>1. S \subseteq {row \in Ranked(viajes) : row.hora = hora}
    BY <1>2 DEF OfHour
  <2> HIDE DEF S
  <2> QED
    BY <1>2, <2>1, RankOrder
<1>4. \A row \in S : row.par \in Connected /\ row.viajes \in Nat /\ conexiones = Conexiones
  <2>1. S \subseteq ranking
    BY DEF OfHour
  <2> QED
    BY <1>2, <1>3, <2>1, RankedFacts
<1> HIDE DEF S
<1>5. s \in Seq(S) /\ Len(s) = Cardinality(S) /\ Len(s) \in Nat /\ DOMAIN s = 1 .. Len(s)
      /\ (\A i \in 1 .. Len(s) : s[i] \in S) /\ \A x \in S : \E i \in 1 .. Len(s) : s[i] = x
  <2> DEFINE n == Cardinality(S)
  <2>1. /\ n \in Nat /\ s \in Seq(S) /\ Len(s) = n /\ DOMAIN s = 1 .. n
        /\ (\A i \in 1 .. n : s[i] \in S) /\ \A x \in S : \E i \in 1 .. n : s[i] = x
    <3>1. IsFiniteSet(S) /\ s \in SetToSeqs(S)
      BY <1>3
    <3> QED
      BY ONLY <3>1, SortedIsAll
  <2> HIDE DEF n
  <2>2. /\ s \in Seq(S) /\ Len(s) = n /\ Len(s) \in Nat /\ DOMAIN s = 1 .. Len(s)
        /\ (\A i \in 1 .. Len(s) : s[i] \in S) /\ \A x \in S : \E i \in 1 .. Len(s) : s[i] = x
    BY <2>1
  <2> QED
    BY <2>2 DEF n
<1> DEFINE win == Window(s, offset, limit)
<1>6. win \in Seq(S) /\ (win = <<>> <=> offset >= Len(s))
  BY <1>5, WindowFacts, WindowsMeet
<1>7. rows(s) = win
  <2> HIDE DEF win
  <2>1. \A n \in DOMAIN win : win[n].par \in DOMAIN conexiones
    <3>1. DOMAIN Conexiones = Connected
      BY DEF Conexiones
    <3> QED
      BY <1>4, <1>6, <3>1, ElementsOf
  <2>2. {n \in DOMAIN win : win[n].par \in DOMAIN conexiones} = DOMAIN win
    BY <2>1
  <2>3. ElementsIn(win, DOMAIN win) = win
    BY <1>6, ElementsAll
  <2>4. Joined(win) = ElementsIn(win, {n \in DOMAIN win : win[n].par \in DOMAIN conexiones})
    BY DEF Joined, Filtered, ElementsIn
  <2>5. Joined(win) = win
    BY <2>2, <2>3, <2>4
  <2> QED
    BY <2>5 DEF win
<1>8. Marks(win) = Window(Marks(s), offset, limit)
  BY <1>5, MarksFacts, ZenonT(40)
<1>9. ASSUME ~ (offset >= Len(s)) PROVE Max({row.viajes : row \in S}) = s[1].viajes
  <2> DEFINE V == {row.viajes : row \in S}
  <2>1. 1 \in 1 .. Len(s)
    BY <1>5, <1>9
  <2>2. s[1].viajes \in V /\ V \subseteq Nat
    BY <1>4, <1>5, <2>1
  <2>3. \A v \in V : v <= s[1].viajes
    <3> TAKE v \in V
    <3>1. PICK x \in S : v = x.viajes
      OBVIOUS
    <3>2. PICK i \in 1 .. Len(s) : s[i] = x
      BY <1>5
    <3>3. CASE i = 1
      BY <2>2, <3>1, <3>2, <3>3
    <3>4. CASE i # 1
      <4>1. 1 < i
        BY <1>5, <3>4
      <4> QED
        BY <1>3, <1>5, <2>1, <3>1, <3>2, <4>1
    <3> QED
      BY <3>3, <3>4
  <2> HIDE DEF V
  <2>4. Max(V) \in V /\ \A y \in V : Max(V) >= y
    BY <2>2, <2>3 DEF Max
  <2>5. Max(V) <= s[1].viajes /\ Max(V) >= s[1].viajes /\ Max(V) \in Nat /\ s[1].viajes \in Nat
    BY <2>2, <2>3, <2>4
  <2>6. Max(V) = s[1].viajes
    BY <2>5
  <2> QED
    BY <2>6 DEF V
<1>10. /\ page.rows = Window(Marks(s), offset, limit)
       /\ page.total = IF offset >= Len(s) THEN 0 ELSE Len(s)
       /\ page.maximum = IF offset >= Len(s) THEN 0 ELSE s[1].viajes
  <2> DEFINE m == Max({row.viajes : row \in S})
  <2>1. page = [rows |-> Marks(win), total |-> IF win = <<>> THEN 0 ELSE Cardinality(S),
                maximum |-> IF win = <<>> THEN 0 ELSE m]
    BY <1>1, <1>7
  <2>2. ~ (offset >= Len(s)) => m = s[1].viajes
    BY <1>9
  <2> HIDE DEF m, win, rows
  <2> QED
    BY <1>5, <1>6, <1>8, <2>1, <2>2
<1> QED
  BY <1>10 DEF S

-----------------------------------------------------------------------------
(* Whoever walks a listing undisturbed has seen the beginning of its one    *)
(* order.                                                                   *)
Beginning(w, s, maximum) ==
  /\ w.seen = Window(s, 0, w.offset)
  /\ w.total = Len(s)
  /\ w.maximum = maximum

Largest(s) == IF Len(s) = 0 THEN 0 ELSE s[1].viajes

IsWalk(w) ==
  /\ w = [on |-> w.on, of |-> w.of, limit |-> w.limit, offset |-> w.offset,
          seen |-> w.seen, total |-> w.total, maximum |-> w.maximum]
  /\ w.limit \in Nat \ {0} /\ w.offset \in Nat

Progress(w, table) ==
  /\ IsWalk(w)
  /\ \/ /\ w.on = "lines" /\ w.of \in Searches
        /\ \E s \in Orders(w.of, ListKey) : Beginning(w, s, 0)
     \/ /\ w.on = "transfers" /\ w.of \in Hours \cup {Null}
        /\ \E s \in Orders({row \in table : row.hora = w.of}, RankKey) : Beginning(w, Marks(s), Largest(s))

WalkInv ==
  steady /\ walk # NoWalk => script = "rest" /\ Progress(walk, ranking)

NotBegun(w) == w.seen = <<>> /\ w.offset = 0 /\ w.maximum = 0

(* The page of s that w asks for, and the walk that has seen it.            *)
IsPage(page, s, w, m) ==
  /\ page.rows = Window(s, w.offset, w.limit)
  /\ page.total = IF w.offset >= Len(s) THEN 0 ELSE Len(s)
  /\ page.maximum = IF w.offset >= Len(s) THEN 0 ELSE m

Turned(w, page) ==
  [w EXCEPT !.offset = @ + w.limit, !.seen = @ \o page.rows,
            !.total = page.total, !.maximum = Greater(@, page.maximum)]

LEMMA EmptyWindow ==
  ASSUME NEW S, NEW s \in Seq(S)
  PROVE  Window(s, 0, 0) = <<>>
<1>1. /\ Window(s, 0, 0) \in Seq(S) /\ Smaller(0 + 0, Len(s)) \in 0 .. Len(s)
      /\ Len(Window(s, 0, 0)) = IF 0 < Smaller(0 + 0, Len(s)) THEN Smaller(0 + 0, Len(s)) - 0 ELSE 0
  BY WindowFacts
<1>2. Len(s) \in Nat
  BY ElementsOf
<1>3. Len(Window(s, 0, 0)) = 0
  BY <1>1, <1>2 DEF Smaller
<1> QED
  BY <1>1, <1>3, EmptySeq

(* A page more, of a walk that has seen the beginning and has more to see,  *)
(* or has not begun.                                                        *)
LEMMA BeginningGrows ==
  ASSUME NEW S, NEW s \in Seq(S), NEW m \in Nat, Len(s) = 0 => m = 0,
         NEW w, IsWalk(w), NotBegun(w) \/ (Beginning(w, s, m) /\ w.offset < w.total),
         NEW page, IsPage(page, s, w, m)
  PROVE  LET v == Turned(w, page) IN
         IsWalk(v) /\ v.on = w.on /\ v.of = w.of /\ Beginning(v, s, m)
<1> DEFINE v == Turned(w, page)
           o == w.offset
           l == w.limit
<1>1. v = [on |-> w.on, of |-> w.of, limit |-> w.limit, offset |-> w.offset + w.limit,
           seen |-> w.seen \o page.rows, total |-> page.total, maximum |-> Greater(w.maximum, page.maximum)]
  <2>1. PICK a, b, c, d, e, f, g :
          w = [on |-> a, of |-> b, limit |-> c, offset |-> d, seen |-> e, total |-> f, maximum |-> g]
    BY DEF IsWalk
  <2> DEFINE x == w.offset + w.limit
             y == w.seen \o page.rows
             z == page.total
             u == Greater(w.maximum, page.maximum)
             W(o1, s1, t1, m1) ==
               [on |-> w.on, of |-> w.of, limit |-> w.limit, offset |-> o1, seen |-> s1, total |-> t1, maximum |-> m1]
  <2>2. v = [[[[w EXCEPT !.offset = x] EXCEPT !.seen = y] EXCEPT !.total = z] EXCEPT !.maximum = u]
    BY DEF Turned
  <2> HIDE DEF v, x, y, z, u
  <2>3. w = W(d, e, f, g)
    BY <2>1
  <2>4. [w EXCEPT !.offset = x] = W(x, e, f, g)
    BY <2>3
  <2>5. [W(x, e, f, g) EXCEPT !.seen = y] = W(x, y, f, g)
    OBVIOUS
  <2>6. [W(x, y, f, g) EXCEPT !.total = z] = W(x, y, z, g)
    OBVIOUS
  <2>7. [W(x, y, z, g) EXCEPT !.maximum = u] = W(x, y, z, u)
    OBVIOUS
  <2>8. v = W(x, y, z, u)
    BY <2>2, <2>4, <2>5, <2>6, <2>7
  <2> QED
    BY <2>8 DEF v, x, y, z, u
<1>2. Len(s) \in Nat
  BY ElementsOf
<1>3. w.seen = Window(s, 0, o)
  BY EmptyWindow DEF Beginning, NotBegun
<1>4. w.seen \o page.rows = Window(s, 0, o + l)
  <2>1. o \in Nat /\ l \in Nat \ {0} /\ page.rows = Window(s, o, l)
    BY DEF IsPage, IsWalk
  <2> HIDE DEF o, l
  <2>2. Window(s, 0, o) \o Window(s, o, l) = Window(s, 0, o + l)
    <3>1. o \in Nat
      BY <2>1
    <3>2. l \in Nat \ {0}
      BY <2>1
    <3> QED
      BY ONLY <3>1, <3>2, s \in Seq(S), WindowsMeet
  <2> QED
    BY <1>3, <2>1, <2>2
<1>5. page.total = Len(s)
  <2>1. page.total = IF w.offset >= Len(s) THEN 0 ELSE Len(s)
    BY DEF IsPage
  <2>2. CASE NotBegun(w)
    BY <1>2, <2>1, <2>2 DEF NotBegun
  <2>3. CASE Beginning(w, s, m) /\ w.offset < w.total
    <3>1. w.offset < Len(s) /\ w.offset \in Nat
      BY <2>3 DEF Beginning, IsWalk
    <3> QED
      BY <1>2, <2>1, <3>1
  <2> QED
    BY <2>2, <2>3
<1>6. Greater(w.maximum, page.maximum) = m
  <2>1. CASE NotBegun(w)
    <3>1. page.maximum = m /\ w.maximum = 0
      BY <1>2, <2>1 DEF NotBegun, IsPage
    <3> QED
      BY <3>1 DEF Greater
  <2>2. CASE Beginning(w, s, m) /\ w.offset < w.total
    <3>1. page.maximum = m /\ w.maximum = m
      BY <1>2, <2>2 DEF Beginning, IsPage, IsWalk
    <3> QED
      BY <3>1 DEF Greater
  <2> QED
    BY <2>1, <2>2
<1>7. w.offset + w.limit \in Nat /\ w.limit \in Nat \ {0}
  BY DEF IsWalk
<1> HIDE DEF v
<1>8. IsWalk(v)
  BY <1>1, <1>7 DEF IsWalk
<1>9. v.on = w.on /\ v.of = w.of /\ Beginning(v, s, m)
  BY <1>1, <1>4, <1>5, <1>6 DEF Beginning
<1> QED
  BY <1>8, <1>9 DEF v

LEMMA LinesProgress ==
  ASSUME NEW table, NEW w, IsWalk(w), w.on = "lines", w.of \in Searches,
         NotBegun(w) \/ (Progress(w, table) /\ w.offset < w.total),
         NEW page \in LinesPages(w.of, w.offset, w.limit)
  PROVE  Progress(Turned(w, page), table)
<1> DEFINE v == Turned(w, page)
<1>1. PICK s \in Orders(w.of, ListKey) :
        /\ page.rows = Window(s, w.offset, w.limit)
        /\ page.total = IF w.offset >= Len(s) THEN 0 ELSE Len(s)
        /\ page.maximum = 0
  <2>1. w.offset \in Nat /\ w.limit \in Nat \ {0}
    BY DEF IsWalk
  <2> QED
    BY <2>1, LinesPage
<1>2. s \in Seq(w.of)
  BY ListOrder, SortedIsAll
<1>3. NotBegun(w) \/ (Beginning(w, s, 0) /\ w.offset < w.total)
  <2>1. Progress(w, table) => \E t \in Orders(w.of, ListKey) : Beginning(w, t, 0)
    BY DEF Progress
  <2>2. \A t \in Orders(w.of, ListKey) : t = s
    BY ListOrder
  <2> QED
    BY <2>1, <2>2
<1>4. IsPage(page, s, w, 0)
  BY <1>1 DEF IsPage
<1>5. IsWalk(v) /\ v.on = w.on /\ v.of = w.of /\ Beginning(v, s, 0)
  BY <1>2, <1>3, <1>4, BeginningGrows
<1> HIDE DEF v
<1>6. Progress(v, table)
  BY <1>5 DEF Progress
<1> QED
  BY <1>6 DEF v

LEMMA TransfersProgress ==
  ASSUME TablesInv, script = "rest",
         NEW w, IsWalk(w), w.on = "transfers", w.of \in Hours \cup {Null},
         NotBegun(w) \/ (Progress(w, ranking) /\ w.offset < w.total),
         NEW page \in TransferPages(w.of, w.offset, w.limit)
  PROVE  Progress(Turned(w, page), ranking)
<1> DEFINE S == {row \in ranking : row.hora = w.of}
           v == Turned(w, page)
<1>1. PICK s \in Orders(S, RankKey) :
        /\ page.rows = Window(Marks(s), w.offset, w.limit)
        /\ page.total = IF w.offset >= Len(s) THEN 0 ELSE Len(s)
        /\ page.maximum = IF w.offset >= Len(s) THEN 0 ELSE s[1].viajes
  <2>1. w.offset \in Nat /\ w.limit \in Nat \ {0}
    BY DEF IsWalk
  <2> QED
    BY <2>1, TransfersPage DEF OfHour
<1>2. /\ s \in SetToSeqs(S) /\ IsFiniteSet(S) /\ \A t \in Orders(S, RankKey) : t = s
      /\ \A row \in S : row.viajes \in Nat
  <2>1. viajes \in Surveys /\ ranking \subseteq Ranked(viajes)
    BY TablesAtRest
  <2>2. S \subseteq {row \in Ranked(viajes) : row.hora = w.of}
    BY <2>1
  <2>3. \A row \in S : row.viajes \in Nat
    BY <2>1, <2>2, RankedFacts
  <2> HIDE DEF S
  <2> QED
    BY <2>1, <2>2, <2>3, RankOrder
<1>3. s \in Seq(S) /\ Len(s) \in Nat /\ \A i \in 1 .. Len(s) : s[i] \in S
  <2> HIDE DEF S
  <2> QED
    BY <1>2, SortedIsAll, ElementsOf
<1>4. Marks(s) \in Seq({Marked(row) : row \in S}) /\ Len(Marks(s)) = Len(s)
  <2> HIDE DEF S
  <2> QED
    BY <1>3, MarksFacts, 0 \in Nat
<1>5. Largest(s) \in Nat /\ (Len(s) = 0 => Largest(s) = 0)
      /\ page.maximum = IF w.offset >= Len(s) THEN 0 ELSE Largest(s)
  <2>1. CASE Len(s) = 0
    BY <1>1, <2>1 DEF Largest, IsWalk
  <2>2. CASE Len(s) # 0
    <3>1. 1 \in 1 .. Len(s)
      BY <1>3, <2>2
    <3> QED
      BY <1>1, <1>2, <1>3, <2>2, <3>1 DEF Largest
  <2> QED
    BY <2>1, <2>2
<1>6. NotBegun(w) \/ (Beginning(w, Marks(s), Largest(s)) /\ w.offset < w.total)
  <2>1. Progress(w, ranking) => \E t \in Orders(S, RankKey) : Beginning(w, Marks(t), Largest(t))
    BY DEF Progress
  <2> QED
    BY <1>2, <2>1
<1>7. IsPage(page, Marks(s), w, Largest(s))
  BY <1>1, <1>4, <1>5 DEF IsPage
<1>8. IsWalk(v) /\ v.on = w.on /\ v.of = w.of /\ Beginning(v, Marks(s), Largest(s))
  <2> HIDE DEF S
  <2>1. Len(Marks(s)) = 0 => Largest(s) = 0
    BY <1>4, <1>5
  <2>2. Largest(s) \in Nat
    BY <1>5
  <2> QED
    BY <1>4, <1>6, <1>7, <2>1, <2>2, BeginningGrows
<1> HIDE DEF v
<1>9. Progress(v, ranking)
  <2>1. s \in Orders({row \in ranking : row.hora = v.of}, RankKey)
    BY <1>8
  <2> QED
    BY <1>8, <2>1 DEF Progress
<1> QED
  BY <1>9 DEF v

LEMMA WalkStays ==
  ASSUME WalkInv, walk' = walk, steady' = steady, ranking' = ranking, script' = script
  PROVE  WalkInv'
  BY DEF WalkInv

LEMMA LimitIsPositive ==
  ASSUME NEW size \in Sizes
  PROVE  Clamped(size, DefaultPageSize, MaximumPageSize) \in Nat \ {0}
<1>1. size \in Int /\ DefaultPageSize \in Nat \ {0} /\ MaximumPageSize \in Nat
  BY CatalogueAssumption
<1> QED
  BY ONLY <1>1 DEF Clamped, Smaller

LEMMA FirstAsked ==
  ASSUME NEW on, NEW of, NEW limit
  PROVE  [NoWalk EXCEPT !.on = on, !.of = of, !.limit = limit]
           = [on |-> on, of |-> of, limit |-> limit, offset |-> 0, seen |-> <<>>, total |-> 0, maximum |-> 0]
<1> DEFINE W(a, b, c) == [on |-> a, of |-> b, limit |-> c, offset |-> 0, seen |-> <<>>, total |-> 0, maximum |-> 0]
<1>1. NoWalk = W("nothing", Null, 0)
  BY DEF NoWalk
<1>2. [W("nothing", Null, 0) EXCEPT !.on = on] = W(on, Null, 0)
  OBVIOUS
<1>3. [W(on, Null, 0) EXCEPT !.of = of] = W(on, of, 0)
  OBVIOUS
<1>4. [W(on, of, 0) EXCEPT !.limit = limit] = W(on, of, limit)
  OBVIOUS
<1> QED
  BY <1>1, <1>2, <1>3, <1>4

LEMMA AskBegins ==
  ASSUME TablesInv, script = "rest", Ask
  PROVE  Progress(walk', ranking)
<1>1. PICK size \in Sizes :
        LET limit == Clamped(size, DefaultPageSize, MaximumPageSize) IN
        \/ \E S \in Searches : Read([NoWalk EXCEPT !.on = "lines", !.of = S, !.limit = limit])
        \/ \E h \in Hours \cup {Null} : Read([NoWalk EXCEPT !.on = "transfers", !.of = h, !.limit = limit])
  BY DEF Ask
<1> DEFINE limit == Clamped(size, DefaultPageSize, MaximumPageSize)
<1>2. limit \in Nat \ {0}
  BY LimitIsPositive
<1> HIDE DEF limit
<1>3. ASSUME NEW S \in Searches, Read([NoWalk EXCEPT !.on = "lines", !.of = S, !.limit = limit])
      PROVE  Progress(walk', ranking)
  <2> DEFINE w == [NoWalk EXCEPT !.on = "lines", !.of = S, !.limit = limit]
  <2>1. w = [on |-> "lines", of |-> S, limit |-> limit, offset |-> 0, seen |-> <<>>, total |-> 0, maximum |-> 0]
    BY FirstAsked
  <2> HIDE DEF w
  <2>2. Read(w)
    BY <1>3 DEF w
  <2>3. PICK page \in Pages(w.on, w.of, w.offset, w.limit) : walk' = Turned(w, page)
    BY <2>2 DEF Read, Turned
  <2>4. IsWalk(w) /\ NotBegun(w) /\ w.on = "lines" /\ w.of \in Searches
    BY <1>2, <2>1 DEF IsWalk, NotBegun
  <2>5. page \in LinesPages(w.of, w.offset, w.limit)
    BY <2>3, <2>4 DEF Pages
  <2> QED
    BY <2>3, <2>4, <2>5, LinesProgress
<1>4. ASSUME NEW h \in Hours \cup {Null}, Read([NoWalk EXCEPT !.on = "transfers", !.of = h, !.limit = limit])
      PROVE  Progress(walk', ranking)
  <2> DEFINE w == [NoWalk EXCEPT !.on = "transfers", !.of = h, !.limit = limit]
  <2>1. w = [on |-> "transfers", of |-> h, limit |-> limit, offset |-> 0, seen |-> <<>>, total |-> 0, maximum |-> 0]
    BY FirstAsked
  <2> HIDE DEF w
  <2>2. Read(w)
    BY <1>4 DEF w
  <2>3. PICK page \in Pages(w.on, w.of, w.offset, w.limit) : walk' = Turned(w, page)
    BY <2>2 DEF Read, Turned
  <2>4. IsWalk(w) /\ NotBegun(w) /\ w.on = "transfers" /\ w.of \in Hours \cup {Null}
    BY <1>2, <2>1 DEF IsWalk, NotBegun
  <2>5. page \in TransferPages(w.of, w.offset, w.limit)
    BY <2>3, <2>4 DEF Pages
  <2> QED
    BY <2>3, <2>4, <2>5, TransfersProgress
<1> QED
  BY <1>1, <1>3, <1>4 DEF limit

LEMMA TurnProgresses ==
  ASSUME TablesInv, script = "rest", Progress(walk, ranking), TurnPage
  PROVE  Progress(walk', ranking)
<1>1. Read(walk) /\ walk.offset < walk.total
  BY DEF TurnPage, Walking
<1>2. PICK page \in Pages(walk.on, walk.of, walk.offset, walk.limit) : walk' = Turned(walk, page)
  BY <1>1 DEF Read, Turned
<1>3. IsWalk(walk)
  BY DEF Progress
<1>4. CASE walk.on = "lines" /\ walk.of \in Searches
  <2>1. page \in LinesPages(walk.of, walk.offset, walk.limit)
    BY <1>2, <1>4 DEF Pages
  <2> QED
    BY <1>1, <1>2, <1>3, <1>4, <2>1, LinesProgress
<1>5. CASE walk.on = "transfers" /\ walk.of \in Hours \cup {Null}
  <2>1. page \in TransferPages(walk.of, walk.offset, walk.limit)
    BY <1>2, <1>5 DEF Pages
  <2> QED
    BY <1>1, <1>2, <1>3, <1>5, <2>1, TransfersProgress
<1> QED
  BY <1>4, <1>5 DEF Progress

LEMMA WalkKept == TablesInv /\ WalkInv /\ [CatalogueNext]_catalogueVars => WalkInv'
<1> SUFFICES ASSUME TablesInv, WalkInv, [CatalogueNext]_catalogueVars PROVE WalkInv'
  OBVIOUS
<1>1. CASE Load
  BY <1>1 DEF Load, WalkInv
<1>2. CASE Ask /\ Browse
  <2>1. (steady' => script = "rest") /\ script' = script /\ ranking' = ranking
    BY <1>2 DEF Ask, Browse, tables
  <2>2. script = "rest" => Progress(walk', ranking)
    BY <1>2, AskBegins
  <2> QED
    BY <2>1, <2>2 DEF WalkInv
<1>3. CASE TurnPage /\ Browse
  <2>1. steady' = steady /\ script' = script /\ ranking' = ranking /\ walk # NoWalk
    BY <1>3 DEF TurnPage, Walking, Browse, tables
  <2>2. steady => script = "rest" /\ Progress(walk', ranking)
    BY <1>3, <2>1, TurnProgresses DEF WalkInv
  <2> QED
    BY <2>1, <2>2 DEF WalkInv
<1>4. CASE LeaveListing
  BY <1>4 DEF LeaveListing, WalkInv
<1>5. CASE Request
  BY <1>5, WalkStays DEF Request, tables
<1>6. CASE UNCHANGED catalogueVars
  BY <1>6, WalkStays DEF catalogueVars, tables
<1> QED
  BY <1>1, <1>2, <1>3, <1>4, <1>5, <1>6 DEF CatalogueNext, Browse

(* What a finished walk has seen is the whole list.                         *)
LEMMA WalkedIsAll ==
  ASSUME NEW S, NEW s \in Seq(S), NEW w, NEW m, IsWalk(w), Beginning(w, s, m), w.offset >= w.total
  PROVE  w.seen = s /\ w.total = Len(s) /\ w.maximum = m
<1> DEFINE o == w.offset
<1>1. o \in Nat /\ o >= Len(s) /\ w.seen = Window(s, 0, o)
  BY DEF IsWalk, Beginning
<1>2. 1 \in Nat \ {0}
  OBVIOUS
<1> HIDE DEF o
<1>3. Window(s, 0, o) = s
  BY <1>1, <1>2, WindowsMeet
<1> QED
  BY <1>1, <1>3 DEF Beginning

LEMMA MarkedFields == \A row : Marked(row).par = row.par /\ Marked(row).viajes = row.viajes
<1> TAKE row
<1>1. Marked(row).par = row.par
  BY DEF Marked
<1>2. Marked(row).viajes = row.viajes
  BY DEF Marked
<1> QED
  BY <1>1, <1>2

(* The rows of an hour are marked apart, and sorted by what they carry.     *)
LEMMA MarkedOrder ==
  ASSUME TablesInv, script = "rest", NEW hora \in Hours \cup {Null}, NEW s \in Orders(OfHour(hora), RankKey)
  PROVE  LET m == Marks(s)
             n == Len(m)
         IN /\ m \in Seq({Marked(row) : row \in OfHour(hora)})
            /\ n \in Nat /\ n = Len(s)
            /\ \A i, j \in 1 .. n : i # j => m[i] # m[j]
            /\ ToSet(m) = {Marked(row) : row \in OfHour(hora)}
            /\ \A i \in 1 .. (n - 1) : m[i].viajes >= m[i + 1].viajes
            /\ n > 0 => Largest(s) = m[1].viajes
<1> DEFINE S == OfHour(hora)
           m == Marks(s)
           n == Len(m)
<1>1. viajes \in Surveys /\ ranking \subseteq Ranked(viajes)
  BY TablesAtRest
<1>2. S \subseteq {row \in Ranked(viajes) : row.hora = hora}
  BY <1>1 DEF OfHour
<1>3. s \in Orders(S, RankKey)
  OBVIOUS
<1>4. /\ IsFiniteSet(S) /\ s \in SetToSeqs(S)
      /\ \A i, j \in DOMAIN s : i < j => s[j].viajes <= s[i].viajes
  <2> HIDE DEF S
  <2> QED
    BY <1>1, <1>2, <1>3, RankOrder
<1>5. \A row \in S : row.viajes \in Nat /\ row = Fila(Of(viajes, row.par, hora), row.par, hora)
  BY <1>1, <1>2, RankedFacts
<1> DEFINE c == Cardinality(S)
<1> HIDE DEF S
<1>6. /\ c \in Nat /\ s \in Seq(S) /\ Len(s) = c /\ DOMAIN s = 1 .. c
      /\ \A i, j \in 1 .. c : s[i] = s[j] => i = j
      /\ \A i \in 1 .. c : s[i] \in S
      /\ \A x \in S : \E i \in 1 .. c : s[i] = x
  BY <1>4, SortedIsAll
<1>7. m \in Seq({Marked(row) : row \in S}) /\ n = Len(s) /\ \A i \in 1 .. Len(s) : m[i] = Marked(s[i])
  BY <1>6, 0 \in Nat, MarksFacts
<1>8. n = c /\ \A i \in 1 .. c : m[i] = Marked(s[i])
  BY <1>6, <1>7
<1> HIDE DEF m, n, c
<1>9. \A i, j \in 1 .. n : i # j => m[i] # m[j]
  <2> SUFFICES ASSUME NEW i \in 1 .. n, NEW j \in 1 .. n, m[i] = m[j] PROVE i = j
    OBVIOUS
  <2>1. s[i].par = s[j].par
    BY <1>8, MarkedFields
  <2>2. s[i] = s[j]
    BY <1>5, <1>6, <1>8, <2>1
  <2> QED
    BY <1>6, <1>8, <2>2
<1>10. ToSet(m) = {Marked(row) : row \in S}
  <2>1. ToSet(m) = {m[i] : i \in 1 .. n}
    BY <1>7, ElementsOf DEF n
  <2>2. \A i \in 1 .. n : m[i] \in {Marked(row) : row \in S}
    BY <1>6, <1>8
  <2>3. \A row \in S : \E i \in 1 .. n : m[i] = Marked(row)
    BY <1>6, <1>8
  <2> QED
    BY <2>1, <2>2, <2>3
<1>11. \A i \in 1 .. (n - 1) : m[i].viajes >= m[i + 1].viajes
  <2> TAKE i \in 1 .. (n - 1)
  <2>1. i \in 1 .. c /\ i + 1 \in 1 .. c /\ i < i + 1
    BY <1>6, <1>8
  <2>2. m[i].viajes = s[i].viajes /\ m[i + 1].viajes = s[i + 1].viajes
    BY <1>8, <2>1, MarkedFields
  <2>3. s[i + 1].viajes <= s[i].viajes
    BY <1>4, <1>6, <2>1
  <2>4. s[i].viajes \in Nat /\ s[i + 1].viajes \in Nat
    BY <1>5, <1>6, <2>1
  <2> QED
    BY <2>2, <2>3, <2>4
<1>12. n > 0 => Largest(s) = m[1].viajes
  <2> SUFFICES ASSUME n > 0 PROVE Largest(s) = m[1].viajes
    OBVIOUS
  <2>1. 1 \in 1 .. c /\ Len(s) # 0
    BY <1>6, <1>8
  <2> QED
    BY <1>8, <2>1, MarkedFields DEF Largest
<1> QED
  BY <1>6, <1>7, <1>8, <1>9, <1>10, <1>11, <1>12 DEF S, m, n

(* PagesAreTheRanking, for any catalogue, page size and number of pages.    *)
THEOREM PagesStayTheRanking == CatalogueSpec => []PagesAreTheRanking
<1>1. CatalogueInit => WalkInv
  BY DEF CatalogueInit, WalkInv
<1>2. TablesInv /\ WalkInv => PagesAreTheRanking
  <2> SUFFICES ASSUME TablesInv, WalkInv, steady, Walked PROVE PagesAreTheRanking
    BY DEF PagesAreTheRanking
  <2>1. script = "rest" /\ Progress(walk, ranking) /\ walk.offset >= walk.total
    BY DEF WalkInv, Walked
  <2>2. IsWalk(walk)
    BY <2>1 DEF Progress
  <2>3. CASE walk.on = "lines" /\ walk.of \in Searches
    <3>1. PICK s \in Orders(walk.of, ListKey) : Beginning(walk, s, 0)
      BY <2>1, <2>3 DEF Progress
    <3>2. IsFiniteSet(walk.of) /\ s \in SetToSeqs(walk.of)
      BY <2>3, ListOrder
    <3> DEFINE c == Cardinality(walk.of)
    <3>3. /\ c \in Nat /\ s \in Seq(walk.of) /\ Len(s) = c /\ DOMAIN s = 1 .. c
          /\ \A i, j \in 1 .. c : s[i] = s[j] => i = j
          /\ \A i \in 1 .. c : s[i] \in walk.of
          /\ \A x \in walk.of : \E i \in 1 .. c : s[i] = x
      BY ONLY <3>2, SortedIsAll
    <3> HIDE DEF c
    <3>4. walk.seen = s /\ walk.total = Len(s)
      BY <2>1, <2>2, <3>1, <3>3, WalkedIsAll
    <3>5. ToSet(s) = walk.of
      <4>1. ToSet(s) = {s[i] : i \in 1 .. c}
        BY <3>3, ElementsOf
      <4> QED
        BY <3>3, <4>1
    <3>6. \A i, j \in 1 .. Len(s) : i # j => s[i] # s[j]
      BY <3>3
    <3> QED
      BY <2>3, <3>4, <3>5, <3>6 DEF PagesAreTheRanking
  <2>4. CASE walk.on = "transfers" /\ walk.of \in Hours \cup {Null}
    <3>1. PICK s \in Orders(OfHour(walk.of), RankKey) : Beginning(walk, Marks(s), Largest(s))
      BY <2>1, <2>4 DEF Progress, OfHour
    <3> DEFINE m == Marks(s)
               n == Len(m)
               M == {Marked(row) : row \in OfHour(walk.of)}
    <3>2. /\ m \in Seq(M)
          /\ n \in Nat
          /\ \A i, j \in 1 .. n : i # j => m[i] # m[j]
          /\ ToSet(m) = M
          /\ \A i \in 1 .. (n - 1) : m[i].viajes >= m[i + 1].viajes
          /\ n > 0 => Largest(s) = m[1].viajes
      BY <2>1, <2>4, MarkedOrder
    <3> HIDE DEF m, M
    <3>3. walk.seen = m /\ walk.total = n /\ walk.maximum = Largest(s)
      <4>1. Beginning(walk, m, Largest(s))
        BY <3>1 DEF m
      <4> QED
        BY <2>1, <2>2, <3>2, <4>1, WalkedIsAll
    <3>4. ToSet(walk.seen) = {Marked(row) : row \in OfHour(walk.of)}
      BY <3>2, <3>3 DEF M
    <3> QED
      BY <2>4, <3>2, <3>3, <3>4 DEF PagesAreTheRanking
  <2> QED
    BY <2>1, <2>3, <2>4 DEF Progress
<1> QED
  BY <1>1, <1>2, WalkKept, TablesAreDerived, PTL DEF CatalogueSpec

-----------------------------------------------------------------------------
(* The shortlist of similar lines.                                          *)
RanksLess(path, S) == {e \in S \X S : Before(Ranks(path, e[1]), Ranks(path, e[2]))}

ShortOrders(path, candidates) == Orders(Similar(path, candidates), LAMBDA c : Ranks(path, c))

LEMMA ShortOrder ==
  ASSUME NEW path, NEW candidates \in CandidateSets
  PROVE  LET S == Similar(path, candidates) IN
         /\ IsFiniteSet(S)
         /\ \A c \in S : Weakest(path, c) \in Nat
         /\ \A s \in ShortOrders(path, candidates) :
              /\ s \in SetToSeqs(S)
              /\ \A i, j \in DOMAIN s : i < j => Weakest(path, s[j]) <= Weakest(path, s[i])
         /\ \A s, t \in ShortOrders(path, candidates) : s = t
<1> DEFINE S == Similar(path, candidates)
           L == RanksLess(path, S)
<1>1. /\ IsFiniteSet(candidates) /\ S \subseteq candidates
      /\ \A c \in candidates : c.id \in Nat /\ c.drawn \in Nat /\ c.stored \in Nat
      /\ \A c, e \in candidates : c.id = e.id => c = e
  BY CatalogueAssumption DEF Similar
<1>2. IsFiniteSet(S)
  BY <1>1, FS_Subset
<1>3. \A c \in S : c.id \in Nat /\ Weakest(path, c) \in Nat /\ Strongest(path, c) \in Nat
  <2> TAKE c \in S
  <2>1. c.id \in Nat /\ c.drawn \in Nat /\ c.stored \in Nat /\ Whole \in Nat
    BY <1>1, LinesAssumption
  <2>2. Smaller(Whole, c.drawn) \in Nat /\ Smaller(Whole, c.stored) \in Nat
    BY <2>1 DEF Smaller
  <2>3. CoverageOfDrawn(path, c) \in Nat /\ CoverageOfStored(c) \in Nat
    BY <2>2 DEF CoverageOfDrawn, CoverageOfStored
  <2>4. Weakest(path, c) \in Nat /\ Strongest(path, c) \in Nat
    BY <2>3 DEF Weakest, Strongest, Smaller, Greater
  <2> QED
    BY <2>1, <2>4
<1> HIDE DEF S
<1>4. \A x, y \in S : <<x, y>> \in L <=> Before(Ranks(path, x), Ranks(path, y))
  BY DEF RanksLess
<1> HIDE DEF L
<1>5. \A x \in S : /\ Ranks(path, x) = <<-Weakest(path, x), -Strongest(path, x), x.id>>
                   /\ Ranks(path, x) \in Int \X Int \X Int
  <2> TAKE x \in S
  <2> DEFINE a == Weakest(path, x)
             b == Strongest(path, x)
             k == x.id
  <2>1. a \in Nat /\ b \in Nat /\ k \in Nat
    BY <1>3
  <2>2. Ranks(path, x) = <<-a, -b, k>>
    BY DEF Ranks
  <2> HIDE DEF a, b, k
  <2>3. <<-a, -b, k>> \in Int \X Int \X Int
    BY ONLY <2>1
  <2> QED
    BY <2>2, <2>3 DEF a, b, k
<1>6. \A x, y \in S : x # y => <<x, y>> \in L \/ <<y, x>> \in L
  <2> SUFFICES ASSUME NEW x \in S, NEW y \in S, x # y PROVE <<x, y>> \in L \/ <<y, x>> \in L
    OBVIOUS
  <2>1. Ranks(path, x) # Ranks(path, y)
    <3>1. Ranks(path, x)[3] = x.id /\ Ranks(path, y)[3] = y.id
      BY <1>5
    <3>2. x.id # y.id
      BY <1>1
    <3> QED
      BY <3>1, <3>2
  <2>2. Before(Ranks(path, x), Ranks(path, y)) \/ Before(Ranks(path, y), Ranks(path, x))
    BY <1>5, <2>1, TriplesAreOrdered
  <2> QED
    BY <1>4, <2>2
<1>7. ASSUME NEW s \in ShortOrders(path, candidates)
      PROVE  /\ s \in SetToSeqs(S) /\ Sorted(s, S, L)
             /\ \A i, j \in DOMAIN s : i < j => Weakest(path, s[j]) <= Weakest(path, s[i])
  <2>1. s \in SetToSeqs(S) /\ \A i, j \in DOMAIN s : i < j => ~ Before(Ranks(path, s[j]), Ranks(path, s[i]))
    BY DEF Orders, ShortOrders, S
  <2>2. \A i \in DOMAIN s : s[i] \in S
    BY <1>2, <2>1, SortedIsAll
  <2>3. Sorted(s, S, L)
    BY <1>4, <2>1, <2>2 DEF Sorted
  <2>4. ASSUME NEW i \in DOMAIN s, NEW j \in DOMAIN s, i < j
        PROVE  Weakest(path, s[j]) <= Weakest(path, s[i])
    <3>1. s[i] \in S /\ s[j] \in S /\ ~ Before(Ranks(path, s[j]), Ranks(path, s[i]))
      BY <2>1, <2>2, <2>4
    <3>2. ~ (Ranks(path, s[j])[1] < Ranks(path, s[i])[1])
      BY <1>5, <3>1, TriplesAreOrdered
    <3>3. ~ (-(Weakest(path, s[j])) < -(Weakest(path, s[i])))
      BY <1>5, <3>1, <3>2
    <3>4. Weakest(path, s[i]) \in Nat /\ Weakest(path, s[j]) \in Nat
      BY <1>3, <3>1
    <3> QED
      BY <3>3, <3>4
  <2> QED
    BY <2>1, <2>3, <2>4
<1>8. \A s, t \in ShortOrders(path, candidates) : s = t
  BY <1>2, <1>6, <1>7, SortedOnce
<1>9. /\ IsFiniteSet(S)
      /\ \A c \in S : Weakest(path, c) \in Nat
      /\ \A s \in ShortOrders(path, candidates) :
           /\ s \in SetToSeqs(S)
           /\ \A i, j \in DOMAIN s : i < j => Weakest(path, s[j]) <= Weakest(path, s[i])
      /\ \A s, t \in ShortOrders(path, candidates) : s = t
  BY <1>2, <1>3, <1>7, <1>8
<1> QED
  BY <1>9 DEF S

LEMMA WindowOfWindow ==
  ASSUME NEW S, NEW s \in Seq(S), NEW n \in Nat
  PROVE  Window(Window(s, 0, n + 1), 0, n) = Window(s, 0, n)
<1> DEFINE t == Window(s, 0, n + 1)
           u == Window(t, 0, n)
           v == Window(s, 0, n)
           l == Len(s)
<1>1. l \in Nat
  BY ElementsOf
<1>2. /\ t \in Seq(S)
      /\ Len(t) = IF 0 < Smaller(0 + (n + 1), Len(s)) THEN Smaller(0 + (n + 1), Len(s)) - 0 ELSE 0
      /\ \A i \in 1 .. Len(t) : 0 + i \in 1 .. Len(s) /\ t[i] = s[0 + i]
  <2> DEFINE k == n + 1
  <2>1. k \in Nat
    OBVIOUS
  <2> HIDE DEF k
  <2>2. /\ Window(s, 0, k) \in Seq(S)
        /\ Len(Window(s, 0, k)) = IF 0 < Smaller(0 + k, Len(s)) THEN Smaller(0 + k, Len(s)) - 0 ELSE 0
        /\ \A i \in 1 .. Len(Window(s, 0, k)) : 0 + i \in 1 .. Len(s) /\ Window(s, 0, k)[i] = s[0 + i]
    BY <2>1, 0 \in Nat, WindowFacts
  <2> QED
    BY <2>2 DEF k
<1>3. /\ v \in Seq(S)
      /\ Len(v) = IF 0 < Smaller(0 + n, Len(s)) THEN Smaller(0 + n, Len(s)) - 0 ELSE 0
      /\ \A i \in 1 .. Len(v) : 0 + i \in 1 .. Len(s) /\ v[i] = s[0 + i]
  BY 0 \in Nat, WindowFacts
<1> HIDE DEF t
<1>4. /\ u \in Seq(S)
      /\ Len(u) = IF 0 < Smaller(0 + n, Len(t)) THEN Smaller(0 + n, Len(t)) - 0 ELSE 0
      /\ \A i \in 1 .. Len(u) : 0 + i \in 1 .. Len(t) /\ u[i] = t[0 + i]
  BY <1>2, 0 \in Nat, WindowFacts
<1> HIDE DEF u, v
<1>5. Len(t) = (IF n + 1 < l THEN n + 1 ELSE l) /\ Len(v) = IF n < l THEN n ELSE l
  BY <1>1, <1>2, <1>3 DEF Smaller
<1>6. Len(u) = Len(v) /\ Len(u) <= Len(t) /\ Len(t) \in Nat /\ Len(u) \in Nat
  <2> HIDE DEF l
  <2> QED
    BY <1>1, <1>4, <1>5 DEF Smaller
<1>7. \A i \in 1 .. Len(u) : u[i] = v[i]
  <2> TAKE i \in 1 .. Len(u)
  <2>1. 0 + i = i /\ i \in 1 .. Len(t) /\ i \in 1 .. Len(v)
    BY <1>6
  <2> QED
    BY <1>2, <1>3, <1>4, <2>1
<1>8. u = v
  BY <1>3, <1>4, <1>6, <1>7, SeqEqual
<1> QED
  BY <1>8 DEF u, v, t

LEMMA ShortlistFacts ==
  ASSUME NEW path, NEW candidates \in CandidateSets, NEW n \in Nat,
         NEW lines \in Shortlists(path, candidates, n)
  PROVE  /\ \A c \in Similar(path, candidates) \ ToSet(lines), i \in DOMAIN lines :
              Weakest(path, c) <= Weakest(path, lines[i])
         /\ \A longer \in Shortlists(path, candidates, n + 1) : Window(longer, 0, n) = lines
<1> DEFINE S == Similar(path, candidates)
           O == ShortOrders(path, candidates)
<1>1. PICK s \in O : lines = Window(s, 0, n)
  BY DEF Shortlists, ShortOrders
<1>2. \A longer \in Shortlists(path, candidates, n + 1) : \E t \in O : longer = Window(t, 0, n + 1)
  BY DEF Shortlists, ShortOrders
<1>3. /\ IsFiniteSet(S) /\ s \in SetToSeqs(S)
      /\ \A i, j \in DOMAIN s : i < j => Weakest(path, s[j]) <= Weakest(path, s[i])
      /\ \A t \in O : t = s
  BY ShortOrder
<1> HIDE DEF O, S
<1> DEFINE c == Cardinality(S)
<1>4. /\ c \in Nat /\ s \in Seq(S) /\ Len(s) = c /\ DOMAIN s = 1 .. c
      /\ \A x \in S : \E i \in 1 .. c : s[i] = x
  BY <1>3, SortedIsAll
<1> HIDE DEF c
<1>5. /\ lines \in Seq(S) /\ DOMAIN lines = 1 .. Len(lines)
      /\ Len(lines) \in Nat
      /\ \A i \in 1 .. Len(lines) : 0 + i \in 1 .. Len(s) /\ lines[i] = s[0 + i]
  BY <1>1, <1>4, 0 \in Nat, WindowFacts, ElementsOf
<1>6. \A i \in 1 .. Len(lines) : i \in 1 .. c /\ lines[i] = s[i]
  <2>1. \A i \in 1 .. Len(lines) : 0 + i = i
    BY <1>5
  <2> QED
    BY <1>4, <1>5, <2>1
<1>7. ASSUME NEW x \in S \ ToSet(lines), NEW i \in DOMAIN lines
      PROVE  Weakest(path, x) <= Weakest(path, lines[i])
  <2>1. PICK k \in 1 .. c : s[k] = x
    BY <1>4
  <2>2. k \notin 1 .. Len(lines)
    <3>1. \A j \in 1 .. Len(lines) : lines[j] \in ToSet(lines)
      BY <1>5, ElementsOf
    <3> QED
      BY <1>6, <2>1, <3>1
  <2>3. i < k /\ i \in 1 .. c /\ lines[i] = s[i]
    BY <1>4, <1>5, <1>6, <2>2
  <2> QED
    BY <1>3, <1>4, <2>1, <2>3
<1>8. ASSUME NEW longer \in Shortlists(path, candidates, n + 1) PROVE Window(longer, 0, n) = lines
  <2>1. longer = Window(s, 0, n + 1)
    BY <1>2, <1>3
  <2> QED
    BY <1>1, <1>4, <2>1, WindowOfWindow
<1> QED
  BY <1>7, <1>8 DEF S

ReplyInv ==
  /\ reply.to = "line" => reply.rows \in StoredLines /\ reply.got = Get(reply.rows)
  /\ reply.to = "similar" =>
       /\ reply.candidates \in CandidateSets /\ reply.size \in Sizes
       /\ reply.lines \in Shortlists(DrawnPath(reply.drawing), reply.candidates, ResultCount(reply.size))

LEMMA ReplyKept == ReplyInv /\ [CatalogueNext]_catalogueVars => ReplyInv'
<1> SUFFICES ASSUME ReplyInv, [CatalogueNext]_catalogueVars PROVE ReplyInv'
  OBVIOUS
<1>1. ASSUME reply' = reply PROVE ReplyInv'
  BY <1>1 DEF ReplyInv
<1>2. ASSUME reply' = NoReply PROVE ReplyInv'
  BY <1>2 DEF ReplyInv, NoReply
<1>3. CASE GetLine
  <2>1. PICK rows \in StoredLines : reply' = [to |-> "line", rows |-> rows, got |-> Get(rows)]
    BY <1>3 DEF GetLine
  <2> QED
    BY <2>1 DEF ReplyInv
<1>4. CASE FindSimilar
  <2>1. PICK drawing \in Drawings : \E candidates \in CandidateSets, size \in Sizes :
          IF ~ ValidDrawnRoute(drawing) THEN reply' = [to |-> "refused"]
          ELSE \E lines \in Shortlists(DrawnPath(drawing), candidates, ResultCount(size)) :
                 reply' = [to |-> "similar", drawing |-> drawing, candidates |-> candidates,
                           size |-> size, lines |-> lines]
    BY <1>4 DEF FindSimilar
  <2>2. CASE reply' = [to |-> "refused"]
    BY <2>2 DEF ReplyInv
  <2>3. CASE \E candidates \in CandidateSets, size \in Sizes :
               \E lines \in Shortlists(DrawnPath(drawing), candidates, ResultCount(size)) :
                 reply' = [to |-> "similar", drawing |-> drawing, candidates |-> candidates,
                           size |-> size, lines |-> lines]
    <3>1. PICK candidates \in CandidateSets, size \in Sizes :
               \E lines \in Shortlists(DrawnPath(drawing), candidates, ResultCount(size)) :
                 reply' = [to |-> "similar", drawing |-> drawing, candidates |-> candidates,
                           size |-> size, lines |-> lines]
      BY <2>3
    <3>2. PICK lines \in Shortlists(DrawnPath(drawing), candidates, ResultCount(size)) :
                 reply' = [to |-> "similar", drawing |-> drawing, candidates |-> candidates,
                           size |-> size, lines |-> lines]
      BY <3>1
    <3> QED
      BY <3>2 DEF ReplyInv
  <2> QED
    BY <2>1, <2>2, <2>3
<1>5. CASE Load \/ Browse \/ UNCHANGED catalogueVars
  BY <1>1, <1>5 DEF Load, Browse, catalogueVars
<1>6. CASE Request
  BY <1>2, <1>3, <1>4, <1>6 DEF Request
<1> QED
  BY <1>5, <1>6 DEF CatalogueNext

LEMMA RepliesAreWorked == CatalogueSpec => []ReplyInv
<1>1. CatalogueInit => ReplyInv
  BY DEF CatalogueInit, ReplyInv, NoReply
<1> QED
  BY <1>1, ReplyKept, PTL DEF CatalogueSpec

(* ShortlistIsBest, for any candidates and sizes.                           *)
THEOREM ShortlistsAreBest == CatalogueSpec => []ShortlistIsBest
<1>1. ReplyInv => ShortlistIsBest
  <2> SUFFICES ASSUME ReplyInv, reply.to = "similar" PROVE ShortlistIsBest
    BY DEF ShortlistIsBest
  <2> DEFINE path == DrawnPath(reply.drawing)
             n == ResultCount(reply.size)
             candidates == reply.candidates
             lines == reply.lines
  <2>1. candidates \in CandidateSets /\ reply.size \in Sizes /\ lines \in Shortlists(path, candidates, n)
    BY DEF ReplyInv
  <2>2. n \in Nat
    <3>1. reply.size \in Int /\ DefaultCount \in Nat /\ MaximumCount \in Nat
      <4>1. Sizes \subseteq Int
        BY CatalogueAssumption
      <4>2. DefaultCount \in 1 .. MaximumCount /\ MaximumCount \in Nat
        BY LinesAssumption
      <4>3. reply.size \in Int
        BY <2>1, <4>1
      <4>4. DefaultCount \in Nat
        BY <4>2
      <4> QED
        BY <4>2, <4>3, <4>4
    <3> QED
      BY <3>1 DEF ResultCount, Clamped, Smaller
  <2> HIDE DEF path, n, candidates, lines
  <2>3. /\ \A c \in Similar(path, candidates) \ ToSet(lines), i \in DOMAIN lines :
              Weakest(path, c) <= Weakest(path, lines[i])
        /\ \A longer \in Shortlists(path, candidates, n + 1) : Window(longer, 0, n) = lines
    BY <2>1, <2>2, ShortlistFacts
  <2> QED
    BY <2>3 DEF ShortlistIsBest, path, n, candidates, lines
<1> QED
  BY <1>1, RepliesAreWorked, PTL

(* The stops of a stored line.                                              *)
Stored == [id : Seq(Nat), nro : Nat, at : Places, path : Seq(Places)]

LEMMA StopsFacts ==
  ASSUME NEW rows \in StoredLines
  PROVE  LET stops == StoredStops(rows) IN
         /\ stops \in Seq(Stored)
         /\ \A i, j \in DOMAIN stops : stops[i].nro = stops[j].nro => i = j
<1> DEFINE R == [id : Seq(Nat), nro : Nat, at : Places \cup {NoPlace}, path : Seq(Places)]
           P == {n \in DOMAIN rows : rows[n].at # NoPlace}
           stops == ElementsIn(rows, P)
<1>1. rows \in Seq(R) /\ \A i, j \in DOMAIN rows : rows[i].nro = rows[j].nro => i = j
  BY CatalogueAssumption
<1>2. StoredStops(rows) = stops
  BY DEF StoredStops, Filtered, ElementsIn
<1>3. \A p \in P : p \in DOMAIN rows /\ rows[p] \in Stored
  <2> SUFFICES ASSUME NEW p \in P PROVE rows[p] \in Stored
    OBVIOUS
  <2>1. rows[p] \in R /\ rows[p].at # NoPlace
    <3> HIDE DEF R
    <3> QED
      BY <1>1, ElementsOf
  <2> QED
    BY <2>1 DEF Stored
<1>4. P \subseteq DOMAIN rows
  OBVIOUS
<1> HIDE DEF P
<1>5. /\ stops \in Seq(R)
      /\ \A n \in DOMAIN stops : \E p \in P : stops[n] = rows[p]
  <2> HIDE DEF R
  <2> QED
    BY <1>1, <1>4, ElementsAt
<1>6. \A i, j \in DOMAIN stops : i < j =>
        \E p, q \in P : p < q /\ stops[i] = rows[p] /\ stops[j] = rows[q]
  <2> HIDE DEF R
  <2> QED
    BY <1>1, <1>4, ElementsInOrder
<1> HIDE DEF stops
<1>7. Len(stops) \in Nat /\ DOMAIN stops = 1 .. Len(stops)
  BY <1>5, ElementsOf
<1>8. stops \in Seq(Stored)
  <2>1. \A n \in 1 .. Len(stops) : stops[n] \in Stored
    BY <1>3, <1>5, <1>7
  <2>2. stops = [n \in 1 .. Len(stops) |-> stops[n]]
    BY <1>5
  <2> HIDE DEF R
  <2>3. stops \in [1 .. Len(stops) -> Stored]
    BY <2>1, <2>2
  <2> QED
    BY <1>7, <2>3
<1>9. DOMAIN rows \subseteq Nat
  BY <1>1, ElementsOf
<1>10. \A i, j \in DOMAIN stops : i < j => stops[i].nro # stops[j].nro
  <2> TAKE i, j \in DOMAIN stops
  <2> SUFFICES ASSUME i < j PROVE stops[i].nro # stops[j].nro
    OBVIOUS
  <2>1. PICK p \in P, q \in P : p < q /\ stops[i] = rows[p] /\ stops[j] = rows[q]
    BY <1>6
  <2>2. p \in DOMAIN rows /\ q \in DOMAIN rows
    BY <1>4
  <2>3. p # q
    <3>1. p \in Nat /\ q \in Nat
      BY <1>9, <2>2
    <3> QED
      BY <2>1, <3>1
  <2> QED
    BY <1>1, <2>1, <2>2, <2>3
<1>11. \A i, j \in DOMAIN stops : stops[i].nro = stops[j].nro => i = j
  <2> TAKE i, j \in DOMAIN stops
  <2>1. i < j \/ j < i \/ i = j
    BY <1>7
  <2> QED
    BY <1>10, <2>1
<1> QED
  BY <1>2, <1>8, <1>11

(* A path with its ends moved.                                              *)
LEMMA AlignedFacts ==
  ASSUME NEW path \in Seq(Places), NEW o \in Places, NEW d \in Places
  PROVE  LET q == Aligned(path, o, d) IN
         /\ q \in Seq(Places) /\ Len(q) = Len(path)
         /\ Len(path) < 2 \/ Reversed(path, o, d) => q = path
         /\ ~ (Len(path) < 2) /\ ~ Reversed(path, o, d) =>
              /\ q[1] = o /\ Head(q) = o
              /\ q[Len(q)] = d /\ Last(q) = d
              /\ \A k \in 2 .. (Len(path) - 1) : q[k] = path[k]
<1> DEFINE n == Len(path)
           q == Aligned(path, o, d)
<1>1. n \in Nat /\ DOMAIN path = 1 .. n /\ \A i \in 1 .. n : path[i] \in Places
  BY ElementsOf
<1>2. CASE Len(path) < 2 \/ Reversed(path, o, d)
  <2>1. q = path
    BY <1>2 DEF Aligned
  <2> QED
    BY <1>2, <2>1
<1>3. CASE ~ (Len(path) < 2) /\ ~ Reversed(path, o, d)
  <2>1. q = [path EXCEPT ![1] = o, ![n] = d]
    BY <1>3 DEF Aligned
  <2> HIDE DEF n, q
  <2>2. q = [i \in 1 .. n |-> IF i = n THEN d ELSE IF i = 1 THEN o ELSE path[i]]
    BY <1>1, <2>1
  <2>3. n >= 2
    BY <1>1, <1>3 DEF n
  <2>4. \A i \in 1 .. n : q[i] = (IF i = n THEN d ELSE IF i = 1 THEN o ELSE path[i]) /\ q[i] \in Places
    BY <1>1, <2>2
  <2>5. q \in [1 .. n -> Places]
    BY <2>2, <2>4
  <2>6. q \in Seq(Places) /\ Len(q) = n
    BY <1>1, <2>5
  <2>7. q[1] = o /\ q[n] = d /\ \A k \in 2 .. (n - 1) : q[k] = path[k]
    <3>1. 1 \in 1 .. n /\ n \in 1 .. n /\ 1 # n
      BY <1>1, <2>3
    <3>2. \A k \in 2 .. (n - 1) : k \in 1 .. n /\ k # 1 /\ k # n
      BY <1>1, <2>3
    <3> QED
      BY <2>4, <3>1, <3>2
  <2>8. Head(q) = q[1] /\ Last(q) = q[Len(q)]
    BY <2>6 DEF Last
  <2> QED
    BY <1>3, <2>6, <2>7, <2>8 DEF n, q
<1> QED
  BY <1>2, <1>3

(* A path between two places has a length.                                  *)
LEMMA LengthIsPositive ==
  ASSUME NEW q \in Seq(Places), Len(q) >= 2, q[1] # q[Len(q)]
  PROVE  Length(q) > 0
<1> DEFINE n == Len(q)
           S == 1 .. (n - 1)
           w == [i \in S |-> Meters(q[i], q[i + 1])]
<1>1. n \in Nat /\ n >= 2 /\ \A i \in 1 .. n : q[i] \in Places
  BY ElementsOf
<1> HIDE DEF n
<1>2. \A i \in S : i \in 1 .. n /\ i + 1 \in 1 .. n
  BY <1>1
<1>3. \A i \in S : w[i] \in Nat /\ (w[i] = 0 => q[i] = q[i + 1])
  BY <1>1, <1>2, LinesAssumption
<1>4. IsFiniteSet(S)
  <2>1. 1 \in Int /\ n - 1 \in Int
    BY <1>1
  <2> QED
    BY <2>1, FS_Interval
<1>5. Length(q) = SumFunction(w)
  BY DEF Length, n
<1>6. DOMAIN w = S
  OBVIOUS
<1> HIDE DEF w, S
<1>7. Length(q) = Total(w, S) /\ Total(w, S) \in Nat
  BY <1>3, <1>4, <1>5, <1>6, SumOfFunction, TotalType
<1> SUFFICES ASSUME Total(w, S) = 0 PROVE FALSE
  BY <1>7
<1>8. \A i \in S : q[i] = q[i + 1]
  <2> TAKE i \in S
  <2>1. {i} \subseteq S /\ \A x \in {i} : w[x] \in Nat /\ w[x] <= w[x]
    BY <1>3
  <2>2. Total(w, {i}) <= Total(w, S)
    BY <1>3, <1>4, <2>1, TotalIsMonotone
  <2>3. Total(w, {i}) = w[i]
    BY <1>3, TotalOfOne
  <2> QED
    BY <1>3, <2>2, <2>3
<1> DEFINE T == {j \in 1 .. n : q[j] # q[1]}
<1>9. T \subseteq Nat /\ T # {}
  BY <1>1 DEF n
<1>10. PICK j \in T : \A k \in T : j <= k
  <2> HIDE DEF T
  <2> QED
    BY <1>9, LeastNatural
<1>11. j \in 1 .. n /\ q[j] # q[1] /\ j # 1
  OBVIOUS
<1>12. j - 1 \in S /\ j - 1 \in 1 .. n /\ ~ (j <= j - 1) /\ (j - 1) + 1 = j
  BY <1>1, <1>11 DEF S
<1>13. q[j - 1] = q[1]
  BY <1>10, <1>12
<1> QED
  BY <1>8, <1>11, <1>12, <1>13

-----------------------------------------------------------------------------
(* UniqueStopIDs.  The names given so far are the own name of each stop, or *)
(* that with its nro appended, and no two are equal.                        *)
Names(ids, stops, i) ==
  /\ ids[i] \in Seq(Seq(Nat)) /\ Len(ids[i]) = i
  /\ \A j \in 1 .. i : ids[i][j] \in {stops[j].id, Append(stops[j].id, stops[j].nro)}
  /\ \A j, k \in 1 .. i : ids[i][j] = ids[i][k] => j = k

Naming(ids, stops, n) ==
  ids = [i \in 0 .. n |-> IF i = 0 THEN <<>>
                          ELSE Append(ids[i - 1], StopName(stops, i, ToSet(ids[i - 1])))]

LEMMA NamingExists ==
  ASSUME NEW stops, NEW n \in Nat
  PROVE  \E ids : Naming(ids, stops, n)
<1> DEFINE T == {k \in Nat : ~ \E ids : Naming(ids, stops, k)}
<1> SUFFICES ASSUME T # {} PROVE FALSE
  OBVIOUS
<1>1. PICK k \in T : \A j \in T : k <= j
  <2>1. T \subseteq Nat
    OBVIOUS
  <2> HIDE DEF T
  <2> QED
    BY <2>1, LeastNatural
<1>2. k \in Nat /\ ~ \E ids : Naming(ids, stops, k)
  OBVIOUS
<1>3. k # 0
  <2> SUFFICES ASSUME k = 0 PROVE FALSE
    OBVIOUS
  <2> DEFINE ids == [i \in 0 .. 0 |-> <<>>]
  <2>1. Naming(ids, stops, 0)
    BY DEF Naming
  <2> QED
    BY <1>2, <2>1
<1>4. k - 1 \in Nat /\ ~ (k <= k - 1)
  BY <1>2, <1>3
<1>5. PICK ids : Naming(ids, stops, k - 1)
  BY <1>1, <1>4
<1> DEFINE more == [i \in 0 .. k |-> IF i < k THEN ids[i]
                                     ELSE Append(ids[k - 1], StopName(stops, k, ToSet(ids[k - 1])))]
           Named(f, i) == IF i = 0 THEN <<>> ELSE Append(f[i - 1], StopName(stops, i, ToSet(f[i - 1])))
<1>6. \A i \in 0 .. k - 1 : ids[i] = Named(ids, i)
  BY <1>4, <1>5 DEF Naming
<1>7. \A i \in 0 .. k : more[i] = Named(more, i)
  <2> TAKE i \in 0 .. k
  <2> HIDE DEF Named
  <2>1. CASE i = k
    <3>1. more[k - 1] = ids[k - 1]
      BY <1>4
    <3> HIDE DEF more
    <3>2. Named(more, k) = Append(ids[k - 1], StopName(stops, k, ToSet(ids[k - 1])))
      BY <1>3, <3>1 DEF Named
    <3>3. more[k] = Append(ids[k - 1], StopName(stops, k, ToSet(ids[k - 1])))
      BY <1>2 DEF more
    <3> QED
      BY <2>1, <3>2, <3>3
  <2>2. CASE i # k
    <3>1. i \in 0 .. k - 1 /\ more[i] = ids[i]
      BY <1>2, <1>4, <2>2
    <3>2. i # 0 => more[i - 1] = ids[i - 1]
      BY <1>2, <2>2
    <3> HIDE DEF more
    <3>3. Named(more, i) = Named(ids, i)
      BY <3>2 DEF Named
    <3> QED
      BY <1>6, <3>1, <3>3
  <2> QED
    BY <2>1, <2>2
<1>8. more = [i \in 0 .. k |-> more[i]]
  OBVIOUS
<1> HIDE DEF more
<1>9. Naming(more, stops, k)
  BY <1>7, <1>8 DEF Naming
<1> QED
  BY <1>2, <1>9

LEMMA NamesAreUnique ==
  ASSUME NEW stops \in Seq(Stored),
         \A i, j \in DOMAIN stops : stops[i].nro = stops[j].nro => i = j,
         \A i \in DOMAIN stops : Len(stops[i].id) = 1
  PROVE  \A i, j \in DOMAIN stops : UniqueStopIDs(stops)[i] = UniqueStopIDs(stops)[j] => i = j
<1> DEFINE n == Len(stops)
           ids == CHOOSE f : Naming(f, stops, n)
<1>1. n \in Nat /\ DOMAIN stops = 1 .. n /\ \A i \in 1 .. n : stops[i] \in Stored
  BY ElementsOf
<1>2. \A i \in 1 .. n : stops[i].id \in Seq(Nat) /\ stops[i].nro \in Nat /\ Len(stops[i].id) = 1
  BY <1>1 DEF Stored
<1>3. UniqueStopIDs(stops) = ids[n]
  BY DEF UniqueStopIDs, Naming
<1> HIDE DEF n
<1>4. Naming(ids, stops, n)
  BY <1>1, NamingExists
<1> HIDE DEF ids
<1>5. /\ ids[0] = <<>>
      /\ \A i \in 1 .. n : ids[i] = Append(ids[i - 1], StopName(stops, i, ToSet(ids[i - 1])))
  <2>1. \A i \in 0 .. n : ids[i] = IF i = 0 THEN <<>>
                                   ELSE Append(ids[i - 1], StopName(stops, i, ToSet(ids[i - 1])))
    BY <1>4 DEF Naming
  <2>2. 0 \in 0 .. n /\ \A i \in 1 .. n : i \in 0 .. n /\ i # 0
    BY <1>1
  <2> QED
    BY <2>1, <2>2
<1>6. ASSUME NEW i \in 1 .. n, Names(ids, stops, i - 1) PROVE Names(ids, stops, i)
  <2> DEFINE old == ids[i - 1]
             new == StopName(stops, i, ToSet(old))
             own(j) == stops[j].id
             longer(j) == Append(stops[j].id, stops[j].nro)
  <2>0. i - 1 \in Nat /\ i \in Nat
    BY <1>1
  <2>1. /\ old \in Seq(Seq(Nat)) /\ Len(old) = i - 1
        /\ \A j \in 1 .. i - 1 : old[j] \in {own(j), longer(j)}
        /\ \A j, k \in 1 .. i - 1 : old[j] = old[k] => j = k
    BY <1>6 DEF Names
  <2>2. \A j \in 1 .. n : own(j) \in Seq(Nat) /\ Len(own(j)) = 1
                         /\ longer(j) \in Seq(Nat) /\ Len(longer(j)) = 2 /\ longer(j)[2] = stops[j].nro
    <3> TAKE j \in 1 .. n
    <3> DEFINE a == stops[j].id
               b == stops[j].nro
    <3>1. a \in Seq(Nat) /\ b \in Nat /\ Len(a) = 1
      BY <1>2
    <3> HIDE DEF a, b
    <3>2. a \in Seq(Nat) /\ b \in Nat
      BY <3>1
    <3>3. Append(a, b) \in Seq(Nat) /\ Len(Append(a, b)) = Len(a) + 1 /\ Append(a, b)[Len(a) + 1] = b
      BY ONLY <3>2, AppendProperties
    <3>4. Len(a) + 1 = 2
      BY <3>1
    <3> QED
      BY <3>1, <3>3, <3>4 DEF a, b
  <2>3. new = IF own(i) \in ToSet(old) THEN longer(i) ELSE own(i)
    BY DEF StopName
  <2>4. ids[i] = Append(old, new)
    BY <1>5
  <2>5. ToSet(old) = {old[j] : j \in 1 .. i - 1}
    <3> HIDE DEF old
    <3> QED
      BY <2>1, ElementsOf
  <2> HIDE DEF old, new, own, longer
  <2>6. new \in {own(i), longer(i)} /\ new \in Seq(Nat)
    BY <2>2, <2>3
  <2>7. ASSUME NEW j \in 1 .. i - 1 PROVE old[j] # new
    <3>1. j \in 1 .. n /\ j # i
      BY <1>1, <2>0
    <3>2. old[j] \in ToSet(old)
      BY <2>5
    <3>3. CASE own(i) \notin ToSet(old)
      BY <2>3, <3>2, <3>3
    <3>4. CASE own(i) \in ToSet(old)
      <4>1. new = longer(i)
        BY <2>3, <3>4
      <4>2. own(j) # longer(i)
        <5>1. Len(own(j)) = 1 /\ Len(longer(i)) = 2
          BY <2>2, <3>1
        <5> QED
          BY <5>1
      <4>3. longer(j) # longer(i)
        <5>1. longer(j)[2] = stops[j].nro /\ longer(i)[2] = stops[i].nro
          BY <2>2, <3>1
        <5>2. stops[j].nro # stops[i].nro
          BY <1>1, <3>1
        <5> QED
          BY <5>1, <5>2
      <4> QED
        BY <2>1, <4>1, <4>2, <4>3
    <3> QED
      BY <3>3, <3>4
  <2> DEFINE all == Append(old, new)
  <2>8. /\ all \in Seq(Seq(Nat)) /\ Len(all) = i
        /\ \A j \in 1 .. i - 1 : all[j] = old[j]
        /\ all[i] = new
    <3>1. /\ all \in Seq(Seq(Nat)) /\ Len(all) = Len(old) + 1
          /\ \A j \in 1 .. Len(old) : all[j] = old[j]
          /\ all[Len(old) + 1] = new
      BY <2>1, <2>6, AppendProperties
    <3>2. Len(old) + 1 = i
      BY <2>0, <2>1
    <3> QED
      BY <2>1, <3>1, <3>2
  <2> HIDE DEF all
  <2>9. \A j \in 1 .. i : all[j] \in {own(j), longer(j)}
    <3> TAKE j \in 1 .. i
    <3>1. j \in 1 .. i - 1 \/ j = i
      BY <2>0
    <3> QED
      BY <2>1, <2>6, <2>8, <3>1
  <2>10. \A j, k \in 1 .. i : all[j] = all[k] => j = k
    <3> SUFFICES ASSUME NEW j \in 1 .. i, NEW k \in 1 .. i, all[j] = all[k] PROVE j = k
      OBVIOUS
    <3>1. (j \in 1 .. i - 1 \/ j = i) /\ (k \in 1 .. i - 1 \/ k = i)
      BY <2>0
    <3> QED
      BY <2>1, <2>7, <2>8, <3>1
  <2> QED
    BY <2>4, <2>8, <2>9, <2>10 DEF Names, all, own, longer
<1>7. \A i \in 0 .. n : Names(ids, stops, i)
  <2> DEFINE T == {i \in 0 .. n : ~ Names(ids, stops, i)}
  <2> SUFFICES ASSUME T # {} PROVE FALSE
    OBVIOUS
  <2>1. PICK i \in T : \A j \in T : i <= j
    <3>1. T \subseteq Nat
      BY <1>1
    <3> HIDE DEF T
    <3> QED
      BY <3>1, LeastNatural
  <2>2. i \in 0 .. n /\ ~ Names(ids, stops, i)
    OBVIOUS
  <2>3. Names(ids, stops, 0)
    <3>1. ids[0] \in Seq(Seq(Nat)) /\ Len(ids[0]) = 0 /\ 1 .. 0 = {}
      BY <1>5
    <3> QED
      BY <3>1 DEF Names
  <2>4. i \in 1 .. n /\ i - 1 \in 0 .. n /\ ~ (i <= i - 1)
    BY <1>1, <2>2, <2>3
  <2>5. Names(ids, stops, i - 1)
    BY <2>1, <2>4
  <2> QED
    BY <1>6, <2>2, <2>4, <2>5
<1>8. Names(ids, stops, n)
  BY <1>1, <1>7
<1> QED
  BY <1>1, <1>3, <1>8 DEF Names

-----------------------------------------------------------------------------
(* What Get answers of a stored line.                                       *)
Segments(stops) == 1 .. (Len(stops) - 1)

NotStored(stops) ==
  \E i \in Segments(stops) :
    stops[i].path = NoPath \/ GapError(stops[i].path, stops[i].at, stops[i + 1].at)

LEMMA GetIs ==
  ASSUME NEW rows, rows # <<>>
  PROVE  LET stops == StoredStops(rows) IN
         Get(rows) = IF Len(stops) < 2 \/ NotStored(stops) \/ ~ ValidRoute(Exported(stops)) THEN NotSimulable
                     ELSE [status |-> "ok", route |-> Exported(stops)]
<1> DEFINE stops == StoredStops(rows)
           bad == Len(stops) < 2 \/ NotStored(stops)
           last == IF ValidRoute(Exported(stops)) THEN [status |-> "ok", route |-> Exported(stops)] ELSE NotSimulable
<1>1. Get(rows) = CASE rows = <<>> -> NotFound
                    [] (rows # <<>> /\ Len(stops) < 2) \/ NotStored(stops) -> NotSimulable
                    [] OTHER -> last
  BY DEF Get, NotStored, Segments
<1> HIDE DEF last, stops
<1>2. Get(rows) = IF bad THEN NotSimulable ELSE last
  BY <1>1
<1> QED
  BY <1>2 DEF last, stops

LEMMA ExportedFacts ==
  ASSUME NEW stops \in Seq(Stored)
  PROVE  LET route == Exported(stops) IN
         /\ Len(stops) \in Nat /\ DOMAIN stops = 1 .. Len(stops)
         /\ Len(route) = Len(stops) /\ DOMAIN route = 1 .. Len(stops)
         /\ \A i \in 1 .. Len(stops) : route[i].id = UniqueStopIDs(stops)[i] /\ route[i].at = stops[i].at
         /\ \A i \in Segments(stops) :
              /\ i \in 1 .. Len(stops) /\ i + 1 \in 1 .. Len(stops)
              /\ stops[i].path \in Seq(Places) /\ stops[i].at \in Places /\ stops[i + 1].at \in Places
              /\ route[i].path = Aligned(stops[i].path, stops[i].at, stops[i + 1].at)
<1> DEFINE n == Len(stops)
           route == Exported(stops)
           al(i) == Aligned(stops[i].path, stops[i].at, stops[i + 1].at)
<1>1. n \in Nat /\ DOMAIN stops = 1 .. n /\ \A i \in 1 .. n : stops[i] \in Stored
  BY ElementsOf
<1> HIDE DEF n
<1>2. route = [i \in 1 .. n |-> [id |-> UniqueStopIDs(stops)[i], at |-> stops[i].at,
                                 path |-> IF i = n THEN NoPath ELSE al(i)]]
  BY <1>1 DEF Exported, n
<1> HIDE DEF al, route
<1>3. Len(route) = n /\ DOMAIN route = 1 .. n
  BY <1>1, <1>2
<1>4. \A i \in 1 .. n : route[i].id = UniqueStopIDs(stops)[i] /\ route[i].at = stops[i].at
  BY <1>2
<1>5. ASSUME NEW i \in 1 .. (n - 1)
      PROVE  /\ i \in 1 .. n /\ i + 1 \in 1 .. n
             /\ stops[i].path \in Seq(Places) /\ stops[i].at \in Places /\ stops[i + 1].at \in Places
             /\ route[i].path = al(i)
  <2>1. i \in 1 .. n /\ i + 1 \in 1 .. n /\ i # n
    BY <1>1
  <2>2. stops[i] \in Stored /\ stops[i + 1] \in Stored
    BY <1>1, <2>1
  <2>3. stops[i].path \in Seq(Places) /\ stops[i].at \in Places /\ stops[i + 1].at \in Places
    BY <2>2 DEF Stored
  <2>4. route[i].path = al(i)
    BY <1>2, <2>1
  <2> QED
    BY <2>1, <2>3, <2>4
<1> QED
  BY <1>1, <1>3, <1>4, <1>5 DEF Segments, al, route, n

(* A segment that runs forward and ends near its stops.                     *)
SoundPath(path, o, d) ==
  /\ Len(path) >= 2
  /\ Backward(path, o, d) >= Forward(path, o, d)
  /\ Meters(Head(path), o) <= AlignmentTolerance
  /\ Meters(Last(path), d) <= AlignmentTolerance

LEMMA PathFacts ==
  ASSUME NEW path \in Seq(Places), NEW o \in Places, NEW d \in Places
  PROVE  /\ Len(path) \in Nat /\ (path = <<>> <=> Len(path) = 0)
         /\ Len(path) >= 2 =>
              /\ Head(path) = path[1] /\ Last(path) = path[Len(path)]
              /\ Head(path) \in Places /\ Last(path) \in Places
              /\ Forward(path, o, d) \in Nat /\ Backward(path, o, d) \in Nat
              /\ Reversed(path, o, d) <=> ~ (Backward(path, o, d) >= Forward(path, o, d))
              /\ SoundPath(path, o, d) <=> ~ Reversed(path, o, d) /\ ~ TooFar(path, o, d)
<1>1. Len(path) \in Nat /\ (path = <<>> <=> Len(path) = 0) /\ \A i \in 1 .. Len(path) : path[i] \in Places
  BY ElementsOf, EmptySeq
<1> SUFFICES ASSUME Len(path) >= 2
             PROVE  /\ Head(path) = path[1] /\ Last(path) = path[Len(path)]
                    /\ Head(path) \in Places /\ Last(path) \in Places
                    /\ Forward(path, o, d) \in Nat /\ Backward(path, o, d) \in Nat
                    /\ Reversed(path, o, d) <=> ~ (Backward(path, o, d) >= Forward(path, o, d))
                    /\ SoundPath(path, o, d) <=> ~ Reversed(path, o, d) /\ ~ TooFar(path, o, d)
  BY <1>1
<1>2. Head(path) = path[1] /\ Last(path) = path[Len(path)]
  BY DEF Last
<1>3. Head(path) \in Places /\ Last(path) \in Places
  BY <1>1, <1>2
<1> DEFINE a == Meters(Head(path), o)
           b == Meters(Last(path), d)
           f == Forward(path, o, d)
           g == Backward(path, o, d)
<1>4. a \in Nat /\ b \in Nat /\ Meters(Head(path), d) \in Nat /\ Meters(Last(path), o) \in Nat
  BY <1>3, LinesAssumption
<1>5. f \in Nat /\ g \in Nat
  BY <1>4 DEF Forward, Backward
<1>6. Reversed(path, o, d) <=> g < f
  BY DEF Reversed
<1>7. AlignmentTolerance \in Nat
  BY LinesAssumption
<1>8. TooFar(path, o, d) <=> a > AlignmentTolerance \/ b > AlignmentTolerance
  BY DEF TooFar
<1>9. SoundPath(path, o, d) <=> g >= f /\ a <= AlignmentTolerance /\ b <= AlignmentTolerance
  BY DEF SoundPath
<1> HIDE DEF a, b, f, g
<1>10. /\ Reversed(path, o, d) <=> ~ (g >= f)
       /\ SoundPath(path, o, d) <=> ~ Reversed(path, o, d) /\ ~ TooFar(path, o, d)
  BY <1>4, <1>5, <1>6, <1>7, <1>8, <1>9
<1> QED
  BY <1>2, <1>3, <1>5, <1>10 DEF f, g

(* A segment that could not be exported, and why.                           *)
LEMMA SoundIsExported ==
  ASSUME NEW path \in Seq(Places), NEW o \in Places, NEW d \in Places, SoundPath(path, o, d)
  PROVE  LET q == Aligned(path, o, d) IN
         /\ path # NoPath /\ ~ GapError(path, o, d)
         /\ Len(q) = Len(path) /\ Head(q) = o /\ Last(q) = d
         /\ \A k \in 2 .. (Len(path) - 1) : q[k] = path[k]
         /\ o # d => ValidPath(q, o, d)
<1> DEFINE q == Aligned(path, o, d)
<1>1. Len(path) >= 2 /\ Len(path) \in Nat
  BY PathFacts DEF SoundPath
<1>2. ~ Reversed(path, o, d) /\ ~ TooFar(path, o, d) /\ path # NoPath
  <2>1. ~ Reversed(path, o, d) /\ ~ TooFar(path, o, d)
    BY <1>1, PathFacts
  <2>2. path # <<>>
    BY <1>1, PathFacts
  <2> QED
    BY <2>1, <2>2 DEF NoPath
<1>3. ~ GapError(path, o, d)
  BY <1>2 DEF GapError
<1>4. /\ q \in Seq(Places) /\ Len(q) = Len(path)
      /\ q[1] = o /\ Head(q) = o /\ q[Len(q)] = d /\ Last(q) = d
      /\ \A k \in 2 .. (Len(path) - 1) : q[k] = path[k]
  <2>1. ~ (Len(path) < 2)
    BY <1>1
  <2> QED
    BY <1>2, <2>1, AlignedFacts
<1> HIDE DEF q
<1>5. ASSUME o # d PROVE ValidPath(q, o, d)
  <2>1. Length(q) > 0
    BY <1>1, <1>4, <1>5, LengthIsPositive
  <2>2. /\ Meters(o, o) = 0 /\ Meters(d, d) = 0 /\ Meters(o, d) \in Nat /\ Meters(d, o) \in Nat
        /\ EndpointTolerance \in Nat
    BY LinesAssumption
  <2>3. Meters(Head(q), o) = Meters(o, o) /\ Meters(Last(q), d) = Meters(d, d)
    BY <1>4
  <2>4. Backward(q, o, d) = Meters(o, d) + Meters(d, o)
    BY <1>4 DEF Backward
  <2>5. Forward(q, o, d) = Meters(o, o) + Meters(d, d)
    BY <1>4 DEF Forward
  <2>6. ~ (Backward(q, o, d) < Forward(q, o, d))
    BY <2>2, <2>4, <2>5
  <2>7. Meters(Head(q), o) <= EndpointTolerance /\ Meters(Last(q), d) <= EndpointTolerance
    BY <2>2, <2>3
  <2> QED
    BY <1>1, <1>4, <2>1, <2>6, <2>7 DEF ValidPath
<1> QED
  BY <1>2, <1>3, <1>4, <1>5 DEF q

LEMMA ExportedIsSound ==
  ASSUME NEW path \in Seq(Places), NEW o \in Places, NEW d \in Places,
         ~ GapError(path, o, d), ValidPath(Aligned(path, o, d), o, d)
  PROVE  \/ SoundPath(path, o, d)
         \/ /\ Backward(path, o, d) < Forward(path, o, d)
            /\ Aligned(path, o, d) = path
            /\ Meters(Head(path), o) <= EndpointTolerance
            /\ Meters(Last(path), d) <= EndpointTolerance
<1> DEFINE q == Aligned(path, o, d)
<1>1. Len(q) >= 2 /\ Meters(Head(q), o) <= EndpointTolerance /\ Meters(Last(q), d) <= EndpointTolerance
  BY DEF ValidPath
<1>2. Len(q) = Len(path)
  BY AlignedFacts
<1>3. CASE Reversed(path, o, d)
  <2>1. q = path
    BY <1>3, AlignedFacts
  <2>2. Backward(path, o, d) < Forward(path, o, d)
    BY <1>3 DEF Reversed
  <2> QED
    BY <1>1, <2>1, <2>2
<1>4. CASE ~ Reversed(path, o, d)
  <2>1. Len(path) >= 2
    BY <1>1, <1>2
  <2>2. ~ TooFar(path, o, d)
    BY <1>4, <2>1 DEF GapError
  <2>3. SoundPath(path, o, d)
    BY <1>4, <2>1, <2>2, PathFacts
  <2> QED
    BY <2>3
<1> QED
  BY <1>3, <1>4

(* ExportsAreFaithful, for any stored lines.                                *)
THEOREM ExportsStayFaithful == CatalogueSpec => []ExportsAreFaithful
<1>1. ReplyInv => ExportsAreFaithful
  <2> SUFFICES ASSUME ReplyInv, reply.to = "line", reply.rows # <<>> PROVE ExportsAreFaithful
    BY DEF ExportsAreFaithful
  <2> DEFINE stops == StoredStops(reply.rows)
             n == Len(stops)
             exported == reply.got.route
             whole == Exported(stops)
             path(i) == stops[i].path
             stop(i) == stops[i].at
             sound(i) == SoundPath(path(i), stop(i), stop(i + 1))
             kept(i) ==
               \/ /\ sound(i)
                  /\ Len(exported[i].path) = Len(path(i))
                  /\ Head(exported[i].path) = exported[i].at
                  /\ Last(exported[i].path) = exported[i + 1].at
                  /\ \A k \in 2 .. (Len(path(i)) - 1) : exported[i].path[k] = path(i)[k]
               \/ /\ Backward(path(i), stop(i), stop(i + 1)) < Forward(path(i), stop(i), stop(i + 1))
                  /\ exported[i].path = path(i)
                  /\ Meters(Head(path(i)), stop(i)) <= EndpointTolerance
                  /\ Meters(Last(path(i)), stop(i + 1)) <= EndpointTolerance
  <2>1. reply.rows \in StoredLines /\ reply.got = Get(reply.rows)
    BY DEF ReplyInv
  <2>2. stops \in Seq(Stored) /\ \A i, j \in DOMAIN stops : stops[i].nro = stops[j].nro => i = j
    BY <2>1, StopsFacts
  <2>3. reply.got = IF n < 2 \/ NotStored(stops) \/ ~ ValidRoute(whole) THEN NotSimulable
                    ELSE [status |-> "ok", route |-> whole]
    BY <2>1, GetIs
  <2> HIDE DEF stops
  <2>4. /\ n \in Nat /\ DOMAIN stops = 1 .. n /\ Len(whole) = n /\ DOMAIN whole = 1 .. n
        /\ \A i \in 1 .. n : whole[i].id = UniqueStopIDs(stops)[i] /\ whole[i].at = stops[i].at
        /\ \A i \in Segments(stops) :
             /\ i \in 1 .. n /\ i + 1 \in 1 .. n
             /\ path(i) \in Seq(Places) /\ stop(i) \in Places /\ stop(i + 1) \in Places
             /\ whole[i].path = Aligned(path(i), stop(i), stop(i + 1))
    BY <2>2, ExportedFacts
  <2> HIDE DEF whole
  <2>5. ASSUME reply.got.status = "ok"
        PROVE  /\ Len(exported) = n
               /\ \A i, j \in DOMAIN exported : exported[i].id = exported[j].id => i = j
               /\ \A i \in Segments(stops) : kept(i)
    <3>1. ~ NotStored(stops) /\ ValidRoute(whole) /\ exported = whole
      <4>1. NotSimulable.status # "ok"
        BY DEF NotSimulable
      <4>2. reply.got # NotSimulable
        BY <2>5, <4>1
      <4>3. reply.got = [status |-> "ok", route |-> whole] /\ ~ NotStored(stops) /\ ValidRoute(whole)
        BY <2>3, <4>2
      <4>4. [status |-> "ok", route |-> whole].route = whole
        OBVIOUS
      <4> QED
        BY <4>3, <4>4
    <3>2. \A i, j \in DOMAIN whole : whole[i].id = whole[j].id => i = j
      BY <3>1 DEF ValidRoute
    <3>3. ASSUME NEW i \in Segments(stops) PROVE kept(i)
      <4>1. ~ GapError(path(i), stop(i), stop(i + 1))
        BY <3>1 DEF NotStored
      <4>2. ValidPath(whole[i].path, whole[i].at, whole[i + 1].at)
        <5>1. i \in 1 .. (Len(whole) - 1)
          BY <2>4 DEF Segments
        <5> QED
          BY <3>1, <5>1 DEF ValidRoute
      <4>3. whole[i].at = stop(i) /\ whole[i + 1].at = stop(i + 1) /\ whole[i].path = Aligned(path(i), stop(i), stop(i + 1))
        BY <2>4
      <4>4. path(i) \in Seq(Places) /\ stop(i) \in Places /\ stop(i + 1) \in Places
        BY <2>4
      <4> DEFINE p == path(i)
                 o == stop(i)
                 d == stop(i + 1)
      <4>5. exported[i].path = Aligned(p, o, d) /\ exported[i].at = o /\ exported[i + 1].at = d
        BY <3>1, <4>3
      <4>6. ValidPath(Aligned(p, o, d), o, d)
        BY <4>2, <4>3
      <4>7. p \in Seq(Places) /\ o \in Places /\ d \in Places /\ ~ GapError(p, o, d)
        BY <4>1, <4>4
      <4> HIDE DEF p, o, d
      <4>8. \/ SoundPath(p, o, d)
            \/ /\ Backward(p, o, d) < Forward(p, o, d)
               /\ Aligned(p, o, d) = p
               /\ Meters(Head(p), o) <= EndpointTolerance
               /\ Meters(Last(p), d) <= EndpointTolerance
        BY ONLY <4>6, <4>7, ExportedIsSound
      <4>9. SoundPath(p, o, d) =>
              /\ Len(Aligned(p, o, d)) = Len(p) /\ Head(Aligned(p, o, d)) = o /\ Last(Aligned(p, o, d)) = d
              /\ \A k \in 2 .. (Len(p) - 1) : Aligned(p, o, d)[k] = p[k]
        BY ONLY <4>7, SoundIsExported
      <4> QED
        BY <4>5, <4>8, <4>9 DEF p, o, d
    <3> QED
      BY <2>4, <3>1, <3>2, <3>3
  <2>6. ASSUME n >= 2, \A i \in Segments(stops) : sound(i), \A i \in Segments(stops) : stop(i) # stop(i + 1),
               \A i \in DOMAIN stops : Len(stops[i].id) = 1
        PROVE  reply.got.status = "ok"
    <3>1. ASSUME NEW i \in Segments(stops)
          PROVE  /\ path(i) # NoPath /\ ~ GapError(path(i), stop(i), stop(i + 1))
                 /\ ValidPath(whole[i].path, whole[i].at, whole[i + 1].at)
      <4> DEFINE p == path(i)
                 o == stop(i)
                 d == stop(i + 1)
      <4>1. p \in Seq(Places) /\ o \in Places /\ d \in Places /\ SoundPath(p, o, d) /\ o # d
        BY <2>4, <2>6
      <4>2. whole[i].at = o /\ whole[i + 1].at = d /\ whole[i].path = Aligned(p, o, d)
        BY <2>4
      <4> HIDE DEF p, o, d
      <4>3. p # NoPath /\ ~ GapError(p, o, d) /\ ValidPath(Aligned(p, o, d), o, d)
        BY ONLY <4>1, SoundIsExported
      <4> QED
        BY <4>2, <4>3 DEF p, o, d
    <3>2. ~ NotStored(stops)
      BY <3>1 DEF NotStored
    <3>3. \A i, j \in DOMAIN stops : UniqueStopIDs(stops)[i] = UniqueStopIDs(stops)[j] => i = j
      BY <2>2, <2>6, NamesAreUnique
    <3>4. ValidRoute(whole)
      <4>1. \A i, j \in DOMAIN whole : i # j => whole[i].id # whole[j].id
        BY <2>4, <3>3
      <4>2. \A i \in 1 .. (Len(whole) - 1) : ValidPath(whole[i].path, whole[i].at, whole[i + 1].at)
        BY <2>4, <3>1 DEF Segments
      <4> QED
        BY <2>4, <2>6, <4>1, <4>2 DEF ValidRoute
    <3>5. reply.got = [status |-> "ok", route |-> whole]
      <4>1. ~ (n < 2)
        BY <2>4, <2>6
      <4> QED
        BY <2>3, <3>2, <3>4, <4>1
    <3> QED
      BY <3>5
  <2> QED
    BY <2>5, <2>6 DEF ExportsAreFaithful, Segments, SoundPath, stops
<1> QED
  BY <1>1, RepliesAreWorked, PTL

-----------------------------------------------------------------------------
(* The process and its rate gate.                                           *)
USE GateAssumption, ServerAssumption

-----------------------------------------------------------------------------
(* Types.                                                                   *)
Times == [connected : Nat, headers : Nat, running : Nat]

LEMMA AnswersAreAnswers ==
  ASSUME TypeOK, NEW r \in Requests, NEW e, NEW left \in BOOLEAN
  PROVE  AnswerTo(r, e, left) \in Answers
<1>1. kind[r] \in {"lines", "transfers", "simulation", "detour"}
  BY DEF TypeOK, Kinds, Bodiless
<1>2. \A other \in Answers : Unless(left, e, other) \in Answers
  BY DEF Unless, Answers
<1> QED
  BY <1>1, <1>2 DEF AnswerTo, writeLineError, writeTransferError, writeEstimationError,
                    writeDetourError, Answers

LEMMA DeliverKeepsTypes ==
  ASSUME TypeOK, NEW r \in Requests, NEW a \in Answers, Deliver(r, a)
  PROVE  /\ answer' \in [Requests -> Answers]
         /\ phase' \in [Requests -> {"idle"} \cup Active \cup Ended]
         /\ kind' \in [Requests -> Kinds]
         /\ at' \in [Requests -> Times]
<1> DEFINE end == IF a = "none" THEN "gone" ELSE IF Deliverable(r) THEN "done" ELSE "lost"
<1>1. answer' = [answer EXCEPT ![r] = a] /\ phase' = [phase EXCEPT ![r] = end]
  BY DEF Deliver
<1>2. \/ UNCHANGED <<at, kind>>
      \/ at' = [at EXCEPT ![r] = NoTimes] /\ kind' = [kind EXCEPT ![r] = "lines"]
  BY DEF Deliver, Forget
<1>3. end \in Ended
  BY DEF Ended
<1>4. NoTimes \in Times /\ "lines" \in Kinds
  BY DEF NoTimes, Times, Kinds, Bodiless
<1> HIDE DEF end
<1> QED
  BY <1>1, <1>2, <1>3, <1>4 DEF TypeOK, Times

LEMMA ReturnKeepsTypes ==
  ASSUME TypeOK, NEW r \in Requests, NEW a \in Answers, Return(r, a)
  PROVE  TypeOK'
<1>1. gate' \in [Callers -> {"idle", "waiting", "passed", "cancelled"}]
  BY DEF TypeOK, GateTypeOK, Return, AfterCancel
<1> QED
  BY <1>1, DeliverKeepsTypes DEF Return, TypeOK, GateTypeOK, Times

(* What the handlers write when they return.                                *)
LEMMA HandlersReturn ==
  ASSUME TypeOK, NEW r \in Requests, Compute(r) \/ TimeOut(r) \/ Leave(r)
  PROVE  /\ phase[r] = "running"
         /\ \E a \in Answers : Return(r, a)
<1>1. CASE Succeed(r)
  BY <1>1 DEF Succeed, Answers
<1>2. CASE FailAlone(r)
  BY <1>2, AnswersAreAnswers DEF FailAlone
<1>3. CASE FailDownloads(r)
  BY <1>3, AnswersAreAnswers DEF FailDownloads
<1>4. CASE TimeOut(r)
  BY <1>4, AnswersAreAnswers DEF TimeOut
<1>5. CASE Leave(r)
  BY <1>5, AnswersAreAnswers DEF Leave
<1> QED
  BY <1>1, <1>2, <1>3, <1>4, <1>5 DEF Compute

LEMMA TypeInitially == ServerInit => TypeOK
  BY DEF ServerInit, GateInit, TypeOK, GateTypeOK, NoTimes, Kinds, Bodiless, Answers

LEMMA TypeKept == TypeOK /\ [Next]_vars => TypeOK'
<1> SUFFICES ASSUME TypeOK, [Next]_vars PROVE TypeOK'
  OBVIOUS
<1> USE DEF TypeOK, GateTypeOK, gateVars
<1>1. ASSUME NEW r \in Requests, Connect(r) PROVE TypeOK'
  BY <1>1 DEF Connect, Active
<1>2. ASSUME NEW r \in Requests, HeadersArrive(r) PROVE TypeOK'
  <2>1. PICK k \in Kinds :
          /\ kind' = [kind EXCEPT ![r] = k]
          /\ phase' = [phase EXCEPT ![r] = IF k \in Bodiless THEN "running" ELSE "reading"]
          /\ at' = [at EXCEPT ![r].headers = now, ![r].running = IF k \in Bodiless THEN now ELSE @]
    BY <1>2 DEF HeadersArrive
  <2>2. kind' \in [Requests -> Kinds] /\ phase' \in [Requests -> {"idle"} \cup Active \cup Ended]
    BY <2>1 DEF Active
  <2>3. at' \in [Requests -> Times]
    BY <2>1, ZenonT(40) DEF Times
  <2> QED
    BY <1>2, <2>2, <2>3 DEF HeadersArrive, Times
<1>3. ASSUME NEW r \in Requests, HeadersFail(r) PROVE TypeOK'
  BY <1>3 DEF HeadersFail, Forget, NoTimes, Kinds, Bodiless, Ended
<1>4. ASSUME NEW r \in Requests, BodyArrives(r) PROVE TypeOK'
  BY <1>4 DEF BodyArrives, Active
<1>5. ASSUME NEW r \in Requests, BodyFails(r) PROVE TypeOK'
  <2>1. PICK a \in Answers : Deliver(r, a)
    BY <1>5 DEF BodyFails, Answers
  <2> QED
    BY <1>5, <2>1, DeliverKeepsTypes DEF BodyFails, Times
<1>6. ASSUME NEW r \in Requests, Compute(r) \/ TimeOut(r) \/ Leave(r) PROVE TypeOK'
  BY <1>6, HandlersReturn, ReturnKeepsTypes
<1>7. ASSUME NEW c \in Callers, Download(c) PROVE TypeOK'
  <2>1. UNCHANGED <<now, process, stoppedAt, requestVars>> /\ (Enter(c) \/ Pass(c))
    BY <1>7 DEF Download
  <2>2. CASE Enter(c)
    <3>1. FirstFree \in Nat /\ NextFree(FirstFree) \in Nat
      BY DEF FirstFree, NextFree
    <3>2. next' \in Nat /\ slot' \in [Callers -> Nat]
      BY <2>2, <3>1 DEF Enter
    <3>3. gate' \in [Callers -> {"idle", "waiting", "passed", "cancelled"}]
      BY <2>2 DEF Enter
    <3> QED
      BY <2>1, <3>2, <3>3 DEF requestVars
  <2>3. CASE Pass(c)
    BY <2>1, <2>3 DEF Pass, requestVars
  <2> QED
    BY <2>1, <2>2, <2>3
<1>8. CASE Signal
  BY <1>8 DEF Signal, requestVars
<1>9. CASE Drain
  BY <1>9 DEF Drain, requestVars
<1>10. CASE Kill
  BY <1>10 DEF Kill, Exit, AfterCancel, Ended
<1>11. CASE ListenFails
  BY <1>11 DEF ListenFails, Exit, AfterCancel, Ended
<1>12. CASE Tick
  BY <1>12 DEF Tick, requestVars
<1>13. CASE UNCHANGED vars
  BY <1>13 DEF vars, requestVars
<1> QED
  BY <1>1, <1>2, <1>3, <1>4, <1>5, <1>6, <1>7, <1>8, <1>9, <1>10, <1>11, <1>12, <1>13
     DEF Next, Receive, Terminated

(* Every reachable state of the process is well typed.                      *)
THEOREM TypeCorrect == Spec => []TypeOK
  BY TypeInitially, TypeKept, PTL DEF Spec

-----------------------------------------------------------------------------
(* The gate.  next is one interval after the last slot handed out, so a     *)
(* new slot is after all of them, and it is the next one or it is now.      *)
GateInv ==
  /\ DownloadsAreSpaced
  /\ \A c \in Booked : slot[c] + Interval <= next
  /\ next = 0 \/ \E c \in Booked : next = slot[c] + Interval

(* All that a step may do to the gate.                                      *)
GateStep ==
  \/ UNCHANGED gateVars
  \/ \E c \in Callers : Enter(c) \/ Pass(c)
  \/ \E C \in SUBSET Callers : gate' = AfterCancel(C) /\ UNCHANGED <<next, slot>>

LEMMA StepsOnTheGate == TypeOK /\ [Next]_vars => GateStep
<1> SUFFICES ASSUME TypeOK, [Next]_vars PROVE GateStep
  OBVIOUS
<1>1. ASSUME NEW r \in Requests, Compute(r) \/ TimeOut(r) \/ Leave(r) PROVE GateStep
  BY <1>1, HandlersReturn DEF Return, Own, GateStep
<1>2. ASSUME NEW c \in Callers, Download(c) PROVE GateStep
  BY <1>2 DEF Download, GateStep
<1>3. CASE Kill \/ ListenFails
  BY <1>3 DEF Kill, ListenFails, Exit, GateStep
<1>4. ASSUME NEW r \in Requests, Connect(r) \/ Receive(r) PROVE UNCHANGED gateVars
  BY <1>4 DEF Connect, Receive, HeadersArrive, HeadersFail, BodyArrives, BodyFails
<1>5. CASE Signal \/ Drain \/ Tick \/ UNCHANGED vars
  BY <1>5 DEF Signal, Drain, Tick, vars, GateStep
<1> QED
  BY <1>1, <1>2, <1>3, <1>4, <1>5 DEF Next, Terminated, GateStep

(* Only Enter books, and nothing gives a booking back.                      *)
LEMMA BookingsStay ==
  ASSUME TypeOK, GateStep
  PROVE  \/ Booked' = Booked /\ UNCHANGED <<next, slot>>
         \/ \E c \in Callers \ Booked :
              /\ Booked' = Booked \cup {c}
              /\ slot' = [slot EXCEPT ![c] = FirstFree]
              /\ next' = FirstFree + Interval
<1>1. ASSUME NEW c \in Callers, Enter(c)
      PROVE  /\ c \notin Booked
             /\ Booked' = Booked \cup {c}
             /\ slot' = [slot EXCEPT ![c] = FirstFree]
             /\ next' = FirstFree + Interval
  BY <1>1 DEF Enter, Booked, NextFree, TypeOK, GateTypeOK
<1>2. ASSUME NEW c \in Callers, Pass(c) PROVE Booked' = Booked
  BY <1>2 DEF Pass, Booked, TypeOK, GateTypeOK
<1>3. ASSUME NEW C \in SUBSET Callers, gate' = AfterCancel(C) PROVE Booked' = Booked
  BY <1>3 DEF AfterCancel, Booked, TypeOK, GateTypeOK
<1>4. CASE UNCHANGED gateVars
  BY <1>4 DEF gateVars, Booked
<1> QED
  BY <1>1, <1>2, <1>3, <1>4 DEF GateStep, Pass

LEMMA GateInitially == ServerInit => GateInv
  BY DEF ServerInit, GateInit, GateInv, DownloadsAreSpaced, Booked

LEMMA GateKept ==
  ASSUME TypeOK, GateInv, [Next]_vars
  PROVE  GateInv'
<1>1. CASE Booked' = Booked /\ UNCHANGED <<next, slot>>
  BY <1>1 DEF GateInv, DownloadsAreSpaced
<1>2. ASSUME NEW c \in Callers \ Booked,
             Booked' = Booked \cup {c},
             slot' = [slot EXCEPT ![c] = FirstFree],
             next' = FirstFree + Interval
      PROVE  GateInv'
  <2>1. /\ FirstFree \in Nat /\ FirstFree >= next /\ next \in Nat
        /\ slot'[c] = FirstFree
        /\ \A d \in Booked : slot'[d] = slot[d] /\ slot[d] \in Nat
    BY <1>2 DEF FirstFree, TypeOK, GateTypeOK, Booked
  <2>2. \A d \in Booked : slot[d] + Interval <= FirstFree
    BY <2>1 DEF GateInv
  <2>3. DownloadsAreSpaced'
    BY <1>2, <2>1, <2>2 DEF GateInv, DownloadsAreSpaced
  <2>4. \A d \in Booked' : slot'[d] + Interval <= next'
    BY <1>2, <2>1, <2>2
  <2> QED
    BY <1>2, <2>1, <2>3, <2>4 DEF GateInv
<1> QED
  BY <1>1, <1>2, StepsOnTheGate, BookingsStay

(* No two downloads of the process start less than an interval apart,       *)
(* however many requests call the gate and give up.                         *)
THEOREM DownloadsStaySpaced == Spec => []DownloadsAreSpaced
<1>1. ServerInit => GateInv
  BY GateInitially
<1>2. TypeOK /\ GateInv /\ [Next]_vars => GateInv'
  BY GateKept
<1>3. GateInv => DownloadsAreSpaced
  BY DEF GateInv
<1> QED
  BY <1>1, <1>2, <1>3, TypeCorrect, PTL DEF Spec

(* A caller of the gate starts at once or right after the slot booked       *)
(* before its own: the slots of callers that gave up delay it by one        *)
(* interval each and by no more.                                            *)
THEOREM GateKeepsPace == Spec => GateNeverIdles
<1> DEFINE Pace == \A c \in Callers :
                     gate[c] = "idle" /\ gate'[c] # "idle" =>
                       slot'[c] = now \/ \E d \in Booked : slot'[c] = slot[d] + Interval
<1>1. TypeOK /\ GateInv /\ [Next]_vars => [Pace]_gateVars
  <2> SUFFICES ASSUME TypeOK, GateInv, [Next]_vars, NEW c \in Callers,
                      gate[c] = "idle", gate'[c] # "idle"
               PROVE  slot'[c] = now \/ \E d \in Booked : slot'[c] = slot[d] + Interval
    OBVIOUS
  <2>1. c \notin Booked /\ c \in Booked'
    BY DEF Booked
  <2>2. slot'[c] = FirstFree
    BY <2>1, StepsOnTheGate, BookingsStay DEF TypeOK, GateTypeOK
  <2> QED
    BY <2>2 DEF FirstFree, GateInv, TypeOK, GateTypeOK
<1>2. ServerInit => GateInv
  BY GateInitially
<1>3. TypeOK /\ GateInv /\ [Next]_vars => GateInv'
  BY GateKept
<1> QED
  BY <1>1, <1>2, <1>3, TypeCorrect, PTL DEF Spec, GateNeverIdles

-----------------------------------------------------------------------------
(* The deadlines.  No connection outlives the one it is under, because the  *)
(* clock waits for what is due; so an answer is late only by what the body  *)
(* took, and a connection cut is one that came late.                        *)
Timely(r) ==
  /\ phase[r] = "connected" =>
       at[r].connected <= now /\ now <= at[r].connected + ReadHeaderTimeout
  /\ phase[r] = "reading" =>
       /\ at[r].connected <= at[r].headers /\ at[r].headers <= now
       /\ now <= at[r].connected + ReadTimeout
  /\ phase[r] = "running" =>
       /\ at[r].running <= at[r].connected + ReadTimeout
       /\ at[r].running <= now /\ now <= at[r].running + SimulationTimeout
  /\ phase[r] = "lost" => at[r].running - at[r].headers > WriteTimeout - SimulationTimeout
  /\ phase[r] = "cut" => ~ Up

TimeInv == (\A r \in Requests : Timely(r)) /\ ShutdownIsGraceful

LEMMA TimeInitially == ServerInit => TimeInv
  BY DEF ServerInit, TimeInv, Timely, ShutdownIsGraceful, Up

(* A step of one connection leaves the others as they are.                  *)
LEMMA OneConnection ==
  ASSUME TypeOK, TimeInv, Up, NEW r \in Requests,
         UNCHANGED <<now, process>>,
         \A q \in Requests \ {r} : phase'[q] = phase[q] /\ at'[q] = at[q],
         Timely(r)'
  PROVE  TimeInv'
<1>1. \A q \in Requests \ {r} : Timely(q)'
  BY DEF TimeInv, Timely, Up
<1>2. ShutdownIsGraceful'
  BY DEF ShutdownIsGraceful, Up
<1> QED
  BY <1>1, <1>2 DEF TimeInv

(* What a handler writes is lost only after WriteTimeout.                   *)
LEMMA DeliveredInTime ==
  ASSUME TypeOK, TimeInv, Up, NEW r \in Requests, phase[r] \in {"reading", "running"},
         NEW a \in Answers, Deliver(r, a), UNCHANGED <<now, process>>
  PROVE  TimeInv'
<1> DEFINE end == IF a = "none" THEN "gone" ELSE IF Deliverable(r) THEN "done" ELSE "lost"
<1>1. phase' = [phase EXCEPT ![r] = end]
  BY DEF Deliver
<1>2. \A q \in Requests \ {r} : at'[q] = at[q]
  BY DEF Deliver, Forget, TypeOK
<1>3. CASE end = "lost"
  <2>1. at' = at /\ ~ Deliverable(r)
    BY <1>3 DEF Deliver
  <2>2. /\ now \in Nat /\ at[r].headers \in Nat /\ at[r].running \in Nat
        /\ at[r].connected \in Nat
    BY DEF TypeOK, GateTypeOK
  <2>3. at[r].running - at[r].headers > WriteTimeout - SimulationTimeout
    <3>1. now > at[r].headers + WriteTimeout
      BY <2>1, <2>2 DEF Deliverable
    <3>2. phase[r] = "running"
      BY <3>1, <2>2 DEF TimeInv, Timely
    <3> QED
      BY <3>1, <3>2, <2>2 DEF TimeInv, Timely
  <2>4. phase'[r] = "lost"
    BY <1>1, <1>3 DEF TypeOK
  <2>5. Timely(r)'
    BY <2>1, <2>3, <2>4 DEF Timely
  <2> QED
    BY <1>1, <1>2, <2>5, OneConnection DEF TypeOK
<1>4. CASE end \in {"gone", "done"}
  <2>1. phase'[r] \in {"gone", "done"}
    BY <1>1, <1>4 DEF TypeOK
  <2>2. Timely(r)'
    BY <2>1 DEF Timely
  <2> QED
    BY <1>1, <1>2, <2>2, OneConnection DEF TypeOK
<1> QED
  BY <1>3, <1>4

LEMMA TimeKept ==
  ASSUME TypeOK, TimeInv, [Next]_vars
  PROVE  TimeInv'
<1> USE DEF TypeOK, GateTypeOK
<1>1. ASSUME NEW r \in Requests, Connect(r) PROVE TimeInv'
  <2>1. Timely(r)'
    BY <1>1 DEF Connect, Timely
  <2> QED
    BY <1>1, <2>1, OneConnection DEF Connect, Up
<1>2. ASSUME NEW r \in Requests, HeadersArrive(r) PROVE TimeInv'
  <2>1. PICK k \in Kinds :
          /\ phase' = [phase EXCEPT ![r] = IF k \in Bodiless THEN "running" ELSE "reading"]
          /\ at' = [at EXCEPT ![r].headers = now, ![r].running = IF k \in Bodiless THEN now ELSE @]
    BY <1>2 DEF HeadersArrive
  <2>2. /\ phase'[r] = IF k \in Bodiless THEN "running" ELSE "reading"
        /\ at'[r].headers = now /\ at'[r].connected = at[r].connected
        /\ k \in Bodiless => at'[r].running = now
    BY <2>1
  <2>3. now \in Nat /\ at[r].connected \in Nat /\ now' = now
    BY <1>2 DEF HeadersArrive
  <2>4. at[r].connected <= now /\ now <= at[r].connected + ReadTimeout
    BY <1>2, <2>3 DEF HeadersArrive, TimeInv, Timely
  <2>5. Timely(r)'
    BY <2>2, <2>3, <2>4 DEF Timely
  <2>6. \A q \in Requests \ {r} : phase'[q] = phase[q] /\ at'[q] = at[q]
    BY <2>1
  <2> QED
    BY <1>2, <2>5, <2>6, OneConnection DEF HeadersArrive
<1>3. ASSUME NEW r \in Requests, HeadersFail(r) PROVE TimeInv'
  <2>1. Timely(r)'
    BY <1>3 DEF HeadersFail, Timely
  <2> QED
    BY <1>3, <2>1, OneConnection DEF HeadersFail, Forget
<1>4. ASSUME NEW r \in Requests, BodyArrives(r) PROVE TimeInv'
  <2>1. Timely(r)'
    BY <1>4 DEF BodyArrives, TimeInv, Timely
  <2> QED
    BY <1>4, <2>1, OneConnection DEF BodyArrives
<1>5. ASSUME NEW r \in Requests, BodyFails(r) PROVE TimeInv'
  BY <1>5, DeliveredInTime DEF BodyFails, Answers
<1>6. ASSUME NEW r \in Requests, Compute(r) \/ TimeOut(r) \/ Leave(r) PROVE TimeInv'
  <2>1. Up
    BY <1>6 DEF Compute, Succeed, FailAlone, FailDownloads, TimeOut, Leave
  <2> QED
    BY <1>6, <2>1, HandlersReturn, DeliveredInTime DEF Return
<1>7. ASSUME NEW c \in Callers, Download(c) PROVE TimeInv'
  BY <1>7 DEF Download, requestVars, TimeInv, Timely, ShutdownIsGraceful, ActiveRequests, Up
<1>8. CASE Signal
  BY <1>8 DEF Signal, requestVars, TimeInv, Timely, ShutdownIsGraceful, Up
<1>9. CASE Drain
  BY <1>9 DEF Drain, Drained, ActiveRequests, requestVars, TimeInv, Timely, ShutdownIsGraceful, Up
<1>10. CASE Kill
  <2>1. \A r \in Requests : phase'[r] = IF phase[r] \in Active THEN "cut" ELSE phase[r]
    BY <1>10 DEF Kill, Exit
  <2>2. at' = at /\ process' = "killed" /\ ~ Up' /\ UNCHANGED <<now, stoppedAt>>
    BY <1>10 DEF Kill, Exit, Up
  <2>3. \A r \in Requests : Timely(r)'
    BY <2>1, <2>2 DEF TimeInv, Timely, Active
  <2>4. ASSUME NEW r \in Requests, phase[r] \in Active
        PROVE  at[r].connected + ReadTimeout + SimulationTimeout >= now
    BY <2>4 DEF TimeInv, Timely, Active
  <2>5. ASSUME NEW r \in Requests, phase'[r] = "cut" PROVE phase[r] \in Active
    BY <1>10, <2>1, <2>5 DEF TimeInv, Timely, Kill, Up
  <2>6. ShutdownIsGraceful'
    BY <1>10, <2>2, <2>4, <2>5 DEF ShutdownIsGraceful, Kill, GraceOver
  <2> QED
    BY <2>3, <2>6 DEF TimeInv
<1>11. CASE ListenFails
  <2>1. \A r \in Requests : Timely(r)'
    BY <1>11 DEF ListenFails, Exit, TimeInv, Timely, Active, Up
  <2> QED
    BY <1>11, <2>1 DEF ListenFails, Exit, TimeInv, ShutdownIsGraceful
<1>12. CASE Tick
  <2>1. /\ now' = now + 1 /\ Up /\ \A r \in Requests : ~ Due(r)
        /\ UNCHANGED <<process, phase, at>>
    BY <1>12 DEF Tick, requestVars
  <2>2. \A r \in Requests : Timely(r)'
    BY <2>1 DEF TimeInv, Timely, Due, BudgetOver, Up
  <2> QED
    BY <2>1, <2>2 DEF TimeInv, ShutdownIsGraceful, Up
<1>13. CASE UNCHANGED vars
  BY <1>13 DEF vars, requestVars, TimeInv, Timely, ShutdownIsGraceful, ActiveRequests, Up
<1> QED
  BY <1>1, <1>2, <1>3, <1>4, <1>5, <1>6, <1>7, <1>8, <1>9, <1>10, <1>11, <1>12, <1>13
     DEF Next, Receive, Terminated

LEMMA TimeAlways == Spec => []TimeInv
<1>1. ServerInit => TimeInv
  BY TimeInitially
<1>2. TypeOK /\ TimeInv /\ [Next]_vars => TimeInv'
  BY TimeKept
<1> QED
  BY <1>1, <1>2, TypeCorrect, PTL DEF Spec

(* An answer reaches its client unless the body took longer than what       *)
(* WriteTimeout leaves beside SimulationTimeout, whatever the handler did.  *)
THEOREM TimelyRequestsAreAnswered == Spec => []TimelyBodiesAreAnswered
<1>1. TimeInv => TimelyBodiesAreAnswered
  BY DEF TimeInv, Timely, TimelyBodiesAreAnswered
<1> QED
  BY <1>1, TimeAlways, PTL

(* The pool is closed only when no handler is left, and a kill cuts only    *)
(* connections whose own deadlines reach past the grace.                    *)
THEOREM StopsAreGraceful == Spec => []ShutdownIsGraceful
<1>1. TimeInv => ShutdownIsGraceful
  BY DEF TimeInv
<1> QED
  BY <1>1, TimeAlways, PTL
=============================================================================
