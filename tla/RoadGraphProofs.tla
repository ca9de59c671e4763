---------------------------- MODULE RoadGraphProofs ----------------------------
(***************************************************************************)
(* Theorems about RoadGraph, for any requests, streets, cuts and loads.    *)
(***************************************************************************)
EXTENDS RoadGraph, TLAPS

Reloading == {"waiting", "truncating", "loading"}

(* What is to be published is a network, and there is an id_carga for it.   *)
ReloadInv ==
  reload \in Reloading => raw \in Networks /\ carga < LastLoad

TypeInv == TypeOK /\ ReloadInv

LEMMA IdsAreNaturals ==
  ASSUME NEW network \in Networks
  PROVE  /\ network \in Seq(Streets)
         /\ Ids(network) \subseteq Nat
         /\ Translated(network) \subseteq Ids(network) \X Ids(network)
BY GraphAssumption DEF Ids, Translated

LEMMA TypeInit == Init => TypeInv
<1> SUFFICES ASSUME Init PROVE TypeInv
  OBVIOUS
<1>1. Translated(calles) \subseteq Ids(calles) \X Ids(calles)
  BY IdsAreNaturals DEF Init
<1> QED
  BY <1>1, GraphAssumption DEF Init, TypeInv, TypeOK, ReloadInv, Reloading

LEMMA TypeStep == TypeInv /\ [Next]_vars => TypeInv'
<1> SUFFICES ASSUME TypeInv, [Next]_vars PROVE TypeInv'
  OBVIOUS
<1> USE GraphAssumption DEF TypeInv, TypeOK, ReloadInv, Reloading, tables, reloading
<1>1. CASE StartReload
  BY <1>1 DEF StartReload
<1>2. CASE LockRestricciones
  BY <1>2 DEF LockRestricciones
<1>3. CASE LockCalles
  BY <1>3 DEF LockCalles
<1>4. CASE Publish
  BY <1>4 DEF Publish
<1>5. CASE SkipRestricciones
  BY <1>5 DEF SkipRestricciones
<1>6. CASE LockForRestricciones
  BY <1>6 DEF LockForRestricciones
<1>7. CASE PublishRestricciones
  BY <1>7, IdsAreNaturals DEF PublishRestricciones
<1>8. CASE ReloadFails
  BY <1>8 DEF ReloadFails
<1>9. ASSUME NEW r \in Requests, Analyze(r) PROVE TypeInv'
  <2> DEFINE blocked == {i \in Ids(calles) : calles[i] \in cut[r]}
  <2>1. blocked \in SUBSET Nat /\ carga \in 0 .. LastLoad
    BY IdsAreNaturals
  <2>2. analysis' = [analysis EXCEPT ![r] = [carga |-> carga, blocked |-> blocked]]
    BY <1>9 DEF Analyze
  <2> HIDE DEF blocked
  <2>3. analysis' \in [Requests -> [carga : 0 .. LastLoad, blocked : SUBSET Nat]]
    BY <2>1, <2>2
  <2>4. /\ pc' \in [Requests -> {"analyze", "snapshot", "graph", "restrictions", "search", "done"}]
        /\ answer' \in [Requests -> {"none", "variant", "cut_not_matched", "unmatched", "coverage",
                                     "no_detour", "context", "internal"}]
    BY <1>9 DEF Analyze, Answer
  <2> QED
    BY <1>9, <2>3, <2>4 DEF Analyze
<1>10. ASSUME NEW r \in Requests, Snapshot(r) PROVE TypeInv'
  BY <1>10 DEF Snapshot
<1>11. ASSUME NEW r \in Requests, CreateGraph(r) PROVE TypeInv'
  BY <1>11 DEF CreateGraph
<1>12. ASSUME NEW r \in Requests, ReadRestrictions(r) PROVE TypeInv'
  <2> DEFINE read == {p \in restricciones : {p[1], p[2]} \subseteq Ids(graph[r].calles)}
  <2>1. read \in SUBSET (Nat \X Nat)
    BY IdsAreNaturals
  <2>2. turns' = [turns EXCEPT ![r] = read]
    BY <1>12 DEF ReadRestrictions
  <2> HIDE DEF read
  <2>3. turns' \in [Requests -> SUBSET (Nat \X Nat)]
    BY <2>1, <2>2
  <2> QED
    BY <1>12, <2>3 DEF ReadRestrictions
<1>13. ASSUME NEW r \in Requests, PointsUnmatched(r) PROVE TypeInv'
  BY <1>13 DEF PointsUnmatched, Answer
<1>14. ASSUME NEW r \in Requests, FindPath(r) PROVE TypeInv'
  <2>1. PICK c \in Candidates : path' = [path EXCEPT ![r] = c]
    BY <1>14 DEF FindPath, Drivable
  <2> QED
    BY <1>14, <2>1 DEF FindPath, Answer
<1>15. ASSUME NEW r \in Requests, NoPath(r) PROVE TypeInv'
  <2>1. Answer(r, "coverage") \/ Answer(r, "no_detour")
    BY <1>15 DEF NoPath
  <2> QED
    BY <1>15, <2>1 DEF NoPath, Answer
<1>16. ASSUME NEW r \in Requests, EndContext(r) PROVE TypeInv'
  BY <1>16 DEF EndContext, Answer
<1>17. ASSUME NEW r \in Requests, Deadlock(r) PROVE TypeInv'
  BY <1>17 DEF Deadlock, Answer
<1>18. CASE UNCHANGED vars
  BY <1>18 DEF vars
<1> QED
  BY <1>1, <1>2, <1>3, <1>4, <1>5, <1>6, <1>7, <1>8, <1>9, <1>10, <1>11, <1>12, <1>13, <1>14,
     <1>15, <1>16, <1>17, <1>18 DEF Next, Reload, Serve

(* The model is typed: see TypeOK.  The reload never publishes anything but *)
(* a network, nor leaves restrictions for streets that are gone.            *)
THEOREM TypeCorrect == Spec => []TypeOK
<1>1. Init => TypeInv
  BY TypeInit
<1>2. TypeInv /\ [Next]_vars => TypeInv'
  BY TypeStep
<1>3. TypeInv => TypeOK
  BY DEF TypeInv
<1> QED
  BY <1>1, <1>2, <1>3, PTL DEF Spec


-----------------------------------------------------------------------------
(* While Route is in its transaction the streets are the ones in its graph, *)
(* because a reload that loads has seen no such transaction and bars new    *)
(* ones; the restrictions, if there are any, are those of the streets.      *)
GraphInv ==
  /\ restricciones \in {{}, Translated(calles)}
  /\ reload = "loading" => \A r \in Requests : ~ InTransaction(r)
  /\ \A r \in Requests : InTransaction(r) => graph[r].calles = calles
  /\ GraphIsOfOneLoad

LEMMA GraphInit == Init => GraphInv
BY DEF Init, GraphInv, InTransaction, GraphIsOfOneLoad

(* What neither enters a transaction nor changes what it read.              *)
LEMMA GraphFrame ==
  ASSUME GraphInv,
         UNCHANGED <<calles, restricciones, graph, turns>>,
         reload' = "loading" => reload = "loading",
         \A s \in Requests : pc'[s] \in {"restrictions", "search"} => pc'[s] = pc[s]
  PROVE  GraphInv'
BY DEF GraphInv, InTransaction, GraphIsOfOneLoad

LEMMA GraphStep == TypeInv /\ GraphInv /\ [Next]_vars => GraphInv'
<1> SUFFICES ASSUME TypeInv, GraphInv, [Next]_vars PROVE GraphInv'
  OBVIOUS
<1> USE DEF tables, reloading
<1>0. pc \in [Requests -> {"analyze", "snapshot", "graph", "restrictions", "search", "done"}]
  BY DEF TypeInv, TypeOK
<1>1. CASE StartReload
  BY <1>1, GraphFrame DEF StartReload
<1>2. CASE LockRestricciones
  BY <1>2, GraphFrame DEF LockRestricciones
<1>3. CASE LockCalles
  BY <1>3 DEF LockCalles, GraphInv, InTransaction, GraphIsOfOneLoad
<1>4. CASE Publish
  BY <1>4 DEF Publish, GraphInv, InTransaction, GraphIsOfOneLoad
<1>5. CASE SkipRestricciones
  BY <1>5, GraphFrame DEF SkipRestricciones
<1>6. CASE LockForRestricciones
  BY <1>6, GraphFrame DEF LockForRestricciones
<1>7. CASE PublishRestricciones
  BY <1>7 DEF PublishRestricciones, GraphInv, InTransaction, GraphIsOfOneLoad
<1>8. CASE ReloadFails
  BY <1>8, GraphFrame DEF ReloadFails
<1>9. ASSUME NEW r \in Requests, Analyze(r) PROVE GraphInv'
  BY <1>0, <1>9, GraphFrame DEF Analyze, Answer
<1>10. ASSUME NEW r \in Requests, Snapshot(r) PROVE GraphInv'
  BY <1>0, <1>10, GraphFrame DEF Snapshot
<1>11. ASSUME NEW r \in Requests, CreateGraph(r) PROVE GraphInv'
  <2>1. /\ reload # "loading" /\ UNCHANGED <<calles, restricciones, reload, turns>>
        /\ graph' = [graph EXCEPT ![r] = [carga |-> carga, calles |-> calles]]
        /\ pc' = [pc EXCEPT ![r] = "restrictions"]
    BY <1>11 DEF CreateGraph, CallesLocked
  <2>2. graph'[r].calles = calles /\ \A s \in Requests \ {r} : graph'[s] = graph[s]
    BY <2>1 DEF TypeInv, TypeOK
  <2> QED
    BY <1>0, <2>1, <2>2 DEF GraphInv, InTransaction, GraphIsOfOneLoad
<1>12. ASSUME NEW r \in Requests, ReadRestrictions(r) PROVE GraphInv'
  <2>1. /\ pc[r] = "restrictions" /\ pc' = [pc EXCEPT ![r] = "search"]
        /\ UNCHANGED <<calles, restricciones, reload, graph>>
        /\ turns' = [turns EXCEPT ![r] =
                       {p \in restricciones : {p[1], p[2]} \subseteq Ids(graph[r].calles)}]
    BY <1>12 DEF ReadRestrictions
  <2>2. graph[r].calles = calles
    BY <2>1 DEF GraphInv, InTransaction
  <2>3. {p \in restricciones : {p[1], p[2]} \subseteq Ids(graph[r].calles)} = restricciones
    BY <2>2 DEF TypeInv, TypeOK
  <2>4. turns'[r] \in {{}, Translated(graph[r].calles)}
    BY <2>1, <2>2, <2>3 DEF TypeInv, TypeOK, GraphInv
  <2>5. \A s \in Requests \ {r} : turns'[s] = turns[s]
    BY <2>1 DEF TypeInv, TypeOK
  <2> QED
    BY <1>0, <2>1, <2>4, <2>5 DEF GraphInv, InTransaction, GraphIsOfOneLoad
<1>13. ASSUME NEW r \in Requests, PointsUnmatched(r) PROVE GraphInv'
  BY <1>0, <1>13, GraphFrame DEF PointsUnmatched, Answer
<1>14. ASSUME NEW r \in Requests, FindPath(r) PROVE GraphInv'
  BY <1>0, <1>14, GraphFrame DEF FindPath, Answer
<1>15. ASSUME NEW r \in Requests, NoPath(r) PROVE GraphInv'
  BY <1>0, <1>15, GraphFrame DEF NoPath, Answer
<1>16. ASSUME NEW r \in Requests, EndContext(r) PROVE GraphInv'
  BY <1>0, <1>16, GraphFrame DEF EndContext, Answer
<1>17. ASSUME NEW r \in Requests, Deadlock(r) PROVE GraphInv'
  BY <1>0, <1>17, GraphFrame DEF Deadlock, Answer
<1>18. CASE UNCHANGED vars
  BY <1>18, GraphFrame DEF vars
<1> QED
  BY <1>1, <1>2, <1>3, <1>4, <1>5, <1>6, <1>7, <1>8, <1>9, <1>10, <1>11, <1>12, <1>13, <1>14,
     <1>15, <1>16, <1>17, <1>18 DEF Next, Reload, Serve

(* A graph and its restrictions are of one load, though two statements of a *)
(* READ COMMITTED transaction read them: see GraphIsOfOneLoad.              *)
THEOREM GraphsAreOfOneLoad == Spec => []GraphIsOfOneLoad
<1>1. Init => TypeInv /\ GraphInv
  BY TypeInit, GraphInit
<1>2. TypeInv /\ GraphInv /\ [Next]_vars => (TypeInv /\ GraphInv)'
  BY TypeStep, GraphStep
<1>3. GraphInv => GraphIsOfOneLoad
  BY DEF GraphInv
<1> QED
  BY <1>1, <1>2, <1>3, PTL DEF Spec

-----------------------------------------------------------------------------
(* VariantAvoidsCut is inductive once a request that has an answer is done. *)
VariantInv ==
  /\ \A r \in Requests : answer[r] # "none" => pc[r] = "done"
  /\ VariantAvoidsCut

LEMMA VariantInit == Init => VariantInv
BY DEF Init, VariantInv, VariantAvoidsCut

(* What answers at most one request, and with no variant.                   *)
LEMMA VariantFrame ==
  ASSUME TypeOK, VariantInv,
         UNCHANGED <<cut, path>>,
         \A s \in Requests : answer'[s] = "variant" => answer[s] = "variant",
         \A s \in Requests : answer'[s] # "none" => pc'[s] = "done",
         \A s \in Requests : pc[s] = "done" => graph'[s] = graph[s] /\ turns'[s] = turns[s]
  PROVE  VariantInv'
BY DEF VariantInv, VariantAvoidsCut

(* A drivable path turns nowhere where a translated restriction forbids it. *)
LEMMA DrivableObeys ==
  ASSUME NEW r \in Requests, NEW priced,
         NEW c \in Drivable(r, priced),
         turns[r] = Translated(graph[r].calles),
         NEW i \in 1 .. Len(c) - 1,
         Len(c) \in Nat
  PROVE  <<c[i], c[i + 1]>> \notin BannedTurns
<1> SUFFICES ASSUME <<c[i], c[i + 1]>> \in BannedTurns PROVE FALSE
  OBVIOUS
<1>1. c[i] \in Places(graph[r].calles) /\ c[i + 1] \in Places(graph[r].calles)
  BY DEF Drivable
<1>2. PICK j \in Ids(graph[r].calles), k \in Ids(graph[r].calles) :
        graph[r].calles[j] = c[i] /\ graph[r].calles[k] = c[i + 1]
  BY <1>1 DEF Places
<1>3. <<j, k>> \in turns[r]
  BY <1>2 DEF Translated
<1>4. <<c[i], c[i + 1]>> \in TurnsOf(r)
  BY <1>2, <1>3 DEF TurnsOf
<1> QED
  BY <1>4 DEF Drivable

LEMMA VariantStep == TypeInv /\ GraphInv /\ VariantInv /\ [Next]_vars => VariantInv'
<1> SUFFICES ASSUME TypeInv, GraphInv, VariantInv, [Next]_vars PROVE VariantInv'
  OBVIOUS
<1> USE DEF tables, reloading
<1>0. /\ TypeOK
      /\ pc \in [Requests -> {"analyze", "snapshot", "graph", "restrictions", "search", "done"}]
      /\ answer \in [Requests -> {"none", "variant", "cut_not_matched", "unmatched", "coverage",
                                  "no_detour", "context", "internal"}]
      /\ \A s \in Requests : answer[s] # "none" => pc[s] = "done"
  BY DEF TypeInv, TypeOK, VariantInv
<1>1. CASE StartReload \/ Reload \/ ReloadFails
  <2>1. UNCHANGED <<pc, cut, graph, turns, answer, path>>
    BY <1>1 DEF StartReload, Reload, ReloadFails, LockRestricciones, LockCalles, Publish,
                SkipRestricciones, LockForRestricciones, PublishRestricciones
  <2> QED
    BY <1>0, <2>1, VariantFrame
<1>2. ASSUME NEW r \in Requests, Analyze(r) PROVE VariantInv'
  BY <1>0, <1>2, VariantFrame DEF Analyze, Answer
<1>3. ASSUME NEW r \in Requests, Snapshot(r) PROVE VariantInv'
  BY <1>0, <1>3, VariantFrame DEF Snapshot
<1>4. ASSUME NEW r \in Requests, CreateGraph(r) PROVE VariantInv'
  <2>1. \A s \in Requests : pc[s] = "done" => graph'[s] = graph[s]
    BY <1>0, <1>4 DEF CreateGraph, TypeOK
  <2> QED
    BY <1>0, <1>4, <2>1, VariantFrame DEF CreateGraph
<1>5. ASSUME NEW r \in Requests, ReadRestrictions(r) PROVE VariantInv'
  <2>1. \A s \in Requests : pc[s] = "done" => turns'[s] = turns[s]
    BY <1>0, <1>5 DEF ReadRestrictions, TypeOK
  <2> QED
    BY <1>0, <1>5, <2>1, VariantFrame DEF ReadRestrictions
<1>6. ASSUME NEW r \in Requests, PointsUnmatched(r) PROVE VariantInv'
  BY <1>0, <1>6, VariantFrame DEF PointsUnmatched, Answer
<1>7. ASSUME NEW r \in Requests, FindPath(r) PROVE VariantInv'
  <2>1. PICK c \in Drivable(r, covered[r]) : Accepted(r, c) /\ path' = [path EXCEPT ![r] = c]
    BY <1>7 DEF FindPath
  <2>2. /\ pc[r] = "search" /\ UNCHANGED <<cut, graph, turns>>
        /\ pc' = [pc EXCEPT ![r] = "done"] /\ answer' = [answer EXCEPT ![r] = "variant"]
    BY <1>7 DEF FindPath, Answer
  <2>3. c \in Candidates /\ Len(c) \in Nat
    BY <2>1, GraphAssumption DEF Drivable
  <2>4. \A i \in 1 .. Len(c) : c[i] \notin cut[r]
    BY <2>1 DEF Accepted
  <2>5. turns[r] # {} => \A i \in 1 .. Len(c) - 1 : <<c[i], c[i + 1]>> \notin BannedTurns
    BY <2>1, <2>2, <2>3, DrivableObeys DEF GraphInv, GraphIsOfOneLoad
  <2>6. path'[r] = c /\ \A s \in Requests \ {r} : path'[s] = path[s]
    BY <1>0, <2>1 DEF TypeOK
  <2> QED
    BY <1>0, <2>2, <2>4, <2>5, <2>6 DEF VariantInv, VariantAvoidsCut
<1>8. ASSUME NEW r \in Requests, NoPath(r) PROVE VariantInv'
  BY <1>0, <1>8, VariantFrame DEF NoPath, Answer
<1>9. ASSUME NEW r \in Requests, EndContext(r) PROVE VariantInv'
  BY <1>0, <1>9, VariantFrame DEF EndContext, Answer
<1>10. ASSUME NEW r \in Requests, Deadlock(r) PROVE VariantInv'
  BY <1>0, <1>10, VariantFrame DEF Deadlock, Answer
<1>11. CASE UNCHANGED vars
  BY <1>0, <1>11, VariantFrame DEF vars
<1> QED
  BY <1>1, <1>2, <1>3, <1>4, <1>5, <1>6, <1>7, <1>8, <1>9, <1>10, <1>11 DEF Next, Serve

(* No variant drives through the cut, whatever reloads came between the     *)
(* analysis and the search: see VariantAvoidsCut.                           *)
THEOREM VariantsAvoidTheCut == Spec => []VariantAvoidsCut
<1>1. Init => TypeInv /\ GraphInv /\ VariantInv
  BY TypeInit, GraphInit, VariantInit
<1>2. TypeInv /\ GraphInv /\ VariantInv /\ [Next]_vars => (TypeInv /\ GraphInv /\ VariantInv)'
  BY TypeStep, GraphStep, VariantStep
<1>3. VariantInv => VariantAvoidsCut
  BY DEF VariantInv
<1> QED
  BY <1>1, <1>2, <1>3, PTL DEF Spec


-----------------------------------------------------------------------------
(* The blocked ids of an analysis are right for its load as long as it is   *)
(* active, and for a graph of that load for ever.                           *)
InCut(network, r) == {i \in Ids(network) : network[i] \in cut[r]}

AnalysisInv ==
  \A r \in Requests :
    /\ analysis[r].carga <= carga
    /\ pc[r] = "analyze" => analysis[r].carga = 0
    /\ pc[r] # "analyze" /\ analysis[r].carga = carga => analysis[r].blocked = InCut(calles, r)
    /\ pc[r] \in {"analyze", "snapshot", "graph"} => graph[r].carga = 0
    /\ InTransaction(r) => graph[r].carga # 0
    /\ graph[r].carga # 0 /\ graph[r].carga = analysis[r].carga =>
         analysis[r].blocked = InCut(graph[r].calles, r)

LEMMA AnalysisInit == Init => AnalysisInv
BY DEF Init, AnalysisInv, InTransaction

(* What reads no table and publishes nothing.                               *)
LEMMA AnalysisFrame ==
  ASSUME TypeOK, AnalysisInv, UNCHANGED <<calles, carga, cut, analysis, graph>>,
         \A s \in Requests :
           \/ pc'[s] = pc[s]
           \/ pc[s] = "snapshot" /\ pc'[s] = "graph"
           \/ pc[s] = "restrictions" /\ pc'[s] = "search"
           \/ pc'[s] = "done"
  PROVE  AnalysisInv'
BY DEF AnalysisInv, InCut, InTransaction, TypeOK

LEMMA AnalysisStep == TypeInv /\ AnalysisInv /\ [Next]_vars => AnalysisInv'
<1> SUFFICES ASSUME TypeInv, AnalysisInv, [Next]_vars PROVE AnalysisInv'
  OBVIOUS
<1> USE DEF tables, reloading
<1>0. /\ TypeOK
      /\ carga \in Nat \ {0}
      /\ pc \in [Requests -> {"analyze", "snapshot", "graph", "restrictions", "search", "done"}]
      /\ \A s \in Requests : analysis[s].carga \in Nat /\ graph[s].carga \in Nat
  BY GraphAssumption DEF TypeInv, TypeOK
<1>1. CASE StartReload \/ LockRestricciones \/ LockCalles \/ SkipRestricciones
             \/ LockForRestricciones \/ PublishRestricciones \/ ReloadFails
  <2>1. UNCHANGED <<calles, carga, pc, cut, analysis, graph>>
    BY <1>1 DEF StartReload, LockRestricciones, LockCalles, SkipRestricciones,
                LockForRestricciones, PublishRestricciones, ReloadFails
  <2> QED
    BY <1>0, <2>1, AnalysisFrame
<1>2. CASE Publish
  <2>1. carga' = carga + 1 /\ UNCHANGED <<pc, cut, analysis, graph>>
    BY <1>2 DEF Publish
  <2>2. \A s \in Requests : analysis'[s].carga <= carga' /\ analysis'[s].carga # carga'
    BY <1>0, <2>1 DEF AnalysisInv
  <2> QED
    BY <2>1, <2>2 DEF AnalysisInv, InCut, InTransaction
<1>3. ASSUME NEW r \in Requests, Analyze(r) PROVE AnalysisInv'
  <2>1. /\ pc[r] = "analyze" /\ UNCHANGED <<calles, carga, cut, graph>>
        /\ analysis' = [analysis EXCEPT ![r] = [carga |-> carga, blocked |-> InCut(calles, r)]]
    BY <1>3 DEF Analyze, InCut
  <2>2. pc'[r] \in {"snapshot", "done"} /\ \A s \in Requests \ {r} : pc'[s] = pc[s]
    BY <1>0, <1>3 DEF Analyze, Answer
  <2>3. /\ analysis'[r] = [carga |-> carga, blocked |-> InCut(calles, r)]
        /\ \A s \in Requests \ {r} : analysis'[s] = analysis[s]
    BY <1>0, <2>1 DEF TypeOK
  <2>4. graph[r].carga = 0
    BY <2>1 DEF AnalysisInv
  <2>5. \A s \in Requests : InCut(calles, s)' = InCut(calles, s)
    BY <2>1 DEF InCut
  <2> QED
    BY <1>0, <2>1, <2>2, <2>3, <2>4, <2>5 DEF AnalysisInv, InTransaction, InCut
<1>4. ASSUME NEW r \in Requests, Snapshot(r) PROVE AnalysisInv'
  BY <1>0, <1>4, AnalysisFrame DEF Snapshot
<1>5. ASSUME NEW r \in Requests, CreateGraph(r) PROVE AnalysisInv'
  <2>1. /\ pc[r] = "graph" /\ pc' = [pc EXCEPT ![r] = "restrictions"]
        /\ UNCHANGED <<calles, carga, cut, analysis>>
        /\ graph' = [graph EXCEPT ![r] = [carga |-> carga, calles |-> calles]]
    BY <1>5 DEF CreateGraph
  <2>2. /\ graph'[r] = [carga |-> carga, calles |-> calles]
        /\ \A s \in Requests \ {r} : graph'[s] = graph[s]
    BY <1>0, <2>1 DEF TypeOK
  <2> QED
    BY <1>0, <2>1, <2>2 DEF AnalysisInv, InTransaction, InCut
<1>6. ASSUME NEW r \in Requests, ReadRestrictions(r) PROVE AnalysisInv'
  BY <1>0, <1>6, AnalysisFrame DEF ReadRestrictions
<1>7. ASSUME NEW r \in Requests,
             PointsUnmatched(r) \/ FindPath(r) \/ NoPath(r) \/ EndContext(r) \/ Deadlock(r)
      PROVE  AnalysisInv'
  <2>1. UNCHANGED <<calles, carga, cut, analysis, graph>>
    BY <1>7 DEF PointsUnmatched, FindPath, NoPath, EndContext, Deadlock
  <2>2. pc' = pc \/ pc' = [pc EXCEPT ![r] = "done"]
    BY <1>7 DEF PointsUnmatched, FindPath, NoPath, EndContext, Deadlock, Answer
  <2> QED
    BY <1>0, <2>1, <2>2, AnalysisFrame
<1>8. CASE UNCHANGED vars
  BY <1>0, <1>8, AnalysisFrame DEF vars
<1> QED
  BY <1>1, <1>2, <1>3, <1>4, <1>5, <1>6, <1>7, <1>8 DEF Next, Reload, Serve

(* The ids an analysis blocks are those of its GraphLoadID: see             *)
(* AnalysisIsOfItsLoad.                                                     *)
THEOREM AnalysesAreOfTheirLoad == Spec => []AnalysisIsOfItsLoad
<1>1. Init => TypeInv /\ AnalysisInv
  BY TypeInit, AnalysisInit
<1>2. TypeInv /\ AnalysisInv /\ [Next]_vars => (TypeInv /\ AnalysisInv)'
  BY TypeStep, AnalysisStep
<1>3. AnalysisInv => AnalysisIsOfItsLoad
  BY DEF AnalysisInv, AnalysisIsOfItsLoad, InCut
<1> QED
  BY <1>1, <1>2, <1>3, PTL DEF Spec

-----------------------------------------------------------------------------
(* A request that got one of the errors of the search had a graph, and the  *)
(* error was true of it.                                                    *)
ErrorInv ==
  /\ \A r \in Requests : answer[r] # "none" => pc[r] = "done"
  /\ IsolationIsReal

LEMMA ErrorInit == Init => ErrorInv
BY DEF Init, ErrorInv, IsolationIsReal

(* What neither gives a request an error of the search nor changes what     *)
(* such a request searched.                                                 *)
LEMMA ErrorFrame ==
  ASSUME TypeOK, ErrorInv, UNCHANGED <<cut, covered>>,
         \A s \in Requests :
           answer'[s] \in {"no_detour", "coverage"} => answer[s] = answer'[s],
         \A s \in Requests : answer'[s] # "none" => pc'[s] = "done",
         \A s \in Requests :
           pc[s] = "done" =>
             analysis'[s] = analysis[s] /\ graph'[s] = graph[s] /\ turns'[s] = turns[s]
  PROVE  ErrorInv'
<1>1. \A s \in Requests : answer'[s] # "none" => pc'[s] = "done"
  OBVIOUS
<1>2. ASSUME NEW s \in Requests, answer'[s] \in {"no_detour", "coverage"}
      PROVE  /\ analysis'[s] = analysis[s] /\ graph'[s] = graph[s] /\ answer'[s] = answer[s]
             /\ Passable(s, Streets)' = Passable(s, Streets)
             /\ Passable(s, covered[s])' = Passable(s, covered[s])
  <2>1. analysis'[s] = analysis[s] /\ graph'[s] = graph[s] /\ turns'[s] = turns[s]
    BY <1>2 DEF ErrorInv
  <2>2. TurnsOf(s)' = TurnsOf(s)
    BY <2>1 DEF TurnsOf
  <2>3. /\ Passable(s, Streets)' = Passable(s, Streets)
        /\ Passable(s, covered[s])' = Passable(s, covered[s])
    BY <2>1, <2>2 DEF Passable, Places, Ids
  <2> QED
    BY <1>2, <2>1, <2>3
<1> QED
  BY <1>1, <1>2 DEF ErrorInv, IsolationIsReal

(* When the blocked ids are the graph's, what is drivable is what is        *)
(* passable, and the filter drops nothing.                                  *)
LEMMA DrivableIsPassable ==
  ASSUME NEW r \in Requests, NEW priced, analysis[r].blocked = InCut(graph[r].calles, r)
  PROVE  /\ Drivable(r, priced) = Passable(r, priced)
         /\ \A c \in Drivable(r, priced) : Accepted(r, c)
<1>1. Places(graph[r].calles) \ Blocked(r) = Places(graph[r].calles) \ cut[r]
  BY DEF Blocked, Places, InCut
<1>2. (Places(graph[r].calles) \cap priced) \ Blocked(r) = (Places(graph[r].calles) \cap priced) \ cut[r]
  BY <1>1
<1>3. Drivable(r, priced) = Passable(r, priced)
  BY <1>2 DEF Drivable, Passable
<1>4. \A c \in Passable(r, priced) : Accepted(r, c)
  BY DEF Passable, Accepted
<1> QED
  BY <1>3, <1>4

LEMMA ErrorStep == TypeInv /\ AnalysisInv /\ ErrorInv /\ [Next]_vars => ErrorInv'
<1> SUFFICES ASSUME TypeInv, AnalysisInv, ErrorInv, [Next]_vars PROVE ErrorInv'
  OBVIOUS
<1> USE DEF tables, reloading
<1>0. /\ TypeOK
      /\ pc \in [Requests -> {"analyze", "snapshot", "graph", "restrictions", "search", "done"}]
      /\ answer \in [Requests -> {"none", "variant", "cut_not_matched", "unmatched", "coverage",
                                  "no_detour", "context", "internal"}]
      /\ \A s \in Requests : answer[s] # "none" => pc[s] = "done"
  BY DEF TypeInv, TypeOK, ErrorInv
<1>1. CASE StartReload \/ Reload \/ ReloadFails
  <2>1. UNCHANGED <<pc, cut, covered, analysis, graph, turns, answer>>
    BY <1>1 DEF StartReload, Reload, ReloadFails, LockRestricciones, LockCalles, Publish,
                SkipRestricciones, LockForRestricciones, PublishRestricciones
  <2> QED
    BY <1>0, <2>1, ErrorFrame
<1>2. ASSUME NEW r \in Requests, Analyze(r) PROVE ErrorInv'
  <2>1. \A s \in Requests : pc[s] = "done" => analysis'[s] = analysis[s]
    BY <1>0, <1>2 DEF Analyze, TypeOK
  <2> QED
    BY <1>0, <1>2, <2>1, ErrorFrame DEF Analyze, Answer
<1>3. ASSUME NEW r \in Requests, Snapshot(r) PROVE ErrorInv'
  BY <1>0, <1>3, ErrorFrame DEF Snapshot
<1>4. ASSUME NEW r \in Requests, CreateGraph(r) PROVE ErrorInv'
  <2>1. \A s \in Requests : pc[s] = "done" => graph'[s] = graph[s]
    BY <1>0, <1>4 DEF CreateGraph, TypeOK
  <2> QED
    BY <1>0, <1>4, <2>1, ErrorFrame DEF CreateGraph
<1>5. ASSUME NEW r \in Requests, ReadRestrictions(r) PROVE ErrorInv'
  <2>1. \A s \in Requests : pc[s] = "done" => turns'[s] = turns[s]
    BY <1>0, <1>5 DEF ReadRestrictions, TypeOK
  <2> QED
    BY <1>0, <1>5, <2>1, ErrorFrame DEF ReadRestrictions
<1>6. ASSUME NEW r \in Requests, PointsUnmatched(r) PROVE ErrorInv'
  BY <1>0, <1>6, ErrorFrame DEF PointsUnmatched, Answer
<1>7. ASSUME NEW r \in Requests, FindPath(r) PROVE ErrorInv'
  BY <1>0, <1>7, ErrorFrame DEF FindPath, Answer
<1>8. ASSUME NEW r \in Requests, NoPath(r) PROVE ErrorInv'
  <2>1. /\ pc[r] = "search" /\ pc' = [pc EXCEPT ![r] = "done"]
        /\ UNCHANGED <<cut, covered, analysis, graph, turns>>
    BY <1>8 DEF NoPath, Answer
  <2>2. graph[r].carga # 0
    BY <2>1 DEF AnalysisInv, InTransaction
  <2>3. ASSUME analysis[r].carga = graph[r].carga
        PROVE  /\ answer'[r] = "no_detour" => Passable(r, Streets) = {}
               /\ answer'[r] = "coverage" =>
                    Passable(r, covered[r]) = {} /\ Passable(r, Streets) # {}
    <3>1. analysis[r].blocked = InCut(graph[r].calles, r)
      BY <2>2, <2>3 DEF AnalysisInv
    <3>2. /\ Drivable(r, Streets) = Passable(r, Streets)
          /\ Drivable(r, covered[r]) = Passable(r, covered[r])
          /\ \A c \in Drivable(r, Streets) : Accepted(r, c)
          /\ \A c \in Drivable(r, covered[r]) : Accepted(r, c)
      BY <3>1, DrivableIsPassable
    <3>3. Drivable(r, covered[r]) = {}
      BY <1>8, <3>2 DEF NoPath
    <3>4. answer'[r] = "no_detour" => Drivable(r, Streets) = {}
      BY <1>0, <1>8, <3>2 DEF NoPath, Answer
    <3>5. answer'[r] = "coverage" => Drivable(r, Streets) # {}
      BY <1>0, <1>8 DEF NoPath, Answer
    <3> QED
      BY <3>2, <3>3, <3>4, <3>5
  <2>4. \A s \in Requests : TurnsOf(s)' = TurnsOf(s)
    BY <2>1 DEF TurnsOf
  <2>5. \A s \in Requests : /\ Passable(s, Streets)' = Passable(s, Streets)
                            /\ Passable(s, covered[s])' = Passable(s, covered[s])
    BY <2>1, <2>4 DEF Passable, Places, Ids
  <2>6. \A s \in Requests \ {r} : answer'[s] = answer[s] /\ pc'[s] = pc[s]
    BY <1>0, <1>8, <2>1 DEF NoPath, Answer
  <2>7. pc'[r] = "done"
    BY <1>0, <2>1
  <2> QED
    BY <1>0, <2>1, <2>3, <2>5, <2>6, <2>7 DEF ErrorInv, IsolationIsReal
<1>9. ASSUME NEW r \in Requests, EndContext(r) PROVE ErrorInv'
  BY <1>0, <1>9, ErrorFrame DEF EndContext, Answer
<1>10. ASSUME NEW r \in Requests, Deadlock(r) PROVE ErrorInv'
  BY <1>0, <1>10, ErrorFrame DEF Deadlock, Answer
<1>11. CASE UNCHANGED vars
  BY <1>0, <1>11, ErrorFrame DEF vars
<1> QED
  BY <1>1, <1>2, <1>3, <1>4, <1>5, <1>6, <1>7, <1>8, <1>9, <1>10, <1>11 DEF Next, Serve

(* "Coverage" and "no detour" are true of every graph of the analysed load: *)
(* see IsolationIsReal.                                                     *)
THEOREM ErrorsAreTrue == Spec => []IsolationIsReal
<1>1. Init => TypeInv /\ AnalysisInv /\ ErrorInv
  BY TypeInit, AnalysisInit, ErrorInit
<1>2. TypeInv /\ AnalysisInv /\ ErrorInv /\ [Next]_vars => (TypeInv /\ AnalysisInv /\ ErrorInv)'
  BY TypeStep, AnalysisStep, ErrorStep
<1>3. ErrorInv => IsolationIsReal
  BY DEF ErrorInv
<1> QED
  BY <1>1, <1>2, <1>3, PTL DEF Spec
================================================================================
