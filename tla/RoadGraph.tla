------------------------------- MODULE RoadGraph -------------------------------
(***************************************************************************)
(* Detour requests against the road network in PostGIS while it is         *)
(* reloaded by hand (sql/calles/README.md).  DetourRepository.Analyze is a *)
(* statement of its own; DetourRepository.Route is a later transaction,    *)
(* READ COMMITTED, that copies the streets into detour_graph, then reads   *)
(* the turn restrictions, then finds paths.  transformar_calles.sql        *)
(* replaces streets, vertices and metadata and empties the restrictions in *)
(* one transaction; transformar_restricciones.sql fills them in another.   *)
(*                                                                         *)
(* Streets are members of Streets; id_calle is the position of a street in *)
(* the load, since TRUNCATE ... RESTART IDENTITY numbers each load anew.   *)
(* A path is one of Candidates, the ways to drive past the cut; its cost   *)
(* is left out, so that pgRouting may prefer any of them.                  *)
(***************************************************************************)
EXTENDS Integers, Sequences, FiniteSets

CONSTANTS
  Requests,
  Streets,
  Networks,     \* the sequences of streets a load may consist of
  Cuts,         \* the sets of streets a forbidden corridor may reach
  Coverages,    \* the sets of streets the traffic snapshot may price
  Candidates,   \* the sequences of streets that lead past the cut
  BannedTurns,  \* pairs of streets, OSM's turn restrictions
  LastLoad      \* bound: the id_carga after which nobody reloads

ASSUME GraphAssumption ==
  /\ \A network \in Networks :
       /\ network \in Seq(Streets)
       /\ \A i, j \in 1 .. Len(network) : network[i] = network[j] => i = j
  /\ Cuts \subseteq SUBSET Streets
  /\ Coverages \subseteq SUBSET Streets
  /\ \A c \in Candidates : c \in Seq(Streets) /\ c # <<>>
  /\ BannedTurns \subseteq Streets \X Streets
  /\ LastLoad \in Nat \ {0}

Ids(network) == 1 .. Len(network)

Places(network) == {network[i] : i \in Ids(network)}

(* transformar_restricciones.sql: the turns between streets of the load.    *)
Translated(network) == {p \in Ids(network) \X Ids(network) : <<network[p[1]], network[p[2]]>> \in BannedTurns}

VARIABLES
  calles,         \* vialis.calles: street ids to streets
  carga,          \* id_carga of the active row of calles_metadata
  restricciones,  \* vialis.calles_restricciones: pairs of street ids
  reload,         \* the statement the reload is at
  raw,            \* the network osm2pgrouting left to be published
  pc,             \* the call a request is at
  cut,            \* the streets its forbidden corridor reaches
  covered,        \* the streets its traffic snapshot prices
  analysis,       \* its Analysis: GraphLoadID and BlockedStreetIDs
  graph,          \* its detour_graph, with the load it was read from
  turns,          \* its detour_restrictions
  answer,         \* the error or "variant" it got, "none" before
  path            \* the path of its variant

tables == <<calles, carga, restricciones>>
reloading == <<reload, raw>>
vars == <<tables, reloading, pc, cut, covered, analysis, graph, turns, answer, path>>

Init ==
  /\ calles \in Networks
  /\ carga = 1
  /\ restricciones = Translated(calles)
  /\ reload = "idle"
  /\ raw = <<>>
  /\ pc = [r \in Requests |-> "analyze"]
  /\ cut \in [Requests -> Cuts]
  /\ covered \in [Requests -> Coverages]
  /\ analysis = [r \in Requests |-> [carga |-> 0, blocked |-> {}]]
  /\ graph = [r \in Requests |-> [carga |-> 0, calles |-> <<>>]]
  /\ turns = [r \in Requests |-> {}]
  /\ answer = [r \in Requests |-> "none"]
  /\ path = [r \in Requests |-> <<>>]

-----------------------------------------------------------------------------
(* Locks are held from the statement that takes them to the end of its      *)
(* transaction.                                                             *)

\* Mutant of InTransaction: an error leaves the transaction open.
NeverRolledBack(r) ==
  graph[r].carga # 0 /\ answer[r] \notin {"variant", "coverage", "no_detour"}

\* Mutant of InTransaction: each statement is a transaction of its own.
AutoCommitted(r) == FALSE

(* Route's transaction has read vialis.calles and is not over: it holds     *)
(* ACCESS SHARE on that table.                                              *)
InTransaction(r) == pc[r] \in {"restrictions", "search"}

(* TRUNCATE holds ACCESS EXCLUSIVE until the commit.                        *)
CallesLocked == reload = "loading"
RestriccionesLocked == reload \in {"truncating", "loading", "replacing"}

Answer(r, outcome) ==
  /\ pc' = [pc EXCEPT ![r] = "done"]
  /\ answer' = [answer EXCEPT ![r] = outcome]

-----------------------------------------------------------------------------
(* The reload.                                                              *)

StartReload ==
  /\ reload = "idle"
  /\ carga < LastLoad
  /\ raw' \in Networks
  /\ reload' = "waiting"
  /\ UNCHANGED <<tables, pc, cut, covered, analysis, graph, turns, answer, path>>

(* TRUNCATE locks its tables in the order it names them: first              *)
(* calles_restricciones ...                                                 *)
LockRestricciones ==
  /\ reload = "waiting"
  /\ \A r \in Requests : pc[r] # "search"
  /\ reload' = "truncating"
  /\ UNCHANGED <<tables, raw, pc, cut, covered, analysis, graph, turns, answer, path>>

(* ... then calles, and calles_vertices, which no request reads.            *)
LockCalles ==
  /\ reload = "truncating"
  /\ \A r \in Requests : ~ InTransaction(r)
  /\ reload' = "loading"
  /\ UNCHANGED <<tables, raw, pc, cut, covered, analysis, graph, turns, answer, path>>

\* Mutant of Publish: the metadata is updated by a later transaction.
PublishStreets ==
  /\ reload = "loading"
  /\ calles' = raw
  /\ restricciones' = {}
  /\ reload' = "published"
  /\ UNCHANGED <<carga, raw, pc, cut, covered, analysis, graph, turns, answer, path>>

Publish ==
  /\ reload = "loading"
  /\ calles' = raw
  /\ carga' = carga + 1
  /\ restricciones' = {}
  /\ reload' = "published"
  /\ UNCHANGED <<raw, pc, cut, covered, analysis, graph, turns, answer, path>>

(* The restrictions are optional in a reload by hand.                       *)
SkipRestricciones ==
  /\ reload = "published"
  /\ reload' = "idle"
  /\ UNCHANGED <<tables, raw, pc, cut, covered, analysis, graph, turns, answer, path>>

LockForRestricciones ==
  /\ reload = "published"
  /\ \A r \in Requests : pc[r] # "search"
  /\ reload' = "replacing"
  /\ UNCHANGED <<tables, raw, pc, cut, covered, analysis, graph, turns, answer, path>>

PublishRestricciones ==
  /\ reload = "replacing"
  /\ restricciones' = Translated(calles)
  /\ reload' = "idle"
  /\ UNCHANGED <<calles, carga, raw, pc, cut, covered, analysis, graph, turns, answer, path>>

(* A script that fails or is interrupted leaves its transaction undone.     *)
ReloadFails ==
  /\ reload \in {"waiting", "truncating", "loading", "replacing"}
  /\ reload' = "idle"
  /\ UNCHANGED <<tables, raw, pc, cut, covered, analysis, graph, turns, answer, path>>

-----------------------------------------------------------------------------
(* The detour requests.                                                     *)

(* Analyze reads metadata and streets in one statement.  A cut that reaches *)
(* no street of the load is refused.                                        *)
Analyze(r) ==
  /\ pc[r] = "analyze"
  /\ ~ CallesLocked
  /\ LET blocked == {i \in Ids(calles) : calles[i] \in cut[r]} IN
     /\ analysis' = [analysis EXCEPT ![r] = [carga |-> carga, blocked |-> blocked]]
     /\ IF blocked = {}
        THEN Answer(r, "cut_not_matched")
        ELSE pc' = [pc EXCEPT ![r] = "snapshot"] /\ UNCHANGED answer
  /\ UNCHANGED <<tables, reloading, cut, covered, graph, turns, path>>

(* The download of the traffic tiles, which may take seconds.               *)
Snapshot(r) ==
  /\ pc[r] = "snapshot"
  /\ pc' = [pc EXCEPT ![r] = "graph"]
  /\ UNCHANGED <<tables, reloading, cut, covered, analysis, graph, turns, answer, path>>

(* create_detour_graph.sql copies the streets of the search area ...        *)
CreateGraph(r) ==
  /\ pc[r] = "graph"
  /\ ~ CallesLocked
  /\ graph' = [graph EXCEPT ![r] = [carga |-> carga, calles |-> calles]]
  /\ pc' = [pc EXCEPT ![r] = "restrictions"]
  /\ UNCHANGED <<tables, reloading, cut, covered, analysis, turns, answer, path>>

(* ... and, in a later statement, the restrictions between them.            *)
ReadRestrictions(r) ==
  /\ pc[r] = "restrictions"
  /\ ~ RestriccionesLocked
  /\ turns' = [turns EXCEPT ![r] =
                 {p \in restricciones : {p[1], p[2]} \subseteq Ids(graph[r].calles)}]
  /\ pc' = [pc EXCEPT ![r] = "search"]
  /\ UNCHANGED <<tables, reloading, cut, covered, analysis, graph, answer, path>>

\* Mutant of Blocked: the graph prices every street.
NoneBlocked(r) == {}

(* id_calle = ANY($3): the ids are the analysis's, the streets the graph's. *)
Blocked(r) == {graph[r].calles[i] : i \in analysis[r].blocked \cap Ids(graph[r].calles)}

(* snap_detour_points.sql: a point on a blocked street is left unmatched.   *)
Matched(r) == \A c \in Candidates : c[1] \in Places(graph[r].calles) \ Blocked(r)

TurnsOf(r) == {<<graph[r].calles[p[1]], graph[r].calles[p[2]]>> : p \in turns[r]}

(* What pgr_trsp_withPoints may return on the given streets.                *)
Drivable(r, priced) ==
  {c \in Candidates :
     /\ \A i \in 1 .. Len(c) : c[i] \in (Places(graph[r].calles) \cap priced) \ Blocked(r)
     /\ \A i \in 1 .. Len(c) - 1 : <<c[i], c[i + 1]>> \notin TurnsOf(r)}

\* Mutant of Accepted: find_detour_paths.sql relies on the blocked ids.
AcceptedAlways(r, c) == TRUE

(* The WHERE of find_detour_paths.sql and find_detour_topology_pairs.sql.   *)
Accepted(r, c) == \A i \in 1 .. Len(c) : c[i] \notin cut[r]

PointsUnmatched(r) ==
  /\ pc[r] = "search"
  /\ ~ Matched(r)
  /\ Answer(r, "unmatched")
  /\ UNCHANGED <<tables, reloading, cut, covered, analysis, graph, turns, path>>

FindPath(r) ==
  /\ pc[r] = "search"
  /\ Matched(r)
  /\ \E c \in Drivable(r, covered[r]) :
       /\ Accepted(r, c)
       /\ path' = [path EXCEPT ![r] = c]
  /\ Answer(r, "variant")
  /\ UNCHANGED <<tables, reloading, cut, covered, analysis, graph, turns>>

(* The path on the priced streets does not exist or is not accepted; what   *)
(* the path on all streets shows decides the error.                         *)
NoPath(r) ==
  /\ pc[r] = "search"
  /\ Matched(r)
  /\ \/ Drivable(r, covered[r]) = {}
     \/ \E c \in Drivable(r, covered[r]) : ~ Accepted(r, c)
  /\ \/ /\ \E c \in Drivable(r, Streets) : Accepted(r, c)
        /\ Answer(r, "coverage")
     \/ /\ \/ Drivable(r, Streets) = {}
           \/ \E c \in Drivable(r, Streets) : ~ Accepted(r, c)
        /\ Answer(r, "no_detour")
  /\ UNCHANGED <<tables, reloading, cut, covered, analysis, graph, turns, path>>

(* The client leaves or the calculation times out.                          *)
EndContext(r) ==
  /\ pc[r] # "done"
  /\ Answer(r, "context")
  /\ UNCHANGED <<tables, reloading, cut, covered, analysis, graph, turns, path>>

(* The reload holds the restrictions and waits for the streets, a request   *)
(* the other way round: PostgreSQL aborts one of the two.                   *)
Deadlock(r) ==
  /\ pc[r] = "restrictions"
  /\ reload = "truncating"
  /\ \/ reload' = "idle" /\ UNCHANGED <<pc, answer>>
     \/ Answer(r, "internal") /\ UNCHANGED reload
  /\ UNCHANGED <<tables, raw, cut, covered, analysis, graph, turns, path>>

-----------------------------------------------------------------------------
Reload ==
  \/ LockRestricciones \/ LockCalles \/ Publish
  \/ SkipRestricciones \/ LockForRestricciones \/ PublishRestricciones

Serve(r) ==
  \/ Analyze(r) \/ Snapshot(r) \/ CreateGraph(r) \/ ReadRestrictions(r)
  \/ PointsUnmatched(r) \/ FindPath(r) \/ NoPath(r)

Next ==
  \/ StartReload \/ Reload \/ ReloadFails
  \/ \E r \in Requests : Serve(r) \/ EndContext(r) \/ Deadlock(r)

(* Goroutines and the reload run on.  PostgreSQL looks for deadlocks, and   *)
(* grants a lock in the order of the requests for it, so that a statement   *)
(* does not wait for one reload after the other.                            *)
Fairness ==
  /\ WF_vars(Reload)
  /\ \A r \in Requests : SF_vars(Serve(r)) /\ WF_vars(Deadlock(r))

Spec == Init /\ [][Next]_vars /\ Fairness

-----------------------------------------------------------------------------
TypeOK ==
  /\ calles \in Networks
  /\ carga \in 1 .. LastLoad
  /\ restricciones \subseteq Ids(calles) \X Ids(calles)
  /\ reload \in {"idle", "waiting", "truncating", "loading", "published", "replacing"}
  /\ raw \in Networks \cup {<<>>}
  /\ pc \in [Requests -> {"analyze", "snapshot", "graph", "restrictions", "search", "done"}]
  /\ cut \in [Requests -> Cuts]
  /\ covered \in [Requests -> Coverages]
  /\ analysis \in [Requests -> [carga : 0 .. LastLoad, blocked : SUBSET Nat]]
  /\ graph \in [Requests -> [carga : 0 .. LastLoad, calles : Networks \cup {<<>>}]]
  /\ turns \in [Requests -> SUBSET (Nat \X Nat)]
  /\ answer \in [Requests -> {"none", "variant", "cut_not_matched", "unmatched", "coverage",
                              "no_detour", "context", "internal"}]
  /\ path \in [Requests -> Candidates \cup {<<>>}]

(* The two reads of Route fit together: the ids of the restrictions it      *)
(* applies are ids of the streets in its graph, although no statement       *)
(* reads both tables and a reload renumbers the streets.                    *)
GraphIsOfOneLoad ==
  \A r \in Requests : pc[r] = "search" => turns[r] \in {{}, Translated(graph[r].calles)}

(* The streets an analysis blocks are the ones its GraphLoadID says: as     *)
(* long as that load is active, they are the streets in the corridor.       *)
AnalysisIsOfItsLoad ==
  \A r \in Requests :
    (analysis[r].carga = carga /\ pc[r] # "analyze") =>
      analysis[r].blocked = {i \in Ids(calles) : calles[i] \in cut[r]}

(* However old the blocked ids are, no variant drives through the cut, nor  *)
(* through a turn that was forbidden when it was found.                     *)
VariantAvoidsCut ==
  \A r \in Requests :
    answer[r] = "variant" =>
      /\ \A i \in 1 .. Len(path[r]) : path[r][i] \notin cut[r]
      /\ turns[r] # {} =>
           \A i \in 1 .. Len(path[r]) - 1 : <<path[r][i], path[r][i + 1]>> \notin BannedTurns

Passable(r, priced) ==
  {c \in Candidates :
     /\ \A i \in 1 .. Len(c) : c[i] \in (Places(graph[r].calles) \cap priced) \ cut[r]
     /\ \A i \in 1 .. Len(c) - 1 : <<c[i], c[i + 1]>> \notin TurnsOf(r)}

(* Without a reload in between, the errors are true: "coverage" and         *)
(* "no detour" mean that no priced street, respectively no street at all,   *)
(* leads past the cut (docs/arquitectura_motor.md, 13.8).                   *)
IsolationIsReal ==
  \A r \in Requests :
    analysis[r].carga = graph[r].carga =>
      /\ answer[r] = "no_detour" => Passable(r, Streets) = {}
      /\ answer[r] = "coverage" => Passable(r, covered[r]) = {} /\ Passable(r, Streets) # {}

(* Requests and reload lock the tables in opposite orders, and still        *)
(* neither waits for ever.                                                  *)
NobodyWaitsForever ==
  /\ \A r \in Requests : <>(pc[r] = "done")
  /\ (reload = "truncating") ~> (reload = "idle")

(* "Trace reports the data and decisions used to generate a variant."       *)
(* (internal/simulation/detour/service.go): its GraphLoadID is the load the *)
(* variant was found on.  The code does not keep this.                      *)
TraceNamesTheGraph ==
  \A r \in Requests : answer[r] = "variant" => analysis[r].carga = graph[r].carga
===============================================================================
