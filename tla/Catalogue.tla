------------------------------- MODULE Catalogue -------------------------------
(***************************************************************************)
(* The catalogue that GET /lines, GET /lines/{id}, POST /lines/similar and *)
(* GET /transfers read, while the scripts that derive its aggregates may   *)
(* run again on the database that serves it (sql/migrar_combinaciones.sql).*)
(*                                                                         *)
(* psql commits each statement of a script on its own, so a reader comes   *)
(* between a TRUNCATE and the INSERT that follows it, and goes on when the *)
(* INSERT is refused.  Only combinaciones_lineas.sql is one transaction,   *)
(* whose TRUNCATE locks readers out until it commits, and sets             *)
(* ON_ERROR_STOP.                                                          *)
(***************************************************************************)
EXTENDS Transfers, Lines

CONSTANTS
  Surveys,                            \* what vialis.viajes may hold
  NameOf,                             \* recorrido -> rank of (linea, ramal, direction_id)
  Searches,                           \* the sets of lines a search and a bbox select
  Sizes,                              \* the limits clients ask for
  DefaultPageSize, MaximumPageSize,
  WeakEvidence,                       \* TransfersWeakEvidenceAlternatives
  StoredLines,                        \* what find_line.sql may return
  Drawings, CandidateSets             \* drawn routes, and the lines measured against them

(* What ddl.sql keeps of its tables: foreign keys to cells and lines, and   *)
(* the primary keys of recorridos and of (id_recorrido, nro_parada).        *)
ASSUME CatalogueAssumption ==
  /\ Surveys \subseteq Seq([origen : Cells \cup {Null}, destino : Cells \cup {Null},
                           hora : Hours \cup {Null}, etapas : Nat, colectivo : Nat,
                           factor : Nat \cup {Null}])
  /\ NameOf \in [Recorridos -> Nat]
  /\ Searches \subseteq SUBSET Recorridos
  /\ Sizes \subseteq Int
  /\ DefaultPageSize \in Nat \ {0} /\ {MaximumPageSize, WeakEvidence} \subseteq Nat
  /\ StoredLines \subseteq Seq([id : Seq(Nat), nro : Nat, at : Places \cup {NoPlace},
                               path : Seq(Places)])
  /\ \A line \in StoredLines : \A i, j \in DOMAIN line : line[i].nro = line[j].nro => i = j
  /\ Drawings \subseteq Seq([at : Places, path : Seq(Places)])
  /\ \A S \in CandidateSets :
       /\ IsFiniteSet(S)
       /\ S \subseteq [id : Nat, near : BOOLEAN, stops : Nat, drawn : Nat, stored : Nat]
       /\ \A c, e \in S : c.id = e.id => c = e

VARIABLES
  viajes,       \* vialis.viajes
  conexiones,   \* vialis.conexiones_recorridos
  od,           \* vialis.combinaciones_od
  ranking,      \* vialis.combinaciones_lineas
  script,       \* the statement that runs next, or "rest"
  failed,       \* an INSERT of the last load was refused
  walk,         \* a client that reads a listing page by page
  steady,       \* no statement has run since the walk began, nor was due then
  reply         \* the answer to a request that is not a listing

tables == <<viajes, conexiones, od, ranking, script, failed>>
catalogueVars == <<tables, walk, steady, reply>>

Empty == <<>>     \* a truncated table

NoWalk == [on |-> "nothing", of |-> Null, limit |-> 0, offset |-> 0,
           seen |-> <<>>, total |-> 0, maximum |-> 0]
NoReply == [to |-> "nobody"]

CatalogueInit ==
  /\ viajes \in Surveys
  /\ conexiones = Conexiones
  /\ od = CombinacionesOD(viajes)
  /\ ranking = CombinacionesLineas(conexiones, od)
  /\ script = "rest"
  /\ failed = FALSE
  /\ walk = NoWalk
  /\ steady = FALSE
  /\ reply = NoReply

-----------------------------------------------------------------------------
(* The scripts, in the order migrar_combinaciones.sql and bootstrap.go run  *)
(* them.  A new survey was loaded before.                                   *)
Reload ==
  /\ script \in {"rest", "stopped"}
  /\ viajes' \in Surveys
  /\ script' = "truncate_conexiones"
  /\ failed' = FALSE
  /\ UNCHANGED <<conexiones, od, ranking>>

TruncateConexiones ==
  /\ script = "truncate_conexiones"
  /\ conexiones' = Empty
  /\ script' = "insert_conexiones"
  /\ UNCHANGED <<viajes, od, ranking, failed>>

InsertConexiones ==
  /\ script = "insert_conexiones"
  /\ conexiones' = Conexiones
  /\ script' = "truncate_od"
  /\ UNCHANGED <<viajes, od, ranking, failed>>

TruncateOD ==
  /\ script = "truncate_od"
  /\ od' = Empty
  /\ script' = "insert_od"
  /\ UNCHANGED <<viajes, conexiones, ranking, failed>>

InsertOD ==
  /\ script = "insert_od"
  /\ od' = CombinacionesOD(viajes)
  /\ script' = "rank"
  /\ UNCHANGED <<viajes, conexiones, ranking, failed>>

(* combinaciones_lineas.sql, from BEGIN to COMMIT.                          *)
Rank ==
  /\ script = "rank"
  /\ ranking' = CombinacionesLineas(conexiones, od)
  /\ script' = "rest"
  /\ UNCHANGED <<viajes, conexiones, od, failed>>

(* An INSERT that the database refuses leaves its table empty, and nothing  *)
(* stops the next statement.  (A TRUNCATE is not refused alone.)            *)
InsertFails ==
  /\ \/ script = "insert_conexiones" /\ script' = "truncate_od"
     \/ script = "insert_od" /\ script' = "rank"
  /\ failed' = TRUE
  /\ UNCHANGED <<viajes, conexiones, od, ranking>>

(* ON_ERROR_STOP in combinaciones_lineas.sql, a lost connection, an         *)
(* operator who gives up, bootstrap.go at any error: what was committed     *)
(* stays.                                                                   *)
Stop ==
  /\ script \notin {"rest", "stopped"}
  /\ script' = "stopped"
  /\ UNCHANGED <<viajes, conexiones, od, ranking, failed>>

Statement ==
  Reload \/ TruncateConexiones \/ InsertConexiones \/ TruncateOD \/ InsertOD \/ Rank

Load ==
  /\ Statement \/ InsertFails \/ Stop
  /\ reply = NoReply
  /\ steady' = FALSE
  /\ UNCHANGED <<walk, reply>>

-----------------------------------------------------------------------------
(* list_lines.sql.                                                          *)
\* Mutant of ListKey: linea, ramal and direction_id alone.
ListKeyWithoutId(r) == <<NameOf[r]>>

ListKey(r) == <<NameOf[r], r>>

(* The window functions are read from the rows of the page: an empty page   *)
(* says zero.                                                               *)
LinesPages(S, offset, limit) ==
  {[rows |-> page, total |-> IF page = <<>> THEN 0 ELSE Cardinality(S), maximum |-> 0] :
     page \in {Window(s, offset, limit) : s \in Orders(S, ListKey)}}

(* find_frequent_transfers.sql.  The joins come after the LIMIT; the one    *)
(* with conexiones_recorridos may drop rows.                                *)
RankKey(row) == <<-row.viajes, row.par[1], row.par[2]>>

OfHour(hora) == {row \in ranking : row.hora = hora}

Joined(page) == Filtered(page, LAMBDA row : row.par \in DOMAIN conexiones)

(* markEvidence.  alternativas_promedio is at least 1 and weighted by trips.*)
Marked(row) ==
  [par |-> row.par, viajes |-> row.viajes, pico |-> row.pico, zonas |-> row.zonas,
   weak |-> WeakEvidence > 0 /\ row.alternativas > WeakEvidence * row.viajes]

TransferPages(hora, offset, limit) ==
  LET S == OfHour(hora)
      rows(s) == Joined(Window(s, offset, limit))
  IN {[rows |-> [i \in DOMAIN page |-> Marked(page[i])],
       total |-> IF page = <<>> THEN 0 ELSE Cardinality(S),
       maximum |-> IF page = <<>> THEN 0 ELSE Max({row.viajes : row \in S})] :
         page \in {rows(s) : s \in Orders(S, RankKey)}}

Pages(on, of, offset, limit) ==
  IF on = "lines" THEN LinesPages(of, offset, limit) ELSE TransferPages(of, offset, limit)

(* One page is read and put after those already seen.  The client goes on   *)
(* from the limit the page says was applied, until its total.               *)
Read(w) ==
  \E page \in Pages(w.on, w.of, w.offset, w.limit) :
    walk' = [w EXCEPT !.offset = @ + w.limit,
                      !.seen = @ \o page.rows,
                      !.total = page.total,
                      !.maximum = Greater(@, page.maximum)]

(* The first page: search, bbox or hour, and a limit.                       *)
Ask ==
  /\ walk = NoWalk
  /\ \E size \in Sizes :
       LET limit == Clamped(size, DefaultPageSize, MaximumPageSize) IN
       \/ \E S \in Searches : Read([NoWalk EXCEPT !.on = "lines", !.of = S, !.limit = limit])
       \/ \E h \in Hours \cup {Null} : Read([NoWalk EXCEPT !.on = "transfers", !.of = h, !.limit = limit])
  /\ steady' = (script = "rest")

Walking == walk # NoWalk /\ walk.offset < walk.total
Walked == walk # NoWalk /\ walk.offset >= walk.total

TurnPage ==
  /\ Walking
  /\ Read(walk)
  /\ UNCHANGED steady

LeaveListing ==
  /\ walk # NoWalk
  /\ walk' = NoWalk
  /\ steady' = FALSE

Browse ==
  /\ Ask \/ TurnPage \/ LeaveListing
  /\ reply = NoReply
  /\ UNCHANGED <<tables, reply>>

-----------------------------------------------------------------------------
(* The other two requests read nothing the scripts write: they are asked    *)
(* between walks and loads.                                                 *)
GetLine ==
  \E rows \in StoredLines : reply' = [to |-> "line", rows |-> rows, got |-> Get(rows)]

FindSimilar ==
  \E drawing \in Drawings, candidates \in CandidateSets, size \in Sizes :
    IF ~ ValidDrawnRoute(drawing) THEN reply' = [to |-> "refused"]
    ELSE \E lines \in Shortlists(DrawnPath(drawing), candidates, ResultCount(size)) :
           reply' = [to |-> "similar", drawing |-> drawing, candidates |-> candidates,
                     size |-> size, lines |-> lines]

Request ==
  /\ script = "rest" /\ walk = NoWalk
  /\ IF reply = NoReply THEN GetLine \/ FindSimilar ELSE reply' = NoReply
  /\ UNCHANGED <<tables, walk, steady>>

CatalogueNext == Load \/ Browse \/ Request

CatalogueSpec == CatalogueInit /\ [][CatalogueNext]_catalogueVars

-----------------------------------------------------------------------------
(* The tables when nobody reads: readers change nothing in them.            *)
Quiet == script = "rest" /\ walk = NoWalk /\ reply = NoReply

HoursOf(hora) == IF hora = Null THEN Hours ELSE {hora}

(* At rest the ranking is the split of the survey: what a pair of lines is  *)
(* given, for every hour and for the day, is its share of every flow it     *)
(* could have carried, and no pair is ranked that could carry none,         *)
(* whatever statements were stopped and run again before.  After a load     *)
(* with a refused INSERT the ranking is empty, never one of old tables.     *)
RankingIsTheSplit ==
  Quiet =>
    IF failed THEN ranking = {}
    ELSE \A p \in Recorridos \X Recorridos :
      LET rows(hora) == {row \in ranking : row.par = p /\ row.hora = hora}
          carried == {f \in Flows : <<p, f>> \in Journeys}
      IN \A hora \in Hours \cup {Null} :
           /\ MapThenSumSet(LAMBDA row : row.viajes, rows(hora))
                = MapThenSumSet(LAMBDA f : Share(viajes, p, f, HoursOf(hora)), carried)
           /\ rows(hora) # {} => carried # {}

(* "Existe para que el origen y el destino salgan del MISMO viaje"          *)
(* (combinaciones_lineas.sql, step 5b): the zones of a row are a flow that  *)
(* the pair carries, and it carries no larger one.  Other lines promise the *)
(* zones of ZonesAreBusiestOnEachSide, which may be others.                 *)
ZonesAreOneFlow ==
  Quiet =>
    \A row \in ranking :
      LET share(f) == Share(viajes, row.par, f, HoursOf(row.hora)) IN
      /\ <<row.par, row.zonas>> \in Journeys
      /\ \A f \in Flows : share(f) <= share(row.zonas)

(* Origin and Destination are "the cell that concentrates the most trips on *)
(* each side" (combinaciones.go; ddl.sql and combinaciones_lineas.sql say   *)
(* the same).  The code does not keep this: it takes the largest single     *)
(* flow.                                                                    *)
ZonesAreBusiestOnEachSide ==
  Quiet =>
    \A row \in ranking :
      LET share(f) == Share(viajes, row.par, f, HoursOf(row.hora))
          from(c) == MapThenSumSet(LAMBDA d : share(<<c, d>>), Cells)
          to(c) == MapThenSumSet(LAMBDA o : share(<<o, c>>), Cells)
      IN \A c \in Cells : from(c) <= from(row.zonas[1]) /\ to(c) <= to(row.zonas[2])


(* "Dos paginas consecutivas de la misma consulta tienen que ser dos        *)
(* ventanas de la misma lista": whoever walks a listing that nothing        *)
(* disturbs sees every row once, the largest first, and the true total and  *)
(* maximum.                                                                 *)
PagesAreTheRanking ==
  steady /\ Walked =>
    LET n == Len(walk.seen)
        S == OfHour(walk.of)
    IN /\ \A i, j \in 1..n : i # j => walk.seen[i] # walk.seen[j]
       /\ n > 0 => walk.total = n
       /\ walk.on = "lines" => ToSet(walk.seen) = walk.of
       /\ walk.on = "transfers" =>
            /\ ToSet(walk.seen) = {Marked(row) : row \in S}
            /\ \A i \in 1..(n - 1) : walk.seen[i].viajes >= walk.seen[i + 1].viajes
            /\ n > 0 => walk.maximum = walk.seen[1].viajes

(* A shortlist leaves out nothing that is better than what it reports in    *)
(* its weaker direction, and asking for more widens the same list           *)
(* (similarity.go).                                                         *)
ShortlistIsBest ==
  reply.to = "similar" =>
    LET path == DrawnPath(reply.drawing)
        n == ResultCount(reply.size)
    IN /\ \A c \in Similar(path, reply.candidates) \ ToSet(reply.lines), i \in DOMAIN reply.lines :
            Weakest(path, c) <= Weakest(path, reply.lines[i])
       /\ \A longer \in Shortlists(path, reply.candidates, n + 1) : Window(longer, 0, n) = reply.lines

(* A line is exported when it can be simulated as it is: every segment is   *)
(* stored, runs forward and ends near its stops, and no two stops in a row  *)
(* are in one place.  What is exported is sound that way and only had its   *)
(* ends moved, by the tolerance at most; or a path runs backwards, and then *)
(* nothing of it was moved and it ends where Validate allows, near the      *)
(* stops.  (A GTFS id that looks like a suffixed one may cost a line its    *)
(* export.)                                                                 *)
ExportsAreFaithful ==
  reply.to = "line" /\ reply.rows # <<>> =>
    LET stops == StoredStops(reply.rows)
        segments == 1..(Len(stops) - 1)
        exported == reply.got.route
        sound(i) ==
          LET path == stops[i].path
              o == stops[i].at
              d == stops[i + 1].at
          IN /\ Len(path) >= 2
             /\ Backward(path, o, d) >= Forward(path, o, d)
             /\ Meters(Head(path), o) <= AlignmentTolerance
             /\ Meters(Last(path), d) <= AlignmentTolerance
    IN /\ reply.got.status = "ok" =>
            /\ Len(exported) = Len(stops)
            /\ \A i, j \in DOMAIN exported : exported[i].id = exported[j].id => i = j
            /\ \A i \in segments :
                 \/ /\ sound(i)
                    /\ Len(exported[i].path) = Len(stops[i].path)
                    /\ Head(exported[i].path) = exported[i].at
                    /\ Last(exported[i].path) = exported[i + 1].at
                    /\ \A k \in 2..(Len(stops[i].path) - 1) : exported[i].path[k] = stops[i].path[k]
                 \/ /\ Backward(stops[i].path, stops[i].at, stops[i + 1].at)
                         < Forward(stops[i].path, stops[i].at, stops[i + 1].at)
                    /\ exported[i].path = stops[i].path
                    /\ Meters(Head(stops[i].path), stops[i].at) <= EndpointTolerance
                    /\ Meters(Last(stops[i].path), stops[i + 1].at) <= EndpointTolerance
       /\ /\ Len(stops) >= 2
          /\ \A i \in segments : sound(i)
          /\ \A i \in segments : stops[i].at # stops[i + 1].at
          /\ \A i \in DOMAIN stops : Len(stops[i].id) = 1
          => reply.got.status = "ok"

(* "Leave reversed paths untouched so route validation can reject them"     *)
(* (alignment.go): no exported path runs backwards.  The code does not keep *)
(* this: Validate refuses such a path only when both its ends are near the  *)
(* opposite stops.                                                          *)
BackwardPathsAreRefused ==
  reply.to = "line" /\ reply.got.status = "ok" =>
    LET stops == StoredStops(reply.rows) IN
    \A i \in 1..(Len(stops) - 1) : ~ Reversed(stops[i].path, stops[i].at, stops[i + 1].at)
=============================================================================
