--------------------------------- MODULE InitDB ---------------------------------
(***************************************************************************)
(* cmd/initdb: bootstrap.Run builds the schema vialis in a fixed sequence  *)
(* of transactions, after a guard on the schema's existence.  Runs may     *)
(* crash, fail, be repeated with or without --reset, and overlap: nothing  *)
(* but the database keeps them apart.                                      *)
(*                                                                         *)
(* The contents of a table are 0 (empty), 1 (what the input files give) or *)
(* 2 (anything else: rows twice, or rows derived from such).  Two of the   *)
(* seven GTFS files stand for all, h3 for the H3 columns of viajes, and    *)
(* idx_viajes_geom for the indexes that transformar_viajes.sql creates.    *)
(***************************************************************************)
EXTENDS Integers, Sequences

CONSTANTS
  Runs,        \* processes
  MaxStarts    \* bound: how often a process is started, all in all

ASSUME InitDBAssumption == MaxStarts \in Nat

-----------------------------------------------------------------------------
(* What a transaction does.  It creates tables that must not exist, drops   *)
(* and creates others, and adds to the tables it writes what it derives     *)
(* from the ones it reads, after emptying (or, with ON CONFLICT or UPDATE,  *)
(* overwriting) those it replaces.  It is refused when a table is missing,  *)
(* a key of a table in "keyed" would be there twice, or a foreign key into  *)
(* a table in "references" would find it empty.                             *)
Transaction ==
  [creates |-> {}, recreates |-> {}, reads |-> {}, replaces |-> {}, writes |-> {},
   keyed |-> {}, references |-> {}]

Load(table) == [Transaction EXCEPT !.writes = {table}]

Derive(table, sources) ==
  [Transaction EXCEPT !.replaces = {table}, !.writes = {table}, !.reads = sources]

Final ==
  {"calles", "restricciones", "recorridos", "conexiones", "viajes", "h3", "hexagonos",
   "matriz", "combinaciones_od", "combinaciones_lineas", "tarifas"}

GTFSRaw == {"gtfs_routes_raw", "gtfs_stop_times_raw"}

Tables ==
  Final \cup GTFSRaw \cup {"calles_raw", "restricciones_raw", "viajes_raw", "idx_viajes_geom"}

\* Mutant of DDL: DROP TABLE IF EXISTS before each CREATE TABLE.
DDLAgain == [Transaction EXCEPT !.recreates = Final]

DDL == [Transaction EXCEPT !.creates = Final]

(* osm2pgrouting --clean, on a connection of its own.                       *)
CleanStreets == [Transaction EXCEPT !.recreates = {"calles_raw"}]
FillStreets == Load("calles_raw")

TransformarCalles ==
  [Derive("calles", {"calles_raw"}) EXCEPT !.replaces = {"calles", "restricciones"}]

CrearRestriccionesRaw == [Transaction EXCEPT !.recreates = {"restricciones_raw"}]
CopyRestricciones == [Load("restricciones_raw") EXCEPT !.keyed = {"restricciones_raw"}]
TransformarRestricciones == Derive("restricciones", {"restricciones_raw", "calles"})

CrearGTFSRaw == [Transaction EXCEPT !.recreates = GTFSRaw]

(* Unique indexes on the staging tables, or the primary key of              *)
(* recorridos_paradas, refuse rows that were copied twice.                  *)
TransformarGTFS ==
  [Derive("recorridos", GTFSRaw) EXCEPT
     !.replaces = {"recorridos", "conexiones", "combinaciones_lineas"}, !.keyed = GTFSRaw]

ConexionesRecorridos == Derive("conexiones", {"recorridos"})

CrearViajesRaw == [Transaction EXCEPT !.creates = {"viajes_raw"}]

InsertViajes ==
  [Load("viajes") EXCEPT !.reads = {"viajes_raw"}, !.creates = {"idx_viajes_geom"}]

UpdateH3 == Derive("h3", {"viajes"})

HexagonosViajes == Derive("hexagonos", {"h3"})

MatrizOrigenDestino ==
  [Load("matriz") EXCEPT !.reads = {"h3"}, !.keyed = {"matriz"}, !.references = {"hexagonos"}]

CombinacionesOD == [Derive("combinaciones_od", {"h3"}) EXCEPT !.references = {"hexagonos"}]

CombinacionesLineas ==
  Derive("combinaciones_lineas", {"combinaciones_od", "hexagonos", "recorridos", "conexiones"})

InsertarTarifas == Derive("tarifas", {})

\* Mutant of Pipeline: the ranking before the transfer graph.
RankingFirst ==
  << DDL, CleanStreets, FillStreets, TransformarCalles,
     CrearRestriccionesRaw, CopyRestricciones, TransformarRestricciones,
     CrearGTFSRaw, Load("gtfs_routes_raw"), Load("gtfs_stop_times_raw"), TransformarGTFS,
     CrearViajesRaw, Load("viajes_raw"), InsertViajes, UpdateH3,
     HexagonosViajes, MatrizOrigenDestino, CombinacionesOD, CombinacionesLineas,
     ConexionesRecorridos, InsertarTarifas >>

\* Mutant of Pipeline: the matrix before the hexagons it references.
MatrizFirst ==
  << DDL, CleanStreets, FillStreets, TransformarCalles,
     CrearRestriccionesRaw, CopyRestricciones, TransformarRestricciones,
     CrearGTFSRaw, Load("gtfs_routes_raw"), Load("gtfs_stop_times_raw"), TransformarGTFS,
     ConexionesRecorridos, CrearViajesRaw, Load("viajes_raw"), InsertViajes, UpdateH3,
     MatrizOrigenDestino, HexagonosViajes, CombinacionesOD, CombinacionesLineas,
     InsertarTarifas >>

(* The transactions of steps() that follow the creation of the schema.      *)
Pipeline ==
  << DDL, CleanStreets, FillStreets, TransformarCalles,
     CrearRestriccionesRaw, CopyRestricciones, TransformarRestricciones,
     CrearGTFSRaw, Load("gtfs_routes_raw"), Load("gtfs_stop_times_raw"), TransformarGTFS,
     ConexionesRecorridos, CrearViajesRaw, Load("viajes_raw"), InsertViajes, UpdateH3,
     HexagonosViajes, MatrizOrigenDestino, CombinacionesOD, CombinacionesLineas,
     InsertarTarifas >>

-----------------------------------------------------------------------------
VARIABLES
  schema,       \* the schema vialis exists
  tables,       \* the tables in it
  rows,         \* their contents
  phase,        \* where a run stands
  done,         \* how many transactions of the pipeline it has committed
  reset,        \* it was started with --reset
  starts,       \* how often a process was started
  accompanied,  \* history: runs that another was under way with
  overlapped    \* history: runs that a DROP SCHEMA separated from their tables,
                \* the run that dropped, and runs started beside such a one

database == <<schema, tables, rows>>
history == <<accompanied, overlapped>>
vars == <<database, phase, done, reset, starts, history>>

Phases == {"guard", "drop", "create", "build", "built", "refused", "error", "crashed", "idle"}

UnderWay == {r \in Runs : phase[r] \in {"guard", "drop", "create", "build"}}

Init ==
  /\ schema = FALSE
  /\ tables = {}
  /\ rows = [t \in Tables |-> 0]
  /\ phase = [r \in Runs |-> "idle"]
  /\ done = [r \in Runs |-> 0]
  /\ reset = [r \in Runs |-> FALSE]
  /\ starts = 0
  /\ accompanied = {}
  /\ overlapped = {}

-----------------------------------------------------------------------------
(* Run has its connection and has checked its files.                        *)
Start(r) ==
  /\ r \notin UnderWay
  /\ starts < MaxStarts
  /\ starts' = starts + 1
  /\ phase' = [phase EXCEPT ![r] = "guard"]
  /\ done' = [done EXCEPT ![r] = 0]
  /\ \E wish \in BOOLEAN : reset' = [reset EXCEPT ![r] = wish]
  /\ accompanied' = IF UnderWay = {} THEN accompanied \ {r} ELSE accompanied \cup UnderWay \cup {r}
  /\ overlapped' = IF UnderWay \cap overlapped = {} THEN overlapped \ {r} ELSE overlapped \cup {r}
  /\ UNCHANGED database

\* Mutant of resolveExistingSchema: the schema is dropped whoever asks.
ResolvesToDrop(exists, wish) == IF exists THEN "drop" ELSE "create"

resolveExistingSchema(exists, wish) ==
  IF ~ exists THEN "create" ELSE IF wish THEN "drop" ELSE "refused"

(* prepareSchema reads the catalogue in a statement of its own ...          *)
Guard(r) ==
  /\ phase[r] = "guard"
  /\ phase' = [phase EXCEPT ![r] = resolveExistingSchema(schema, reset[r])]
  /\ UNCHANGED <<database, done, reset, starts, history>>

(* ... and drops what it has seen in a later one.                           *)
Drop(r) ==
  /\ phase[r] = "drop"
  /\ schema
  /\ schema' = FALSE
  /\ tables' = {}
  /\ rows' = [t \in Tables |-> 0]
  /\ phase' = [phase EXCEPT ![r] = "create"]
  /\ overlapped' = IF UnderWay = {r} THEN overlapped ELSE overlapped \cup UnderWay
  /\ UNCHANGED <<done, reset, starts, accompanied>>

(* init_db.sql: CREATE SCHEMA IF NOT EXISTS.                                *)
CreateSchema(r) ==
  /\ phase[r] = "create"
  /\ schema' = TRUE
  /\ phase' = [phase EXCEPT ![r] = "build"]
  /\ UNCHANGED <<tables, rows, done, reset, starts, history>>

Derived(tx) ==
  IF \A t \in tx.reads : rows[t] = 1 THEN 1
  ELSE IF \E t \in tx.reads : rows[t] = 0 THEN 0 ELSE 2

TwoAtMost(n) == IF n > 2 THEN 2 ELSE n

After(tx) ==
  [t \in Tables |->
     LET kept == IF t \in tx.recreates \cup tx.replaces THEN 0 ELSE rows[t] IN
     IF t \in tx.writes THEN TwoAtMost(kept + Derived(tx)) ELSE kept]

(* PostgreSQL accepts the transaction.                                      *)
Accepts(tx) ==
  /\ schema
  /\ tx.creates \cap tables = {}
  /\ tx.reads \cup tx.replaces \cup tx.writes \cup tx.keyed \cup tx.references \subseteq tables
  /\ \A t \in tx.keyed : After(tx)[t] < 2
  /\ Derived(tx) > 0 => \A t \in tx.references : rows[t] > 0

(* The next transaction of the pipeline commits; after the last one, Run    *)
(* returns nil and initdb exits with 0.                                     *)
Execute(r) ==
  /\ phase[r] = "build"
  /\ LET tx == Pipeline[done[r] + 1] IN
     /\ Accepts(tx)
     /\ tables' = tables \cup tx.creates \cup tx.recreates
     /\ rows' = After(tx)
  /\ done' = [done EXCEPT ![r] = @ + 1]
  /\ phase' = [phase EXCEPT ![r] = IF done'[r] = Len(Pipeline) THEN "built" ELSE "build"]
  /\ UNCHANGED <<schema, reset, starts, history>>

(* The database refuses a statement: Run returns the error.                 *)
StatementFails(r) ==
  /\ \/ phase[r] = "drop" /\ ~ schema
     \/ phase[r] = "build" /\ ~ Accepts(Pipeline[done[r] + 1])
  /\ phase' = [phase EXCEPT ![r] = "error"]
  /\ UNCHANGED <<database, done, reset, starts, history>>

(* A crash, a lost connection, Ctrl-C or a failing tool at any moment: the  *)
(* open transaction is rolled back, what was committed stays.               *)
Crash(r) ==
  /\ r \in UnderWay
  /\ phase' = [phase EXCEPT ![r] = "crashed"]
  /\ UNCHANGED <<database, done, reset, starts, history>>

Next ==
  \E r \in Runs :
    \/ Start(r) \/ Guard(r) \/ Drop(r) \/ CreateSchema(r)
    \/ Execute(r) \/ StatementFails(r) \/ Crash(r)

Spec == Init /\ [][Next]_vars

-----------------------------------------------------------------------------
TypeOK ==
  /\ schema \in BOOLEAN
  /\ tables \subseteq Tables
  /\ ~ schema => tables = {}
  /\ rows \in [Tables -> 0 .. 2]
  /\ \A t \in Tables \ tables : rows[t] = 0
  /\ phase \in [Runs -> Phases]
  /\ done \in [Runs -> 0 .. Len(Pipeline)]
  /\ reset \in [Runs -> BOOLEAN]
  /\ starts \in 0 .. MaxStarts
  /\ accompanied \subseteq Runs
  /\ overlapped \subseteq Runs

Complete ==
  /\ schema
  /\ Final \subseteq tables
  /\ \A t \in Final : rows[t] = 1

(* "The one order that produces a database the engine can query": a run     *)
(* that ends without an error leaves every table complete, whatever crashed *)
(* before it and whichever run without --reset came in between.             *)
RunsBuildAll ==
  [][\A r \in Runs :
       phase[r] = "build" /\ phase'[r] = "built" => Complete' \/ r \in overlapped]_vars

(* The guard: a complete database is lost only to a run with --reset, or to *)
(* what such a run left without its tables.                                 *)
OnlyResetDestroys ==
  [][Complete /\ ~ Complete' =>
       \/ \E r \in Runs : phase[r] = "drop" /\ reset[r]
       \/ UnderWay \cap overlapped # {}]_vars

(* Past ddl.sql a run is the only one, unless a schema was dropped under    *)
(* another: of two runs that both saw no schema, one fails at ddl.sql.      *)
OneBuilder ==
  \A r, s \in UnderWay \ overlapped :
    r # s /\ phase[r] = "build" /\ phase[s] = "build" => done[r] = 0 \/ done[s] = 0

(* Whatever a crash left behind, a run that is alone is never refused by    *)
(* the database: a --reset always recovers.                                 *)
AloneNeverErrs == \A r \in Runs : phase[r] = "error" => r \in accompanied

(* A run that ends without an error has built the database, whoever else    *)
(* ran initdb.  The code does not keep this.                                *)
SuccessMeansComplete ==
  [][\A r \in Runs : phase[r] = "build" /\ phase'[r] = "built" => Complete']_vars
================================================================================
