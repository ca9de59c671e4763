----------------------------- MODULE InitDBProofs -----------------------------
(***************************************************************************)
(* Theorems about InitDB, for any number of processes and starts.          *)
(***************************************************************************)
EXTENDS InitDB, TLAPS

(* The transaction that creates a table and the one that fills it.          *)
MadeAt(t) ==
  CASE t = "calles_raw" -> 2
    [] t = "restricciones_raw" -> 5
    [] t \in GTFSRaw -> 8
    [] t = "viajes_raw" -> 13
    [] t = "idx_viajes_geom" -> 15
    [] OTHER -> 1

FilledAt(t) ==
  CASE t = "calles_raw" -> 3
    [] t = "calles" -> 4
    [] t = "restricciones_raw" -> 6
    [] t = "restricciones" -> 7
    [] t = "gtfs_routes_raw" -> 9
    [] t = "gtfs_stop_times_raw" -> 10
    [] t = "recorridos" -> 11
    [] t = "conexiones" -> 12
    [] t = "viajes_raw" -> 14
    [] t = "viajes" -> 15
    [] t = "h3" -> 16
    [] t = "hexagonos" -> 17
    [] t = "matriz" -> 18
    [] t = "combinaciones_od" -> 19
    [] t = "combinaciones_lineas" -> 20
    [] t = "tarifas" -> 21
    [] OTHER -> 22

(* A transaction stands at place i: it reads and refers to what is filled,  *)
(* it fills what is there and empty, it empties nothing that is filled.     *)
InPlace(i, tx) ==
  /\ tx.reads \cup tx.references \cup tx.replaces \cup tx.keyed \subseteq Tables
  /\ tx.writes = {t \in Tables : FilledAt(t) = i}
  /\ tx.creates \cup tx.recreates = {t \in Tables : MadeAt(t) = i}
  /\ \A t \in tx.reads \cup tx.references : FilledAt(t) < i /\ MadeAt(t) < i
  /\ \A t \in tx.replaces : FilledAt(t) >= i /\ MadeAt(t) < i
  /\ \A t \in tx.writes \cup tx.keyed : MadeAt(t) < i
  /\ \A t \in tx.recreates : FilledAt(t) > i

LEMMA TransactionsInPlace ==
  /\ InPlace(1, DDL)
  /\ InPlace(2, CleanStreets) /\ InPlace(3, FillStreets) /\ InPlace(4, TransformarCalles)
  /\ InPlace(5, CrearRestriccionesRaw) /\ InPlace(6, CopyRestricciones)
  /\ InPlace(7, TransformarRestricciones) /\ InPlace(8, CrearGTFSRaw)
  /\ InPlace(9, Load("gtfs_routes_raw")) /\ InPlace(10, Load("gtfs_stop_times_raw"))
  /\ InPlace(11, TransformarGTFS) /\ InPlace(12, ConexionesRecorridos)
  /\ InPlace(13, CrearViajesRaw) /\ InPlace(14, Load("viajes_raw")) /\ InPlace(15, InsertViajes)
  /\ InPlace(16, UpdateH3) /\ InPlace(17, HexagonosViajes) /\ InPlace(18, MatrizOrigenDestino)
  /\ InPlace(19, CombinacionesOD) /\ InPlace(20, CombinacionesLineas)
  /\ InPlace(21, InsertarTarifas)
<1> USE DEF InPlace, Transaction, Tables, Final, GTFSRaw, MadeAt, FilledAt
<1>1. InPlace(1, DDL)
  BY DEF DDL
<1>2. InPlace(2, CleanStreets)
  BY DEF CleanStreets
<1>3. InPlace(3, FillStreets)
  BY DEF FillStreets, Load
<1>4. InPlace(4, TransformarCalles)
  BY DEF TransformarCalles, Derive
<1>5. InPlace(5, CrearRestriccionesRaw)
  BY DEF CrearRestriccionesRaw
<1>6. InPlace(6, CopyRestricciones)
  BY DEF CopyRestricciones, Load
<1>7. InPlace(7, TransformarRestricciones)
  BY DEF TransformarRestricciones, Derive
<1>8. InPlace(8, CrearGTFSRaw)
  BY DEF CrearGTFSRaw
<1>9. InPlace(9, Load("gtfs_routes_raw"))
  BY DEF Load
<1>10. InPlace(10, Load("gtfs_stop_times_raw"))
  BY DEF Load
<1>11. InPlace(11, TransformarGTFS)
  BY DEF TransformarGTFS, Derive
<1>12. InPlace(12, ConexionesRecorridos)
  BY DEF ConexionesRecorridos, Derive
<1>13. InPlace(13, CrearViajesRaw)
  BY DEF CrearViajesRaw
<1>14. InPlace(14, Load("viajes_raw"))
  BY DEF Load
<1>15. InPlace(15, InsertViajes)
  BY DEF InsertViajes, Load
<1>16. InPlace(16, UpdateH3)
  BY DEF UpdateH3, Derive
<1>17. InPlace(17, HexagonosViajes)
  BY DEF HexagonosViajes, Derive
<1>18. InPlace(18, MatrizOrigenDestino)
  BY DEF MatrizOrigenDestino, Load
<1>19. InPlace(19, CombinacionesOD)
  BY DEF CombinacionesOD, Derive
<1>20. InPlace(20, CombinacionesLineas)
  BY DEF CombinacionesLineas, Derive
<1>21. InPlace(21, InsertarTarifas)
  BY DEF InsertarTarifas, Derive
<1> QED
  <2> USE DEF InPlace
  <2> HIDE DEF InPlace, Transaction, Tables, Final, GTFSRaw, MadeAt, FilledAt
  <2> QED
    BY <1>1, <1>2, <1>3, <1>4, <1>5, <1>6, <1>7, <1>8, <1>9, <1>10, <1>11, <1>12, <1>13, <1>14,
       <1>15, <1>16, <1>17, <1>18, <1>19, <1>20, <1>21

LEMMA PipelineFacts ==
  /\ Len(Pipeline) = 21
  /\ Pipeline[1] = DDL
  /\ \A i \in 1 .. 21 : InPlace(i, Pipeline[i])
<1>1. Len(Pipeline) = 21 /\ Pipeline[1] = DDL
  BY DEF Pipeline
<1>2. ASSUME NEW i \in 1 .. 21 PROVE InPlace(i, Pipeline[i])
  <2>1. CASE i \in 1 .. 7
    <3>1. i = 1 \/ i = 2 \/ i = 3 \/ i = 4 \/ i = 5 \/ i = 6 \/ i = 7
      BY <2>1
    <3> QED
      BY <3>1, TransactionsInPlace DEF Pipeline
  <2>2. CASE i \in 8 .. 14
    <3>1. i = 8 \/ i = 9 \/ i = 10 \/ i = 11 \/ i = 12 \/ i = 13 \/ i = 14
      BY <2>2
    <3> QED
      BY <3>1, TransactionsInPlace DEF Pipeline
  <2>3. CASE i \in 15 .. 21
    <3>1. i = 15 \/ i = 16 \/ i = 17 \/ i = 18 \/ i = 19 \/ i = 20 \/ i = 21
      BY <2>3
    <3> QED
      BY <3>1, TransactionsInPlace DEF Pipeline
  <2> QED
    BY <2>1, <2>2, <2>3
<1> QED
  BY <1>1, <1>2

-----------------------------------------------------------------------------
(* A run that has not got to ddl.sql has committed nothing; one that drops  *)
(* was told to.                                                             *)
RunInv ==
  \A r \in Runs :
    /\ phase[r] \in {"guard", "drop", "create"} => done[r] = 0
    /\ phase[r] = "build" => done[r] < 21
    /\ phase[r] = "drop" => reset[r]

TypeInv == TypeOK /\ RunInv

LEMMA DerivedType == ASSUME NEW tx PROVE Derived(tx) \in 0 .. 2
BY DEF Derived

LEMMA AfterType ==
  ASSUME TypeOK, NEW tx
  PROVE  /\ After(tx) \in [Tables -> 0 .. 2]
         /\ \A t \in Tables \ tx.writes :
              After(tx)[t] = IF t \in tx.recreates \cup tx.replaces THEN 0 ELSE rows[t]
BY DerivedType DEF After, TwoAtMost, TypeOK

(* What the next transaction of a run does to the database.                 *)
LEMMA Executed ==
  ASSUME TypeInv, NEW r \in Runs, Execute(r)
  PROVE  /\ done[r] \in 0 .. 20
         /\ InPlace(done[r] + 1, Pipeline[done[r] + 1])
         /\ Accepts(Pipeline[done[r] + 1])
         /\ rows' = After(Pipeline[done[r] + 1])
         /\ tables' = tables \cup {t \in Tables : MadeAt(t) = done[r] + 1}
         /\ schema /\ schema'
         /\ phase[r] = "build"
         /\ phase' = [phase EXCEPT ![r] = IF done[r] = 20 THEN "built" ELSE "build"]
         /\ done' = [done EXCEPT ![r] = done[r] + 1]
         /\ UNCHANGED <<reset, starts, history>>
<1> DEFINE tx == Pipeline[done[r] + 1]
<1>1. done[r] \in 0 .. 20
  BY PipelineFacts DEF TypeInv, TypeOK, RunInv, Execute
<1>2. InPlace(done[r] + 1, tx)
  BY <1>1, PipelineFacts
<1>3. Accepts(tx) /\ rows' = After(tx) /\ tables' = tables \cup tx.creates \cup tx.recreates
  BY DEF Execute
<1>4. tables' = tables \cup {t \in Tables : MadeAt(t) = done[r] + 1}
  BY <1>2, <1>3 DEF InPlace
<1>5. done' = [done EXCEPT ![r] = done[r] + 1] /\ done'[r] = done[r] + 1
  BY DEF Execute, TypeInv, TypeOK
<1>6. phase' = [phase EXCEPT ![r] = IF done[r] = 20 THEN "built" ELSE "build"]
  <2>1. done'[r] = 21 <=> done[r] = 20
    BY <1>1, <1>5
  <2>2. phase' = [phase EXCEPT ![r] = IF done'[r] = 21 THEN "built" ELSE "build"]
    BY PipelineFacts DEF Execute
  <2> QED
    BY <2>1, <2>2
<1> QED
  BY <1>1, <1>2, <1>3, <1>4, <1>5, <1>6 DEF Execute, Accepts

LEMMA TypeInit == Init => TypeInv
<1> SUFFICES ASSUME Init PROVE TypeInv
  OBVIOUS
<1>1. schema = FALSE /\ tables = {}
  BY DEF Init
<1>2. schema \in BOOLEAN /\ (~ schema => tables = {}) /\ tables \subseteq Tables
  BY <1>1
<1>3. /\ rows = [t \in Tables |-> 0]
      /\ phase = [r \in Runs |-> "idle"] /\ done = [r \in Runs |-> 0]
      /\ reset = [r \in Runs |-> FALSE] /\ starts = 0 /\ accompanied = {} /\ overlapped = {}
  BY DEF Init
<1>4. reset \in [Runs -> BOOLEAN]
  BY <1>3
<1>5. RunInv
  BY <1>3 DEF RunInv
<1> QED
  BY <1>2, <1>3, <1>4, <1>5, InitDBAssumption, PipelineFacts DEF TypeInv, TypeOK, Phases

LEMMA TypeStep == TypeInv /\ [Next]_vars => TypeInv'
<1> SUFFICES ASSUME TypeInv, [Next]_vars PROVE TypeInv'
  OBVIOUS
<1> USE InitDBAssumption DEF TypeInv, database, history, Phases
<1>1. ASSUME NEW r \in Runs, Start(r) PROVE TypeInv'
  BY <1>1 DEF Start, UnderWay, TypeOK, RunInv
<1>2. ASSUME NEW r \in Runs, Guard(r) PROVE TypeInv'
  BY <1>2 DEF Guard, resolveExistingSchema, TypeOK, RunInv
<1>3. ASSUME NEW r \in Runs, Drop(r) PROVE TypeInv'
  <2>1. /\ schema' = FALSE /\ tables' = {} /\ rows' = [t \in Tables |-> 0]
        /\ phase' = [phase EXCEPT ![r] = "create"] /\ phase[r] = "drop"
        /\ UNCHANGED <<done, reset, starts, accompanied>>
    BY <1>3 DEF Drop
  <2>2. overlapped' \subseteq Runs
    BY <1>3 DEF Drop, UnderWay, TypeOK
  <2>3. RunInv'
    BY <2>1 DEF TypeOK, RunInv
  <2>4. schema' \in BOOLEAN /\ (~ schema' => tables' = {}) /\ tables' \subseteq Tables
    BY <2>1
  <2>5. rows' \in [Tables -> 0 .. 2] /\ \A t \in Tables \ tables' : rows'[t] = 0
    BY <2>1
  <2>6. phase' \in [Runs -> Phases]
    BY <2>1 DEF TypeOK
  <2> QED
    BY <2>1, <2>2, <2>3, <2>4, <2>5, <2>6 DEF TypeOK
<1>4. ASSUME NEW r \in Runs, CreateSchema(r) PROVE TypeInv'
  BY <1>4 DEF CreateSchema, TypeOK, RunInv
<1>5. ASSUME NEW r \in Runs, Execute(r) PROVE TypeInv'
  <2> DEFINE tx == Pipeline[done[r] + 1]
  <2>0. /\ done[r] \in 0 .. 20 /\ phase[r] = "build" /\ UNCHANGED <<reset, starts, history>>
        /\ phase' = [phase EXCEPT ![r] = IF done[r] = 20 THEN "built" ELSE "build"]
        /\ done' = [done EXCEPT ![r] = done[r] + 1]
        /\ rows' = After(tx) /\ Accepts(tx) /\ schema'
        /\ \A t \in tx.recreates : t \in Tables => t \in tables'
    BY <1>5, Executed DEF InPlace
  <2>1. rows' \in [Tables -> 0 .. 2] /\ tables \subseteq tables' /\ tables' \subseteq Tables
    BY <1>5, Executed, AfterType DEF TypeOK
  <2>2. \A t \in Tables \ tables' : t \notin tx.writes /\ rows[t] = 0
    BY <1>5, <2>1, Executed DEF Accepts, TypeOK
  <2>3. \A t \in Tables \ tables' : rows'[t] = 0
    BY <2>0, <2>2, AfterType
  <2>4. done \in [Runs -> 0 .. 21]
    BY PipelineFacts DEF TypeOK
  <2>5. phase' \in [Runs -> Phases]
    BY <2>0 DEF TypeOK
  <2>7. done[r] + 1 \in 0 .. 21
    BY <2>0
  <2>8. done' \in [Runs -> 0 .. 21]
    BY <2>0, <2>4, <2>7
  <2>6. RunInv'
    BY <2>0, <2>4 DEF TypeOK, RunInv
  <2> QED
    BY <2>0, <2>1, <2>3, <2>5, <2>6, <2>8, PipelineFacts DEF TypeOK
<1>6. ASSUME NEW r \in Runs, StatementFails(r) PROVE TypeInv'
  BY <1>6 DEF StatementFails, TypeOK, RunInv
<1>7. ASSUME NEW r \in Runs, Crash(r) PROVE TypeInv'
  BY <1>7 DEF Crash, TypeOK, RunInv
<1>8. CASE UNCHANGED vars
  BY <1>8 DEF vars, TypeOK, RunInv
<1> QED
  BY <1>1, <1>2, <1>3, <1>4, <1>5, <1>6, <1>7, <1>8 DEF Next

(* Every reachable state is well typed; without a schema there is no table, *)
(* and a table that is not there has no rows.                               *)
THEOREM TypeCorrect == Spec => []TypeOK
<1>1. TypeInv => TypeOK
  BY DEF TypeInv
<1> QED
  BY <1>1, TypeInit, TypeStep, PTL DEF Spec

-----------------------------------------------------------------------------
(* What a DROP SCHEMA has not separated from its tables.  A run that has    *)
(* yet to create them finds none or all; one that has created them finds    *)
(* exactly what it has committed so far.                                    *)
Sole == UnderWay \ overlapped

Progress(there, contents, k) ==
  /\ there = {t \in Tables : MadeAt(t) <= k}
  /\ contents = [t \in Tables |-> IF FilledAt(t) <= k THEN 1 ELSE 0]

SoleInv ==
  /\ UnderWay \cap overlapped # {} => UnderWay \subseteq overlapped
  /\ OneBuilder
  /\ \A r \in Sole :
       /\ phase[r] \in {"create", "build"} /\ done[r] = 0 => tables = {} \/ Final \subseteq tables
       /\ phase[r] = "build" /\ done[r] > 0 => Progress(tables, rows, done[r])

AloneInv ==
  /\ AloneNeverErrs
  /\ \A r \in UnderWay \ accompanied :
       /\ UnderWay = {r}
       /\ r \notin overlapped
       /\ phase[r] \in {"drop", "build"} => schema
       /\ phase[r] \in {"create", "build"} /\ done[r] = 0 => tables = {}

LEMMA Places ==
  /\ \A t \in Tables : MadeAt(t) \in 1 .. 15 /\ FilledAt(t) \in 3 .. 22
  /\ \A t \in Final : t \in Tables /\ MadeAt(t) = 1 /\ FilledAt(t) \in 3 .. 21
  /\ "tarifas" \in Final /\ FilledAt("tarifas") = 21
BY DEF MadeAt, FilledAt, Tables, Final, GTFSRaw

(* A transaction in its place, on what the ones before it have left: the    *)
(* database accepts it, and goes on by one place.                           *)
LEMMA Advances ==
  ASSUME NEW k \in 0 .. 20, NEW tx, InPlace(k + 1, tx), Progress(tables, rows, k)
  PROVE  /\ schema => Accepts(tx)
         /\ After(tx) = [t \in Tables |-> IF FilledAt(t) <= k + 1 THEN 1 ELSE 0]
         /\ tables \cup {t \in Tables : MadeAt(t) = k + 1} = {t \in Tables : MadeAt(t) <= k + 1}
<1>1. \A t \in Tables : MadeAt(t) \in Int /\ FilledAt(t) \in Int
  BY Places
<1>2. Derived(tx) = 1
  BY <1>1 DEF InPlace, Progress, Derived
<1>3. After(tx) = [t \in Tables |-> IF FilledAt(t) <= k + 1 THEN 1 ELSE 0]
  <2>1. ASSUME NEW t \in Tables
        PROVE After(tx)[t] = IF FilledAt(t) <= k + 1 THEN 1 ELSE 0
    <3>1. CASE FilledAt(t) = k + 1
      <4>1. t \in tx.writes /\ rows[t] = 0
        BY <1>1, <3>1 DEF InPlace, Progress
      <4> QED
        BY <4>1, <3>1, <1>2 DEF After, TwoAtMost
    <3>2. CASE FilledAt(t) # k + 1
      <4>1. t \notin tx.writes
        BY <3>2 DEF InPlace
      <4>2. t \in tx.recreates \cup tx.replaces => FilledAt(t) > k + 1
        BY <1>1, <3>2 DEF InPlace
      <4>3. rows[t] = IF FilledAt(t) <= k + 1 THEN 1 ELSE 0
        BY <1>1, <3>2 DEF Progress
      <4> QED
        BY <4>1, <4>2, <4>3, <1>1 DEF After
    <3> QED
      BY <3>1, <3>2
  <2> QED
    BY <2>1 DEF After
<1>4. tables \cup {t \in Tables : MadeAt(t) = k + 1} = {t \in Tables : MadeAt(t) <= k + 1}
  BY <1>1 DEF Progress
<1>5. ASSUME schema PROVE Accepts(tx)
  <2>1. tx.creates \cap tables = {}
    BY <1>1 DEF InPlace, Progress
  <2>2. tx.reads \cup tx.replaces \cup tx.writes \cup tx.keyed \cup tx.references \subseteq tables
    BY <1>1 DEF InPlace, Progress
  <2>3. \A t \in tx.keyed : After(tx)[t] < 2
    BY <1>3 DEF InPlace
  <2>4. \A t \in tx.references : rows[t] > 0
    BY <1>1 DEF InPlace, Progress
  <2> QED
    BY <1>5, <2>1, <2>2, <2>3, <2>4 DEF Accepts
<1> QED
  BY <1>3, <1>4, <1>5

(* Before ddl.sql there is nothing to progress from but the empty schema.   *)
LEMMA NothingYet == ASSUME TypeOK, tables = {} PROVE Progress(tables, rows, 0)
<1>1. rows = [t \in Tables |-> 0]
  BY DEF TypeOK
<1> QED
  BY <1>1, Places DEF Progress

(* ddl.sql is refused where its tables are.                                 *)
LEMMA DDLNeedsNone == ASSUME Accepts(DDL), tables = {} \/ Final \subseteq tables PROVE tables = {}
BY Places DEF Accepts, DDL, Transaction

LEMMA SoleInit == Init => SoleInv
BY DEF Init, SoleInv, Sole, UnderWay, OneBuilder


(* A run no DROP SCHEMA came near executes its next transaction: it has its *)
(* predecessors' work before it, and leaves that and its own.               *)
LEMMA SoleExecutes ==
  ASSUME TypeInv, SoleInv, NEW r \in Sole, Execute(r)
  PROVE  Progress(tables, rows, done[r]) /\ Progress(tables', rows', done[r] + 1)
<1> DEFINE k == done[r]
           tx == Pipeline[k + 1]
<1>0. r \in Runs
  BY DEF Sole, UnderWay
<1>1. /\ k \in 0 .. 20 /\ phase[r] = "build" /\ InPlace(k + 1, tx) /\ Accepts(tx)
      /\ rows' = After(tx) /\ tables' = tables \cup {t \in Tables : MadeAt(t) = k + 1}
  BY <1>0, Executed
<1>2. Progress(tables, rows, k)
  <2>1. CASE k = 0
    <3>1. tx = DDL
      BY <2>1, PipelineFacts
    <3>2. tables = {} \/ Final \subseteq tables
      BY <1>1, <2>1 DEF SoleInv
    <3> QED
      BY <1>1, <2>1, <3>1, <3>2, DDLNeedsNone, NothingYet DEF TypeInv
  <2>2. CASE k > 0
    BY <1>1, <2>2 DEF SoleInv
  <2> QED
    BY <1>1, <2>1, <2>2
<1>3. /\ rows' = [t \in Tables |-> IF FilledAt(t) <= k + 1 THEN 1 ELSE 0]
      /\ tables' = {t \in Tables : MadeAt(t) <= k + 1}
  BY <1>1, <1>2, Advances
<1> QED
  BY <1>2, <1>3 DEF Progress

(* A step that changes no table and at most creates the schema or ends a    *)
(* run keeps the invariant.                                                 *)
LEMMA SoleKept ==
  ASSUME SoleInv, UNCHANGED <<tables, rows, done, overlapped>>,
         UnderWay' \subseteq UnderWay,
         \A s \in UnderWay' : \/ phase'[s] = phase[s]
                              \/ phase'[s] = "build" /\ phase[s] = "create" /\ done[s] = 0
  PROVE  SoleInv'
BY DEF SoleInv, Sole, OneBuilder, Progress

LEMMA SoleStep == TypeInv /\ SoleInv /\ [Next]_vars => SoleInv'
<1> SUFFICES ASSUME TypeInv, SoleInv, [Next]_vars PROVE SoleInv'
  OBVIOUS
<1>1. ASSUME NEW r \in Runs, Start(r) PROVE SoleInv'
  <2>1. /\ r \notin UnderWay
        /\ phase' = [phase EXCEPT ![r] = "guard"] /\ done' = [done EXCEPT ![r] = 0]
        /\ overlapped' = IF UnderWay \cap overlapped = {} THEN overlapped \ {r}
                         ELSE overlapped \cup {r}
        /\ UNCHANGED database
    BY <1>1 DEF Start
  <2>2. UnderWay' = UnderWay \cup {r}
    BY <2>1 DEF UnderWay, TypeInv, TypeOK
  <2>3. \A s \in Sole' : s # r => s \in Sole /\ phase'[s] = phase[s] /\ done'[s] = done[s]
    BY <2>1, <2>2 DEF Sole, UnderWay, TypeInv, TypeOK
  <2>4. phase'[r] = "guard"
    BY <2>1 DEF TypeInv, TypeOK
  <2>5. UnderWay' \cap overlapped' # {} => UnderWay' \subseteq overlapped'
    BY <2>1, <2>2 DEF SoleInv
  <2>6. OneBuilder'
    BY <2>3, <2>4 DEF SoleInv, OneBuilder, Sole
  <2>7. tables' = tables /\ rows' = rows
    BY <2>1 DEF database
  <2> QED
    BY <2>3, <2>4, <2>5, <2>6, <2>7 DEF SoleInv, Progress
<1>2. ASSUME NEW r \in Runs, Guard(r) PROVE SoleInv'
  <2>1. /\ UNCHANGED <<schema, tables, rows, done, reset, starts, overlapped>>
        /\ phase[r] = "guard" /\ done[r] = 0
        /\ phase' = [phase EXCEPT ![r] = resolveExistingSchema(schema, reset[r])]
        /\ phase \in [Runs -> Phases] /\ (~ schema => tables = {})
    BY <1>2 DEF Guard, database, history, TypeInv, TypeOK, RunInv
  <2>2. UnderWay' \subseteq UnderWay
    BY <2>1 DEF UnderWay
  <2>3. \A s \in Runs : s # r => phase'[s] = phase[s]
    BY <2>1
  <2>4. phase'[r] \in {"create", "drop", "refused"} /\ (phase'[r] = "create" => tables = {})
    BY <2>1 DEF resolveExistingSchema
  <2>5. Sole' \subseteq Sole
    BY <2>1, <2>2 DEF Sole
  <2>6. OneBuilder'
    BY <2>1, <2>3, <2>4, <2>5 DEF SoleInv, OneBuilder, Sole
  <2>7. ASSUME NEW s \in Sole'
        PROVE /\ phase'[s] \in {"create", "build"} /\ done'[s] = 0
                   => tables' = {} \/ Final \subseteq tables'
              /\ phase'[s] = "build" /\ done'[s] > 0 => Progress(tables', rows', done'[s])
    <3>1. CASE s = r
      BY <2>1, <2>4, <3>1
    <3>2. CASE s # r
      BY <2>1, <2>3, <2>5, <2>7, <3>2 DEF SoleInv, Progress, Sole, UnderWay
    <3> QED
      BY <3>1, <3>2
  <2> QED
    BY <2>1, <2>2, <2>6, <2>7 DEF SoleInv
<1>3. ASSUME NEW r \in Runs, Drop(r) PROVE SoleInv'
  <2>1. /\ phase[r] = "drop" /\ done[r] = 0 /\ tables' = {}
        /\ phase' = [phase EXCEPT ![r] = "create"] /\ done' = done
        /\ overlapped' = IF UnderWay = {r} THEN overlapped ELSE overlapped \cup UnderWay
        /\ phase \in [Runs -> Phases]
    BY <1>3 DEF Drop, TypeInv, TypeOK, RunInv
  <2>2. UnderWay' = UnderWay
    BY <2>1 DEF UnderWay
  <2>3. CASE UnderWay = {r}
    <3>1. phase'[r] = "create" /\ Sole' \subseteq {r}
      BY <2>1, <2>2, <2>3 DEF Sole
    <3> QED
      BY <2>1, <2>2, <2>3, <3>1 DEF SoleInv, Sole, OneBuilder
  <2>4. CASE UnderWay # {r}
    BY <2>1, <2>2, <2>4 DEF SoleInv, Sole, OneBuilder
  <2> QED
    BY <2>3, <2>4
<1>4. ASSUME NEW r \in Runs, CreateSchema(r) PROVE SoleInv'
  <2>1. /\ UNCHANGED <<tables, rows, done, overlapped>> /\ phase[r] = "create" /\ done[r] = 0
        /\ phase' = [phase EXCEPT ![r] = "build"] /\ phase \in [Runs -> Phases]
    BY <1>4 DEF CreateSchema, history, TypeInv, TypeOK, RunInv
  <2>2. UnderWay' = UnderWay
    BY <2>1 DEF UnderWay
  <2> QED
    BY <2>1, <2>2, SoleKept DEF UnderWay
<1>5. ASSUME NEW r \in Runs, Execute(r) PROVE SoleInv'
  <2>0. /\ done[r] \in 0 .. 20 /\ phase[r] = "build" /\ overlapped' = overlapped
        /\ phase' = [phase EXCEPT ![r] = IF done[r] = 20 THEN "built" ELSE "build"]
        /\ done' = [done EXCEPT ![r] = done[r] + 1]
        /\ phase \in [Runs -> Phases] /\ done \in [Runs -> 0 .. 21]
    BY <1>5, Executed, PipelineFacts DEF history, TypeInv, TypeOK
  <2>1. UnderWay' \subseteq UnderWay /\ r \in UnderWay
    BY <2>0 DEF UnderWay
  <2>2. UnderWay' \cap overlapped' # {} => UnderWay' \subseteq overlapped'
    BY <2>0, <2>1 DEF SoleInv
  <2>3. CASE r \in overlapped
    <3>1. Sole' = {}
      BY <2>0, <2>1, <2>3 DEF SoleInv, Sole
    <3> QED
      BY <2>2, <3>1 DEF SoleInv, Sole, OneBuilder
  <2>4. CASE r \notin overlapped
    <3>1. r \in Sole /\ Progress(tables, rows, done[r]) /\ Progress(tables', rows', done[r] + 1)
      BY <1>5, <2>1, <2>4, SoleExecutes DEF Sole
    <3>2. Final \subseteq tables'
      <4>1. \A t \in Final : t \in Tables /\ MadeAt(t) <= done[r] + 1
        BY <2>0, Places
      <4> QED
        BY <3>1, <4>1, <2>0 DEF Progress
    <3>3. ASSUME NEW s \in Sole', s # r
          PROVE /\ s \in Sole /\ phase'[s] = phase[s] /\ done'[s] = done[s] /\ done[s] \in 0 .. 21
                /\ phase[s] = "build" => done[s] = 0
      <4>1. s \in Sole /\ phase'[s] = phase[s] /\ done'[s] = done[s] /\ done[s] \in 0 .. 21
        BY <2>0, <2>1, <3>3 DEF Sole, UnderWay
      <4>2. CASE done[r] > 0
        BY <2>0, <3>1, <3>3, <4>1, <4>2 DEF SoleInv, OneBuilder, Sole
      <4>3. CASE done[r] = 0
        <5>1. tables = {}
          BY <3>1, <4>3, Places DEF Progress
        <5>2. "tarifas" \notin tables
          BY <5>1
        <5>3. ASSUME phase[s] = "build", done[s] > 0 PROVE FALSE
          BY <4>1, <5>2, <5>3, Places DEF SoleInv, Progress
        <5> QED
          BY <4>1, <5>3
      <4> QED
        BY <2>0, <4>1, <4>2, <4>3
    <3>4. done'[r] = done[r] + 1 /\ phase'[r] \in {"build", "built"}
      BY <2>0
    <3>5. OneBuilder'
      BY <3>3 DEF OneBuilder, Sole
    <3>6. Progress(tables', rows', done'[r])
      BY <3>1, <3>4 DEF Progress
    <3>7. done'[r] > 0
      BY <2>0, <3>4
    <3>8. ASSUME NEW s \in Sole'
          PROVE /\ phase'[s] \in {"create", "build"} /\ done'[s] = 0
                   => tables' = {} \/ Final \subseteq tables'
                /\ phase'[s] = "build" /\ done'[s] > 0 => Progress(tables', rows', done'[s])
      BY <3>2, <3>3, <3>6, <3>7
    <3> QED
      BY <2>2, <3>5, <3>8 DEF SoleInv
  <2> QED
    BY <2>3, <2>4
<1>6. ASSUME NEW r \in Runs, StatementFails(r) \/ Crash(r) PROVE SoleInv'
  <2>1. \E p \in {"error", "crashed"} : phase' = [phase EXCEPT ![r] = p]
    BY <1>6 DEF StatementFails, Crash
  <2>2. UNCHANGED <<tables, rows, done, overlapped>> /\ phase \in [Runs -> Phases]
    BY <1>6 DEF StatementFails, Crash, database, history, TypeInv, TypeOK
  <2>3. UnderWay' \subseteq UnderWay /\ \A s \in UnderWay' : phase'[s] = phase[s]
    BY <2>1, <2>2 DEF UnderWay
  <2> QED
    BY <2>2, <2>3, SoleKept
<1>7. CASE UNCHANGED vars
  BY <1>7 DEF vars, database, history, SoleInv, Sole, OneBuilder, UnderWay, Progress
<1> QED
  BY <1>1, <1>2, <1>3, <1>4, <1>5, <1>6, <1>7 DEF Next

LEMMA SoleAlways == Spec => [](TypeInv /\ SoleInv)
BY TypeInit, TypeStep, SoleInit, SoleStep, PTL DEF Spec

(* Of two runs that a DROP SCHEMA has not touched, at most one is past      *)
(* ddl.sql: the CREATE TABLEs settle the race that the guard leaves open.   *)
THEOREM OneBuilderAlways == Spec => []OneBuilder
<1>1. SoleInv => OneBuilder
  BY DEF SoleInv
<1> QED
  BY <1>1, SoleAlways, PTL

(* A run that ends without an error leaves a complete database, unless a    *)
(* DROP SCHEMA came between it and its tables.                              *)
THEOREM BuiltIsComplete == Spec => RunsBuildAll
<1> DEFINE Built == \A r \in Runs :
             phase[r] = "build" /\ phase'[r] = "built" => Complete' \/ r \in overlapped
<1>1. TypeInv /\ SoleInv /\ [Next]_vars => [Built]_vars
  <2> SUFFICES ASSUME TypeInv, SoleInv, Next, NEW r \in Runs,
                      phase[r] = "build", phase'[r] = "built", r \notin overlapped
               PROVE  Complete'
    OBVIOUS
  <2>1. phase \in [Runs -> Phases]
    BY DEF TypeInv, TypeOK
  <2>2. Execute(r)
    BY <2>1 DEF Next, Start, Guard, resolveExistingSchema, Drop, CreateSchema, Execute,
       StatementFails, Crash, UnderWay
  <2>3. r \in Sole
    BY DEF Sole, UnderWay
  <2>4. done[r] = 20 /\ schema'
    BY <2>1, <2>2, Executed
  <2>5. Progress(tables', rows', 21)
    BY <2>2, <2>3, <2>4, SoleExecutes DEF Progress
  <2> QED
    BY <2>4, <2>5, Places DEF Progress, Complete
<1> QED
  BY <1>1, SoleAlways, PTL DEF Spec, RunsBuildAll

(* A complete database is lost only to a run with --reset, or to what such  *)
(* a run left without its tables.                                           *)
THEOREM CompleteIsKept == Spec => OnlyResetDestroys
<1> DEFINE Kept == Complete /\ ~ Complete' =>
             \/ \E r \in Runs : phase[r] = "drop" /\ reset[r]
             \/ UnderWay \cap overlapped # {}
<1>1. TypeInv /\ SoleInv /\ [Next]_vars => [Kept]_vars
  <2> SUFFICES ASSUME TypeInv, SoleInv, Next, Complete, ~ Complete',
                      UnderWay \cap overlapped = {}
               PROVE  \E r \in Runs : phase[r] = "drop" /\ reset[r]
    OBVIOUS
  <2>1. PICK r \in Runs : \/ Start(r) \/ Guard(r) \/ Drop(r) \/ CreateSchema(r)
                          \/ Execute(r) \/ StatementFails(r) \/ Crash(r)
    BY DEF Next
  <2>2. ~ (UNCHANGED <<tables, rows>> /\ schema')
    BY DEF Complete
  <2>3. schema
    BY DEF Complete
  <2>4. Drop(r) \/ Execute(r)
    BY <2>1, <2>2, <2>3 DEF Start, Guard, CreateSchema, StatementFails, Crash, database
  <2>5. ASSUME Execute(r) PROVE FALSE
    <3>1. done[r] \in 0 .. 20 /\ phase[r] = "build"
      BY <2>5, Executed
    <3>2. r \in Sole
      BY <3>1 DEF Sole, UnderWay
    <3>3. Progress(tables, rows, done[r])
      BY <2>5, <3>2, SoleExecutes
    <3> QED
      BY <3>1, <3>3, Places DEF Progress, Complete
  <2>6. phase[r] = "drop" /\ reset[r]
    BY <2>4, <2>5 DEF Drop, TypeInv, RunInv
  <2> QED
    BY <2>6
<1> QED
  BY <1>1, SoleAlways, PTL DEF Spec, OnlyResetDestroys


-----------------------------------------------------------------------------
LEMMA AloneInit == Init => AloneInv
BY DEF Init, AloneInv, AloneNeverErrs, UnderWay

(* A run that is alone finds its next transaction in its place: the         *)
(* database never refuses it.                                               *)
LEMMA AloneIsAccepted ==
  ASSUME TypeInv, SoleInv, AloneInv, NEW r \in Runs, r \notin accompanied
  PROVE  ~ StatementFails(r)
<1>1. CASE phase[r] = "drop"
  <2>1. schema
    BY <1>1 DEF AloneInv, UnderWay
  <2> QED
    BY <1>1, <2>1 DEF StatementFails
<1>2. CASE phase[r] = "build"
  <2> DEFINE k == done[r]
  <2>1. k \in 0 .. 20
    BY <1>2, PipelineFacts DEF TypeInv, TypeOK, RunInv
  <2>2. r \in UnderWay \ accompanied /\ r \in Sole
    BY <1>2 DEF AloneInv, Sole, UnderWay
  <2>3. schema
    BY <1>2, <2>2 DEF AloneInv
  <2>4. Progress(tables, rows, k)
    <3>1. CASE k = 0
      BY <1>2, <2>2, <3>1, NothingYet DEF AloneInv, TypeInv
    <3>2. CASE k > 0
      BY <1>2, <2>2, <3>2 DEF SoleInv
    <3> QED
      BY <2>1, <3>1, <3>2
  <2>5. InPlace(k + 1, Pipeline[k + 1])
    BY <2>1, PipelineFacts
  <2>6. Accepts(Pipeline[k + 1])
    BY <2>1, <2>3, <2>4, <2>5, Advances
  <2> QED
    BY <1>2, <2>6 DEF StatementFails
<1> QED
  BY <1>1, <1>2 DEF StatementFails

LEMMA AloneStep == TypeInv /\ SoleInv /\ AloneInv /\ [Next]_vars => AloneInv'
<1> SUFFICES ASSUME TypeInv, SoleInv, AloneInv, [Next]_vars PROVE AloneInv'
  OBVIOUS
<1>0. phase \in [Runs -> Phases]
  BY DEF TypeInv, TypeOK
<1>1. ASSUME NEW r \in Runs, Start(r) PROVE AloneInv'
  <2>1. /\ phase' = [phase EXCEPT ![r] = "guard"]
        /\ accompanied' = IF UnderWay = {} THEN accompanied \ {r}
                          ELSE accompanied \cup UnderWay \cup {r}
        /\ overlapped' = IF UnderWay \cap overlapped = {} THEN overlapped \ {r}
                         ELSE overlapped \cup {r}
    BY <1>1 DEF Start
  <2>2. /\ UnderWay' = UnderWay \cup {r} /\ phase'[r] = "guard"
        /\ \A s \in Runs : s # r => phase'[s] = phase[s]
    BY <1>0, <2>1 DEF UnderWay
  <2>3. AloneNeverErrs'
    BY <2>1, <2>2 DEF AloneInv, AloneNeverErrs
  <2>4. CASE UnderWay = {}
    BY <2>1, <2>2, <2>3, <2>4 DEF AloneInv
  <2>5. CASE UnderWay # {}
    BY <2>1, <2>2, <2>3, <2>5 DEF AloneInv
  <2> QED
    BY <2>4, <2>5
<1>2. ASSUME NEW r \in Runs, Guard(r) PROVE AloneInv'
  <2>1. /\ phase' = [phase EXCEPT ![r] = resolveExistingSchema(schema, reset[r])]
        /\ phase[r] = "guard" /\ UNCHANGED <<schema, tables, done, accompanied, overlapped>>
        /\ (~ schema => tables = {})
    BY <1>2 DEF Guard, database, history, TypeInv, TypeOK
  <2>2. /\ phase'[r] \in {"create", "drop", "refused"}
        /\ (phase'[r] = "create" => tables = {}) /\ (phase'[r] = "drop" => schema)
        /\ \A s \in Runs : s # r => phase'[s] = phase[s]
    BY <1>0, <2>1 DEF resolveExistingSchema
  <2>3. UnderWay' \subseteq UnderWay /\ r \in UnderWay
    BY <2>1, <2>2 DEF UnderWay
  <2>4. AloneNeverErrs'
    BY <2>1, <2>2 DEF AloneInv, AloneNeverErrs
  <2> QED
    BY <2>1, <2>2, <2>3, <2>4 DEF AloneInv
<1>3. ASSUME NEW r \in Runs, Drop(r) PROVE AloneInv'
  <2>1. /\ phase' = [phase EXCEPT ![r] = "create"] /\ phase[r] = "drop" /\ tables' = {}
        /\ overlapped' = IF UnderWay = {r} THEN overlapped ELSE overlapped \cup UnderWay
        /\ accompanied' = accompanied
    BY <1>3 DEF Drop
  <2>2. UnderWay' = UnderWay /\ r \in UnderWay /\ phase'[r] = "create"
        /\ \A s \in Runs : s # r => phase'[s] = phase[s]
    BY <1>0, <2>1 DEF UnderWay
  <2>3. AloneNeverErrs'
    BY <2>1, <2>2 DEF AloneInv, AloneNeverErrs
  <2> QED
    BY <2>1, <2>2, <2>3 DEF AloneInv
<1>4. ASSUME NEW r \in Runs, CreateSchema(r) PROVE AloneInv'
  <2>1. /\ phase' = [phase EXCEPT ![r] = "build"] /\ phase[r] = "create" /\ schema'
        /\ UNCHANGED <<tables, done, accompanied, overlapped>>
    BY <1>4 DEF CreateSchema, history
  <2>2. UnderWay' = UnderWay /\ r \in UnderWay /\ phase'[r] = "build"
        /\ \A s \in Runs : s # r => phase'[s] = phase[s]
    BY <1>0, <2>1 DEF UnderWay
  <2>3. AloneNeverErrs'
    BY <2>1, <2>2 DEF AloneInv, AloneNeverErrs
  <2> QED
    BY <2>1, <2>2, <2>3 DEF AloneInv
<1>5. ASSUME NEW r \in Runs, Execute(r) PROVE AloneInv'
  <2>1. /\ done[r] \in 0 .. 20 /\ phase[r] = "build" /\ schema /\ schema'
        /\ phase' = [phase EXCEPT ![r] = IF done[r] = 20 THEN "built" ELSE "build"]
        /\ done' = [done EXCEPT ![r] = done[r] + 1]
        /\ accompanied' = accompanied /\ overlapped' = overlapped
        /\ done \in [Runs -> 0 .. 21]
    BY <1>5, Executed, PipelineFacts DEF history, TypeInv, TypeOK
  <2>2. /\ UnderWay' \subseteq UnderWay /\ r \in UnderWay /\ phase'[r] \in {"build", "built"}
        /\ \A s \in Runs : s # r => phase'[s] = phase[s]
    BY <1>0, <2>1 DEF UnderWay
  <2>3. AloneNeverErrs'
    BY <2>1, <2>2 DEF AloneInv, AloneNeverErrs
  <2>4. \A s \in UnderWay' \ accompanied : s = r /\ UnderWay' = {r}
    BY <2>2 DEF AloneInv
  <2>5. done'[r] # 0
    BY <2>1
  <2> QED
    BY <2>1, <2>2, <2>3, <2>4, <2>5 DEF AloneInv
<1>6. ASSUME NEW r \in Runs, StatementFails(r) \/ Crash(r) PROVE AloneInv'
  <2>1. /\ UNCHANGED <<schema, tables, done, accompanied, overlapped>>
        /\ \/ phase' = [phase EXCEPT ![r] = "error"] /\ StatementFails(r)
           \/ phase' = [phase EXCEPT ![r] = "crashed"]
    BY <1>6 DEF StatementFails, Crash, database, history
  <2>2. /\ phase'[r] \in {"error", "crashed"} /\ (phase'[r] = "error" => r \in accompanied)
        /\ \A s \in Runs : s # r => phase'[s] = phase[s]
    BY <1>0, <2>1, AloneIsAccepted
  <2>3. r \notin UnderWay' /\ UnderWay' \subseteq UnderWay
    BY <2>2 DEF UnderWay
  <2>4. AloneNeverErrs'
    BY <2>1, <2>2 DEF AloneInv, AloneNeverErrs
  <2> QED
    BY <2>1, <2>2, <2>3, <2>4 DEF AloneInv, UnderWay
<1>7. CASE UNCHANGED vars
  BY <1>7 DEF vars, database, history, AloneInv, AloneNeverErrs, UnderWay
<1> QED
  BY <1>1, <1>2, <1>3, <1>4, <1>5, <1>6, <1>7 DEF Next

(* A run that no other was under way with never ends with a refused         *)
(* statement, whatever the crashed and failed runs before it have left.     *)
THEOREM AloneAlwaysRecovers == Spec => []AloneNeverErrs
<1>1. AloneInv => AloneNeverErrs
  BY DEF AloneInv
<1> QED
  BY <1>1, SoleAlways, AloneInit, AloneStep, PTL DEF Spec
===============================================================================
