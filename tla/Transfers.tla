------------------------------- MODULE Transfers -------------------------------
(***************************************************************************)
(* The aggregates behind GET /transfers, as the scripts of sql/recorridos  *)
(* and sql/viajes compute them: the transfer points of every ordered pair  *)
(* of lines (conexiones_recorridos), the trips that needed a transfer      *)
(* (combinaciones_od), and the ranking of pairs of lines those trips are   *)
(* split among (combinaciones_lineas).                                     *)
(*                                                                         *)
(* A table is a function from its primary key, or a set of rows.  The      *)
(* geometry enters as constants: which stops are within the access radius  *)
(* of a cell, and which walks between stops are short enough.              *)
(***************************************************************************)
EXTENDS Paging, FiniteSetsExt

CONSTANTS
  Recorridos,           \* ids of vialis.recorridos
  Stops,                \* ids of vialis.paradas
  StopsOf,              \* recorrido -> its stops by nro_parada
  Walks,                \* [bajada, subida, metros]: pairs of stops within 300 m
  Cells,                \* vialis.hexagonos_viajes
  StopsNear,            \* cell -> the stops within 400 m of its point
  Hours,                \* rango_horario
  MaximumAlternatives,  \* the HAVING of combinaciones_lineas.sql
  Parts                 \* of a trip: the code divides doubles

ASSUME TransfersAssumption ==
  /\ {Recorridos, Stops, Cells, Hours} \subseteq SUBSET Nat
  /\ \A S \in {Recorridos, Stops, Cells, Hours} : IsFiniteSet(S)
  /\ StopsOf \in [Recorridos -> Seq(Stops)]
  /\ Walks \subseteq [bajada : Stops, subida : Stops, metros : Nat]
  /\ StopsNear \in [Cells -> SUBSET Stops]
  /\ MaximumAlternatives \in Nat \ {0} /\ Parts \in Nat \ {0}
  /\ \A n \in 1..MaximumAlternatives : Parts % n = 0

Null == -1     \* a NULL hour, cell or factor; as the hour of a row, the whole day

At(r, s) == {i \in DOMAIN StopsOf[r] : StopsOf[r][i] = s}

-----------------------------------------------------------------------------
(* conexiones_recorridos.sql: DISTINCT ON the shortest walk of a pair.      *)
WalksBetween(a, b) ==
  {w \in Walks : At(a, w.bajada) # {} /\ At(b, w.subida) # {}}

Connected == {p \in Recorridos \X Recorridos : p[1] # p[2] /\ WalksBetween(p[1], p[2]) # {}}

Conexiones ==
  [p \in Connected |->
     First(WalksBetween(p[1], p[2]), LAMBDA w : <<w.metros, w.bajada, w.subida>>)]

(* combinaciones_od.sql: the trips made by bus in more than one stage; an   *)
(* unknown expansion factor counts as zero.                                 *)
Combines(v) ==
  /\ v.etapas > 1
  /\ v.colectivo = v.etapas
  /\ Null \notin {v.origen, v.destino, v.hora}

Factor(v) == IF v.factor = Null THEN 0 ELSE v.factor

CombinacionesOD(viajes) ==
  LET with == {i \in DOMAIN viajes : Combines(viajes[i])}
      key(i) == <<viajes[i].origen, viajes[i].destino, viajes[i].hora>>
  IN [f \in {key(i) : i \in with} |->
        MapThenSumSet(LAMBDA i : Factor(viajes[i]), {i \in with : key(i) = f})]

-----------------------------------------------------------------------------
(* combinaciones_lineas.sql, steps 1 to 5.                                  *)
Calls(r, c) == {i \in DOMAIN StopsOf[r] : StopsOf[r][i] \in StopsNear[c]}
Serving(c) == {r \in Recorridos : Calls(r, c) # {}}
Primera(r, c) == Min(Calls(r, c))

\* Mutant of Ultima: both ends keep their earliest stop.
UltimaIsPrimera(r, c) == Min(Calls(r, c))

Ultima(r, c) == Max(Calls(r, c))

Directo(o, d) == \E r \in Serving(o) \cap Serving(d) : Ultima(r, d) > Primera(r, o)

Itinerarios(conexiones, o, d) ==
  IF Directo(o, d) THEN {}
  ELSE {p \in DOMAIN conexiones :
          /\ p[1] \in Serving(o) /\ p[2] \in Serving(d)
          /\ \E i \in At(p[1], conexiones[p].bajada) : i > Primera(p[1], o)
          /\ \E i \in At(p[2], conexiones[p].subida) : i < Ultima(p[2], d)}

(* The share of a flow that falls to each of its itineraries, in parts of a *)
(* trip; a flow with too many of them falls to none.                        *)
Atribucion(conexiones, od) ==
  UNION {LET its == Itinerarios(conexiones, f[1], f[2])
             n == Cardinality(its)
         IN {[par |-> p, origen |-> f[1], destino |-> f[2], hora |-> f[3],
              viajes |-> od[f] * (Parts \div n), alternativas |-> n] :
               p \in IF n <= MaximumAlternatives THEN its ELSE {}} :
         f \in DOMAIN od}

Volume(A) == MapThenSumSet(LAMBDA a : a.viajes, A)

\* Mutant of Dominante: each side is the cell that most trips use.
DominanteBySide(A) ==
  LET side(Cell(_)) ==
        First({Cell(a) : a \in A}, LAMBDA c : <<-Volume({a \in A : Cell(a) = c}), c>>)
  IN <<side(LAMBDA a : a.origen), side(LAMBDA a : a.destino)>>

(* Step 5b: the cells of one flow, the largest of the pair.                 *)
Dominante(A) ==
  First({<<a.origen, a.destino>> : a \in A},
        LAMBDA f : <<-Volume({a \in A : a.origen = f[1] /\ a.destino = f[2]}), f[1], f[2]>>)

(* Step 7: (ARRAY_AGG(rango_horario ORDER BY viajes_atribuidos DESC,        *)
(* rango_horario))[1].                                                      *)
Pico(A) == First(A, LAMBDA a : <<-a.viajes, a.hora>>).hora

Fila(A, par, hora) ==
  [par |-> par,
   hora |-> hora,
   viajes |-> Volume(A),
   alternativas |-> MapThenSumSet(LAMBDA a : a.viajes * a.alternativas, A),
   pico |-> IF hora = Null THEN Pico(A) ELSE hora,
   zonas |-> Dominante(A),
   pares |-> Cardinality({<<a.origen, a.destino>> : a \in A})]

(* Steps 6 and 7: a row per pair and hour, and a row per pair for the day.   *)
CombinacionesLineas(conexiones, od) ==
  LET A == Atribucion(conexiones, od)
      of(p) == {a \in A : a.par = p}
  IN {Fila(of(p), p, Null) : p \in {a.par : a \in A}}
       \cup {Fila({a \in of(k[1]) : a.hora = k[2]}, k[1], k[2]) :
               k \in {<<a.par, a.hora>> : a \in A}}

-----------------------------------------------------------------------------
(* What the split promises, stated on journeys instead of on first and last *)
(* stops: one boards a line within the access radius, changes at the        *)
(* transfer point of the pair, and alights within the radius.               *)
Rides(r, i, j) == i \in DOMAIN StopsOf[r] /\ j \in DOMAIN StopsOf[r] /\ i < j

Flows == Cells \X Cells

OneSeat ==
  {f \in Flows :
     \E r \in Recorridos : \E i, j \in DOMAIN StopsOf[r] :
       Rides(r, i, j) /\ StopsOf[r][i] \in StopsNear[f[1]] /\ StopsOf[r][j] \in StopsNear[f[2]]}

Makes(p, o, d) ==
  LET change == Conexiones[p] IN
  /\ \E i, j \in DOMAIN StopsOf[p[1]] :
       Rides(p[1], i, j) /\ StopsOf[p[1]][i] \in StopsNear[o] /\ StopsOf[p[1]][j] = change.bajada
  /\ \E i, j \in DOMAIN StopsOf[p[2]] :
       Rides(p[2], i, j) /\ StopsOf[p[2]][i] = change.subida /\ StopsOf[p[2]][j] \in StopsNear[d]

Journeys == {j \in Connected \X Flows : Makes(j[1], j[2][1], j[2][2])}

(* What falls to the pair p of the people of a survey who went from f[1] to *)
(* f[2] in the hours H.                                                     *)
Share(viajes, p, f, H) ==
  LET them == {i \in DOMAIN viajes :
                 /\ Combines(viajes[i])
                 /\ <<viajes[i].origen, viajes[i].destino>> = f
                 /\ viajes[i].hora \in H}
      n == Cardinality({j \in Journeys : j[2] = f})
  IN IF f \in OneSeat \/ <<p, f>> \notin Journeys \/ n > MaximumAlternatives THEN 0
     ELSE MapThenSumSet(LAMBDA i : Factor(viajes[i]), them) * (Parts \div n)
=============================================================================
