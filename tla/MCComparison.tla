------------------------------ MODULE MCComparison ------------------------------
(* Instances of Comparison for TLC: three stops, two cells, two corridors.  *)
EXTENDS Comparison

Path(from, to, length) == [from |-> from, to |-> to, length |-> length]

There == Path(1, 2, 10)
Round == Path(1, 2, 30)
Back == Path(2, 3, 10)
Past == Path(1, 3, 10)
Return == Path(3, 2, 10)

Line(stops, paths) == [stops |-> stops, paths |-> paths, jurisdiction |-> "caba"]

Original == Line(<<1, 2, 3>>, <<There, Back>>)
Detoured == Line(<<1, 2, 3>>, <<Round, Back>>)
Shortened == Line(<<1, 3>>, <<Past>>)
Crossed == Line(<<1, 3, 2>>, <<Past, Return>>)
Stopless == Line(<<1>>, << >>)
Elsewhere == [Original EXCEPT !.jurisdiction = "national"]

MCCalls ==
  {[kind |-> "simulate", baseline |-> Original, proposed |-> Original]}
  \cup [kind : {"compare", "detour"}, baseline : {Original},
        proposed : {Detoured, Shortened, Crossed, Stopless, Elsewhere}]

Paced(offPeak, typical, peak) ==
  [s \in Scenarios |-> CASE s = "offPeak" -> offPeak [] s = "typical" -> typical [] OTHER -> peak]

Fragment(line, paces, weight) == [route |-> line, nro |-> 1, paces |-> paces, weight |-> weight]

\* Lines whose order differs between scenarios, and one that reports a peak
\* faster than its valley.
Steady == Fragment(1, Paced(4, 4, 4), 2)
Uneven == Fragment(2, Paced(2, 5, 9), 1)
Sparse == Fragment(3, Paced(3, 3, 12), 1)
Wrong == Fragment(4, Paced(5, 4, 3), 2)

\* It only touches the corridor.
Grazing == Fragment(5, Paced(1, 1, 1), 0)

Nearby == {[cell |-> "a", stop |-> 1, distance |-> 1], [cell |-> "a", stop |-> 2, distance |-> 1],
           [cell |-> "b", stop |-> 2, distance |-> 2], [cell |-> "b", stop |-> 3, distance |-> 0],
           [cell |-> "b", stop |-> 1, distance |-> 3]}

Trips == {[from |-> "a", to |-> "b", count |-> 2], [from |-> "b", to |-> "a", count |-> 1],
          [from |-> "a", to |-> "a", count |-> 1]}

\* One segment has its lines at once, the other two equal fragments of one line and
\* then three lines; the network fills in the rest.
Dense ==
  [near |-> Nearby, trips |-> Trips, global |-> Paced(3, 4, 5),
   references |-> (There :> <<{Steady, Uneven}, {Steady}>>)
               @@ (Back :> <<{Sparse, [Sparse EXCEPT !.nro = 2], Grazing},
                             {[Steady EXCEPT !.weight = 1], Uneven, Sparse}>>)]

\* One line in the last corridor, none that is valid, and no network.
Scarce ==
  [near |-> Nearby, trips |-> Trips, global |-> None,
   references |-> (There :> <<{Wrong, Steady}, {Wrong, Uneven}>>)
               @@ (Back :> <<{Steady, Uneven, Sparse}, {}>>)
               @@ (Past :> <<{Wrong}, {Wrong}>>)]

\* Nobody lives here.
Empty == [Dense EXCEPT !.near = {}]

MCDatabases == {Dense, Scarce, Empty}

Bands(near, far) == <<[min |-> 0, max |-> 20, fare |-> near], [min |-> 20, max |-> 0, fare |-> far]>>

\* Two tables of tariffs, and one that ends before the longest trips.
MCTariffTables ==
  {[j \in Jurisdictions |-> Bands(2, 3)],
   [j \in Jurisdictions |-> Bands(4, 5)],
   [j \in Jurisdictions |-> IF j = "caba" THEN <<[min |-> 0, max |-> 20, fare |-> 2]>> ELSE << >>]}
=================================================================================
