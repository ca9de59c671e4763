------------------------------ MODULE MCCatalogue ------------------------------
(* Catalogue for TLC: five lines around a corner, four of them circular,    *)
(* wrong-way or short of the destination for some flow.                     *)
EXTENDS Catalogue

(* Line 1 comes back to its first stop; line 4 runs against the flows.      *)
MCStopsOf == (1 :> <<1, 2, 3, 1>>) @@ (2 :> <<4, 5, 6>>) @@ (3 :> <<1, 7>>)
               @@ (4 :> <<5, 2>>) @@ (5 :> <<2, 8>>)
MCWalks ==
  {[bajada |-> s, subida |-> s, metros |-> 0] : s \in 1..8}
    \cup {[bajada |-> w[1], subida |-> w[2], metros |-> w[3]] :
            w \in {<<3, 4, 200>>, <<2, 4, 200>>, <<7, 5, 150>>, <<8, 4, 80>>, <<8, 5, 90>>}}
MCStopsNear == (10 :> {1}) @@ (11 :> {2}) @@ (12 :> {1, 2}) @@ (20 :> {5}) @@ (30 :> {6})

Trip(o, d, h, n) ==
  [origen |-> o, destino |-> d, hora |-> h, etapas |-> 2, colectivo |-> 2, factor |-> n]

(* One large flow in an hour and several smaller ones, more together, in    *)
(* the other; ties; trips against the lines; trips that do not count.       *)
MCSurveys ==
  {<<Trip(11, 20, 8, 8), Trip(12, 20, 9, 12), Trip(11, 30, 9, 5), Trip(11, 20, 9, 4), Trip(12, 30, 9, 6)>>,
   <<Trip(11, 20, 8, 2), Trip(11, 20, 8, 2), Trip(20, 11, 8, 8), Trip(20, 10, 9, 6)>>,
   <<Trip(10, 30, 8, 4), Trip(10, 20, Null, 5), Trip(10, 20, 9, Null),
     [Trip(11, 30, 9, 4) EXCEPT !.colectivo = 1], [Trip(11, 20, 9, 4) EXCEPT !.etapas = 1]>>}

MCNameOf == <<1, 1, 2, 1, 2>>
MCSearches == {{}, {1, 2, 4}, {1, 3, 5}}

(* Three streets of four corners: the place 3x + y is the corner x of the   *)
(* street y.  A step along a street is 2 metres, one across a block 3.      *)
Gap(x, y) == Greater(x - y, y - x)
MCMeters(p, q) ==
  LET dx == Gap(p \div 3, q \div 3)
      dy == Gap(p % 3, q % 3)
  IN 2 * Greater(dx, dy) + Smaller(dx, dy)

(* A name is a number.                                                      *)
Row(id, n, p, path) == [id |-> <<id>>, nro |-> n, at |-> p, path |-> path]

MCStoredLines ==
  {<<Row(70, 1, 0, path), Row(71, 4, d, NoPath)>> :
     d \in Places, path \in {<<p, q>> : p, q \in Places} \cup {<<0, 4, q>> : q \in Places}}
    \cup {<<Row(70, 1, 0, path), Row(71, 4, 6, NoPath)>> : path \in {NoPath, <<3>>}}
    \cup {<<Row(x, 1, 0, <<0, 3>>), Row(y, 3, 3, <<p, 7>>), Row(z, 4, 6, NoPath)>> :
            x, y, z \in {70, 71}, p \in Places}
    \cup {<<[Row(70, 1, 0, <<0, 3>>) EXCEPT !.id = <<70, 4>>], Row(70, 3, 3, <<3, 6>>), Row(70, 4, 6, NoPath)>>}
    \cup {<<>>, <<[Row(0, 0, NoPlace, NoPath) EXCEPT !.id = <<>>]>>, <<Row(70, 1, 0, NoPath)>>}

MCDrawings ==
  {<<[at |-> 0, path |-> NoPath], [at |-> 4, path |-> <<4, 5>>], [at |-> 5, path |-> NoPath]>>,
   <<[at |-> 0, path |-> NoPath], [at |-> 0, path |-> NoPath]>>,
   <<[at |-> 0, path |-> <<0>>], [at |-> 4, path |-> NoPath]>>}

Candidate(n, a, b) == [id |-> n, near |-> TRUE, stops |-> 2, drawn |-> a, stored |-> b]

MCCandidateSets ==
  {{Candidate(1, a, b), Candidate(2, 3, c), Candidate(3, 2, 2),
    [Candidate(4, 4, 4) EXCEPT !.near = FALSE], [Candidate(5, 4, 4) EXCEPT !.stops = 1]} :
     a \in {0, 2, 3, 5}, b \in 0..4, c \in 0..4}
=============================================================================
