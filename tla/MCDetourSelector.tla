--------------------------- MODULE MCDetourSelector ---------------------------
(* Every input of Select over StopCount stops, with travel times that carry *)
(* numerical noise below the tolerance.                                     *)
EXTENDS DetourSelector

MCSeconds == {0, 1, Unit}

ASSUME NoiseIsSmall

(* A forced stop needs no more than one tempting travel time, none at all.  *)
MCInit ==
  /\ Init
  /\ \A p \in Pairs : "forced" \in {availability[p[1]], availability[p[2]]} =>
                        connection[p] \in {0, NoPath}

MCSpec == MCInit /\ [][Next]_vars
=============================================================================
