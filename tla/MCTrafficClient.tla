--------------------------- MODULE MCTrafficClient ---------------------------
(* Instances of TrafficClient for TLC. *)
EXTENDS TrafficClient

\* A short body that lasts as long as the cache keeps it, and a long one that
\* its provider lets expire and Decode refuses.
MCBodies == {[size |-> 1, expires |-> 0, decodes |-> TRUE],
             [size |-> 2, expires |-> 2, decodes |-> FALSE]}

\* A single body, where bodies do not matter.
MCPlainBodies == {[size |-> 1, expires |-> 0, decodes |-> TRUE]}

AnyTiles == (SUBSET Tiles) \ {{}}
AllTiles == {Tiles}

MCSymmetry == Permutations(Requests) \cup Permutations(Tiles)
==============================================================================
