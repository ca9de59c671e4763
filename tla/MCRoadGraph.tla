------------------------------ MODULE MCRoadGraph ------------------------------
(* Instances of RoadGraph for TLC: the cut is on one of two ways from the     *)
(* street of the stop, and one of the ways has forbidden turns.  A reload     *)
(* changes the numbers of the streets, so that a stale id may block the       *)
(* stop's own street, or loses one.                                           *)
EXTENDS RoadGraph

CONSTANTS start, direct, left, right

MCStreets == {start, direct, left, right}

MCNetworks ==
  {<<start, direct, left, right>>, <<left, start, right, direct>>, <<direct, right, start>>}

MCCuts == {{direct}, {left}}

MCCoverages == {MCStreets, {start, direct}}

MCCandidates == {<<start, direct>>, <<start, left>>, <<start, left, right>>}

MCBannedTurns == {<<start, left>>, <<left, right>>}
=================================================================================
