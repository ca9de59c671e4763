-------------------------------- MODULE MCServer ------------------------------
(* Server for TLC: the snapshots download two tiles and one.                *)
EXTENDS Server

CONSTANTS r1, r2

MCCallers == {<<r1, 1>>, <<r1, 2>>, <<r2, 1>>}

MCOneCaller == {<<r1, 1>>}
=============================================================================
