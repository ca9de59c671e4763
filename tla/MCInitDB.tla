------------------------------- MODULE MCInitDB -------------------------------
(* Instances of InitDB for TLC: two processes that are interchangeable.      *)
EXTENDS InitDB, TLC

Interchangeable == Permutations(Runs)
===============================================================================
