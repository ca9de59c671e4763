------------------------------ MODULE MCDetourPlan ------------------------------
(* Instances of DetourPlan for TLC: a short route, with segments of two parts. *)
EXTENDS DetourPlan
=================================================================================
