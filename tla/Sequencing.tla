------------------------------ MODULE Sequencing ------------------------------
(* Loops in ascending order, and those that keep some of what they go over.  *)
EXTENDS Integers, FiniteSets

(* A finite set of naturals, in ascending order.                             *)
Ascending(S) ==
  [i \in 1 .. Cardinality(S) |-> CHOOSE x \in S : Cardinality({y \in S : y < x}) = i - 1]

(* The elements of s that are chosen, in their order in s.                   *)
Filtered(s, Chosen(_)) ==
  LET places == Ascending({n \in DOMAIN s : Chosen(s[n])})
  IN [n \in DOMAIN places |-> s[places[n]]]
===============================================================================
