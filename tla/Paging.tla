-------------------------------- MODULE Paging --------------------------------
(***************************************************************************)
(* What the three listings of the catalogue share: an ORDER BY on a list   *)
(* of keys, LIMIT and OFFSET, and the clamp of a requested size.           *)
(***************************************************************************)
EXTENDS Integers, Sequences, FiniteSets, SequencesExt, Sequencing

Smaller(a, b) == IF a < b THEN a ELSE b
Greater(a, b) == IF a < b THEN b ELSE a

(* Lists of keys under ORDER BY.                                            *)
Before(k, l) == \E i \in DOMAIN k : k[i] < l[i] /\ \A j \in 1..(i - 1) : k[j] = l[j]

First(S, Key(_)) == CHOOSE x \in S : \A y \in S : ~ Before(Key(y), Key(x))

(* Every order in which the database may return the rows S: rows with equal *)
(* keys come in any.                                                        *)
Orders(S, Key(_)) ==
  {s \in SetToSeqs(S) : \A i, j \in DOMAIN s : i < j => ~ Before(Key(s[j]), Key(s[i]))}

Window(s, offset, limit) == SubSeq(s, offset + 1, Smaller(offset + limit, Len(s)))

(* pageSize of lines and combinaciones, and resultCount.  A maximum of zero *)
(* is no maximum.                                                           *)
Clamped(requested, default, maximum) ==
  LET size == IF requested <= 0 THEN default ELSE requested
  IN IF maximum > 0 THEN Smaller(size, maximum) ELSE size
=============================================================================
