------------------------------ MODULE MCEntry ------------------------------
(* Instances of Entry for TLC.                                             *)
EXTENDS Entry, TLC

CONSTANTS c1, c2, t1, t2, m1
Symmetry == Permutations({c1, c2}) \cup Permutations({t1, t2})
=============================================================================
