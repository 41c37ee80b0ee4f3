----------------------------- MODULE MCUserList -----------------------------
(* Instances of UserList for TLC. *)
EXTENDS UserList, TLC

Symmetry == Permutations(Partner) \cup Permutations(Chain)
=============================================================================
