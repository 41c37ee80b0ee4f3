--------------------------- MODULE MCBlockSwitch ---------------------------
(* Instances of BlockSwitch for TLC. *)
EXTENDS BlockSwitch, TLC

Symmetry == Permutations(Chain)
=============================================================================
