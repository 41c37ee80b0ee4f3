----------------------------- MODULE MCButtons -----------------------------
(* Instances of Buttons for TLC. *)
EXTENDS Buttons, TLC
CONSTANTS u1, u2

\* A like; a visit, and a profile opened for candies.
Like == <<u1, u2, "like">>
Visit == <<u1, u2, "visit">>
Show == <<u1, u2, "show">>
Pairs == {{Like}, {Visit, Show}}

Symmetry == Permutations(Request)
=============================================================================
