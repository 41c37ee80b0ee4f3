---------------------------- MODULE MCExpression ----------------------------
(* Likes of two users for each other, for TLC. *)
EXTENDS Expression
CONSTANTS u1, u2

Mutual == {{<<u1, u2, "like">>, <<u2, u1, "like">>}}
=============================================================================
