------------------------------ MODULE MCServer ------------------------------
(* Instances of Server for TLC: the whole handler table of the program.    *)
EXTENDS Server, Routes

AllHandlers == Mounted \cup Unmounted
=============================================================================
