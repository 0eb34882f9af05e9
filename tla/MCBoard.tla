------------------------------ MODULE MCBoard ------------------------------
(* Small instances of the nightly run, the edges and stasis. *)
EXTENDS Board, TLC

CONSTANTS t1, o1, e1
=============================================================================
