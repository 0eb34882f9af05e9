------------------------------ MODULE MCAnswer ------------------------------
(* Small instances of search-fn and answer-fn. *)
EXTENDS Answer, TLC

CONSTANTS t1, t2
=============================================================================
