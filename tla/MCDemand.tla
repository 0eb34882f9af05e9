------------------------------ MODULE MCDemand ------------------------------
(* Small instances of clustering and of the bounty. *)
EXTENDS Demand, TLC

CONSTANTS q1, q2, q3, c1, c2, me, sim, other1, other2, mine, lab

(* q3 is between q1 and q2, which are not near each other. *)
ChainOfQueries == {{q1, q3}, {q2, q3}}

OwnerOf == (c1 :> other1) @@ (c2 :> other2) @@ (me :> mine) @@ (sim :> lab)
=============================================================================
