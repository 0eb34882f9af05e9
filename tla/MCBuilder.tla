------------------------------ MODULE MCBuilder ------------------------------
(* Small instances of the builder. *)
EXTENDS Builder, TLC

CONSTANTS q1, q2, q3, n1, n2, theirs, other, whole, broken

Shown   == (n1 :> {q1, q2}) @@ (n2 :> {q1, q2, q3})
Answers == (theirs :> {q1}) @@ (other :> {q2, q3}) @@ (whole :> {q1, q2, q3}) @@ (broken :> {q2})
=============================================================================
