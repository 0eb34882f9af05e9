------------------------------ MODULE MCStanding ------------------------------
(* Small instances of mass, competition and decay. *)
EXTENDS Standing, TLC

CONSTANTS t1, t2, t3, c1, c2, sim, bob, other1, other2, mine, lab

(* The tool t3 is built on t1 of somebody else, which c1 owns; c2 owns t3. *)
OwnersOfTools   == (t1 :> mine) @@ (t2 :> other1) @@ (t3 :> other2)
BuiltOn         == (t1 :> {}) @@ (t2 :> {}) @@ (t3 :> {t1})
OwnersOfCallers == (c1 :> mine) @@ (c2 :> other2) @@ (sim :> lab) @@ (bob :> None)

(* The first two are shown together: t1 and t2, or t2 and t3. *)
Lists == {<<t1, t2, t3>>, <<t3, t2, t1>>}

(* A unit of time is half a half-life.  What is left is exact for the      *)
(* standings that up to four recent calls and three rivals produce, where  *)
(* they are not at par; the others are taken for the one of these below.   *)
Faded ==
  [as \in (0 .. 1) \X (1000 .. 10000) |->
     IF as[1] = 0 THEN 1000
     ELSE CASE as[2] = 10000 -> 707 [] as[2] \in 7500 .. 9999 -> 630 [] as[2] \in 6667 .. 7499 -> 595
            [] as[2] \in 5000 .. 6666 -> 500 [] as[2] \in 1000 .. 4999 -> 31]
=============================================================================
