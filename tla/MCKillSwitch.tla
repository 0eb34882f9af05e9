--------------------------- MODULE MCKillSwitch ---------------------------
(* Small instances of the kill switch: the runs and the bounds come from   *)
(* the configurations, and the runs are interchangeable.                   *)
EXTENDS KillSwitch, TLC

Symmetry == Permutations(Runs)
=============================================================================
