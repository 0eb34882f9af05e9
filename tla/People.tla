-------------------------------- MODULE People --------------------------------
(***************************************************************************)
(* Who calls: what a night's figures, of needs and of tools, know of the   *)
(* callers behind the rows that they count.                                *)
(***************************************************************************)
CONSTANTS
  Callers,
  Owner,      \* the owner of each caller, or None
  Simulated,  \* the callers of the simulation
  None        \* no owner, no tool

ASSUME SimulatedAssumption == Simulated \subseteq Callers
=============================================================================
