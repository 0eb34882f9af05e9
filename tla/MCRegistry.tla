----------------------------- MODULE MCRegistry -----------------------------
(* Small instances of the registry: the sets of model values come from the *)
(* configurations, and requests, callers and tools are interchangeable.    *)
EXTENDS RegistryRefinement, TLC

Symmetry == Permutations(Requests) \cup Permutations(Callers) \cup Permutations(Tools)
=============================================================================
