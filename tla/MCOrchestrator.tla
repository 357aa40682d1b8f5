---------------------------- MODULE MCOrchestrator ----------------------------
(* Small instances of Orchestrator for TLC. *)
EXTENDS OrchestratorInvariant, TLC

CONSTANTS s1, s2, t1, t2, t3, sw, m1, m2

Symmetry == Permutations(Task \ {Sweeper})
=============================================================================
