--------------------------- MODULE MCOrchestrator ---------------------------
(***************************************************************************)
(* Instances of Orchestrator.  No worker and no test is special, but for   *)
(* the empty ID; the runs check invariants and properties of single steps, *)
(* for which the symmetry is sound.                                        *)
(***************************************************************************)
EXTENDS Orchestrator, TLC

Symmetry == Permutations(WorkerIDs) \cup Permutations(TestIDs \ {NoTest})
=============================================================================
