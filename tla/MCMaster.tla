------------------------------ MODULE MCMaster ------------------------------
(***************************************************************************)
(* Instances of Master.  No worker and no test is special, but for the     *)
(* empty ID; the runs check invariants and properties of single steps, and *)
(* a refinement, for all of which the symmetry is sound.                   *)
(***************************************************************************)
EXTENDS Master, TLC

Symmetry == Permutations(WorkerIDs) \cup Permutations(TestIDs \ {NoTest})
=============================================================================
