------------------------------ MODULE MmuBatchMC ----------------------------
(***************************************************************************)
(* Instances of MmuBatch for TLC, with the symmetry of MmuRuntimeMC.       *)
(***************************************************************************)
EXTENDS MmuBatch, TLC

Symmetry == Permutations(Block) \cup Permutations(Ctx) \cup Permutations(Page)
            \cup Permutations(Handle)
=============================================================================
