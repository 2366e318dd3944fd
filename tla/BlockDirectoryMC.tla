------------------------- MODULE BlockDirectoryMC --------------------------
(***************************************************************************)
(* Instances of BlockDirectory for TLC, with the symmetry of MmuRuntimeMC. *)
(***************************************************************************)
EXTENDS BlockDirectory, TLC

Symmetry == Permutations(Block) \cup Permutations(Ctx) \cup Permutations(Page)
            \cup Permutations(Handle)
=============================================================================
