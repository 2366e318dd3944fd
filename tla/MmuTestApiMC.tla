---------------------------- MODULE MmuTestApiMC ---------------------------
(***************************************************************************)
(* Instances of MmuTestApi for TLC, with the symmetry of MmuRuntimeMC.     *)
(***************************************************************************)
EXTENDS MmuTestApi, TLC

Symmetry == Permutations(Block) \cup Permutations(Ctx) \cup Permutations(Page)
            \cup Permutations(Handle)
=============================================================================
