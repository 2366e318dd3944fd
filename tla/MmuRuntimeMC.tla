---------------------------- MODULE MmuRuntimeMC ----------------------------
(***************************************************************************)
(* Instances of MmuRuntime for TLC.  Blocks, contexts, pages and handles   *)
(* are interchangeable: the code never compares two of them except to tell *)
(* whether they are the same, apart from the tie-break on block numbers in *)
(* PickEvictionCandidate, which distinct epochs never reach.               *)
(***************************************************************************)
EXTENDS MmuRuntime, TLC

Symmetry == Permutations(Block) \cup Permutations(Ctx) \cup Permutations(Page)
            \cup Permutations(Handle)
=============================================================================
