----------------------------- MODULE MmuTestApi -----------------------------
(***************************************************************************)
(* mmu_test_update_mapping of src/src/mmu_api.cpp on top of the runtime of *)
(* MmuRuntime: the tests of the repository move a logical block to a block *)
(* of their choice, or its block to a tier of their choice, between calls  *)
(* of the public API.  The call changes the mapping first and the tier     *)
(* afterwards, and the second half may fail.                               *)
(*                                                                         *)
(* It shares stages with the calls of MmuRuntime: "reclaim" and "ensure"   *)
(* are EnsureResidentInL1, which leaves the call at "pin", where this call *)
(* returns; "demote" is MoveBlockToL2.                                     *)
(***************************************************************************)
EXTENDS MmuRuntime

Remap(c, l, stage) == [Idle EXCEPT !.stage = stage, !.op = "remap",
                                   !.ctx = c, !.lvid = l]

\* What follows the change of the mapping; any other tier is an error by then.
TierChange(c, l, tier) == CASE tier = "L1" -> Remap(c, l, "reclaim")
                            [] tier = "L2" -> Remap(c, l, "demote")
                            [] OTHER       -> Idle

\* The logical block is at b already: only the tier changes.
MigrateBlock(c, l, tier) ==
    /\ Resolves(c, l)
    /\ MayDrop(c, {l})
    /\ Starts(TierChange(c, l, tier))
    /\ UNCHANGED <<refs, names, blocks, pools, handles>>

\* BlockManager::release on the block that the logical block leaves
Released(b) == Less(refs[b], 1)

\* Context::UpdateMapping takes the free block b, releases the old one, and sets
\* the page table; then b gets fresh metadata and the old block is reset when that
\* was its last reference.
UpdateMapping(c, l, b, tier) ==
    LET old == table[c][l]
        freed == FreedByRelease(old)
    IN
    /\ Resolves(c, l)
    /\ MayDrop(c, {l})
    /\ b \in FreeBlocks
    /\ Starts(TierChange(c, l, tier))
    /\ refs' = [refs EXCEPT ![old] = Released(old), ![b] = 1]
    /\ table' = [table EXCEPT ![c][l] = b]
    /\ residentCount' = Less(residentCount, Leaving(freed))
    /\ meta' = [a \in Block |-> IF a = b THEN FreshMeta
                                ELSE IF a \in freed THEN DefaultMeta ELSE meta[a]]
    /\ recency' = Forgotten(freed \cup {b})
    /\ l1' = [a \in Block |-> IF a \in freed THEN Nil ELSE l1[a]]
    /\ l2' = [a \in Block |-> IF a \in freed THEN Nil ELSE l2[a]]
    /\ UNCHANGED <<live, size, mem, handles>>

\* MoveBlockToL2 on a resident block, on one that is not, and without an L2 page
DemoteResident ==
    /\ InStage("demote")
    /\ meta[Current].resident
    /\ L2CanAcquire(Current)
    /\ l2' = [l2 EXCEPT ![Current] = L1Data(Current)]
    /\ l1' = [l1 EXCEPT ![Current] = Nil]
    /\ meta' = [meta EXCEPT ![Current] =
                   [@ EXCEPT !.resident = FALSE, !.tier = "L2", !.backed = TRUE]]
    /\ residentCount' = Less(residentCount, 1)
    /\ call' = Idle
    /\ UNCHANGED <<refs, names, recency, mem, handles>>

DemoteOther ==
    /\ InStage("demote")
    /\ ~meta[Current].resident
    /\ l1' = [l1 EXCEPT ![Current] = Nil]
    /\ meta' = [meta EXCEPT ![Current].tier = "L2"]
    /\ call' = Idle
    /\ UNCHANGED <<refs, names, recency, residentCount, mem, l2, handles>>

DemoteFails ==
    /\ InStage("demote")
    /\ meta[Current].resident
    /\ L2AcquireMayFail(Current)
    /\ call' = Idle
    /\ UNCHANGED <<refs, names, blocks, pools, handles>>

\* EnsureResidentInL1 has succeeded.
Promoted ==
    /\ InStage("pin") /\ call.op = "remap"
    /\ call' = Idle
    /\ UNCHANGED <<refs, names, blocks, pools, handles>>

\* What the tests ask for between calls of the API, and how it ends
TestCall ==
    \E c \in Ctx, l \in Lvid, tier \in {"L0", "L1", "L2"} :
        \/ MigrateBlock(c, l, tier)
        \/ \E b \in Block : UpdateMapping(c, l, b, tier)

TestStep == DemoteResident \/ DemoteOther \/ DemoteFails \/ Promoted

TestNext == Next \/ TestCall \/ TestStep

TestSpec == Init /\ [][TestNext]_vars

-----------------------------------------------------------------------------
\* As TiersAgree, except that initialize_fresh_block leaves a remapped block in
\* tier L1 without a page until it is promoted, and for good when it is not: the
\* tier alone does not say that a block is resident.
TestTiersAgree ==
    /\ \A b \in Block :
          /\ meta[b].resident => meta[b].allocated /\ meta[b].tier = "L1"
          /\ meta[b].tier = "L1" /\ ~meta[b].resident => l2[b] = Nil
          /\ meta[b].backed <=> l2[b] # Nil
          /\ l1[b] # Nil => meta[b].resident
    /\ \A a, b \in Block : a # b /\ l1[a] # Nil => l1[a] # l1[b]
    /\ Cardinality(Stored) <= L2Limit

Remaps(c, l) == \E b \in Block, tier \in {"L0", "L1", "L2"} : UpdateMapping(c, l, b, tier)

\* Private, forkable memory under the test API as well, with an L2 store too small
\* for every copy: moving a logical block to another block makes that logical block,
\* and no other of any context, read as zero, whichever half of the call fails; moving
\* a block between the tiers changes nothing that a context reads; all other steps are
\* as in LosesOnlyFailedCopies.
ImplementsTestedMemory ==
    /\ Memory!Init
    /\ [][\/ Memory!Next
          \/ \E c \in Ctx, l \in Lvid :
                (Remaps(c, l) \/ LosesCopy(c, l)) /\ Memory!Replace(c, l)
         ]_<<Logical, Writing>>
=============================================================================
