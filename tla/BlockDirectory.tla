--------------------------- MODULE BlockDirectory ---------------------------
(***************************************************************************)
(* core/block_directory.cpp under the runtime of MmuRuntime: nine fields   *)
(* for each block with one setter for each, and the epoch from which       *)
(* last_access_epoch is drawn.  MmuRuntime keeps six of the fields and     *)
(* changes them together; it leaves out the frame and slot numbers and     *)
(* keeps the epochs as ranks.  Here every step of MmuRuntime is joined by  *)
(* the calls of setters in the code it stands for.                         *)
(*                                                                         *)
(* No caller passes an id that is not a block: the setters never fail.     *)
(***************************************************************************)
EXTENDS MmuRuntime

CONSTANT MaxEpoch   \* bound: a host that has got so far makes no more accesses
ASSUME MaxEpochAssumption == MaxEpoch \in Nat

VARIABLES metas,    \* BlockDirectory::metas_
          epoch     \* mmu_runtime_t::epoch
directoryVars == <<vars, metas, epoch>>

\* Nil is kInvalidFrameId and kInvalidSlotId.
BlockMeta == [allocated : BOOLEAN, tier : Tier, resident_in_l1 : BOOLEAN,
              dirty : BOOLEAN, pin_count : Nat, last_access_epoch : Nat,
              l1_frame_id : Block \cup {Nil}, l2_slot_id : Block \cup {Nil},
              has_l2_backing : BOOLEAN]

DirectoryTypeOK == metas \in [Block -> BlockMeta] /\ epoch \in Nat

MakeDefaultMeta == [allocated |-> FALSE, tier |-> "L2", resident_in_l1 |-> FALSE,
                    dirty |-> FALSE, pin_count |-> 0, last_access_epoch |-> 0,
                    l1_frame_id |-> Nil, l2_slot_id |-> Nil, has_l2_backing |-> FALSE]
MakeFreshMeta == [MakeDefaultMeta EXCEPT !.allocated = TRUE, !.tier = "L1"]

-----------------------------------------------------------------------------
\* What the step does to the directory: nothing, setters of one block, or reset;
\* d is the block's metadata as the setters leave it.
Leaves == UNCHANGED <<metas, epoch>>
Sets(b, d) == metas' = [metas EXCEPT ![b] = d] /\ UNCHANGED epoch
Resets(S) ==
    /\ metas' = [b \in Block |-> IF b \in S THEN MakeDefaultMeta ELSE metas[b]]
    /\ UNCHANGED epoch

\* TouchBlock after some setters: epochs are drawn in order, or all alike
SameEpoch == 1
NextEpoch == epoch + 1
SetsAndTouches(b, d) ==
    /\ epoch' = NextEpoch
    /\ metas' = [metas EXCEPT ![b] = [d EXCEPT !.last_access_epoch = epoch']]

-----------------------------------------------------------------------------
(* The setters that go together, applied to the metadata d of block b *)

\* SyncL1ToL2, and the end of CloneBlockDataForCow
Synced(b, d) == [d EXCEPT !.has_l2_backing = TRUE, !.l2_slot_id = b]

\* MoveBlockToL2 on a resident block, and with the frame number forgotten there
EvictedInPlace(b, d) == [Synced(b, d) EXCEPT !.resident_in_l1 = FALSE, !.tier = "L2"]
Evicted(b, d) == [Synced(b, d) EXCEPT !.resident_in_l1 = FALSE, !.l1_frame_id = Nil,
                                      !.tier = "L2"]

\* EnsureResidentInL1 and RegisterFreshBlock
Placed(b, d) == [d EXCEPT !.resident_in_l1 = TRUE, !.l1_frame_id = b, !.tier = "L1"]
FreshInL2 == [MakeFreshMeta EXCEPT !.tier = "L2"]

\* mmu_unmap_logical_block: the block loses a pin and, when it was written, is dirty
\* until it is written back, if it is still in L1 and has an L2 page afterwards.
WrittenBack(b, d) == [Synced(b, d) EXCEPT !.dirty = FALSE]
UnpinnedMeta(b) == [metas[b] EXCEPT !.pin_count = Less(@, 1)]
DirtiedMeta(b) == [UnpinnedMeta(b) EXCEPT !.dirty = TRUE]
UnmapSets(b, write) ==
    \/ ~write /\ SetsAndTouches(b, UnpinnedMeta(b))
    \/ write /\ ~metas[b].resident_in_l1 /\ SetsAndTouches(b, DirtiedMeta(b))
    \/ write /\ metas[b].resident_in_l1
          /\ \/ l2'[b] # Nil /\ SetsAndTouches(b, WrittenBack(b, DirtiedMeta(b)))
             \/ l2'[b] = Nil /\ Sets(b, DirtiedMeta(b))

-----------------------------------------------------------------------------
MoreAccesses == epoch < MaxEpoch

DirectoryHostCall ==
    \/ \E c \in Ctx : (CreateContext(c) \/ DestroyContext(c)) /\ Leaves
    \/ \E c, d \in Ctx : ForkContext(c, d) /\ Leaves
    \/ \E c \in Ctx, n \in 1 .. MaxLvid : MoreAccesses /\ AllocateBlocks(c, n) /\ Leaves
    \/ \E c \in Ctx, l \in Lvid : PrepareBlockForWrite(c, l) /\ Leaves
    \/ \E c \in Ctx, l \in Lvid, write \in BOOLEAN, h \in Handle :
          MoreAccesses /\ MapLogicalBlock(c, l, write, h) /\ Leaves
    \/ \E c \in Ctx, l \in Lvid :
          ReleaseLogicalBlock(c, l) /\ Resets(FreedByRelease(table[c][l]))
    \/ \E h \in Handle : /\ MoreAccesses
                         /\ UnmapLogicalBlock(h)
                         /\ UnmapSets(handles[h].block, handles[h].write)
    \/ \E c \in Ctx, l \in Lvid, write \in BOOLEAN :
          MoreAccesses /\ StrayUnmap(c, l, write) /\ UnmapSets(table[c][l], write)

DirectoryCallStep ==
    \/ Reclaim /\ Resets(FreeBlocks)
    \/ RegisterInL1 /\ SetsAndTouches(Current, Placed(Current, MakeFreshMeta))
    \/ RegisterInL2 /\ Sets(Current, FreshInL2)
    \/ \E n \in Block : CowRemap(n) /\ Sets(n, FreshInL2)
    \/ CloneBlockData /\ Sets(Current, Synced(Current, metas[Current]))
    \/ AlreadyResident
          /\ SetsAndTouches(Current, [metas[Current] EXCEPT !.tier = "L1"])
    \/ \E v \in Block : EvictVictim(v) /\ Sets(v, Evicted(v, metas[v]))
    \/ \E p \in Page :
          Promote(p) /\ SetsAndTouches(Current, Placed(Current, metas[Current]))
    \/ \E p \in Page :
          Pin(p) /\ SetsAndTouches(Current, [metas[Current] EXCEPT !.pin_count = @ + 1])
    \/ (\E b \in Block : GrowTable(b)) /\ Leaves
    \/ (WriteInPlace \/ GrowFails \/ CowFails \/ CloneFails
           \/ EvictFails \/ PromoteFails \/ PinFails) /\ Leaves

DirectoryInit == /\ Init
                 /\ metas = [b \in Block |-> MakeDefaultMeta]
                 /\ epoch = 0

DirectoryNext == DirectoryHostCall \/ DirectoryCallStep \/ (HostStep /\ Leaves)

DirectorySpec == DirectoryInit /\ [][DirectoryNext]_directoryVars

-----------------------------------------------------------------------------
\* d is the metadata of block b that MmuRuntime keeps as m, when the block's L2 page
\* holds `data'.
Agrees(b, d, m, data) ==
    /\ d.allocated = m.allocated /\ d.tier = m.tier
    /\ d.resident_in_l1 = m.resident /\ d.dirty = m.dirty
    /\ d.pin_count = m.pins /\ d.has_l2_backing = m.backed
    /\ d.l1_frame_id = IF m.resident THEN b ELSE Nil
    /\ d.l2_slot_id = IF data # Nil THEN b ELSE Nil

\* The setters, called one by one, leave the directory as MmuRuntime has it, whichever
\* of them an error or an early return skips; and the two fields MmuRuntime leaves out
\* say nothing more: l1_frame_id is the block's own number while the block is resident
\* and l2_slot_id while it has an L2 page, and both are invalid otherwise
\* (docs/phase1_unified_memory_blueprint.md, section 7.2).
DirectoryExact == \A b \in Block : Agrees(b, metas[b], meta[b], l2[b])

\* Where PickEvictionCandidate's scan may end
Candidates(protected) ==
    {b \in Block \ {protected} : /\ metas[b].allocated /\ metas[b].resident_in_l1
                                 /\ metas[b].pin_count = 0}
OldestAmong(S) ==
    {b \in S : \A a \in S : metas[b].last_access_epoch <= metas[a].last_access_epoch}

\* The eviction scan never has to choose between blocks of the same epoch, and the
\* one it finds is the one of least rank: no touch is missing on a way into L1.
OneVictim ==
    NeedsRoom =>
        LET oldest == OldestAmong(Candidates(Current)) IN
        /\ oldest = {b \in Block : IsVictim(b)}
        /\ Cardinality(oldest) <= 1
=============================================================================
