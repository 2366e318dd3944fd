----------------------------- MODULE MmuRuntime -----------------------------
(***************************************************************************)
(* The block runtime of src/src/mmu_api.cpp with the classes it drives     *)
(* (core/context.cpp, core/block_manager.cpp, core/block_directory.cpp):   *)
(* reference-counted blocks shared between forked contexts, copy on write, *)
(* a bounded set of L1 pages backed by an L2 store, pins, and write-back   *)
(* at unmap and at eviction.                                               *)
(*                                                                         *)
(* Every API function takes mmu_runtime_t::api_mutex for its whole body,   *)
(* so at most one call is in progress: `call' is that call, with the stage *)
(* it has reached.  The host does not take the mutex to use the pointers   *)
(* that mmu_map_logical_block gave it, so HostWrite may happen between any *)
(* two stages.  A call that returns an error before it changed anything is *)
(* a stuttering step and has no action.                                    *)
(*                                                                         *)
(* Data: a page is one Value; which free block or free page an allocator   *)
(* hands out is left open; l1_frame_id and l2_slot_id are the block's own  *)
(* number exactly when `resident' and `backed' hold, and are left out.     *)
(***************************************************************************)
EXTENDS Naturals, FiniteSets

CONSTANTS
    Block,          \* physical blocks, config.l1_block_count of them
    Ctx,            \* context handles that may exist at once
    Page,           \* pages of host memory the L1 pool may hand out
    Handle,         \* mmu_mapped_block_t structures the host can hold
    Value,          \* contents of a block
    Zero,           \* the contents of a page after memset
    Nil,            \* none: no block, no page, no handle
    MaxLvid,        \* bound on the length of a page table
    ResidentLimit,  \* config.l1_resident_block_limit
    L2Limit,        \* config.l2_block_count
    MallocMayFail,  \* whether AllocateChunk may find no memory
    Liberties       \* what this host does beyond the disciplined use of the API

Lvid == 0 .. MaxLvid - 1

\* Ways of using the API that the runtime accepts and that a careful host avoids.
AllLiberties ==
    {"overallocate",      \* asks for more blocks than are free
     "forkWhileWriting",  \* forks a context that has a block mapped for writing
     "remap",             \* writes to a shared block it still has mapped
     "dropWhileMapped",   \* releases a block, or destroys a context, still mapped
     "strayUnmap"}        \* unmaps a block without a mapping to close

ASSUME FiniteAssumption ==
    IsFiniteSet(Block) /\ IsFiniteSet(Page) /\ IsFiniteSet(Handle)
ASSUME NilAssumption == Nil \notin Block \cup Ctx \cup Page \cup Handle \cup Value
ASSUME ZeroAssumption == Zero \in Value
\* mmu_init clamps all three counts to 1 .. l1_block_count
ASSUME ConfigAssumption ==
    /\ MaxLvid \in Nat \ {0}
    /\ ResidentLimit \in 1 .. Cardinality(Block)
    /\ L2Limit \in 1 .. Cardinality(Block)
\* The L1 pool grows by malloc and has no limit of its own.
ASSUME PageAssumption == Cardinality(Page) >= ResidentLimit
ASSUME ModeAssumption == MallocMayFail \in BOOLEAN /\ Liberties \subseteq AllLiberties

VARIABLES
    refs,           \* BlockManager::ref_counts_; a block is free at zero
    live,           \* the contexts in mmu_runtime_t::contexts
    table,          \* Context::page_table_
    size,           \* number of entries of each page table
    meta,           \* BlockDirectory::metas_, without last_access_epoch
    recency,        \* last_access_epoch, as the rank it has among the blocks
    l1,             \* l1_pool.owner_pages
    mem,            \* contents of the L1 pages
    l2,             \* contents of the block's l2_pool page, Nil when it has none
    residentCount,  \* mmu_runtime_t::resident_count
    handles,        \* the mappings the host holds open
    call            \* the API call that holds api_mutex

names   == <<live, table, size>>
pools   == <<l1, mem, l2>>
blocks  == <<meta, recency, residentCount>>
vars    == <<refs, live, table, size, meta, recency, l1, mem, l2,
             residentCount, handles, call>>

Tier == {"L1", "L2"}
Meta == [allocated : BOOLEAN, tier : Tier, resident : BOOLEAN, dirty : BOOLEAN,
         pins : Nat, backed : BOOLEAN]
Mapping == [ctx : Ctx, lvid : Lvid, block : Block, page : Page, write : BOOLEAN]
\* Nil is no mapping, and no context's memory either.
ASSUME NilIsNothing == Nil \notin Mapping /\ Nil \notin [Lvid -> Value \cup {Nil}]
\* "remap" is mmu_test_update_mapping, which has a stage "demote" (MmuTestApi).
Stage == {"idle", "reclaim", "grow", "register", "prepare", "clone", "ensure", "pin",
          "demote"}
Op == {"none", "destroy", "allocate", "prepare", "map", "remap"}
Call == [stage : Stage, op : Op, ctx : Ctx \cup {Nil}, lvid : Lvid,
         write : BOOLEAN, handle : Handle \cup {Nil}, src : Block \cup {Nil},
         base : 0 .. MaxLvid, goal : 0 .. MaxLvid]

TypeOK ==
    /\ refs \in [Block -> Nat]
    /\ live \in SUBSET Ctx
    /\ table \in [Ctx -> [Lvid -> Block \cup {Nil}]]
    /\ size \in [Ctx -> 0 .. MaxLvid]
    /\ meta \in [Block -> Meta]
    /\ recency \in [Block -> Nat]
    /\ l1 \in [Block -> Page \cup {Nil}]
    /\ mem \in [Page -> Value]
    /\ l2 \in [Block -> Value \cup {Nil}]
    /\ residentCount \in Nat
    /\ handles \in [Handle -> Mapping \cup {Nil}]
    /\ call \in Call

-----------------------------------------------------------------------------
(* Metadata, recency, pages *)

\* MakeDefaultMeta and MakeFreshMeta
DefaultMeta == [allocated |-> FALSE, tier |-> "L2", resident |-> FALSE,
                dirty |-> FALSE, pins |-> 0, backed |-> FALSE]
FreshMeta == [DefaultMeta EXCEPT !.allocated = TRUE, !.tier = "L1"]

NoEntries == [l \in Lvid |-> Nil]
Idle == [stage |-> "idle", op |-> "none", ctx |-> Nil, lvid |-> 0, write |-> FALSE,
         handle |-> Nil, src |-> Nil, base |-> 0, goal |-> 0]

\* The guarded decrements of the code, and one without its guard
LessUnguarded(n, k) == n - k
Less(n, k) == IF k < n THEN n - k ELSE 0

\* The blocks on BlockManager::free_list_, and the set an off-by-one would give
FreeBlocksOffByOne == {b \in Block : refs[b] <= 1}
FreeBlocks == {b \in Block : refs[b] = 0}
Resident == {b \in Block : meta[b].resident}

\* Epochs only matter by their order: r is renumbered 1, 2, ... with 0 for "never".
Ranks(r) ==
    [b \in Block |-> Cardinality({a \in Block : 0 < r[a] /\ r[a] <= r[b]})]
Touched(b) == Ranks([recency EXCEPT ![b] = Cardinality(Block) + 1])
Forgotten(S) == Ranks([b \in Block |-> IF b \in S THEN 0 ELSE recency[b]])

\* AcquirePage on the L1 pool: the page the block owns, or any free one.
L1PageFor(b) == IF l1[b] # Nil THEN {l1[b]} ELSE Page \ {l1[a] : a \in Block}
L1AcquireMayFail(b) == l1[b] = Nil /\ MallocMayFail

\* AcquirePage on the L2 pool, which holds at most L2Limit pages.
Stored == {b \in Block : l2[b] # Nil}
L2FullOffByOne == Cardinality(Stored) > L2Limit
L2Full == Cardinality(Stored) >= L2Limit
L2CanAcquire(b) == l2[b] # Nil \/ ~L2Full
L2AcquireMayFail(b) == l2[b] = Nil /\ (L2Full \/ MallocMayFail)

\* CopyOrZero from the block's page in a pool
L1Data(b) == IF l1[b] # Nil THEN mem[l1[b]] ELSE Zero
L2Data(b) == IF l2[b] # Nil THEN l2[b] ELSE Zero

\* How many of the blocks of S leave L1 with S.
LeavingAll(S) == Cardinality(S)
Leaving(S) == Cardinality(S \cap Resident)

\* ResetBlockData and BlockDirectory::reset on every block of S
Scrub(S) ==
    /\ residentCount' = Less(residentCount, Leaving(S))
    /\ meta' = [b \in Block |-> IF b \in S THEN DefaultMeta ELSE meta[b]]
    /\ recency' = Forgotten(S)
    /\ l1' = [b \in Block |-> IF b \in S THEN Nil ELSE l1[b]]
    /\ l2' = [b \in Block |-> IF b \in S THEN Nil ELSE l2[b]]
    /\ UNCHANGED mem

-----------------------------------------------------------------------------
(* The host's side of the API *)

Permitted(liberty) == liberty \in Liberties

Holds(h, c, l) == handles[h] # Nil /\ handles[h].ctx = c /\ handles[h].lvid = l
IsMapped(c, l) == \E h \in Handle : Holds(h, c, l)
IsWriting(c) == \E l \in Lvid, h \in Handle : Holds(h, c, l) /\ handles[h].write

\* Context::ResolveRouting succeeds; the block it finds is table[c][l]
Resolves(c, l) == /\ c \in live
                  /\ table[c][l] # Nil
                  /\ meta[table[c][l]].allocated

\* Copy on write moves the context to another block under its own mappings.
MayWrite(c, l) ==
    \/ Permitted("remap")
    \/ refs[table[c][l]] > 1 => ~IsMapped(c, l)
MayDrop(c, S) == Permitted("dropWhileMapped") \/ \A l \in S : ~IsMapped(c, l)
MayFork(c) == Permitted("forkWhileWriting") \/ ~IsWriting(c)
MayAllocate(n) == Permitted("overallocate") \/ n <= Cardinality(FreeBlocks)

-----------------------------------------------------------------------------
(* The call in progress *)

Starts(request) == call.stage = "idle" /\ call' = request
InStage(s) == call.stage = s
At(s) == [call EXCEPT !.stage = s]

\* The block behind the logical block that the call is about.
Current == table[call.ctx][call.lvid]

\* ReclaimUnusedResidentBlocks, the prologue of allocation and of residency
\* and the epilogue of mmu_destroy_context
AfterReclaim == CASE call.op = "destroy"  -> Idle
                  [] call.op = "allocate" -> At("grow")
                  [] OTHER                -> At("ensure")
Reclaim ==
    /\ InStage("reclaim")
    /\ Scrub(FreeBlocks)
    /\ call' = AfterReclaim
    /\ UNCHANGED <<refs, names, handles>>

-----------------------------------------------------------------------------
(* Contexts *)

CreateContext(c) ==
    /\ c \notin live
    /\ Starts(Idle)
    /\ live' = live \cup {c}
    /\ table' = [table EXCEPT ![c] = NoEntries]
    /\ size' = [size EXCEPT ![c] = 0]
    /\ UNCHANGED <<refs, blocks, pools, handles>>

\* How many entries of c's page table name block b.
Uses(c, b) == Cardinality({l \in Lvid : table[c][l] = b})

\* Context::Fork retains every block it finds; a block nobody refers to stays free.
RetainedNone(c) == refs
Retained(c) == [b \in Block |-> IF refs[b] > 0 THEN refs[b] + Uses(c, b) ELSE 0]
ForkContext(c, d) ==
    /\ c \in live /\ d \notin live
    /\ MayFork(c)
    /\ Starts(Idle)
    /\ refs' = Retained(c)
    /\ live' = live \cup {d}
    /\ table' = [table EXCEPT ![d] = table[c]]
    /\ size' = [size EXCEPT ![d] = size[c]]
    /\ UNCHANGED <<blocks, pools, handles>>

\* ~Context releases every entry, then mmu_destroy_context reclaims.
DestroyContext(c) ==
    /\ c \in live
    /\ MayDrop(c, Lvid)
    /\ Starts([Idle EXCEPT !.stage = "reclaim", !.op = "destroy"])
    /\ refs' = [b \in Block |-> Less(refs[b], Uses(c, b))]
    /\ live' = live \ {c}
    /\ table' = [table EXCEPT ![c] = NoEntries]
    /\ size' = [size EXCEPT ![c] = 0]
    /\ UNCHANGED <<blocks, pools, handles>>

-----------------------------------------------------------------------------
(* mmu_allocate_blocks: reclaim, grow the page table, register the blocks *)

AllocateBlocks(c, n) ==
    /\ c \in live
    /\ size[c] + n <= MaxLvid
    /\ MayAllocate(n)
    /\ Starts([Idle EXCEPT !.stage = "reclaim", !.op = "allocate", !.ctx = c,
                           !.lvid = size[c], !.base = size[c],
                           !.goal = size[c] + n])
    /\ UNCHANGED <<refs, names, blocks, pools, handles>>

\* One turn of the loop of Context::AllocateBlocks
GrowTable(b) ==
    LET c == call.ctx IN
    /\ InStage("grow")
    /\ b \in FreeBlocks
    /\ refs' = [refs EXCEPT ![b] = 1]
    /\ table' = [table EXCEPT ![c][size[c]] = b]
    /\ size' = [size EXCEPT ![c] = @ + 1]
    /\ call' = IF size[c] + 1 = call.goal THEN At("register") ELSE At("grow")
    /\ UNCHANGED <<live, blocks, pools, handles>>

\* The free list is empty: the blocks taken so far are released, and the
\* entries that name them stay in the page table.
Taken == {table[call.ctx][l] : l \in call.base .. size[call.ctx] - 1}
GrowFails ==
    /\ InStage("grow")
    /\ FreeBlocks = {}
    /\ refs' = [b \in Block |-> IF b \in Taken THEN Less(refs[b], 1) ELSE refs[b]]
    /\ call' = Idle
    /\ UNCHANGED <<names, blocks, pools, handles>>

\* One turn of the loop of mmu_allocate_blocks over the new blocks, up to the
\* choice RegisterFreshBlock makes.
Registering ==
    /\ InStage("register")
    /\ call' = IF call.lvid + 1 = call.goal THEN Idle
                                            ELSE [call EXCEPT !.lvid = @ + 1]
    /\ l1' = [l1 EXCEPT ![Current] = Nil]
    /\ l2' = [l2 EXCEPT ![Current] = Nil]
    /\ UNCHANGED <<refs, names, mem, handles>>

RegisterInL1 ==
    /\ Registering
    /\ residentCount < ResidentLimit
    /\ meta' = [meta EXCEPT ![Current] = [FreshMeta EXCEPT !.resident = TRUE]]
    /\ residentCount' = residentCount + 1
    /\ recency' = Touched(Current)

RegisterInL2 ==
    /\ Registering
    /\ residentCount >= ResidentLimit
    /\ meta' = [meta EXCEPT ![Current] = [FreshMeta EXCEPT !.tier = "L2"]]
    /\ recency' = Forgotten({Current})
    /\ UNCHANGED residentCount

-----------------------------------------------------------------------------
(* mmu_release_logical_block *)

\* The blocks that a release of b frees
FreedLater(b) == {}
FreedByRelease(b) == {b} \cap {a \in Block : refs[a] <= 1}

ReleaseLogicalBlock(c, l) ==
    LET b == table[c][l] IN
    /\ Resolves(c, l)
    /\ MayDrop(c, {l})
    /\ Starts(Idle)
    /\ refs' = [refs EXCEPT ![b] = Less(@, 1)]
    /\ table' = [table EXCEPT ![c][l] = Nil]
    /\ Scrub(FreedByRelease(b))
    /\ UNCHANGED <<live, size, handles>>

-----------------------------------------------------------------------------
(* mmu_prepare_block_for_write, alone or as the first part of a write map *)

PrepareBlockForWrite(c, l) ==
    /\ Resolves(c, l)
    /\ MayWrite(c, l)
    /\ Starts([Idle EXCEPT !.stage = "prepare", !.op = "prepare",
                           !.ctx = c, !.lvid = l])
    /\ UNCHANGED <<refs, names, blocks, pools, handles>>

\* Context::PrepareBlockForWrite copies a block that others refer to.
MustCopyOffByOne(b) == refs[b] > 2
MustCopy(b) == refs[b] > 1

Prepared == IF call.op = "map" THEN At("reclaim") ELSE Idle

WriteInPlace ==
    /\ InStage("prepare")
    /\ ~MustCopy(Current)
    /\ call' = Prepared
    /\ UNCHANGED <<refs, names, blocks, pools, handles>>

\* Context::PrepareBlockForWrite finds no free block for the copy.
CowFails ==
    /\ InStage("prepare")
    /\ MustCopy(Current)
    /\ FreeBlocks = {}
    /\ call' = Idle
    /\ UNCHANGED <<refs, names, blocks, pools, handles>>

\* The context moves to the free block n; its contents come in the next stage.
CowRemap(n) ==
    /\ InStage("prepare")
    /\ MustCopy(Current)
    /\ n \in FreeBlocks
    /\ refs' = [refs EXCEPT ![Current] = @ - 1, ![n] = 1]
    /\ table' = [table EXCEPT ![call.ctx][call.lvid] = n]
    /\ meta' = [meta EXCEPT ![n] = [FreshMeta EXCEPT !.tier = "L2"]]
    /\ recency' = Forgotten({n})
    /\ call' = [At("clone") EXCEPT !.src = Current]
    /\ UNCHANGED <<live, size, residentCount, pools, handles>>

\* Where CloneBlockDataForCow looks for the contents of the source block
CloneFromL1(b) == L1Data(b)
CloneSource(b) ==
    IF meta[b].tier = "L1" /\ meta[b].resident /\ l1[b] # Nil THEN L1Data(b)
    ELSE IF l2[b] # Nil THEN L2Data(b) ELSE L1Data(b)

\* CloneBlockDataForCow; the copy is fresh, hence not resident in L1.
CloneBlockData ==
    /\ InStage("clone")
    /\ L2CanAcquire(Current)
    /\ l2' = [l2 EXCEPT ![Current] = CloneSource(call.src)]
    /\ l1' = [l1 EXCEPT ![Current] = Nil]
    /\ meta' = [meta EXCEPT ![Current].backed = TRUE]
    /\ call' = [Prepared EXCEPT !.src = Nil]
    /\ UNCHANGED <<refs, names, recency, residentCount, mem, handles>>

CloneFails ==
    /\ InStage("clone")
    /\ L2AcquireMayFail(Current)
    /\ call' = Idle
    /\ UNCHANGED <<refs, names, blocks, pools, handles>>

-----------------------------------------------------------------------------
(* mmu_map_logical_block: prepare when writing, make resident, pin *)

MapLogicalBlock(c, l, write, h) ==
    /\ Resolves(c, l)
    /\ handles[h] = Nil
    /\ write => MayWrite(c, l)
    /\ Starts([Idle EXCEPT !.stage = IF write THEN "prepare" ELSE "reclaim",
                           !.op = "map", !.ctx = c, !.lvid = l,
                           !.write = write, !.handle = h])
    /\ UNCHANGED <<refs, names, blocks, pools, handles>>

AlreadyResident ==
    /\ InStage("ensure")
    /\ meta[Current].resident
    /\ meta' = [meta EXCEPT ![Current].tier = "L1"]
    /\ recency' = Touched(Current)
    /\ call' = At("pin")
    /\ UNCHANGED <<refs, names, residentCount, pools, handles>>

\* PickEvictionCandidate(protected)
EvictableIfPinned(b, protected) ==
    meta[b].allocated /\ meta[b].resident /\ b # protected
EvictableIfUnpinned(b, protected) == meta[b].allocated /\ meta[b].pins = 0
Evictable(b, protected) ==
    meta[b].allocated /\ meta[b].resident /\ meta[b].pins = 0 /\ b # protected
IsVictim(b) ==
    /\ Evictable(b, Current)
    /\ \A a \in Block : Evictable(a, Current) => recency[b] <= recency[a]

NeedsRoom ==
    /\ InStage("ensure")
    /\ ~meta[Current].resident
    /\ residentCount >= ResidentLimit

\* MoveBlockToL2(v), one turn of the loop of EnsureResidentInL1
EvictVictim(v) ==
    /\ NeedsRoom
    /\ IsVictim(v)
    /\ L2CanAcquire(v)
    /\ l2' = [l2 EXCEPT ![v] = L1Data(v)]
    /\ l1' = [l1 EXCEPT ![v] = Nil]
    /\ meta' = [meta EXCEPT ![v] =
                   [@ EXCEPT !.resident = FALSE, !.tier = "L2", !.backed = TRUE]]
    /\ residentCount' = Less(residentCount, Leaving({v}))
    /\ UNCHANGED <<refs, names, recency, mem, handles, call>>

\* Everything is pinned, or there is no L2 page for the one victim tried.
EvictFails ==
    /\ NeedsRoom
    /\ \A v \in Block : IsVictim(v) => L2AcquireMayFail(v)
    /\ call' = Idle
    /\ UNCHANGED <<refs, names, blocks, pools, handles>>

\* SyncL2ToL1 and the rest of EnsureResidentInL1
Promote(p) ==
    /\ InStage("ensure")
    /\ ~meta[Current].resident
    /\ residentCount < ResidentLimit
    /\ p \in L1PageFor(Current)
    /\ l1' = [l1 EXCEPT ![Current] = p]
    /\ mem' = [mem EXCEPT ![p] = L2Data(Current)]
    /\ meta' = [meta EXCEPT ![Current].resident = TRUE, ![Current].tier = "L1"]
    /\ residentCount' = residentCount + 1
    /\ recency' = Touched(Current)
    /\ call' = At("pin")
    /\ UNCHANGED <<refs, names, l2, handles>>

PromoteFails ==
    /\ InStage("ensure")
    /\ ~meta[Current].resident
    /\ residentCount < ResidentLimit
    /\ L1AcquireMayFail(Current)
    /\ call' = Idle
    /\ UNCHANGED <<refs, names, blocks, pools, handles>>

\* The block has its page, or gets a zero-filled one, and the host a pointer.
Pin(p) ==
    /\ InStage("pin") /\ call.op = "map"
    /\ p \in L1PageFor(Current)
    /\ l1' = [l1 EXCEPT ![Current] = p]
    /\ mem' = [mem EXCEPT ![p] = L1Data(Current)]
    /\ meta' = [meta EXCEPT ![Current].pins = @ + 1]
    /\ recency' = Touched(Current)
    /\ handles' = [handles EXCEPT ![call.handle] =
                      [ctx |-> call.ctx, lvid |-> call.lvid, block |-> Current,
                       page |-> p, write |-> call.write]]
    /\ call' = Idle
    /\ UNCHANGED <<refs, names, residentCount, l2>>

PinFails ==
    /\ InStage("pin") /\ call.op = "map"
    /\ L1AcquireMayFail(Current)
    /\ call' = Idle
    /\ UNCHANGED <<refs, names, blocks, pools, handles>>

-----------------------------------------------------------------------------
(* The host writes through its pointer; no lock is held *)

HostWrite(h, v) ==
    /\ handles[h] # Nil
    /\ handles[h].write
    /\ mem' = [mem EXCEPT ![handles[h].page] = v]
    /\ UNCHANGED <<refs, names, blocks, l1, l2, handles, call>>

-----------------------------------------------------------------------------
(* mmu_unmap_logical_block *)

UnpinnedAll(b) == [meta[b] EXCEPT !.pins = 0]
StillPinned(b) == meta[b]
Unpinned(b) == [meta[b] EXCEPT !.pins = Less(@, 1)]

UnmapRead(b) ==
    /\ meta' = [meta EXCEPT ![b] = Unpinned(b)]
    /\ recency' = Touched(b)
    /\ UNCHANGED l2

\* SyncL1ToL2 succeeds and clears the dirty bit that was set before it.
UnmapWrite(b) ==
    /\ meta[b].resident
    /\ L2CanAcquire(b)
    /\ l2' = [l2 EXCEPT ![b] = L1Data(b)]
    /\ meta' = [meta EXCEPT ![b] = [Unpinned(b) EXCEPT !.dirty = FALSE, !.backed = TRUE]]
    /\ recency' = Touched(b)

\* The early return: unpinned and dirty, but not touched.
UnmapWriteFailsClean(b) ==
    /\ meta[b].resident
    /\ L2AcquireMayFail(b)
    /\ meta' = [meta EXCEPT ![b] = Unpinned(b)]
    /\ UNCHANGED <<recency, l2>>
UnmapWriteFails(b) ==
    /\ meta[b].resident
    /\ L2AcquireMayFail(b)
    /\ meta' = [meta EXCEPT ![b] = [Unpinned(b) EXCEPT !.dirty = TRUE]]
    /\ UNCHANGED <<recency, l2>>

\* The block was evicted under its mapping: there is nothing to write back.
UnmapWriteEvicted(b) ==
    /\ ~meta[b].resident
    /\ meta' = [meta EXCEPT ![b] = [Unpinned(b) EXCEPT !.dirty = TRUE]]
    /\ recency' = Touched(b)
    /\ UNCHANGED l2

Unmap(b, write) ==
    /\ Starts(Idle)
    /\ IF write THEN UnmapWrite(b) \/ UnmapWriteFails(b) \/ UnmapWriteEvicted(b)
                ELSE UnmapRead(b)
    /\ UNCHANGED <<refs, names, residentCount, l1, mem>>

\* The host closes a mapping; the runtime checks only that the logical block
\* still is the physical block of the structure, and returns BAD_HANDLE when not.
CanUnmap(h) ==
    /\ handles[h] # Nil
    /\ Resolves(handles[h].ctx, handles[h].lvid)
    /\ table[handles[h].ctx][handles[h].lvid] = handles[h].block

UnmapLogicalBlock(h) ==
    /\ CanUnmap(h)
    /\ Unmap(handles[h].block, handles[h].write)
    /\ handles' = [handles EXCEPT ![h] = Nil]

\* The same call with a structure that is no open mapping: one already closed
\* (a retry, a copy), or one filled in by hand.
StrayUnmap(c, l, write) ==
    /\ Permitted("strayUnmap")
    /\ Resolves(c, l)
    /\ Unmap(table[c][l], write)
    /\ UNCHANGED handles

-----------------------------------------------------------------------------
\* A new runtime; host memory holds anything until a page of it is handed out.
Init ==
    /\ refs = [b \in Block |-> 0]
    /\ live = {}
    /\ table = [c \in Ctx |-> NoEntries]
    /\ size = [c \in Ctx |-> 0]
    /\ meta = [b \in Block |-> DefaultMeta]
    /\ recency = [b \in Block |-> 0]
    /\ l1 = [b \in Block |-> Nil]
    /\ mem \in [Page -> Value]
    /\ l2 = [b \in Block |-> Nil]
    /\ residentCount = 0
    /\ handles = [h \in Handle |-> Nil]
    /\ call = Idle

\* The calls a host thread may make when no other call holds api_mutex
HostCall ==
    \/ \E c \in Ctx : CreateContext(c) \/ DestroyContext(c)
    \/ \E c, d \in Ctx : ForkContext(c, d)
    \/ \E c \in Ctx, n \in 1 .. MaxLvid : AllocateBlocks(c, n)
    \/ \E c \in Ctx, l \in Lvid : ReleaseLogicalBlock(c, l)
    \/ \E c \in Ctx, l \in Lvid : PrepareBlockForWrite(c, l)
    \/ \E c \in Ctx, l \in Lvid, write \in BOOLEAN, h \in Handle :
          MapLogicalBlock(c, l, write, h)
    \/ \E h \in Handle : UnmapLogicalBlock(h)
    \/ \E c \in Ctx, l \in Lvid, write \in BOOLEAN : StrayUnmap(c, l, write)

\* The rest of the call that holds api_mutex
CallStep ==
    \/ Reclaim
    \/ \E b \in Block : GrowTable(b)
    \/ GrowFails
    \/ RegisterInL1 \/ RegisterInL2
    \/ WriteInPlace \/ CowFails
    \/ \E n \in Block : CowRemap(n)
    \/ CloneBlockData \/ CloneFails
    \/ AlreadyResident
    \/ \E v \in Block : EvictVictim(v)
    \/ EvictFails
    \/ \E p \in Page : Promote(p)
    \/ PromoteFails
    \/ \E p \in Page : Pin(p)
    \/ PinFails

HostStep == \E h \in Handle, v \in Value : HostWrite(h, v)

Next == HostCall \/ CallStep \/ HostStep

Spec == Init /\ [][Next]_vars

\* No call waits for anything while it holds the mutex, so a call that has
\* started keeps running.  Nothing obliges the host to make calls.
FairSpec == Spec /\ WF_vars(CallStep)

-----------------------------------------------------------------------------
(* Accounting: what holds however the host uses the API *)

\* resident_count, on which every eviction decision rests, is the number of
\* resident blocks, and never exceeds the configured limit.
ResidencyAccounted ==
    /\ residentCount = Cardinality(Resident)
    /\ residentCount <= ResidentLimit

\* The three places that say where a block lives agree: its metadata, the L1
\* pool and the L2 pool.  Only resident blocks own L1 pages, no two blocks own
\* the same page, and the L2 pool never holds more pages than configured.
TiersAgree ==
    /\ \A b \in Block :
          /\ meta[b].resident => meta[b].allocated
          /\ meta[b].resident <=> meta[b].tier = "L1"
          /\ meta[b].backed <=> l2[b] # Nil
          /\ l1[b] # Nil => meta[b].resident
    /\ \A a, b \in Block : a # b /\ l1[a] # Nil => l1[a] # l1[b]
    /\ Cardinality(Stored) <= L2Limit

\* A free block carries nothing of its last life: mmu_prepare_block_for_write
\* takes blocks off the free list without reclaiming first, and relies on it.
Clean(b) == meta[b] = DefaultMeta /\ recency[b] = 0 /\ l1[b] = Nil /\ l2[b] = Nil
FreeBlocksClean == call.stage # "reclaim" => \A b \in FreeBlocks : Clean(b)

\* What a call knows between two of its stages, with the mutex held all along.
\* The block it works on stays referenced and registered (no reclaim or eviction
\* inside the call takes it away), it is resident when it is pinned, and the
\* blocks an allocation took but has not registered are distinct and clean.
Pending == {l \in Lvid : call.lvid <= l /\ l < size[call.ctx]}
AllocationConsistent ==
    /\ call.ctx \in Ctx
    /\ call.lvid < call.goal /\ call.base <= call.lvid
    /\ call.stage \in {"reclaim", "grow", "register"}
    /\ call.stage = "reclaim" => call.base = call.lvid /\ size[call.ctx] = call.lvid
    /\ call.stage = "grow" => /\ call.base = call.lvid
                              /\ call.lvid <= size[call.ctx]
                              /\ size[call.ctx] < call.goal
    /\ call.stage = "register" => size[call.ctx] = call.goal
    /\ \A l \in Pending :
          /\ table[call.ctx][l] \in Block
          /\ refs[table[call.ctx][l]] > 0
          /\ Clean(table[call.ctx][l])
          /\ \A k \in Pending : k # l => table[call.ctx][k] # table[call.ctx][l]
AccessConsistent ==
    /\ call.ctx \in Ctx /\ Current \in Block
    /\ refs[Current] > 0 /\ meta[Current].allocated
    /\ \/ call.op # "remap" /\ call.stage \in {"prepare", "clone"}
       \/ call.op # "prepare" /\ call.stage \in {"reclaim", "ensure", "pin"}
       \/ call.op = "remap" /\ call.stage = "demote"
    /\ call.stage = "clone" => call.src \in Block /\ meta[Current].tier = "L2"
    /\ call.stage = "pin" => meta[Current].resident
    /\ call.op = "map" => call.handle \in Handle
CallConsistent ==
    /\ call.op = "none" <=> call.stage = "idle"
    /\ call.op = "destroy" => call.stage = "reclaim"
    /\ call.op = "allocate" => AllocationConsistent
    /\ call.op \in {"prepare", "map", "remap"} => AccessConsistent

\* The step takes no page from a pinned block that stays in use.
PinnedKeepPages ==
    \A b \in Block : meta[b].pins > 0 /\ l1[b] # Nil /\ l1'[b] # l1[b]
                        => refs'[b] = 0

\* A mapped block keeps its page until it is unmapped or freed: no eviction,
\* promotion or copy by any other call moves it (include/dsf_mmu/mmu_api.h).
PinnedStaysPut == [][PinnedKeepPages]_vars

-----------------------------------------------------------------------------
(* Sharing: what a host that keeps to some discipline gets *)

\* How many page table entries name b
AllUses(b) == Cardinality({e \in Ctx \X Lvid : table[e[1]][e[2]] = b})

\* "the reference count of a physical block, which indicates how many logical
\* blocks are currently mapped to it" (include/dsf_mmu/mmu_api.h).
RefCountExact == \A b \in Block : refs[b] = AllUses(b)

\* The pin count of a block is the number of mappings the host holds on it.
PinsCountMappings ==
    \A b \in Block :
        meta[b].pins = Cardinality({h \in Handle : handles[h] # Nil
                                                   /\ handles[h].block = b})

\* A pointer the host holds is the page its logical block reads from.
PointersStayValid ==
    \A h \in Handle : handles[h] # Nil =>
        LET m == handles[h] IN
        /\ m.ctx \in live
        /\ table[m.ctx][m.lvid] = m.block
        /\ l1[m.block] = m.page

\* While a block is mapped for writing no other logical block shares it, so a
\* store through the pointer is seen by one context only.
WritersAreAlone ==
    \A h \in Handle : handles[h] # Nil /\ handles[h].write =>
        refs[handles[h].block] = 1

\* Every mapping can be closed: unmapping it will not be refused.
MappingsCanBeUnmapped ==
    \A h \in Handle : handles[h] # Nil => CanUnmap(h)

BeingWritten(b) ==
    \E h \in Handle : handles[h] # Nil /\ handles[h].block = b /\ handles[h].write

\* A clean block that nobody is writing reads the same from either tier, so
\* dropping its L1 page would lose nothing: a write that could not be brought to
\* L2 leaves the block dirty.
WrittenThrough ==
    \A b \in Block :
        ~meta[b].dirty /\ ~BeingWritten(b) /\ l1[b] # Nil
            => mem[l1[b]] = L2Data(b)

\* A pin is only given back by closing a mapping of that block, or with the
\* block itself.
PinsGivenBackByOwner ==
    [][\A b \in Block : meta'[b].pins < meta[b].pins =>
          \/ refs'[b] = 0
          \/ \E h \in Handle : /\ handles[h] # Nil /\ handles[h].block = b
                               /\ handles'[h] = Nil]_vars

\* A block is refused a frame only when the host itself has mapped as many blocks as
\* L1 has frames, or when an L2 store smaller than the block space is full: no pin
\* outlives its mapping, free blocks hold no frame, and every block without a pin can
\* be evicted.  With the default L2 size the host's own mappings are the only reason.
MappedBlocks == {handles[h].block : h \in {g \in Handle : handles[g] # Nil}}
FrameRefused == call.stage = "ensure" /\ call'.stage = "idle"
RefusedOnlyWhenFull ==
    [][FrameRefused => \/ Cardinality(MappedBlocks) >= ResidentLimit
                       \/ L2Full /\ L2Limit < Cardinality(Block)]_vars

\* Only a block in L1 can be ahead of L2: eviction writes a dirty block back and
\* clears the mark (docs/phase1_unified_memory_blueprint.md, section 9.6).
DirtyOnlyInL1 == \A b \in Block : meta[b].dirty => meta[b].resident

\* Every API call returns.
CallsReturn == call.stage # "idle" ~> call.stage = "idle"

-----------------------------------------------------------------------------
(* The runtime implements private, forkable memory *)

\* What a block reads as: its page while resident, else its L2 page, else zero
Contents(b) == IF meta[b].resident THEN L1Data(b) ELSE L2Data(b)

\* A call takes effect at one of its stages: an allocation when the last block
\* is registered, and a copy keeps the old block's contents until it is cloned.
NotYetAllocated(c, l) ==
    call.stage \in {"grow", "register"} /\ call.ctx = c /\ call.base <= l
Backing(c, l) ==
    IF call.stage = "clone" /\ call.ctx = c /\ call.lvid = l THEN call.src
                                                             ELSE table[c][l]
Logical ==
    [c \in Ctx |->
        IF c \notin live THEN Nil
        ELSE [l \in Lvid |->
                IF NotYetAllocated(c, l) \/ Backing(c, l) = Nil THEN Nil
                ELSE Contents(Backing(c, l))]]

Writing == {<<handles[h].ctx, handles[h].lvid>> :
               h \in {g \in Handle : handles[g] # Nil /\ handles[g].write}}

Memory == INSTANCE ForkedMemory WITH logical <- Logical, writing <- Writing

\* Contexts are isolated from each other and find what they last wrote, through
\* every eviction, promotion, copy and sharing the runtime does underneath.
ImplementsForkedMemory == Memory!Spec

\* The same however small the L2 store is, with one exception: a logical block whose
\* copy on write found no L2 page reads as zero from then on.
LosesCopy(c, l) == call.ctx = c /\ call.lvid = l /\ CloneFails
LosesOnlyFailedCopies ==
    /\ Memory!Init
    /\ [][\/ Memory!Next
          \/ \E c \in Ctx, l \in Lvid : LosesCopy(c, l) /\ Memory!Replace(c, l)
         ]_<<Logical, Writing>>
=============================================================================
