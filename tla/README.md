# A specification of the dsf_mmu block runtime

This directory specifies `dsf_mmu`, a user-space memory manager for fixed-size
blocks: contexts name blocks by logical number, forks share physical blocks
until one side writes (copy on write), a bounded number of blocks lives in L1
pages, the others in an L2 store, and hosts read and write blocks through
pointers to pinned L1 pages.

| Module | What it is |
| --- | --- |
| `ForkedMemory` | the abstract contract: each context owns a private array of blocks that a fork copies |
| `MmuRuntime` (`MC`, `Proofs`) | the runtime, one action per stage of each API call, with the host's stores in between |
| `BlockDirectory` (`MC`, `Proofs`) | the nine metadata fields and their setters, joined to the steps of `MmuRuntime` |
| `MmuBatch` (`MC`, `Proofs`) | the batch calls, composed with `MmuRuntime` |
| `MmuTestApi` (`MC`) | the test API's remapping and tier changes, composed with `MmuRuntime` |
| `BlockPool`, `BlockManager` (`Proofs`) | the set of free blocks `MmuRuntime` uses, and the stack and counts that implement it |
| `PagePool`, `ChunkPool` (`Proofs`) | the pages `MmuRuntime` uses, and the chunks, free list and counters that implement them |
| `MmuConfig` (`MC`, `Proofs`) | `mmu_init`: the resolution of a configuration in fixed-width integers |
| `MmuThreads` (`Proofs`) | threads, the recursive mutex, functions that call each other, shutdown |
| `LlmKvCache` (`Proofs`) | the example program, a key-value cache, as a client of the contract |

The theorems about the test API are in `MmuRuntimeProofs`, which extends `MmuTestApi`.

An `MC` module adds the symmetry sets or input sets TLC needs; a `Proofs` module
extends its component with theorems. In this directory,
`tlc -config MmuRuntimeScarce.cfg MmuRuntimeMC.tla` checks an instance (each
`.cfg` begins with the name of its module or of the component whose `MC` module
it belongs to) and `tlapm MmuRuntimeProofs.tla` checks the proofs of a module.

## 1. The system

**Runtime** (`src/mmu_api.cpp`). `mmu_runtime_t` owns everything below, the
configuration, `resident_count`, an access `epoch` and `api_mutex`. Its public
operations create, destroy and fork contexts, allocate and release blocks,
resolve a logical block, prepare one for writing, map and unmap (singly or in
batches). They are built from `ReclaimUnusedResidentBlocks`,
`RegisterFreshBlock`, `CloneBlockDataForCow`, `EnsureResidentInL1`,
`PickEvictionCandidate`, `MoveBlockToL2`, `SyncL1ToL2` and `SyncL2ToL1`.
Correct when contexts are isolated and read what they last wrote, a pinned page
never moves, the resident and L2 limits hold, and each call returns.

**Context and PageTable** (`core/context.cpp`, `core/page_table.cpp`). A vector
of physical block numbers, -1 for a released entry. Correct when every entry is
covered by one reference.

**BlockManager** (`core/block_manager.cpp`). Reference counts and a LIFO free
list. Correct when a block is on the list, once, exactly while its count is 0.

**BlockDirectory** (`core/block_directory.cpp`). Nine fields per block, with a
setter each. Correct when they agree with the pools and with each other.

**ChunkPool** (`mmu_api.cpp`, once for L1 and once for L2). Pages in chunks
obtained from malloc, a free list, the page each block owns and the number of
committed pages; only L2 is limited. Correct when no page has two owners, a page
is zeroed when it is handed out, and the limit holds.

**Configuration** (`mmu_config.h`, `mmu_init`). Zeros ask for a default; what is
too large is cut. Correct when every limit lies in `1 .. l1_block_count`.

**Batch calls**, **global lock and shutdown**, **test API**
(`internal/mmu_test_api.h`), **getters** and the **example**
(`examples/llm_kv_prefill_decode.cpp`) complete the program.

All state is shared and protected by one recursive mutex that every API function
holds for its whole body (`mmu_shutdown` releases it before it deletes the
runtime). Calls are therefore atomic with respect to each other (`MmuThreads`).
They are not atomic with respect to the host's loads and stores through mapped
pointers, which take no lock, nor to their own failures: a call that returns an
error halfway leaves what it did. Those two, and the order in which a host may
issue its calls, are where the difficulty is. `PROJECT.json` lists the hazards
with the line at which each would bite.

## 2. The models

### `ForkedMemory`: the contract

`logical[c][l]` is what context `c` finds in logical block `l`; `writing` is the
set of blocks open for writing. No tiers, no sharing, no eviction. Eight actions:
create, destroy, fork, grow, drop, open, close and write; only `Write` changes
contents that exist. `Replace`, which is not part of `Next`, is what a remapping
or a lost copy does: one logical block of one context reads as zero.

### `MmuRuntime`: the implementation

| Variable | In the code |
| --- | --- |
| `refs` | `BlockManager::ref_counts_`; the free list is the set of blocks with count 0 |
| `live`, `table`, `size` | `mmu_runtime_t::contexts`, `Context::page_table_` and its length |
| `meta`, `recency` | `BlockDirectory::metas_`; the epoch as its rank among the blocks |
| `l1`, `mem` | `l1_pool.owner_pages`, and the contents of host pages |
| `l2` | the contents of the L2 page a block owns, `Nil` when it owns none |
| `residentCount` | `resident_count` |
| `handles` | the `mmu_mapped_block_t` structures the host holds |
| `call` | the call that holds `api_mutex`: its arguments and the stage it is in |

    mmu_destroy_context          reclaim
    mmu_allocate_blocks          reclaim, grow (per block), register (per block)
    mmu_prepare_block_for_write  prepare, clone
    mmu_map_logical_block        [prepare, clone,] reclaim, ensure (evict*, promote), pin

`call.stage = "idle"` between calls; create, fork, release and unmap are single
steps. Every stage that can fail has its failing action, which keeps what the
call has done so far exactly as the code does. `HostWrite` may happen between
any two stages. A call refused before it changes anything is a stuttering step.

What is abstracted:

* A page is one value. Copying a page is atomic; a host store in the middle of
  a copy (a torn copy) is not represented.
* The allocators may hand out any free block or page. That the code's stacks do
  no more than that is what `BlockManager` and `ChunkPool` are about.
* `last_access_epoch` is its rank, and `l1_frame_id` and `l2_slot_id` are left
  out. That nothing is lost by this is what `BlockDirectory` is about.
* `malloc` failure is `MallocMayFail`, on any acquisition of a page the block
  does not own yet. Exceptions from the bookkeeping vectors are left out here.

The API accepts uses that a careful host avoids. `Liberties` says which of them
a host takes: `overallocate` (asks for more blocks than are free),
`forkWhileWriting`, `remap` (writes to a shared block it still has mapped),
`dropWhileMapped` and `strayUnmap` (unmaps what it has not mapped). A
*disciplined* host has `Liberties = {}`.

### Around it

`BlockDirectory` joins each step of `MmuRuntime` with the setters that the code
calls in that step, in the code's fields, with real epochs.

`MmuBatch` adds `batch`, the batch call that holds the mutex: its list, the item
it is at, whether the item's call was issued and whether anything failed. Each
item is a whole call of `MmuRuntime`, stage by stage; other calls wait. A failed
item of a batch map starts the rollback, which unmaps what was mapped and
ignores errors; a batch unmap goes on after an error and reports the first.

`MmuTestApi` adds `mmu_test_update_mapping`: the mapping changes first, then the
tier, through `EnsureResidentInL1` (the stages of `MmuRuntime`, entered with the
operation `remap`) or `MoveBlockToL2` (the stage `demote`), and that half may fail.

`BlockManager` has the stack and the counts, its operations, and the ids a
caller may get wrong; its abstraction `BlockPool` is a set of free blocks.
`ChunkPool` has `AllocateChunk`, `AcquirePage` and `ReleasePage` with the cut last
chunk, failing malloc and a chunk whose pages were listed only in part. `used` is
the set of pages that may hold something else than zeros: those of a new chunk,
which `new` does not initialise, and those a block has had, until `AcquirePage`
clears them. The abstraction `PagePool` gives each block a private zeroed page or
refuses.

`MmuConfig` resolves every configuration from an input set, against every answer
of `sysconf`, with `uint32_t`, `uint64_t`, `int` and `size_t` scaled down to a few
bits and wrap-around where the code can wrap.

`MmuThreads` keeps a call stack per thread, the owner of the mutex and how often
it is locked. `mmu_shutdown` unlocks and then deletes.

`LlmKvCache` is the example program over `ForkedMemory`, with every shape of cache
and number of tokens within the bounds, and the runtime's refusals (no free
block; more blocks in one batch than L1 may hold). `RefusedOnlyWhenFull` is the
property of the runtime that this assumption rests on. An unmap or a release is
never refused there, so the program's branches for that are not taken.

## 3. What TLC checks

| Run | Instance | Shows |
| --- | --- | --- |
| `any_host` | `MmuRuntime`: 2 blocks, 1 frame, 1 L2 page, 1 handle, failing malloc, every liberty | `TypeOK`, `ResidencyAccounted`, `TiersAgree`, `FreeBlocksClean`, `CallConsistent` |
| `directory` | `BlockDirectory`: 3 blocks, 2 frames, 1 L2 page, failing malloc, every liberty | `DirectoryExact`, `OneVictim` |
| `scarce` | `MmuRuntime`: disciplined, 3 blocks, 2 frames, 1 L2 page, 2 handles, 2 values | `RefCountExact`, `PinsCountMappings`, `PointersStayValid`, `WritersAreAlone`, `WrittenThrough`, `PinnedStaysPut`, `LosesOnlyFailedCopies` |
| `batch` | `MmuBatch`: 1 context, 2 blocks, 1 frame, failing malloc, `dropWhileMapped`, fairness | `BatchMapAllOrNothing`, `BatchUnmapComplete`, `BatchResolveIsSnapshot`, `CallsReturn`, `BatchesReturn` |
| `test_api` | `MmuTestApi`: disciplined, 3 blocks, 1 frame, 2 L2 pages, 2 values | `TestTiersAgree`, `ImplementsTestedMemory`, `RefusedOnlyWhenFull` |
| `block_manager` | 4 blocks, counts to 3 | `ListExact`, `ImplementsBlockPool` |
| `chunk_pool` | 4 blocks, limit 3, chunks of 2, half-listed chunks | `PagesExclusive`, `MemoryBounded`, `ImplementsPagePool` |
| `config` | 3-bit words, 3-bit `size_t` | `LimitsUsable`, `ValidSettingsKept`, `AutoLimitIsHalfTheMemory`, `ChunkOverflowCaught` |
| `threads` | 3 threads, 2 calls each, 2 items per batch, fairness | `CallsAreSerial`, `RuntimeOutlivesCalls`, `EveryCallReturns` |
| `llm_kv_cache` | up to 2 layers, 2 tokens per block, 3 + 3 tokens, 6 blocks | `BlocksOwnedOnce`, `TokensInPlace`, `NothingLeftBehind`, `EnoughIsEnough`, `KeepsToContract`, `Exits` |
| `overallocate` | one liberty | violates `RefCountExact` |
| `clone_fails` | disciplined, 1 L2 page | violates `ImplementsForkedMemory` |

Further instances are kept as configurations: `MmuBatchShared.cfg` (batches over
blocks that two contexts share, `BatchTypeOK` as well) and `ChunkPoolL1.cfg` (a
pool without limit, chunks of 3) hold; `MmuRuntimeStrayUnmap.cfg`,
`MmuRuntimeRemap.cfg`, `MmuRuntimeDirty.cfg`, `MmuBatchFailedResolve.cfg` and
`MmuConfigManyBlocks.cfg` show the disagreements 3 to 7 below.

**Bounds.** `Block`, `Ctx`, `Page` and `Handle` are small sets of interchangeable
model values (symmetry, except for liveness). `MaxLvid` bounds page tables and
the size of one allocation; pins are bounded by the open handles and references
by the page tables. Two contexts of two logical blocks give sharing, copy on
write, and two references from each side. With three blocks, two can be shared
or resident while the third takes a copy or must be evicted: a victim and a
protected block both exist and recency matters. With two blocks and one frame
(`any_host`, `batch`) every map of a block outside L1 is an eviction, and stale
entries left by a failed allocation meet the blocks' next lives. With fewer frames and L2 pages
than blocks, maps evict, pins make maps fail, and write-backs and copies find no
page. A second handle lets a map be tried while another block is pinned. Two
values tell a lost write from a kept one; where contents play no part one is
enough.

* `MaxEpoch = 4` in `directory`: after four accesses the host makes no more that
  draw an epoch; a call in progress finishes. Four allow two blocks to be brought
  in and a third to evict the older. The other runs have no such bound.
* One handle in `any_host` rules out an eviction tried with another block pinned;
  `PinnedStaysPut` is checked in `scarce`, with two, and proved for every host.
* `MaxBatch = 2` is the smallest size at which a batch fails halfway.
* `MaxRefs = 3` and four blocks let `allocate_specific` take a block out of the
  middle of the stack while others are shared.
* `MaxPages = 8` allows more chunks than four blocks can use, so that a pool that
  took too many would be seen to.
* `MaxItems` and `MaxCalls` bound what a batch calls and how often a thread does.
  They matter for liveness: `std::recursive_mutex` is not fair, so a thread may be
  kept out as long as others keep calling. `EveryCallReturns` says that nothing
  else keeps it out.
* The widths of `MmuConfig`: three bits put both sides of every comparison, and
  wrap-around, within a few values. `SizeBits` equal to `WordBits` is a 32-bit
  build, the only one in which a chunk's size can wrap.
* `LlmKvCache`: three prompt tokens of at most two per block give a full, a partial
  and an empty last block, and three decoded tokens cross a block's edge.

**Fairness.** Whoever is inside the runtime waits for nothing but the mutex it
has, so the scheduler runs it on: `WF(CallStep)` in `MmuRuntime`, with the steps of
the batch in `MmuBatch`, `WF(Step(t))` for each thread in a call in `MmuThreads`,
and `WF(Next)` for the single-threaded example. Nothing is assumed of the host in
the first three: it need not call, write, unmap or shut down.

**Refinement.** `LosesOnlyFailedCopies` says that `MmuRuntime` implements
`ForkedMemory` under the mapping `Logical`, `Writing`, but for one step: a copy on
write that fails may make that one logical block read as zero. The copy always
finds a page when L2 is as large as the block space and malloc does not fail, and
then it is `ImplementsForkedMemory`. A call takes effect at one stage: an
allocation when its last block is registered, a copy on write never (contents do
not change). Entries appended by an allocation in progress are not visible yet
(`NotYetAllocated`), and during `clone` the logical block is still what its old
block holds (`Backing`). Evictions, promotions, write-backs and reclaims must be
stuttering steps, which makes a stale tier, a lost write or a page leaked between
contexts a violation. `ImplementsTestedMemory` says the same of the test API, where
only the logical block that is moved may be cleared. `BlockManager` implements
`BlockPool` and `ChunkPool` implements `PagePool`. `KeepsToContract` goes the other
way: what the example does to memory is a behaviour the contract allows.

**What a disciplined host must do** that no document rules on: not fork while
writing (`WritersAreAlone` fails otherwise: copy on write is decided when a block
is mapped), not release or destroy what is mapped, not move mapped blocks with
the test API, and not call or wait for the runtime once `mmu_shutdown` is called:
`RuntimeOutlivesCalls` holds for a host whose other threads are at most inside a
call, which shutdown waits for.

### What disagrees with the documentation

1. *Overallocation* (`core/context.cpp:37`, run `overallocate`). The rollback of a
   failed allocation gives the blocks back and leaves the page table entries. They
   resolve again once the blocks are reused, and two contexts then share a block
   whose count says it has one user.
2. *Copy on write without room* (`mmu_api.cpp:793`, run `clone_fails`). The mapping
   is changed before the data is copied and stays changed when the copy fails, the
   order that `docs/phase1_unified_memory_blueprint.md:429` rules out. The logical
   block then reads as zeros. A disciplined host meets this with an L2 pool smaller
   than the block space, or when malloc fails.
3. *Stray unmap* (`mmu_api.cpp:933`, `MmuRuntimeStrayUnmap.cfg`). Unmapping what is not
   mapped is documented to fail; it succeeds and takes a pin of another mapping if
   there is one (`PinsGivenBackByOwner`).
4. *Remapping* (`mmu_api.cpp:924`, `MmuRuntimeRemap.cfg`). A write map of a shared
   block makes an earlier read mapping by the same context impossible to unmap
   (`MappingsCanBeUnmapped`), against `mmu_api.h:69`.
5. *Failed batch resolve* (`mmu_api.cpp:747`, `MmuBatchFailedResolve.cfg`).
   `mmu_api.h:40` promises an output array left alone; the routes before the
   unallocated block are in it (`FailedResolveLeavesOutput`).
6. *Dirty blocks in L2* (`mmu_api.cpp:346`, `MmuRuntimeDirty.cfg`). The blueprint
   (line 460) has an eviction clear the dirty mark once it has written back; the
   code does not (`DirtyOnlyInL1`). Nothing is lost by it: the mark only causes
   another write-back.
7. *Many blocks* (`core/block_manager.cpp:12`, `MmuConfigManyBlocks.cfg`). Above
   `INT_MAX` blocks the cast leaves the free list empty, where
   `tests/test_fork_shared_block.cpp:55` expects every block free
   (`AllBlocksFree`).

## 4. What is proved

For every value of the constants that satisfies the `ASSUME`s of the module: sets
finite, `Nil` none of the values, and the limits within what `mmu_init` clamps
them to, which `LimitsAreUsable` proves that it does. Some assumptions only say
what the provers cannot find out: that `Nil` is no record and no function
(`NilIsNothing` in `MmuRuntime`, `NilAssumption` in `LlmKvCache`) and that powers
of two are positive numbers (`PowerAssumption` in `MmuConfig`).

A property that only some hosts get has a hypothesis on `Liberties`, the weakest
the code allows: the liberties it excludes are those that break it.

| Theorem | Statement | Host |
| --- | --- | --- |
| `MmuRuntimeProofs.AlwaysConsistent` | `Spec => []Consistent`, the inductive invariant | any |
| `TypeCorrect`, `ResidencyIsAccounted`, `FreeBlocksAreClean`, `CallsStayConsistent` | four of its five conjuncts | any |
| `TiersAlwaysAgree` | `Spec => []TiersAgree`, which is stronger than the fifth | any |
| `PinnedBlocksStayPut` | `Spec => PinnedStaysPut` | any |
| `RefCountsAreExact`, `TestRefCountsAreExact` | `[]RefCountExact`, also of `TestSpec` | does not overallocate |
| `PinsAreCounted`, `PointersAlwaysValid`, `CleanIsWrittenThrough` | `[]PinsCountMappings`, `[]PointersStayValid`, `[]WrittenThrough` | may fork while writing |
| `MappingsAlwaysClosable` | `[]MappingsCanBeUnmapped` | may fork while writing |
| `FramesRefusedOnlyWhenFull`, `TestFramesRefusedOnlyWhenFull` | `RefusedOnlyWhenFull`, when malloc does not fail, also of `TestSpec` | may fork while writing |
| `TestApiConsistent`, `TestTiersAlwaysAgree` | `TestSpec => []Consistent`, `TestSpec => []TestTiersAgree` | any |
| `TestPinsAreCounted` | `TestSpec => []PinsCountMappings` | may fork while writing |
| `TestApiSparesWriters` | `TestSpec => [](WritersAreAlone /\ WritersPointed /\ WrittenThrough)` | disciplined |
| `TestedMemoryIsPrivate` | `TestSpec => ImplementsTestedMemory`, the refinement | disciplined |
| `WritersAlwaysAlone` | `[]WritersAreAlone` | disciplined |
| `ContextsAreIsolated` | `Spec => LosesOnlyFailedCopies`, the refinement | disciplined |
| `FullL2IsolatesContexts` | `Spec => ImplementsForkedMemory`, when L2 is as large as the block space and malloc does not fail | disciplined |
| `BlockDirectoryProofs.DirectoryImplementsRuntime` | `DirectorySpec => Spec` | any |
| `DirectoryStaysExact`, `ScanMeetsOneVictim` | `[]DirectoryExact`, `[]OneVictim` | any |
| `MmuBatchProofs.BatchesAreCalls` | `BatchSpec => Spec` | any |
| `BatchMapsAllOrNothing`, `BatchUnmapsCompletely`, `BatchResolvesASnapshot` | `[]BatchMapAllOrNothing`, `[]BatchUnmapComplete`, `[]BatchResolveIsSnapshot` | any; batch unmaps of distinct open mappings |

| Theorem | Statement |
| --- | --- |
| `BlockManagerProofs.ListStaysExact`, `ManagerTypeCorrect` | `Spec => []ListExact`, `Spec => []TypeOK` |
| `ManagerImplementsPool` | `Spec => ImplementsBlockPool`, the refinement |
| `ChunkPoolProofs.PagesStayExclusive`, `MemoryStaysBounded`, `PoolTypeCorrect` | `Spec => []PagesExclusive`, `[]MemoryBounded`, `[]TypeOK` |
| `PoolImplementsPages` | `Spec => ImplementsPagePool`, the refinement |
| `MmuConfigProofs.LimitsAreUsable`, `ValidSettingsAreKept`, `AutoLimitIsExact`, `OverflowIsAlwaysCaught` | the invariants, for every width and every set of inputs |
| `MmuThreadsProofs.MutexKept` | the inductive invariant of the lock |
| `CallsStaySerial`, `RuntimeIsDeletedLast`, `ThreadsTypeCorrect` | for any number of threads, any nesting, any bounds |
| `LlmKvCacheProofs.LayersShareNoBlock`, `TokensStayInPlace`, `ReleasesAllBlocks`, `NeverRefusedWhenItFits` | `Spec => []BlocksOwnedOnce`, `[]TokensInPlace`, `[]NothingLeftBehind`, `[]EnoughIsEnough` |
| `ClientKeepsToContract` | `Spec => KeepsToContract`, for every shape of cache and number of tokens |

*Runtime, any host.* None of the five conjuncts of `Consistent` is inductive without
the others. `ResidencyAccounted` needs `TestTiersAgree` to know that the block being
promoted was not counted; both need `CallConsistent` to know that the block a call
works on is still allocated; `CallConsistent` needs `FreeBlocksClean` for the
blocks an allocation is about to take, and `FreeBlocksClean` needs to know that an
unmapped, pinned or cloned block is not free. `AllocationConsistent` (the blocks
taken but not registered are distinct, referenced and clean) is what the loop of
`mmu_allocate_blocks` relies on. One lemma per action, and shared ones for what
`Scrub`, `Registering`, an unmap, and one more resident or stored block do.
`PinnedStaysPut` follows step by step from `Consistent`. `Consistent` holds of the test
API too, so its conjunct on the tiers is `TestTiersAgree`: a block may be in tier L1 and
not resident. That this takes the test API (`L1IsResident`) is what `TiersAgree` adds.
Every behaviour of `Spec` is one of `TestSpec`, so each layer below is proved
once, of `TestSpec`, where it holds of it.

*Runtime, sharing.* Each invariant rests on those above it:

* `Counted` makes `RefCountExact` inductive. It adds that only live contexts have
  entries, below the length of their tables, that the context of a call lives, and
  that an allocation in progress does not run out of blocks. The last one is where
  the hypothesis enters: a failed allocation leaves entries behind
  (disagreement 1). Counting is by `EntryMoves` (an entry changes: one use less, one
  more) and `RowSplits` (a fork adds the uses of a row, a destruction takes them).
* `MappingsExact` makes pins inductive: the pin count is right because a block that is
  scrubbed has no mapping. It adds that a mapping is still of the logical block it
  names, that the structure a map call will fill is no open mapping, and that
  neither a copy on write nor a remapping moves what is mapped. It says nothing of
  pages, because the test API takes the page of a pinned block.
* `PointersStayValid` is inductive over `MappingsExact`, without the test API: a
  pointer stays because its block is pinned (`PinnedKeepPages`).
* `AllThrough` is `WrittenThrough` for one block at a time, and that a resident
  block without a page has none in L2 either: its page will be zeros, and so is
  what L2 gives for it.
* `Alone` adds to `WritersAreAlone` that a write access past `prepare` has the block
  to itself. A fork while writing would break it, and only that.
* `WritersPointed` is the part of `PointersStayValid` that survives the test API: a
  host that moves only logical blocks it has not mapped may pull the page from under
  a reader of another context that shares the block, but not from under a writer,
  which is alone (`DemotesNoWriter`). A store then still hits the block's own page,
  which `WrittenThrough` and the refinement need. `Steady` is
  `Alone`, `WritersPointed` and `AllThrough` together.
* `Prepares` says what a call in progress still owes to the memory the host sees:
  while a copy waits for its contents nobody writes to the source and the copy has
  no page; the blocks an allocation has registered have no pages.

*Contexts are isolated.* With these, each step is mapped to a step of
`ForkedMemory` or to a stutter. What a block reads as (`Contents`) changes only for
the block that is written, cloned or scrubbed; `NamedInUse` and `FreeUnnamed` say
that nobody names a block that is scrubbed, and `WritersAreAlone` that exactly one
logical block sees a store. `CloneFails` is the exception that
`LosesOnlyFailedCopies` allows, and `CopiesFindRoom` shows that it does not happen
with a full-size L2. For the test API two more cases are added: `MoveIsUnseen` (a change of
tier changes no `Contents`, because what leaves L1 is copied first and a block that
is not resident is read from L2), and `RemapIsSeen` (the new block is clean, so the
logical block reads as zero, and the old one is scrubbed only if that was its last
name).

*Directory.* `Mirrored` is `DirectoryExact` with the epochs: the rank of each block's
epoch is the `recency` of `MmuRuntime`, no epoch is ahead of the counter, resident
blocks have one, and no two blocks have the same. Renumbering ranks instead of
epochs loses nothing because taking ranks keeps the order, touching a block makes
it the last, and forgetting blocks leaves the order of the rest. The victim of the
code's scan is then the victim of `MmuRuntime`, and there is one at most.

*Batches.* `BatchInv` says that the mappings a batch map has opened are *kept*: their
logical block is where it was, its block is referenced and, when the batch writes,
referenced once. So no later copy on write of the same batch moves them, no reclaim
or eviction takes them, and the rollback is never refused. A batch that only reads
makes no copy. This needs no discipline of the host, because it does not get to
make another call before the batch is over. For an unmap, a block that is to be
written and is not has a mapping yet to come or its error is recorded.

*Block manager.* `ListExact` with the type invariant is inductive: a push of a block
that is not listed, a pop, and a removal from the middle each keep the stack free
of repetitions (`FrontFacts`, `RemoveAtFacts`). The refinement follows: each call's effect on the
stack is its effect on the set of its elements.

*Chunk pool.* `PagesExclusive` needs that free pages do not repeat, that no owner has
a free page and that pages are numbered below `total`. `MemoryBounded` rests on the
pages in use and those on the list adding up to what was listed, and on a new
chunk fitting what the limit leaves (`NewChunkFits`). The refinement follows from
both: a chunk that comes or is cut short changes nobody's pages, a page is cleared
on its way out whatever the new chunk or its last owner left in it (a pool that
cleared recycled pages only would not implement `PagePool`), and a pool that
refuses has no page left within the limit or no memory.

*Configuration.* By cases on which corrections apply; `MmuInit` is one step. The
product of two words fits in a double word unless it is larger than the quotient
says, which is how the code tests it.

*Threads.* The mutex is locked as often as its owner has guards on its stack, no
other thread has any, and the stack of a thread has the shape that the functions'
calls allow; shutdown is entered only when other threads have at most one guarded
call, which has returned by the time the mutex is taken.

*Example.* The program takes the number of blocks the context has for the number of
the next block. That is right because the blocks are those below `size`
(`BlocksNumbered`) and the lists of the layers, all of the same length `Held`, name
each of them once (`ListsPartition`): after prefill as runs that do not meet
(`RunFacts`), after each extension because layer `y` gets the `y`-th of the new
numbers. A store then disturbs no token of another layer or block, and within a
block two tokens differ in their slot (`DivisionFacts`). `Held` is the rounded-up
number of tokens between two tokens and one more block ahead while a token is being
written, which is also why the last block of each list is the one it goes to. For
refusals, `RefusedWhenTooSmall` bounds each request: the blocks of the next token
are among those of all tokens (`CeilingFacts`), and a list of at most `n` blocks maps
at most `n` (`ListedAtMost`). With the same invariant, and `MappedForWriting`, each
step is a call that `ForkedMemory` allows.

Only model-checked:

* Liveness under fairness (`CallsReturn`, `BatchesReturn`, `EveryCallReturns`,
  `Exits`), which is outside what the proof system covers.

Every invariant, action property and refinement that a passing run checks is also a
theorem; the liveness properties are what is left to TLC. Of the test
API, `PointersStayValid` and `PinnedStaysPut` are neither checked nor proved: they
do not hold there, see `WritersPointed`.

The type invariant of `MmuConfig` holds in the instance above when it is added to it;
those of `MmuBatch`, `BlockDirectory` and `LlmKvCache` are conjuncts of the invariants
proved.

## 5. What is not modelled

* The test getters (`mmu_test_get_block_metadata` and the like), `mmu_get_ref_count`
  and the conversions of statuses: they only read. `mmu_get_free_block_count` and
  `mmu_get_logical_block_count` are modelled where a caller acts on them.
* Null checks and range checks at the head of each call: refusals without effect.
* `bad_alloc` from the bookkeeping vectors, except in `AllocateChunk`, which has a
  `try` block. Elsewhere the exception leaves an `extern "C"` function.
* Batch unmaps of structures that are given twice or are no open mapping. Single
  calls with a stale structure are modelled (`strayUnmap`).
* In the example, the branches taken when an unmap or a release fails: the runtime it
  is modelled on refuses only allocations and batch maps.
* Torn copies, and in general anything smaller than a page.
* A host that lets other threads wait for the mutex while it shuts down: what the
  program does then is undefined.
* Tests and vendored code (googletest, libnpy); printing and the checksum of the
  example.

## 6. Plan

Done: every component above except the tests and the vendored code, and the proofs
of section 4. Left: the statuses that calls return, as part of the contract, and a
proof of the calls' termination should the proof system come to cover fairness.
