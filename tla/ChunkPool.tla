----------------------------- MODULE ChunkPool ------------------------------
(***************************************************************************)
(* ChunkPool of src/src/mmu_api.cpp, used once for L1 and once for L2:     *)
(* pages come from malloc in chunks, wait on a stack of free pages, belong *)
(* to one block at a time, and are counted by committed_pages.             *)
(*                                                                         *)
(* Pages are numbered in the order in which their chunks were allocated;   *)
(* chunks are never given back before the runtime ends.                    *)
(***************************************************************************)
EXTENDS Integers, FiniteSets, SequencesExt

CONSTANTS
    Block,              \* physical blocks
    Limit,              \* config.l2_block_count for L2, zero (no limit) for L1
    Chunk,              \* config.chunk_block_count
    MallocMayFail,      \* whether malloc may find no memory for a chunk
    BookkeepingMayFail, \* whether free_blocks may fail to grow for a new chunk
    MaxPages            \* bound on the pages ever allocated

\* What mmu_init leaves in the configuration
ASSUME BlockAssumption == IsFiniteSet(Block)
ASSUME LimitAssumption == Limit \in 0 .. Cardinality(Block)
ASSUME ChunkAssumption == Chunk \in 1 .. Cardinality(Block)
ASSUME FailureAssumption == /\ MallocMayFail \in BOOLEAN
                            /\ BookkeepingMayFail \in BOOLEAN
                            /\ BookkeepingMayFail => MallocMayFail
ASSUME MaxPagesAssumption == MaxPages \in Nat

VARIABLES
    freePages,  \* free_blocks; back() is the last element
    owner,      \* owner_pages: the page of each block, zero for none
    committed,  \* committed_pages
    total,      \* pages in all the chunks
    used,       \* the pages that may hold something else than zeros
    refused     \* whether the last AcquirePage failed

vars == <<freePages, owner, committed, total, used, refused>>

TypeOK ==
    /\ freePages \in Seq(1 .. total)
    /\ owner \in [Block -> 0 .. total]
    /\ committed \in Nat
    /\ total \in Nat
    /\ used \subseteq 1 .. total
    /\ refused \in BOOLEAN

Init ==
    /\ freePages = <<>>
    /\ owner = [b \in Block |-> 0]
    /\ committed = 0 /\ total = 0
    /\ used = {}
    /\ refused = FALSE

Holders == {b \in Block : owner[b] # 0}

LimitReached == Limit > 0 /\ committed >= Limit

\* A chunk of a pool with a limit is cut to what the limit leaves.
ChunkUncut == Chunk
ChunkSize == IF Limit > 0 /\ Limit - committed < Chunk THEN Limit - committed
                                                       ELSE Chunk
NewPages(n) == [i \in 1 .. n |-> total + i]
\* new uint8_t[] leaves the pages of a chunk uninitialised: they may hold anything.
Uninitialised(n) == total + 1 .. total + n

\* The last free page, cleared; list and written are freePages and used after a
\* chunk was added.
Taken(b, list, written, clear) ==
    /\ owner' = [owner EXCEPT ![b] = Last(list)]
    /\ freePages' = Front(list)
    /\ used' = written \ clear
    /\ committed' = committed + 1
    /\ refused' = FALSE

\* The page that memset clears, and what would be left if new memory was trusted
ClearedIfRecycled(page) == {page} \cap (1 .. total)
Cleared(page) == {page}

\* AcquirePage for a block that owns no page: from the free list,
AcquireListed(b) ==
    /\ owner[b] = 0 /\ ~LimitReached
    /\ freePages # <<>>
    /\ Taken(b, freePages, used, Cleared(Last(freePages)))
    /\ UNCHANGED total

\* or from a new chunk,
AcquireFromChunk(b) ==
    /\ owner[b] = 0 /\ ~LimitReached
    /\ freePages = <<>>
    /\ total + ChunkSize <= MaxPages
    /\ total' = total + ChunkSize
    /\ Taken(b, NewPages(ChunkSize), used \cup Uninitialised(ChunkSize),
             Cleared(total + ChunkSize))

\* or not at all: the limit is reached, or malloc fails.
AcquireRefused(b) ==
    /\ owner[b] = 0
    /\ LimitReached \/ (freePages = <<>> /\ MallocMayFail)
    /\ refused' = TRUE
    /\ UNCHANGED <<freePages, owner, committed, total, used>>

\* free_blocks.push_back throws in the middle of a chunk: the pages listed so far
\* stay listed, the others stay allocated and belong to nobody.
ChunkHalfListed(b, n) ==
    /\ owner[b] = 0 /\ ~LimitReached
    /\ freePages = <<>> /\ BookkeepingMayFail
    /\ total + ChunkSize <= MaxPages
    /\ total' = total + ChunkSize
    /\ freePages' = NewPages(n)
    /\ used' = used \cup Uninitialised(ChunkSize)
    /\ refused' = TRUE
    /\ UNCHANGED <<owner, committed>>

\* AcquirePage for a block that has a page
AcquireOwned(b) ==
    /\ owner[b] # 0
    /\ refused' = FALSE
    /\ UNCHANGED <<freePages, owner, committed, total, used>>

KeptCount == committed
OneLess == IF committed > 0 THEN committed - 1 ELSE committed
ReleasePage(b) ==
    /\ owner[b] # 0
    /\ freePages' = Append(freePages, owner[b])
    /\ owner' = [owner EXCEPT ![b] = 0]
    /\ committed' = OneLess
    /\ UNCHANGED <<total, used, refused>>

\* The runtime, or the host through its pointer, writes to the page.
Use(b) ==
    /\ owner[b] # 0
    /\ used' = used \cup {owner[b]}
    /\ UNCHANGED <<freePages, owner, committed, total, refused>>

Next ==
    \E b \in Block :
        \/ AcquireListed(b) \/ AcquireFromChunk(b) \/ AcquireOwned(b)
        \/ AcquireRefused(b)
        \/ \E n \in 0 .. ChunkSize - 1 : ChunkHalfListed(b, n)
        \/ ReleasePage(b)
        \/ Use(b)

Spec == Init /\ [][Next]_vars

-----------------------------------------------------------------------------
\* A page belongs to one block or waits on the free list once, never both, and
\* committed_pages, from which the next chunk is cut, counts the pages in use.
PagesExclusive ==
    /\ \A i, j \in 1 .. Len(freePages) : freePages[i] = freePages[j] => i = j
    /\ \A a, b \in Holders : owner[a] = owner[b] => a = b
    /\ \A b \in Holders, i \in 1 .. Len(freePages) : freePages[i] # owner[b]
    /\ committed = Cardinality(Holders)

\* The pages in use and on the free list are never more than the pool's owners could
\* use, however many chunks were only half listed: with a limit at most that many,
\* without one at most what is left of the last chunk beyond one page per block.  When
\* no chunk is half listed they are all the pages there are: none is lost.
MemoryBounded ==
    LET usable == committed + Len(freePages) IN
    /\ usable <= total
    /\ ~BookkeepingMayFail => usable = total
    /\ Limit > 0 => usable <= Limit
    /\ usable < Cardinality(Block) + Chunk

Data(b) == IF owner[b] = 0 THEN "none" ELSE IF owner[b] \in used THEN "used" ELSE "zero"

Pages == INSTANCE PagePool WITH data <- [b \in Block |-> Data(b)]

\* Whether its page comes from an uninitialised chunk or from another block, a block's
\* memory is private, starts as zeros, and is refused only at the limit or when malloc
\* fails.
ImplementsPagePool == Pages!Spec
=============================================================================
