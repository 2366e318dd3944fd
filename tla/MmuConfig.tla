----------------------------- MODULE MmuConfig ------------------------------
(***************************************************************************)
(* mmu_init of src/src/mmu_api.cpp: it refuses a configuration or resolves *)
(* it, replacing the zeros that ask for a default and cutting what is too  *)
(* large, in a fixed order.  Everything else in the runtime divides by,    *)
(* counts up to, or allocates by the result (ConfigAssumption in           *)
(* MmuRuntime, LimitAssumption and ChunkAssumption in ChunkPool).          *)
(*                                                                         *)
(* Integers have the widths of the code, scaled down: uint32_t has         *)
(* WordBits bits, uint64_t twice as many, size_t SizeBits.                 *)
(***************************************************************************)
EXTENDS Integers

CONSTANTS
    WordBits,      \* width of uint32_t and int
    SizeBits,      \* width of size_t
    Counts,        \* what callers put into the four counts,
    BlockSizes,    \* and into block_size_bytes
    PageCounts,    \* what sysconf may answer to _SC_AVPHYS_PAGES,
    PageSizes,     \* and to _SC_PAGESIZE
    DefaultChunk,  \* kDefaultChunkBlockCount
    None           \* no runtime

Word == 0 .. 2 ^ WordBits - 1
IntMax == 2 ^ (WordBits - 1) - 1
LongWordMax == 2 ^ (2 * WordBits) - 1

ASSUME WidthAssumption == WordBits \in Nat \ {0} /\ SizeBits \in Nat \ {0}
ASSUME InputAssumption ==
    /\ Counts \subseteq Word /\ BlockSizes \subseteq Word
    /\ PageCounts \subseteq Int /\ PageSizes \subseteq Int
\* A fact of arithmetic that the proofs need and the provers do not know
ASSUME PowerAssumption == {2 ^ SizeBits, 2 ^ (2 * WordBits)} \subseteq Nat \ {0}
ASSUME DefaultAssumption == DefaultChunk \in Word \ {0}

VARIABLES
    config,     \* the caller's mmu_config_t
    memory,     \* <<pages available, bytes per page>>, as sysconf answers
    runtime,    \* mmu_runtime_t::config, None without a runtime
    freeBlocks, \* the length of BlockManager::free_list_ in the new runtime
    status      \* what mmu_init returned
vars == <<config, memory, runtime, freeBlocks, status>>

Config == [compatible : BOOLEAN, l1_block_count : Word,
           l1_resident_block_limit : Word, l2_block_count : Word,
           block_size_bytes : Word, chunk_block_count : Word]

\* compatible stands for the tests of size and api_version.
Init ==
    /\ config \in [compatible : BOOLEAN, l1_block_count : Counts,
                   l1_resident_block_limit : Counts, l2_block_count : Counts,
                   block_size_bytes : BlockSizes, chunk_block_count : Counts]
    /\ memory \in PageCounts \X PageSizes
    /\ runtime = None /\ freeBlocks = 0 /\ status = "none"

-----------------------------------------------------------------------------
\* QueryAvailableHostMemoryBytes; zero when it is not known, or does not fit.
Available ==
    IF memory[1] <= 0 \/ memory[2] <= 0 \/ memory[1] > LongWordMax \div memory[2]
    THEN 0 ELSE memory[1] * memory[2]

UpToL1OffByOne(n) ==
    IF n >= config.l1_block_count THEN config.l1_block_count - 1 ELSE n
UpToL1(n) == IF n > config.l1_block_count THEN config.l1_block_count ELSE n
AtLeastOne(n) == IF n = 0 THEN 1 ELSE n

\* ResolveAutoResidentLimit: half of the memory, kAutoResidentBudgetDivisor
WholeMemory == Available
Budget == Available \div 2
AutoResidentLimit ==
    IF Available = 0 THEN config.l1_block_count
    ELSE UpToL1(AtLeastOne(Budget \div config.block_size_bytes))

\* The corrections of mmu_init: zero or too much means as many as there are blocks,
\* except for chunks, whose default is a number of its own.
AllUnlessWithin(n) == IF n = 0 THEN config.l1_block_count ELSE UpToL1(n)

ResidentLimit ==
    AllUnlessWithin(IF config.l1_resident_block_limit = 0
                    THEN AutoResidentLimit ELSE config.l1_resident_block_limit)

DefaultUncut == IF config.chunk_block_count = 0 THEN DefaultChunk
                                                ELSE UpToL1(config.chunk_block_count)
ChunkCount == UpToL1(IF config.chunk_block_count = 0 THEN DefaultChunk
                                                     ELSE config.chunk_block_count)

Resolved == [config EXCEPT !.l1_resident_block_limit = ResidentLimit,
                           !.l2_block_count = AllUnlessWithin(config.l2_block_count),
                           !.chunk_block_count = ChunkCount]

\* The loop of BlockManager's constructor runs down from static_cast<int>(n) - 1.
\* Beyond IntMax the cast is negative and the list stays empty; at IntMax + 1 the
\* subtraction overflows: it is undefined, and wraps round to IntMax or stops.
ListLengths(n) ==
    IF n <= IntMax THEN {n} ELSE IF n = IntMax + 1 THEN {0, n} ELSE {0}

Acceptable ==
    config.compatible /\ config.l1_block_count # 0 /\ config.block_size_bytes # 0

MmuInit ==
    /\ status = "none" /\ Acceptable
    /\ status' = "ok"
    /\ runtime' = Resolved
    /\ freeBlocks' \in ListLengths(config.l1_block_count)
    /\ UNCHANGED <<config, memory>>

\* A configuration that is not acceptable, or bad_alloc from the constructor
MmuInitFails ==
    /\ status = "none"
    /\ status' = IF Acceptable THEN "out of memory" ELSE "refused"
    /\ UNCHANGED <<config, memory, runtime, freeBlocks>>

Next == MmuInit \/ MmuInitFails

Spec == Init /\ [][Next]_vars

-----------------------------------------------------------------------------
(* AllocateChunk with the resolved configuration *)

ChunkBytes(n) == (n * config.block_size_bytes) % (2 ^ SizeBits)
NeverTooLarge(n) == TRUE
NotTooLarge(n) == ChunkBytes(n) \div n = config.block_size_bytes

-----------------------------------------------------------------------------
Running == runtime # None

TypeOK ==
    /\ config \in Config
    /\ runtime \in Config \cup {None}
    /\ status \in {"none", "ok", "refused", "out of memory"}
    /\ freeBlocks \in Word

\* What the rest of the runtime rests on: no limit is zero and none exceeds the
\* number of blocks, whatever the caller passed and sysconf answered.
LimitsUsable ==
    Running => LET All == 1 .. runtime.l1_block_count IN
               /\ runtime.l1_resident_block_limit \in All
               /\ runtime.l2_block_count \in All
               /\ runtime.chunk_block_count \in All

\* A setting that needs no correction is not corrected by one that does.
ValidSettingsKept ==
    Running =>
        /\ runtime.l1_block_count = config.l1_block_count
        /\ runtime.block_size_bytes = config.block_size_bytes
        /\ \A field \in {"l1_resident_block_limit", "l2_block_count", "chunk_block_count"} :
              config[field] \in 1 .. config.l1_block_count
                  => runtime[field] = config[field]

\* The automatic limit ("0 means auto", include/dsf_mmu/mmu_config.h) is the
\* largest number of blocks that fit half of the memory there is, but one block is
\* always allowed.  pages * size is exact here: memory that a uint64_t cannot
\* count is as good as unknown, and then all blocks may be resident.
Bytes == memory[1] * memory[2]
Known == memory[1] > 0 /\ memory[2] > 0 /\ Bytes <= LongWordMax
AutoLimitIsHalfTheMemory ==
    LET limit == runtime.l1_resident_block_limit
        Fits(n) == 2 * n * config.block_size_bytes <= Bytes
    IN  Running /\ config.l1_resident_block_limit = 0 =>
            IF Known THEN /\ limit = 1 \/ Fits(limit)
                          /\ limit = config.l1_block_count \/ ~Fits(limit + 1)
                     ELSE limit = config.l1_block_count

\* AllocateChunk refuses exactly the chunks whose size does not fit size_t, in
\* which the product has wrapped round when it is tested.
ChunkOverflowCaught ==
    Running => \A n \in 1 .. runtime.chunk_block_count :
        NotTooLarge(n) <=> n * config.block_size_bytes < 2 ^ SizeBits

\* A new runtime has all its blocks free: "EXPECT_EQ(mmu_get_free_block_count(mmu),
\* cfg.l1_block_count)" (tests/test_fork_shared_block.cpp, after the last release).
AllBlocksFree == Running => freeBlocks = config.l1_block_count
=============================================================================
