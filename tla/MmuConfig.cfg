\* size_t as wide as uint32_t, as in a 32-bit build, where a chunk can overflow it
SPECIFICATION Spec
CONSTANTS
    WordBits = 3
    SizeBits = 3
    Counts = {0, 1, 2, 3, 5, 7}
    BlockSizes = {0, 1, 3}
    PageCounts <- SomePageCounts
    PageSizes <- SomePageSizes
    DefaultChunk = 4
    None = None
INVARIANTS
    LimitsUsable
    ValidSettingsKept
    AutoLimitIsHalfTheMemory
    ChunkOverflowCaught
\* mmu_init returns once.
CHECK_DEADLOCK FALSE
