\* An L2 pool whose limit is no multiple of the chunk and smaller than the number of
\* blocks; chunks may be half listed
SPECIFICATION Spec
CONSTANTS
    Block = {b1, b2, b3, b4}
    Limit = 3
    Chunk = 2
    MallocMayFail = TRUE
    BookkeepingMayFail = TRUE
    MaxPages = 8
INVARIANTS
    PagesExclusive
    MemoryBounded
PROPERTY ImplementsPagePool
