\* No limit, as for L1, and no chunk half listed
SPECIFICATION Spec
CONSTANTS
    Block = {b1, b2, b3, b4}
    Limit = 0
    Chunk = 3
    MallocMayFail = TRUE
    BookkeepingMayFail = FALSE
    MaxPages = 8
INVARIANTS
    TypeOK
    PagesExclusive
    MemoryBounded
PROPERTY ImplementsPagePool
