\* Any host; one frame and one L2 page for two blocks, so that every map of a block
\* outside L1 is an eviction and every pin makes the next one fail
SPECIFICATION Spec
CONSTANTS
    Block = {b1, b2}
    Ctx = {c1, c2}
    Page = {p1}
    Handle = {h1}
    Value = {zero}
    Zero = zero
    Nil = Nil
    MaxLvid = 2
    ResidentLimit = 1
    L2Limit = 1
    MallocMayFail = TRUE
    Liberties = {"overallocate", "forkWhileWriting", "remap", "dropWhileMapped", "strayUnmap"}
SYMMETRY Symmetry
INVARIANTS
    TypeOK
    ResidencyAccounted
    TiersAgree
    FreeBlocksClean
    CallConsistent
