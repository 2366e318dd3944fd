\* One context whose host drops mapped blocks, so that an item of a batch unmap can be
\* refused; one frame for two blocks, so that a batch map fails halfway, and failing
\* malloc; no symmetry, which TLC may not use for liveness
SPECIFICATION FairBatchSpec
CONSTANTS
    Block = {b1, b2}
    Ctx = {c1}
    Page = {p1}
    Handle = {h1, h2}
    Value = {zero}
    Zero = zero
    Nil = Nil
    MaxLvid = 2
    ResidentLimit = 1
    L2Limit = 1
    MallocMayFail = TRUE
    Liberties = {"dropWhileMapped"}
    MaxBatch = 2
INVARIANTS
    BatchMapAllOrNothing
    BatchUnmapComplete
    BatchResolveIsSnapshot
PROPERTIES
    CallsReturn
    BatchesReturn
