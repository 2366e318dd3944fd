\* Batches over blocks that two contexts share, written to while mapped
SPECIFICATION BatchSpec
CONSTANTS
    Block = {b1, b2}
    Ctx = {c1, c2}
    Page = {p1}
    Handle = {h1, h2}
    Value = {zero}
    Zero = zero
    Nil = Nil
    MaxLvid = 2
    ResidentLimit = 1
    L2Limit = 1
    MallocMayFail = FALSE
    Liberties = {"remap"}
    MaxBatch = 2
SYMMETRY Symmetry
INVARIANTS
    BatchTypeOK
    BatchMapAllOrNothing
    BatchUnmapComplete
    BatchResolveIsSnapshot
