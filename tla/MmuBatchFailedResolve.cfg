\* A batch resolve whose second block is not allocated
SPECIFICATION BatchSpec
CONSTANTS
    Block = {b1, b2, b3}
    Ctx = {c1}
    Page = {p1}
    Handle = {h1}
    Value = {zero}
    Zero = zero
    Nil = Nil
    MaxLvid = 2
    ResidentLimit = 1
    L2Limit = 1
    MallocMayFail = FALSE
    Liberties = {}
    MaxBatch = 2
SYMMETRY Symmetry
INVARIANT FailedResolveLeavesOutput
