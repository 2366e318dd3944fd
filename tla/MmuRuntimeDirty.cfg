\* A disciplined host; the one L2 page is taken when a block is unmapped and free
\* again when it is evicted
SPECIFICATION Spec
CONSTANTS
    Block = {b1, b2}
    Ctx = {c1}
    Page = {p1}
    Handle = {h1}
    Value = {zero}
    Zero = zero
    Nil = Nil
    MaxLvid = 3
    ResidentLimit = 1
    L2Limit = 1
    MallocMayFail = FALSE
    Liberties = {}
INVARIANT DirtyOnlyInL1
