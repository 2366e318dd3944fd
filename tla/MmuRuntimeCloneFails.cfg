\* Copy on write when the L2 store is full
SPECIFICATION Spec
CONSTANTS
    Block = {b1, b2, b3}
    Ctx = {c1, c2}
    Page = {p1, p2}
    Handle = {h1, h2}
    Value = {zero, v1}
    Zero = zero
    Nil = Nil
    MaxLvid = 2
    ResidentLimit = 2
    L2Limit = 1
    MallocMayFail = FALSE
    Liberties = {}
SYMMETRY Symmetry
PROPERTY ImplementsForkedMemory
