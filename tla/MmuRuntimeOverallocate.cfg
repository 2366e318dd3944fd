\* Allocation runs out of blocks halfway
SPECIFICATION Spec
CONSTANTS
    Block = {b1, b2}
    Ctx = {c1, c2}
    Page = {p1}
    Handle = {h1}
    Value = {zero}
    Zero = zero
    Nil = Nil
    MaxLvid = 2
    ResidentLimit = 1
    L2Limit = 2
    MallocMayFail = FALSE
    Liberties = {"overallocate"}
SYMMETRY Symmetry
INVARIANT RefCountExact
