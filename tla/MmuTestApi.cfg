\* A disciplined host that also uses the test API
SPECIFICATION TestSpec
CONSTANTS
    Block = {b1, b2, b3}
    Ctx = {c1, c2}
    Page = {p1}
    Handle = {h1}
    Value = {zero, v1}
    Zero = zero
    Nil = Nil
    MaxLvid = 2
    ResidentLimit = 1
    L2Limit = 2
    MallocMayFail = FALSE
    Liberties = {}
SYMMETRY Symmetry
INVARIANT TestTiersAgree
PROPERTIES
    ImplementsTestedMemory
    RefusedOnlyWhenFull
