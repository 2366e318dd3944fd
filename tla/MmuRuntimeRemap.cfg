\* Copy on write under the context's own mapping
SPECIFICATION Spec
CONSTANTS
    Block = {b1, b2}
    Ctx = {c1, c2}
    Page = {p1, p2}
    Handle = {h1, h2}
    Value = {zero}
    Zero = zero
    Nil = Nil
    MaxLvid = 2
    ResidentLimit = 2
    L2Limit = 2
    MallocMayFail = FALSE
    Liberties = {"remap"}
SYMMETRY Symmetry
INVARIANT MappingsCanBeUnmapped
