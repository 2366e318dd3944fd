\* Any host; two frames and one L2 page for three blocks, so that the scan has two
\* blocks to choose from and write-backs fail
SPECIFICATION DirectorySpec
CONSTANTS
    Block = {b1, b2, b3}
    Ctx = {c1, c2}
    Page = {p1, p2}
    Handle = {h1}
    Value = {zero}
    Zero = zero
    Nil = Nil
    MaxLvid = 2
    ResidentLimit = 2
    L2Limit = 1
    MallocMayFail = TRUE
    Liberties = {"overallocate", "forkWhileWriting", "remap", "dropWhileMapped", "strayUnmap"}
    MaxEpoch = 4
SYMMETRY Symmetry
INVARIANTS
    DirectoryExact
    OneVictim
