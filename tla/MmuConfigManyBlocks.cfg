\* More blocks than an int can count
SPECIFICATION Spec
CONSTANTS
    WordBits = 3
    SizeBits = 6
    Counts = {0, 3, 7}
    BlockSizes = {1}
    PageCounts <- SomePageCounts
    PageSizes <- SomePageSizes
    DefaultChunk = 4
    None = None
INVARIANT AllBlocksFree
CHECK_DEADLOCK FALSE
