\* Four blocks, so that one can be taken out of the middle of the stack
SPECIFICATION Spec
CONSTANTS
    Total = 4
    MaxRefs = 3
    None = None
INVARIANTS
    ListExact
PROPERTY ImplementsBlockPool
