SPECIFICATION Spec
CONSTANTS
    MaxLayers = 2
    MaxPerBlock = 2
    MaxPrompt = 3
    MaxDecode = 3
    MaxLvid = 6
    Nil = Nil
INVARIANTS
    BlocksOwnedOnce
    TokensInPlace
    NothingLeftBehind
    EnoughIsEnough
PROPERTIES
    KeepsToContract
    Exits
CHECK_DEADLOCK FALSE
