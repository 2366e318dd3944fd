\* Three threads: one inside a call, one shutting down or waiting, one more
SPECIFICATION FairSpec
CONSTANTS
    Thread = {t1, t2, t3}
    Nil = Nil
    MaxItems = 2
    MaxCalls = 2
INVARIANTS
    CallsAreSerial
    RuntimeOutlivesCalls
PROPERTY EveryCallReturns
CHECK_DEADLOCK FALSE
