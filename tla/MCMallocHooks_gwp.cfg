CONSTANTS
    Thread = {t1, t2}
    NoThread = NoThread
    Block = {b1, b2}
    NoBlock = NoBlock
    MaxBytes = 2
    MaxCached = 0
    gAllocLimit = 3
    CountBits = 4
    MaxCalls = 3
SPECIFICATION MallocSpec
INVARIANT SignalKeepsOwner
CHECK_DEADLOCK FALSE
