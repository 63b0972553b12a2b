CONSTANTS
    Thread = {t1, t2}
    p = p
    b = b
    c = c
    d = d
    n1 = n1
    Lib = {p, b, c, d}
    None = None
    Needed <- LoopNeeded
    Home <- LoopHome
    Opened = {p}
    ThreadLocals = {}
    NoDelete = {}
    MaxWork = 1
SPECIFICATION Spec
INVARIANT UnloadedCorrectly
CHECK_DEADLOCK FALSE
