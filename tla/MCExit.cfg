CONSTANTS
    Thread = {t1, t2}
    Dso = {d1}
    NoDso = NoDso
    None = None
    MaxWork = 5
    MaxDepth = 2
    EntriesPerPage = 1
    Worker = {w1, w2}
    Client = {c1, c2}
    NoClient = NoClient
    NoWorker = NoWorker
    MaxRuns = 2
SPECIFICATION MCSpec
INVARIANT ForkPaired
PROPERTY PassComplete
PROPERTY UnloadClean
PROPERTY AllReturn
PROPERTY ImplementsExitHandlers
INVARIANT NoUseAfterFree
PROPERTY Reclaimed
CHECK_DEADLOCK FALSE
