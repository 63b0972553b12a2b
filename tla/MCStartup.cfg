CONSTANTS
    Thread = {t1, t2, t3}
    Loading = {t1, t2}
    watched = t1
    None = None
    MaxWork = 3
    p = p
    q = q
    b = b
    c = c
    d = d
    n1 = n1
    n2 = n2
SPECIFICATION MCSpec
INVARIANT NoLostWakeup
PROPERTY ImplementsAbstractLock
PROPERTY CallsReturn
PROPERTY ImplementsOnce
INVARIANT RefsExact
INVARIANT LibrariesReclaimed
INVARIANT LibrariesOrdered
PROPERTY ImplementsLoader
CHECK_DEADLOCK FALSE
