CONSTANTS
    short = short
    long = long
    Property = {p1, p2}
    Reader = {r1}
    Value = {short, long}
    LenOf <- MCLenOf
    Absent = Absent
    NoProperty = NoProperty
    NoResult = NoResult
    SerialBits = 4
    MaxSets = 4
    None = None
    main = main
    radio = radio
    w1 = w1
    w2 = w2
    u1 = u1
    u2 = u2
    Client = {c1, c2}
    MaxSize = 3
    MaxWork = 4
    MaxWork2 = 5
    Thread = {t1, t2}
    NoThread = NoThread
    Block = {b1, b2}
    NoBlock = NoBlock
    MaxBytes = 2
    MaxCached = 0
    gAllocLimit = 3
    CountBits = 4
    MaxCalls = 4
SPECIFICATION MCSpec
SYMMETRY Symmetry
PROPERTY ImplementsProperties
PROPERTY ChangesNoticed
INVARIANT PositionsValid
INVARIANT InOrder
INVARIANT CaughtUp
INVARIANT LockedMeetOnlySignals
PROPERTY TablesConsistent
INVARIANT OwnerServesUntilDropped
INVARIANT CountExact
CHECK_DEADLOCK FALSE
