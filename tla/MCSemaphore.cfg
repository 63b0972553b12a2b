CONSTANTS
    Thread = {t1, t2, t3, t4}
    Participant = {t1, t2, t3}
    watched = t1
    InitialValue = 1
    SEM_VALUE_MAX = 3
    TargetSdk24 = FALSE
    NoThread = NoThread
    WordBits = 5
    MaxPulses = 3
SPECIFICATION MCSpec
PROPERTY ImplementsSemaphore
PROPERTY ImplementsBarrier
INVARIANT WaitersCounted
PROPERTY WaitersProgress
