CONSTANTS
    Thread = {t1, t2, t3}
    NoThread = NoThread
    Variants <- MCVariants
    MaxCounter = 1
SPECIFICATION FairSpec
INVARIANT CounterIsDepth
INVARIANT NoSelfDeadlock
PROPERTY SleepersProgress
PROPERTY ImplementsAbstractLock
