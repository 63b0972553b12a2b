CONSTANTS
    Thread = {t1, t2, t3}
    NoThread = NoThread
    MaxReaders = 2
SPECIFICATION FairSpec
INVARIANT WriterTidHolds
INVARIANT ForgottenOnlyAfterTimeout
PROPERTY SleepersProgress
PROPERTY ImplementsRwLock
