CONSTANTS
    Thread = {t1, t2, t3}
    NoThread = NoThread
    MaxReaders = 2
SPECIFICATION Spec
INVARIANT NoForgottenSleeper
