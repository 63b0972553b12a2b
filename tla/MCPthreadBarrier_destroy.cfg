CONSTANT
    Thread = {t1, t2}
SPECIFICATION Spec
INVARIANT NoAccessAfterDestroy
