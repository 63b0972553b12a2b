CONSTANTS
    Thread = {t1, t2}
    KeyCount = 2
    Rounds = 2
    Destructor = {d1}
    Null = Null
    MaxSeq = 3
SPECIFICATION KeySpec
INVARIANT SlotsAccounted
INVARIANT NoStaleData
INVARIANT RightDestructor
INVARIANT CleanIsComplete
SYMMETRY Symmetry
