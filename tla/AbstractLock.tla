---------------------------- MODULE AbstractLock ----------------------------
(* What every exclusive lock of bionic promises its callers: at most one     *)
(* thread holds it, only the holder gives it up.  The futex based locks are  *)
(* shown to implement this module.                                           *)
CONSTANT Thread

VARIABLE holders    \* the threads that have acquired the lock and not released it

Init == holders = {}

Acquire(t) == holders = {} /\ holders' = {t}

Release(t) == holders = {t} /\ holders' = {}

Next == \E t \in Thread : Acquire(t) \/ Release(t)

Spec == Init /\ [][Next]_holders
=============================================================================
