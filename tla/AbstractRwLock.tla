--------------------------- MODULE AbstractRwLock ---------------------------
(* What a reader/writer lock promises: any number of read holds, or one      *)
(* writer and no reader.                                                     *)
EXTENDS Naturals

CONSTANT Thread

VARIABLES reads,    \* how many read holds each thread has
          writers   \* the threads that hold the lock for writing

NoReader == \A t \in Thread : reads[t] = 0

Init == reads = [t \in Thread |-> 0] /\ writers = {}

AcquireRead(t) ==
    /\ writers = {}
    /\ reads' = [reads EXCEPT ![t] = @ + 1]
    /\ UNCHANGED writers

ReleaseRead(t) ==
    /\ reads[t] > 0
    /\ reads' = [reads EXCEPT ![t] = @ - 1]
    /\ UNCHANGED writers

AcquireWrite(t) ==
    /\ writers = {} /\ NoReader
    /\ writers' = {t}
    /\ UNCHANGED reads

ReleaseWrite(t) ==
    /\ writers = {t}
    /\ writers' = {}
    /\ UNCHANGED reads

Next == \E t \in Thread : \/ AcquireRead(t) \/ ReleaseRead(t)
                          \/ AcquireWrite(t) \/ ReleaseWrite(t)

Spec == Init /\ [][Next]_<<reads, writers>>
=============================================================================
