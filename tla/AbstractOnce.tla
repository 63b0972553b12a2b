---------------------------- MODULE AbstractOnce ----------------------------
(* What one-time initialisation promises: one thread at a time runs the      *)
(* initialiser, none after it has completed, and nobody gets past before.    *)
CONSTANT Thread

VARIABLES runners,   \* threads running the initialiser
          done,      \* whether the initialiser has completed
          passed     \* threads that were told that it is done

Init == runners = {} /\ done = FALSE /\ passed = {}

Start(t) == ~done /\ runners = {} /\ runners' = {t} /\ UNCHANGED <<done, passed>>

Finish(t) == runners = {t} /\ runners' = {} /\ done' = TRUE /\ UNCHANGED passed

\* The initialiser ended in an exception and may be tried again.
Abandon(t) == runners = {t} /\ runners' = {} /\ UNCHANGED <<done, passed>>

Pass(t) == done /\ passed' = passed \cup {t} /\ UNCHANGED <<runners, done>>

Next == \E t \in Thread : Start(t) \/ Finish(t) \/ Abandon(t) \/ Pass(t)

Spec == Init /\ [][Next]_<<runners, done, passed>>
=============================================================================
