------------------------- MODULE AbstractSemaphore -------------------------
(* What a counting semaphore promises: no wait succeeds without a credit of  *)
(* its own, no post is lost, and the count stays within SEM_VALUE_MAX.       *)
EXTENDS Naturals

CONSTANTS InitialValue, SEM_VALUE_MAX

VARIABLE credits

Init == credits = InitialValue

Take == credits > 0 /\ credits' = credits - 1

Post == credits < SEM_VALUE_MAX /\ credits' = credits + 1

Next == Take \/ Post

Spec == Init /\ [][Next]_credits
=============================================================================
