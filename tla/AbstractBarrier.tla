--------------------------- MODULE AbstractBarrier ---------------------------
(* What a barrier promises to its participants: nobody leaves a cycle before *)
(* everybody has arrived in it, and one of each cycle is its serial thread.  *)
CONSTANT Thread

VARIABLES arrived,    \* participants held in the current cycle
          released,   \* participants of a full cycle that have yet to leave
          serial      \* the one of them to get PTHREAD_BARRIER_SERIAL_THREAD

Init == arrived = {} /\ released = {} /\ serial = {}

Arrive(t) ==
    /\ t \notin arrived \cup released
    /\ IF arrived \cup {t} = Thread
         THEN arrived' = {} /\ released' = Thread /\ serial' = {t}
         ELSE arrived' = arrived \cup {t} /\ UNCHANGED <<released, serial>>

Leave(t) ==
    /\ t \in released
    /\ released' = released \ {t}
    /\ serial' = serial \ {t}
    /\ UNCHANGED arrived

Next == \E t \in Thread : Arrive(t) \/ Leave(t)

Spec == Init /\ [][Next]_<<arrived, released, serial>>
=============================================================================
