------------------------ MODULE AbstractExitHandlers ------------------------
(* What __cxa_atexit and __cxa_finalize promise: every callback that was     *)
(* registered is called at most once, and never before a newer one that the  *)
(* same caller of __cxa_finalize is to call.                                 *)
EXTENDS Naturals

CONSTANT Dsos

VARIABLES registered,   \* how many were registered
          pending       \* those not called yet, numbered as they were registered

Init == registered = 0 /\ pending = {}

Register ==
    /\ registered' = registered + 1
    /\ \E dso \in Dsos : pending' = pending \cup {[id |-> registered', dso |-> dso]}

\* The newest of its library, or of all.
Newest(e) ==
    \/ \A g \in pending : g.id <= e.id
    \/ \A g \in pending : g.dso = e.dso => g.id <= e.id

Call(e) ==
    /\ Newest(e)
    /\ pending' = pending \ {e}
    /\ UNCHANGED registered

Next == Register \/ \E e \in pending : Call(e)

Spec == Init /\ [][Next]_<<registered, pending>>
=============================================================================
