--------------------------- MODULE AbstractLoader ---------------------------
(* What the dynamic linker promises of the libraries it maps: a library that *)
(* is held, by a handle or by a destructor of one of its thread_locals, is   *)
(* mapped with all it needs, and only what no holder needs goes away.        *)
EXTENDS Naturals

CONSTANTS Lib,
          Reach     \* the libraries that each library needs, itself included

VARIABLES held,     \* how often each library is held
          mapped

Wanted == UNION {Reach[l] : l \in {m \in Lib : held[m] > 0}}

Init == held = [l \in Lib |-> 0] /\ mapped = {}

Take(l) ==
    /\ held' = [held EXCEPT ![l] = @ + 1]
    /\ mapped' = mapped \cup Reach[l]

Drop(l) ==
    /\ held[l] > 0
    /\ held' = [held EXCEPT ![l] = @ - 1]
    /\ UNCHANGED mapped

Reclaim(l) ==
    /\ l \in mapped \ Wanted
    /\ mapped' = mapped \ {l}
    /\ UNCHANGED held

Next == \E l \in Lib : Take(l) \/ Drop(l) \/ Reclaim(l)

Spec == Init /\ [][Next]_<<held, mapped>>
=============================================================================
