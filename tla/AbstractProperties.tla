------------------------ MODULE AbstractProperties ------------------------
(* What the system properties promise to processes: each property is set and *)
(* read in one step, and a read gives the value of that moment.              *)
CONSTANTS Property, Reader, Values, Absent, NoResult

VARIABLES value,    \* of each property, Absent before it is added
          result    \* what each reader read in its last call

Init == value = [p \in Property |-> Absent] /\ result = [r \in Reader |-> NoResult]

Set(p) == (\E v \in Values : value' = [value EXCEPT ![p] = v]) /\ UNCHANGED result

Begin(r) == result' = [result EXCEPT ![r] = NoResult] /\ UNCHANGED value

Read(r, p) ==
    /\ result[r] = NoResult
    /\ result' = [result EXCEPT ![r] = [p |-> p, value |-> value[p]]]
    /\ UNCHANGED value

Next ==
    \/ \E p \in Property : Set(p)
    \/ \E r \in Reader : Begin(r) \/ \E p \in Property : Read(r, p)

Spec == Init /\ [][Next]_<<value, result>>
=============================================================================
