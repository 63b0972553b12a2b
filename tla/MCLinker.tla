------------------------------ MODULE MCLinker ------------------------------
(* The linker on libraries that need one another in a loop.                   *)
EXTENDS Linker, TLC

CONSTANTS p, b, c, d, n1

\* A loop below the library that is opened, as in dlopen_check_loop of
\* tests/dlfcn_test.cpp.
LoopNeeded == (p :> <<b>>) @@ (b :> <<c>>) @@ (c :> <<d>>) @@ (d :> <<b>>)

LoopHome == [l \in Lib |-> n1]

\* After the dlclose of the only handle none of the libraries that its dlopen
\* linked is left, what dlopen_check_loop sets out to show.
UnloadedCorrectly ==
    (\A t \in Thread : Outside(t)) /\ (\A l \in Lib : handles[l] = 0) =>
        \A l \in Lib : ~Linked(l)
=============================================================================
