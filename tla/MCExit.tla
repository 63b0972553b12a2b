------------------------------- MODULE MCExit -------------------------------
(* How threads and the process end, side by side: the initial state picks    *)
(* the handlers of exit and fork, or the life of threads.                    *)
EXTENDS Atexit, ThreadLifecycle

VARIABLE part               \* "handlers" or "threads"

mcVars == <<part, vars, threadVars>>

MCInit ==
    /\ part \in {"handlers", "threads"}
    /\ Init /\ ThreadsInit

Handlers == part = "handlers" /\ UNCHANGED <<part, threadVars>>

Lives == part = "threads" /\ UNCHANGED <<part, vars>>

MCNext == (Handlers /\ Next) \/ (Lives /\ ThreadsNext)

\* Calls that have begun go on; the start routine of a thread may run for ever.
MCSpec ==
    /\ MCInit /\ [][MCNext]_mcVars
    /\ \A t \in Thread : WF_mcVars(Handlers /\ Inside(t))
    /\ WF_mcVars(Handlers /\ ChildSteps /\ UNCHANGED atexitVars)
    /\ \A w \in Worker : WF_mcVars(Lives /\ WorkerStep(w))
    /\ \A c \in Client : WF_mcVars(Lives /\ ClientStep(c))

\* Every __cxa_finalize and every fork returns if the callbacks and handlers do,
\* the child of a fork gets through its handlers although a thread that does not
\* exist there may hold the mutex, and android_run_on_all_threads comes back: no
\* thread it signals can block or end before it has handled the signal.
AllReturn == CallsReturn /\ ChildGetsOn /\ RunnerReturns
=============================================================================
