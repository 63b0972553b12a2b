----------------------------- MODULE MCStartup -----------------------------
(* How a process gets its code and its statics ready, side by side: the       *)
(* initial state picks the Lock, the pthread_once, the guard of a static or   *)
(* the dynamic linker that the threads use.                                   *)
EXTENDS BionicLock, TLC

CONSTANTS Loading,            \* the threads that load libraries
          watched,            \* one of them, to state progress of
          None, MaxWork,
          p, q, b, c, d, n1, n2

VARIABLES primitive,          \* "lock", "once", "guard" or "linker"
          word,               \* once_control, or the state of the guard
          call, done, passed,
          si, counter, handles, dtors, stack, work

onceVars == <<word, call, done, passed>>
linkerVars == <<si, counter, handles, dtors, stack, work>>
mcVars == <<primitive, vars, onceVars, linkerVars>>

Once == INSTANCE PthreadOnce WITH once_control <- word
Guard == INSTANCE CxaGuard WITH state <- word

\* p and q share b, whose dependency c p names first; d is in a namespace of
\* its own.
MCNeeded == (p :> <<c, b>>) @@ (q :> <<b, d>>) @@ (b :> <<c>>) @@ (c :> <<>>) @@ (d :> <<>>)

MCHome == (p :> n1) @@ (q :> n1) @@ (b :> n1) @@ (c :> n1) @@ (d :> n2)

Linker == INSTANCE Linker
    WITH Thread <- Loading, Lib <- {p, q, b, c, d}, Needed <- MCNeeded, Home <- MCHome,
         Opened <- {p, q, c}, ThreadLocals <- {b}, NoDelete <- {c}

MCInit ==
    /\ primitive \in {"lock", "once", "guard", "linker"}
    /\ Init /\ Once!Init /\ Guard!Init /\ Linker!Init

Use(x) == primitive = x /\ UNCHANGED primitive

MCNext ==
    \/ Use("lock") /\ Next /\ UNCHANGED <<onceVars, linkerVars>>
    \/ Use("once") /\ Once!Next /\ UNCHANGED <<vars, linkerVars>>
    \/ Use("guard") /\ Guard!Next /\ UNCHANGED <<vars, linkerVars>>
    \/ Use("linker") /\ Linker!Next /\ UNCHANGED <<vars, onceVars>>

\* A thread inside a call, an initialiser or a constructor keeps running; no
\* wait need end but by a wake.
MCInside(t) ==
    \/ Use("lock") /\ Inside(t) /\ UNCHANGED <<onceVars, linkerVars>>
    \/ Use("once") /\ Once!Inside(t) /\ UNCHANGED <<vars, linkerVars>>
    \/ Use("guard") /\ Guard!Inside(t) /\ UNCHANGED <<vars, linkerVars>>
    \/ t \in Loading /\ Use("linker") /\ Linker!Inside(t) /\ UNCHANGED <<vars, onceVars>>

MCSpec ==
    /\ MCInit /\ [][MCNext]_mcVars
    /\ \A t \in Thread : WF_mcVars(MCInside(t))

\* What the watched thread is in and must get out of: a pthread_once, the sleep
\* on a guard, or a dlopen, a dlclose or its exit.
Busy ==
    \/ primitive = "once" /\ call[watched].pc # "idle"
    \/ primitive = "guard" /\ call[watched].pc = "asleep"
    \/ primitive = "linker" /\ stack[watched] # <<>> /\ ~Linker!In(watched, "gone")

Held == \E t \in Thread : pc[t] = "critical"

\* Every pthread_once returns and no waiter misses the completion; every waiter
\* on a guard wakes, also when the constructor throws; every dlopen, dlclose and
\* thread exit comes to its end; a free Lock with a sleeper is taken.  The threads
\* are alike, so what holds of the watched one holds of each.
CallsReturn ==
    (IF primitive = "lock" THEN Asleep # {} /\ ~Held ELSE Busy)
        ~> (IF primitive = "lock" THEN Held ELSE ~Busy)

OneTime == INSTANCE AbstractOnce
               WITH runners <- IF primitive = "guard" THEN Guard!Runners ELSE Once!Runners

\* Both run the initialiser on one thread at a time, never again after it has
\* completed, and let nobody past before; only a guard may give up a run.
ImplementsOnce == OneTime!Spec

\* The count of a group of libraries is what refers to it, at every step of
\* every dlopen, dlclose and thread exit.
RefsExact == Linker!RefsExact

\* Whenever no thread is in the linker, a library that is loaded is linked and
\* something refers to its group: nothing is left behind.
LibrariesReclaimed == Linker!Reclaimed

\* dlclose runs the destructors of a library before those of the libraries that
\* it needs, and of none that a library that stays needs; a constructor runs after
\* constructors_called is set for all that its library needs, and outside the
\* linker every linked library has been constructed.
LibrariesOrdered == Linker!UsersFirst /\ Linker!Constructed

\* What is held by handles or thread_local destructors stays mapped with all it
\* needs; a dlopen that fails changes nothing that a holder could see.
ImplementsLoader == Linker!ImplementsLoader
=============================================================================
