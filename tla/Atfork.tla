------------------------------- MODULE Atfork -------------------------------
(* libc/bionic/pthread_atfork.cpp and fork.cpp: the list of handlers under   *)
(* its recursive mutex, and forks that walk it.  A handler runs while the    *)
(* walk stands on its entry, and may call back into the library.  A thread's *)
(* calls nest, so each thread has a stack of frames; a section under the     *)
(* mutex that runs no handler is one step.  A fork inside a handler is not   *)
(* modelled, and a handler does not unregister itself: it is being executed. *)
EXTENDS Naturals, Sequences

CONSTANTS Thread, Dso,
          NoDso,        \* the dso of the program itself, nullptr
          None,         \* no thread, no entry, no child
          MaxWork,      \* how many calls the application makes
          MaxDepth      \* how deep calls nest

\* An entry of the list of fork handlers, or of the array of exit handlers.
Entry == [id : Nat, dso : Dso \cup {NoDso}]

ASSUME NoneAssumption == None \notin Thread /\ None \notin Nat /\ None \notin Entry

ASSUME NoDsoAssumption == NoDso \notin Dso

VARIABLES g_atfork_list,        \* entries, each with an id and its dso_handle
          g_atfork_list_mutex,  \* its owner and recursion depth
          work,                 \* how many calls it has made
          stack,                \* the frames of each thread, innermost last
          child                 \* the child of the last fork, until fork() returns there

atforkVars == <<g_atfork_list, g_atfork_list_mutex, work, child>>

Unlocked == [owner |-> None, depth |-> 0]

Ids(list) == {list[i].id : i \in DOMAIN list}

AtforkInit ==
    /\ g_atfork_list = <<>>
    /\ g_atfork_list_mutex = Unlocked
    /\ work = 0
    /\ stack = [t \in Thread |-> <<>>]
    /\ child = None

-----------------------------------------------------------------------------
\* The entry beside the one with this id, or None at the end of the list.
Before(list, id) ==
    LET at == {i \in DOMAIN list : i > 1 /\ list[i].id = id}
    IN  IF at = {} THEN None ELSE list[(CHOOSE i \in at : TRUE) - 1].id

After(list, id) ==
    LET at == {i \in DOMAIN list : i < Len(list) /\ list[i].id = id}
    IN  IF at = {} THEN None ELSE list[(CHOOSE i \in at : TRUE) + 1].id

FirstEntry(list) == IF list = <<>> THEN None ELSE list[1].id

LastEntry(list) == IF list = <<>> THEN None ELSE list[Len(list)].id

\* The positions S of a list, one after the other.
Ascending(list, S) ==
    {at \in UNION {[1 .. n -> S] : n \in 0 .. Len(list)} :
        /\ \A i, j \in DOMAIN at : i < j => at[i] < at[j]
        /\ \A p \in S : \E i \in DOMAIN at : at[i] = p}

Work == work < MaxWork /\ work' = work + 1

\* The frames under the innermost one.
Below(frames) == [k \in 1 .. Len(frames) - 1 |-> frames[k]]

Top(t) == stack[t][Len(stack[t])]

Push(t, frame) == stack' = [stack EXCEPT ![t] = Append(@, frame)]

Pop(t) == stack' = [stack EXCEPT ![t] = Below(@)]

\* The innermost frame becomes this one.
Becomes(t, frame) == stack' = [stack EXCEPT ![t] = Append(Below(@), frame)]

In(t, op) == stack[t] # <<>> /\ Top(t).op = op

InFork(t) == \E i \in DOMAIN stack[t] : stack[t][i].op = "fork"

\* Application code runs: outside any call, in a callback, or in a handler.
CanCall(t) ==
    /\ Len(stack[t]) < MaxDepth
    /\ \/ stack[t] = <<>>
       \/ In(t, "callback")
       \/ In(t, "fork") /\ Top(t).it # None

\* pthread_mutex_lock would not block.
Available(t) == g_atfork_list_mutex.owner \in {None, t}

Lock(t) ==
    /\ Available(t)
    /\ g_atfork_list_mutex' = [owner |-> t, depth |-> g_atfork_list_mutex.depth + 1]

Unlock ==
    g_atfork_list_mutex' = IF g_atfork_list_mutex.depth = 1 THEN Unlocked
                           ELSE [g_atfork_list_mutex EXCEPT !.depth = @ - 1]

-----------------------------------------------------------------------------
\* __register_atfork; ENOMEM changes nothing.
RegisterAtfork(t, dso) ==
    /\ CanCall(t) /\ Available(t)
    /\ Work
    /\ g_atfork_list' = Append(g_atfork_list, [id |-> work', dso |-> dso])
    /\ UNCHANGED <<g_atfork_list_mutex, stack, child>>

\* __unregister_atfork, the last thing __cxa_finalize does for a library.
UnregisterAtfork(t, dso) ==
    /\ Available(t)
    /\ \E at \in Ascending(g_atfork_list,
                          {i \in DOMAIN g_atfork_list : g_atfork_list[i].dso # dso}) :
          g_atfork_list' = [k \in DOMAIN at |-> g_atfork_list[at[k]]]
    /\ UNCHANGED <<g_atfork_list_mutex, work, child>>

\* A mutant of __bionic_atfork_run_prepare: the list is locked for no longer
\* than it takes to look at it.
ForkUnlocked(t) ==
    /\ CanCall(t) /\ ~InFork(t)
    /\ Work
    /\ Available(t)
    /\ Push(t, [op |-> "fork", phase |-> "prepare", it |-> LastEntry(g_atfork_list),
                start |-> g_atfork_list, prepared |-> <<>>, done |-> <<>>])
    /\ UNCHANGED <<g_atfork_list, g_atfork_list_mutex, child>>

\* fork(): __bionic_atfork_run_prepare locks the list and walks backwards.
Fork(t) ==
    /\ CanCall(t) /\ ~InFork(t)
    /\ Work
    /\ Lock(t)
    /\ Push(t, [op |-> "fork", phase |-> "prepare", it |-> LastEntry(g_atfork_list),
                start |-> g_atfork_list, prepared |-> <<>>, done |-> <<>>])
    /\ UNCHANGED <<g_atfork_list, child>>

\* A mutant: the prepare handlers are walked forward as well.
HandlerReturnsForward(t) ==
    /\ In(t, "fork")
    /\ LET f == Top(t)
       IN  /\ f.it # None
           /\ Becomes(t,
                  IF f.phase = "prepare"
                    THEN [f EXCEPT !.prepared = Append(@, f.it),
                                   !.it = After(g_atfork_list, f.it)]
                    ELSE [f EXCEPT !.done = Append(@, f.it),
                                   !.it = After(g_atfork_list, f.it)])
    /\ UNCHANGED <<g_atfork_list, g_atfork_list_mutex, work, child>>

\* The handler of the entry under the walk has returned; on to the next.
HandlerReturns(t) ==
    /\ In(t, "fork")
    /\ LET f == Top(t)
       IN  /\ f.it # None
           /\ Becomes(t,
                  IF f.phase = "prepare"
                    THEN [f EXCEPT !.prepared = Append(@, f.it),
                                   !.it = Before(g_atfork_list, f.it)]
                    ELSE [f EXCEPT !.done = Append(@, f.it),
                                   !.it = After(g_atfork_list, f.it)])
    /\ UNCHANGED <<g_atfork_list, g_atfork_list_mutex, work, child>>

\* __clone_for_fork.  The child has a copy of the memory and no other thread;
\* its thread has a tid of its own, so the copied mutex is somebody else's.
CloneForFork(t) ==
    /\ In(t, "fork")
    /\ LET f == Top(t)
       IN  /\ f.phase = "prepare" /\ f.it = None
           /\ Becomes(t, [f EXCEPT !.phase = "parent", !.it = FirstEntry(g_atfork_list)])
           /\ \/ child = None /\ child' = [at |-> "start", it |-> None,
                                           mutex |-> g_atfork_list_mutex,
                                           list |-> g_atfork_list,
                                           start |-> f.start, prepared |-> f.prepared, done |-> <<>>]
              \/ UNCHANGED child    \* clone fails
    /\ UNCHANGED <<g_atfork_list, g_atfork_list_mutex, work>>

\* A mutant: the parent keeps the mutex.
ForkReturnsLocked(t) ==
    /\ In(t, "fork")
    /\ Top(t).phase = "parent" /\ Top(t).it = None
    /\ Pop(t)
    /\ UNCHANGED <<g_atfork_list, g_atfork_list_mutex, work, child>>

\* __bionic_atfork_run_parent is through: fork() unlocks and returns.
ForkReturns(t) ==
    /\ In(t, "fork")
    /\ Top(t).phase = "parent" /\ Top(t).it = None
    /\ Unlock
    /\ Pop(t)
    /\ UNCHANGED <<g_atfork_list, work, child>>

\* A mutant of __bionic_atfork_run_child: the mutex is not reset.
ChildResetNot == child.mutex

\* The mutex the child locks.
ChildReset == Unlocked

\* __bionic_atfork_run_child resets the mutex, locks it and walks forward.
ChildStarts ==
    /\ child # None /\ child.at = "start"
    /\ ChildReset = Unlocked
    /\ child' = [child EXCEPT !.at = "walk", !.it = FirstEntry(child.list)]
    /\ UNCHANGED <<g_atfork_list, g_atfork_list_mutex, work, stack>>

ChildHandlerReturns ==
    /\ child # None /\ child.at = "walk" /\ child.it # None
    /\ child' = [child EXCEPT !.done = Append(@, child.it), !.it = After(child.list, child.it)]
    /\ UNCHANGED <<g_atfork_list, g_atfork_list_mutex, work, stack>>

\* fork() returns 0 in the child, which goes its own way.
ChildReturns ==
    /\ child # None /\ child.at = "walk" /\ child.it = None
    /\ child' = None
    /\ UNCHANGED <<g_atfork_list, g_atfork_list_mutex, work, stack>>

ForkSteps(t) == HandlerReturns(t) \/ CloneForFork(t) \/ ForkReturns(t)

ChildSteps == ChildStarts \/ ChildHandlerReturns \/ ChildReturns
-----------------------------------------------------------------------------
Forks == {t \in Thread : InFork(t)}

ForkFrame(t) == stack[t][CHOOSE i \in DOMAIN stack[t] : stack[t][i].op = "fork"]

\* The entry id stands before the entry next in the list.
InFront(list, id, next) ==
    \E i, j \in DOMAIN list : i < j /\ list[i].id = id /\ list[j].id = next

\* f has called the handlers of all that were registered when it began, and
\* still are on the list, each once: backwards to prepare, then forward.
Paired(f, list) ==
    LET still == Ids(f.start) \cap Ids(list)
        Called(ids) == \A id \in still : \E k \in DOMAIN ids : ids[k] = id
    IN  /\ Called(f.prepared) /\ Called(f.done)
        /\ \A j, k \in DOMAIN f.prepared :
              j < k /\ {f.prepared[j], f.prepared[k]} \subseteq still
                  => InFront(f.start, f.prepared[k], f.prepared[j])
        /\ \A j, k \in DOMAIN f.done :
              j < k /\ {f.done[j], f.done[k]} \subseteq still
                  => InFront(f.start, f.done[j], f.done[k])

\* When fork() is about to return, in the parent as in the child, every entry
\* that was there when it began and still is has had both its handlers called,
\* once, and in the orders that POSIX asks for.
ForkPaired ==
    /\ \A t \in Forks :
          LET f == ForkFrame(t)
          IN  f.phase = "parent" /\ f.it = None => Paired(f, g_atfork_list)
    /\ child # None /\ child.at = "walk" /\ child.it = None => Paired(child, child.list)
=============================================================================
