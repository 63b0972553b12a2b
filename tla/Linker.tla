------------------------------- MODULE Linker -------------------------------
(* linker/linker.cpp and linker_soinfo.cpp: how dlopen and dlclose load,     *)
(* link, count and unload libraries, and how the destructors of thread_local *)
(* variables (__cxa_thread_atexit_impl.cpp) keep theirs.  All of it happens  *)
(* under g_dl_mutex, which is recursive: constructors and destructors run    *)
(* with it held and may open and close libraries themselves.                 *)
EXTENDS Naturals, Sequences, FiniteSets, Functions

CONSTANTS Thread, Lib, None,
          Needed,        \* the DT_NEEDED entries of each library
          Home,          \* the namespace that each library is loaded in
          Opened,        \* the libraries that dlopen is called for,
          NoDelete,      \* those that RTLD_NODELETE is used for,
          ThreadLocals,  \* and those that have thread_locals with destructors
          MaxWork        \* the bound on calls that open or register

VARIABLES si,            \* the soinfo of each library
          counter,       \* g_dso_handle_counters
          handles,       \* the handles to each library that are not closed
          dtors,         \* thread_local_dtors of each thread, newest first
          stack,         \* the calls each thread is in, innermost first
          work

vars == <<si, counter, handles, dtors, stack, work>>

\* A soinfo that is not in the solist.
Freed == [state |-> "freed", children |-> <<>>, root |-> None, refs |-> 0,
          keep |-> FALSE, built |-> FALSE]

Init ==
    /\ si = [l \in Lib |-> Freed]
    /\ counter = [l \in Lib |-> 0] /\ handles = [l \in Lib |-> 0]
    /\ dtors = [t \in Thread |-> <<>>] /\ stack = [t \in Thread |-> <<>>]
    /\ work = 0

Top(t) == Head(stack[t])

Rest(t) == Tail(stack[t])

In(t, op) == stack[t] # <<>> /\ Top(t).op = op

Becomes(t, frames) == stack' = [stack EXCEPT ![t] = frames]

Linked(l) == si[l].state = "linked"

Parents(l) == {p \in Lib : l \in Range(si[p].children)}

\* A mutant of the next: destructors of thread_locals run with the mutex held.
OutsideNotDtor(t) == \A f \in Range(stack[t]) : f.op \in {"exit", "gone"}

\* t has no call in the linker.
Outside(t) == \A f \in Range(stack[t]) : f.op \in {"exit", "dtor", "gone"}

\* g_dl_mutex is free or t's own.
CanLock(t) == \A u \in Thread \ {t} : Outside(u)

\* t runs code of the application.
InApp(t) ==
    \/ stack[t] = <<>> \/ In(t, "init") \/ In(t, "dtor")
    \/ In(t, "fini") /\ Top(t).todo # <<>>

\* Libraries that an unload in progress is going to free.
Doomed ==
    UNION {Range(f.local) : f \in {g \in UNION {Range(stack[t]) : t \in Thread} :
                                     g.op \in {"unload", "fini"}}}

\* What a library needs, directly or not, by the files themselves.
Reach == [l \in Lib |->
    {m \in Lib : \A S \in SUBSET Lib :
        (l \in S /\ \A s \in S : Range(Needed[s]) \subseteq S) => m \in S}]

-----------------------------------------------------------------------------
\* do_dlopen.  A destructor does not ask for what is being unloaded.
Dlopen(t, l, nodelete) ==
    /\ InApp(t) /\ CanLock(t)
    /\ work < MaxWork /\ work' = work + 1
    /\ Reach[l] \cap Doomed = {}
    /\ Becomes(t, <<[op |-> "find", todo |-> <<[lib |-> l, by |-> None]>>,
                     done |-> <<>>, keep |-> nodelete]>> \o stack[t])
    /\ UNCHANGED <<si, counter, handles, dtors>>

\* load_library: a soinfo, and a task for each library it needs.
LoadLibrary(l, keep) ==
    IF si[l].state = "freed"
      THEN [si EXCEPT ![l].state = "loaded", ![l].keep = keep]
      ELSE si

NeededTasks(l) ==
    IF si[l].state = "freed"
      THEN [i \in DOMAIN Needed[l] |-> [lib |-> Needed[l][i], by |-> l]]
      ELSE <<>>

AddChild(s, parent, l) ==
    IF parent = None THEN s ELSE [s EXCEPT ![parent].children = Append(@, l)]

\* Step 1 of find_libraries, for one task.
FindLibrary(t) ==
    /\ In(t, "find") /\ Top(t).todo # <<>>
    /\ LET f == Top(t)
           task == Head(f.todo)
       IN  /\ si' = AddChild(LoadLibrary(task.lib, f.keep), task.by, task.lib)
           /\ Becomes(t, <<[f EXCEPT !.todo = Tail(@) \o NeededTasks(task.lib),
                                     !.done = Append(@, task)]>> \o Rest(t))
    /\ UNCHANGED <<counter, handles, dtors, work>>

\* The frame of soinfo_unload_impl.
Unload(root, linked) ==
    [op |-> "unload", root |-> root, linked |-> linked, todo |-> <<root>>,
     local |-> <<>>, ext |-> <<>>]

Libs(tasks) == {task.lib : task \in Range(tasks)}

\* A mutant of the next: what was loaded so far stays.
FindFailsKeeps(t) ==
    /\ In(t, "find")
    /\ \/ Top(t).todo # <<>> /\ si[Head(Top(t).todo).lib].state = "freed"
       \/ Top(t).todo = <<>> /\ \E l \in Libs(Top(t).done) : ~Linked(l)
    /\ Becomes(t, Rest(t))
    /\ UNCHANGED <<si, counter, handles, dtors, work>>

\* A file is missing or unreadable, or something does not load or link: if
\* find_libraries has come to a library, find_library unloads it.
FindFails(t) ==
    /\ In(t, "find")
    /\ \/ Top(t).todo # <<>> /\ si[Head(Top(t).todo).lib].state = "freed"
       \/ Top(t).todo = <<>> /\ \E l \in Libs(Top(t).done) : ~Linked(l)
    /\ Becomes(t, IF Top(t).done = <<>> THEN Rest(t)
                  ELSE <<Unload(Top(t).done[1].lib, FALSE)>> \o Rest(t))
    /\ UNCHANGED <<si, counter, handles, dtors, work>>

-----------------------------------------------------------------------------
\* android_namespace_t::is_accessible.
IsAccessible(ns, l) == Home[l] = ns \/ \E p \in Parents(l) : Home[p] = ns

\* walk_dependencies_tree, skipping what is not accessible.
Walk(root) ==
    {m \in Lib : \A S \in SUBSET Lib :
        (root \in S /\ \A l \in S : IsAccessible(Home[root], l) =>
                                      Range(si[l].children) \subseteq S) => m \in S}

\* Step 5: a new group starts where a dependency leaves its namespace.
LocalGroupRoots(done) ==
    LET crosses(task) == /\ task.by # None
                         /\ ~Linked(task.lib) /\ Home[task.lib] # Home[task.by]
        roots == SelectSeq(Tail(done), crosses)
    IN  <<done[1].lib>> \o [i \in DOMAIN roots |-> roots[i].lib]

\* Step 6: link_image gives a library the first group that comes to it.
LocalGroupRoot(roots, l) ==
    LET comes(i) == l \in Walk(roots[i]) /\ Home[l] = Home[roots[i]]
        first == CHOOSE i \in DOMAIN roots :
                     comes(i) /\ \A j \in DOMAIN roots : comes(j) => i <= j
    IN  roots[first]

\* The roots of all libraries when the groups are linked.
LinkedRoots(done) ==
    LET roots == LocalGroupRoots(done)
    IN  [l \in Lib |-> IF Linked(l) \/ l \notin Libs(done) THEN si[l].root
                       ELSE LocalGroupRoot(roots, l)]

\* A mutant of step 7: a library that was loaded before gains no reference.
CrossReferencesNew(done, root, r) ==
    {i \in DOMAIN done : /\ done[i].by # None /\ ~Linked(done[i].lib)
                         /\ root[done[i].lib] = r /\ root[done[i].by] # r}

\* Step 7: the tasks that make one group refer to group r.
CrossReferences(done, root, r) ==
    {i \in DOMAIN done : /\ done[i].by # None
                         /\ root[done[i].lib] = r /\ root[done[i].by] # r}

\* The constructors of these libraries are to be called.
Constructing(libs) == IF libs = <<>> THEN <<>> ELSE <<[op |-> "ctor", todo |-> libs]>>

\* Steps 2 to 7 of find_libraries, and the reference of find_library.
LinkLibraries(t) ==
    /\ In(t, "find") /\ Top(t).todo = <<>>
    /\ LET done == Top(t).done
           lib == done[1].lib
           root == LinkedRoots(done)
           refs(r) == Cardinality(CrossReferences(done, root, r))
                      + (IF r = root[lib] THEN 1 ELSE 0)
       IN  /\ si' = [l \in Lib |->
                  [si[l] EXCEPT !.state = IF l \in Libs(done) THEN "linked" ELSE @,
                                !.root = root[l], !.refs = @ + refs(l)]]
           /\ Becomes(t, Constructing(<<lib>>) \o <<[op |-> "open", lib |-> lib]>> \o Rest(t))
    /\ UNCHANGED <<counter, handles, dtors, work>>

-----------------------------------------------------------------------------
\* A mutant of the next: a library is marked when its constructors have run.
CallConstructorsMarksLast(t) ==
    /\ In(t, "ctor")
    /\ LET todo == SelectSeq(Top(t).todo, LAMBDA l : ~si[l].built)
           l == Head(todo)
       IN  IF todo = <<>>
             THEN Becomes(t, Rest(t)) /\ UNCHANGED si
             ELSE /\ si' = [si EXCEPT ![l].built = (si[l].children = <<>>)]
                  /\ Becomes(t, Constructing(si[l].children) \o <<[op |-> "init", lib |-> l]>>
                                \o Constructing(todo) \o Rest(t))
    /\ UNCHANGED <<counter, handles, dtors, work>>

\* call_constructors, over a list: a library is marked, then come the
\* constructors of its children, its own, and those of the next in the list.
CallConstructors(t) ==
    /\ In(t, "ctor")
    /\ LET todo == SelectSeq(Top(t).todo, LAMBDA l : ~si[l].built)
           l == Head(todo)
       IN  IF todo = <<>>
             THEN Becomes(t, Rest(t)) /\ UNCHANGED si
             ELSE /\ si' = [si EXCEPT ![l].built = TRUE]
                  /\ Becomes(t, Constructing(si[l].children) \o <<[op |-> "init", lib |-> l]>>
                                \o Constructing(Tail(todo)) \o Rest(t))
    /\ UNCHANGED <<counter, handles, dtors, work>>

InitReturns(t) ==
    /\ In(t, "init")
    /\ Becomes(t, Rest(t))
    /\ UNCHANGED <<si, counter, handles, dtors, work>>

\* do_dlopen returns the handle.
DlopenReturns(t) ==
    /\ In(t, "open")
    /\ handles' = [handles EXCEPT ![Top(t).lib] = @ + 1]
    /\ Becomes(t, Rest(t))
    /\ UNCHANGED <<si, counter, dtors, work>>

-----------------------------------------------------------------------------
\* soinfo_unload of a linked library, after which t goes on with rest.
SoinfoUnload(t, l, rest) ==
    LET r == si[l].root
        n == si[r].refs - 1
    IN  /\ si' = [si EXCEPT ![r].refs = n]
        /\ Becomes(t, IF n > 0 \/ si[r].keep THEN rest ELSE <<Unload(r, TRUE)>> \o rest)

\* do_dlclose.
Dlclose(t, l) ==
    /\ InApp(t) /\ CanLock(t)
    /\ handles[l] > 0
    /\ handles' = [handles EXCEPT ![l] = @ - 1]
    /\ SoinfoUnload(t, l, stack[t])
    /\ UNCHANGED <<counter, dtors, work>>

\* A mutant of the next: a child joins whoever else needs it.
JoinsAnyway(f, l, c) ==
    c # l /\ c \notin Range(f.local) /\ ~(Linked(c) /\ si[c].root # f.root)

\* Another: the groups of the children are not looked at.
JoinsForeign(f, l, c) == c # l /\ c \notin Range(f.local) /\ Parents(c) \subseteq {l}

\* Whether soinfo_unload_impl unloads child c of l too, ...
Joins(f, l, c) ==
    /\ c # l /\ c \notin Range(f.local) /\ ~(Linked(c) /\ si[c].root # f.root)
    /\ Parents(c) \subseteq {l}

\* ... or drops a reference to the group of c when it is done.
External(f, l, c) ==
    c # l /\ c \notin Range(f.local) /\ Linked(c) /\ si[c].root # f.root

\* The loop of soinfo_unload_impl, for one library of unload_list.
UnloadNext(t) ==
    /\ In(t, "unload") /\ Top(t).todo # <<>>
    /\ LET f == Top(t)
           l == Head(f.todo)
           again == l \in Range(f.local)
           joins == SelectSeq(si[l].children, LAMBDA c : Joins(f, l, c))
           ext == SelectSeq(si[l].children, LAMBDA c : External(f, l, c))
       IN  /\ si' = [si EXCEPT ![l].children = <<>>]
           /\ Becomes(t, <<IF again THEN [f EXCEPT !.todo = Tail(@)]
                           ELSE [f EXCEPT !.todo = Tail(@) \o joins,
                                          !.local = Append(@, l), !.ext = @ \o ext]>> \o Rest(t))
    /\ UNCHANGED <<counter, handles, dtors, work>>

\* The list is complete.  call_destructors has work for libraries that have
\* been constructed.
UnloadListed(t) ==
    /\ In(t, "unload") /\ Top(t).todo = <<>>
    /\ LET f == Top(t)
       IN  Becomes(t, <<[op |-> "fini", linked |-> f.linked, local |-> f.local, ext |-> f.ext,
                         todo |-> SelectSeq(f.local, LAMBDA l : si[l].built)]>> \o Rest(t))
    /\ UNCHANGED <<si, counter, handles, dtors, work>>

FiniReturns(t) ==
    /\ In(t, "fini") /\ Top(t).todo # <<>>
    /\ Becomes(t, <<[Top(t) EXCEPT !.todo = Tail(@)]>> \o Rest(t))
    /\ UNCHANGED <<si, counter, handles, dtors, work>>

\* soinfo_free of a set of libraries, with remove_all_links.
SoinfoFree(S) ==
    [l \in Lib |-> IF l \in S THEN Freed
                   ELSE [si[l] EXCEPT !.children = SelectSeq(@, LAMBDA c : c \notin S)]]

\* A mutant of the next: no external reference is dropped.
UnloadFreesOnly(t) ==
    /\ In(t, "fini") /\ Top(t).todo = <<>>
    /\ si' = SoinfoFree(Range(Top(t).local))
    /\ Becomes(t, Rest(t))
    /\ UNCHANGED <<counter, handles, dtors, work>>

\* The libraries are freed; then come the external references, if these were
\* ever counted.
UnloadFrees(t) ==
    /\ In(t, "fini") /\ Top(t).todo = <<>>
    /\ si' = SoinfoFree(Range(Top(t).local))
    /\ Becomes(t, (IF Top(t).linked THEN <<[op |-> "ext", todo |-> Top(t).ext]>> ELSE <<>>)
                  \o Rest(t))
    /\ UNCHANGED <<counter, handles, dtors, work>>

UnloadExternal(t) ==
    /\ In(t, "ext")
    /\ LET todo == Top(t).todo
       IN  IF todo = <<>>
             THEN Becomes(t, Rest(t)) /\ UNCHANGED si
             ELSE SoinfoUnload(t, Head(todo), <<[op |-> "ext", todo |-> Tail(todo)]>> \o Rest(t))
    /\ UNCHANGED <<counter, handles, dtors, work>>

-----------------------------------------------------------------------------
\* Code of l runs in t: by a handle that reaches it, in its constructor, or in
\* the destructor of one of its thread_locals.
Runs(t, l) ==
    \/ \E h \in Lib : handles[h] > 0 /\ l \in Reach[h]
    \/ (In(t, "init") \/ In(t, "dtor")) /\ Top(t).lib = l

\* __cxa_thread_atexit_impl and increment_dso_handle_reference_counter.
CxaThreadAtexit(t, l) ==
    /\ InApp(t) /\ CanLock(t) /\ Runs(t, l)
    /\ work < MaxWork /\ work' = work + 1
    /\ dtors' = [dtors EXCEPT ![t] = <<l>> \o @]
    /\ counter' = [counter EXCEPT ![l] = @ + 1]
    /\ si' = IF counter[l] = 0 THEN [si EXCEPT ![si[l].root].refs = @ + 1] ELSE si
    /\ UNCHANGED <<handles, stack>>

\* The thread exits; __cxa_thread_finalize takes the newest destructor.
Exit(t) ==
    /\ stack[t] = <<>>
    /\ Becomes(t, <<[op |-> "exit"]>>)
    /\ UNCHANGED <<si, counter, handles, dtors, work>>

CxaThreadFinalize(t) ==
    /\ In(t, "exit")
    /\ IF dtors[t] = <<>>
         THEN Becomes(t, <<[op |-> "gone"]>>) /\ UNCHANGED dtors
         ELSE /\ dtors' = [dtors EXCEPT ![t] = Tail(@)]
              /\ Becomes(t, <<[op |-> "dtor", lib |-> Head(dtors[t])]>> \o stack[t])
    /\ UNCHANGED <<si, counter, handles, work>>

\* It has run: decrement_dso_handle_reference_counter.
DtorReturns(t) ==
    /\ In(t, "dtor") /\ CanLock(t)
    /\ LET l == Top(t).lib
       IN  /\ counter' = [counter EXCEPT ![l] = @ - 1]
           /\ IF counter[l] = 1
                THEN SoinfoUnload(t, l, Rest(t))
                ELSE Becomes(t, Rest(t)) /\ UNCHANGED si
    /\ UNCHANGED <<handles, dtors, work>>

-----------------------------------------------------------------------------
Inside(t) ==
    \/ FindLibrary(t) \/ FindFails(t) \/ LinkLibraries(t)
    \/ CallConstructors(t) \/ InitReturns(t) \/ DlopenReturns(t)
    \/ UnloadNext(t) \/ UnloadListed(t) \/ FiniReturns(t)
    \/ UnloadFrees(t) \/ UnloadExternal(t)
    \/ CxaThreadFinalize(t) \/ DtorReturns(t)

Next ==
    \E t \in Thread :
        \/ Inside(t) \/ Exit(t)
        \/ \E l \in Opened : \/ \E nodelete \in {FALSE, (l \in NoDelete)} : Dlopen(t, l, nodelete)
                             \/ Dlclose(t, l)
        \/ \E l \in ThreadLocals : CxaThreadAtexit(t, l)

Spec == Init /\ [][Next]_vars

\* Calls that have begun go on; constructors and destructors return.
FairSpec == Spec /\ \A t \in Thread : WF_vars(Inside(t))

-----------------------------------------------------------------------------
Frames == UNION {{t} \X DOMAIN stack[t] : t \in Thread}

Frame(x) == stack[x[1]][x[2]]

\* What refers to the group of root r: handles, dlopens that have not returned,
\* libraries with thread_local destructors, and dependencies of other groups,
\* the ones an unload has yet to drop included.
References(r) ==
    LET of(l) == si[l].root = r
        opens == {x \in Frames : Frame(x).op = "open" /\ of(Frame(x).lib)}
        owed(f) == IF f.op = "ext" THEN f.todo
                   ELSE IF f.op \in {"unload", "fini"} /\ f.linked THEN f.ext ELSE <<>>
    IN    Cardinality({x \in Lib \X (1 .. MaxWork) : of(x[1]) /\ x[2] <= handles[x[1]]})
        + Cardinality(opens)
        + Cardinality({l \in Lib : of(l) /\ counter[l] > 0})
        + Cardinality({e \in Lib \X Lib : /\ Linked(e[1]) /\ si[e[1]].root # r
                                          /\ e[2] \in Range(si[e[1]].children) /\ of(e[2])})
        + Cardinality({y \in Frames \X (1 .. Cardinality(Lib)) :
                         y[2] <= Len(owed(Frame(y[1]))) /\ of(owed(Frame(y[1]))[y[2]])})

\* The count of a group is what refers to it, at every step of every dlopen,
\* dlclose and thread exit: increments (find_libraries, find_library, thread
\* destructors) and decrements (soinfo_unload) pair up.
RefsExact == \A r \in Lib : Linked(r) /\ si[r].root = r => si[r].refs = References(r)

\* Whenever no thread is in the linker, a library that is loaded is linked, in a
\* group that is loaded, and something refers to that group or it is NODELETE:
\* dlclose and a dlopen that fails leave nothing behind.
Reclaimed ==
    (\A t \in Thread : Outside(t)) =>
        \A l \in Lib : si[l].state # "freed" =>
            /\ Linked(l) /\ Linked(si[l].root)
            /\ si[si[l].root].refs > 0 \/ si[si[l].root].keep

\* dlclose runs the destructors of a library before those of the libraries that
\* it needs, and of none that a library that stays needs.
UsersFirst ==
    \A x \in Frames : Frame(x).op = "fini" /\ Frame(x).linked =>
        LET local == Frame(x).local
        IN  \A i \in DOMAIN local, p \in Lib :
                Linked(p) /\ local[i] \in Range(Needed[p]) => \E j \in 1 .. i - 1 : local[j] = p

\* A constructor runs after constructors_called is set for all that its library
\* needs, and outside the linker every linked library has been constructed.
Constructed ==
    /\ \A t \in Thread : In(t, "init") => \A l \in Reach[Top(t).lib] : si[l].built
    /\ (\A t \in Thread : Outside(t)) => \A l \in Lib : Linked(l) => si[l].built

Held == [l \in Lib |->
      handles[l]
    + Cardinality({x \in Frames : Frame(x).op \in {"open", "dtor"} /\ Frame(x).lib = l})
    + Cardinality({x \in Thread \X (1 .. MaxWork) :
                     x[2] <= Len(dtors[x[1]]) /\ dtors[x[1]][x[2]] = l})]

Loader == INSTANCE AbstractLoader WITH
    held <- Held, mapped <- {l \in Lib : Linked(l)} \ Doomed

\* What is held by handles or thread_local destructors stays mapped with all it
\* needs; a dlopen that fails changes nothing that a holder could see.
ImplementsLoader == Loader!Spec
=============================================================================
