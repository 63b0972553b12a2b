------------------------------- MODULE Atexit -------------------------------
(* libc/bionic/atexit.cpp and exit.cpp: the array of callbacks, and the      *)
(* passes of __cxa_finalize over it, which let go of g_atexit_lock for each  *)
(* callback.  A section under that lock is one step.  Callbacks register,    *)
(* finalize, fork and exit.  __cxa_finalize ends in __unregister_atfork.     *)
EXTENDS Atfork

CONSTANT EntriesPerPage    \* how many entries fill a page of the array

ASSUME AtexitAssumption == EntriesPerPage \in Nat \ {0}

VARIABLES array,            \* entries, or None where one was extracted
          extracted_count, total_appends, call_depth,
          exited            \* the process is gone

atexitVars == <<array, extracted_count, total_appends, call_depth, exited>>

vars == <<atforkVars, stack, atexitVars>>

Init ==
    /\ AtforkInit
    /\ array = <<>>
    /\ extracted_count = 0 /\ total_appends = 0 /\ call_depth = 0
    /\ exited = FALSE

-----------------------------------------------------------------------------
\* AtexitArray::append_entry.  The id of an entry is the number of its append.
AppendEntry(dso) ==
    /\ total_appends' = total_appends + 1
    /\ array' = Append(array, [id |-> total_appends', dso |-> dso])

\* __cxa_atexit; an array that cannot grow changes nothing.
CxaAtexit(t, dso) ==
    /\ CanCall(t) /\ Work
    /\ AppendEntry(dso)
    /\ UNCHANGED <<g_atfork_list, g_atfork_list_mutex, child, stack,
                   extracted_count, call_depth, exited>>

\* AtexitArray::extract_entry.
ExtractEntry(i) ==
    /\ array' = [array EXCEPT ![i] = None]
    /\ extracted_count' = extracted_count + 1

\* page_end_of_index, in pages.
Pages(n) == (n + EntriesPerPage - 1) \div EntriesPerPage

\* A mutant of recompact: the order is lost.
RecompactReversing ==
    IF Pages(Len(array) - extracted_count) < Pages(Len(array))
      THEN /\ \E at \in Ascending(array, {i \in DOMAIN array : array[i] # None}) :
                 array' = [k \in DOMAIN at |-> array[at[Len(at) + 1 - k]]]
           /\ extracted_count' = 0
      ELSE UNCHANGED <<array, extracted_count>>

\* AtexitArray::recompact, when it saves a page.
Recompact ==
    IF Pages(Len(array) - extracted_count) < Pages(Len(array))
      THEN /\ \E at \in Ascending(array, {i \in DOMAIN array : array[i] # None}) :
                 array' = [k \in DOMAIN at |-> array[at[k]]]
           /\ extracted_count' = 0
      ELSE UNCHANGED <<array, extracted_count>>

\* The entries up to index i that a pass for dso calls.
Hits(dso, i) ==
    {j \in DOMAIN array : j <= i /\ array[j] # None /\ dso \in {NoDso, array[j].dso}}

\* Only the outermost pass recompacts, and not on program exit.
Recompacts(dso, depth) == depth = 0 /\ dso # NoDso

\* The loop of __cxa_finalize from index i down, with g_atexit_lock held: it
\* extracts the next entry and leaves to call it, or is through.
Scan(t, rest, dso, i, appends, depth) ==
    /\ \/ \E j \in Hits(dso, i) :
             /\ \A k \in Hits(dso, i) : k <= j
             /\ ExtractEntry(j)
             /\ call_depth' = depth
             /\ stack' = [stack EXCEPT ![t] = Append(rest,
                   [op |-> "callback", dso |-> dso, i |-> j, appends |-> appends])]
       \/ /\ Hits(dso, i) = {}
          /\ call_depth' = depth - 1
          /\ IF Recompacts(dso, depth - 1) THEN Recompact
             ELSE UNCHANGED <<array, extracted_count>>
          /\ stack' = [stack EXCEPT ![t] = Append(rest, [op |-> "passed", dso |-> dso])]
    /\ UNCHANGED <<g_atfork_list, g_atfork_list_mutex, child, total_appends, exited>>

\* __cxa_finalize(dso) for a library, in whose fork handler the thread is not,
\* and __cxa_finalize(nullptr), which exit() calls before _exit.
CxaFinalize(t, dso) ==
    /\ CanCall(t) /\ Work
    /\ \A i \in DOMAIN g_atfork_list :
          InFork(t) /\ ForkFrame(t).it = g_atfork_list[i].id => g_atfork_list[i].dso # dso
    /\ Scan(t, stack[t], dso, Len(array), total_appends, call_depth + 1)

\* A mutant: a pass goes on where it was, whatever was appended.
CallbackReturnsNoRestart(t) ==
    /\ In(t, "callback") /\ UNCHANGED work
    /\ LET f == Top(t)
       IN  Scan(t, Below(stack[t]), f.dso, f.i - 1, f.appends, call_depth)

\* The callback returns; a pass starts anew if anything was appended.
CallbackReturns(t) ==
    /\ In(t, "callback") /\ UNCHANGED work
    /\ LET f == Top(t)
       IN  IF total_appends # f.appends
             THEN Scan(t, Below(stack[t]), f.dso, Len(array), total_appends, call_depth)
             ELSE Scan(t, Below(stack[t]), f.dso, f.i - 1, f.appends, call_depth)

\* A mutant: the library's fork handlers stay.
FinalizeEndsNoUnregister(t) ==
    /\ In(t, "passed") /\ Top(t).dso # NoDso
    /\ Pop(t)
    /\ UNCHANGED <<atforkVars, atexitVars>>

\* __unregister_atfork, and return.
FinalizeEnds(t) ==
    /\ In(t, "passed") /\ Top(t).dso # NoDso
    /\ UnregisterAtfork(t, Top(t).dso)
    /\ Pop(t)
    /\ UNCHANGED atexitVars

\* __libc_stdio_cleanup and _exit: the process is gone.
Exit(t) ==
    /\ In(t, "passed") /\ Top(t).dso = NoDso
    /\ exited' = TRUE
    /\ stack' = [u \in Thread |-> <<>>] /\ call_depth' = 0
    /\ g_atfork_list' = <<>> /\ g_atfork_list_mutex' = Unlocked
    /\ UNCHANGED <<work, child, array, extracted_count, total_appends>>

Inside(t) ==
    /\ ~exited
    /\ \/ CallbackReturns(t) \/ FinalizeEnds(t) \/ Exit(t)
       \/ ForkSteps(t) /\ UNCHANGED atexitVars

Next ==
    \/ /\ ~exited
       /\ \E t \in Thread :
             \/ \E dso \in Dso \cup {NoDso} : CxaAtexit(t, dso) \/ CxaFinalize(t, dso)
             \/ \E dso \in Dso : RegisterAtfork(t, dso) /\ UNCHANGED atexitVars
             \/ Fork(t) /\ UNCHANGED atexitVars
             \/ Inside(t)
    \/ ChildSteps /\ UNCHANGED atexitVars

ExitSpec == Init /\ [][Next]_vars
-----------------------------------------------------------------------------
\* t's innermost frame becomes the end of a pass for dso.
PassEnds(t, dso) ==
    /\ stack'[t] # <<>> /\ stack'[t][Len(stack'[t])] = [op |-> "passed", dso |-> dso]
    /\ stack'[t] # stack[t]
    /\ Len(stack'[t]) >= Len(stack[t])

\* A pass ends only when nothing of its library is left in the array, however
\* many callbacks were appended, recursively finalized or removed by other
\* threads since it began.
PassComplete ==
    [][\A t \in Thread, dso \in Dso \cup {NoDso} :
          PassEnds(t, dso) => Hits(dso, Len(array))' = {}]_vars

\* When __cxa_finalize returns for a library, which may now be unmapped, no
\* fork handler of it is registered, and no other thread's fork is in one.
UnloadClean ==
    [][\A t \in Thread :
          In(t, "passed") /\ stack'[t] = Below(stack[t]) /\ ~exited' =>
              LET dso == Top(t).dso
              IN  /\ \A i \in DOMAIN g_atfork_list' : g_atfork_list'[i].dso # dso
                  /\ \A i \in DOMAIN g_atfork_list, u \in Forks :
                        ForkFrame(u).it = g_atfork_list[i].id => g_atfork_list[i].dso # dso]_vars

\* Every __cxa_finalize and every fork returns if the callbacks and handlers
\* do: passes that restart come to an end, and no thread is left waiting for
\* the mutex of the handlers.
CallsReturn == \A t \in Thread : (stack[t] # <<>>) ~> (stack[t] = <<>>)

\* The child of a fork gets through its handlers, although the mutex it has a
\* copy of is held by a thread that does not exist there.
ChildGetsOn == (child # None) ~> (child = None)

Abstract == INSTANCE AbstractExitHandlers
                WITH Dsos <- Dso \cup {NoDso},
                     registered <- total_appends,
                     pending <- {array[i] : i \in DOMAIN array} \ {None}

\* Every callback is called at most once, newest first.
ImplementsExitHandlers == Abstract!Spec
=============================================================================
