--------------------------- MODULE ThreadLifecycle ---------------------------
(* The life of threads: pthread_create.cpp, pthread_exit.cpp,                *)
(* pthread_join.cpp, pthread_detach.cpp and pthread_internal.cpp.  A worker  *)
(* is identified by the address of its pthread_internal_t, which is part of  *)
(* its mapping; the address may be used again once it is unmapped.  Clients  *)
(* are the threads that create, join, detach and run a function on all       *)
(* workers.  g_thread_list_lock and g_thread_creation_lock are exclusive for *)
(* writers; a section under one of them is one step, except that             *)
(* pthread_create and android_run_on_all_threads hold theirs across steps.   *)
EXTENDS Naturals

CONSTANTS Worker, Client, NoClient, NoWorker,
          MaxRuns       \* bound on the calls of android_run_on_all_threads

ASSUME NobodyAssumption == NoWorker \notin Worker /\ NoClient \notin Client

VARIABLES mapped,       \* workers whose mapping exists
          g_thread_list,
          join_state,
          terminating,  \* the flag; signals are blocked from then on
          tid,          \* whether thread->tid is not 0: the worker is alive
          clear_tid,    \* whether the kernel is to clear thread->tid at exit
          where,        \* where each worker is
          detached,     \* old_state = THREAD_DETACHED in pthread_exit
          joinable,     \* workers the application may still join or detach
          client,       \* the call each client is in
          runner,       \* the client in android_run_on_all_threads
          runs,         \* calls of android_run_on_all_threads so far
          signalled     \* workers with the signal sent and not yet handled

threadVars == <<mapped, g_thread_list, join_state, terminating, tid, clear_tid, where,
                detached, joinable, client, runner, runs, signalled>>

JoinState == {"NOT_JOINED", "EXITED_NOT_JOINED", "JOINED", "DETACHED"}

Place == {"none", "handshake", "starting", "running", "terminate", "ending",
          "remove", "teardown", "kernel", "dead"}

ClientCalls ==
    [pc : {"idle", "creationLock", "clone", "init", "add", "release", "find",
           "join", "wait", "asleep", "free", "detach", "collect"},
     w : Worker \cup {NoWorker}]

NoCall == [pc |-> "idle", w |-> NoWorker]

ClientGoto(c, l) == client' = [client EXCEPT ![c].pc = l]

ClientReturn(c) == client' = [client EXCEPT ![c] = NoCall]

ThreadsInit ==
    /\ mapped = {} /\ g_thread_list = {} /\ joinable = {} /\ signalled = {}
    /\ join_state = [w \in Worker |-> "NOT_JOINED"]
    /\ terminating = [w \in Worker |-> FALSE]
    /\ tid = [w \in Worker |-> FALSE]
    /\ clear_tid = [w \in Worker |-> FALSE]
    /\ where = [w \in Worker |-> "none"]
    /\ detached = [w \in Worker |-> FALSE]
    /\ client = [c \in Client |-> NoCall]
    /\ runner = NoClient /\ runs = 0

-----------------------------------------------------------------------------
(* pthread_create *)

\* __allocate_thread maps the stack with the zeroed pthread_internal_t in it.
AllocateThread(c) ==
    /\ client[c].pc = "idle"
    /\ \E w \in Worker \ mapped :
         /\ mapped' = mapped \cup {w}
         /\ join_state' = [join_state EXCEPT ![w] = "NOT_JOINED"]
         /\ terminating' = [terminating EXCEPT ![w] = FALSE]
         /\ detached' = [detached EXCEPT ![w] = FALSE]
         /\ client' = [client EXCEPT ![c] = [pc |-> "creationLock", w |-> w]]
    /\ UNCHANGED <<g_thread_list, tid, clear_tid, where, joinable, runner, runs, signalled>>

\* ScopedReadLock on g_thread_creation_lock.
CreationLock(c) ==
    /\ client[c].pc = "creationLock" /\ runner = NoClient
    /\ ClientGoto(c, "clone")
    /\ UNCHANGED <<mapped, g_thread_list, join_state, terminating, tid, clear_tid,
                   where, detached, joinable, runner, runs, signalled>>

\* clone: the child waits for the handshake; on failure all is undone.
Clone(c) ==
    /\ client[c].pc = "clone"
    /\ LET w == client[c].w
       IN \/ /\ tid' = [tid EXCEPT ![w] = TRUE]
             /\ clear_tid' = [clear_tid EXCEPT ![w] = TRUE]
             /\ where' = [where EXCEPT ![w] = "handshake"]
             /\ ClientGoto(c, "init")
             /\ UNCHANGED mapped
          \/ /\ mapped' = mapped \ {w}
             /\ ClientReturn(c)
             /\ UNCHANGED <<tid, clear_tid, where>>
    /\ UNCHANGED <<g_thread_list, join_state, terminating, detached, joinable,
                   runner, runs, signalled>>

\* __init_thread sets join_state from the attributes; if it fails the thread
\* is detached, and the caller is told nothing of it.
InitThread(c) ==
    /\ client[c].pc = "init"
    /\ \E s \in {"NOT_JOINED", "DETACHED"} :
         /\ join_state' = [join_state EXCEPT ![client[c].w] = s]
         /\ joinable' = IF s = "NOT_JOINED" THEN joinable \cup {client[c].w} ELSE joinable
    /\ ClientGoto(c, "add")
    /\ UNCHANGED <<mapped, g_thread_list, terminating, tid, clear_tid, where,
                   detached, runner, runs, signalled>>

\* __pthread_internal_add.
InternalAdd(c) ==
    /\ client[c].pc = "add"
    /\ g_thread_list' = g_thread_list \cup {client[c].w}
    /\ ClientGoto(c, "release")
    /\ UNCHANGED <<mapped, join_state, terminating, tid, clear_tid, where,
                   detached, joinable, runner, runs, signalled>>

\* startup_handshake_lock.unlock, which touches no field after its exchange,
\* and the return, which drops the creation lock.
HandshakeRelease(c) ==
    /\ client[c].pc = "release"
    /\ where' = [where EXCEPT ![client[c].w] = "starting"]
    /\ ClientReturn(c)
    /\ UNCHANGED <<mapped, g_thread_list, join_state, terminating, tid, clear_tid,
                   detached, joinable, runner, runs, signalled>>

-----------------------------------------------------------------------------
(* The worker: __pthread_start and pthread_exit *)

\* A step of worker w that only moves it on.
Move(w, from, to) == where[w] = from /\ where' = [where EXCEPT ![w] = to]

\* Signals are unblocked and the start routine runs.
Start(w) ==
    /\ Move(w, "starting", "running")
    /\ UNCHANGED <<mapped, g_thread_list, join_state, terminating, tid, clear_tid,
                   detached, joinable, client, runner, runs, signalled>>

\* pthread_exit up to the exchange of join_state, whose old value decides who
\* frees the thread.
ExitJoinState(w) ==
    /\ Move(w, "running", "terminate")
    /\ detached' = [detached EXCEPT ![w] = join_state[w] = "DETACHED"]
    /\ join_state' = [join_state EXCEPT ![w] = IF @ = "NOT_JOINED" THEN "EXITED_NOT_JOINED" ELSE @]
    /\ UNCHANGED <<mapped, g_thread_list, terminating, tid, clear_tid,
                   joinable, client, runner, runs, signalled>>

\* A mutant: the flag is set and signals are blocked without the lock.
TerminateUnlocked(w) ==
    /\ Move(w, "terminate", "ending")
    /\ terminating' = [terminating EXCEPT ![w] = TRUE]
    /\ UNCHANGED <<mapped, g_thread_list, join_state, tid, clear_tid,
                   detached, joinable, client, runner, runs, signalled>>

\* Under the creation lock: terminating is set and signals are blocked.  A
\* signal sent before is handled before.
Terminate(w) ==
    /\ Move(w, "terminate", "ending")
    /\ runner = NoClient
    /\ terminating' = [terminating EXCEPT ![w] = TRUE]
    /\ UNCHANGED <<mapped, g_thread_list, join_state, tid, clear_tid,
                   detached, joinable, client, runner, runs, signalled>>

\* A mutant: the kernel is not told to leave thread->tid alone.
EndKeepsTidAddress(w) ==
    /\ Move(w, "ending", IF detached[w] THEN "remove" ELSE "kernel")
    /\ UNCHANGED <<mapped, g_thread_list, join_state, terminating, tid, clear_tid,
                   detached, joinable, client, runner, runs, signalled>>

\* A detached thread frees itself, and first takes its tid from the kernel.
End(w) ==
    /\ Move(w, "ending", IF detached[w] THEN "remove" ELSE "kernel")
    /\ clear_tid' = [clear_tid EXCEPT ![w] = @ /\ ~detached[w]]
    /\ UNCHANGED <<mapped, g_thread_list, join_state, terminating, tid,
                   detached, joinable, client, runner, runs, signalled>>

\* __pthread_internal_remove under the list lock.
ExitRemove(w) ==
    /\ Move(w, "remove", "teardown")
    /\ runner = NoClient
    /\ g_thread_list' = g_thread_list \ {w}
    /\ UNCHANGED <<mapped, join_state, terminating, tid, clear_tid,
                   detached, joinable, client, runner, runs, signalled>>

\* _exit_with_stack_teardown: after the munmap only the kernel's own exit is
\* left, which touches the thread if it still has the tid address.
StackTeardown(w) ==
    /\ Move(w, "teardown", IF clear_tid[w] THEN "kernel" ELSE "none")
    /\ mapped' = mapped \ {w}
    /\ tid' = [tid EXCEPT ![w] = FALSE]
    /\ UNCHANGED <<g_thread_list, join_state, terminating, clear_tid,
                   detached, joinable, client, runner, runs, signalled>>

\* The kernel ends a thread: it clears thread->tid and wakes a futex waiter.
KernelExit(w) ==
    /\ Move(w, "kernel", "dead")
    /\ tid' = [tid EXCEPT ![w] = FALSE]
    /\ clear_tid' = [clear_tid EXCEPT ![w] = FALSE]
    /\ client' = [c \in Client |-> IF client[c] = [pc |-> "asleep", w |-> w]
                                   THEN [client[c] EXCEPT !.pc = "wait"] ELSE client[c]]
    /\ UNCHANGED <<mapped, g_thread_list, join_state, terminating, detached,
                   joinable, runner, runs, signalled>>

-----------------------------------------------------------------------------
(* pthread_join and pthread_detach.  The application joins or detaches each  *)
(* joinable thread once, and not before pthread_create has returned.         *)

Claimable(w) == w \in joinable /\ \A c \in Client : client[c].w # w

PthreadJoin(c) ==
    /\ client[c].pc = "idle"
    /\ \E w \in Worker :
         /\ Claimable(w) /\ w \in g_thread_list     \* __pthread_internal_find
         /\ joinable' = joinable \ {w}
         /\ client' = [client EXCEPT ![c] = [pc |-> "join", w |-> w]]
    /\ UNCHANGED <<mapped, g_thread_list, join_state, terminating, tid, clear_tid,
                   where, detached, runner, runs, signalled>>

\* pthread_detach(pthread_self()): no lookup, and the thread has not exited.
SelfDetach(w) ==
    /\ where[w] = "running" /\ Claimable(w)
    /\ joinable' = joinable \ {w}
    /\ join_state' = [join_state EXCEPT ![w] = "DETACHED"]
    /\ UNCHANGED <<mapped, g_thread_list, terminating, tid, clear_tid, where,
                   detached, client, runner, runs, signalled>>

PthreadDetach(c) ==
    /\ client[c].pc = "idle"
    /\ \E w \in Worker :
         /\ Claimable(w) /\ w \in g_thread_list     \* __pthread_internal_find
         /\ joinable' = joinable \ {w}
         /\ client' = [client EXCEPT ![c] = [pc |-> "detach", w |-> w]]
    /\ UNCHANGED <<mapped, g_thread_list, join_state, terminating, tid, clear_tid,
                   where, detached, runner, runs, signalled>>

\* A mutant of pthread_detach: EINVAL for a thread that has exited.
DetachGivesUp(c) ==
    /\ client[c].pc = "detach"
    /\ join_state' = [join_state EXCEPT ![client[c].w] = IF @ = "NOT_JOINED" THEN "DETACHED" ELSE @]
    /\ ClientReturn(c)
    /\ UNCHANGED <<mapped, g_thread_list, terminating, tid, clear_tid, where,
                   detached, joinable, runner, runs, signalled>>

\* The exchange of pthread_detach: the thread will free itself, or it has gone
\* too far for that and is joined.
DetachExchange(c) ==
    /\ client[c].pc = "detach"
    /\ LET w == client[c].w
       IN \/ /\ join_state[w] = "NOT_JOINED"
             /\ join_state' = [join_state EXCEPT ![w] = "DETACHED"]
             /\ ClientReturn(c)
          \/ /\ join_state[w] = "EXITED_NOT_JOINED"
             /\ ClientGoto(c, "find")
             /\ UNCHANGED join_state
    /\ UNCHANGED <<mapped, g_thread_list, terminating, tid, clear_tid, where,
                   detached, joinable, runner, runs, signalled>>

\* The pthread_join of pthread_detach finds the thread again.
FindAgain(c) ==
    /\ client[c].pc = "find" /\ client[c].w \in g_thread_list
    /\ ClientGoto(c, "join")
    /\ UNCHANGED <<mapped, g_thread_list, join_state, terminating, tid, clear_tid,
                   where, detached, joinable, runner, runs, signalled>>

\* The exchange of pthread_join.  Its EINVAL is a second join, or a join of a
\* detached thread, which PthreadJoin does not make.
JoinExchange(c) ==
    /\ client[c].pc = "join" /\ join_state[client[c].w] \in {"NOT_JOINED", "EXITED_NOT_JOINED"}
    /\ join_state' = [join_state EXCEPT ![client[c].w] = "JOINED"]
    /\ ClientGoto(c, "wait")
    /\ UNCHANGED <<mapped, g_thread_list, terminating, tid, clear_tid, where,
                   detached, joinable, runner, runs, signalled>>

\* The loop on thread->tid; the futex compares it once more.
JoinWait(c) ==
    /\ client[c].pc = "wait"
    /\ ClientGoto(c, IF tid[client[c].w] THEN "asleep" ELSE "free")
    /\ UNCHANGED <<mapped, g_thread_list, join_state, terminating, tid, clear_tid,
                   where, detached, joinable, runner, runs, signalled>>

\* FUTEX_WAIT returns without the worker having ended.
JoinSpurious(c) ==
    /\ client[c].pc = "asleep"
    /\ ClientGoto(c, "wait")
    /\ UNCHANGED <<mapped, g_thread_list, join_state, terminating, tid, clear_tid,
                   where, detached, joinable, runner, runs, signalled>>

\* __pthread_internal_remove_and_free.
JoinFree(c) ==
    /\ client[c].pc = "free" /\ runner = NoClient
    /\ g_thread_list' = g_thread_list \ {client[c].w}
    /\ mapped' = mapped \ {client[c].w}
    /\ where' = [where EXCEPT ![client[c].w] = IF @ = "dead" THEN "none" ELSE @]
    /\ ClientReturn(c)
    /\ UNCHANGED <<join_state, terminating, tid, clear_tid, detached, joinable,
                   runner, runs, signalled>>

-----------------------------------------------------------------------------
(* android_run_on_all_threads *)

\* It takes both locks, and signals every thread that is not terminating.
\* (Clients are signalled as well; they handle it wherever they are.  A call that
\* fails before it signals leaves everything as it was.)
RunOnAllThreads(c) ==
    /\ client[c].pc = "idle" /\ runner = NoClient
    /\ \A d \in Client : client[d].pc \notin {"clone", "init", "add", "release"}
    /\ runs < MaxRuns /\ runs' = runs + 1
    /\ runner' = c
    /\ signalled' = {w \in g_thread_list : ~terminating[w]}
    /\ ClientGoto(c, "collect")
    /\ UNCHANGED <<mapped, g_thread_list, join_state, terminating, tid, clear_tid,
                   where, detached, joinable>>

\* The handler runs the function and posts the semaphore.
Handler(w) ==
    /\ w \in signalled /\ where[w] \in {"running", "terminate"}
    /\ signalled' = signalled \ {w}
    /\ UNCHANGED <<mapped, g_thread_list, join_state, terminating, tid, clear_tid,
                   where, detached, joinable, client, runner, runs>>

\* One sem_wait for each signal sent, then the locks are released.
RunCollect(c) ==
    /\ client[c].pc = "collect" /\ signalled = {}
    /\ runner' = NoClient
    /\ ClientReturn(c)
    /\ UNCHANGED <<mapped, g_thread_list, join_state, terminating, tid, clear_tid,
                   where, detached, joinable, runs, signalled>>

WorkerStep(w) ==
    \/ Start(w) \/ Terminate(w) \/ End(w) \/ ExitRemove(w)
    \/ StackTeardown(w) \/ KernelExit(w) \/ Handler(w)

ClientStep(c) ==
    \/ CreationLock(c) \/ Clone(c) \/ InitThread(c) \/ InternalAdd(c) \/ HandshakeRelease(c)
    \/ DetachExchange(c) \/ FindAgain(c) \/ JoinExchange(c) \/ JoinWait(c) \/ JoinFree(c)
    \/ RunCollect(c)

ThreadsNext ==
    \/ \E w \in Worker : WorkerStep(w) \/ ExitJoinState(w) \/ SelfDetach(w)
    \/ \E c \in Client :
         \/ AllocateThread(c) \/ PthreadJoin(c) \/ PthreadDetach(c) \/ RunOnAllThreads(c)
         \/ ClientStep(c) \/ JoinSpurious(c)

ThreadsSpec == ThreadsInit /\ [][ThreadsNext]_threadVars

-----------------------------------------------------------------------------
ThreadsTypeOK ==
    /\ mapped \subseteq Worker /\ g_thread_list \subseteq Worker
    /\ joinable \subseteq Worker /\ signalled \subseteq Worker
    /\ join_state \in [Worker -> JoinState]
    /\ terminating \in [Worker -> BOOLEAN] /\ tid \in [Worker -> BOOLEAN]
    /\ clear_tid \in [Worker -> BOOLEAN] /\ detached \in [Worker -> BOOLEAN]
    /\ where \in [Worker -> Place]
    /\ client \in [Client -> ClientCalls]
    /\ runner \in Client \cup {NoClient} /\ runs \in Nat

\* Nobody uses a pthread_internal_t that is unmapped: not the worker on its
\* stack, not the kernel clearing its tid, not a client inside a call, and
\* the thread list never holds one.
NoUseAfterFree ==
    /\ \A w \in Worker : where[w] # "none" => w \in mapped
    /\ \A c \in Client : client[c].w # NoWorker => client[c].w \in mapped
    /\ g_thread_list \subseteq mapped

\* A thread that was joined or detached does not stay mapped for ever once
\* its pthread_exit has begun: exactly one side takes on to free it.
Reclaimed ==
    \A w \in Worker : (where[w] = "terminate" /\ w \notin joinable) ~> (w \notin mapped)

\* android_run_on_all_threads comes back: no thread it signals can block or
\* end before it has handled the signal.
RunnerReturns ==
    \A c \in Client : (client[c].pc = "collect") ~> (client[c].pc = "idle")
==============================================================================
