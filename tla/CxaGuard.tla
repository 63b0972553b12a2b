------------------------------ MODULE CxaGuard ------------------------------
(* libc/bionic/__cxa_guard.cpp on one guard variable, driven as the code a   *)
(* compiler emits drives it: acquire; if that returns 1, the constructor;    *)
(* then release, or abort if the constructor threw.                          *)

CONSTANT Thread

VARIABLES state,     \* gv->state
          call,      \* where each thread is, and its old_value
          done,      \* whether the constructor has completed
          passed     \* threads that go on to use the object

vars == <<state, call, done, passed>>

States == {"NOT_YET_STARTED", "COMPLETE", "WITHOUT_WAITER", "WITH_WAITER"}

Calls == [pc : {"idle", "loop", "wait", "asleep", "reload",
                "construct", "release", "abort", "wakeDone", "wakeAborted"},
          old : States]

Idle == [pc |-> "idle", old |-> "NOT_YET_STARTED"]

Goto(t, l) == call' = [call EXCEPT ![t].pc = l]

Return(t) == call' = [call EXCEPT ![t] = Idle]

Pass(t) == passed' = passed \cup {t}

Asleep == {t \in Thread : call[t].pc = "asleep"}

Init ==
    /\ state = "NOT_YET_STARTED"
    /\ call = [t \in Thread |-> Idle]
    /\ done = FALSE
    /\ passed = {}

-----------------------------------------------------------------------------
\* The first load of __cxa_guard_acquire, and the one after a wait.
Load(t) ==
    /\ call' = [call EXCEPT ![t] = [pc |-> "loop", old |-> state]]
    /\ UNCHANGED <<state, done, passed>>

Acquire(t) == call[t].pc = "idle" /\ Load(t)

Reload(t) == call[t].pc = "reload" /\ Load(t)

\* The loop returns 0: the object is constructed.
LoopComplete(t) ==
    /\ call[t].pc = "loop" /\ call[t].old = "COMPLETE"
    /\ Return(t) /\ Pass(t)
    /\ UNCHANGED <<state, done>>

\* The loop claims the construction (and returns 1), or marks a waiter.
LoopExchange(t) ==
    /\ call[t].pc = "loop" /\ call[t].old \in {"NOT_YET_STARTED", "WITHOUT_WAITER"}
    /\ \/ /\ state = call[t].old /\ call[t].old = "NOT_YET_STARTED"
          /\ state' = "WITHOUT_WAITER"
          /\ Goto(t, "construct")
       \/ /\ state = call[t].old /\ call[t].old = "WITHOUT_WAITER"
          /\ state' = "WITH_WAITER"
          /\ Goto(t, "wait")
       \/ /\ state # call[t].old
          /\ call' = [call EXCEPT ![t].old = state]
          /\ UNCHANGED state
    /\ UNCHANGED <<done, passed>>

\* There is a waiter already: wait too.
LoopWait(t) ==
    /\ call[t].pc = "loop" /\ call[t].old = "WITH_WAITER"
    /\ Goto(t, "wait")
    /\ UNCHANGED <<state, done, passed>>

\* FUTEX_WAIT while the state is underway with waiters.
FutexWait(t) ==
    /\ call[t].pc = "wait"
    /\ Goto(t, IF state = "WITH_WAITER" THEN "asleep" ELSE "reload")
    /\ UNCHANGED <<state, done, passed>>

\* FUTEX_WAIT returns without a wake.
SpuriousReturn(t) ==
    /\ call[t].pc = "asleep"
    /\ Goto(t, "reload")
    /\ UNCHANGED <<state, done, passed>>

\* The constructor runs: it completes, or throws.
Construct(t) ==
    /\ call[t].pc = "construct"
    /\ \/ done' = TRUE /\ Goto(t, "release")
       \/ UNCHANGED done /\ Goto(t, "abort")
    /\ UNCHANGED <<state, passed>>

\* __cxa_guard_release: the exchange decides whether to wake.
Release(t) ==
    /\ call[t].pc = "release"
    /\ state' = "COMPLETE"
    /\ IF state = "WITH_WAITER"
         THEN Goto(t, "wakeDone") /\ UNCHANGED passed
         ELSE Return(t) /\ Pass(t)
    /\ UNCHANGED done

\* A mutant of __cxa_guard_abort: waiters are left to sleep.
AbortNoWake(t) ==
    /\ call[t].pc = "abort"
    /\ state' = "NOT_YET_STARTED"
    /\ Return(t)
    /\ UNCHANGED <<done, passed>>

\* A mutant of __cxa_guard_abort: the guard is marked complete.
AbortCompletes(t) ==
    /\ call[t].pc = "abort"
    /\ state' = "COMPLETE"
    /\ IF state = "WITH_WAITER" THEN Goto(t, "wakeAborted") ELSE Return(t)
    /\ UNCHANGED <<done, passed>>

\* __cxa_guard_abort: the construction may be tried again.
Abort(t) ==
    /\ call[t].pc = "abort"
    /\ state' = "NOT_YET_STARTED"
    /\ IF state = "WITH_WAITER" THEN Goto(t, "wakeAborted") ELSE Return(t)
    /\ UNCHANGED <<done, passed>>

\* FUTEX_WAKE of all waiters, after release or abort.
FutexWake(t) ==
    /\ call[t].pc \in {"wakeDone", "wakeAborted"}
    /\ call' = [u \in Thread |->
                  IF u = t THEN Idle
                  ELSE IF u \in Asleep THEN [call[u] EXCEPT !.pc = "reload"]
                  ELSE call[u]]
    /\ IF call[t].pc = "wakeDone" THEN Pass(t) ELSE UNCHANGED passed
    /\ UNCHANGED <<state, done>>

Inside(t) ==
    \/ LoopComplete(t) \/ LoopExchange(t) \/ LoopWait(t) \/ FutexWait(t) \/ Reload(t)
    \/ Construct(t) \/ Release(t) \/ Abort(t) \/ FutexWake(t)

Next == \E t \in Thread : Acquire(t) \/ Inside(t) \/ SpuriousReturn(t)

Spec == Init /\ [][Next]_vars

\* A thread inside a call, or in the constructor, keeps running; no wait need
\* end but by a wake.
FairSpec == Spec /\ \A t \in Thread : WF_vars(Inside(t))
-----------------------------------------------------------------------------
TypeOK ==
    /\ state \in States
    /\ call \in [Thread -> Calls]
    /\ done \in BOOLEAN
    /\ passed \in SUBSET Thread

\* Threads between winning the guard and the exchange that gives it up.
Builders == {t \in Thread : call[t].pc \in {"construct", "release", "abort"}}

\* While a thread sleeps on the guard, some thread holds it with the waiter
\* mark still on, or is about to wake everybody: an abort followed at once by
\* another thread's acquire does not orphan the earlier waiters.
NoLostWakeup ==
    Asleep # {} =>
        \/ state = "WITH_WAITER" /\ Builders # {}
        \/ \E t \in Thread : call[t].pc \in {"wakeDone", "wakeAborted"}

\* The threads running the constructor.
Runners == {t \in Thread : call[t].pc = "construct"}

Abstract == INSTANCE AbstractOnce WITH runners <- Runners

\* One thread at a time constructs, a failed construction may be repeated, a
\* completed one never is, and nobody uses the object before.
ImplementsOnce == Abstract!Spec
=============================================================================
