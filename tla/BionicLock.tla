----------------------------- MODULE BionicLock -----------------------------
(* The class Lock of libc/private/bionic_lock.h: a three-valued futex lock.  *)
(* Every atomic access is one step.  A thread sleeping in FUTEX_WAIT is one  *)
(* whose pc is "asleep"; the kernel compares the futex word and enqueues the *)
(* caller atomically, and may return from the wait for no reason (a signal). *)
CONSTANT Thread

VARIABLES state,    \* _Atomic(LockState) state
          pc        \* where each thread is in lock() and unlock()

vars == <<state, pc>>

LockState == {"Unlocked", "LockedWithoutWaiter", "LockedWithWaiter"}

Location == {"outside", "swap", "wait", "asleep", "critical", "wake"}

Goto(t, l) == pc' = [pc EXCEPT ![t] = l]

Asleep == {t \in Thread : pc[t] = "asleep"}

Init == state = "Unlocked" /\ pc = [t \in Thread |-> "outside"]

-----------------------------------------------------------------------------
\* trylock(): a strong compare-and-exchange; a failure leaves no trace.
TryLock(t) ==
    /\ pc[t] = "outside"
    /\ state = "Unlocked"
    /\ state' = "LockedWithoutWaiter"
    /\ Goto(t, "critical")

\* The fast path of lock() failed: the caller enters the loop.
LockContended(t) ==
    /\ pc[t] = "outside"
    /\ state # "Unlocked"
    /\ Goto(t, "swap")
    /\ UNCHANGED state

\* A mutant of lock(): only a contended lock is taken for a held one.
LockSwapBarges(t) ==
    /\ pc[t] = "swap"
    /\ state' = "LockedWithWaiter"
    /\ Goto(t, IF state = "LockedWithWaiter" THEN "wait" ELSE "critical")

\* The loop condition of lock(): exchange in LockedWithWaiter.
LockSwap(t) ==
    /\ pc[t] = "swap"
    /\ state' = "LockedWithWaiter"
    /\ Goto(t, IF state = "Unlocked" THEN "critical" ELSE "wait")

\* FUTEX_WAIT: sleep if the word still is LockedWithWaiter, else EAGAIN.
FutexWait(t) ==
    /\ pc[t] = "wait"
    /\ Goto(t, IF state = "LockedWithWaiter" THEN "asleep" ELSE "swap")
    /\ UNCHANGED state

\* FUTEX_WAIT returns without a wake: EINTR or a stray wake of a reused word.
SpuriousReturn(t) ==
    /\ pc[t] = "asleep"
    /\ Goto(t, "swap")
    /\ UNCHANGED state

\* A mutant of unlock(): the wake is decided by the wrong old value.
UnlockNoWake(t) ==
    /\ pc[t] = "critical"
    /\ state' = "Unlocked"
    /\ Goto(t, IF state = "LockedWithoutWaiter" THEN "wake" ELSE "outside")

\* unlock(): exchange in Unlocked; wake one sleeper if there may be one.
Unlock(t) ==
    /\ pc[t] = "critical"
    /\ state' = "Unlocked"
    /\ Goto(t, IF state = "LockedWithWaiter" THEN "wake" ELSE "outside")

\* FUTEX_WAKE of one: the kernel picks any sleeper, or none if there is none.
FutexWake(t) ==
    /\ pc[t] = "wake"
    /\ \/ Asleep = {} /\ Goto(t, "outside")
       \/ \E u \in Asleep : pc' = [pc EXCEPT ![t] = "outside", ![u] = "swap"]
    /\ UNCHANGED state

Step(t) == \/ TryLock(t) \/ LockContended(t) \/ LockSwap(t) \/ FutexWait(t)
           \/ Unlock(t) \/ FutexWake(t)

Next == \E t \in Thread : Step(t) \/ SpuriousReturn(t)

Spec == Init /\ [][Next]_vars

\* A thread inside lock() or unlock() keeps running and critical sections end;
\* nothing makes a thread call lock(), and spurious returns are never promised.
Inside(t) == LockSwap(t) \/ FutexWait(t) \/ Unlock(t) \/ FutexWake(t)

FairSpec == Spec /\ \A t \in Thread : WF_vars(Inside(t))
-----------------------------------------------------------------------------
TypeOK == state \in LockState /\ pc \in [Thread -> Location]

\* Lock: two threads are never both between lock() and unlock().
MutualExclusion ==
    \A t, u \in Thread : pc[t] = "critical" /\ pc[u] = "critical" => t = u

\* The state word is Unlocked exactly while nobody is in the critical section.
WordTellsHolder ==
    (state = "Unlocked") <=> (\A t \in Thread : pc[t] # "critical")

\* No lost wakeup: while a thread sleeps in lock(), either the word tells the
\* holder's unlock() to wake somebody, or a wake or a retry is on its way.
NoLostWakeup ==
    Asleep # {} => \/ state = "LockedWithWaiter"
                   \/ \E t \in Thread : pc[t] \in {"wake", "swap"}

\* Lock implements the abstract lock held by the threads in critical sections.
Abstract == INSTANCE AbstractLock
                WITH holders <- {t \in Thread : pc[t] = "critical"}

\* Acquisitions and releases happen one at a time, as AbstractLock allows.
ImplementsAbstractLock == Abstract!Spec
=============================================================================
