---------------------------- MODULE PthreadMutex ----------------------------
(* Non-PI mutexes of libc/bionic/pthread_mutex.cpp: normal, recursive and    *)
(* errorcheck, with their blocking, timed and try operations, unlock,        *)
(* destroy and re-initialisation.  Each atomic access to the 16-bit state or *)
(* to owner_tid is one step, except where only the caller can change what it *)
(* reads.  A thread in FUTEX_WAIT has pc "asleep".                           *)
EXTENDS Naturals

CONSTANTS Thread, NoThread,
          Variants,     \* the types and builds (LP64 or not) looked at
          MaxCounter    \* largest value of the counter field (11 bits)

ASSUME MutexAssumption ==
    /\ NoThread \notin Thread
    /\ Variants \subseteq {"normal", "recursive", "errorcheck"} \X BOOLEAN
    /\ MaxCounter \in Nat

VARIABLES type,         \* the type field of mutex->state
          LP64,         \* 64-bit build: owner_tid is outside the futex word
          state,        \* the lock and counter fields of mutex->state
          owner_tid,    \* mutex->owner_tid, NoThread for 0
          call,         \* the call each thread is in: where, which, its locals
          depth         \* successful locks minus unlocks of each thread

vars == <<type, LP64, state, owner_tid, call, depth>>

Normal == type = "normal"

Word(l, c) == [lock |-> l, counter |-> c]
Unlocked    == Word("unlocked", 0)
Uncontended == Word("uncontended", 0)
Contended   == Word("contended", 0)
Destroyed   == Word("destroyed", MaxCounter)     \* 0xffff

LockBits == {"unlocked", "uncontended", "contended", "destroyed"}
States == [lock : LockBits, counter : 0 .. MaxCounter]

Ops == {"lock", "timedlock", "trylock", "unlock"}

Location == {"idle", "try", "retry", "swap", "loadOwner", "wait", "asleep",
             "owner", "fast", "loop", "reload", "storeOwner",
             "release", "wake"}

\* A call's locals: old_state, and the owner_tid read for the futex value.
Calls == [pc : Location, op : Ops \cup {"none"}, old : States,
          oldOwner : Thread \cup {NoThread}]

Idle == [pc |-> "idle", op |-> "none", old |-> Unlocked, oldOwner |-> NoThread]

Goto(t, l) == call' = [call EXCEPT ![t].pc = l]

GotoWith(t, l, s) == call' = [call EXCEPT ![t].pc = l, ![t].old = s]

\* Goto where the locals are not used any more.
GotoDone(t, l) == call' = [call EXCEPT ![t] = [Idle EXCEPT !.pc = l, !.op = call[t].op]]

Return(t) == call' = [call EXCEPT ![t] = Idle]

Holders == {t \in Thread : depth[t] > 0}

Asleep == {t \in Thread : call[t].pc = "asleep"}

\* pthread_mutex_init and PTHREAD_MUTEX_INITIALIZER.
Init ==
    /\ \E v \in Variants : type = v[1] /\ LP64 = v[2]
    /\ state = Unlocked
    /\ owner_tid = NoThread
    /\ call = [t \in Thread |-> Idle]
    /\ depth = [t \in Thread |-> 0]

-----------------------------------------------------------------------------
(* What POSIX leaves undefined for a normal mutex is not asked of it: the    *)
(* holder does not block on it again and only the holder unlocks it.         *)
Permitted(t, o) ==
    Normal => IF o = "unlock" THEN depth[t] > 0 ELSE depth[t] = 0 \/ o = "trylock"

\* The first load of state in every operation: dispatch on the type; on a
\* destroyed mutex the call returns EBUSY and changes nothing.
Begin(t, o) ==
    /\ call[t].pc = "idle" /\ Permitted(t, o) /\ state # Destroyed
    /\ call' = [call EXCEPT ![t].op = o, ![t].old = IF Normal THEN @ ELSE state,
                            ![t].pc = IF ~Normal THEN "owner"
                                      ELSE IF o = "unlock" THEN "release" ELSE "try"]
    /\ UNCHANGED <<state, owner_tid, depth>>

Lock(t) == Begin(t, "lock")
TimedLock(t) == Begin(t, "timedlock")
TryLock(t) == Begin(t, "trylock")
Unlock(t) == Begin(t, "unlock")

\* NormalMutexTryLock: compare-and-exchange unlocked to locked_uncontended.
NormalMutexTryLock(t) ==
    /\ call[t].pc \in {"try", "retry"} /\ state = Unlocked
    /\ state' = Uncontended
    /\ depth' = [depth EXCEPT ![t] = 1]
    /\ Return(t)
    /\ UNCHANGED owner_tid

\* ... and its failure.  lock and timedlock call it, then NormalMutexLock does
\* again before check_timespec, which may refuse the timeout of a timed call.
NormalMutexTryLockBusy(t) ==
    /\ call[t].pc \in {"try", "retry"} /\ state # Unlocked
    /\ \/ call[t].op # "trylock" /\ Goto(t, IF call[t].pc = "try" THEN "retry" ELSE "swap")
       \/ call[t].op = "trylock" /\ Return(t)
       \/ call[t].op = "timedlock" /\ call[t].pc = "retry" /\ Return(t)
    /\ UNCHANGED <<state, owner_tid, depth>>

\* A mutant of NormalMutexLock: only locked_contended counts as held.
NormalMutexSwapBarges(t) ==
    /\ call[t].pc = "swap"
    /\ state' = Contended
    /\ \/ /\ state # Contended
          /\ depth' = [depth EXCEPT ![t] = 1]
          /\ Return(t)
       \/ /\ state = Contended
          /\ GotoWith(t, "wait", Contended)
          /\ UNCHANGED depth
    /\ UNCHANGED owner_tid

\* The loop of NormalMutexLock: exchange in locked_contended.
NormalMutexSwap(t) ==
    /\ call[t].pc = "swap"
    /\ state' = Contended
    /\ \/ /\ state = Unlocked
          /\ depth' = [depth EXCEPT ![t] = 1]
          /\ Return(t)
       \/ /\ state # Unlocked
          /\ GotoWith(t, "wait", Contended)
          /\ UNCHANGED depth
    /\ UNCHANGED owner_tid

\* The owner test of MutexLockWithTimeout and trylock.  The owner gets EDEADLK
\* or EBUSY from an errorcheck mutex, and RecursiveIncrement from a recursive
\* one, which refuses (EAGAIN) on the counter of the old state.
LockCheckOwner(t) ==
    /\ call[t].pc = "owner" /\ call[t].op # "unlock"
    /\ \/ /\ owner_tid # t
          /\ Goto(t, "fast")
          /\ UNCHANGED <<state, depth>>
       \/ /\ owner_tid = t
          /\ type = "errorcheck" \/ call[t].old.counter = MaxCounter
          /\ Return(t)
          /\ UNCHANGED <<state, depth>>
       \/ /\ owner_tid = t
          /\ type = "recursive" /\ call[t].old.counter # MaxCounter
          /\ state' = [state EXCEPT !.counter = @ + 1]
          /\ depth' = [depth EXCEPT ![t] = @ + 1]
          /\ Return(t)
    /\ UNCHANGED owner_tid

\* The optimistic compare-and-exchange of MutexLockWithTimeout, skipped when
\* the loaded state was not unlocked.
LockFast(t) ==
    /\ call[t].pc = "fast" /\ call[t].op # "trylock"
    /\ \/ /\ call[t].old = Unlocked /\ state = Unlocked
          /\ state' = Uncontended
          /\ depth' = [depth EXCEPT ![t] = 1]
          /\ GotoDone(t, "storeOwner")
       \/ /\ call[t].old = Unlocked /\ state # Unlocked
          /\ GotoWith(t, "loop", state)
          /\ UNCHANGED <<state, depth>>
       \/ /\ call[t].old # Unlocked
          /\ Goto(t, "loop")
          /\ UNCHANGED <<state, depth>>
    /\ UNCHANGED owner_tid

\* The single compare-and-exchange of trylock on a mutex with an owner.
TryLockExchange(t) ==
    /\ call[t].pc = "fast" /\ call[t].op = "trylock"
    /\ \/ /\ state = Unlocked
          /\ state' = Uncontended
          /\ depth' = [depth EXCEPT ![t] = 1]
          /\ GotoDone(t, "storeOwner")
       \/ /\ state # Unlocked
          /\ Return(t)
          /\ UNCHANGED <<state, depth>>
    /\ UNCHANGED owner_tid

\* A mutant of the acquiring paths: owner_tid is never stored.
StoreOwnerMissing(t) ==
    /\ call[t].pc = "storeOwner"
    /\ Return(t)
    /\ UNCHANGED <<state, owner_tid, depth>>

\* atomic_store(&mutex->owner_tid, tid) after the state was acquired.
StoreOwner(t) ==
    /\ call[t].pc = "storeOwner"
    /\ owner_tid' = t
    /\ Return(t)
    /\ UNCHANGED <<state, depth>>

\* Where the loop goes to sleep: LP32 first reads owner_tid.
ToWait == IF LP64 THEN "wait" ELSE "loadOwner"

\* A mutant of the flip: the counter bits are lost.
FlipDropsCounter(s) == Contended

\* MUTEX_STATE_BITS_FLIP_CONTENTION: only the lock bits change.
FlipContention(s) == [s EXCEPT !.lock = "contended"]

\* The while loop of MutexLockWithTimeout up to the wait: acquire an unlocked
\* mutex as contended, flip an uncontended one, reload after a failed exchange,
\* or go on to wait.
LockLoop(t) ==
    /\ call[t].pc = "loop"
    /\ LET old == call[t].old
       IN \/ /\ old = Unlocked /\ state = old
             /\ state' = Contended
             /\ depth' = [depth EXCEPT ![t] = 1]
             /\ GotoDone(t, "storeOwner")
          \/ /\ old.lock = "uncontended" /\ state = old
             /\ state' = FlipContention(old)
             /\ GotoWith(t, ToWait, FlipContention(old))
             /\ UNCHANGED depth
          \/ /\ old.lock \in {"unlocked", "uncontended"} /\ state # old
             /\ GotoWith(t, "loop", state)
             /\ UNCHANGED <<state, depth>>
          \/ /\ old.lock = "contended"
             /\ Goto(t, ToWait)
             /\ UNCHANGED <<state, depth>>
    /\ UNCHANGED owner_tid

\* RecursiveOrErrorcheckMutexWait on LP32: owner_tid joins the futex value.
LoadOwner(t) ==
    /\ call[t].pc = "loadOwner"
    /\ call' = [call EXCEPT ![t].pc = "wait", ![t].oldOwner = owner_tid]
    /\ UNCHANGED <<state, owner_tid, depth>>

\* The kernel's comparison in FUTEX_WAIT: the 32-bit word at &mutex->state
\* holds padding beside state on LP64 and owner_tid on LP32.
FutexWordIsOld(t) ==
    state = call[t].old /\ (LP64 \/ Normal \/ owner_tid = call[t].oldOwner)

\* Where a wait that did not time out returns to.
Woken == IF Normal THEN "swap" ELSE "reload"

\* FUTEX_WAIT: sleep while the word has the old value, else EAGAIN.
FutexWait(t) ==
    /\ call[t].pc = "wait"
    /\ GotoDone(t, IF FutexWordIsOld(t) THEN "asleep" ELSE Woken)
    /\ UNCHANGED <<state, owner_tid, depth>>

\* FUTEX_WAIT returns without a wake.
SpuriousReturn(t) ==
    /\ call[t].pc = "asleep"
    /\ Goto(t, Woken)
    /\ UNCHANGED <<state, owner_tid, depth>>

\* check_timespec or FUTEX_WAIT ends a timed call; state stays as it is.
TimeOut(t) ==
    /\ call[t].pc \in {"wait", "asleep"} /\ call[t].op = "timedlock"
    /\ Return(t)
    /\ UNCHANGED <<state, owner_tid, depth>>

\* The load that ends an iteration of MutexLockWithTimeout.
Reload(t) ==
    /\ call[t].pc = "reload"
    /\ GotoWith(t, "loop", state)
    /\ UNCHANGED <<state, owner_tid, depth>>

\* A mutant of unlock: owner_tid is left behind.
UnlockKeepsOwner(t) ==
    /\ call[t].pc = "owner" /\ call[t].op = "unlock"
    /\ \/ /\ owner_tid # t
          /\ Return(t)
          /\ UNCHANGED <<state, depth>>
       \/ /\ owner_tid = t /\ call[t].old.counter = 0
          /\ GotoDone(t, "release")
          /\ UNCHANGED <<state, depth>>
    /\ UNCHANGED owner_tid

\* A mutant of unlock: no owner test on a recursive mutex.
UnlockByAnyone(t) ==
    /\ call[t].pc = "owner" /\ call[t].op = "unlock"
    /\ owner_tid' = NoThread
    /\ GotoDone(t, "release")
    /\ UNCHANGED <<state, depth>>

\* pthread_mutex_unlock on a recursive or errorcheck mutex: EPERM for others,
\* one level less, or owner_tid is cleared ahead of the release.
UnlockCheckOwner(t) ==
    /\ call[t].pc = "owner" /\ call[t].op = "unlock"
    /\ \/ /\ owner_tid # t
          /\ Return(t)
          /\ UNCHANGED <<state, owner_tid, depth>>
       \/ /\ owner_tid = t /\ call[t].old.counter # 0
          /\ state' = [state EXCEPT !.counter = @ - 1]
          /\ depth' = [depth EXCEPT ![t] = @ - 1]
          /\ Return(t)
          /\ UNCHANGED owner_tid
       \/ /\ owner_tid = t /\ call[t].old.counter = 0
          /\ owner_tid' = NoThread
          /\ GotoDone(t, "release")
          /\ UNCHANGED <<state, depth>>

\* A mutant of unlock: a store in place of the exchange, so nobody is woken.
UnlockReleaseStore(t) ==
    /\ call[t].pc = "release"
    /\ state' = Unlocked
    /\ depth' = [depth EXCEPT ![t] = 0]
    /\ Return(t)
    /\ UNCHANGED owner_tid

\* The exchange that releases a mutex of any type.
UnlockRelease(t) ==
    /\ call[t].pc = "release"
    /\ state' = Unlocked
    /\ depth' = [depth EXCEPT ![t] = 0]
    /\ \/ state.lock = "contended" /\ GotoDone(t, "wake")
       \/ state.lock # "contended" /\ Return(t)
    /\ UNCHANGED owner_tid

\* FUTEX_WAKE of one sleeper, if there is one.
FutexWake(t) ==
    /\ call[t].pc = "wake"
    /\ \/ Asleep = {} /\ Return(t)
       \/ \E u \in Asleep : call' = [call EXCEPT ![t] = Idle, ![u].pc = Woken]
    /\ UNCHANGED <<state, owner_tid, depth>>

\* pthread_mutex_destroy succeeds on an unlocked mutex only.  No other thread
\* is inside a call, but the wake of an earlier unlock may still be due.
Destroy ==
    /\ state = Unlocked
    /\ \A t \in Thread : call[t].pc \in {"idle", "wake"}
    /\ state' = Destroyed
    /\ UNCHANGED <<owner_tid, call, depth>>

\* pthread_mutex_init on the memory of a destroyed mutex.
Reinit ==
    /\ state = Destroyed
    /\ state' = Unlocked
    /\ owner_tid' = NoThread
    /\ UNCHANGED <<call, depth>>

\* The steps of a thread inside a call that nothing can hold up.
Inside(t) ==
    \/ NormalMutexTryLock(t) \/ NormalMutexTryLockBusy(t) \/ NormalMutexSwap(t)
    \/ LockCheckOwner(t) \/ LockFast(t) \/ TryLockExchange(t) \/ StoreOwner(t) \/ LockLoop(t)
    \/ LoadOwner(t) \/ FutexWait(t) \/ Reload(t)
    \/ UnlockCheckOwner(t) \/ UnlockRelease(t) \/ FutexWake(t)

Step ==
    \/ \E t \in Thread :
         \/ Lock(t) \/ TimedLock(t) \/ TryLock(t) \/ Unlock(t)
         \/ Inside(t) \/ SpuriousReturn(t) \/ TimeOut(t)
    \/ Destroy
    \/ Reinit

Next == Step /\ UNCHANGED <<type, LP64>>

Spec == Init /\ [][Next]_vars

\* A thread inside a call keeps running; nothing makes it start another call,
\* and a wait need not end for any reason but a wake.
FairSpec == Spec /\ \A t \in Thread : WF_vars(Inside(t) /\ UNCHANGED <<type, LP64>>)
-----------------------------------------------------------------------------
TypeOK ==
    /\ <<type, LP64>> \in Variants
    /\ state \in States
    /\ owner_tid \in Thread \cup {NoThread}
    /\ call \in [Thread -> Calls]
    /\ depth \in [Thread -> Nat]

\* All types: at most one thread holds the mutex, at whatever depth.
MutualExclusion == \A t, u \in Holders : t = u

\* Recursive: the counter field is the holder's depth less one, also while
\* waiters flip the lock bits under it, and zero when the mutex is free.
CounterIsDepth ==
    state # Destroyed =>
        /\ \A t \in Holders : state.counter = depth[t] - 1
        /\ Holders = {} => state.counter = 0

\* The relaxed read of owner_tid is safe: a thread finds its own id there only
\* while it holds the mutex.
OwnerHolds == \A t \in Thread : owner_tid = t => depth[t] > 0

\* Recursive and errorcheck mutexes never let the holder wait for itself.
NoSelfDeadlock ==
    ~Normal => \A t \in Holders : call[t].pc \notin {"swap", "loop", "loadOwner", "wait", "asleep", "reload"}

\* No lost wakeup: while a thread sleeps on the mutex, its state promises a
\* wake from the unlock to come, or a wake or a retry is already on its way,
\* and a timed-out waiter takes none of these with it.
NoLostWakeup ==
    Asleep # {} =>
        \/ state.lock = "contended"
        \/ \E t \in Thread : \/ call[t].pc \in {"wake", "swap", "reload"}
                             \/ call[t].pc = "loop" /\ call[t].old.lock # "contended"

\* A free mutex on which a thread sleeps in pthread_mutex_lock is acquired by
\* somebody in the end, without any new call.
SleepersProgress ==
    ((\E t \in Asleep : call[t].op = "lock") /\ Holders = {}) ~> (Holders # {})

Abstract == INSTANCE AbstractLock WITH holders <- Holders

\* A mutex of any type is, at its outermost level, an exclusive lock.
ImplementsAbstractLock == Abstract!Spec
=============================================================================
