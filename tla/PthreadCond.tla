---------------------------- MODULE PthreadCond ----------------------------
(* libc/bionic/pthread_cond.cpp, used the way condition variables are used:  *)
(* consumers wait in a loop for an item under a mutex, producers add an item *)
(* under the mutex and signal or broadcast, before or after they release it. *)
(* The mutex is an exclusive lock, which is what PthreadMutex implements.    *)
EXTENDS Naturals, FiniteSets

CONSTANTS Thread, NoThread,
          WordBits,    \* width of cond->state (32), two bits of it flags
          MaxPulses    \* bound on the items produced, hence on the pulses: fewer
                       \* than would bring the counter round

\* The values of the counter, above the flags.
CounterMod == 2 ^ (WordBits - 2)

VARIABLES LP64,      \* 64-bit build: the waiters are counted
          counter,   \* the counter in cond->state, in units of COND_COUNTER_STEP
          waiters,   \* cond->waiters
          mutex,     \* the holder of the mutex
          items,     \* what the consumers wait for
          produced,  \* items produced so far
          call       \* the program each thread is in, with its locals

vars == <<LP64, counter, waiters, mutex, items, produced, call>>

Location == {"idle", "test", "count", "unlock", "wait", "asleep",
             "uncount", "relock", "leave", "produce", "pulse", "bump", "wake"}

(* A thread's locals: old_state; whether the wait has a timeout and whether  *)
(* it ended in ETIMEDOUT; for a producer, whether it broadcasts and whether  *)
(* it pulses under the mutex.                                                *)
Calls == [pc : Location, old : 0 .. CounterMod - 1, timed : BOOLEAN,
          expired : BOOLEAN, broadcast : BOOLEAN, underMutex : BOOLEAN]

Idle == [pc |-> "idle", old |-> 0, timed |-> FALSE,
         expired |-> FALSE, broadcast |-> FALSE, underMutex |-> FALSE]

Goto(t, l) == call' = [call EXCEPT ![t].pc = l]

Return(t) == call' = [call EXCEPT ![t] = Idle]

Asleep == {t \in Thread : call[t].pc = "asleep"}

\* pthread_cond_init, and an application that has not started.
Init ==
    /\ LP64 \in BOOLEAN
    /\ counter = 0 /\ waiters = 0
    /\ mutex = NoThread /\ items = 0 /\ produced = 0
    /\ call = [t \in Thread |-> Idle]

-----------------------------------------------------------------------------
\* A consumer takes the mutex ...
Consume(t) ==
    /\ call[t].pc = "idle" /\ mutex = NoThread
    /\ mutex' = t
    /\ Goto(t, "test")
    /\ UNCHANGED <<counter, waiters, items, produced>>

\* ... and takes an item, if there is one, and leaves.
TakeItem(t) ==
    /\ call[t].pc = "test" /\ items > 0
    /\ items' = items - 1
    /\ mutex' = NoThread
    /\ Return(t)
    /\ UNCHANGED <<counter, waiters, produced>>

\* Otherwise it waits: __pthread_cond_timedwait reads the state.
LoadState(t) ==
    /\ call[t].pc = "test" /\ items = 0
    /\ \E timed \in BOOLEAN :
         call' = [call EXCEPT ![t].pc = IF LP64 THEN "count" ELSE "unlock",
                              ![t].old = counter, ![t].timed = timed]
    /\ UNCHANGED <<counter, waiters, mutex, items, produced>>

\* A mutant: the waiter is counted only after it has released the mutex.
CountWaiterLate(t) ==
    /\ call[t].pc = "count"
    /\ IF mutex = t
         THEN mutex' = NoThread /\ UNCHANGED <<waiters, call>>
         ELSE waiters' = waiters + 1 /\ Goto(t, "wait") /\ UNCHANGED mutex
    /\ UNCHANGED <<counter, items, produced>>

\* LP64: the waiter is counted while it still holds the mutex.
CountWaiter(t) ==
    /\ call[t].pc = "count"
    /\ waiters' = waiters + 1
    /\ Goto(t, "unlock")
    /\ UNCHANGED <<counter, mutex, items, produced>>

\* pthread_mutex_unlock inside the wait.
UnlockInWait(t) ==
    /\ call[t].pc = "unlock"
    /\ mutex' = NoThread
    /\ Goto(t, "wait")
    /\ UNCHANGED <<counter, waiters, items, produced>>

AfterWait == IF LP64 THEN "uncount" ELSE "relock"

\* FUTEX_WAIT while the state is what it was.
FutexWait(t) ==
    /\ call[t].pc = "wait"
    /\ call' = [call EXCEPT ![t].pc = IF counter = call[t].old THEN "asleep" ELSE AfterWait,
                            ![t].old = 0]
    /\ UNCHANGED <<counter, waiters, mutex, items, produced>>

\* FUTEX_WAIT returns without a wake.
SpuriousReturn(t) ==
    /\ call[t].pc = "asleep"
    /\ Goto(t, AfterWait)
    /\ UNCHANGED <<counter, waiters, mutex, items, produced>>

\* The wait ends in ETIMEDOUT; FutexWithTimeout may say so without a wait.
TimeOut(t) ==
    /\ call[t].pc \in {"wait", "asleep"} /\ call[t].timed
    /\ call' = [call EXCEPT ![t].pc = AfterWait, ![t].expired = TRUE]
    /\ UNCHANGED <<counter, waiters, mutex, items, produced>>

\* A mutant: a timed-out waiter stays counted.
UncountWaiterUnlessExpired(t) ==
    /\ call[t].pc = "uncount"
    /\ waiters' = IF call[t].expired THEN waiters ELSE waiters - 1
    /\ Goto(t, "relock")
    /\ UNCHANGED <<counter, mutex, items, produced>>

UncountWaiter(t) ==
    /\ call[t].pc = "uncount"
    /\ waiters' = waiters - 1
    /\ Goto(t, "relock")
    /\ UNCHANGED <<counter, mutex, items, produced>>

\* pthread_mutex_lock ends the wait.  The consumer tests again, or gives up
\* at once if it was told ETIMEDOUT.
Relock(t) ==
    /\ call[t].pc = "relock" /\ mutex = NoThread
    /\ mutex' = t
    /\ IF call[t].expired THEN Goto(t, "leave")
                          ELSE call' = [call EXCEPT ![t] = [Idle EXCEPT !.pc = "test"]]
    /\ UNCHANGED <<counter, waiters, items, produced>>

\* The mutex is released by one who has nothing more to do.
Leave(t) ==
    /\ call[t].pc = "leave"
    /\ mutex' = NoThread
    /\ Return(t)
    /\ UNCHANGED <<counter, waiters, items, produced>>

-----------------------------------------------------------------------------
\* A producer takes the mutex ...
Produce(t) ==
    /\ call[t].pc = "idle" /\ mutex = NoThread /\ produced < MaxPulses
    /\ mutex' = t
    /\ \E broadcast, underMutex \in BOOLEAN :
         call' = [call EXCEPT ![t].pc = "produce", ![t].broadcast = broadcast,
                              ![t].underMutex = underMutex]
    /\ UNCHANGED <<counter, waiters, items, produced>>

\* ... adds an item, and releases the mutex now or after the pulse.
AddItem(t) ==
    /\ call[t].pc = "produce"
    /\ items' = items + 1
    /\ produced' = produced + 1
    /\ mutex' = IF call[t].underMutex THEN t ELSE NoThread
    /\ Goto(t, "pulse")
    /\ UNCHANGED <<counter, waiters>>

AfterPulse(t) == IF call[t].underMutex THEN Goto(t, "leave") ELSE Return(t)

\* LP64: __pthread_cond_pulse does nothing when nobody is counted.
Pulse(t) ==
    /\ call[t].pc = "pulse"
    /\ IF LP64 /\ waiters = 0 THEN AfterPulse(t) ELSE Goto(t, "bump")
    /\ UNCHANGED <<counter, waiters, mutex, items, produced>>

\* A mutant of the pulse: the counter is left alone.
NoBump(t) ==
    /\ call[t].pc = "bump"
    /\ Goto(t, "wake")
    /\ UNCHANGED <<counter, waiters, mutex, items, produced>>

\* The counter goes up by one step and wraps around above the flags.
Bump(t) ==
    /\ call[t].pc = "bump"
    /\ counter' = (counter + 1) % CounterMod
    /\ Goto(t, "wake")
    /\ UNCHANGED <<waiters, mutex, items, produced>>

\* FUTEX_WAKE of one sleeper, or of all.
FutexWake(t) ==
    /\ call[t].pc = "wake"
    /\ \E woken \in SUBSET Asleep :
         /\ IF call[t].broadcast THEN woken = Asleep
                                 ELSE Cardinality(woken) = IF Asleep = {} THEN 0 ELSE 1
         /\ call' = [u \in Thread |->
                       IF u \in woken THEN [call[u] EXCEPT !.pc = AfterWait]
                       ELSE IF u # t THEN call[u]
                       ELSE IF call[t].underMutex THEN [call[t] EXCEPT !.pc = "leave"]
                       ELSE Idle]
    /\ UNCHANGED <<counter, waiters, mutex, items, produced>>

Inside(t) ==
    \/ TakeItem(t) \/ LoadState(t) \/ CountWaiter(t) \/ UnlockInWait(t) \/ FutexWait(t)
    \/ UncountWaiter(t) \/ Relock(t) \/ Leave(t)
    \/ AddItem(t) \/ Pulse(t) \/ Bump(t) \/ FutexWake(t)

Step(t) == Consume(t) \/ Produce(t) \/ Inside(t) \/ SpuriousReturn(t) \/ TimeOut(t)

Next == (\E t \in Thread : Step(t)) /\ UNCHANGED LP64

Spec == Init /\ [][Next]_vars

\* A thread that has started keeps running, and a free mutex that a thread
\* wants for ever is given to somebody; no wait need end but by a wake.
FairSpec == Spec /\ \A t \in Thread : WF_vars(Inside(t) /\ UNCHANGED LP64)
-----------------------------------------------------------------------------
TypeOK ==
    /\ LP64 \in BOOLEAN
    /\ counter \in 0 .. CounterMod - 1
    /\ waiters \in Nat /\ items \in Nat /\ produced \in Nat
    /\ mutex \in Thread \cup {NoThread}
    /\ call \in [Thread -> Calls]

\* LP64: a thread that has released the mutex to wait is counted until its
\* wait is over, however it ends, so that a pulse never skips it.
WaitersCounted ==
    LP64 => waiters = Cardinality({t \in Thread :
                call[t].pc \in {"unlock", "wait", "asleep", "uncount"}})
=============================================================================
