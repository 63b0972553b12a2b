----------------------------- MODULE Semaphore -----------------------------
(* libc/bionic/semaphore.cpp: an unnamed semaphore.  A compare-and-exchange  *)
(* loop is one step: it ends with its successful exchange or its last load.  *)
EXTENDS Integers

CONSTANTS Thread,
          InitialValue,    \* the argument of sem_init
          SEM_VALUE_MAX,   \* 2^30 - 1 in the code
          TargetSdk24      \* whether sem_wait reports EINTR

ASSUME SemaphoreAssumption ==
    /\ SEM_VALUE_MAX \in Nat \ {0}
    /\ InitialValue \in 0 .. SEM_VALUE_MAX
    /\ TargetSdk24 \in BOOLEAN

VARIABLES value,    \* the signed 31-bit value in sem->count
          call,     \* the call each thread is in
          credits   \* InitialValue, plus successful posts, less successful waits

vars == <<value, call, credits>>

Calls == [pc : {"idle", "dec", "wait", "asleep", "wake"}, timed : BOOLEAN]

Idle == [pc |-> "idle", timed |-> FALSE]

Goto(t, l) == call' = [call EXCEPT ![t].pc = l]

Return(t) == call' = [call EXCEPT ![t] = Idle]

Asleep == {t \in Thread : call[t].pc = "asleep"}

Init ==
    /\ value = InitialValue
    /\ call = [t \in Thread |-> Idle]
    /\ credits = InitialValue

-----------------------------------------------------------------------------
\* __sem_dec or __sem_trydec returned a positive old value.
Taken ==
    /\ value > 0
    /\ value' = value - 1
    /\ credits' = credits - 1

\* sem_trywait; EAGAIN changes nothing.
SemTryWait(t) ==
    /\ call[t].pc = "idle"
    /\ Taken
    /\ UNCHANGED call

SemWait(t) ==
    /\ call[t].pc = "idle"
    /\ Goto(t, "dec")
    /\ UNCHANGED <<value, credits>>

\* __sem_timedwait tries first; a timeout that check_timespec refuses makes it
\* no more than a try.
SemTimedWait(t) ==
    /\ call[t].pc = "idle"
    /\ \/ Taken /\ UNCHANGED call
       \/ /\ value <= 0
          /\ call' = [call EXCEPT ![t] = [pc |-> "dec", timed |-> TRUE]]
          /\ UNCHANGED <<value, credits>>

\* A mutant of the wait loops: an old value of 0 counts as success.
SemDecFromZero(t) ==
    /\ call[t].pc = "dec"
    /\ \/ /\ value >= 0
          /\ value' = value - 1
          /\ credits' = credits - 1
          /\ Return(t)
       \/ /\ value < 0
          /\ Goto(t, "wait")
          /\ UNCHANGED <<value, credits>>

\* __sem_dec in the wait loops: take one, or mark the semaphore contended.
SemDec(t) ==
    /\ call[t].pc = "dec"
    /\ \/ Taken /\ Return(t)
       \/ /\ value <= 0
          /\ value' = -1
          /\ Goto(t, "wait")
          /\ UNCHANGED credits

\* FUTEX_WAIT for a value other than -1.
FutexWait(t) ==
    /\ call[t].pc = "wait"
    /\ Goto(t, IF value = -1 THEN "asleep" ELSE "dec")
    /\ UNCHANGED <<value, credits>>

\* FUTEX_WAIT returns 0 without a wake of this semaphore.
SpuriousReturn(t) ==
    /\ call[t].pc = "asleep"
    /\ Goto(t, "dec")
    /\ UNCHANGED <<value, credits>>

\* FUTEX_WAIT returns EINTR.
Interrupt(t) ==
    /\ call[t].pc = "asleep"
    /\ IF call[t].timed \/ TargetSdk24 THEN Return(t) ELSE Goto(t, "dec")
    /\ UNCHANGED <<value, credits>>

\* The wait ends in ETIMEDOUT; FutexWithTimeout may say so without a wait.
TimeOut(t) ==
    /\ call[t].pc \in {"wait", "asleep"} /\ call[t].timed
    /\ Return(t)
    /\ UNCHANGED <<value, credits>>

\* A mutant of __sem_inc: a contended value is incremented like any other.
SemIncByOne == value + 1

\* __sem_inc: any negative value goes to one.
SemInc == IF value < 0 THEN 1 ELSE value + 1

\* A mutant of sem_post: nobody is woken.
SemPostNoWake(t) ==
    /\ call[t].pc = "idle"
    /\ value # SEM_VALUE_MAX
    /\ value' = SemInc
    /\ credits' = credits + 1
    /\ UNCHANGED call

\* sem_post; EOVERFLOW changes nothing.
SemPost(t) ==
    /\ call[t].pc = "idle"
    /\ value # SEM_VALUE_MAX
    /\ value' = SemInc
    /\ credits' = credits + 1
    /\ IF value < 0 THEN Goto(t, "wake") ELSE UNCHANGED call

\* FUTEX_WAKE of all waiters.
FutexWake(t) ==
    /\ call[t].pc = "wake"
    /\ call' = [u \in Thread |->
                  IF u = t THEN Idle
                  ELSE IF u \in Asleep THEN [call[u] EXCEPT !.pc = "dec"]
                  ELSE call[u]]
    /\ UNCHANGED <<value, credits>>

\* What sem_getvalue reports.
SemGetValue == IF value < 0 THEN 0 ELSE value

Inside(t) == SemDec(t) \/ FutexWait(t) \/ FutexWake(t)

Next == \E t \in Thread :
    \/ SemTryWait(t) \/ SemWait(t) \/ SemTimedWait(t) \/ SemPost(t)
    \/ Inside(t) \/ SpuriousReturn(t) \/ Interrupt(t) \/ TimeOut(t)

Spec == Init /\ [][Next]_vars

\* A thread inside a call keeps running; nothing makes it start another call
\* and no wait need end but by a wake.
FairSpec == Spec /\ \A t \in Thread : WF_vars(Inside(t))
-----------------------------------------------------------------------------
TypeOK ==
    /\ value \in -1 .. SEM_VALUE_MAX
    /\ call \in [Thread -> Calls]
    /\ credits \in Int

\* sem_getvalue reports exactly the credits: the jump from -1 to 1 in a post
\* and the drop from 0 to -1 in a wait neither lose nor invent one.
GetValueExact == SemGetValue = credits

\* No lost wakeup: while a thread sleeps, the semaphore is marked contended,
\* so the next post wakes everybody, or such a wake is about to happen.
NoLostWakeup ==
    Asleep # {} => value = -1 \/ \E t \in Thread : call[t].pc = "wake"

Abstract == INSTANCE AbstractSemaphore

\* The semaphore is a counter of credits that no interleaving of waits, posts,
\* timeouts and interrupts can overdraw, leak or overflow.
ImplementsSemaphore == Abstract!Spec
=============================================================================
