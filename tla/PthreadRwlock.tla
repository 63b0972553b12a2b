---------------------------- MODULE PthreadRwlock ----------------------------
(* libc/bionic/pthread_rwlock.cpp.  Every access to the atomic state word is *)
(* a step of its own; a section under pending_lock is one step, because it   *)
(* touches state at most once and everything else in it is protected by that *)
(* lock (BionicLock shows that the lock excludes).  A compare-and-exchange   *)
(* loop is one step: it ends with its successful exchange or its last load.  *)
EXTENDS Naturals, FiniteSets

CONSTANTS Thread, NoThread,
          MaxReaders    \* largest value of the reader_count field (29 bits)

ASSUME RwlockAssumption ==
    /\ NoThread \notin Thread /\ IsFiniteSet(Thread)
    /\ MaxReaders \in Nat \ {0}

VARIABLES writer_nonrecursive_preferred,
          state,        \* the four fields of rwlock->state
          writer_tid,   \* rwlock->writer_tid, NoThread for 0
          pending,      \* pending_reader_count and pending_writer_count
          call,         \* the call each thread is in, with its locals
          reads,        \* read holds of each thread
          writers,      \* threads that hold the lock for writing
          gaveUp        \* whether a writer's wait has ever timed out

vars == <<writer_nonrecursive_preferred, state, writer_tid, pending, call, reads,
          writers, gaveUp>>

Kind == {"reader", "writer"}

States == [writer : BOOLEAN, readers : 0 .. MaxReaders, flags : SUBSET Kind]

Location == {"idle", "try", "check", "pend", "wait", "asleep", "unpend",
             "storeTid", "release", "wakePending", "wakeWriter", "wakeReaders"}

(* A call's locals.  mayTake: whether old_state of the pending section lets  *)
(* the caller in; fresh: the wakeup serial of its kind still has the value   *)
(* read there, which is all the futex compares (the 32-bit serial is taken   *)
(* not to wrap within one wait); expired: the wait ended in ETIMEDOUT.       *)
Calls == [pc : Location, kind : Kind, timed : BOOLEAN,
          mayTake : BOOLEAN, fresh : BOOLEAN, expired : BOOLEAN]

Idle == [pc |-> "idle", kind |-> "reader", timed |-> FALSE,
         mayTake |-> FALSE, fresh |-> FALSE, expired |-> FALSE]

Goto(t, l) == call' = [call EXCEPT ![t].pc = l]

\* The call with the locals of the wait forgotten, at l.
Waited(t, l) == [call[t] EXCEPT !.pc = l, !.mayTake = FALSE, !.fresh = FALSE]

Return(t) == call' = [call EXCEPT ![t] = Idle]

Asleep(k) == {t \in Thread : call[t].pc = "asleep" /\ call[t].kind = k}

Free == ~state.writer /\ state.readers = 0

Init ==
    /\ writer_nonrecursive_preferred \in BOOLEAN
    /\ state = [writer |-> FALSE, readers |-> 0, flags |-> {}]
    /\ writer_tid = NoThread
    /\ pending = [k \in Kind |-> 0]
    /\ call = [t \in Thread |-> Idle]
    /\ reads = [t \in Thread |-> 0]
    /\ writers = {}
    /\ gaveUp = FALSE

-----------------------------------------------------------------------------
\* A mutant of __can_acquire_write_lock: readers are not counted.
CanAcquireWriteOverReaders(s) == ~s.writer

\* __can_acquire_read_lock and __can_acquire_write_lock.
CanAcquireRead(s) == ~(s.writer \/ (writer_nonrecursive_preferred /\ "writer" \in s.flags))

CanAcquireWrite(s) == ~s.writer /\ s.readers = 0

CanAcquire(k, s) == IF k = "reader" THEN CanAcquireRead(s) ELSE CanAcquireWrite(s)

(* The header of pthread_rwlock.cpp: locking for writing while holding a     *)
(* read lock deadlocks, so callers do not; a second read hold of a thread is *)
(* only asked of a lock that does not prefer writers.                        *)
Permitted(t, k) ==
    reads[t] > 0 => k = "reader" /\ ~writer_nonrecursive_preferred

\* A mutant of the next: a reader too many is carried into the writer bit.
TakeReadCarry(t) ==
    /\ CanAcquireRead(state)
    /\ state' = IF state.readers < MaxReaders THEN [state EXCEPT !.readers = @ + 1]
                ELSE [state EXCEPT !.readers = 0, !.writer = TRUE]
    /\ reads' = [reads EXCEPT ![t] = @ + 1]
    /\ UNCHANGED <<writer_tid, pending, writers>>

\* The successful exchange of __pthread_rwlock_tryrdlock; a reader count at its
\* limit is not exchanged.
TakeRead(t) ==
    /\ CanAcquireRead(state) /\ state.readers < MaxReaders
    /\ state' = [state EXCEPT !.readers = @ + 1]
    /\ reads' = [reads EXCEPT ![t] = @ + 1]
    /\ UNCHANGED <<writer_tid, pending, writers>>

\* The successful exchange of __pthread_rwlock_trywrlock, with writer_tid due.
TakeWrite(t) ==
    /\ CanAcquireWrite(state)
    /\ state' = [state EXCEPT !.writer = TRUE]
    /\ writers' = writers \cup {t}
    /\ call' = [call EXCEPT ![t] = [Idle EXCEPT !.pc = "storeTid"]]
    /\ UNCHANGED <<writer_tid, pending, reads>>

\* pthread_rwlock_tryrdlock and trywrlock; a failure changes nothing.
TryRdlock(t) ==
    /\ call[t].pc = "idle" /\ Permitted(t, "reader")
    /\ TakeRead(t)
    /\ UNCHANGED call

TryWrlock(t) ==
    /\ call[t].pc = "idle" /\ Permitted(t, "writer")
    /\ TakeWrite(t)

\* rdlock, wrlock and their timed forms; the writer itself gets EDEADLK.
Begin(t, k, timed) ==
    /\ call[t].pc = "idle" /\ Permitted(t, k)
    /\ writer_tid # t
    /\ call' = [call EXCEPT ![t].pc = "try", ![t].kind = k, ![t].timed = timed]
    /\ UNCHANGED <<state, writer_tid, pending, reads, writers>>

Rdlock(t) == \E timed \in BOOLEAN : Begin(t, "reader", timed)

Wrlock(t) == \E timed \in BOOLEAN : Begin(t, "writer", timed)

\* The try at the head of the loop of timedrdlock: acquire, EAGAIN, or go on
\* to the test of the state.  (check_timespec comes in between; it depends on
\* the caller's argument only, so a call it refuses is a failed try.)
LoopTryRead(t) ==
    /\ call[t].pc = "try" /\ call[t].kind = "reader"
    /\ \/ TakeRead(t) /\ Return(t)
       \/ /\ CanAcquireRead(state) /\ state.readers = MaxReaders
          /\ Return(t)
          /\ UNCHANGED <<state, writer_tid, pending, reads, writers>>
       \/ /\ ~CanAcquireRead(state)
          /\ Goto(t, "check")
          /\ UNCHANGED <<state, writer_tid, pending, reads, writers>>

\* The same in timedwrlock.
LoopTryWrite(t) ==
    /\ call[t].pc = "try" /\ call[t].kind = "writer"
    /\ \/ TakeWrite(t)
       \/ /\ ~CanAcquireWrite(state)
          /\ Goto(t, "check")
          /\ UNCHANGED <<state, writer_tid, pending, reads, writers>>

\* writer_tid is stored after the exchange.
StoreTid(t) ==
    /\ call[t].pc = "storeTid"
    /\ writer_tid' = t
    /\ Return(t)
    /\ UNCHANGED <<state, pending, reads, writers>>

\* The reload of state before pending: try again if it is worth it.
CheckState(t) ==
    /\ call[t].pc = "check"
    /\ Goto(t, IF CanAcquire(call[t].kind, state) THEN "try" ELSE "pend")
    /\ UNCHANGED <<state, writer_tid, pending, reads, writers>>

\* A mutant of the pending section: the old state is not tested again.
PendNoRecheck(t) ==
    /\ call[t].pc = "pend"
    /\ LET k == call[t].kind
       IN /\ pending' = [pending EXCEPT ![k] = @ + 1]
          /\ state' = [state EXCEPT !.flags = @ \cup {k}]
          /\ call' = [call EXCEPT ![t].pc = "wait", ![t].fresh = TRUE]
    /\ UNCHANGED <<writer_tid, reads, writers>>

\* The first section under pending_lock: count, flag, and read the serial.
Pend(t) ==
    /\ call[t].pc = "pend"
    /\ LET k == call[t].kind
       IN /\ pending' = [pending EXCEPT ![k] = @ + 1]
          /\ state' = [state EXCEPT !.flags = @ \cup {k}]
          /\ call' = [call EXCEPT ![t].pc = "wait", ![t].fresh = TRUE,
                                  ![t].mayTake = CanAcquire(k, state)]
    /\ UNCHANGED <<writer_tid, reads, writers>>

\* FUTEX_WAIT on the serial, unless the old state lets the caller in.
FutexWait(t) ==
    /\ call[t].pc = "wait"
    /\ call' = [call EXCEPT ![t] = Waited(t, IF ~call[t].mayTake /\ call[t].fresh
                                                THEN "asleep" ELSE "unpend")]
    /\ UNCHANGED <<state, writer_tid, pending, reads, writers>>

\* FUTEX_WAIT returns without a wake.
SpuriousReturn(t) ==
    /\ call[t].pc = "asleep"
    /\ Goto(t, "unpend")
    /\ UNCHANGED <<state, writer_tid, pending, reads, writers>>

\* The wait ends in ETIMEDOUT; FutexWithTimeout may say so without a wait.
TimeOut(t) ==
    /\ call[t].pc = "asleep" \/ (call[t].pc = "wait" /\ ~call[t].mayTake)
    /\ call[t].timed
    /\ call' = [call EXCEPT ![t] = [Waited(t, "unpend") EXCEPT !.expired = TRUE]]
    /\ UNCHANGED <<state, writer_tid, pending, reads, writers>>

\* A mutant of the second section: the flag goes with any pending thread.
UnpendDropsFlag(t) ==
    /\ call[t].pc = "unpend"
    /\ LET k == call[t].kind
       IN /\ pending' = [pending EXCEPT ![k] = @ - 1]
          /\ state' = [state EXCEPT !.flags = @ \ {k}]
    /\ IF call[t].expired THEN Return(t) ELSE Goto(t, "try")
    /\ UNCHANGED <<writer_tid, reads, writers>>

\* The second section under pending_lock: the last pending thread of a kind
\* removes the flag; a timed-out caller gives up, the others loop.
Unpend(t) ==
    /\ call[t].pc = "unpend"
    /\ LET k == call[t].kind
       IN /\ pending' = [pending EXCEPT ![k] = @ - 1]
          /\ state' = [state EXCEPT !.flags = IF pending[k] = 1 THEN @ \ {k} ELSE @]
    /\ IF call[t].expired THEN Return(t) ELSE Goto(t, "try")
    /\ UNCHANGED <<writer_tid, reads, writers>>

-----------------------------------------------------------------------------
\* A mutant of unlock: writer_tid is left behind.
UnlockWriterKeepsTid(t) ==
    /\ call[t].pc = "idle" /\ t \in writers
    /\ writer_tid = t
    /\ Goto(t, "release")
    /\ UNCHANGED <<state, writer_tid, pending, reads, writers>>

\* pthread_rwlock_unlock by the writer: first writer_tid is cleared ...
UnlockWriter(t) ==
    /\ call[t].pc = "idle" /\ t \in writers
    /\ writer_tid = t
    /\ writer_tid' = NoThread
    /\ Goto(t, "release")
    /\ UNCHANGED <<state, pending, reads, writers>>

\* ... then the writer flag.
ReleaseWriter(t) ==
    /\ call[t].pc = "release"
    /\ state' = [state EXCEPT !.writer = FALSE]
    /\ writers' = writers \ {t}
    /\ IF state.flags = {} THEN Return(t) ELSE Goto(t, "wakePending")
    /\ UNCHANGED <<writer_tid, pending, reads>>

\* pthread_rwlock_unlock by a reader: the last one has to wake the waiters.
UnlockReader(t) ==
    /\ call[t].pc = "idle" /\ reads[t] > 0
    /\ state' = [state EXCEPT !.readers = @ - 1]
    /\ reads' = [reads EXCEPT ![t] = @ - 1]
    /\ IF state.readers = 1 /\ state.flags # {}
         THEN Goto(t, "wakePending")
         ELSE UNCHANGED call
    /\ UNCHANGED <<writer_tid, pending, writers>>

\* The wakeup serial of kind k is incremented, and t goes on to l.
BumpSerial(t, k, l) ==
    call' = [u \in Thread |->
                IF u = t THEN [call[t] EXCEPT !.pc = l]
                ELSE IF call[u].kind = k THEN [call[u] EXCEPT !.fresh = FALSE]
                ELSE call[u]]

\* The section under pending_lock of unlock: writers first, then readers.
WakePending(t) ==
    /\ call[t].pc = "wakePending"
    /\ \/ pending["writer"] # 0 /\ BumpSerial(t, "writer", "wakeWriter")
       \/ /\ pending["writer"] = 0 /\ pending["reader"] # 0
          /\ BumpSerial(t, "reader", "wakeReaders")
       \/ pending["writer"] = 0 /\ pending["reader"] = 0 /\ Return(t)
    /\ UNCHANGED <<state, writer_tid, pending, reads, writers>>

\* FUTEX_WAKE of one writer, or of all readers.
WakeWriter(t) ==
    /\ call[t].pc = "wakeWriter"
    /\ \/ Asleep("writer") = {} /\ Return(t)
       \/ \E u \in Asleep("writer") :
            call' = [call EXCEPT ![t] = Idle, ![u].pc = "unpend"]
    /\ UNCHANGED <<state, writer_tid, pending, reads, writers>>

WakeReaders(t) ==
    /\ call[t].pc = "wakeReaders"
    /\ call' = [u \in Thread |->
                  IF u = t THEN Idle
                  ELSE IF u \in Asleep("reader") THEN [call[u] EXCEPT !.pc = "unpend"]
                  ELSE call[u]]
    /\ UNCHANGED <<state, writer_tid, pending, reads, writers>>

\* The steps of a thread inside a call that nothing can hold up.
Inside(t) ==
    \/ LoopTryRead(t) \/ LoopTryWrite(t) \/ StoreTid(t) \/ CheckState(t)
    \/ Pend(t) \/ FutexWait(t) \/ Unpend(t)
    \/ ReleaseWriter(t) \/ WakePending(t) \/ WakeWriter(t) \/ WakeReaders(t)

Step(t) ==
    \/ TryRdlock(t) \/ TryWrlock(t) \/ Rdlock(t) \/ Wrlock(t)
    \/ UnlockWriter(t) \/ UnlockReader(t)
    \/ Inside(t) \/ SpuriousReturn(t)

Next ==
    /\ \E t \in Thread : \/ Step(t) /\ UNCHANGED gaveUp
                         \/ TimeOut(t) /\ gaveUp' = (gaveUp \/ call[t].kind = "writer")
    /\ UNCHANGED writer_nonrecursive_preferred

Spec == Init /\ [][Next]_vars

\* A thread inside a call keeps running; nothing makes it start another call
\* and no wait need end but by a wake.
FairSpec == Spec /\ \A t \in Thread : WF_vars(Inside(t) /\ UNCHANGED <<writer_nonrecursive_preferred, gaveUp>>)
-----------------------------------------------------------------------------
TypeOK ==
    /\ state \in States
    /\ writer_tid \in Thread \cup {NoThread}
    /\ pending \in [Kind -> Nat]
    /\ call \in [Thread -> Calls]
    /\ reads \in [Thread -> Nat]
    /\ writers \in SUBSET Thread
    /\ writer_nonrecursive_preferred \in BOOLEAN /\ gaveUp \in BOOLEAN

\* A thread finds its own id in writer_tid, and gets EDEADLK, only while it
\* holds the lock for writing; and the state word has a writer only while some
\* thread holds the lock for writing, however many readers there are.
WriterTidHolds ==
    /\ \A t \in Thread : writer_tid = t => t \in writers
    /\ state.writer => writers # {}

\* If the pending flag is added before unlocking, the unlocking thread wakes
\* the waiter: nobody sleeps on a free lock once every call has run its course.
NoForgottenSleeper ==
    Free /\ (\E k \in Kind : Asleep(k) # {})
        => \E t \in Thread : call[t].pc \notin {"idle", "asleep"}

\* Only a writer that times out can break that: until one has, nobody is left
\* asleep on a free lock, whatever readers time out.
ForgottenOnlyAfterTimeout == ~gaveUp => NoForgottenSleeper

\* Until then, a free lock on which a thread sleeps without a timeout is taken
\* in the end, without any new call.
SleepersProgress ==
    (Free /\ \E k \in Kind : \E t \in Asleep(k) : ~call[t].timed) ~> (~Free \/ gaveUp)

Abstract == INSTANCE AbstractRwLock

\* The lock never has two writers, or a writer and a reader, at a time.
ImplementsRwLock == Abstract!Spec
=============================================================================
