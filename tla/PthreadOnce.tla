---------------------------- MODULE PthreadOnce ----------------------------
(* libc/bionic/pthread_once.cpp on one once_control.  The init_routine is    *)
(* the caller's: it is taken to end, and neither to throw nor to fork (the   *)
(* file says it does not support that).                                      *)

CONSTANT Thread

VARIABLES once_control,
          call,      \* the call each thread is in, and its old_value
          done,      \* whether init_routine has run to its end
          passed     \* threads that have returned from pthread_once

vars == <<once_control, call, done, passed>>

Controls == {"NOT_YET_STARTED", "UNDERWAY", "COMPLETE"}

Calls == [pc : {"idle", "loop", "init", "store", "wake", "wait", "asleep", "reload"},
          old : Controls]

Idle == [pc |-> "idle", old |-> "NOT_YET_STARTED"]

Goto(t, l) == call' = [call EXCEPT ![t].pc = l]

Return(t) ==
    /\ call' = [call EXCEPT ![t] = Idle]
    /\ passed' = passed \cup {t}

Asleep == {t \in Thread : call[t].pc = "asleep"}

Init ==
    /\ once_control = "NOT_YET_STARTED"
    /\ call = [t \in Thread |-> Idle]
    /\ done = FALSE
    /\ passed = {}

-----------------------------------------------------------------------------
\* The first load, and the load after a wait.
Load(t) ==
    /\ call' = [call EXCEPT ![t] = [pc |-> "loop", old |-> once_control]]
    /\ UNCHANGED <<once_control, done, passed>>

PthreadOnce(t) == call[t].pc = "idle" /\ Load(t)

Reload(t) == call[t].pc = "reload" /\ Load(t)

LoopComplete(t) ==
    /\ call[t].pc = "loop" /\ call[t].old = "COMPLETE"
    /\ Return(t)
    /\ UNCHANGED <<once_control, done>>

\* A mutant of the loop: a plain store in place of the compare-and-exchange.
LoopStoreUnderway(t) ==
    /\ call[t].pc = "loop" /\ call[t].old # "COMPLETE"
    /\ once_control' = "UNDERWAY"
    /\ Goto(t, IF call[t].old = "NOT_YET_STARTED" THEN "init" ELSE "wait")
    /\ UNCHANGED <<done, passed>>

\* The compare-and-exchange of old_value to UNDERWAY, whichever it is.
LoopExchange(t) ==
    /\ call[t].pc = "loop" /\ call[t].old # "COMPLETE"
    /\ \/ /\ once_control = call[t].old
          /\ once_control' = "UNDERWAY"
          /\ Goto(t, IF call[t].old = "NOT_YET_STARTED" THEN "init" ELSE "wait")
       \/ /\ once_control # call[t].old
          /\ call' = [call EXCEPT ![t].old = once_control]
          /\ UNCHANGED once_control
    /\ UNCHANGED <<done, passed>>

\* The init_routine runs to its end.
InitRoutine(t) ==
    /\ call[t].pc = "init"
    /\ done' = TRUE
    /\ Goto(t, "store")
    /\ UNCHANGED <<once_control, passed>>

\* A mutant: no wake after the store.
StoreCompleteNoWake(t) ==
    /\ call[t].pc = "store"
    /\ once_control' = "COMPLETE"
    /\ Return(t)
    /\ UNCHANGED done

StoreComplete(t) ==
    /\ call[t].pc = "store"
    /\ once_control' = "COMPLETE"
    /\ Goto(t, "wake")
    /\ UNCHANGED <<done, passed>>

\* FUTEX_WAKE of all waiters.
FutexWake(t) ==
    /\ call[t].pc = "wake"
    /\ call' = [u \in Thread |->
                  IF u = t THEN Idle
                  ELSE IF u \in Asleep THEN [call[u] EXCEPT !.pc = "reload"]
                  ELSE call[u]]
    /\ passed' = passed \cup {t}
    /\ UNCHANGED <<once_control, done>>

\* FUTEX_WAIT while the word is the old value.
FutexWait(t) ==
    /\ call[t].pc = "wait"
    /\ Goto(t, IF once_control = call[t].old THEN "asleep" ELSE "reload")
    /\ UNCHANGED <<once_control, done, passed>>

\* FUTEX_WAIT returns without a wake.
SpuriousReturn(t) ==
    /\ call[t].pc = "asleep"
    /\ Goto(t, "reload")
    /\ UNCHANGED <<once_control, done, passed>>

Inside(t) ==
    \/ LoopComplete(t) \/ LoopExchange(t) \/ InitRoutine(t) \/ StoreComplete(t)
    \/ FutexWake(t) \/ FutexWait(t) \/ Reload(t)

Next == \E t \in Thread : PthreadOnce(t) \/ Inside(t) \/ SpuriousReturn(t)

Spec == Init /\ [][Next]_vars

\* A thread inside a call keeps running; no wait need end but by a wake.
FairSpec == Spec /\ \A t \in Thread : WF_vars(Inside(t))
-----------------------------------------------------------------------------
TypeOK ==
    /\ once_control \in Controls
    /\ call \in [Thread -> Calls]
    /\ done \in BOOLEAN
    /\ passed \in SUBSET Thread

\* The threads running the initialiser.
Runners == {t \in Thread : call[t].pc = "init"}

Abstract == INSTANCE AbstractOnce WITH runners <- Runners

\* The init_routine runs once, on one thread, and no pthread_once returns
\* before it has ended.
ImplementsOnce == Abstract!Spec
=============================================================================
