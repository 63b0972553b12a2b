--------------------------- MODULE PthreadBarrier ---------------------------
(* libc/bionic/pthread_barrier.cpp with init_count participants, who enter   *)
(* cycle after cycle; any of them may destroy the barrier, directly after a  *)
(* wait if it likes, and initialise it anew.  All waits are on &state.       *)
EXTENDS Naturals, FiniteSets

CONSTANT Thread    \* the participants: finitely many

VARIABLES state, wait_count,
          init_count,   \* 0 once destroyed
          call,         \* the call each thread is in
          arrived,      \* threads counted in the cycle that is filling
          released      \* threads of a full cycle still in pthread_barrier_wait

vars == <<state, wait_count, init_count, call, arrived, released>>

Count == Cardinality(Thread)

Location == {"idle", "gate", "gateWait", "enter", "hold", "holdWait", "asleep",
             "release", "wakeHeld", "leave", "reset", "wakeGate", "check"}

(* op: wait or destroy; prev: prev_wait_count; back: where a sleeper returns *)
(* to; serial: whether the result is PTHREAD_BARRIER_SERIAL_THREAD.          *)
Calls == [pc : Location, op : {"wait", "destroy"}, prev : Nat,
          back : {"gate", "hold"}, serial : BOOLEAN]

Idle == [pc |-> "idle", op |-> "wait", prev |-> 0, back |-> "gate", serial |-> FALSE]

Goto(t, l) == call' = [call EXCEPT ![t].pc = l]

Return(t) == call' = [call EXCEPT ![t] = Idle]

Asleep == {t \in Thread : call[t].pc = "asleep"}

NoDestroyer == \A t \in Thread : call[t].op # "destroy"

\* pthread_barrier_init.
Fresh == state' = "WAIT" /\ wait_count' = 0 /\ init_count' = Count

Init ==
    /\ state = "WAIT" /\ wait_count = 0 /\ init_count = Count
    /\ call = [t \in Thread |-> Idle]
    /\ arrived = {} /\ released = {}

-----------------------------------------------------------------------------
BarrierWait(t) ==
    /\ call[t].pc = "idle" /\ init_count # 0 /\ NoDestroyer
    /\ Goto(t, "gate")
    /\ UNCHANGED <<state, wait_count, init_count, arrived, released>>

\* pthread_barrier_destroy, which the application does not call while a
\* thread is on its way in; a destroyed barrier gives EINVAL.
BarrierDestroy(t) ==
    /\ call[t].pc = "idle" /\ init_count # 0 /\ NoDestroyer
    /\ \A u \in Thread : call[u].pc \notin {"gate", "gateWait", "enter"}
                         /\ ~(call[u].pc = "asleep" /\ call[u].back = "gate")
    /\ call' = [call EXCEPT ![t].pc = "gate", ![t].op = "destroy"]
    /\ UNCHANGED <<state, wait_count, init_count, arrived, released>>

\* A mutant of the loop at the entry: the previous cycle is not waited for.
GateOpen(t) ==
    /\ call[t].pc = "gate"
    /\ Goto(t, IF call[t].op = "wait" THEN "enter" ELSE "check")
    /\ UNCHANGED <<state, wait_count, init_count, arrived, released>>

\* The loop at the entry of wait and destroy: the previous cycle must be over.
Gate(t) ==
    /\ call[t].pc = "gate"
    /\ Goto(t, IF state = "RELEASE" THEN "gateWait"
               ELSE IF call[t].op = "wait" THEN "enter" ELSE "check")
    /\ UNCHANGED <<state, wait_count, init_count, arrived, released>>

\* FUTEX_WAIT while the state is l; the caller then loads it again.
Sleep(t, l, back) ==
    /\ IF state = l THEN call' = [call EXCEPT ![t].pc = "asleep", ![t].back = back]
                    ELSE Goto(t, back)
    /\ UNCHANGED <<state, wait_count, init_count, arrived, released>>

GateWait(t) == call[t].pc = "gateWait" /\ Sleep(t, "RELEASE", "gate")

HoldWait(t) == call[t].pc = "holdWait" /\ Sleep(t, "WAIT", "hold")

\* FUTEX_WAIT returns without a wake.
SpuriousReturn(t) ==
    /\ call[t].pc = "asleep"
    /\ Goto(t, call[t].back)
    /\ UNCHANGED <<state, wait_count, init_count, arrived, released>>

\* The exchange that counts a thread in; the last one releases the others.
\* (EINVAL is for a thread too many, which init_count participants never are.)
Enter(t) ==
    /\ call[t].pc = "enter" /\ wait_count < init_count
    /\ wait_count' = wait_count + 1
    /\ LET last == wait_count + 1 = init_count
       IN /\ call' = [call EXCEPT
                        ![t].pc = IF ~last THEN "hold"
                                  ELSE IF wait_count # 0 THEN "release" ELSE "leave",
                        ![t].prev = wait_count, ![t].serial = last]
          /\ arrived' = IF last THEN {} ELSE arrived \cup {t}
          /\ released' = IF last THEN arrived \cup {t} ELSE released
    /\ UNCHANGED <<state, init_count>>

\* The last thread in opens the barrier ...
Release(t) ==
    /\ call[t].pc = "release"
    /\ state' = "RELEASE"
    /\ Goto(t, "wakeHeld")
    /\ UNCHANGED <<wait_count, init_count, arrived, released>>

\* FUTEX_WAKE of n sleepers, whatever they sleep for; t goes on to l.
Wake(t, n, l) ==
    /\ \E woken \in SUBSET Asleep :
         /\ Cardinality(woken) = IF n < Cardinality(Asleep) THEN n ELSE Cardinality(Asleep)
         /\ call' = [u \in Thread |->
                       IF u \in woken THEN [call[u] EXCEPT !.pc = call[u].back]
                       ELSE IF u # t THEN call[u]
                       ELSE IF l = "idle" THEN Idle ELSE [call[t] EXCEPT !.pc = l]]
    /\ UNCHANGED <<state, wait_count, init_count>>

\* ... and wakes those it found counted.
WakeHeld(t) ==
    /\ call[t].pc = "wakeHeld"
    /\ Wake(t, call[t].prev, "leave")
    /\ UNCHANGED <<arrived, released>>

\* The loop of the others.
Hold(t) ==
    /\ call[t].pc = "hold"
    /\ Goto(t, IF state = "WAIT" THEN "holdWait" ELSE "leave")
    /\ UNCHANGED <<state, wait_count, init_count, arrived, released>>

\* The last one out has to close the cycle.
Leave(t) ==
    /\ call[t].pc = "leave"
    /\ wait_count' = wait_count - 1
    /\ IF wait_count = 1 THEN Goto(t, "reset") ELSE Return(t)
    /\ released' = IF wait_count = 1 THEN released ELSE released \ {t}
    /\ UNCHANGED <<state, init_count, arrived>>

Reset(t) ==
    /\ call[t].pc = "reset"
    /\ state' = "WAIT"
    /\ Goto(t, "wakeGate")
    /\ UNCHANGED <<wait_count, init_count, arrived, released>>

\* A mutant: only one thread is woken for the next cycle.
WakeGateOne(t) ==
    /\ call[t].pc = "wakeGate"
    /\ Wake(t, 1, "idle")
    /\ released' = released \ {t}
    /\ UNCHANGED arrived

\* The last wake reads pshared and init_count once more.
WakeGate(t) ==
    /\ call[t].pc = "wakeGate"
    /\ Wake(t, init_count, "idle")
    /\ released' = released \ {t}
    /\ UNCHANGED arrived

\* The end of destroy: EBUSY while threads are held, else the count is zeroed.
DestroyCheck(t) ==
    /\ call[t].pc = "check"
    /\ init_count' = IF wait_count # 0 THEN init_count ELSE 0
    /\ Return(t)
    /\ UNCHANGED <<state, wait_count, arrived, released>>

\* The memory of a destroyed barrier is initialised again.
Reinit ==
    /\ init_count = 0
    /\ Fresh
    /\ UNCHANGED <<call, arrived, released>>

Inside(t) ==
    \/ Gate(t) \/ GateWait(t) \/ HoldWait(t) \/ Enter(t) \/ Release(t) \/ WakeHeld(t)
    \/ Hold(t) \/ Leave(t) \/ Reset(t) \/ WakeGate(t) \/ DestroyCheck(t)

Next ==
    \/ \E t \in Thread : \/ BarrierWait(t) \/ BarrierDestroy(t)
                         \/ Inside(t) \/ SpuriousReturn(t)
    \/ Reinit

Spec == Init /\ [][Next]_vars

\* A thread inside a call keeps running; no wait need end but by a wake.
FairSpec == Spec /\ \A t \in Thread : WF_vars(Inside(t))
-----------------------------------------------------------------------------
TypeOK ==
    /\ state \in {"WAIT", "RELEASE"}
    /\ wait_count \in 0 .. Count /\ init_count \in {0, Count}
    /\ call \in [Thread -> Calls]
    /\ arrived \in SUBSET Thread /\ released \in SUBSET Thread

\* Verify if the barrier can be destroyed directly after pthread_barrier_wait():
\* once destroy has returned 0, no thread is left that reads the barrier.
NoAccessAfterDestroy ==
    init_count = 0 => \A t \in Thread : call[t].pc = "idle"

Abstract == INSTANCE AbstractBarrier WITH serial <- {t \in Thread : call[t].serial}

\* Nobody leaves a cycle before everybody has arrived in it, and each cycle has
\* one serial thread, also while one cycle is left and the next is entered.
ImplementsBarrier == Abstract!Spec
=============================================================================
