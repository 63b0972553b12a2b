---------------------------- MODULE MCSemaphore ----------------------------
(* The primitives that make threads wait for others, side by side: the       *)
(* initial state picks the semaphore, the barrier or the condition variable  *)
(* that the threads use.                                                     *)
EXTENDS Semaphore, FiniteSets

CONSTANTS Participant,  \* the threads at the barrier or the condition variable
          watched,      \* a thread, to state progress of
          NoThread, WordBits, MaxPulses

VARIABLES primitive,    \* "semaphore", "barrier" or "cond"
          state, wait_count, init_count, place, arrived, released,
          LP64, counter, waiters, mutex, items, produced, user

barrierVars == <<state, wait_count, init_count, place, arrived, released>>
condVars == <<LP64, counter, waiters, mutex, items, produced, user>>
mcVars == <<primitive, vars, barrierVars, condVars>>

Barrier == INSTANCE PthreadBarrier WITH Thread <- Participant, call <- place

Cond == INSTANCE PthreadCond WITH Thread <- Participant, call <- user

ASSUME ParticipantAssumption == IsFiniteSet(Participant) /\ Participant # {}

\* The counter of the condition variable does not come round.
ASSUME PulsesAssumption ==
    WordBits > 2 /\ Cond!CounterMod \in Nat /\ MaxPulses \in Nat /\ MaxPulses < Cond!CounterMod

MCInit ==
    /\ primitive \in {"semaphore", "barrier", "cond"}
    /\ Init /\ Barrier!Init /\ Cond!Init
    /\ primitive # "cond" => LP64

Use(x) == primitive = x /\ UNCHANGED primitive

MCNext ==
    \/ Use("semaphore") /\ Next /\ UNCHANGED <<barrierVars, condVars>>
    \/ Use("barrier") /\ Barrier!Next /\ UNCHANGED <<vars, condVars>>
    \/ Use("cond") /\ Cond!Next /\ UNCHANGED <<vars, barrierVars>>

MCInside(t) ==
    \/ Use("semaphore") /\ Inside(t) /\ UNCHANGED <<barrierVars, condVars>>
    \/ t \in Participant /\ Use("barrier") /\ Barrier!Inside(t) /\ UNCHANGED <<vars, condVars>>
    \/ t \in Participant /\ Use("cond") /\ Cond!Inside(t) /\ UNCHANGED <<LP64, vars, barrierVars>>

\* A thread inside a call keeps running; no wait need end but by a wake.
MCSpec ==
    /\ MCInit /\ [][MCNext]_mcVars
    /\ \A t \in Thread : WF_mcVars(MCInside(t))

\* A thread asleep on a semaphore worth a wait; all participants inside the
\* barrier; an item, and a consumer that sleeps.
Stuck ==
    CASE primitive = "semaphore" -> call[watched].pc = "asleep" /\ credits > 0
      [] primitive = "barrier" -> \A t \in Participant : place[t].pc # "idle"
      [] primitive = "cond" -> items > 0 /\ Cond!Asleep # {}

\* A thread asleep on a semaphore worth a wait gets on, or another takes what it
\* is worth; once all participants are inside the barrier some get out; and an
\* item does not wait for ever for a consumer that sleeps, whether producers
\* signal before or after they release the mutex and whichever waiters time out:
\* no wake is lost and no signal missed, and no new call is needed.  The threads
\* are alike, so what holds of the watched one holds of each.
WaitersProgress == Stuck ~> ~Stuck

\* Nobody leaves a cycle of the barrier before everybody has arrived in it, and
\* each cycle has one serial thread.
ImplementsBarrier == Barrier!Abstract!Spec

\* A thread that has released the mutex to wait for the condition is counted
\* until its wait is over, however it ends, so that a pulse never skips it.
WaitersCounted == Cond!WaitersCounted
=============================================================================
