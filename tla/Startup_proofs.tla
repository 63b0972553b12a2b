--------------------------- MODULE Startup_proofs ---------------------------
(* Proofs about the class Lock, pthread_once and the guard of a static       *)
(* object, for any set of threads and any number of constructors that throw, *)
(* and about the composition of them that the run checks.                    *)
EXTENDS MCStartup, TLAPS

\* The inductive invariant: the word and the program counters agree.
LockInv == TypeOK /\ MutualExclusion /\ WordTellsHolder /\ NoLostWakeup

\* Lock::init leaves the lock free with nobody inside.
LEMMA LockInitInv == Init => LockInv
  BY Zenon DEF Init, LockInv, TypeOK, LockState, Location, MutualExclusion,
         WordTellsHolder, NoLostWakeup, Asleep

\* Every step of lock(), unlock() and the futex keeps the invariant.
LEMMA LockNextInv == LockInv /\ [Next]_vars => LockInv'
<1> SUFFICES ASSUME LockInv, [Next]_vars PROVE LockInv'
  BY Zenon
<1> USE DEF LockInv, TypeOK, LockState, Location, MutualExclusion,
            WordTellsHolder, NoLostWakeup, Asleep, Goto
<1>1. ASSUME NEW t \in Thread, TryLock(t) PROVE LockInv'
  BY <1>1, Zenon DEF TryLock
<1>2. ASSUME NEW t \in Thread, LockContended(t) PROVE LockInv'
  BY <1>2, Zenon DEF LockContended
<1>3. ASSUME NEW t \in Thread, LockSwap(t) PROVE LockInv'
  BY <1>3, Zenon DEF LockSwap
<1>4. ASSUME NEW t \in Thread, FutexWait(t) PROVE LockInv'
  BY <1>4, Zenon DEF FutexWait
<1>5. ASSUME NEW t \in Thread, Unlock(t) PROVE LockInv'
  BY <1>5, Zenon DEF Unlock
<1>6. ASSUME NEW t \in Thread, FutexWake(t) PROVE LockInv'
  <2>1. CASE Asleep = {} /\ Goto(t, "outside")
    BY <1>6, <2>1, Zenon DEF FutexWake
  <2>2. ASSUME NEW u \in Asleep, pc' = [pc EXCEPT ![t] = "outside", ![u] = "swap"]
        PROVE LockInv'
    BY <1>6, <2>2 DEF FutexWake
  <2> QED BY <1>6, <2>1, <2>2, Zenon DEF FutexWake
<1>7. ASSUME NEW t \in Thread, SpuriousReturn(t) PROVE LockInv'
  BY <1>7, Zenon DEF SpuriousReturn
<1>8. CASE UNCHANGED vars
  BY <1>8, Zenon DEF vars
<1> QED
  BY <1>1, <1>2, <1>3, <1>4, <1>5, <1>6, <1>7, <1>8, Zenon DEF Next, Step

\* Lock: the word always tells the truth, mutual exclusion holds and no
\* sleeper is ever forgotten, whatever the number of threads.
THEOREM LockInvariant == Spec => []LockInv
  BY LockInitInv, LockNextInv, PTL DEF Spec

\* Lock: two threads are never in the critical section together.
THEOREM LockMutualExclusion == Spec => []MutualExclusion
<1>1. LockInv => MutualExclusion
  BY Zenon DEF LockInv
<1> QED
  BY <1>1, LockInvariant, PTL

\* Lock: a thread asleep in lock() always has a wake or a retry coming.
THEOREM LockNoLostWakeup == Spec => []NoLostWakeup
<1>1. LockInv => NoLostWakeup
  BY Zenon DEF LockInv
<1> QED
  BY <1>1, LockInvariant, PTL

\* Lock: every step acquires, releases or leaves alone the abstract lock.
THEOREM LockImplementsAbstractLock == Spec => ImplementsAbstractLock
<1> DEFINE Holders == {t \in Thread : pc[t] = "critical"}
<1>1. Init => Abstract!Init
  BY Zenon DEF Init, Abstract!Init
<1>2. LockInv /\ [Next]_vars => [Abstract!Next]_Holders
  <2> SUFFICES ASSUME LockInv, [Next]_vars PROVE Abstract!Next \/ Holders' = Holders
    BY Zenon
  <2> USE DEF LockInv, TypeOK, LockState, Location, MutualExclusion, WordTellsHolder, Goto
  <2>1. ASSUME NEW t \in Thread, TryLock(t) \/ LockSwap(t)
        PROVE Abstract!Next \/ Holders' = Holders
    <3>1. CASE state = "Unlocked"
      <4>1. Holders = {} /\ Holders' = {t}
        BY <2>1, <3>1, Zenon DEF TryLock, LockSwap
      <4> QED BY <4>1, Zenon DEF Abstract!Next, Abstract!Acquire
    <3>2. CASE state # "Unlocked"
      BY <2>1, <3>2, Zenon DEF TryLock, LockSwap
    <3> QED BY <3>1, <3>2, Zenon
  <2>2. ASSUME NEW t \in Thread, Unlock(t)
        PROVE Abstract!Next \/ Holders' = Holders
    <3>1. Holders = {t} /\ Holders' = {}
      BY <2>2, Zenon DEF Unlock
    <3> QED BY <3>1, Zenon DEF Abstract!Next, Abstract!Release
  <2>3. ASSUME NEW t \in Thread,
               LockContended(t) \/ FutexWait(t) \/ SpuriousReturn(t)
        PROVE Holders' = Holders
    BY <2>3, Zenon DEF LockContended, FutexWait, SpuriousReturn
  <2>4. ASSUME NEW t \in Thread, FutexWake(t) PROVE Holders' = Holders
    BY <2>4, Zenon DEF FutexWake, Asleep
  <2>5. CASE UNCHANGED vars
    BY <2>5, Zenon DEF vars
  <2> QED BY <2>1, <2>2, <2>3, <2>4, <2>5, Zenon DEF Next, Step
<1> QED
  BY <1>1, <1>2, LockInvariant, PTL DEF Spec, ImplementsAbstractLock, Abstract!Spec

-----------------------------------------------------------------------------
(* pthread_once. *)

\* Threads from the exchange that claims the routine to the store that ends it.
OnceClaimants == {t \in Thread : call[t].pc \in {"init", "store"}}

\* UNDERWAY tells that a thread has claimed the routine, and no two have.
OnceControlTellsClaimant ==
    /\ word = "UNDERWAY" <=> OnceClaimants # {}
    /\ \A t, u \in OnceClaimants : t = u

\* Who has been told, or is about to be, that the routine has run.
OnceDoneKnown ==
    /\ word = "COMPLETE" => done
    /\ word = "NOT_YET_STARTED" => ~done
    /\ \A t \in Thread :
          /\ call[t].pc = "init" => ~done
          /\ call[t].pc \in {"store", "wake"} => done
          /\ call[t].pc = "loop" /\ call[t].old = "COMPLETE" => done
          /\ call[t].pc = "wait" => call[t].old = "UNDERWAY"

\* While a thread sleeps, the routine is under way, or the wake of all sleepers
\* that follows its completion is still to come.
OnceNoLostWakeup ==
    Once!Asleep # {} => word = "UNDERWAY" \/ \E t \in Thread : call[t].pc = "wake"

OnceInv == Once!TypeOK /\ OnceControlTellsClaimant /\ OnceDoneKnown /\ OnceNoLostWakeup

\* PTHREAD_ONCE_INIT is the word of a routine that has not been started.
LEMMA OnceInitInv == Once!Init => OnceInv
<1> SUFFICES ASSUME Once!Init PROVE OnceInv
  BY Zenon
<1>1. Once!TypeOK
  BY Zenon DEF Once!Init, Once!TypeOK, Once!Controls, Once!Calls, Once!Idle
<1>2. \A t \in Thread : call[t].pc = "idle"
  BY Zenon DEF Once!Init, Once!Idle
<1> QED
  BY <1>1, <1>2, Zenon
     DEF Once!Init, OnceInv, OnceControlTellsClaimant, OnceDoneKnown, OnceNoLostWakeup,
         OnceClaimants, Once!Asleep

\* What a step of t does to the calls, t's own and those of others.
LEMMA OnceCallStep ==
    ASSUME Once!TypeOK, NEW t \in Thread
    PROVE  /\ \A l : Once!Goto(t, l) =>
                 /\ call'[t].pc = l /\ call'[t].old = call[t].old
                 /\ \A u \in Thread \ {t} : call'[u] = call[u]
           /\ Once!Return(t) =>
                 call'[t].pc = "idle" /\ \A u \in Thread \ {t} : call'[u] = call[u]
           /\ Once!Load(t) =>
                 /\ call'[t].pc = "loop" /\ call'[t].old = word
                 /\ \A u \in Thread \ {t} : call'[u] = call[u]
<1>1. call[t] \in Once!Calls /\ call \in [Thread -> Once!Calls]
  BY Zenon DEF Once!TypeOK
<1>2. ASSUME NEW l, Once!Goto(t, l)
      PROVE  /\ call'[t].pc = l /\ call'[t].old = call[t].old
             /\ \A u \in Thread \ {t} : call'[u] = call[u]
  BY <1>1, <1>2, Zenon DEF Once!Goto, Once!Calls
<1>3. ASSUME Once!Return(t)
      PROVE  call'[t].pc = "idle" /\ \A u \in Thread \ {t} : call'[u] = call[u]
  BY <1>1, <1>3, Zenon DEF Once!Return, Once!Idle
<1>4. ASSUME Once!Load(t)
      PROVE  /\ call'[t].pc = "loop" /\ call'[t].old = word
             /\ \A u \in Thread \ {t} : call'[u] = call[u]
  BY <1>1, <1>4, Zenon DEF Once!Load
<1> QED
  BY <1>2, <1>3, <1>4, Zenon

\* Every step keeps the variables in their types.
LEMMA OnceNextTypeOK == Once!TypeOK /\ [Once!Next]_Once!vars => Once!TypeOK'
<1> SUFFICES ASSUME Once!TypeOK, Once!Next PROVE Once!TypeOK'
  BY Zenon DEF Once!TypeOK, Once!vars
<1>1. PICK t \in Thread : Once!PthreadOnce(t) \/ Once!Inside(t) \/ Once!SpuriousReturn(t)
  BY Zenon DEF Once!Next
<1>2. Once!Idle \in Once!Calls /\ call[t] \in Once!Calls
  BY Zenon DEF Once!TypeOK, Once!Calls, Once!Idle, Once!Controls
<1>3. CASE Once!PthreadOnce(t) \/ Once!Reload(t)
  <2>1. [pc |-> "loop", old |-> word] \in Once!Calls
    BY Zenon DEF Once!TypeOK, Once!Calls
  <2> QED
    BY <1>3, <2>1, Zenon DEF Once!PthreadOnce, Once!Reload, Once!Load, Once!TypeOK
<1>4. CASE Once!LoopComplete(t) \/ Once!StoreComplete(t)
  <2>1. [call[t] EXCEPT !.pc = "wake"] \in Once!Calls
    BY <1>2, Zenon DEF Once!Calls
  <2> QED
    BY <1>2, <1>4, <2>1, Zenon
       DEF Once!LoopComplete, Once!StoreComplete, Once!Goto, Once!Return, Once!TypeOK, Once!Controls
<1>5. CASE Once!LoopExchange(t)
  <2>1. /\ [call[t] EXCEPT !.pc = "init"] \in Once!Calls /\ [call[t] EXCEPT !.pc = "wait"] \in Once!Calls
        /\ [call[t] EXCEPT !.old = word] \in Once!Calls
    BY <1>2, Zenon DEF Once!TypeOK, Once!Calls
  <2> QED
    BY <1>5, <2>1, Zenon DEF Once!LoopExchange, Once!Goto, Once!TypeOK, Once!Controls
<1>6. CASE Once!InitRoutine(t) \/ Once!FutexWait(t) \/ Once!SpuriousReturn(t)
  <2>1. /\ [call[t] EXCEPT !.pc = "asleep"] \in Once!Calls /\ [call[t] EXCEPT !.pc = "store"] \in Once!Calls
        /\ [call[t] EXCEPT !.pc = "reload"] \in Once!Calls
    BY <1>2, Zenon DEF Once!Calls
  <2> QED
    BY <1>6, <2>1, Zenon
       DEF Once!InitRoutine, Once!FutexWait, Once!SpuriousReturn, Once!Goto, Once!TypeOK
<1>7. CASE Once!FutexWake(t)
  <2>1. \A u \in Thread : [call[u] EXCEPT !.pc = "reload"] \in Once!Calls
    BY Zenon DEF Once!TypeOK, Once!Calls
  <2> QED
    BY <1>2, <1>7, <2>1, Zenon DEF Once!FutexWake, Once!TypeOK
<1> QED
  BY <1>1, <1>3, <1>4, <1>5, <1>6, <1>7, Zenon DEF Once!Inside

\* Every step of pthread_once keeps the invariant.
LEMMA OnceNextInv == OnceInv /\ [Once!Next]_Once!vars => OnceInv'
<1> SUFFICES ASSUME OnceInv, [Once!Next]_Once!vars PROVE OnceInv'
  BY Zenon
<1> DEFINE Rest == OnceControlTellsClaimant /\ OnceDoneKnown /\ OnceNoLostWakeup
<1>0. Once!TypeOK /\ Once!TypeOK' /\ Rest
  BY OnceNextTypeOK, Zenon DEF OnceInv
<1> USE DEF OnceControlTellsClaimant, OnceDoneKnown, OnceNoLostWakeup, OnceClaimants, Once!Asleep
<1>1. ASSUME NEW t \in Thread, Once!PthreadOnce(t) \/ Once!Reload(t) PROVE Rest'
  BY <1>0, <1>1, OnceCallStep DEF Once!PthreadOnce, Once!Reload, Once!Load
<1>2. ASSUME NEW t \in Thread, Once!LoopComplete(t) PROVE Rest'
  BY <1>0, <1>2, OnceCallStep DEF Once!LoopComplete
<1>3. ASSUME NEW t \in Thread, Once!LoopExchange(t) PROVE Rest'
  <2>1. CASE call' = [call EXCEPT ![t].old = word] /\ UNCHANGED word
    <3>1. /\ call'[t].pc = "loop" /\ call'[t].old = word /\ UNCHANGED done
          /\ \A u \in Thread \ {t} : call'[u] = call[u]
      BY <1>0, <1>3, <2>1 DEF Once!LoopExchange, Once!TypeOK, Once!Calls
    <3> QED
      BY <1>0, <1>3, <2>1, <3>1 DEF Once!LoopExchange
  <2>2. CASE word = "NOT_YET_STARTED" /\ word' = "UNDERWAY" /\ Once!Goto(t, "init")
    BY <1>0, <1>3, <2>2, OnceCallStep DEF Once!LoopExchange
  <2>3. CASE word = "UNDERWAY" /\ word = call[t].old /\ UNCHANGED word /\ Once!Goto(t, "wait")
    BY <1>0, <1>3, <2>3, OnceCallStep DEF Once!LoopExchange
  <2>4. call[t].old \in {"NOT_YET_STARTED", "UNDERWAY"}
    BY <1>0, <1>3, Zenon DEF Once!LoopExchange, Once!TypeOK, Once!Calls, Once!Controls
  <2> QED
    BY <1>3, <2>1, <2>2, <2>3, <2>4, Zenon DEF Once!LoopExchange
<1>4. ASSUME NEW t \in Thread, Once!FutexWait(t) \/ Once!SpuriousReturn(t) PROVE Rest'
  BY <1>0, <1>4, OnceCallStep DEF Once!FutexWait, Once!SpuriousReturn
<1>5. ASSUME NEW t \in Thread, Once!InitRoutine(t) PROVE Rest'
  BY <1>0, <1>5, OnceCallStep DEF Once!InitRoutine
<1>6. ASSUME NEW t \in Thread, Once!StoreComplete(t) PROVE Rest'
  BY <1>0, <1>6, OnceCallStep DEF Once!StoreComplete
<1>7. ASSUME NEW t \in Thread, Once!FutexWake(t) PROVE Rest'
  <2>1. /\ call'[t].pc = "idle" /\ UNCHANGED <<word, done>>
        /\ \A u \in Thread \ {t} : IF call[u].pc = "asleep" THEN call'[u].pc = "reload" ELSE call'[u] = call[u]
    BY <1>0, <1>7 DEF Once!FutexWake, Once!Idle, Once!TypeOK, Once!Calls
  <2> QED
    BY <1>0, <1>7, <2>1 DEF Once!FutexWake
<1>8. ASSUME UNCHANGED Once!vars PROVE Rest'
  BY <1>0, <1>8, Zenon DEF Once!vars
<1> HIDE DEF Rest
<1>9. Rest'
  BY <1>1, <1>2, <1>3, <1>4, <1>5, <1>6, <1>7, <1>8, Zenon DEF Once!Next, Once!Inside
<1> QED
  BY <1>0, <1>9, Zenon DEF OnceInv, Rest

\* The word, the thread in the routine and those who wait for it always agree.
THEOREM OnceInvariant == Once!Spec => []OnceInv
  BY OnceInitInv, OnceNextInv, PTL DEF Once!Spec

\* Every step starts, ends or gives up a run, lets a thread past, or changes nothing.
LEMMA OnceStepsAbstractly ==
    OnceInv /\ [Once!Next]_Once!vars => [Once!Abstract!Next]_<<Once!Runners, done, passed>>
<1> SUFFICES ASSUME OnceInv, Once!Next
             PROVE  Once!Abstract!Next \/ UNCHANGED <<Once!Runners, done, passed>>
  BY Zenon DEF Once!Runners, Once!vars
<1>0. Once!TypeOK /\ OnceControlTellsClaimant /\ OnceDoneKnown
  BY Zenon DEF OnceInv
<1>1. ASSUME NEW t \in Thread, Once!LoopExchange(t), word # call[t].old \/ word # "NOT_YET_STARTED"
      PROVE  UNCHANGED <<Once!Runners, done, passed>>
  BY <1>0, <1>1, OnceCallStep DEF Once!LoopExchange, Once!Runners, Once!TypeOK, Once!Calls
<1>2. ASSUME NEW t \in Thread, Once!LoopExchange(t), word = call[t].old, word = "NOT_YET_STARTED"
      PROVE  Once!Abstract!Start(t)
  <2>1. Once!Runners = {} /\ ~done
    BY <1>0, <1>2, Zenon DEF OnceControlTellsClaimant, OnceDoneKnown, OnceClaimants, Once!Runners
  <2>2. Once!Runners' = {t} /\ UNCHANGED <<done, passed>>
    BY <1>0, <1>2, <2>1, OnceCallStep DEF Once!LoopExchange, Once!Runners
  <2> QED
    BY <2>1, <2>2, Zenon DEF Once!Abstract!Start
<1>3. ASSUME NEW t \in Thread, Once!InitRoutine(t) PROVE Once!Abstract!Finish(t)
  <2>1. Once!Runners = {t}
    BY <1>0, <1>3, Zenon DEF Once!InitRoutine, OnceControlTellsClaimant, OnceClaimants, Once!Runners
  <2>2. Once!Runners' = {}
    BY <1>0, <1>3, <2>1, OnceCallStep DEF Once!InitRoutine, Once!Runners
  <2> QED
    BY <1>3, <2>1, <2>2, Zenon DEF Once!InitRoutine, Once!Abstract!Finish
<1>4. ASSUME NEW t \in Thread, Once!LoopComplete(t) PROVE Once!Abstract!Pass(t)
  <2>1. done /\ UNCHANGED Once!Runners
    BY <1>0, <1>4, OnceCallStep, Zenon DEF Once!LoopComplete, OnceDoneKnown, Once!Runners
  <2> QED
    BY <1>4, <2>1, Zenon DEF Once!LoopComplete, Once!Return, Once!Abstract!Pass
<1>5. ASSUME NEW t \in Thread, Once!FutexWake(t) PROVE Once!Abstract!Pass(t)
  <2>1. UNCHANGED Once!Runners
    BY <1>0, <1>5, Zenon
       DEF Once!FutexWake, Once!Runners, Once!Asleep, Once!Idle, Once!TypeOK, Once!Calls
  <2>2. done
    BY <1>0, <1>5, Zenon DEF Once!FutexWake, OnceDoneKnown
  <2> QED
    BY <1>5, <2>1, <2>2, Zenon DEF Once!FutexWake, Once!Abstract!Pass
<1>6. ASSUME NEW t \in Thread,
             \/ Once!PthreadOnce(t) \/ Once!Reload(t) \/ Once!StoreComplete(t)
             \/ Once!FutexWait(t) \/ Once!SpuriousReturn(t)
      PROVE  UNCHANGED <<Once!Runners, done, passed>>
  BY <1>0, <1>6, OnceCallStep
     DEF Once!PthreadOnce, Once!Reload, Once!Load, Once!StoreComplete, Once!FutexWait,
         Once!SpuriousReturn, Once!Runners
<1> QED
  BY <1>1, <1>2, <1>3, <1>4, <1>5, <1>6, Zenon DEF Once!Next, Once!Inside, Once!Abstract!Next

\* The routine runs once, on one thread, and no pthread_once returns before it
\* has ended.
THEOREM OnceImplementsOnce == Once!Spec => Once!ImplementsOnce
<1>1. Once!Init => Once!Abstract!Init
  BY DEF Once!Init, Once!Abstract!Init, Once!Runners, Once!Idle
<1> QED
  BY <1>1, OnceStepsAbstractly, OnceInvariant, PTL
     DEF Once!Spec, Once!ImplementsOnce, Once!Abstract!Spec

-----------------------------------------------------------------------------
(* The guard of a static object. *)

\* The word tells whether a thread has the guard, and no two have it.
GuardStateTellsBuilder ==
    /\ word \in {"WITHOUT_WAITER", "WITH_WAITER"} <=> Guard!Builders # {}
    /\ \A t, u \in Guard!Builders : t = u

\* Who has been told, or is about to be, that the object is constructed.
GuardDoneKnown ==
    /\ word = "COMPLETE" => done
    /\ word = "NOT_YET_STARTED" => ~done
    /\ \A t \in Thread :
          /\ call[t].pc \in {"construct", "abort"} => ~done
          /\ call[t].pc \in {"release", "wakeDone"} => done
          /\ call[t].pc = "loop" /\ call[t].old = "COMPLETE" => done

GuardInv == Guard!TypeOK /\ GuardStateTellsBuilder /\ GuardDoneKnown /\ Guard!NoLostWakeup

\* A guard starts with all bytes zero.
LEMMA GuardInitInv == Guard!Init => GuardInv
<1> SUFFICES ASSUME Guard!Init PROVE GuardInv
  BY Zenon
<1>1. Guard!TypeOK
  BY Zenon DEF Guard!Init, Guard!TypeOK, Guard!States, Guard!Calls, Guard!Idle
<1>2. \A t \in Thread : call[t].pc = "idle"
  BY Zenon DEF Guard!Init, Guard!Idle
<1> QED
  BY <1>1, <1>2, Zenon
     DEF Guard!Init, GuardInv, GuardStateTellsBuilder, GuardDoneKnown, Guard!NoLostWakeup,
         Guard!Builders, Guard!Asleep

\* What a step of t does to the calls, t's own and those of others.
LEMMA GuardCallStep ==
    ASSUME Guard!TypeOK, NEW t \in Thread
    PROVE  /\ \A l : Guard!Goto(t, l) =>
                 /\ call'[t].pc = l /\ call'[t].old = call[t].old
                 /\ \A u \in Thread \ {t} : call'[u] = call[u]
           /\ Guard!Return(t) =>
                 call'[t].pc = "idle" /\ \A u \in Thread \ {t} : call'[u] = call[u]
           /\ Guard!Load(t) =>
                 /\ call'[t].pc = "loop" /\ call'[t].old = word
                 /\ \A u \in Thread \ {t} : call'[u] = call[u]
<1>1. call[t] \in Guard!Calls /\ call \in [Thread -> Guard!Calls]
  BY Zenon DEF Guard!TypeOK
<1>2. ASSUME NEW l, Guard!Goto(t, l)
      PROVE  /\ call'[t].pc = l /\ call'[t].old = call[t].old
             /\ \A u \in Thread \ {t} : call'[u] = call[u]
  BY <1>1, <1>2, Zenon DEF Guard!Goto, Guard!Calls
<1>3. ASSUME Guard!Return(t)
      PROVE  call'[t].pc = "idle" /\ \A u \in Thread \ {t} : call'[u] = call[u]
  BY <1>1, <1>3, Zenon DEF Guard!Return, Guard!Idle
<1>4. ASSUME Guard!Load(t)
      PROVE  /\ call'[t].pc = "loop" /\ call'[t].old = word
             /\ \A u \in Thread \ {t} : call'[u] = call[u]
  BY <1>1, <1>4, Zenon DEF Guard!Load
<1> QED
  BY <1>2, <1>3, <1>4, Zenon

\* Every step keeps the variables in their types.
LEMMA GuardNextTypeOK == Guard!TypeOK /\ [Guard!Next]_Guard!vars => Guard!TypeOK'
<1> SUFFICES ASSUME Guard!TypeOK, Guard!Next PROVE Guard!TypeOK'
  BY Zenon DEF Guard!TypeOK, Guard!vars
<1>1. PICK t \in Thread : Guard!Acquire(t) \/ Guard!Inside(t) \/ Guard!SpuriousReturn(t)
  BY Zenon DEF Guard!Next
<1>2. ASSUME NEW k \in Guard!Calls, call' = [call EXCEPT ![t] = k]
      PROVE call' \in [Thread -> Guard!Calls]
  BY <1>2, Zenon DEF Guard!TypeOK
<1>3. Guard!Idle \in Guard!Calls /\ call[t] \in Guard!Calls
  BY Zenon DEF Guard!TypeOK, Guard!Calls, Guard!Idle, Guard!States
<1>4. CASE Guard!Acquire(t) \/ Guard!Reload(t)
  <2>1. [pc |-> "loop", old |-> word] \in Guard!Calls
    BY Zenon DEF Guard!TypeOK, Guard!Calls
  <2> QED
    BY <1>2, <1>4, <2>1, Zenon DEF Guard!Acquire, Guard!Reload, Guard!Load, Guard!TypeOK
<1>5. CASE Guard!LoopComplete(t)
  BY <1>2, <1>3, <1>5, Zenon DEF Guard!LoopComplete, Guard!Return, Guard!Pass, Guard!TypeOK
<1>6. CASE Guard!LoopExchange(t)
  <2>1. /\ [call[t] EXCEPT !.pc = "construct"] \in Guard!Calls /\ [call[t] EXCEPT !.pc = "wait"] \in Guard!Calls
        /\ [call[t] EXCEPT !.old = word] \in Guard!Calls
    BY <1>3, Zenon DEF Guard!TypeOK, Guard!Calls
  <2> QED
    BY <1>6, <2>1, Zenon DEF Guard!LoopExchange, Guard!Goto, Guard!TypeOK, Guard!States
<1>7. CASE Guard!LoopWait(t) \/ Guard!FutexWait(t) \/ Guard!SpuriousReturn(t)
  <2>1. /\ [call[t] EXCEPT !.pc = "asleep"] \in Guard!Calls /\ [call[t] EXCEPT !.pc = "wait"] \in Guard!Calls
        /\ [call[t] EXCEPT !.pc = "reload"] \in Guard!Calls
    BY <1>3, Zenon DEF Guard!Calls
  <2> QED
    BY <1>7, <2>1, Zenon
       DEF Guard!LoopWait, Guard!FutexWait, Guard!SpuriousReturn, Guard!Goto, Guard!TypeOK
<1>8. CASE Guard!Construct(t) \/ Guard!Release(t) \/ Guard!Abort(t)
  <2>1. /\ [call[t] EXCEPT !.pc = "release"] \in Guard!Calls /\ [call[t] EXCEPT !.pc = "abort"] \in Guard!Calls
        /\ [call[t] EXCEPT !.pc = "wakeDone"] \in Guard!Calls /\ [call[t] EXCEPT !.pc = "wakeAborted"] \in Guard!Calls
    BY <1>3, Zenon DEF Guard!Calls
  <2> QED
    BY <1>3, <1>8, <2>1, Zenon
       DEF Guard!Construct, Guard!Release, Guard!Abort, Guard!Goto, Guard!Return, Guard!Pass,
           Guard!TypeOK, Guard!States
<1>9. CASE Guard!FutexWake(t)
  <2>1. \A u \in Thread : [call[u] EXCEPT !.pc = "reload"] \in Guard!Calls
    BY Zenon DEF Guard!TypeOK, Guard!Calls
  <2> QED
    BY <1>3, <1>9, <2>1, Zenon DEF Guard!FutexWake, Guard!Pass, Guard!TypeOK
<1> QED
  BY <1>1, <1>4, <1>5, <1>6, <1>7, <1>8, <1>9, Zenon DEF Guard!Inside

\* Every step of acquire, release, abort and the constructor keeps the invariant.
LEMMA GuardNextInv == GuardInv /\ [Guard!Next]_Guard!vars => GuardInv'
<1> SUFFICES ASSUME GuardInv, [Guard!Next]_Guard!vars PROVE GuardInv'
  BY Zenon
<1> DEFINE Rest == GuardStateTellsBuilder /\ GuardDoneKnown /\ Guard!NoLostWakeup
<1>0. Guard!TypeOK /\ Guard!TypeOK' /\ Rest
  BY GuardNextTypeOK, Zenon DEF GuardInv
<1> USE DEF GuardStateTellsBuilder, GuardDoneKnown, Guard!NoLostWakeup, Guard!Builders, Guard!Asleep
<1>1. ASSUME NEW t \in Thread, Guard!Acquire(t) \/ Guard!Reload(t) PROVE Rest'
  BY <1>0, <1>1, GuardCallStep DEF Guard!Acquire, Guard!Reload, Guard!Load
<1>2. ASSUME NEW t \in Thread, Guard!LoopComplete(t) PROVE Rest'
  BY <1>0, <1>2, GuardCallStep DEF Guard!LoopComplete
<1>3. ASSUME NEW t \in Thread, Guard!LoopExchange(t) PROVE Rest'
  <2>1. CASE call' = [call EXCEPT ![t].old = word] /\ UNCHANGED word
    <3>1. /\ call'[t].pc = "loop" /\ call'[t].old = word /\ UNCHANGED done
          /\ \A u \in Thread \ {t} : call'[u] = call[u]
      BY <1>0, <1>3, <2>1 DEF Guard!LoopExchange, Guard!TypeOK, Guard!Calls
    <3> QED
      BY <1>0, <1>3, <2>1, <3>1 DEF Guard!LoopExchange
  <2>2. CASE word = "NOT_YET_STARTED" /\ word' = "WITHOUT_WAITER" /\ Guard!Goto(t, "construct")
    BY <1>0, <1>3, <2>2, GuardCallStep DEF Guard!LoopExchange
  <2>3. CASE word = "WITHOUT_WAITER" /\ word' = "WITH_WAITER" /\ Guard!Goto(t, "wait")
    BY <1>0, <1>3, <2>3, GuardCallStep DEF Guard!LoopExchange
  <2> QED
    BY <1>3, <2>1, <2>2, <2>3, Zenon DEF Guard!LoopExchange
<1>4. ASSUME NEW t \in Thread, Guard!LoopWait(t) \/ Guard!FutexWait(t) \/ Guard!SpuriousReturn(t)
      PROVE Rest'
  BY <1>0, <1>4, GuardCallStep DEF Guard!LoopWait, Guard!FutexWait, Guard!SpuriousReturn
<1>5. ASSUME NEW t \in Thread, Guard!Construct(t) PROVE Rest'
  BY <1>0, <1>5, GuardCallStep DEF Guard!Construct, Guard!TypeOK
<1>6. ASSUME NEW t \in Thread, Guard!Release(t) PROVE Rest'
  BY <1>0, <1>6, GuardCallStep DEF Guard!Release
<1>7. ASSUME NEW t \in Thread, Guard!Abort(t) PROVE Rest'
  BY <1>0, <1>7, GuardCallStep DEF Guard!Abort
<1>8. ASSUME NEW t \in Thread, Guard!FutexWake(t) PROVE Rest'
  <2>1. /\ call'[t].pc = "idle" /\ UNCHANGED <<word, done>>
        /\ \A u \in Thread \ {t} : IF call[u].pc = "asleep" THEN call'[u].pc = "reload" ELSE call'[u] = call[u]
    BY <1>0, <1>8 DEF Guard!FutexWake, Guard!Idle, Guard!TypeOK, Guard!Calls
  <2> QED
    BY <1>0, <1>8, <2>1 DEF Guard!FutexWake
<1>9. ASSUME UNCHANGED Guard!vars PROVE Rest'
  BY <1>0, <1>9, ZenonT(30) DEF Guard!vars
<1> HIDE DEF Rest
<1>10. Rest'
  BY <1>1, <1>2, <1>3, <1>4, <1>5, <1>6, <1>7, <1>8, <1>9, Zenon DEF Guard!Next, Guard!Inside
<1> QED
  BY <1>0, <1>10, Zenon DEF GuardInv, Rest

\* The guard's word, its holder and its sleepers always agree.
THEOREM GuardInvariant == Guard!Spec => []GuardInv
  BY GuardInitInv, GuardNextInv, PTL DEF Guard!Spec

\* A thread asleep on a guard has a wake coming, however often constructors
\* throw and others take the guard in between.
THEOREM GuardNoLostWakeup == Guard!Spec => []Guard!NoLostWakeup
<1>1. GuardInv => Guard!NoLostWakeup
  BY Zenon DEF GuardInv
<1> QED
  BY <1>1, GuardInvariant, PTL

\* Every step starts, ends or gives up a run, lets a thread past, or changes nothing.
LEMMA GuardStepsAbstractly ==
    GuardInv /\ [Guard!Next]_Guard!vars => [Guard!Abstract!Next]_<<Guard!Runners, done, passed>>
<1> SUFFICES ASSUME GuardInv, Guard!Next
             PROVE  Guard!Abstract!Next \/ UNCHANGED <<Guard!Runners, done, passed>>
  BY Zenon DEF Guard!Runners, Guard!vars
<1>0. Guard!TypeOK /\ GuardStateTellsBuilder /\ GuardDoneKnown
  BY Zenon DEF GuardInv
<1>1. ASSUME NEW t \in Thread, Guard!LoopExchange(t), word # call[t].old \/ word # "NOT_YET_STARTED"
      PROVE  UNCHANGED <<Guard!Runners, done, passed>>
  BY <1>0, <1>1, GuardCallStep DEF Guard!LoopExchange, Guard!Runners, Guard!TypeOK, Guard!Calls
<1>2. ASSUME NEW t \in Thread, Guard!LoopExchange(t), word = call[t].old, word = "NOT_YET_STARTED"
      PROVE  Guard!Abstract!Start(t)
  <2>1. Guard!Runners = {} /\ ~done
    BY <1>0, <1>2, Zenon DEF GuardStateTellsBuilder, GuardDoneKnown, Guard!Builders, Guard!Runners
  <2>2. Guard!Runners' = {t} /\ UNCHANGED <<done, passed>>
    BY <1>0, <1>2, <2>1, GuardCallStep DEF Guard!LoopExchange, Guard!Runners
  <2> QED
    BY <2>1, <2>2, Zenon DEF Guard!Abstract!Start
<1>3. ASSUME NEW t \in Thread, Guard!Construct(t)
      PROVE Guard!Abstract!Finish(t) \/ Guard!Abstract!Abandon(t)
  <2>1. Guard!Runners = {t}
    BY <1>0, <1>3, Zenon DEF Guard!Construct, GuardStateTellsBuilder, Guard!Builders, Guard!Runners
  <2>2. Guard!Runners' = {}
    BY <1>0, <1>3, <2>1, GuardCallStep DEF Guard!Construct, Guard!Runners
  <2> QED
    BY <1>3, <2>1, <2>2, Zenon DEF Guard!Construct, Guard!Abstract!Finish, Guard!Abstract!Abandon
<1>4. ASSUME NEW t \in Thread, Guard!LoopComplete(t)
      PROVE  Guard!Abstract!Pass(t)
  <2>1. done /\ UNCHANGED Guard!Runners
    BY <1>0, <1>4, GuardCallStep, ZenonT(30) DEF Guard!LoopComplete, GuardDoneKnown, Guard!Runners
  <2> QED
    BY <1>4, <2>1, Zenon DEF Guard!LoopComplete, Guard!Pass, Guard!Abstract!Pass
<1>5. ASSUME NEW t \in Thread, Guard!Release(t)
      PROVE  Guard!Abstract!Pass(t) \/ UNCHANGED <<Guard!Runners, done, passed>>
  <2>1. done /\ UNCHANGED Guard!Runners
    BY <1>0, <1>5, GuardCallStep DEF Guard!Release, GuardDoneKnown, Guard!Runners
  <2> QED
    BY <1>5, <2>1, Zenon DEF Guard!Release, Guard!Pass, Guard!Abstract!Pass
<1>6. ASSUME NEW t \in Thread, Guard!FutexWake(t)
      PROVE  Guard!Abstract!Pass(t) \/ UNCHANGED <<Guard!Runners, done, passed>>
  <2>1. UNCHANGED Guard!Runners
    BY <1>0, <1>6, Zenon
       DEF Guard!FutexWake, Guard!Runners, Guard!Asleep, Guard!Idle, Guard!TypeOK, Guard!Calls
  <2>2. call[t].pc = "wakeDone" => done
    BY <1>0, Zenon DEF GuardDoneKnown
  <2> QED
    BY <1>6, <2>1, <2>2, Zenon DEF Guard!FutexWake, Guard!Pass, Guard!Abstract!Pass
<1>7. ASSUME NEW t \in Thread,
             \/ Guard!Acquire(t) \/ Guard!Reload(t) \/ Guard!LoopWait(t)
             \/ Guard!FutexWait(t) \/ Guard!SpuriousReturn(t) \/ Guard!Abort(t)
      PROVE  UNCHANGED <<Guard!Runners, done, passed>>
  BY <1>0, <1>7, GuardCallStep
     DEF Guard!Acquire, Guard!Reload, Guard!Load, Guard!LoopWait, Guard!FutexWait,
         Guard!SpuriousReturn, Guard!Abort, Guard!Runners
<1> QED
  BY <1>1, <1>2, <1>3, <1>4, <1>5, <1>6, <1>7, Zenon
     DEF Guard!Next, Guard!Inside, Guard!Abstract!Next

\* One thread at a time constructs, a completed construction is never repeated,
\* and nobody is told that the object is there before it is.
THEOREM GuardImplementsOnce == Guard!Spec => Guard!ImplementsOnce
<1>1. Guard!Init => Guard!Abstract!Init
  BY DEF Guard!Init, Guard!Abstract!Init, Guard!Runners, Guard!Idle
<1> QED
  BY <1>1, GuardStepsAbstractly, GuardInvariant, PTL
     DEF Guard!Spec, Guard!ImplementsOnce, Guard!Abstract!Spec
-----------------------------------------------------------------------------
(* The composition.  A process that uses one of the primitives leaves the     *)
(* others as they were.                                                       *)

MCInv ==
    /\ primitive \in {"lock", "once", "guard", "linker"}
    /\ primitive = "once" => OnceInv
    /\ primitive = "guard" => GuardInv

OneTimeRunners == IF primitive = "guard" THEN Guard!Runners ELSE Once!Runners

LEMMA MCStep ==
    MCInv /\ [MCNext]_mcVars => MCInv' /\ [OneTime!Next]_<<OneTimeRunners, done, passed>>
<1> SUFFICES ASSUME MCInv, [MCNext]_mcVars
             PROVE  MCInv' /\ [OneTime!Next]_<<OneTimeRunners, done, passed>>
  BY Zenon
<1>0. primitive' = primitive
  BY Zenon DEF MCNext, mcVars, Use
<1>1. ASSUME primitive # "guard"
      PROVE  /\ OneTimeRunners = Once!Runners /\ OneTimeRunners' = Once!Runners'
             /\ OneTime!Next <=> Once!Abstract!Next
  BY <1>0, <1>1, Zenon
     DEF OneTimeRunners, OneTime!Next, Once!Abstract!Next, OneTime!Start, Once!Abstract!Start,
                    OneTime!Finish, Once!Abstract!Finish, OneTime!Abandon, Once!Abstract!Abandon,
                    OneTime!Pass, Once!Abstract!Pass
<1>2. ASSUME primitive = "guard"
      PROVE  /\ OneTimeRunners = Guard!Runners /\ OneTimeRunners' = Guard!Runners'
             /\ OneTime!Next <=> Guard!Abstract!Next
  BY <1>0, <1>2, Zenon
     DEF OneTimeRunners, OneTime!Next, Guard!Abstract!Next, OneTime!Start, Guard!Abstract!Start,
                    OneTime!Finish, Guard!Abstract!Finish, OneTime!Abandon, Guard!Abstract!Abandon,
                    OneTime!Pass, Guard!Abstract!Pass
<1>3. CASE primitive = "once"
  <2>1. OnceInv /\ [Once!Next]_Once!vars
    BY <1>3, Zenon DEF MCInv, MCNext, mcVars, onceVars, Once!vars, Use
  <2>2. OnceInv' /\ [Once!Abstract!Next]_<<Once!Runners, done, passed>>
    BY <2>1, OnceNextInv, OnceStepsAbstractly, Zenon
  <2> QED
    BY <1>0, <1>1, <1>3, <2>2, Zenon DEF MCInv
<1>4. CASE primitive = "guard"
  <2>1. GuardInv /\ [Guard!Next]_Guard!vars
    BY <1>4, Zenon DEF MCInv, MCNext, mcVars, onceVars, Guard!vars, Use
  <2>2. GuardInv' /\ [Guard!Abstract!Next]_<<Guard!Runners, done, passed>>
    BY <2>1, GuardNextInv, GuardStepsAbstractly, Zenon
  <2> QED
    BY <1>0, <1>2, <1>4, <2>2, Zenon DEF MCInv
<1>5. CASE primitive \in {"lock", "linker"}
  <2>1. UNCHANGED onceVars
    BY <1>5, Zenon DEF MCNext, mcVars, Use
  <2>2. UNCHANGED <<Once!Runners, done, passed>>
    BY <2>1, Zenon DEF onceVars, Once!Runners
  <2> QED
    BY <1>0, <1>1, <1>5, <2>2, Zenon DEF MCInv
<1> QED
  BY <1>3, <1>4, <1>5, Zenon DEF MCInv

(* pthread_once and the guard of a static keep the same promise, for any set  *)
(* of threads: the initialiser runs on one thread at a time, never again      *)
(* after it has completed, and nobody gets past before; only a guard gives up *)
(* a run.                                                                     *)
THEOREM OneTimeInitialisation == MCSpec => ImplementsOnce
<1>1. MCInit => MCInv
  BY OnceInitInv, GuardInitInv, Zenon DEF MCInit, MCInv
<1>2. MCInit => OneTime!Init
  BY DEF MCInit, OneTime!Init, Once!Init, Guard!Runners, Once!Runners, Once!Idle
<1>3. OneTimeRunners = IF primitive = "guard" THEN Guard!Runners ELSE Once!Runners
  BY Zenon DEF OneTimeRunners
<1> QED
  BY <1>1, <1>2, <1>3, MCStep, PTL DEF MCSpec, ImplementsOnce, OneTime!Spec, OneTimeRunners

(* The Lock in the same composition: it implements a lock and forgets no      *)
(* sleeper, whatever the process uses beside it.                              *)
THEOREM StartupLock == MCSpec => ImplementsAbstractLock /\ []NoLostWakeup
<1>1. MCInit => Init
  BY Zenon DEF MCInit
<1>2. [MCNext]_mcVars => [Next]_vars
  BY Zenon DEF MCNext, mcVars
<1> QED
  BY <1>1, <1>2, LockImplementsAbstractLock, LockNoLostWakeup, PTL DEF MCSpec, Spec
=============================================================================
