--------------------------- MODULE Threads_proofs ---------------------------
(* Proofs about the non-PI mutexes, for any set of threads, any choice of    *)
(* types and builds and any width of the counter; and about the lives of     *)
(* threads: nobody uses a thread that is unmapped, for any number of them.   *)
EXTENDS PthreadMutex, ThreadLifecycle, TLAPS

\* The lock bits tell whether somebody holds the mutex, and nobody is inside a
\* call on a destroyed one but for the wake of an earlier unlock.
WordTellsHolder ==
    /\ state.lock \in {"uncontended", "contended"} <=> Holders # {}
    /\ state.lock = "destroyed" =>
          state = Destroyed /\ \A t \in Thread : call[t].pc \in {"idle", "wake"}

\* Each type keeps to its own part of the code.
Paths ==
    \A t \in Thread :
        IF Normal THEN call[t].pc \notin {"owner", "fast", "loop", "loadOwner", "reload", "storeOwner"}
        ELSE call[t].pc \notin {"try", "retry", "swap"}

\* A holder is named by owner_tid from the store after its acquisition to the
\* one before its release; what it read ahead of the owner test is not stale.
OwnerKnown ==
    \A t \in Thread :
        /\ depth[t] > 0 /\ ~Normal /\ call[t].pc \notin {"storeOwner", "release"} => owner_tid = t
        /\ call[t].pc = "storeOwner" => depth[t] = 1
        /\ call[t].pc = "release" => depth[t] = 1 /\ owner_tid = NoThread
        /\ call[t].pc = "owner" /\ owner_tid = t => call[t].old.counter = state.counter
        /\ ~Normal /\ call[t].pc \in {"fast", "loop", "loadOwner", "wait", "asleep", "reload"} => depth[t] = 0

\* A normal mutex has no owner_tid and no depth.
NormalIsFlat == Normal => owner_tid = NoThread /\ \A t \in Thread : depth[t] \in {0, 1}

Inv ==
    /\ TypeOK /\ MutualExclusion /\ CounterIsDepth /\ OwnerHolds
    /\ WordTellsHolder /\ Paths /\ OwnerKnown /\ NormalIsFlat

\* pthread_mutex_init leaves the mutex free, with nobody inside.
LEMMA InitInv == Init => Inv
<1> SUFFICES ASSUME Init PROVE Inv
  BY Zenon
<1> USE MutexAssumption
<1>1. <<type, LP64>> \in Variants
  <2>1. PICK v \in Variants : type = v[1] /\ LP64 = v[2]
    BY Zenon DEF Init
  <2>2. v = <<v[1], v[2]>>
    BY <2>1
  <2> QED
    BY <2>1, <2>2, Zenon
<1>2. state = Unlocked /\ owner_tid = NoThread /\ Holders = {}
  BY DEF Init, Holders
<1>3. TypeOK
  BY <1>1 DEF Init, TypeOK, States, LockBits, Calls, Ops, Location, Idle, Word, Unlocked
<1> QED
  BY <1>2, <1>3
  DEF Init, Inv, Idle, Word, Unlocked, Normal, Holders, MutualExclusion, CounterIsDepth,
      OwnerHolds, WordTellsHolder, Paths, OwnerKnown, NormalIsFlat

\* The words that the code stores are words of the state.
LEMMA WordType ==
    /\ Unlocked \in States /\ Uncontended \in States /\ Contended \in States /\ Destroyed \in States
    /\ \A s \in States : FlipContention(s) \in States
  BY MutexAssumption
  DEF States, LockBits, Word, Unlocked, Uncontended, Contended, Destroyed, FlipContention

\* Moving on within a call, or returning from it, leaves a call.
LEMMA CallType ==
    ASSUME TypeOK, NEW t \in Thread, NEW l \in Location, NEW s \in States,
           Goto(t, l) \/ GotoWith(t, l, s) \/ GotoDone(t, l) \/ Return(t)
    PROVE  call' \in [Thread -> Calls]
<1>1. Idle \in Calls
  BY WordType, Zenon DEF Idle, Calls, Location
<1>2. call[t] \in Calls
  BY Zenon DEF TypeOK
<1>3. [call[t] EXCEPT !.pc = l] \in Calls /\ [call[t] EXCEPT !.pc = l, !.old = s] \in Calls
  BY <1>2, Zenon DEF Calls
<1>4. [Idle EXCEPT !.pc = l, !.op = call[t].op] \in Calls
  BY <1>1, <1>2, Zenon DEF Calls
<1>5. CASE Goto(t, l)
  BY <1>3, <1>5, Zenon DEF Goto, TypeOK
<1>6. CASE GotoWith(t, l, s)
  BY <1>3, <1>6, Zenon DEF GotoWith, TypeOK
<1>7. CASE GotoDone(t, l)
  BY <1>4, <1>7, Zenon DEF GotoDone, TypeOK
<1>8. CASE Return(t)
  BY <1>1, <1>8, Zenon DEF Return, TypeOK
<1> QED
  BY <1>5, <1>6, <1>7, <1>8, Zenon

\* Every step keeps the variables in their types.
LEMMA NextTypeOK == Inv /\ [Next]_vars => TypeOK'
<1> SUFFICES ASSUME Inv, Next PROVE TypeOK'
  BY Zenon DEF Inv, TypeOK, vars
<1>0. UNCHANGED <<type, LP64>> /\ TypeOK
  BY Zenon DEF Next, Inv
<1>1. ASSUME NEW t \in Thread, NormalMutexTryLock(t) PROVE TypeOK'
  BY <1>0, <1>1, CallType, WordType, Zenon DEF TypeOK, Calls, Location, NormalMutexTryLock
<1>2. ASSUME NEW t \in Thread, NormalMutexTryLockBusy(t) PROVE TypeOK'
  BY <1>0, <1>2, CallType, WordType, Zenon DEF TypeOK, Calls, Location, NormalMutexTryLockBusy
<1>3. ASSUME NEW t \in Thread, NormalMutexSwap(t) PROVE TypeOK'
  BY <1>0, <1>3, CallType, WordType DEF TypeOK, Calls, Location, NormalMutexSwap
<1>4. ASSUME NEW t \in Thread, LockFast(t) PROVE TypeOK'
  BY <1>0, <1>4, CallType, WordType DEF TypeOK, Calls, Location, LockFast
<1>5. ASSUME NEW t \in Thread, TryLockExchange(t) PROVE TypeOK'
  BY <1>0, <1>5, CallType, WordType DEF TypeOK, Calls, Location, TryLockExchange
<1>6. ASSUME NEW t \in Thread, StoreOwner(t) PROVE TypeOK'
  BY <1>0, <1>6, CallType, WordType, Zenon DEF TypeOK, Calls, Location, StoreOwner
<1>7. ASSUME NEW t \in Thread, LockLoop(t) PROVE TypeOK'
  BY <1>0, <1>7, CallType, WordType DEF TypeOK, Calls, Location, LockLoop, ToWait
<1>8. ASSUME NEW t \in Thread, FutexWait(t) PROVE TypeOK'
  BY <1>0, <1>8, CallType, WordType, Zenon DEF TypeOK, Calls, Location, FutexWait, Woken
<1>9. ASSUME NEW t \in Thread, Reload(t) PROVE TypeOK'
  BY <1>0, <1>9, CallType, WordType, Zenon DEF TypeOK, Calls, Location, Reload
<1>10. ASSUME NEW t \in Thread, UnlockRelease(t) PROVE TypeOK'
  BY <1>0, <1>10, CallType, WordType, Zenon DEF TypeOK, Calls, Location, UnlockRelease
<1>11. ASSUME NEW t \in Thread, SpuriousReturn(t) PROVE TypeOK'
  BY <1>0, <1>11, CallType, WordType, Zenon DEF TypeOK, Calls, Location, SpuriousReturn, Woken
<1>12. ASSUME NEW t \in Thread, TimeOut(t) PROVE TypeOK'
  BY <1>0, <1>12, CallType, WordType, Zenon DEF TypeOK, Calls, Location, TimeOut
<1>13. ASSUME NEW t \in Thread, NEW o \in Ops, Begin(t, o) PROVE TypeOK'
  <2>1. [call[t] EXCEPT !.op = o, !.old = IF Normal THEN @ ELSE state,
                        !.pc = IF ~Normal THEN "owner" ELSE IF o = "unlock" THEN "release" ELSE "try"] \in Calls
    BY <1>0, ZenonT(30) DEF TypeOK, Calls, Ops, Location
  <2> QED
    BY <1>0, <1>13, <2>1, Zenon DEF TypeOK, Begin
<1>14. ASSUME NEW t \in Thread, LockCheckOwner(t) PROVE TypeOK'
  <2>1. CASE UNCHANGED <<state, depth>>
    BY <1>0, <1>14, <2>1, CallType, WordType, Zenon DEF TypeOK, Calls, Location, LockCheckOwner
  <2>2. CASE ~UNCHANGED <<state, depth>>
    <3>1. state.counter # MaxCounter
      BY <1>14, <2>2, Zenon DEF LockCheckOwner, Inv, OwnerKnown
    <3>2. [state EXCEPT !.counter = @ + 1] \in States
      BY <1>0, <3>1, MutexAssumption DEF TypeOK, States
    <3> QED
      BY <1>0, <1>14, <2>2, <3>2, CallType, WordType DEF TypeOK, Location, LockCheckOwner
  <2> QED
    BY <2>1, <2>2, Zenon
<1>15. ASSUME NEW t \in Thread, LoadOwner(t) PROVE TypeOK'
  <2>1. [call[t] EXCEPT !.pc = "wait", !.oldOwner = owner_tid] \in Calls
    BY <1>0, Zenon DEF TypeOK, Calls, Location
  <2> QED
    BY <1>0, <1>15, <2>1, Zenon DEF TypeOK, LoadOwner
<1>16. ASSUME NEW t \in Thread, UnlockCheckOwner(t) PROVE TypeOK'
  <2>1. CASE UNCHANGED <<state, depth>>
    BY <1>0, <1>16, <2>1, CallType, WordType, Zenon DEF TypeOK, Calls, Location, UnlockCheckOwner
  <2>2. CASE ~UNCHANGED <<state, depth>>
    <3>1. state.counter # 0 /\ depth[t] > 0
      BY <1>16, <2>2, Zenon DEF UnlockCheckOwner, Inv, OwnerKnown, OwnerHolds
    <3>2. [state EXCEPT !.counter = @ - 1] \in States
      BY <1>0, <3>1, MutexAssumption DEF TypeOK, States
    <3> QED
      BY <1>0, <1>16, <2>2, <3>1, <3>2, CallType, WordType DEF TypeOK, Location, UnlockCheckOwner
  <2> QED
    BY <2>1, <2>2, Zenon
<1>17. ASSUME NEW t \in Thread, FutexWake(t) PROVE TypeOK'
  <2>1. CASE Return(t)
    BY <1>0, <1>17, <2>1, CallType, WordType, Zenon DEF TypeOK, Location, FutexWake
  <2>2. ASSUME NEW u \in Asleep, call' = [call EXCEPT ![t] = Idle, ![u].pc = Woken]
        PROVE  TypeOK'
    <3>1. Idle \in Calls /\ [call[u] EXCEPT !.pc = Woken] \in Calls /\ [Idle EXCEPT !.pc = Woken] \in Calls
      BY <1>0, WordType, Zenon DEF TypeOK, Calls, Location, Idle, Woken, Asleep
    <3> QED
      BY <1>0, <1>17, <2>2, <3>1, Zenon DEF TypeOK, FutexWake, Asleep
  <2> QED
    BY <1>17, <2>1, <2>2, Zenon DEF FutexWake
<1>18. CASE Destroy
  BY <1>0, <1>18, WordType, Zenon DEF TypeOK, Destroy
<1>19. CASE Reinit
  BY <1>0, <1>19, WordType, Zenon DEF TypeOK, Reinit
<1> QED
  BY <1>1, <1>2, <1>3, <1>4, <1>5, <1>6, <1>7, <1>8, <1>9, <1>10, <1>11, <1>12, <1>13, <1>14,
     <1>15, <1>16, <1>17, <1>18, <1>19, Zenon, Zenon
  DEF Next, Step, Inside, Lock, TimedLock, TryLock, Unlock, Ops

\* What a step of t does to the calls, t's own and those of others.
LEMMA CallStep ==
    ASSUME TypeOK, NEW t \in Thread
    PROVE  /\ \A l : Goto(t, l) =>
                 /\ call'[t].pc = l /\ call'[t].old = call[t].old
                 /\ \A u \in Thread \ {t} : call'[u] = call[u]
           /\ \A l, s : GotoWith(t, l, s) =>
                 /\ call'[t].pc = l /\ call'[t].old = s
                 /\ \A u \in Thread \ {t} : call'[u] = call[u]
           /\ \A l : GotoDone(t, l) =>
                 call'[t].pc = l /\ \A u \in Thread \ {t} : call'[u] = call[u]
           /\ Return(t) =>
                 call'[t].pc = "idle" /\ \A u \in Thread \ {t} : call'[u] = call[u]
<1>1. call[t] \in Calls /\ call \in [Thread -> Calls]
  BY Zenon DEF TypeOK
<1>2. ASSUME NEW l, Goto(t, l)
      PROVE  /\ call'[t].pc = l /\ call'[t].old = call[t].old
             /\ \A u \in Thread \ {t} : call'[u] = call[u]
  BY <1>1, <1>2, Zenon DEF Goto, Calls
<1>3. ASSUME NEW l, NEW s, GotoWith(t, l, s)
      PROVE  /\ call'[t].pc = l /\ call'[t].old = s
             /\ \A u \in Thread \ {t} : call'[u] = call[u]
  BY <1>1, <1>3, Zenon DEF GotoWith, Calls
<1>4. ASSUME NEW l, GotoDone(t, l)
      PROVE  call'[t].pc = l /\ \A u \in Thread \ {t} : call'[u] = call[u]
  BY <1>1, <1>4, Zenon DEF GotoDone, Idle
<1>5. ASSUME Return(t)
      PROVE  call'[t].pc = "idle" /\ \A u \in Thread \ {t} : call'[u] = call[u]
  BY <1>1, <1>5, Zenon DEF Return, Idle
<1> QED
  BY <1>2, <1>3, <1>4, <1>5, Zenon

\* Every step of a thread and of destroy and init keeps the invariant.
LEMMA NextInv == Inv /\ [Next]_vars => Inv'
<1> SUFFICES ASSUME Inv, [Next]_vars PROVE Inv'
  BY Zenon
<1> DEFINE Rest == /\ MutualExclusion /\ CounterIsDepth /\ OwnerHolds
                   /\ WordTellsHolder /\ Paths /\ OwnerKnown /\ NormalIsFlat
<1>0. TypeOK /\ TypeOK' /\ Rest
  BY NextTypeOK, Zenon DEF Inv
<1> USE MutexAssumption DEF MutualExclusion, CounterIsDepth, OwnerHolds, WordTellsHolder, Paths,
        OwnerKnown, NormalIsFlat, Holders, Normal, Word
<1>1. ASSUME NEW t \in Thread, NormalMutexTryLock(t), UNCHANGED <<type, LP64>> PROVE Rest'
  BY <1>0, <1>1, CallStep, SMTT(30)
     DEF TypeOK, States, Unlocked, Uncontended, Contended, Destroyed, NormalMutexTryLock
<1>2. ASSUME NEW t \in Thread, NormalMutexTryLockBusy(t), UNCHANGED <<type, LP64>> PROVE Rest'
  BY <1>0, <1>2, CallStep
     DEF TypeOK, States, Unlocked, Uncontended, Contended, Destroyed, NormalMutexTryLockBusy
<1>3. ASSUME NEW t \in Thread, NormalMutexSwap(t), UNCHANGED <<type, LP64>> PROVE Rest'
  <2>1. Normal /\ state # Destroyed /\ call'[t].pc \in {"idle", "wait"}
        /\ \A u \in Thread \ {t} : call'[u] = call[u]
    BY <1>0, <1>3, CallStep DEF NormalMutexSwap, Destroyed
  <2>2. CASE state = Unlocked
    BY <1>0, <1>3, <2>1, <2>2 DEF TypeOK, Unlocked, Contended, Destroyed, NormalMutexSwap
  <2>3. CASE state # Unlocked
    <3>1. state.lock \in {"uncontended", "contended"} /\ state.counter = 0
      BY <1>0, <2>1, <2>3 DEF TypeOK, States, LockBits, Unlocked, Destroyed
    <3> QED
      BY <1>0, <1>3, <2>1, <2>3, <3>1 DEF TypeOK, Contended, Destroyed, NormalMutexSwap
  <2> QED
    BY <2>2, <2>3, Zenon
<1>4. ASSUME NEW t \in Thread, LockCheckOwner(t), UNCHANGED <<type, LP64>> PROVE Rest'
  BY <1>0, <1>4, CallStep, SMTT(30)
     DEF TypeOK, States, Unlocked, Uncontended, Contended, Destroyed, LockCheckOwner
<1>5. ASSUME NEW t \in Thread, LockFast(t), UNCHANGED <<type, LP64>> PROVE Rest'
  BY <1>0, <1>5, CallStep DEF TypeOK, States, Unlocked, Uncontended, Contended, Destroyed, LockFast
<1>6. ASSUME NEW t \in Thread, TryLockExchange(t), UNCHANGED <<type, LP64>> PROVE Rest'
  BY <1>0, <1>6, CallStep, SMTT(30)
     DEF TypeOK, States, Unlocked, Uncontended, Contended, Destroyed, TryLockExchange
<1>7. ASSUME NEW t \in Thread, StoreOwner(t), UNCHANGED <<type, LP64>> PROVE Rest'
  BY <1>0, <1>7, CallStep
     DEF TypeOK, States, Unlocked, Uncontended, Contended, Destroyed, StoreOwner
<1>8. ASSUME NEW t \in Thread, LockLoop(t), UNCHANGED <<type, LP64>> PROVE Rest'
  BY <1>0, <1>8, CallStep, SMTT(30)
     DEF TypeOK, States, Unlocked, Uncontended, Contended, Destroyed, LockLoop, ToWait,
         FlipContention
<1>9. ASSUME NEW t \in Thread, LoadOwner(t), UNCHANGED <<type, LP64>> PROVE Rest'
  BY <1>0, <1>9, CallStep, SMTT(30) DEF TypeOK, States, Unlocked, Uncontended, Contended, Destroyed, LoadOwner
<1>10. ASSUME NEW t \in Thread, FutexWait(t), UNCHANGED <<type, LP64>> PROVE Rest'
  BY <1>0, <1>10, CallStep, SMTT(30)
     DEF TypeOK, States, Unlocked, Uncontended, Contended, Destroyed, FutexWait, Woken
<1>11. ASSUME NEW t \in Thread, Reload(t), UNCHANGED <<type, LP64>> PROVE Rest'
  BY <1>0, <1>11, CallStep DEF TypeOK, States, Unlocked, Uncontended, Contended, Destroyed, Reload
<1>12. ASSUME NEW t \in Thread, UnlockCheckOwner(t), UNCHANGED <<type, LP64>> PROVE Rest'
  BY <1>0, <1>12, CallStep, SMTT(30)
     DEF TypeOK, States, Unlocked, Uncontended, Contended, Destroyed, UnlockCheckOwner
<1>13. ASSUME NEW t \in Thread, UnlockRelease(t), UNCHANGED <<type, LP64>> PROVE Rest'
  BY <1>0, <1>13, CallStep, SMTT(30)
     DEF TypeOK, States, Unlocked, Uncontended, Contended, Destroyed, UnlockRelease
<1>14. ASSUME NEW t \in Thread, SpuriousReturn(t), UNCHANGED <<type, LP64>> PROVE Rest'
  BY <1>0, <1>14, CallStep, SMTT(30)
     DEF TypeOK, States, Unlocked, Uncontended, Contended, Destroyed, SpuriousReturn, Woken
<1>15. ASSUME NEW t \in Thread, TimeOut(t), UNCHANGED <<type, LP64>> PROVE Rest'
  BY <1>0, <1>15, CallStep, SMTT(30) DEF TypeOK, States, Unlocked, Uncontended, Contended, Destroyed, TimeOut
<1>16. ASSUME NEW t \in Thread, NEW o \in Ops, Begin(t, o), UNCHANGED <<type, LP64>> PROVE Rest'
  <2>1. /\ call'[t].pc = IF ~Normal THEN "owner" ELSE IF o = "unlock" THEN "release" ELSE "try"
        /\ call'[t].old = IF Normal THEN call[t].old ELSE state
        /\ \A u \in Thread \ {t} : call'[u] = call[u]
    BY <1>0, <1>16 DEF Begin, TypeOK, Calls
  <2> QED
    BY <1>0, <1>16, <2>1 DEF TypeOK, States, Destroyed, Begin, Permitted
<1>17. ASSUME NEW t \in Thread, FutexWake(t), UNCHANGED <<type, LP64>> PROVE Rest'
  <2>1. CASE Return(t)
    BY <1>0, <1>17, <2>1, CallStep DEF TypeOK, States, FutexWake
  <2>2. ASSUME NEW u \in Asleep, call' = [call EXCEPT ![t] = Idle, ![u].pc = Woken]
        PROVE  Rest'
    <3>1. /\ u # t /\ call'[t].pc = "idle" /\ call[u].pc = "asleep"
          /\ call'[u].pc = Woken /\ \A v \in Thread \ {t, u} : call'[v] = call[v]
      BY <1>0, <1>17, <2>2 DEF TypeOK, Calls, Idle, Asleep, FutexWake
    <3> QED
      BY <1>0, <1>17, <2>2, <3>1 DEF TypeOK, States, Asleep, FutexWake, Woken
  <2> QED
    BY <1>17, <2>1, <2>2, Zenon DEF FutexWake
<1>18. ASSUME Destroy, UNCHANGED <<type, LP64>> PROVE Rest'
  BY <1>0, <1>18, Zenon DEF TypeOK, States, Unlocked, Destroyed, Destroy
<1>19. ASSUME Reinit, UNCHANGED <<type, LP64>> PROVE Rest'
  BY <1>0, <1>19, Zenon DEF TypeOK, States, Unlocked, Destroyed, Reinit
<1>20. ASSUME UNCHANGED vars PROVE Rest'
  BY <1>0, <1>20, ZenonT(30) DEF vars, Destroyed
<1> HIDE DEF Rest
<1>21. Rest'
  BY <1>1, <1>2, <1>3, <1>4, <1>5, <1>6, <1>7, <1>8, <1>9, <1>10, <1>11, <1>12, <1>13, <1>14,
     <1>15, <1>16, <1>17, <1>18, <1>19, <1>20, Zenon, Zenon
  DEF Next, Step, Inside, Lock, TimedLock, TryLock, Unlock, Ops
<1> QED
  BY <1>0, <1>21, Zenon DEF Inv, Rest

\* A mutex of any type keeps exclusion, depth, owner and lock bits together.
THEOREM MutexInvariant == Spec => []Inv
  BY InitInv, NextInv, PTL DEF Spec

\* The counter field of a recursive mutex is the depth of its holder less one,
\* for any number of threads that flip its lock bits and any counter width.
THEOREM MutexCounterIsDepth == Spec => []CounterIsDepth
<1>1. Inv => CounterIsDepth
  BY Zenon DEF Inv
<1> QED
  BY <1>1, MutexInvariant, PTL

\* No holder of a recursive or errorcheck mutex ever waits for itself: the owner
\* test without the lock never misses a holder.
THEOREM MutexNoSelfDeadlock == Spec => []NoSelfDeadlock
<1>1. Inv => NoSelfDeadlock
  <2> SUFFICES ASSUME Inv, ~Normal, NEW t \in Holders,
                      call[t].pc \in {"swap", "loop", "loadOwner", "wait", "asleep", "reload"}
               PROVE  FALSE
    BY Zenon DEF NoSelfDeadlock
  <2>1. t \in Thread /\ depth[t] > 0
    BY Zenon DEF Holders
  <2>2. call[t].pc # "swap"
    BY <2>1, Zenon DEF Inv, Paths
  <2> QED
    BY <2>1, <2>2 DEF Inv, OwnerKnown
<1> QED
  BY <1>1, MutexInvariant, PTL

\* Every step on a mutex of any type acquires, releases or leaves alone an
\* exclusive lock.
THEOREM MutexImplementsAbstractLock == Spec => ImplementsAbstractLock
<1>1. Init => Abstract!Init
  BY DEF Init, Abstract!Init, Holders
<1>2. Inv /\ [Next]_vars => [Abstract!Next]_Holders
  <2> SUFFICES ASSUME Inv, Next PROVE Abstract!Next \/ Holders' = Holders
    BY Zenon DEF Holders, vars
  <2>0. /\ TypeOK /\ MutualExclusion /\ OwnerHolds /\ OwnerKnown
        /\ state = Unlocked => Holders = {}
    BY DEF Inv, WordTellsHolder, Unlocked, Word
  <2>1. ASSUME NEW t \in Thread,
               NormalMutexTryLock(t) \/ NormalMutexSwap(t) \/ LockFast(t)
                   \/ TryLockExchange(t) \/ LockLoop(t)
        PROVE  Abstract!Next \/ Holders' = Holders
    <3>1. \/ state = Unlocked /\ depth' = [depth EXCEPT ![t] = 1]
          \/ UNCHANGED depth
      BY <2>1, Zenon DEF NormalMutexTryLock, NormalMutexSwap, LockFast, TryLockExchange, LockLoop
    <3>2. CASE state = Unlocked /\ depth' = [depth EXCEPT ![t] = 1]
      <4>1. Holders = {} /\ Holders' = {t}
        BY <2>0, <3>2 DEF Holders, TypeOK
      <4> QED
        BY <4>1, Zenon DEF Abstract!Next, Abstract!Acquire
    <3>3. CASE UNCHANGED depth
      BY <3>3, Zenon DEF Holders
    <3> QED
      BY <3>1, <3>2, <3>3, Zenon
  <2>2. ASSUME NEW t \in Thread, UnlockRelease(t)
        PROVE  Abstract!Next \/ Holders' = Holders
    <3>1. depth[t] = 1 /\ depth' = [depth EXCEPT ![t] = 0]
      BY <2>0, <2>2, Zenon DEF UnlockRelease, OwnerKnown
    <3>2. Holders = {t} /\ Holders' = {}
      BY <2>0, <3>1 DEF Holders, TypeOK, MutualExclusion
    <3> QED
      BY <3>2, Zenon DEF Abstract!Next, Abstract!Release
  <2>3. ASSUME NEW t \in Thread, LockCheckOwner(t) \/ UnlockCheckOwner(t)
        PROVE  Holders' = Holders
    <3>1. CASE UNCHANGED depth
      BY <3>1, Zenon DEF Holders
    <3>2. CASE ~UNCHANGED depth
      <4>1. depth[t] > 0 /\ \/ depth' = [depth EXCEPT ![t] = @ + 1]
                            \/ depth' = [depth EXCEPT ![t] = @ - 1] /\ state.counter # 0
        BY <2>0, <2>3, <3>2, Zenon DEF LockCheckOwner, UnlockCheckOwner, OwnerHolds, OwnerKnown
      <4>2. state.counter # 0 => depth[t] > 1
        BY <2>0, <4>1
           DEF Inv, CounterIsDepth, WordTellsHolder, Destroyed, Word, Holders, TypeOK, States
      <4> QED
        BY <2>0, <4>1, <4>2 DEF Holders, TypeOK
    <3> QED
      BY <3>1, <3>2, Zenon
  <2>4. ASSUME NEW t \in Thread,
               NormalMutexTryLockBusy(t) \/ StoreOwner(t) \/ LoadOwner(t) \/ FutexWait(t)
                   \/ Reload(t) \/ FutexWake(t) \/ SpuriousReturn(t) \/ TimeOut(t)
                   \/ Lock(t) \/ TimedLock(t) \/ TryLock(t) \/ Unlock(t)
        PROVE  Holders' = Holders
    BY <2>4, Zenon DEF Holders, NormalMutexTryLockBusy, StoreOwner, LoadOwner, FutexWait, Reload,
                FutexWake, SpuriousReturn, TimeOut, Lock, TimedLock, TryLock, Unlock, Begin
  <2>5. CASE Destroy \/ Reinit
    BY <2>5, Zenon DEF Holders, Destroy, Reinit
  <2> QED
    BY <2>1, <2>2, <2>3, <2>4, <2>5, Zenon DEF Next, Step, Inside
<1> QED
  BY <1>1, <1>2, MutexInvariant, PTL DEF Spec, ImplementsAbstractLock, Abstract!Spec

\* What makes a wake certain: threads wait for nothing but a contended word.
Wakes ==
    /\ NoLostWakeup
    /\ \A t \in Thread : call[t].pc \in {"loadOwner", "wait"} => call[t].old.lock = "contended"

\* Every step keeps the promise of a wake to those asleep.
LEMMA NextWakes == Inv /\ Wakes /\ [Next]_vars => Wakes'
<1> SUFFICES ASSUME Inv, Wakes, [Next]_vars PROVE Wakes'
  BY Zenon
<1>0. TypeOK /\ Wakes
  BY Zenon DEF Inv
<1> USE DEF Wakes, NoLostWakeup, Asleep, Word
<1>1. ASSUME NEW t \in Thread, NormalMutexTryLock(t), UNCHANGED <<type, LP64>> PROVE Wakes'
  BY <1>0, <1>1, CallStep, SMTT(30) DEF TypeOK, States, Unlocked, Uncontended, Contended, NormalMutexTryLock
<1>2. ASSUME NEW t \in Thread, NormalMutexTryLockBusy(t), UNCHANGED <<type, LP64>> PROVE Wakes'
  BY <1>0, <1>2, CallStep
     DEF TypeOK, States, Unlocked, Uncontended, Contended, NormalMutexTryLockBusy
<1>3. ASSUME NEW t \in Thread, NormalMutexSwap(t), UNCHANGED <<type, LP64>> PROVE Wakes'
  BY <1>0, <1>3, CallStep DEF TypeOK, States, Unlocked, Uncontended, Contended, NormalMutexSwap
<1>4. ASSUME NEW t \in Thread, LockCheckOwner(t), UNCHANGED <<type, LP64>> PROVE Wakes'
  BY <1>0, <1>4, CallStep, SMTT(30) DEF TypeOK, States, Unlocked, Uncontended, Contended, LockCheckOwner
<1>5. ASSUME NEW t \in Thread, LockFast(t), UNCHANGED <<type, LP64>> PROVE Wakes'
  BY <1>0, <1>5, CallStep DEF TypeOK, States, Unlocked, Uncontended, Contended, LockFast
<1>6. ASSUME NEW t \in Thread, TryLockExchange(t), UNCHANGED <<type, LP64>> PROVE Wakes'
  BY <1>0, <1>6, CallStep DEF TypeOK, States, Unlocked, Uncontended, Contended, TryLockExchange
<1>7. ASSUME NEW t \in Thread, StoreOwner(t), UNCHANGED <<type, LP64>> PROVE Wakes'
  BY <1>0, <1>7, CallStep DEF TypeOK, States, Unlocked, Uncontended, Contended, StoreOwner
<1>8. ASSUME NEW t \in Thread, LockLoop(t), UNCHANGED <<type, LP64>> PROVE Wakes'
  BY <1>0, <1>8, CallStep, SMTT(30)
     DEF TypeOK, States, Unlocked, Uncontended, Contended, LockLoop, ToWait, FlipContention
<1>9. ASSUME NEW t \in Thread, FutexWait(t), UNCHANGED <<type, LP64>> PROVE Wakes'
  BY <1>0, <1>9, CallStep
     DEF TypeOK, States, Unlocked, Uncontended, Contended, FutexWait, FutexWordIsOld, Woken
<1>10. ASSUME NEW t \in Thread, Reload(t), UNCHANGED <<type, LP64>> PROVE Wakes'
  BY <1>0, <1>10, CallStep DEF TypeOK, States, Unlocked, Uncontended, Contended, Reload
<1>11. ASSUME NEW t \in Thread, UnlockCheckOwner(t), UNCHANGED <<type, LP64>> PROVE Wakes'
  BY <1>0, <1>11, CallStep DEF TypeOK, States, Unlocked, Uncontended, Contended, UnlockCheckOwner
<1>12. ASSUME NEW t \in Thread, UnlockRelease(t), UNCHANGED <<type, LP64>> PROVE Wakes'
  BY <1>0, <1>12, CallStep, SMTT(30) DEF TypeOK, States, Unlocked, Uncontended, Contended, UnlockRelease
<1>13. ASSUME NEW t \in Thread, SpuriousReturn(t), UNCHANGED <<type, LP64>> PROVE Wakes'
  BY <1>0, <1>13, CallStep
     DEF TypeOK, States, Unlocked, Uncontended, Contended, SpuriousReturn, Woken
<1>14. ASSUME NEW t \in Thread, TimeOut(t), UNCHANGED <<type, LP64>> PROVE Wakes'
  BY <1>0, <1>14, CallStep DEF TypeOK, States, Unlocked, Uncontended, Contended, TimeOut
<1>15. ASSUME NEW t \in Thread, NEW o \in Ops, Begin(t, o), UNCHANGED <<type, LP64>> PROVE Wakes'
  <2>1. /\ call'[t].pc \in {"owner", "release", "try"} /\ call[t].pc = "idle" /\ state' = state
        /\ \A u \in Thread \ {t} : call'[u] = call[u]
    BY <1>0, <1>15, Zenon DEF Begin, TypeOK, Calls
  <2> QED
    BY <1>0, <2>1
<1>16. ASSUME NEW t \in Thread, LoadOwner(t), UNCHANGED <<type, LP64>> PROVE Wakes'
  <2>1. /\ call'[t].pc = "wait" /\ call'[t].old = call[t].old
        /\ call[t].pc = "loadOwner" /\ state' = state
        /\ \A u \in Thread \ {t} : call'[u] = call[u]
    BY <1>0, <1>16, Zenon DEF LoadOwner, TypeOK, Calls
  <2> QED
    BY <1>0, <2>1
<1>17. ASSUME NEW t \in Thread, FutexWake(t), UNCHANGED <<type, LP64>> PROVE Wakes'
  <2>1. CASE Asleep = {} /\ Return(t)
    BY <1>0, <1>17, <2>1, CallStep DEF FutexWake
  <2>2. ASSUME NEW u \in Asleep, call' = [call EXCEPT ![t] = Idle, ![u].pc = Woken]
        PROVE  Wakes'
    <3>1. /\ u # t /\ u \in Thread /\ call'[t].pc = "idle" /\ call[u].pc = "asleep"
          /\ call'[u].pc \in {"swap", "reload"} /\ state' = state
          /\ \A v \in Thread \ {t, u} : call'[v] = call[v]
      BY <1>0, <1>17, <2>2 DEF TypeOK, Calls, Idle, FutexWake, Woken
    <3> QED
      BY <1>0, <3>1, Zenon
  <2> QED
    BY <1>17, <2>1, <2>2, Zenon DEF FutexWake
<1>18. ASSUME Destroy \/ Reinit, UNCHANGED <<type, LP64>> PROVE Wakes'
  BY <1>0, <1>18 DEF TypeOK, Unlocked, Destroyed, Destroy, Reinit
<1>19. ASSUME UNCHANGED vars PROVE Wakes'
  BY <1>0, <1>19, Zenon DEF vars
<1> QED
  <2> HIDE DEF Wakes
  <2> QED
    BY <1>1, <1>2, <1>3, <1>4, <1>5, <1>6, <1>7, <1>8, <1>9, <1>10, <1>11, <1>12, <1>13, <1>14,
       <1>15, <1>16, <1>17, <1>18, <1>19, Zenon, Zenon
    DEF Next, Step, Inside, Lock, TimedLock, TryLock, Unlock, Ops

\* A thread asleep on a mutex of any type, in any build, has a wake promised by
\* the state or a thread on its way that wakes it or looks after it.
THEOREM MutexNoLostWakeup == Spec => []NoLostWakeup
<1>1. Init => Wakes
  BY DEF Init, Wakes, NoLostWakeup, Asleep, Idle
<1>2. Wakes => NoLostWakeup
  BY Zenon DEF Wakes
<1> QED
  BY <1>1, <1>2, MutexInvariant, NextWakes, PTL DEF Spec

-----------------------------------------------------------------------------
\* Where a worker is once the exchange in pthread_exit has decided who frees it.
Exiting == {"terminate", "ending", "remove", "teardown", "kernel", "dead"}

\* Where a client is in a call about a worker.
InCall == {"creationLock", "clone", "init", "add", "release", "find", "join", "wait",
           "asleep", "free", "detach"}

\* What a client at pc in a call knows of its worker w.
Knows(w, pc) ==
    /\ pc \in {"creationLock", "clone"} =>
          w \in mapped /\ where[w] = "none" /\ w \notin g_thread_list
    /\ pc \in {"init", "add", "release"} => where[w] = "handshake"
    /\ pc \in {"creationLock", "clone", "init"} => w \notin joinable
    /\ pc \in {"find", "join", "detach"} =>
          /\ where[w] # "none" /\ w \notin joinable
          /\ join_state[w] \in {"NOT_JOINED", "EXITED_NOT_JOINED"}
    /\ pc \in {"wait", "asleep", "free"} =>
          where[w] # "none" /\ w \notin joinable /\ join_state[w] = "JOINED"
    /\ pc = "free" => where[w] = "dead"

\* A client is in a call about a worker, of which this much is true, or in none.
ClientOK(c) ==
    IF client[c].pc \in InCall THEN client[c].w \in Worker /\ Knows(client[c].w, client[c].pc)
    ELSE client[c].w = NoWorker

\* A worker has at most one client inside a call.
OneClient ==
    \A c, d \in Client : client[c].w = client[d].w /\ client[c].w # NoWorker => c = d

\* A worker's mapping, its place on the list and who frees it, by where it is.
Stands(w) ==
    /\ where[w] # "none" => w \in mapped
    /\ where[w] \in {"none", "teardown"} => w \notin g_thread_list
    /\ w \in joinable =>
          where[w] # "none" /\ join_state[w] \in {"NOT_JOINED", "EXITED_NOT_JOINED"}
    /\ where[w] \notin {"none", "dead"} => tid[w]
    /\ where[w] \in Exiting =>
          join_state[w] # "NOT_JOINED" /\ (detached[w] <=> join_state[w] = "DETACHED")
    /\ where[w] \in {"remove", "teardown"} => detached[w] /\ ~clear_tid[w]
    /\ where[w] \in {"kernel", "dead"} => ~detached[w]

\* The types, but for those of the calls.
FieldTypes ==
    /\ mapped \subseteq Worker /\ g_thread_list \subseteq Worker
    /\ joinable \subseteq Worker /\ signalled \subseteq Worker
    /\ join_state \in [Worker -> JoinState]
    /\ terminating \in [Worker -> BOOLEAN] /\ tid \in [Worker -> BOOLEAN]
    /\ clear_tid \in [Worker -> BOOLEAN] /\ detached \in [Worker -> BOOLEAN]
    /\ where \in [Worker -> Place]
    /\ runner \in Client \cup {NoClient} /\ runs \in Nat

LifeInv ==
    /\ FieldTypes /\ client \in [Client -> ClientCalls]
    /\ \A c \in Client : ClientOK(c)
    /\ OneClient
    /\ \A w \in Worker : Stands(w)

-----------------------------------------------------------------------------
\* The state of every worker but w is left alone.
Elsewhere(w) ==
    \A u \in Worker \ {w} :
        /\ where'[u] = where[u] /\ join_state'[u] = join_state[u] /\ tid'[u] = tid[u]
        /\ clear_tid'[u] = clear_tid[u] /\ detached'[u] = detached[u]
        /\ u \in mapped' <=> u \in mapped
        /\ u \in g_thread_list' <=> u \in g_thread_list
        /\ u \in joinable' <=> u \in joinable

\* Clients enter and leave calls about w, and no other.
Enters(w) ==
    \A d \in Client :
        /\ client'[d].w # w => client'[d] = (IF client[d].w = w THEN NoCall ELSE client[d])
        /\ client'[d].w = w => client'[d].pc \in InCall /\ Knows(w, client[d].pc)'

\* A step about one worker keeps the invariant if it does so for that worker
\* and for the client that is in a call about it.
LEMMA LifeStep ==
    ASSUME LifeInv, NEW w \in Worker, FieldTypes', client' \in [Client -> ClientCalls],
           Elsewhere(w), Enters(w), Stands(w)',
           \A c, d \in Client : client'[c].w = w /\ client'[d].w = w => c = d
    PROVE  LifeInv'
<1> USE NobodyAssumption
<1>1. \A u \in Worker : Stands(u)'
  <2> SUFFICES ASSUME NEW u \in Worker, u # w PROVE Stands(u)'
    BY Zenon
  <2>1. Stands(u)
    BY Zenon DEF LifeInv
  <2> QED
    BY <2>1, Zenon DEF Elsewhere, Stands, Exiting
<1>2. ASSUME NEW d \in Client PROVE ClientOK(d)'
  <2>1. CASE client'[d].w = w
    BY <2>1, Zenon DEF Enters, ClientOK, Knows
  <2>2. CASE client'[d].w # w /\ client[d].w = w
    <3>1. client'[d] = NoCall
      BY <2>2, Zenon DEF Enters
    <3> QED
      BY <3>1 DEF NoCall, ClientOK, InCall
  <2>3. CASE client'[d].w # w /\ client[d].w # w
    <3>1. client'[d] = client[d]
      BY <2>3, Zenon DEF Enters
    <3>2. ClientOK(d)
      BY Zenon DEF LifeInv
    <3>3. client[d].w \in Worker /\ Knows(client[d].w, client[d].pc) => Knows(client[d].w, client[d].pc)'
      BY <3>1, <2>3 DEF Knows, Elsewhere
    <3> QED
      BY <3>1, <3>2, <3>3, Zenon DEF ClientOK
  <2> QED
    BY <2>1, <2>2, <2>3, Zenon
<1>3. OneClient'
  <2> SUFFICES ASSUME NEW c \in Client, NEW d \in Client,
                      client'[c].w = client'[d].w, client'[c].w # NoWorker
               PROVE  c = d
    BY Zenon DEF OneClient
  <2>1. CASE client'[c].w = w
    BY <2>1, Zenon
  <2>2. CASE client'[c].w # w
    <3>1. ASSUME NEW e \in Client, client'[e].w # w, client'[e].w # NoWorker
          PROVE  client'[e] = client[e]
      BY <3>1 DEF Enters, NoCall
    <3>2. client'[c] = client[c] /\ client'[d] = client[d]
      BY <2>2, <3>1, Zenon
    <3> QED
      BY <3>2, Zenon DEF LifeInv, OneClient
  <2> QED
    BY <2>1, <2>2, Zenon
<1> QED
  BY <1>1, <1>2, <1>3, Zenon DEF LifeInv

-----------------------------------------------------------------------------
\* A client inside a call about a worker is the only one, and its worker is mapped.
LEMMA Caller ==
    ASSUME LifeInv, NEW c \in Client, client[c].pc \in InCall
    PROVE  /\ client[c].w \in mapped
           /\ Knows(client[c].w, client[c].pc) /\ Stands(client[c].w)
           /\ \A d \in Client \ {c} : client[d].w # client[c].w
<1>1. client[c].w \in Worker /\ Knows(client[c].w, client[c].pc)
  BY Zenon DEF LifeInv, ClientOK
<1>2. Stands(client[c].w)
  BY <1>1, Zenon DEF LifeInv
<1>3. client[c].w \in mapped
  BY <1>1, <1>2, Zenon DEF Knows, Stands, InCall
<1> QED
  BY <1>1, <1>2, <1>3, NobodyAssumption, Zenon DEF LifeInv, OneClient

\* LifeStep for a step of client c, whose call becomes k.
LEMMA ClientLifeStep ==
    ASSUME LifeInv, NEW c \in Client, NEW w \in Worker, NEW k \in ClientCalls,
           client' = [client EXCEPT ![c] = k], FieldTypes', Elsewhere(w), Stands(w)',
           \A d \in Client \ {c} : client[d].w # w,
           \/ k = NoCall /\ client[c].w = w
           \/ k.w = w /\ k.pc \in InCall /\ Knows(w, k.pc)'
    PROVE  LifeInv'
<1> USE NobodyAssumption
<1>1. client'[c] = k /\ \A d \in Client \ {c} : client'[d] = client[d]
  BY Zenon DEF LifeInv
<1>2. Enters(w)
  <2> SUFFICES ASSUME NEW d \in Client
               PROVE  /\ client'[d].w # w => client'[d] = (IF client[d].w = w THEN NoCall ELSE client[d])
                      /\ client'[d].w = w => client'[d].pc \in InCall /\ Knows(w, client[d].pc)'
    BY Zenon DEF Enters
  <2>1. CASE d # c
    BY <1>1, <2>1, Zenon
  <2>2. CASE d = c
    BY <1>1, <2>2 DEF NoCall, Knows
  <2> QED
    BY <2>1, <2>2, Zenon
<1>3. \A d, e \in Client : client'[d].w = w /\ client'[e].w = w => d = e
  BY <1>1, Zenon
<1>4. client' \in [Client -> ClientCalls]
  BY Zenon DEF LifeInv
<1> QED
  BY <1>2, <1>3, <1>4, LifeStep, Zenon

\* A client moves on in its call.
LEMMA ClientMoves ==
    ASSUME LifeInv, NEW c \in Client, client[c].pc \in InCall, NEW w, w = client[c].w,
           NEW l \in InCall, ClientGoto(c, l),
           FieldTypes', Elsewhere(w), Stands(w)', Knows(w, l)'
    PROVE  LifeInv'
<1> DEFINE k == [client[c] EXCEPT !.pc = l]
<1>1. client[c] \in ClientCalls
  BY Zenon DEF LifeInv
<1>2. k \in ClientCalls /\ k.pc = l /\ k.w = w
  BY <1>1, Zenon DEF ClientCalls, InCall
<1>3. client' = [client EXCEPT ![c] = k]
  BY Zenon DEF ClientGoto
<1>4. w \in Worker /\ \A d \in Client \ {c} : client[d].w # w
  BY Caller, Zenon DEF LifeInv, FieldTypes
<1> HIDE DEF k
<1> QED
  BY <1>2, <1>3, <1>4, ClientLifeStep, Zenon

\* A client returns from its call.
LEMMA ClientReturns ==
    ASSUME LifeInv, NEW c \in Client, client[c].pc \in InCall, NEW w, w = client[c].w,
           ClientReturn(c), FieldTypes', Elsewhere(w), Stands(w)'
    PROVE  LifeInv'
<1>1. w \in Worker /\ \A d \in Client \ {c} : client[d].w # w
  BY Caller, Zenon DEF LifeInv, FieldTypes
<1>2. NoCall \in ClientCalls
  BY Zenon DEF NoCall, ClientCalls
<1>3. client' = [client EXCEPT ![c] = NoCall]
  BY Zenon DEF ClientReturn
<1> QED
  BY <1>1, <1>2, <1>3, ClientLifeStep, Zenon

\* A client begins a call about a worker that no client is in a call about.
LEMMA ClientBegins ==
    ASSUME LifeInv, NEW c \in Client, NEW w \in Worker, \A d \in Client : client[d].w # w,
           NEW l \in InCall, NEW k, k = [pc |-> l, w |-> w], client' = [client EXCEPT ![c] = k],
           FieldTypes', Elsewhere(w), Stands(w)', Knows(w, l)'
    PROVE  LifeInv'
<1>1. k \in ClientCalls /\ k.w = w /\ k.pc = l
  BY Zenon DEF ClientCalls, InCall
<1> QED
  BY <1>1, ClientLifeStep, Zenon

\* The steps of pthread_create keep the invariant.
LEMMA LifeCreate ==
    ASSUME LifeInv, NEW c \in Client,
           \/ AllocateThread(c) \/ CreationLock(c) \/ Clone(c)
           \/ InitThread(c) \/ InternalAdd(c) \/ HandshakeRelease(c)
    PROVE  LifeInv'
<1> USE NobodyAssumption DEF InCall
<1>t. FieldTypes
  BY Zenon DEF LifeInv
<1>1. CASE AllocateThread(c)
  <2>1. PICK w \in Worker \ mapped :
          /\ mapped' = mapped \cup {w}
          /\ join_state' = [join_state EXCEPT ![w] = "NOT_JOINED"]
          /\ terminating' = [terminating EXCEPT ![w] = FALSE]
          /\ detached' = [detached EXCEPT ![w] = FALSE]
          /\ client' = [client EXCEPT ![c] = [pc |-> "creationLock", w |-> w]]
    BY <1>1, Zenon DEF AllocateThread
  <2>2. Stands(w)
    BY Zenon DEF LifeInv
  <2>3. \A d \in Client : client[d].w # w
    BY Caller, Zenon DEF LifeInv, ClientOK
  <2>4. FieldTypes'
    BY <1>1, <1>t, <2>1, Zenon DEF AllocateThread, FieldTypes, JoinState
  <2>5. Elsewhere(w) /\ Stands(w)' /\ Knows(w, "creationLock")'
    BY <1>1, <1>t, <2>1, <2>2, ZenonT(30)
       DEF AllocateThread, FieldTypes, Elsewhere, Stands, Knows, Exiting
  <2>6. PICK k : k = [pc |-> "creationLock", w |-> w]
    BY Zenon
  <2> QED
    BY <2>1, <2>3, <2>4, <2>5, <2>6, ClientBegins, Zenon
<1>2. CASE CreationLock(c)
  <2>1. PICK w : w = client[c].w
    BY Zenon
  <2>2. client[c].pc = "creationLock"
    BY <1>2, Zenon DEF CreationLock
  <2>3. w \in Worker /\ Knows(w, "creationLock") /\ Stands(w)
    BY <1>t, <2>1, <2>2, Caller, ZenonT(30) DEF FieldTypes
  <2>4. ClientGoto(c, "clone") /\ FieldTypes'
    BY <1>2, <1>t, <2>1, <2>3, Zenon
       DEF CreationLock, FieldTypes, JoinState, Place
  <2>5. Elsewhere(w) /\ Stands(w)' /\ Knows(w, "clone")'
    BY <1>2, <1>t, <2>1, <2>3, Zenon
       DEF CreationLock, FieldTypes, Elsewhere, Stands, Knows, Exiting
  <2> QED
    BY <2>1, <2>2, <2>4, <2>5, ClientMoves, Zenon
<1>3. CASE Clone(c)
  <2>1. PICK w : w = client[c].w
    BY Zenon
  <2>2. client[c].pc = "clone"
    BY <1>3, Zenon DEF Clone
  <2>3. w \in Worker /\ Knows(w, "clone") /\ Stands(w)
    BY <1>t, <2>1, <2>2, Caller, ZenonT(30) DEF FieldTypes
  <2>4. CASE ClientGoto(c, "init") /\ tid' = [tid EXCEPT ![w] = TRUE]
               /\ clear_tid' = [clear_tid EXCEPT ![w] = TRUE]
               /\ where' = [where EXCEPT ![w] = "handshake"] /\ mapped' = mapped
    <3>1. ClientGoto(c, "init") /\ FieldTypes'
      BY <1>3, <1>t, <2>1, <2>3, <2>4, Zenon
         DEF Clone, FieldTypes, JoinState, Place
    <3>2. Elsewhere(w) /\ Stands(w)' /\ Knows(w, "init")'
      BY <1>3, <1>t, <2>1, <2>3, <2>4, ZenonT(30)
         DEF Clone, FieldTypes, Elsewhere, Stands, Knows, Exiting
    <3> QED
      BY <2>1, <2>2, <3>1, <3>2, ClientMoves, Zenon
  <2>5. CASE ClientReturn(c) /\ mapped' = mapped \ {w} /\ UNCHANGED <<tid, clear_tid, where>>
    <3>1. ClientReturn(c) /\ FieldTypes'
      BY <1>3, <1>t, <2>1, <2>3, <2>5, ZenonT(30)
         DEF Clone, FieldTypes, JoinState, Place
    <3>2. Elsewhere(w) /\ Stands(w)'
      BY <1>3, <1>t, <2>1, <2>3, <2>5, ZenonT(30)
         DEF Clone, FieldTypes, Elsewhere, Stands, Knows, Exiting
    <3> QED
      BY <2>1, <2>2, <3>1, <3>2, ClientReturns, ZenonT(30)
  <2> QED
    BY <1>3, <2>1, <2>4, <2>5, Zenon DEF Clone
<1>4. CASE InitThread(c)
  <2>1. PICK w : w = client[c].w
    BY Zenon
  <2>2. client[c].pc = "init"
    BY <1>4, Zenon DEF InitThread
  <2>3. w \in Worker /\ Knows(w, "init") /\ Stands(w)
    BY <1>t, <2>1, <2>2, Caller, ZenonT(30) DEF FieldTypes
  <2>4. ClientGoto(c, "add") /\ FieldTypes'
    BY <1>4, <1>t, <2>1, <2>3, ZenonT(30)
       DEF InitThread, FieldTypes, JoinState, Place
  <2>5. Elsewhere(w) /\ Stands(w)' /\ Knows(w, "add")'
    BY <1>4, <1>t, <2>1, <2>3, ZenonT(30)
       DEF InitThread, FieldTypes, Elsewhere, Stands, Knows, Exiting
  <2> QED
    BY <2>1, <2>2, <2>4, <2>5, ClientMoves, Zenon
<1>5. CASE InternalAdd(c)
  <2>1. PICK w : w = client[c].w
    BY Zenon
  <2>2. client[c].pc = "add"
    BY <1>5, Zenon DEF InternalAdd
  <2>3. w \in Worker /\ Knows(w, "add") /\ Stands(w)
    BY <1>t, <2>1, <2>2, Caller, ZenonT(30) DEF FieldTypes
  <2>4. ClientGoto(c, "release") /\ FieldTypes'
    BY <1>5, <1>t, <2>1, <2>3, Zenon
       DEF InternalAdd, FieldTypes, JoinState, Place
  <2>5. Elsewhere(w) /\ Stands(w)' /\ Knows(w, "release")'
    BY <1>5, <1>t, <2>1, <2>3, ZenonT(30)
       DEF InternalAdd, FieldTypes, Elsewhere, Stands, Knows, Exiting
  <2> QED
    BY <2>1, <2>2, <2>4, <2>5, ClientMoves, Zenon
<1>6. CASE HandshakeRelease(c)
  <2>1. PICK w : w = client[c].w
    BY Zenon
  <2>2. client[c].pc = "release"
    BY <1>6, Zenon DEF HandshakeRelease
  <2>3. w \in Worker /\ Knows(w, "release") /\ Stands(w)
    BY <1>t, <2>1, <2>2, Caller, ZenonT(30) DEF FieldTypes
  <2>4. ClientReturn(c) /\ FieldTypes'
    BY <1>6, <1>t, <2>1, <2>3, Zenon
       DEF HandshakeRelease, FieldTypes, JoinState, Place
  <2>5. Elsewhere(w) /\ Stands(w)'
    BY <1>6, <1>t, <2>1, <2>3, Zenon
       DEF HandshakeRelease, FieldTypes, Elsewhere, Stands, Knows, Exiting
  <2> QED
    BY <2>1, <2>2, <2>4, <2>5, ClientReturns, Zenon
<1> QED
  BY <1>1, <1>2, <1>3, <1>4, <1>5, <1>6, Zenon

\* The steps of pthread_join and pthread_detach keep the invariant.
LEMMA LifeJoin ==
    ASSUME LifeInv, NEW c \in Client,
           \/ PthreadJoin(c) \/ PthreadDetach(c) \/ DetachExchange(c)
           \/ FindAgain(c) \/ JoinExchange(c) \/ JoinWait(c)
           \/ JoinSpurious(c) \/ JoinFree(c)
    PROVE  LifeInv'
<1> USE NobodyAssumption DEF InCall
<1>t. FieldTypes
  BY Zenon DEF LifeInv
<1>1. CASE PthreadJoin(c)
  <2>1. PICK w \in Worker :
          /\ Claimable(w) /\ w \in g_thread_list
          /\ joinable' = joinable \ {w}
          /\ client' = [client EXCEPT ![c] = [pc |-> "join", w |-> w]]
    BY <1>1, Zenon DEF PthreadJoin
  <2>2. Stands(w)
    BY Zenon DEF LifeInv
  <2>3. w \in joinable /\ \A d \in Client : client[d].w # w
    BY <2>1, Zenon DEF Claimable
  <2>4. FieldTypes'
    BY <1>1, <1>t, <2>1, Zenon DEF PthreadJoin, FieldTypes
  <2>5. Elsewhere(w) /\ Stands(w)' /\ Knows(w, "join")'
    BY <1>1, <1>t, <2>1, <2>2, <2>3, Zenon
       DEF PthreadJoin, FieldTypes, Elsewhere, Stands, Knows, Exiting
  <2>6. PICK k : k = [pc |-> "join", w |-> w]
    BY Zenon
  <2> QED
    BY <2>1, <2>3, <2>4, <2>5, <2>6, ClientBegins, Zenon
<1>2. CASE PthreadDetach(c)
  <2>1. PICK w \in Worker :
          /\ Claimable(w) /\ w \in g_thread_list
          /\ joinable' = joinable \ {w}
          /\ client' = [client EXCEPT ![c] = [pc |-> "detach", w |-> w]]
    BY <1>2, Zenon DEF PthreadDetach
  <2>2. Stands(w)
    BY Zenon DEF LifeInv
  <2>3. w \in joinable /\ \A d \in Client : client[d].w # w
    BY <2>1, Zenon DEF Claimable
  <2>4. FieldTypes'
    BY <1>2, <1>t, <2>1, Zenon DEF PthreadDetach, FieldTypes
  <2>5. Elsewhere(w) /\ Stands(w)' /\ Knows(w, "detach")'
    BY <1>2, <1>t, <2>1, <2>2, <2>3, Zenon
       DEF PthreadDetach, FieldTypes, Elsewhere, Stands, Knows, Exiting
  <2>6. PICK k : k = [pc |-> "detach", w |-> w]
    BY Zenon
  <2> QED
    BY <2>1, <2>3, <2>4, <2>5, <2>6, ClientBegins, Zenon
<1>3. CASE DetachExchange(c)
  <2>1. PICK w : w = client[c].w
    BY Zenon
  <2>2. client[c].pc = "detach"
    BY <1>3, Zenon DEF DetachExchange
  <2>3. w \in Worker /\ Knows(w, "detach") /\ Stands(w)
    BY <1>t, <2>1, <2>2, Caller, ZenonT(30) DEF FieldTypes
  <2>4. CASE /\ join_state[w] = "NOT_JOINED" /\ ClientReturn(c)
             /\ join_state' = [join_state EXCEPT ![w] = "DETACHED"]
    <3>1. ClientReturn(c) /\ FieldTypes'
      BY <1>3, <1>t, <2>1, <2>3, <2>4, Zenon
         DEF DetachExchange, FieldTypes, JoinState, Place
    <3>2. Elsewhere(w) /\ Stands(w)'
      BY <1>3, <1>t, <2>1, <2>3, <2>4, Zenon
         DEF DetachExchange, FieldTypes, Elsewhere, Stands, Knows, Exiting
    <3> QED
      BY <2>1, <2>2, <3>1, <3>2, ClientReturns, Zenon
  <2>5. CASE ClientGoto(c, "find") /\ UNCHANGED join_state
    <3>1. ClientGoto(c, "find") /\ FieldTypes'
      BY <1>3, <1>t, <2>1, <2>3, <2>5, Zenon
         DEF DetachExchange, FieldTypes, JoinState, Place
    <3>2. Elsewhere(w) /\ Stands(w)' /\ Knows(w, "find")'
      BY <1>3, <1>t, <2>1, <2>3, <2>5, Zenon
         DEF DetachExchange, FieldTypes, Elsewhere, Stands, Knows, Exiting
    <3> QED
      BY <2>1, <2>2, <3>1, <3>2, ClientMoves, Zenon
  <2> QED
    BY <1>3, <2>1, <2>4, <2>5, Zenon DEF DetachExchange
<1>4. CASE FindAgain(c)
  <2>1. PICK w : w = client[c].w
    BY Zenon
  <2>2. client[c].pc = "find"
    BY <1>4, Zenon DEF FindAgain
  <2>3. w \in Worker /\ Knows(w, "find") /\ Stands(w)
    BY <1>t, <2>1, <2>2, Caller, ZenonT(30) DEF FieldTypes
  <2>4. ClientGoto(c, "join") /\ FieldTypes'
    BY <1>4, <1>t, <2>1, <2>3, Zenon
       DEF FindAgain, FieldTypes, JoinState, Place
  <2>5. Elsewhere(w) /\ Stands(w)' /\ Knows(w, "join")'
    BY <1>4, <1>t, <2>1, <2>3, Zenon
       DEF FindAgain, FieldTypes, Elsewhere, Stands, Knows, Exiting
  <2> QED
    BY <2>1, <2>2, <2>4, <2>5, ClientMoves, Zenon
<1>5. CASE JoinExchange(c)
  <2>1. PICK w : w = client[c].w
    BY Zenon
  <2>2. client[c].pc = "join"
    BY <1>5, Zenon DEF JoinExchange
  <2>3. w \in Worker /\ Knows(w, "join") /\ Stands(w)
    BY <1>t, <2>1, <2>2, Caller, ZenonT(30) DEF FieldTypes
  <2>4. ClientGoto(c, "wait") /\ FieldTypes'
    BY <1>5, <1>t, <2>1, <2>3, Zenon
       DEF JoinExchange, FieldTypes, JoinState, Place
  <2>5. Elsewhere(w) /\ Stands(w)' /\ Knows(w, "wait")'
    BY <1>5, <1>t, <2>1, <2>3, Zenon
       DEF JoinExchange, FieldTypes, Elsewhere, Stands, Knows, Exiting
  <2> QED
    BY <2>1, <2>2, <2>4, <2>5, ClientMoves, Zenon
<1>6. CASE JoinWait(c)
  <2>1. PICK w : w = client[c].w
    BY Zenon
  <2>2. client[c].pc = "wait"
    BY <1>6, Zenon DEF JoinWait
  <2>3. w \in Worker /\ Knows(w, "wait") /\ Stands(w)
    BY <1>t, <2>1, <2>2, Caller, ZenonT(30) DEF FieldTypes
  <2>4. CASE ClientGoto(c, "asleep")
    <3>1. ClientGoto(c, "asleep") /\ FieldTypes'
      BY <1>6, <1>t, <2>1, <2>3, <2>4, Zenon
         DEF JoinWait, FieldTypes, JoinState, Place
    <3>2. Elsewhere(w) /\ Stands(w)' /\ Knows(w, "asleep")'
      BY <1>6, <1>t, <2>1, <2>3, <2>4, Zenon
         DEF JoinWait, FieldTypes, Elsewhere, Stands, Knows, Exiting
    <3> QED
      BY <2>1, <2>2, <3>1, <3>2, ClientMoves, Zenon
  <2>5. CASE ~tid[w] /\ ClientGoto(c, "free")
    <3>1. ClientGoto(c, "free") /\ FieldTypes'
      BY <1>6, <1>t, <2>1, <2>3, <2>5, Zenon
         DEF JoinWait, FieldTypes, JoinState, Place
    <3>2. Elsewhere(w) /\ Stands(w)' /\ Knows(w, "free")'
      BY <1>6, <1>t, <2>1, <2>3, <2>5, Zenon
         DEF JoinWait, FieldTypes, Elsewhere, Stands, Knows, Exiting
    <3> QED
      BY <2>1, <2>2, <3>1, <3>2, ClientMoves, Zenon
  <2> QED
    BY <1>6, <2>1, <2>4, <2>5, Zenon DEF JoinWait
<1>7. CASE JoinSpurious(c)
  <2>1. PICK w : w = client[c].w
    BY Zenon
  <2>2. client[c].pc = "asleep"
    BY <1>7, Zenon DEF JoinSpurious
  <2>3. w \in Worker /\ Knows(w, "asleep") /\ Stands(w)
    BY <1>t, <2>1, <2>2, Caller, ZenonT(30) DEF FieldTypes
  <2>4. ClientGoto(c, "wait") /\ FieldTypes'
    BY <1>7, <1>t, <2>1, <2>3, Zenon
       DEF JoinSpurious, FieldTypes, JoinState, Place
  <2>5. Elsewhere(w) /\ Stands(w)' /\ Knows(w, "wait")'
    BY <1>7, <1>t, <2>1, <2>3, ZenonT(30)
       DEF JoinSpurious, FieldTypes, Elsewhere, Stands, Knows, Exiting
  <2> QED
    BY <2>1, <2>2, <2>4, <2>5, ClientMoves, Zenon
<1>8. CASE JoinFree(c)
  <2>1. PICK w : w = client[c].w
    BY Zenon
  <2>2. client[c].pc = "free"
    BY <1>8, Zenon DEF JoinFree
  <2>3. w \in Worker /\ Knows(w, "free") /\ Stands(w)
    BY <1>t, <2>1, <2>2, Caller, ZenonT(30) DEF FieldTypes
  <2>4. ClientReturn(c) /\ FieldTypes'
    BY <1>8, <1>t, <2>1, <2>3, Zenon
       DEF JoinFree, FieldTypes, JoinState, Place
  <2>5. Elsewhere(w) /\ Stands(w)'
    BY <1>8, <1>t, <2>1, <2>3, ZenonT(30)
       DEF JoinFree, FieldTypes, Elsewhere, Stands, Knows, Exiting
  <2> QED
    BY <2>1, <2>2, <2>4, <2>5, ClientReturns, Zenon
<1> QED
  BY <1>1, <1>2, <1>3, <1>4, <1>5, <1>6, <1>7, <1>8, Zenon

-----------------------------------------------------------------------------
\* LifeStep for a step of worker w that leaves the calls alone.
LEMMA WorkerLifeStep ==
    ASSUME LifeInv, NEW w \in Worker, UNCHANGED client, FieldTypes', Elsewhere(w), Stands(w)',
           \A l \in InCall : Knows(w, l) => Knows(w, l)'
    PROVE  LifeInv'
<1> USE NobodyAssumption
<1>1. Enters(w)
  <2> SUFFICES ASSUME NEW d \in Client, client[d].w = w
               PROVE  client[d].pc \in InCall /\ Knows(w, client[d].pc)'
    BY Zenon DEF Enters, Knows
  <2>1. PICK l : l = client[d].pc
    BY Zenon
  <2>2. l \in InCall /\ Knows(w, l)
    BY <2>1, Zenon DEF LifeInv, ClientOK
  <2>3. Knows(w, l)'
    BY <2>2, Zenon
  <2> QED
    BY <2>1, <2>2, <2>3, ZenonT(30) DEF Knows
<1>2. \A d, e \in Client : client'[d].w = w /\ client'[e].w = w => d = e
  BY Zenon DEF LifeInv, OneClient
<1>3. client' \in [Client -> ClientCalls]
  BY Zenon DEF LifeInv
<1> QED
  BY <1>1, <1>2, <1>3, LifeStep, Zenon

\* The steps of a worker keep the invariant.
LEMMA LifeWorker ==
    ASSUME LifeInv, NEW w \in Worker,
           \/ Start(w) \/ ExitJoinState(w) \/ Terminate(w)
           \/ End(w) \/ ExitRemove(w) \/ StackTeardown(w)
           \/ Handler(w) \/ SelfDetach(w)
    PROVE  LifeInv'
<1>1. FieldTypes /\ Stands(w)
  BY Zenon DEF LifeInv
<1> USE DEF Move
<1>2. CASE Start(w)
  <2>1. FieldTypes' /\ UNCHANGED client
    BY <1>1, <1>2, Zenon DEF Start, FieldTypes, JoinState, Place
  <2>2. Elsewhere(w)
    BY <1>1, <1>2, Zenon DEF Start, FieldTypes, Elsewhere
  <2>3. Stands(w)'
    BY <1>1, <1>2, Zenon DEF Start, FieldTypes, JoinState, Stands, Exiting
  <2>4. \A l \in InCall : Knows(w, l) => Knows(w, l)'
    BY <1>1, <1>2, Zenon DEF Start, FieldTypes, Stands, Knows, InCall, Exiting
  <2> QED
    BY <2>1, <2>2, <2>3, <2>4, WorkerLifeStep, Zenon
<1>3. CASE ExitJoinState(w)
  <2>1. FieldTypes' /\ UNCHANGED client
    BY <1>1, <1>3, Zenon DEF ExitJoinState, FieldTypes, JoinState, Place
  <2>2. Elsewhere(w)
    BY <1>1, <1>3, Zenon DEF ExitJoinState, FieldTypes, Elsewhere
  <2>3. Stands(w)'
    BY <1>1, <1>3, Zenon DEF ExitJoinState, FieldTypes, JoinState, Stands, Exiting
  <2>4. \A l \in InCall : Knows(w, l) => Knows(w, l)'
    BY <1>1, <1>3, Zenon DEF ExitJoinState, FieldTypes, Stands, Knows, InCall, Exiting
  <2> QED
    BY <2>1, <2>2, <2>3, <2>4, WorkerLifeStep, Zenon
<1>4. CASE Terminate(w)
  <2>1. FieldTypes' /\ UNCHANGED client
    BY <1>1, <1>4, Zenon DEF Terminate, FieldTypes, JoinState, Place
  <2>2. Elsewhere(w)
    BY <1>1, <1>4, Zenon DEF Terminate, FieldTypes, Elsewhere
  <2>3. Stands(w)'
    BY <1>1, <1>4, Zenon DEF Terminate, FieldTypes, JoinState, Stands, Exiting
  <2>4. \A l \in InCall : Knows(w, l) => Knows(w, l)'
    BY <1>1, <1>4, Zenon DEF Terminate, FieldTypes, Stands, Knows, InCall, Exiting
  <2> QED
    BY <2>1, <2>2, <2>3, <2>4, WorkerLifeStep, Zenon
<1>5. CASE End(w)
  <2>1. FieldTypes' /\ UNCHANGED client
    BY <1>1, <1>5, Zenon DEF End, FieldTypes, JoinState, Place
  <2>2. Elsewhere(w)
    BY <1>1, <1>5, Zenon DEF End, FieldTypes, Elsewhere
  <2>3. Stands(w)'
    BY <1>1, <1>5, Zenon DEF End, FieldTypes, JoinState, Stands, Exiting
  <2>4. \A l \in InCall : Knows(w, l) => Knows(w, l)'
    BY <1>1, <1>5, Zenon DEF End, FieldTypes, Stands, Knows, InCall, Exiting
  <2> QED
    BY <2>1, <2>2, <2>3, <2>4, WorkerLifeStep, Zenon
<1>6. CASE ExitRemove(w)
  <2>1. FieldTypes' /\ UNCHANGED client
    BY <1>1, <1>6, Zenon DEF ExitRemove, FieldTypes, JoinState, Place
  <2>2. Elsewhere(w)
    BY <1>1, <1>6, Zenon DEF ExitRemove, FieldTypes, Elsewhere
  <2>3. Stands(w)'
    BY <1>1, <1>6, Zenon DEF ExitRemove, FieldTypes, JoinState, Stands, Exiting
  <2>4. \A l \in InCall : Knows(w, l) => Knows(w, l)'
    BY <1>1, <1>6, Zenon DEF ExitRemove, FieldTypes, Stands, Knows, InCall, Exiting
  <2> QED
    BY <2>1, <2>2, <2>3, <2>4, WorkerLifeStep, Zenon
<1>7. CASE StackTeardown(w)
  <2>1. FieldTypes' /\ UNCHANGED client
    BY <1>1, <1>7, Zenon DEF StackTeardown, FieldTypes, JoinState, Place
  <2>2. Elsewhere(w)
    BY <1>1, <1>7, Zenon DEF StackTeardown, FieldTypes, Elsewhere
  <2>3. Stands(w)'
    BY <1>1, <1>7, Zenon DEF StackTeardown, FieldTypes, JoinState, Stands, Exiting
  <2>4. \A l \in InCall : Knows(w, l) => Knows(w, l)'
    BY <1>1, <1>7, Zenon DEF StackTeardown, FieldTypes, Stands, Knows, InCall, Exiting
  <2> QED
    BY <2>1, <2>2, <2>3, <2>4, WorkerLifeStep, Zenon
<1>8. CASE Handler(w)
  <2>1. FieldTypes' /\ UNCHANGED client
    BY <1>1, <1>8, Zenon DEF Handler, FieldTypes, JoinState, Place
  <2>2. Elsewhere(w)
    BY <1>1, <1>8, Zenon DEF Handler, FieldTypes, Elsewhere
  <2>3. Stands(w)'
    BY <1>1, <1>8, Zenon DEF Handler, FieldTypes, JoinState, Stands, Exiting
  <2>4. \A l \in InCall : Knows(w, l) => Knows(w, l)'
    BY <1>1, <1>8, Zenon DEF Handler, FieldTypes, Stands, Knows, InCall, Exiting
  <2> QED
    BY <2>1, <2>2, <2>3, <2>4, WorkerLifeStep, Zenon
<1>9. CASE SelfDetach(w)
  <2>1. FieldTypes' /\ UNCHANGED client
    BY <1>1, <1>9, Zenon DEF SelfDetach, FieldTypes, JoinState, Place
  <2>2. Elsewhere(w)
    BY <1>1, <1>9, Zenon DEF SelfDetach, FieldTypes, Elsewhere
  <2>3. Stands(w)'
    BY <1>1, <1>9, Zenon DEF SelfDetach, FieldTypes, JoinState, Stands, Exiting
  <2>4. \A l \in InCall : Knows(w, l) => Knows(w, l)'
    BY <1>1, <1>9, Zenon DEF SelfDetach, FieldTypes, Stands, Knows, InCall, Exiting, Claimable
  <2> QED
    BY <2>1, <2>2, <2>3, <2>4, WorkerLifeStep, Zenon
<1> QED
  BY <1>2, <1>3, <1>4, <1>5, <1>6, <1>7, <1>8, <1>9, Zenon

\* The kernel's exit, which wakes the client that waits, keeps the invariant.
LEMMA LifeKernelExit ==
    ASSUME LifeInv, NEW w \in Worker, KernelExit(w)
    PROVE  LifeInv'
<1>1. FieldTypes /\ Stands(w)
  BY Zenon DEF LifeInv
<1>2. FieldTypes'
  BY <1>1, Zenon DEF KernelExit, Move, FieldTypes, Place
<1>3. Elsewhere(w) /\ Stands(w)'
  BY <1>1, Zenon DEF KernelExit, Move, FieldTypes, Elsewhere, Stands, Exiting
<1>4. ASSUME NEW l \in InCall, Knows(w, l)
      PROVE  Knows(w, l)' /\ (l = "asleep" => Knows(w, "wait")')
  BY <1>1, <1>4, Zenon DEF KernelExit, Move, FieldTypes, Stands, Knows, InCall
<1>5. ASSUME NEW d \in Client
      PROVE  /\ client'[d] \in ClientCalls /\ client'[d].w = client[d].w
             /\ client'[d] = client[d] \/ (client[d].w = w /\ client[d].pc = "asleep" /\ client'[d].pc = "wait")
  <2>1. client[d] \in ClientCalls
    BY Zenon DEF LifeInv
  <2>2. client'[d] = IF client[d] = [pc |-> "asleep", w |-> w] THEN [client[d] EXCEPT !.pc = "wait"]
                   ELSE client[d]
    BY Zenon DEF KernelExit
  <2> QED
    BY <2>1, <2>2 DEF ClientCalls
<1>6. Enters(w)
  <2>1. ASSUME NEW d \in Client, client[d].w = w
        PROVE  client'[d].pc \in InCall /\ Knows(w, client[d].pc)'
    <3>1. PICK l : l = client[d].pc
      BY Zenon
    <3>2. l \in InCall /\ Knows(w, l)
      BY <3>1, <2>1, NobodyAssumption, Zenon DEF LifeInv, ClientOK
    <3>3. Knows(w, l)' /\ (l = "asleep" => Knows(w, "wait")')
      BY <3>2, <1>4, Zenon
    <3>4. client'[d].pc = l \/ (l = "asleep" /\ client'[d].pc = "wait")
      BY <3>1, <1>5, Zenon
    <3> QED
      BY <3>2, <3>3, <3>4, Zenon DEF Knows, InCall
  <2> QED
    BY <2>1, <1>5, Zenon DEF Enters
<1>7. \A d, e \in Client : client'[d].w = w /\ client'[e].w = w => d = e
  BY <1>5, NobodyAssumption DEF LifeInv, OneClient
<1>8. client' \in [Client -> ClientCalls]
  <2>1. client' = [d \in Client |-> IF client[d] = [pc |-> "asleep", w |-> w]
                                    THEN [client[d] EXCEPT !.pc = "wait"] ELSE client[d]]
    BY Zenon DEF KernelExit
  <2> QED
    BY <2>1, <1>5, Zenon
<1> QED
  BY <1>2, <1>3, <1>6, <1>7, <1>8, LifeStep, Zenon

\* android_run_on_all_threads keeps the invariant.
LEMMA LifeRun ==
    ASSUME LifeInv, NEW c \in Client, RunOnAllThreads(c) \/ RunCollect(c)
    PROVE  LifeInv'
<1> USE DEF RunOnAllThreads, RunCollect
<1>1. FieldTypes'
  BY SMTT(30), SMTT(30) DEF LifeInv, FieldTypes
<1>2. /\ UNCHANGED <<mapped, g_thread_list, join_state, tid, clear_tid, where, detached, joinable>>
      /\ \A w \in Worker : Stands(w)'
  BY Zenon DEF LifeInv, Stands
<1>3. PICK k \in ClientCalls :
        client' = [client EXCEPT ![c] = k] /\ k.pc \in {"idle", "collect"} /\ k.w = NoWorker
  <2>1. client[c] \in ClientCalls /\ client[c].w = NoWorker
    BY Zenon DEF LifeInv, ClientOK, InCall
  <2>2. CASE RunOnAllThreads(c)
    <3>1. [client[c] EXCEPT !.pc = "collect"] \in ClientCalls
      BY <2>1, Zenon DEF ClientCalls
    <3> QED
      BY <2>1, <2>2, <3>1, Zenon DEF ClientGoto, ClientCalls
  <2>3. CASE RunCollect(c)
    <3>1. /\ NoCall \in ClientCalls
          /\ NoCall.pc = "idle" /\ NoCall.w = NoWorker
      BY Zenon DEF NoCall, ClientCalls
    <3>2. client' = [client EXCEPT ![c] = NoCall]
      BY <2>3, Zenon DEF ClientReturn
    <3> QED
      BY <3>1, <3>2, Zenon
  <2> QED
    BY <2>2, <2>3, Zenon
<1>4. client' \in [Client -> ClientCalls] /\ client'[c] = k /\ \A d \in Client \ {c} : client'[d] = client[d]
  BY <1>3, Zenon DEF LifeInv
<1>5. ASSUME NEW d \in Client PROVE ClientOK(d)'
  <2>1. ClientOK(d)
    BY Zenon DEF LifeInv
  <2>2. CASE d = c
    BY <1>3, <1>4, <2>2, Zenon DEF ClientOK, InCall
  <2>3. CASE d # c
    BY <1>2, <1>4, <2>1, <2>3, Zenon DEF ClientOK, Knows
  <2> QED
    BY <2>2, <2>3, Zenon
<1>6. OneClient'
  BY <1>3, <1>4, Zenon DEF LifeInv, OneClient
<1> QED
  BY <1>1, <1>2, <1>4, <1>5, <1>6, Zenon DEF LifeInv

-----------------------------------------------------------------------------
\* The invariant holds to begin with.
LEMMA LifeStart == ThreadsInit => LifeInv
<1> SUFFICES ASSUME ThreadsInit PROVE LifeInv
  BY Zenon
<1>1. FieldTypes
  BY Zenon DEF ThreadsInit, FieldTypes, JoinState, Place
<1>2. client \in [Client -> ClientCalls]
      /\ \A c \in Client : client[c].pc = "idle" /\ client[c].w = NoWorker
  BY Zenon DEF ThreadsInit, NoCall, ClientCalls
<1>3. \A w \in Worker : Stands(w)
  BY Zenon DEF ThreadsInit, Stands, Exiting
<1>4. \A c \in Client : ClientOK(c)
  BY <1>2, Zenon DEF ClientOK, InCall
<1> QED
  BY <1>1, <1>2, <1>3, <1>4, Zenon DEF LifeInv, OneClient

\* Every step keeps it.
LEMMA LifeNext == LifeInv /\ [ThreadsNext]_threadVars => LifeInv'
<1> SUFFICES ASSUME LifeInv, [ThreadsNext]_threadVars PROVE LifeInv'
  BY Zenon
<1>1. ASSUME NEW w \in Worker,
             WorkerStep(w) \/ ExitJoinState(w) \/ SelfDetach(w)
      PROVE  LifeInv'
  BY <1>1, LifeWorker, LifeKernelExit, Zenon DEF WorkerStep
<1>2. ASSUME NEW c \in Client,
             \/ AllocateThread(c) \/ PthreadJoin(c) \/ PthreadDetach(c)
             \/ RunOnAllThreads(c) \/ ClientStep(c) \/ JoinSpurious(c)
      PROVE  LifeInv'
  BY <1>2, LifeCreate, LifeJoin, LifeRun, Zenon DEF ClientStep
<1>3. CASE UNCHANGED threadVars
  <2>1. FieldTypes' /\ OneClient' /\ client' \in [Client -> ClientCalls]
    BY <1>3, Zenon DEF LifeInv, FieldTypes, OneClient, threadVars
  <2>2. \A w \in Worker : Stands(w)'
    BY <1>3, Zenon DEF LifeInv, Stands, threadVars
  <2>3. \A c \in Client : ClientOK(c)'
    BY <1>3, ZenonT(30) DEF LifeInv, ClientOK, Knows, threadVars
  <2> QED
    BY <2>1, <2>2, <2>3, Zenon DEF LifeInv
<1> QED
  BY <1>1, <1>2, <1>3, Zenon DEF ThreadsNext

\* The invariant says that nobody uses a thread that is unmapped.
LEMMA LifeSafe == LifeInv => NoUseAfterFree
<1> SUFFICES ASSUME LifeInv PROVE NoUseAfterFree
  BY Zenon
<1>1. \A w \in Worker : where[w] # "none" => w \in mapped
  BY Zenon DEF LifeInv, Stands
<1>2. \A c \in Client : client[c].w # NoWorker => client[c].w \in mapped
  BY Caller, Zenon DEF LifeInv, ClientOK
<1>3. g_thread_list \subseteq mapped
  BY Zenon DEF LifeInv, Stands, FieldTypes, Knows
<1> QED
  BY <1>1, <1>2, <1>3, Zenon DEF NoUseAfterFree

-----------------------------------------------------------------------------
\* The inductive invariant of the life of threads.
THEOREM ThreadsInvariant == ThreadsSpec => []LifeInv
BY LifeStart, LifeNext, PTL DEF ThreadsSpec

\* Whatever the threads, and however the steps of pthread_create, pthread_exit,
\* pthread_join and pthread_detach interleave, nobody uses a thread's
\* pthread_internal_t once it is unmapped.
THEOREM ThreadsNoUseAfterFree == ThreadsSpec => []NoUseAfterFree
BY ThreadsInvariant, LifeSafe, PTL
=============================================================================
