-------------------------- MODULE Waiting_proofs --------------------------
(* Proofs about the primitives that make threads wait for others: semaphores *)
(* for any initial value and any SEM_VALUE_MAX, condition variables, and     *)
(* barriers, for any number of threads.                                      *)
EXTENDS MCSemaphore, FiniteSetTheorems, TLAPS

\* The inductive invariant.
Inv == TypeOK /\ GetValueExact /\ NoLostWakeup

\* sem_init starts with as many credits as its argument says.
LEMMA InitInv == Init => Inv
  BY SemaphoreAssumption
     DEF Init, Inv, TypeOK, Calls, Idle, GetValueExact, SemGetValue, NoLostWakeup, Asleep

\* Every step of waits, posts and the futex keeps the invariant.
LEMMA NextInv == Inv /\ [Next]_vars => Inv'
<1> SUFFICES ASSUME Inv, [Next]_vars PROVE Inv'
  BY Zenon
<1> USE SemaphoreAssumption
    DEF Inv, TypeOK, Calls, Idle, GetValueExact, SemGetValue, NoLostWakeup, Asleep,
        Goto, Return, Taken
<1>1. ASSUME NEW t \in Thread, SemTryWait(t) PROVE Inv'
  BY <1>1 DEF SemTryWait
<1>2. ASSUME NEW t \in Thread, SemWait(t) PROVE Inv'
  BY <1>2, ZenonT(30) DEF SemWait
<1>3. ASSUME NEW t \in Thread, SemTimedWait(t) PROVE Inv'
  <2>1. CASE Taken /\ UNCHANGED call
    BY <1>3, <2>1
  <2>2. CASE ~(Taken /\ UNCHANGED call)
    <3>1. /\ UNCHANGED <<value, credits>>
          /\ call' = [call EXCEPT ![t] = [pc |-> "dec", timed |-> TRUE]]
          /\ call[t].pc = "idle"
      BY <1>3, <2>2, Zenon DEF SemTimedWait
    <3>2. TypeOK' /\ GetValueExact'
      BY <3>1, Zenon
    <3>3. \A u \in Thread : call[u].pc = "wake" => call'[u].pc = "wake"
      BY <3>1, Zenon
    <3>4. Asleep' \subseteq Asleep
      BY <3>1, Zenon
    <3> QED BY <3>1, <3>2, <3>3, <3>4, Zenon
  <2> QED BY <2>1, <2>2, Zenon
<1>4. ASSUME NEW t \in Thread, SemPost(t) PROVE Inv'
  BY <1>4, SMTT(30) DEF SemPost, SemInc
<1>5. ASSUME NEW t \in Thread, SemDec(t) PROVE Inv'
  <2>1. CASE Taken /\ Return(t)
    <3>1. TypeOK' /\ GetValueExact'
      BY <2>1
    <3>2. NoLostWakeup'
      BY <1>5, <2>1 DEF SemDec
    <3> QED BY <3>1, <3>2, Zenon
  <2>2. CASE value <= 0 /\ value' = -1 /\ Goto(t, "wait") /\ UNCHANGED credits
    BY <2>2
  <2> QED BY <1>5, <2>1, <2>2, Zenon DEF SemDec
<1>6. ASSUME NEW t \in Thread, FutexWait(t) PROVE Inv'
  BY <1>6, ZenonT(30) DEF FutexWait
<1>7. ASSUME NEW t \in Thread, FutexWake(t) PROVE Inv'
  BY <1>7, ZenonT(30) DEF FutexWake
<1>8. ASSUME NEW t \in Thread, SpuriousReturn(t) PROVE Inv'
  BY <1>8, Zenon DEF SpuriousReturn
<1>9. ASSUME NEW t \in Thread, Interrupt(t) PROVE Inv'
  <2>1. CASE Return(t)
    BY <1>9, <2>1, Zenon DEF Interrupt
  <2>2. CASE Goto(t, "dec")
    BY <1>9, <2>2, Zenon DEF Interrupt
  <2> QED BY <1>9, <2>1, <2>2, Zenon DEF Interrupt
<1>10. ASSUME NEW t \in Thread, TimeOut(t) PROVE Inv'
  BY <1>10, Zenon DEF TimeOut
<1>11. CASE UNCHANGED vars
  BY <1>11, Zenon DEF vars
<1> QED
  BY <1>1, <1>2, <1>3, <1>4, <1>5, <1>6, <1>7, <1>8, <1>9, <1>10, <1>11, ZenonT(30) DEF Next, Inside

\* Semaphore: the value, the credits and the sleepers always agree.
THEOREM SemaphoreInvariant == Spec => []Inv
  BY InitInv, NextInv, PTL DEF Spec

\* Semaphore: sem_getvalue reports posts less waits, exactly.
THEOREM SemaphoreGetValueExact == Spec => []GetValueExact
<1>1. Inv => GetValueExact
  BY Zenon DEF Inv
<1> QED
  BY <1>1, SemaphoreInvariant, PTL

\* Semaphore: a thread asleep in a wait always has a wake coming with or
\* before the next post.
THEOREM SemaphoreNoLostWakeup == Spec => []NoLostWakeup
<1>1. Inv => NoLostWakeup
  BY Zenon DEF Inv
<1> QED
  BY <1>1, SemaphoreInvariant, PTL

\* Semaphore: every step takes a credit that exists, posts one below
\* SEM_VALUE_MAX, or leaves the credits alone.
THEOREM SemaphoreImplementsAbstract == Spec => ImplementsSemaphore
<1>1. Init => Abstract!Init
  BY Zenon DEF Init, Abstract!Init
<1>2. Inv /\ [Next]_vars => [Abstract!Next]_credits
  <2> SUFFICES ASSUME Inv, [Next]_vars PROVE Abstract!Next \/ credits' = credits
    BY Zenon
  <2> USE SemaphoreAssumption DEF Inv, TypeOK, GetValueExact, SemGetValue
  <2>1. ASSUME Taken PROVE Abstract!Next
    BY <2>1 DEF Taken, Abstract!Next, Abstract!Take
  <2>2. ASSUME NEW t \in Thread, SemPost(t) PROVE Abstract!Next
    BY <2>2 DEF SemPost, Abstract!Next, Abstract!Post
  <2>3. ASSUME NEW t \in Thread, SemTryWait(t) \/ SemTimedWait(t) \/ SemDec(t)
        PROVE Taken \/ credits' = credits
    BY <2>3, Zenon DEF SemTryWait, SemTimedWait, SemDec
  <2>4. ASSUME NEW t \in Thread,
               SemWait(t) \/ FutexWait(t) \/ FutexWake(t)
                 \/ SpuriousReturn(t) \/ Interrupt(t) \/ TimeOut(t)
        PROVE credits' = credits
    BY <2>4, Zenon DEF SemWait, FutexWait, FutexWake, SpuriousReturn, Interrupt, TimeOut
  <2>5. CASE UNCHANGED vars
    BY <2>5, Zenon DEF vars
  <2> QED BY <2>1, <2>2, <2>3, <2>4, <2>5, Zenon DEF Next, Inside
<1> QED
  BY <1>1, <1>2, SemaphoreInvariant, PTL DEF Spec, ImplementsSemaphore, Abstract!Spec
-----------------------------------------------------------------------------
(* The condition variable: what is counted are the threads that have let go  *)
(* of the mutex, or are about to, and whose wait is not over.  Without the    *)
(* count (LP32) there is nothing to take back.                                *)

Waits(t) == user[t].pc \in {"unlock", "wait", "asleep", "uncount"}

Waiters == {t \in Participant : Waits(t)}

CondInv ==
    /\ Cond!TypeOK
    /\ LP64 => waiters = Cardinality(Waiters)
    /\ ~LP64 => \A t \in Participant : user[t].pc \notin {"count", "uncount"}

LEMMA CondCalls ==
    /\ Cond!Idle \in Cond!Calls /\ Cond!Idle.pc = "idle"
    /\ [Cond!Idle EXCEPT !.pc = "test"] \in Cond!Calls /\ [Cond!Idle EXCEPT !.pc = "test"].pc = "test"
    /\ Cond!CounterMod \in Nat \ {0}
<1>1. Cond!CounterMod \in Nat \ {0} /\ 0 \in 0 .. Cond!CounterMod - 1
  BY PulsesAssumption
<1> QED
  BY <1>1, Zenon DEF Cond!Idle, Cond!Calls, Cond!Location

LEMMA CondInit == Cond!Init => CondInv
<1> SUFFICES ASSUME Cond!Init PROVE CondInv
  BY Zenon
<1>1. \A t \in Participant : user[t] = Cond!Idle
  BY Zenon DEF Cond!Init
<1>2. Waiters = {} /\ Cardinality({}) = 0
  BY <1>1, CondCalls, FS_EmptySet, Zenon DEF Waiters, Waits
<1>3. Cond!TypeOK
  <2>1. 0 \in 0 .. Cond!CounterMod - 1
    BY CondCalls
  <2> QED
    BY <2>1, CondCalls, Zenon DEF Cond!Init, Cond!TypeOK
<1> QED
  BY <1>1, <1>2, <1>3, CondCalls, Zenon DEF CondInv, Cond!Init

LEMMA WaitersFinite == IsFiniteSet(Waiters)
  BY ParticipantAssumption, FS_Subset, Zenon DEF Waiters

\* A step of one thread that neither joins the waiters nor leaves them.
LEMMA CondOwn ==
    ASSUME CondInv, NEW t \in Participant, NEW c \in Cond!Calls, user' = [user EXCEPT ![t] = c],
           UNCHANGED <<LP64, waiters>>, counter' \in 0 .. Cond!CounterMod - 1,
           items' \in Nat, produced' \in Nat, mutex' \in Participant \cup {NoThread},
           c.pc \in {"unlock", "wait", "asleep", "uncount"} <=> Waits(t),
           ~LP64 => c.pc \notin {"count", "uncount"}
    PROVE  CondInv'
<1>1. user \in [Participant -> Cond!Calls]
  BY Zenon DEF CondInv, Cond!TypeOK
<1>2. user'[t] = c /\ \A u \in Participant : u # t => user'[u] = user[u]
  BY <1>1, Zenon
<1>3. Cond!TypeOK'
  BY <1>1, Zenon DEF CondInv, Cond!TypeOK
<1>4. Waiters' = Waiters
  BY <1>2, Zenon DEF Waiters, Waits
<1> QED
  BY <1>2, <1>3, <1>4, Zenon DEF CondInv

\* A thread is counted, or no longer.
LEMMA CondCount ==
    ASSUME CondInv, NEW t \in Participant, Cond!CountWaiter(t) \/ Cond!UncountWaiter(t), UNCHANGED LP64
    PROVE  CondInv'
<1>0. /\ user \in [Participant -> Cond!Calls] /\ user[t] \in Cond!Calls /\ waiters \in Nat
      /\ LP64 = TRUE /\ waiters = Cardinality(Waiters)
  BY Zenon DEF CondInv, Cond!TypeOK, Cond!CountWaiter, Cond!UncountWaiter
<1>1. PICK l \in {"unlock", "relock"} :
          /\ user' = [user EXCEPT ![t] = [user[t] EXCEPT !.pc = l]]
          /\ l = "unlock" => user[t].pc = "count" /\ waiters' = waiters + 1
          /\ l = "relock" => user[t].pc = "uncount" /\ waiters' = waiters - 1
  BY Zenon DEF Cond!CountWaiter, Cond!UncountWaiter, Cond!Goto
<1>2. [user[t] EXCEPT !.pc = l] \in Cond!Calls /\ [user[t] EXCEPT !.pc = l].pc = l
  BY <1>0, Zenon DEF Cond!Calls, Cond!Location
<1>3. /\ user'[t] \in Cond!Calls /\ user'[t].pc = l /\ user' \in [Participant -> Cond!Calls]
      /\ \A u \in Participant : u # t => user'[u] = user[u]
  BY <1>0, <1>1, <1>2, Zenon
<1>4. waiters' = Cardinality(Waiters') /\ waiters' \in Nat
  <2>1. CASE l = "unlock"
    <3>1. t \notin Waiters /\ Waiters' = Waiters \cup {t}
      BY <1>1, <1>3, <2>1, Zenon DEF Waiters, Waits
    <3>2. Cardinality(Waiters') = Cardinality(Waiters) + 1
      BY <3>1, WaitersFinite, FS_AddElement, Zenon
    <3>3. waiters' = waiters + 1
      BY <1>1, <2>1, Zenon
    <3> QED
      BY <1>0, <3>2, <3>3
  <2>2. CASE l = "relock"
    <3>1. t \in Waiters /\ Waiters' = Waiters \ {t}
      BY <1>1, <1>3, <2>2, Zenon DEF Waiters, Waits
    <3>2. Cardinality(Waiters') = Cardinality(Waiters) - 1 /\ IsFiniteSet(Waiters')
      BY <3>1, WaitersFinite, FS_RemoveElement, Zenon
    <3> QED
      BY <1>0, <1>1, <2>2, <3>2, FS_CardinalityType, Zenon
  <2> QED
    BY <2>1, <2>2, Zenon
<1>5. Cond!TypeOK'
  BY <1>3, <1>4, Zenon DEF CondInv, Cond!TypeOK, Cond!CountWaiter, Cond!UncountWaiter
<1> QED
  BY <1>0, <1>4, <1>5, Zenon DEF CondInv

\* A wake moves sleepers on; they stay counted.
LEMMA CondWake ==
    ASSUME CondInv, NEW t \in Participant, Cond!FutexWake(t), UNCHANGED LP64
    PROVE  CondInv'
<1>0. /\ user \in [Participant -> Cond!Calls] /\ user[t].pc = "wake" /\ LP64 \in BOOLEAN
      /\ UNCHANGED <<counter, waiters, mutex, items, produced>>
  BY Zenon DEF CondInv, Cond!TypeOK, Cond!FutexWake
<1>1. PICK woken \in SUBSET Cond!Asleep :
         user' = [u \in Participant |->
                    IF u \in woken THEN [user[u] EXCEPT !.pc = Cond!AfterWait]
                    ELSE IF u # t THEN user[u]
                    ELSE IF user[t].underMutex THEN [user[t] EXCEPT !.pc = "leave"]
                    ELSE Cond!Idle]
  BY Zenon DEF Cond!FutexWake
<1>2. \A c \in Cond!Calls : \A l \in {"uncount", "relock", "leave"} :
          [c EXCEPT !.pc = l] \in Cond!Calls /\ [c EXCEPT !.pc = l].pc = l
  BY ZenonT(30) DEF Cond!Calls, Cond!Location
<1>3. Cond!AfterWait = (IF LP64 THEN "uncount" ELSE "relock")
  BY Zenon DEF Cond!AfterWait
<1>4. ASSUME NEW u \in Participant
      PROVE  /\ user'[u] \in Cond!Calls
             /\ \/ user'[u] = user[u]
                \/ user[u].pc = "asleep" /\ user'[u].pc = Cond!AfterWait
                \/ user[u].pc = "wake" /\ user'[u].pc \in {"leave", "idle"}
  <2>0. user[u] \in Cond!Calls
    BY <1>0, Zenon
  <2>1. CASE u \in woken
    <3>1. user'[u] = [user[u] EXCEPT !.pc = Cond!AfterWait] /\ user[u].pc = "asleep"
      BY <1>1, <2>1, Zenon DEF Cond!Asleep
    <3> QED
      BY <1>2, <1>3, <2>0, <3>1, ZenonT(30)
  <2>2. CASE u \notin woken /\ u # t
    BY <1>1, <2>0, <2>2, Zenon
  <2>3. CASE u \notin woken /\ u = t
    <3>1. user'[t] = (IF user[t].underMutex THEN [user[t] EXCEPT !.pc = "leave"] ELSE Cond!Idle)
      BY <1>1, <2>3, Zenon
    <3> QED
      BY <1>0, <1>2, <2>0, <2>3, <3>1, CondCalls, Zenon
  <2> QED
    BY <2>1, <2>2, <2>3, Zenon
<1>5. user' \in [Participant -> Cond!Calls]
  BY <1>1, <1>4, Zenon
<1>6. Cond!TypeOK'
  BY <1>0, <1>5, Zenon DEF CondInv, Cond!TypeOK
<1>7. LP64 => Waiters' = Waiters
  BY <1>3, <1>4, Zenon DEF Waiters, Waits
<1>8. ~LP64 => \A u \in Participant : user'[u].pc \notin {"count", "uncount"}
  BY <1>3, <1>4, Zenon DEF CondInv
<1> QED
  BY <1>0, <1>6, <1>7, <1>8, Zenon DEF CondInv

LEMMA CondStep == CondInv /\ [Cond!Next]_Cond!vars => CondInv'
<1> SUFFICES ASSUME CondInv, [Cond!Next]_Cond!vars PROVE CondInv'
  BY Zenon
<1>0. /\ user \in [Participant -> Cond!Calls] /\ LP64 \in BOOLEAN /\ waiters \in Nat
      /\ counter \in 0 .. Cond!CounterMod - 1 /\ mutex \in Participant \cup {NoThread}
      /\ items \in Nat /\ produced \in Nat
  BY Zenon DEF CondInv, Cond!TypeOK
<1>1. CASE UNCHANGED Cond!vars
  <2>1. Waiters' = Waiters
    BY <1>1, Zenon DEF Cond!vars, Waiters, Waits
  <2> QED
    BY <1>1, <2>1, Zenon DEF Cond!vars, CondInv, Cond!TypeOK
<1>2. CASE Cond!Next
  <2>0. UNCHANGED LP64
    BY <1>2, Zenon DEF Cond!Next
  <2>1. PICK t \in Participant : \/ Cond!Consume(t) \/ Cond!Produce(t) \/ Cond!Inside(t)
                                 \/ Cond!SpuriousReturn(t) \/ Cond!TimeOut(t)
    BY <1>2, Zenon DEF Cond!Next, Cond!Step
  <2>2. user[t] \in Cond!Calls /\ Cond!AfterWait = (IF LP64 THEN "uncount" ELSE "relock")
    BY <1>0, Zenon DEF Cond!AfterWait
  \* The record a step leaves behind, by the fields it sets.
  <2>3. \A l \in Cond!Location : /\ [user[t] EXCEPT !.pc = l] \in Cond!Calls
                                 /\ [user[t] EXCEPT !.pc = l].pc = l
    BY <2>2, Zenon DEF Cond!Calls
  <2> HIDE DEF CondInv
  <2>4. CASE Cond!Consume(t) \/ Cond!UnlockInWait(t) \/ Cond!AddItem(t) \/ Cond!Bump(t)
    <3>1. PICK l \in {"test", "wait", "pulse", "wake"} :
             /\ user' = [user EXCEPT ![t] = [user[t] EXCEPT !.pc = l]]
             /\ l = "wait" <=> user[t].pc = "unlock"
             /\ user[t].pc \in {"idle", "unlock", "produce", "bump"}
      BY <2>4, Zenon DEF Cond!Consume, Cond!UnlockInWait, Cond!AddItem, Cond!Bump, Cond!Goto
    <3>2. /\ UNCHANGED waiters /\ items' \in Nat /\ produced' \in Nat
          /\ mutex' \in Participant \cup {NoThread}
      BY <1>0, <2>4 DEF Cond!Consume, Cond!UnlockInWait, Cond!AddItem, Cond!Bump
    <3>3. counter' \in 0 .. Cond!CounterMod - 1
      BY <1>0, <2>4, CondCalls DEF Cond!Consume, Cond!UnlockInWait, Cond!AddItem, Cond!Bump
    <3>4. l \in Cond!Location
      BY Zenon DEF Cond!Location
    <3> DEFINE c == [user[t] EXCEPT !.pc = l]
    <3>5. c \in Cond!Calls /\ c.pc = l
      BY <2>3, <3>4, Zenon
    <3> HIDE DEF c
    <3>6. c.pc \in {"unlock", "wait", "asleep", "uncount"} <=> Waits(t)
      BY <3>1, <3>5, Zenon DEF Waits
    <3>7. user' = [user EXCEPT ![t] = c]
      BY <3>1, Zenon DEF c
    <3> QED
      BY <2>0, <3>2, <3>3, <3>5, <3>6, <3>7, CondOwn, Zenon
  <2>5. CASE Cond!TakeItem(t) \/ Cond!Leave(t)
    <3>1. user' = [user EXCEPT ![t] = Cond!Idle] /\ user[t].pc \in {"test", "leave"}
      BY <2>5, Zenon DEF Cond!TakeItem, Cond!Leave, Cond!Return
    <3>2. /\ UNCHANGED <<waiters, counter, produced>> /\ items' \in Nat
          /\ mutex' \in Participant \cup {NoThread}
      BY <1>0, <2>5 DEF Cond!TakeItem, Cond!Leave
    <3> QED
      BY <1>0, <2>0, <3>1, <3>2, CondCalls, CondOwn, Zenon DEF Waits
  <2>6. CASE Cond!LoadState(t)
    <3>1. PICK timed \in BOOLEAN :
             user' = [user EXCEPT ![t] = [user[t] EXCEPT !.pc = IF LP64 THEN "count" ELSE "unlock",
                                                         !.old = counter, !.timed = timed]]
      BY <2>6, ZenonT(30) DEF Cond!LoadState
    <3>2. user[t].pc = "test" /\ UNCHANGED <<counter, waiters, mutex, items, produced>>
      BY <2>6, Zenon DEF Cond!LoadState
    <3> DEFINE c == [user[t] EXCEPT !.pc = IF LP64 THEN "count" ELSE "unlock",
                                    !.old = counter, !.timed = timed]
    <3>3. c \in Cond!Calls /\ c.pc = IF LP64 THEN "count" ELSE "unlock"
      BY <1>0, <2>2, Zenon DEF Cond!Calls, Cond!Location
    <3> HIDE DEF c
    <3>4. user' = [user EXCEPT ![t] = c]
      BY <3>1, Zenon DEF c
    <3>5. CASE LP64
      BY <1>0, <2>0, <3>2, <3>3, <3>4, <3>5, CondOwn, Zenon DEF Waits
    <3>6. CASE ~LP64
      <4>1. /\ user'[t] = c /\ user' \in [Participant -> Cond!Calls]
            /\ \A u \in Participant : u # t => user'[u] = user[u]
        BY <1>0, <3>3, <3>4, Zenon
      <4>2. Cond!TypeOK'
        BY <1>0, <2>0, <3>2, <4>1, Zenon DEF Cond!TypeOK
      <4> QED
        BY <2>0, <3>3, <3>6, <4>1, <4>2, Zenon DEF CondInv
    <3> QED
      BY <3>5, <3>6, Zenon
  <2>7. CASE Cond!CountWaiter(t) \/ Cond!UncountWaiter(t)
    BY <2>0, <2>7, CondCount, Zenon
  <2>8. CASE Cond!FutexWait(t) \/ Cond!SpuriousReturn(t) \/ Cond!TimeOut(t)
    <3>1. PICK c \in Cond!Calls : /\ user' = [user EXCEPT ![t] = c]
                                  /\ c.pc \in {"asleep", Cond!AfterWait}
      <4>1. CASE Cond!FutexWait(t)
        <5> DEFINE c == [user[t] EXCEPT !.pc = IF counter = user[t].old THEN "asleep"
                                               ELSE Cond!AfterWait,
                                        !.old = 0]
        <5>1. c \in Cond!Calls /\ c.pc \in {"asleep", Cond!AfterWait}
          <6>1. \A l \in Cond!Location : /\ [user[t] EXCEPT !.pc = l, !.old = 0] \in Cond!Calls
                                         /\ [user[t] EXCEPT !.pc = l, !.old = 0].pc = l
            <7>1. 0 \in 0 .. Cond!CounterMod - 1
              BY CondCalls
            <7> QED
              BY <2>2, <7>1, Zenon DEF Cond!Calls
          <6>2. "asleep" \in Cond!Location /\ Cond!AfterWait \in Cond!Location
            BY <2>2, Zenon DEF Cond!Location
          <6> QED
            BY <6>1, <6>2, Zenon
        <5>2. user' = [user EXCEPT ![t] = c]
          BY <4>1, Zenon DEF Cond!FutexWait
        <5> QED
          BY <5>1, <5>2, Zenon
      <4>2. CASE Cond!SpuriousReturn(t)
        <5>1. user' = [user EXCEPT ![t] = [user[t] EXCEPT !.pc = Cond!AfterWait]]
          BY <4>2, Zenon DEF Cond!SpuriousReturn, Cond!Goto
        <5>2. Cond!AfterWait \in Cond!Location
          BY <2>2, Zenon DEF Cond!Location
        <5> QED
          BY <2>3, <5>1, <5>2, Zenon
      <4>3. CASE Cond!TimeOut(t)
        <5> DEFINE c == [user[t] EXCEPT !.pc = Cond!AfterWait, !.expired = TRUE]
        <5>1. c \in Cond!Calls /\ c.pc = Cond!AfterWait
          BY <2>2, Zenon DEF Cond!Calls, Cond!Location
        <5>2. user' = [user EXCEPT ![t] = c]
          BY <4>3, Zenon DEF Cond!TimeOut
        <5> QED
          BY <5>1, <5>2, Zenon
      <4> QED
        BY <2>8, <4>1, <4>2, <4>3, Zenon
    <3>2. user[t].pc \in {"wait", "asleep"} /\ UNCHANGED <<counter, waiters, mutex, items, produced>>
      BY <2>8, Zenon DEF Cond!FutexWait, Cond!SpuriousReturn, Cond!TimeOut
    <3>3. CASE LP64
      BY <1>0, <2>0, <2>2, <3>1, <3>2, <3>3, CondOwn, Zenon DEF Waits
    <3>4. CASE ~LP64
      <4>1. /\ user'[t] = c /\ user' \in [Participant -> Cond!Calls]
            /\ \A u \in Participant : u # t => user'[u] = user[u]
        BY <1>0, <3>1, Zenon
      <4>2. Cond!TypeOK'
        BY <1>0, <2>0, <3>2, <4>1, Zenon DEF Cond!TypeOK
      <4> QED
        BY <2>0, <2>2, <3>1, <3>4, <4>1, <4>2, Zenon DEF CondInv
    <3> QED
      BY <3>3, <3>4, Zenon
  <2>9. CASE Cond!Relock(t) \/ Cond!Produce(t) \/ Cond!Pulse(t)
    <3>1. PICK c \in Cond!Calls : /\ user' = [user EXCEPT ![t] = c]
                                  /\ c.pc \in {"leave", "test", "produce", "bump", "idle"}
      <4>1. CASE Cond!Relock(t)
        <5>1. user' = [user EXCEPT ![t] = IF user[t].expired THEN [user[t] EXCEPT !.pc = "leave"]
                                          ELSE [Cond!Idle EXCEPT !.pc = "test"]]
          BY <4>1, Zenon DEF Cond!Relock, Cond!Goto
        <5>2. "leave" \in Cond!Location
          BY Zenon DEF Cond!Location
        <5> QED
          BY <2>3, <5>1, <5>2, CondCalls, Zenon
      <4>2. CASE Cond!Produce(t)
        <5>0. PICK broadcast, underMutex \in BOOLEAN :
                 user' = [user EXCEPT ![t].pc = "produce", ![t].broadcast = broadcast,
                                      ![t].underMutex = underMutex]
          BY <4>2, Zenon DEF Cond!Produce
        <5>1. user' = [user EXCEPT ![t] = [user[t] EXCEPT !.pc = "produce",
                                                          !.broadcast = broadcast,
                                                          !.underMutex = underMutex]]
          BY <1>0, <5>0, Zenon
        <5> DEFINE c == [user[t] EXCEPT !.pc = "produce", !.broadcast = broadcast,
                                        !.underMutex = underMutex]
        <5>2. c \in Cond!Calls /\ c.pc = "produce"
          BY <2>2, Zenon DEF Cond!Calls, Cond!Location
        <5>3. user' = [user EXCEPT ![t] = c]
          BY <5>1, Zenon
        <5> HIDE DEF c
        <5> QED
          BY <5>2, <5>3, Zenon
      <4>3. CASE Cond!Pulse(t)
        <5>1. \E c \in {[user[t] EXCEPT !.pc = "leave"], Cond!Idle, [user[t] EXCEPT !.pc = "bump"]} :
                 user' = [user EXCEPT ![t] = c]
          BY <4>3, Zenon DEF Cond!Pulse, Cond!AfterPulse, Cond!Goto, Cond!Return
        <5>2. "leave" \in Cond!Location /\ "bump" \in Cond!Location
          BY Zenon DEF Cond!Location
        <5>3. \A c \in {[user[t] EXCEPT !.pc = "leave"], Cond!Idle, [user[t] EXCEPT !.pc = "bump"]} :
                 c \in Cond!Calls /\ c.pc \in {"leave", "bump", "idle"}
          <6>1. Cond!Idle \in Cond!Calls /\ Cond!Idle.pc = "idle"
            BY CondCalls, Zenon
          <6>2. ASSUME NEW l \in {"leave", "bump"}
                PROVE  [user[t] EXCEPT !.pc = l] \in Cond!Calls /\ [user[t] EXCEPT !.pc = l].pc = l
            BY <2>3, <5>2, Zenon
          <6> QED
            BY <6>1, <6>2, ZenonT(30)
        <5> QED
          BY <5>1, <5>3, Zenon
      <4> QED
        BY <2>9, <4>1, <4>2, <4>3, Zenon
    <3>2. user[t].pc \in {"relock", "idle", "pulse"}
      BY <2>9, Zenon DEF Cond!Relock, Cond!Produce, Cond!Pulse
    <3>3. UNCHANGED <<counter, waiters, items, produced>> /\ mutex' \in Participant \cup {NoThread}
      BY <1>0, <2>9, Zenon DEF Cond!Relock, Cond!Produce, Cond!Pulse
    <3> QED
      BY <1>0, <2>0, <3>1, <3>2, <3>3, CondOwn, Zenon DEF Waits
  <2>10. CASE Cond!FutexWake(t)
    BY <2>0, <2>10, CondWake, Zenon
  <2> QED
    BY <2>1, <2>4, <2>5, <2>6, <2>7, <2>8, <2>9, <2>10, Zenon DEF Cond!Inside
<1> QED
  BY <1>1, <1>2, Zenon

(* pthread_cond: a thread that has released the mutex to wait for the         *)
(* condition is counted until its wait is over, whether a pulse, a timeout or *)
(* nothing at all ended it, for any number of threads: a pulse that finds the *)
(* count zero has nobody to wake.                                             *)
THEOREM CondWaitersCounted == Cond!Spec => []WaitersCounted
<1>1. Waiters = {t \in Participant : user[t].pc \in {"unlock", "wait", "asleep", "uncount"}}
  BY Zenon DEF Waiters, Waits
<1>2. Cond!Cardinality(Waiters) = Cardinality(Waiters)
  BY Zenon DEF Cond!Cardinality, Cardinality
<1>3. CondInv => WaitersCounted
  BY <1>1, <1>2, Zenon DEF CondInv, WaitersCounted, Cond!WaitersCounted
<1> QED
  BY <1>3, CondInit, CondStep, PTL DEF Cond!Spec
-----------------------------------------------------------------------------
(* The barrier.  A participant is outside, on its way in, held, or on its way *)
(* out of a cycle.                                                            *)

BarrierHeld(t) ==
    \/ place[t].pc \in {"hold", "holdWait"}
    \/ place[t].pc = "asleep" /\ place[t].back = "hold"

Entering(t) ==
    \/ place[t].pc \in {"gate", "gateWait", "enter", "check"}
    \/ place[t].pc = "asleep" /\ place[t].back = "gate"

Leaving(t) == place[t].pc \in {"release", "wakeHeld", "leave", "reset", "wakeGate"}

\* The threads of a full cycle that has not been closed by its last thread, ...
Open == {t \in released : place[t].pc # "wakeGate"}

\* ... and those that wait_count counts.
Present == arrived \cup {t \in released : place[t].pc \notin {"reset", "wakeGate"}}

BarrierTypes ==
    /\ state \in {"WAIT", "RELEASE"}
    /\ wait_count \in Nat /\ init_count \in {0, Cardinality(Participant)}
    /\ place \in [Participant -> Barrier!Calls]
    /\ arrived \in SUBSET Participant /\ released \in SUBSET Participant

(* Where the threads of each kind are.  The word of the barrier says RELEASE  *)
(* from the time the last thread has opened it until the last has closed it;  *)
(* no thread is past the entry in between, and one that destroys the barrier  *)
(* is alone there.                                                            *)
Whereabouts(t) ==
    /\ t \in arrived => BarrierHeld(t)
    /\ t \in released => BarrierHeld(t) \/ Leaving(t)
    /\ t \notin arrived \cup released => place[t].pc = "idle" \/ Entering(t)
    /\ place[t].serial => t \in released
    /\ place[t].pc \in {"wakeHeld", "leave", "reset"} => state = "RELEASE" \/ Participant = {t}
    /\ place[t].pc \in {"reset", "wakeGate"} => released = {t}
    /\ place[t].pc \in {"enter", "check"} => Open = {}
    /\ place[t].pc = "check" => place[t].op = "destroy"
    /\ place[t].op = "destroy" => /\ Entering(t) /\ place[t].pc # "enter"
                                  /\ \A u \in Participant : Entering(u) => u = t
    /\ init_count = 0 => place[t].pc \in {"idle", "wakeGate"}

Cycle ==
    /\ arrived \cap released = {}
    /\ arrived # {} => Open = {}
    /\ state = "RELEASE" => Open # {}
    /\ state = "WAIT" /\ Open # {} => released = Participant

BarrierInv ==
    /\ BarrierTypes /\ Cycle
    /\ \A t \in Participant : Whereabouts(t)
    /\ wait_count = Cardinality(Present)

\* A step leaves a thread what it was, if not where it was.
Like(t) ==
    /\ place'[t].op = place[t].op /\ place'[t].serial = place[t].serial
    /\ BarrierHeld(t)' <=> BarrierHeld(t)
    /\ Entering(t)' <=> Entering(t)
    /\ \A l \in {"idle", "enter", "check", "release", "wakeHeld", "leave", "reset", "wakeGate"} :
         place'[t].pc = l <=> place[t].pc = l

LEMMA Kinds ==
    ASSUME BarrierTypes, NEW t \in Participant
    PROVE  /\ BarrierHeld(t) => /\ ~Entering(t) /\ ~Leaving(t)
                                /\ place[t].pc \in {"hold", "holdWait", "asleep"}
           /\ Entering(t) => /\ ~Leaving(t)
                             /\ place[t].pc \in {"gate", "gateWait", "enter", "check", "asleep"}
           /\ BarrierHeld(t) \/ Entering(t) \/ Leaving(t) \/ place[t].pc = "idle"
  BY Zenon DEF BarrierTypes, Barrier!Calls, Barrier!Location, BarrierHeld, Entering, Leaving

LEMMA BarrierInit == Barrier!Init => BarrierInv
<1> SUFFICES ASSUME Barrier!Init PROVE BarrierInv
  BY Zenon
<1>1. /\ Barrier!Idle \in Barrier!Calls /\ Barrier!Idle.pc = "idle"
      /\ Barrier!Idle.serial = FALSE /\ Barrier!Idle.op = "wait"
  BY Zenon DEF Barrier!Idle, Barrier!Calls, Barrier!Location
<1>2. \A t \in Participant : place[t] = Barrier!Idle
  BY Zenon DEF Barrier!Init
<1>3. Barrier!Count = Cardinality(Participant) /\ Cardinality(Participant) # 0
  <2>1. Cardinality(Participant) # 0
    BY ParticipantAssumption, FS_EmptySet, Zenon
  <2> QED
    BY <2>1, Zenon DEF Barrier!Count, Barrier!Cardinality, Cardinality
<1>4. BarrierTypes
  BY <1>1, <1>3, Zenon DEF Barrier!Init, BarrierTypes
<1>5. Present = {} /\ Open = {} /\ Cardinality({}) = 0
  BY FS_EmptySet, Zenon DEF Barrier!Init, Present, Open
<1>6. \A t \in Participant : Whereabouts(t)
  BY <1>1, <1>2, <1>3, Zenon DEF Whereabouts, Barrier!Init
<1> QED
  BY <1>4, <1>5, <1>6, Zenon DEF BarrierInv, Cycle, Barrier!Init

LEMMA Gone ==
    ASSUME NEW t \in Participant, BarrierTypes, place' = [place EXCEPT ![t] = Barrier!Idle]
    PROVE  /\ place' \in [Participant -> Barrier!Calls]
           /\ place'[t].pc = "idle" /\ place'[t].op = "wait" /\ place'[t].serial = FALSE
           /\ \A u \in Participant : u # t => place'[u] = place[u] /\ Like(u)
<1>1. /\ Barrier!Idle \in Barrier!Calls /\ Barrier!Idle.pc = "idle"
      /\ Barrier!Idle.serial = FALSE /\ Barrier!Idle.op = "wait"
  BY Zenon DEF Barrier!Idle, Barrier!Calls, Barrier!Location
<1>2. /\ place'[t] = Barrier!Idle /\ place' \in [Participant -> Barrier!Calls]
      /\ \A u \in Participant : u # t => place'[u] = place[u]
  BY <1>1, Zenon DEF BarrierTypes
<1> QED
  BY <1>1, <1>2, Zenon DEF Like, BarrierHeld, Entering

LEMMA Moved ==
    ASSUME NEW t \in Participant, BarrierTypes, NEW l \in Barrier!Location,
           place' = [place EXCEPT ![t].pc = l]
    PROVE  /\ place' \in [Participant -> Barrier!Calls]
           /\ place'[t].pc = l /\ place'[t].op = place[t].op
           /\ place'[t].serial = place[t].serial /\ place'[t].back = place[t].back
           /\ \A u \in Participant : u # t => place'[u] = place[u] /\ Like(u)
<1>1. /\ place[t] \in Barrier!Calls
      /\ place' = [place EXCEPT ![t] = [place[t] EXCEPT !.pc = l]]
  BY Zenon DEF BarrierTypes
<1>2. /\ [place[t] EXCEPT !.pc = l] \in Barrier!Calls /\ [place[t] EXCEPT !.pc = l].pc = l
      /\ [place[t] EXCEPT !.pc = l].op = place[t].op /\ [place[t] EXCEPT !.pc = l].back = place[t].back
      /\ [place[t] EXCEPT !.pc = l].serial = place[t].serial
  BY <1>1, Zenon DEF Barrier!Calls
<1>3. /\ place'[t] = [place[t] EXCEPT !.pc = l] /\ place' \in [Participant -> Barrier!Calls]
      /\ \A u \in Participant : u # t => place'[u] = place[u]
  BY <1>1, <1>2, Zenon DEF BarrierTypes
<1> QED
  BY <1>2, <1>3, Zenon DEF Like, BarrierHeld, Entering

\* Sleep, wake and the loops around them change nothing else.
LEMMA LikeStep ==
    ASSUME BarrierInv, UNCHANGED <<state, wait_count, init_count, arrived, released>>,
           place' \in [Participant -> Barrier!Calls], \A t \in Participant : Like(t)
    PROVE  BarrierInv'
<1>1. BarrierTypes' /\ Open' = Open /\ Present' = Present
  BY Zenon DEF BarrierInv, BarrierTypes, Open, Present, Like
<1>2. Cycle'
  BY <1>1, Zenon DEF BarrierInv, Cycle
<1>3. ASSUME NEW t \in Participant PROVE Whereabouts(t)'
  BY <1>1, <1>3 DEF BarrierInv, Whereabouts, Like, Leaving
<1> QED
  BY <1>1, <1>2, <1>3, Zenon DEF BarrierInv

LEMMA SleepStep ==
    ASSUME BarrierInv, NEW t \in Participant,
           Barrier!GateWait(t) \/ Barrier!HoldWait(t) \/ Barrier!SpuriousReturn(t)
    PROVE  /\ BarrierInv'
           /\ UNCHANGED <<arrived, released>> /\ \A u \in Participant : place'[u].serial = place[u].serial
<1>0. BarrierTypes /\ place[t] \in Barrier!Calls /\ place[t].back \in {"gate", "hold"}
  BY Zenon DEF BarrierInv, BarrierTypes, Barrier!Calls
<1>1. UNCHANGED <<state, wait_count, init_count, arrived, released>>
  BY Zenon DEF Barrier!GateWait, Barrier!HoldWait, Barrier!SpuriousReturn, Barrier!Sleep
<1>2. place' \in [Participant -> Barrier!Calls] /\ \A u \in Participant : Like(u)
  <2>1. ASSUME NEW b \in {"gate", "hold"}, place' = [place EXCEPT ![t].pc = b],
               b = "gate" => Entering(t), b = "hold" => BarrierHeld(t),
               place[t].pc \in {"gateWait", "holdWait", "asleep"}
        PROVE  place' \in [Participant -> Barrier!Calls] /\ \A u \in Participant : Like(u)
    <3>1. b \in Barrier!Location
      BY Zenon DEF Barrier!Location
    <3>2. /\ place' \in [Participant -> Barrier!Calls] /\ place'[t].pc = b
          /\ place'[t].op = place[t].op /\ place'[t].serial = place[t].serial
          /\ \A u \in Participant : u # t => Like(u)
      BY <1>0, <2>1, <3>1, Moved, Zenon
    <3>3. Like(t)
      BY <1>0, <2>1, <3>2, Kinds, Zenon DEF Like, BarrierHeld, Entering
    <3> QED
      BY <3>2, <3>3, Zenon
  <2>2. ASSUME NEW b \in {"gate", "hold"}, place' = [place EXCEPT ![t].pc = "asleep", ![t].back = b],
               b = "gate" => Entering(t), b = "hold" => BarrierHeld(t),
               place[t].pc \in {"gateWait", "holdWait", "asleep"}
        PROVE  place' \in [Participant -> Barrier!Calls] /\ \A u \in Participant : Like(u)
    <3> DEFINE c == [place[t] EXCEPT !.pc = "asleep", !.back = b]
    <3>1. /\ c \in Barrier!Calls /\ c.pc = "asleep" /\ c.back = b
          /\ c.op = place[t].op /\ c.serial = place[t].serial
      BY <1>0, Zenon DEF Barrier!Calls, Barrier!Location
    <3>2. place' = [place EXCEPT ![t] = c]
      BY <2>2, Zenon
    <3> HIDE DEF c
    <3>3. /\ place' \in [Participant -> Barrier!Calls] /\ place'[t] = c
          /\ \A u \in Participant : u # t => place'[u] = place[u]
      BY <1>0, <3>1, <3>2, Zenon DEF BarrierTypes
    <3>4. \A u \in Participant : u # t => Like(u)
      BY <3>3, Zenon DEF Like, BarrierHeld, Entering
    <3>5. Like(t)
      BY <1>0, <2>2, <3>1, <3>3, Kinds, ZenonT(30) DEF Like, BarrierHeld, Entering
    <3> QED
      BY <3>3, <3>4, <3>5, Zenon
  <2>3. CASE Barrier!GateWait(t)
    BY <2>1, <2>2, <2>3, Zenon DEF Barrier!GateWait, Barrier!Sleep, Barrier!Goto, Entering
  <2>4. CASE Barrier!HoldWait(t)
    BY <2>1, <2>2, <2>4, Zenon DEF Barrier!HoldWait, Barrier!Sleep, Barrier!Goto, BarrierHeld
  <2>5. CASE Barrier!SpuriousReturn(t)
    BY <1>0, <2>1, <2>5, Zenon DEF Barrier!SpuriousReturn, Barrier!Goto, BarrierHeld, Entering
  <2> QED
    BY <2>3, <2>4, <2>5, Zenon
<1>3. BarrierInv'
  BY <1>1, <1>2, LikeStep, Zenon
<1> QED
  BY <1>1, <1>2, <1>3, Zenon DEF Like

LEMMA Waken ==
    ASSUME BarrierTypes, NEW t \in Participant, place[t].pc # "asleep", NEW n, NEW l \in {"leave", "idle"},
           Barrier!Wake(t, n, l)
    PROVE  /\ place' \in [Participant -> Barrier!Calls] /\ place'[t].pc = l
           /\ l = "idle" => place'[t].op = "wait" /\ place'[t].serial = FALSE
           /\ l = "leave" => place'[t].op = place[t].op /\ place'[t].serial = place[t].serial
           /\ \A u \in Participant : u # t => Like(u)
           /\ UNCHANGED <<state, wait_count, init_count>>
<1>1. PICK woken \in SUBSET Barrier!Asleep :
         place' = [u \in Participant |->
                     IF u \in woken THEN [place[u] EXCEPT !.pc = place[u].back]
                     ELSE IF u # t THEN place[u]
                     ELSE IF l = "idle" THEN Barrier!Idle ELSE [place[t] EXCEPT !.pc = l]]
  BY Zenon DEF Barrier!Wake
<1>2. ASSUME NEW u \in Participant, u # t PROVE place'[u] \in Barrier!Calls /\ Like(u)
  <2>0. place[u] \in Barrier!Calls
    BY Zenon DEF BarrierTypes
  <2>1. CASE u \in woken
    <3>1. /\ place'[u] = [place[u] EXCEPT !.pc = place[u].back] /\ place[u].pc = "asleep"
          /\ place[u].back \in {"gate", "hold"}
      BY <1>1, <2>0, <2>1, Zenon DEF Barrier!Asleep, Barrier!Calls
    <3>2. /\ place'[u] \in Barrier!Calls /\ place'[u].pc = place[u].back
          /\ place'[u].op = place[u].op /\ place'[u].serial = place[u].serial
      BY <2>0, <3>1, Zenon DEF Barrier!Calls, Barrier!Location
    <3> QED
      BY <3>1, <3>2, Zenon DEF Like, BarrierHeld, Entering
  <2>2. CASE u \notin woken
    <3>1. place'[u] = place[u]
      BY <1>1, <1>2, <2>2, Zenon
    <3> QED
      BY <2>0, <3>1, Zenon DEF Like, BarrierHeld, Entering
  <2> QED
    BY <2>1, <2>2, Zenon
<1>3. place'[t] = IF l = "idle" THEN Barrier!Idle ELSE [place[t] EXCEPT !.pc = l]
  BY <1>1, Zenon DEF Barrier!Asleep
<1>4. /\ Barrier!Idle \in Barrier!Calls /\ Barrier!Idle.pc = "idle"
      /\ Barrier!Idle.serial = FALSE /\ Barrier!Idle.op = "wait"
  BY Zenon DEF Barrier!Idle, Barrier!Calls, Barrier!Location
<1>5. /\ [place[t] EXCEPT !.pc = "leave"] \in Barrier!Calls
      /\ [place[t] EXCEPT !.pc = "leave"].pc = "leave"
      /\ [place[t] EXCEPT !.pc = "leave"].op = place[t].op
      /\ [place[t] EXCEPT !.pc = "leave"].serial = place[t].serial
  BY ZenonT(30) DEF BarrierTypes, Barrier!Calls, Barrier!Location
<1>6. /\ place'[t] \in Barrier!Calls /\ place'[t].pc = l
      /\ l = "idle" => place'[t].op = "wait" /\ place'[t].serial = FALSE
      /\ l = "leave" => place'[t].op = place[t].op /\ place'[t].serial = place[t].serial
  BY <1>3, <1>4, <1>5, Zenon
<1>7. place' \in [Participant -> Barrier!Calls]
  BY <1>1, <1>2, <1>6, Zenon
<1> QED
  BY <1>2, <1>6, <1>7, Zenon DEF Barrier!Wake

\* The way in: a call begins, or passes the gate.
LEMMA WayInStep ==
    ASSUME BarrierInv, NEW t \in Participant,
           Barrier!BarrierWait(t) \/ Barrier!BarrierDestroy(t) \/ Barrier!Gate(t)
    PROVE  /\ BarrierInv'
           /\ UNCHANGED <<arrived, released>> /\ \A u \in Participant : place'[u].serial = place[u].serial
<1>0. BarrierTypes /\ Whereabouts(t) /\ Cycle /\ place[t] \in Barrier!Calls
  BY Zenon DEF BarrierInv, BarrierTypes
<1>1. UNCHANGED <<state, wait_count, init_count, arrived, released>>
  BY Zenon DEF Barrier!BarrierWait, Barrier!BarrierDestroy, Barrier!Gate
<1>2. /\ place' \in [Participant -> Barrier!Calls] /\ place'[t].serial = place[t].serial
      /\ place'[t].pc \in {"gate", "gateWait", "enter", "check"}
      /\ \/ Barrier!BarrierWait(t) /\ place'[t].pc = "gate" /\ place'[t].op = place[t].op
         \/ Barrier!BarrierDestroy(t) /\ place'[t].pc = "gate" /\ place'[t].op = "destroy"
         \/ /\ Barrier!Gate(t) /\ place'[t].op = place[t].op
            /\ place'[t].pc = IF state = "RELEASE" THEN "gateWait"
                              ELSE IF place[t].op = "wait" THEN "enter" ELSE "check"
      /\ \A u \in Participant : u # t => Like(u)
  <2>1. ASSUME NEW l \in {"gate", "gateWait", "enter", "check"}, place' = [place EXCEPT ![t].pc = l]
        PROVE  /\ place' \in [Participant -> Barrier!Calls] /\ place'[t].serial = place[t].serial
               /\ place'[t].pc = l /\ place'[t].op = place[t].op
               /\ \A u \in Participant : u # t => Like(u)
    <3>1. l \in Barrier!Location
      BY Zenon DEF Barrier!Location
    <3> QED
      BY <1>0, <2>1, <3>1, Moved, Zenon
  <2>2. CASE Barrier!BarrierDestroy(t)
    <3> DEFINE c == [place[t] EXCEPT !.pc = "gate", !.op = "destroy"]
    <3>1. c \in Barrier!Calls /\ c.pc = "gate" /\ c.op = "destroy" /\ c.serial = place[t].serial
      BY <1>0, Zenon DEF Barrier!Calls, Barrier!Location
    <3>2. place' = [place EXCEPT ![t] = c]
      BY <2>2, Zenon DEF Barrier!BarrierDestroy
    <3> HIDE DEF c
    <3>3. /\ place' \in [Participant -> Barrier!Calls] /\ place'[t] = c
          /\ \A u \in Participant : u # t => place'[u] = place[u]
      BY <1>0, <3>1, <3>2, Zenon DEF BarrierTypes
    <3> QED
      BY <2>2, <3>1, <3>3, Zenon DEF Like, BarrierHeld, Entering
  <2>3. CASE Barrier!BarrierWait(t)
    <3>1. place' = [place EXCEPT ![t].pc = "gate"]
      BY <2>3, Zenon DEF Barrier!BarrierWait, Barrier!Goto
    <3> QED
      BY <2>1, <2>3, <3>1, Zenon
  <2>4. CASE Barrier!Gate(t)
    <3> DEFINE l == IF state = "RELEASE" THEN "gateWait"
                    ELSE IF place[t].op = "wait" THEN "enter" ELSE "check"
    <3>1. l \in {"gate", "gateWait", "enter", "check"} /\ place' = [place EXCEPT ![t].pc = l]
      BY <2>4, Zenon DEF Barrier!Gate, Barrier!Goto
    <3> QED
      BY <2>1, <2>4, <3>1, Zenon
  <2> QED
    BY <2>2, <2>3, <2>4, Zenon
<1>3. t \notin arrived \cup released /\ place[t].pc \in {"idle", "gate"}
  <2>1. place[t].pc \in {"idle", "gate"}
    BY Zenon DEF Barrier!BarrierWait, Barrier!BarrierDestroy, Barrier!Gate
  <2> QED
    BY <1>0, <2>1, Kinds, Zenon DEF Whereabouts, Leaving
<1>4. BarrierTypes' /\ Open' = Open /\ Present' = Present
  <2>1. \A u \in released : u \in Participant /\ u # t /\ Like(u)
    BY <1>0, <1>2, <1>3, Zenon DEF BarrierTypes
  <2>2. BarrierTypes'
    BY <1>0, <1>1, <1>2, Zenon DEF BarrierTypes
  <2> QED
    BY <1>1, <2>1, <2>2, Zenon DEF Open, Present, Like
<1>5. Cycle'
  BY <1>0, <1>1, <1>4, Zenon DEF Cycle
<1>6. Entering(t)' /\ init_count # 0
  BY <1>0, <1>2, <1>3, Zenon
     DEF Entering, Whereabouts, Barrier!BarrierWait, Barrier!BarrierDestroy, Barrier!Gate
<1>7. /\ place'[t].pc \in {"enter", "check"} => Open = {}
      /\ place'[t].pc = "check" => place'[t].op = "destroy"
      /\ place'[t].op = "destroy" => /\ place'[t].pc # "enter"
                                     /\ \A u \in Participant : Entering(u)' => u = t
      /\ \A u \in Participant : u # t => place[u].op # "destroy"
  <2>0. \A u \in Participant : u # t => (Entering(u)' <=> Entering(u)) /\ Whereabouts(u)
    BY <1>2, Zenon DEF Like, BarrierInv
  <2>1. CASE Barrier!BarrierWait(t) /\ place'[t].pc = "gate" /\ place'[t].op = place[t].op
    BY <2>1, Zenon DEF Barrier!BarrierWait, Barrier!NoDestroyer
  <2>2. CASE Barrier!BarrierDestroy(t) /\ place'[t].pc = "gate" /\ place'[t].op = "destroy"
    <3>1. ASSUME NEW u \in Participant, u # t, Entering(u) PROVE FALSE
      <4>1. place[u].pc = "check" /\ place[u].op # "destroy"
        BY <2>2, <3>1, Zenon DEF Barrier!BarrierDestroy, Barrier!NoDestroyer, Entering
      <4> QED
        BY <2>0, <3>1, <4>1, Zenon DEF Whereabouts
    <3> QED
      BY <2>0, <2>2, <3>1, Zenon DEF Barrier!BarrierDestroy, Barrier!NoDestroyer
  <2>3. CASE /\ Barrier!Gate(t) /\ place'[t].op = place[t].op
             /\ place'[t].pc = IF state = "RELEASE" THEN "gateWait"
                               ELSE IF place[t].op = "wait" THEN "enter" ELSE "check"
    <3>1. Entering(t) /\ place[t].op \in {"wait", "destroy"}
      BY <1>0, <2>3, Zenon DEF Barrier!Gate, Entering, Barrier!Calls
    <3>2. state = "WAIT" => Open = {}
      BY <1>0, <1>3, Zenon DEF Cycle, BarrierTypes
    <3>3. \A u \in Participant : u # t => place[u].op # "destroy"
      BY <2>0, <3>1, Zenon DEF Whereabouts
    <3>4. place[t].op = "destroy" => \A u \in Participant : Entering(u) => u = t
      BY <1>0, Zenon DEF Whereabouts
    <3> QED
      BY <1>0, <2>0, <2>3, <3>1, <3>2, <3>3, <3>4, ZenonT(30) DEF BarrierTypes
  <2> QED
    BY <1>2, <2>1, <2>2, <2>3, Zenon
<1>8. Whereabouts(t)'
  BY <1>0, <1>1, <1>2, <1>3, <1>4, <1>6, <1>7, ZenonT(30) DEF Whereabouts
<1>9. ASSUME NEW u \in Participant, u # t PROVE Whereabouts(u)'
  <2>1. Whereabouts(u) /\ Like(u) /\ place[u].op # "destroy"
    BY <1>2, <1>7, <1>9, Zenon DEF BarrierInv
  <2> QED
    BY <1>1, <1>4, <1>6, <2>1, Zenon DEF Whereabouts, Like, Leaving
<1> QED
  BY <1>1, <1>2, <1>4, <1>5, <1>8, <1>9, ZenonT(30) DEF BarrierInv, Like

\* Who is inside belongs to a cycle, and a cycle is open to one kind only.
LEMMA Belongs ==
    ASSUME BarrierInv, NEW t \in Participant
    PROVE  /\ Leaving(t) => t \in released /\ t \notin arrived
           /\ Entering(t) \/ place[t].pc = "idle" => t \notin arrived \cup released
  BY Kinds, Zenon DEF BarrierInv, Whereabouts, Cycle, Leaving

\* The gate and the wait of the others, and what the last thread does to the word.
LEMMA HoldStep ==
    ASSUME BarrierInv, NEW t \in Participant, Barrier!Hold(t)
    PROVE  /\ BarrierInv'
           /\ UNCHANGED <<arrived, released>> /\ \A u \in Participant : place'[u].serial = place[u].serial
<1>0. /\ BarrierTypes /\ Whereabouts(t) /\ Cycle /\ place[t].pc = "hold"
      /\ UNCHANGED <<state, wait_count, init_count, arrived, released>>
  BY Zenon DEF BarrierInv, Barrier!Hold
<1>1. PICK l \in {"holdWait", "leave"} : /\ place' = [place EXCEPT ![t].pc = l]
                                         /\ l = "holdWait" <=> state = "WAIT"
  BY Zenon DEF Barrier!Hold, Barrier!Goto
<1>2. /\ place' \in [Participant -> Barrier!Calls] /\ place'[t].pc = l
      /\ place'[t].op = place[t].op /\ place'[t].serial = place[t].serial
      /\ \A u \in Participant : u # t => Like(u)
  <2>1. l \in Barrier!Location
    BY Zenon DEF Barrier!Location
  <2> QED
    BY <1>0, <1>1, <2>1, Moved, Zenon
<1>3. BarrierHeld(t) /\ ~Entering(t)
  BY <1>0, Zenon DEF BarrierHeld, Entering
<1>4. CASE l = "holdWait"
  <2>1. Like(t)
    BY <1>0, <1>2, <1>3, <1>4, Zenon DEF Like, BarrierHeld, Entering
  <2> QED
    BY <1>0, <1>2, <2>1, LikeStep, Zenon DEF Like
<1>5. CASE l = "leave"
  <2>1. state = "RELEASE" /\ Open # {}
    BY <1>0, <1>1, <1>5, Zenon DEF BarrierTypes, Cycle
  <2>2. t \in released /\ t \notin arrived /\ arrived = {}
    BY <1>0, <1>3, <2>1, Kinds, Zenon DEF Whereabouts, Cycle
  <2>3. BarrierTypes' /\ Open' = Open /\ Present' = Present
    <3>1. \A u \in released : u \in Participant /\ (u = t \/ Like(u))
      BY <1>0, <1>2, Zenon DEF BarrierTypes
    <3>2. BarrierTypes'
      BY <1>0, <1>2, Zenon DEF BarrierTypes
    <3>3. \A u \in released : \A at \in {"reset", "wakeGate"} : place'[u].pc = at <=> place[u].pc = at
      BY <1>0, <1>2, <1>5, <3>1 DEF Like
    <3> QED
      BY <1>0, <3>2, <3>3, Zenon DEF Open, Present
  <2>4. Cycle'
    BY <1>0, <2>3, Zenon DEF Cycle
  <2>5. ~Entering(t)'
    BY <1>2, <1>5, Zenon DEF Entering
  <2>6. Whereabouts(t)'
    BY <1>0, <1>2, <1>3, <1>5, <2>1, <2>2, ZenonT(30) DEF Whereabouts, Leaving
  <2>7. ASSUME NEW u \in Participant, u # t PROVE Whereabouts(u)'
    <3>1. Whereabouts(u) /\ Like(u)
      BY <1>2, <2>7, ZenonT(30) DEF BarrierInv
    <3> QED
      BY <1>0, <1>2, <2>3, <2>5, <3>1, ZenonT(30) DEF Whereabouts, Like, Leaving
  <2> QED
    BY <1>0, <1>2, <2>3, <2>4, <2>6, <2>7, Zenon DEF BarrierInv, Like
<1> QED
  BY <1>4, <1>5, Zenon

LEMMA OpenStep ==
    ASSUME BarrierInv, NEW t \in Participant,
           Barrier!Release(t) \/ Barrier!WakeHeld(t) \/ Barrier!Reset(t)
    PROVE  /\ BarrierInv'
           /\ UNCHANGED <<arrived, released>> /\ \A u \in Participant : place'[u].serial = place[u].serial
<1>0. BarrierTypes /\ Whereabouts(t) /\ Cycle /\ UNCHANGED <<wait_count, init_count, arrived, released>>
  BY Zenon DEF BarrierInv, Barrier!Release, Barrier!WakeHeld, Barrier!Reset, Barrier!Wake
<1>1. /\ place' \in [Participant -> Barrier!Calls]
      /\ place'[t].op = place[t].op /\ place'[t].serial = place[t].serial
      /\ \A u \in Participant : u # t => Like(u)
      /\ \/ place[t].pc = "release" /\ place'[t].pc = "wakeHeld" /\ state' = "RELEASE"
         \/ place[t].pc = "wakeHeld" /\ place'[t].pc = "leave" /\ state' = state
         \/ place[t].pc = "reset" /\ place'[t].pc = "wakeGate" /\ state' = "WAIT"
  <2>0. "wakeHeld" \in Barrier!Location /\ "wakeGate" \in Barrier!Location
    BY Zenon DEF Barrier!Location
  <2>1. CASE Barrier!Release(t)
    BY <1>0, <2>0, <2>1, Moved, Zenon DEF Barrier!Release, Barrier!Goto
  <2>2. CASE Barrier!Reset(t)
    BY <1>0, <2>0, <2>2, Moved, ZenonT(30) DEF Barrier!Reset, Barrier!Goto
  <2>3. CASE Barrier!WakeHeld(t)
    <3>1. place[t].pc = "wakeHeld" /\ Barrier!Wake(t, place[t].prev, "leave")
      BY <2>3, Zenon DEF Barrier!WakeHeld
    <3>2. /\ place' \in [Participant -> Barrier!Calls] /\ place'[t].pc = "leave"
          /\ place'[t].op = place[t].op /\ place'[t].serial = place[t].serial
          /\ \A u \in Participant : u # t => Like(u)
          /\ UNCHANGED <<state, wait_count, init_count>>
      BY <1>0, <3>1, Waken, Zenon
    <3> QED
      BY <3>1, <3>2, Zenon
  <2> QED
    BY <2>1, <2>2, <2>3, Zenon
<1>2. t \in released /\ t \notin arrived /\ Leaving(t) /\ ~BarrierHeld(t) /\ ~Entering(t)
  <2>1. Leaving(t)
    BY <1>1, Zenon DEF Leaving
  <2> QED
    BY <1>0, <2>1, Belongs, Kinds, Zenon
<1>3. Leaving(t)' /\ ~Entering(t)'
  BY <1>1, Zenon DEF Leaving, Entering
<1>4. arrived = {} /\ init_count # 0 /\ place[t].op # "destroy"
  BY <1>0, <1>1, <1>2, Zenon DEF Cycle, Open, Whereabouts
<1>5. /\ BarrierTypes' /\ Present' = Present
      /\ Open' = IF place[t].pc = "reset" THEN {} ELSE Open
  <2>1. \A u \in released : u \in Participant /\ (u = t \/ Like(u))
    BY <1>0, <1>1, Zenon DEF BarrierTypes
  <2>2. BarrierTypes'
    BY <1>0, <1>1, Zenon DEF BarrierTypes
  <2>3. Present' = Present
    BY <1>0, <1>1, <2>1, ZenonT(30) DEF Present, Like
  <2>4. CASE place[t].pc = "reset"
    <3>1. released = {t}
      BY <1>0, <2>4, Zenon DEF Whereabouts
    <3> QED
      BY <1>0, <1>1, <2>2, <2>3, <2>4, <3>1, Zenon DEF Open
  <2>5. CASE place[t].pc # "reset"
    BY <1>0, <1>1, <2>1, <2>2, <2>3, <2>5, ZenonT(30) DEF Open, Like
  <2> QED
    BY <2>4, <2>5, Zenon
<1>6. t \in Open
  BY <1>1, <1>2, Zenon DEF Open
<1>7. Cycle'
  BY <1>0, <1>1, <1>4, <1>5, <1>6, Zenon DEF Cycle
<1>8. Whereabouts(t)'
  BY <1>0, <1>1, <1>2, <1>3, <1>4, <1>5, ZenonT(30) DEF Whereabouts
<1>9. ASSUME NEW u \in Participant, u # t PROVE Whereabouts(u)'
  <2>1. Whereabouts(u) /\ Like(u) /\ place[u].pc \notin {"enter", "check"}
    BY <1>1, <1>6, <1>9, Zenon DEF BarrierInv, Whereabouts
  <2>2. place[u].pc \in {"wakeHeld", "leave", "reset"} => state' = "RELEASE" \/ Participant = {u}
    <3>1. CASE place[t].pc = "reset"
      <4>1. released = {t}
        BY <1>0, <3>1, Zenon DEF Whereabouts
      <4>2. u \notin released
        BY <1>9, <4>1, Zenon
      <4> QED
        BY <4>2, Belongs, Zenon DEF Leaving
    <3>2. CASE place[t].pc # "reset"
      BY <1>1, <2>1, <3>2, Zenon DEF Whereabouts
    <3> QED
      BY <3>1, <3>2, Zenon
  <2> QED
    BY <1>0, <1>1, <1>3, <1>5, <2>1, <2>2, ZenonT(30) DEF Whereabouts, Like, Leaving
<1> QED
  BY <1>0, <1>1, <1>5, <1>7, <1>8, <1>9, Zenon DEF BarrierInv, Like

Serial == {t \in Participant : place[t].serial}

LEMMA PresentFinite ==
    ASSUME BarrierTypes
    PROVE  IsFiniteSet(Present) /\ IsFiniteSet(arrived) /\ Present \subseteq Participant
<1>1. Present \subseteq Participant /\ arrived \subseteq Participant
  BY Zenon DEF BarrierTypes, Present
<1> QED
  BY <1>1, ParticipantAssumption, FS_Subset, Zenon

\* A thread is counted in: it is held, or it fills the cycle.
LEMMA EnterStep ==
    ASSUME BarrierInv, NEW t \in Participant, Barrier!Enter(t)
    PROVE  /\ BarrierInv'
           /\ t \notin arrived \cup released
           /\ IF arrived \cup {t} = Participant
                THEN arrived' = {} /\ released' = Participant /\ Serial' = {t}
                ELSE arrived' = arrived \cup {t} /\ released' = released /\ Serial' = Serial
<1>0. /\ BarrierTypes /\ Whereabouts(t) /\ Cycle /\ place[t].pc = "enter" /\ place[t] \in Barrier!Calls
      /\ wait_count < init_count /\ wait_count' = wait_count + 1 /\ UNCHANGED <<state, init_count>>
      /\ wait_count \in Nat
  BY Zenon DEF BarrierInv, BarrierTypes, Barrier!Enter
<1> DEFINE last == wait_count + 1 = init_count
           l == IF ~last THEN "hold" ELSE IF wait_count # 0 THEN "release" ELSE "leave"
           c == [place[t] EXCEPT !.pc = l, !.prev = wait_count, !.serial = last]
<1>1. /\ place' = [place EXCEPT ![t] = c]
      /\ arrived' = IF last THEN {} ELSE arrived \cup {t}
      /\ released' = IF last THEN arrived \cup {t} ELSE released
  BY Zenon DEF Barrier!Enter
<1>2. c \in Barrier!Calls /\ c.pc = l /\ c.op = place[t].op /\ c.serial = last
  <2>1. l \in Barrier!Location /\ last \in BOOLEAN
    BY Zenon DEF Barrier!Location
  <2> HIDE DEF l, last
  <2> QED
    BY <1>0, <2>1, Zenon DEF Barrier!Calls
<1> HIDE DEF c
<1>3. /\ place' \in [Participant -> Barrier!Calls] /\ place'[t] = c
      /\ \A u \in Participant : u # t => place'[u] = place[u] /\ Like(u)
  <2>1. /\ place' \in [Participant -> Barrier!Calls] /\ place'[t] = c
        /\ \A u \in Participant : u # t => place'[u] = place[u]
    BY <1>0, <1>1, <1>2, Zenon DEF BarrierTypes
  <2> QED
    BY <2>1, Zenon DEF Like, BarrierHeld, Entering
<1>4. t \notin arrived \cup released /\ Entering(t) /\ ~BarrierHeld(t)
  <2>1. Entering(t)
    BY <1>0, Zenon DEF Entering
  <2> QED
    BY <1>0, <2>1, Belongs, Kinds, Zenon
<1>5. Open = {} /\ state = "WAIT" /\ \A u \in Participant : place[u].op # "destroy"
  <2>1. ASSUME NEW u \in Participant, place[u].op = "destroy" PROVE FALSE
    BY <1>0, <1>4, <2>1, Zenon DEF BarrierInv, Whereabouts
  <2> QED
    BY <1>0, <2>1, Zenon DEF Whereabouts, Cycle, BarrierTypes
<1>6. Present = arrived /\ wait_count = Cardinality(arrived)
  BY <1>5, Zenon DEF Present, Open, BarrierInv
<1>7. /\ init_count = Cardinality(Participant)
      /\ IsFiniteSet(arrived) /\ IsFiniteSet(arrived \cup {t})
      /\ Cardinality(arrived \cup {t}) = wait_count + 1
      /\ arrived \cup {t} \subseteq Participant
  <2>1. init_count = Cardinality(Participant)
    BY <1>0 DEF BarrierTypes
  <2> QED
    BY <1>0, <1>4, <1>6, <2>1, PresentFinite, FS_AddElement, Zenon DEF BarrierTypes
<1>8. last <=> arrived \cup {t} = Participant
  <2>1. last => arrived \cup {t} = Participant
    BY <1>7, ParticipantAssumption, FS_Subset, Zenon
  <2> QED
    BY <1>7, <2>1, Zenon
<1>9. CASE last
  <2>1. /\ arrived \cup {t} = Participant /\ released = {} /\ arrived' = {} /\ released' = Participant
        /\ wait_count' = Cardinality(Participant) /\ (wait_count = 0 => Participant = {t})
    <3>1. arrived \cup {t} = Participant /\ arrived' = {} /\ released' = Participant
      BY <1>1, <1>8, <1>9, Zenon
    <3>2. released = {}
      BY <1>0, <1>4, <3>1, Zenon DEF Cycle, BarrierTypes
    <3>3. wait_count = 0 => arrived = {}
      BY <1>6, <1>7, FS_EmptySet, Zenon
    <3> QED
      BY <1>0, <1>7, <1>9, <3>1, <3>2, <3>3, ZenonT(30)
  <2>2. /\ place'[t].pc \in {"release", "leave"} /\ place'[t].serial = TRUE
        /\ place'[t].pc = "leave" => Participant = {t}
        /\ place'[t].op = place[t].op
    BY <1>2, <1>3, <1>9, <2>1, Zenon
  <2>3. ASSUME NEW u \in Participant, u # t
        PROVE  BarrierHeld(u)' /\ ~Entering(u)' /\ place'[u].pc \in {"hold", "holdWait", "asleep"}
               /\ ~place'[u].serial /\ place'[u].op # "destroy"
    <3>1. u \in arrived /\ u \notin released /\ Whereabouts(u) /\ Like(u) /\ place'[u] = place[u]
      BY <1>3, <2>1, <2>3, Zenon DEF BarrierInv
    <3>2. BarrierHeld(u) /\ ~Entering(u) /\ place[u].pc \in {"hold", "holdWait", "asleep"} /\ ~place[u].serial
      BY <1>0, <3>1, Kinds, Zenon DEF Whereabouts
    <3> QED
      BY <1>5, <3>1, <3>2, Zenon DEF Like
  <2>4. BarrierTypes'
    BY <1>0, <1>3, <2>1 DEF BarrierTypes
  <2>5. Present' = Participant /\ Open' = Participant
    BY <2>1, <2>2, <2>3, Zenon DEF Present, Open
  <2>6. Cycle'
    BY <1>0, <1>5, <2>1, <2>5, Zenon DEF Cycle
  <2>7. Leaving(t)' /\ ~Entering(t)'
    BY <2>2, Zenon DEF Leaving, Entering
  <2>8. Whereabouts(t)'
    BY <1>0, <1>5, <2>1, <2>2, <2>7, ZenonT(30) DEF Whereabouts
  <2>9. ASSUME NEW u \in Participant, u # t PROVE Whereabouts(u)'
    <3>1. init_count # 0
      BY <1>0
    <3> QED
      BY <1>0, <2>1, <2>3, <2>9, <3>1, Zenon DEF Whereabouts
  <2>10. BarrierInv'
    BY <2>1, <2>4, <2>5, <2>6, <2>8, <2>9, ZenonT(30) DEF BarrierInv
  <2>11. Serial' = {t}
    BY <2>2, <2>3, Zenon DEF Serial
  <2> QED
    BY <1>4, <2>1, <2>10, <2>11, Zenon
<1>10. CASE ~last
  <2>1. /\ arrived \cup {t} # Participant /\ arrived' = arrived \cup {t} /\ released' = released
        /\ place'[t].pc = "hold" /\ place'[t].serial = FALSE /\ place'[t].op = place[t].op
    BY <1>1, <1>2, <1>3, <1>8, <1>10, ZenonT(30)
  <2>2. BarrierHeld(t)' /\ ~Entering(t)'
    BY <2>1, Zenon DEF BarrierHeld, Entering
  <2>3. BarrierTypes'
    BY <1>0, <1>3, <2>1 DEF BarrierTypes
  <2>4. Open' = {} /\ Present' = arrived \cup {t}
    <3>1. \A u \in released : u \in Participant /\ u # t /\ Like(u)
      BY <1>0, <1>3, <1>4, Zenon DEF BarrierTypes
    <3> QED
      BY <1>5, <2>1, <3>1, Zenon DEF Open, Present, Like
  <2>5. Cycle'
    BY <1>0, <1>4, <1>5, <2>1, <2>4, Zenon DEF Cycle
  <2>6. Whereabouts(t)'
    BY <1>0, <1>4, <1>5, <2>1, <2>2, <2>4, ZenonT(30) DEF Whereabouts
  <2>7. ASSUME NEW u \in Participant, u # t PROVE Whereabouts(u)'
    <3>1. Whereabouts(u) /\ Like(u) /\ place[u].op # "destroy" /\ init_count # 0
      BY <1>0, <1>3, <1>5, <2>7, SMTT(30) DEF BarrierInv
    <3> QED
      BY <1>0, <1>5, <2>1, <2>4, <2>7, <3>1, ZenonT(30) DEF Whereabouts, Like, Leaving
  <2>8. BarrierInv'
    BY <1>0, <1>7, <2>3, <2>4, <2>5, <2>6, <2>7, ZenonT(30) DEF BarrierInv
  <2>9. Serial' = Serial
    BY <1>0, <1>3, <1>4, <2>1, Zenon DEF Serial, Like, Whereabouts
  <2> QED
    BY <1>4, <2>1, <2>8, <2>9, Zenon
<1> QED
  BY <1>9, <1>10, Zenon

\* A thread of a full cycle leaves; the last one stays to close the cycle.
LEMMA LeaveStep ==
    ASSUME BarrierInv, NEW t \in Participant, Barrier!Leave(t)
    PROVE  /\ BarrierInv' /\ arrived' = arrived
           /\ \/ released' = released /\ Serial' = Serial
              \/ t \in released /\ released' = released \ {t} /\ Serial' = Serial \ {t}
<1>0. /\ BarrierTypes /\ Whereabouts(t) /\ Cycle /\ place[t].pc = "leave" /\ wait_count \in Nat
      /\ wait_count' = wait_count - 1 /\ UNCHANGED <<state, init_count, arrived>>
  BY Zenon DEF BarrierInv, BarrierTypes, Barrier!Leave
<1>1. /\ t \in released /\ t \notin arrived /\ t \in Open /\ arrived = {} /\ init_count # 0
      /\ ~Entering(t) /\ ~BarrierHeld(t) /\ place[t].op # "destroy" /\ t \in Present
  <2>1. Leaving(t)
    BY <1>0, Zenon DEF Leaving
  <2>2. t \in released /\ t \notin arrived /\ ~Entering(t) /\ ~BarrierHeld(t)
    BY <1>0, <2>1, Belongs, Kinds, Zenon
  <2>3. t \in Open /\ t \in Present
    BY <1>0, <2>2, Zenon DEF Open, Present
  <2> QED
    BY <1>0, <2>2, <2>3, Zenon DEF Whereabouts, Cycle
<1>2. \A u \in Participant : place[u].pc \notin {"enter", "check", "reset", "wakeGate"}
  <2>1. ASSUME NEW u \in Participant, place[u].pc \in {"reset", "wakeGate"} PROVE FALSE
    <3>1. released = {u}
      BY <2>1, Zenon DEF BarrierInv, Whereabouts
    <3> QED
      BY <1>0, <1>1, <2>1, <3>1, Zenon
  <2> QED
    BY <1>1, <2>1, Zenon DEF BarrierInv, Whereabouts
<1>3. Present = released /\ Open = released /\ wait_count = Cardinality(released) /\ IsFiniteSet(released)
  <2>1. Present = released /\ Open = released
    BY <1>0, <1>1, <1>2, Zenon DEF Present, Open, BarrierTypes
  <2> QED
    BY <1>0, <2>1, PresentFinite, Zenon DEF BarrierInv
<1>4. Cardinality(released \ {t}) = wait_count - 1 /\ (wait_count = 1 => released = {t})
  <2>1. Cardinality(released \ {t}) = wait_count - 1 /\ IsFiniteSet(released \ {t})
    BY <1>1, <1>3, FS_RemoveElement, Zenon
  <2>2. wait_count = 1 => released \ {t} = {}
    BY <2>1, FS_EmptySet
  <2> QED
    BY <1>1, <2>1, <2>2, Zenon
<1>5. CASE wait_count = 1
  <2>1. place' = [place EXCEPT ![t].pc = "reset"] /\ released' = released /\ released = {t}
    BY <1>4, <1>5, Zenon DEF Barrier!Leave, Barrier!Goto
  <2>2. "reset" \in Barrier!Location
    BY Zenon DEF Barrier!Location
  <2>3. /\ place' \in [Participant -> Barrier!Calls] /\ place'[t].pc = "reset"
        /\ place'[t].op = place[t].op /\ place'[t].serial = place[t].serial
        /\ \A u \in Participant : u # t => Like(u)
    BY <1>0, <2>1, <2>2, Moved, Zenon
  <2>4. BarrierTypes'
    BY <1>0, <1>5, <2>1, <2>3, SMTT(30) DEF BarrierTypes
  <2>5. Present' = {} /\ Open' = {t} /\ wait_count' = Cardinality({})
    BY <1>0, <1>1, <1>5, <2>1, <2>3, FS_EmptySet, SMTT(30) DEF Present, Open
  <2>6. Cycle'
    BY <1>0, <1>1, <1>3, <2>1, <2>5, ZenonT(30) DEF Cycle
  <2>7. Leaving(t)' /\ ~Entering(t)'
    BY <2>3, Zenon DEF Leaving, Entering
  <2>8. Whereabouts(t)'
    BY <1>0, <1>1, <2>1, <2>3, <2>5, <2>7, ZenonT(30) DEF Whereabouts
  <2>9. ASSUME NEW u \in Participant, u # t PROVE Whereabouts(u)'
    <3>1. Whereabouts(u) /\ Like(u)
      BY <2>3, <2>9, Zenon DEF BarrierInv
    <3> QED
      BY <1>0, <1>1, <1>2, <2>1, <2>3, <2>7, <3>1, ZenonT(30) DEF Whereabouts, Like, Leaving
  <2>10. BarrierInv' /\ Serial' = Serial
    BY <2>3, <2>4, <2>5, <2>6, <2>8, <2>9, ZenonT(30) DEF BarrierInv, Serial, Like
  <2> QED
    BY <1>0, <2>1, <2>10, Zenon
<1>6. CASE wait_count # 1
  <2>1. place' = [place EXCEPT ![t] = Barrier!Idle] /\ released' = released \ {t}
    BY <1>6, Zenon DEF Barrier!Leave, Barrier!Return
  <2>2. /\ place' \in [Participant -> Barrier!Calls]
        /\ place'[t].pc = "idle" /\ place'[t].op = "wait" /\ place'[t].serial = FALSE
        /\ \A u \in Participant : u # t => Like(u)
    BY <1>0, <2>1, Gone, Zenon
  <2>3. released \ {t} # {} /\ Participant # {t} /\ state = "RELEASE" /\ wait_count' \in Nat
    <3>1. released \ {t} # {}
      BY <1>0, <1>4, <1>6, FS_EmptySet, SMTT(30)
    <3>2. Participant # {t}
      BY <1>0, <3>1, Zenon DEF BarrierTypes
    <3>3. wait_count # 0
      <4>1. released # {} /\ IsFiniteSet(released)
        BY <1>1, <1>3, Zenon
      <4> QED
        BY <1>3, <4>1, FS_EmptySet, Zenon
    <3> QED
      BY <1>0, <3>1, <3>2, <3>3, SMTT(30) DEF Whereabouts
  <2>4. BarrierTypes'
    BY <1>0, <2>1, <2>2, <2>3, ZenonT(30) DEF BarrierTypes
  <2>5. Present' = released \ {t} /\ Open' = released \ {t}
    <3>1. \A u \in released : u \in Participant /\ (u = t \/ Like(u)) /\ place[u].pc \notin {"reset", "wakeGate"}
      BY <1>0, <1>2, <2>2, Zenon DEF BarrierTypes
    <3> QED
      BY <1>0, <1>1, <2>1, <3>1, Zenon DEF Present, Open, Like
  <2>6. Cycle'
    BY <1>0, <1>1, <2>1, <2>3, <2>5, ZenonT(30) DEF Cycle
  <2>7. ~Entering(t)'
    BY <2>2, Zenon DEF Entering
  <2>8. Whereabouts(t)'
    BY <1>0, <1>1, <2>1, <2>2, ZenonT(30) DEF Whereabouts
  <2>9. ASSUME NEW u \in Participant, u # t PROVE Whereabouts(u)'
    <3>1. Whereabouts(u) /\ Like(u)
      BY <2>2, <2>9, Zenon DEF BarrierInv
    <3> QED
      BY <1>0, <1>1, <1>2, <2>1, <2>2, <2>3, <2>7, <2>9, <3>1, ZenonT(30) DEF Whereabouts, Like, Leaving
  <2>10. BarrierInv' /\ Serial' = Serial \ {t}
    BY <1>0, <1>4, <2>2, <2>4, <2>5, <2>6, <2>8, <2>9, ZenonT(30) DEF BarrierInv, Serial, Like
  <2> QED
    BY <1>0, <1>1, <2>1, <2>10, Zenon
<1> QED
  BY <1>5, <1>6, Zenon

\* The thread that closed the cycle is gone.
LEMMA WakeGateStep ==
    ASSUME BarrierInv, NEW t \in Participant, Barrier!WakeGate(t)
    PROVE  /\ BarrierInv' /\ arrived' = arrived
           /\ t \in released /\ released' = released \ {t} /\ Serial' = Serial \ {t}
<1>0. /\ BarrierTypes /\ Whereabouts(t) /\ Cycle /\ place[t].pc = "wakeGate"
      /\ UNCHANGED arrived /\ released' = released \ {t} /\ Barrier!Wake(t, init_count, "idle")
  BY Zenon DEF BarrierInv, Barrier!WakeGate
<1>1. /\ place' \in [Participant -> Barrier!Calls]
      /\ place'[t].pc = "idle" /\ place'[t].op = "wait" /\ place'[t].serial = FALSE
      /\ \A u \in Participant : u # t => Like(u)
      /\ UNCHANGED <<state, wait_count, init_count>>
  BY <1>0, Waken, ZenonT(30)
<1>2. /\ released = {t} /\ released' = {} /\ t \notin arrived /\ ~Entering(t)
      /\ Open = {} /\ Open' = {} /\ Present = arrived /\ Present' = arrived /\ state = "WAIT"
  <2>1. Leaving(t) /\ released = {t}
    BY <1>0, Zenon DEF Leaving, Whereabouts
  <2>2. t \notin arrived /\ ~Entering(t) /\ released' = {}
    BY <1>0, <2>1, Belongs, Kinds, Zenon
  <2>3. Open = {} /\ Open' = {} /\ Present = arrived /\ Present' = arrived
    BY <1>0, <2>1, <2>2, Zenon DEF Open, Present
  <2> QED
    BY <1>0, <2>1, <2>2, <2>3, Zenon DEF Cycle, BarrierTypes
<1>3. BarrierTypes' /\ Cycle'
  BY <1>0, <1>1, <1>2, Zenon DEF BarrierTypes, Cycle
<1>4. ~Entering(t)'
  BY <1>1, Zenon DEF Entering
<1>5. Whereabouts(t)'
  BY <1>0, <1>1, <1>2, ZenonT(30) DEF Whereabouts
<1>6. ASSUME NEW u \in Participant, u # t PROVE Whereabouts(u)'
  <2>1. Whereabouts(u) /\ Like(u) /\ u \notin released
    BY <1>1, <1>2, <1>6, Zenon DEF BarrierInv
  <2>2. place[u].pc \notin {"reset", "wakeGate", "wakeHeld", "leave"}
    BY <2>1, Belongs, Zenon DEF Leaving
  <2> QED
    BY <1>0, <1>1, <1>2, <1>4, <2>1, <2>2, ZenonT(30) DEF Whereabouts, Like, Leaving
<1> QED
  BY <1>0, <1>1, <1>2, <1>3, <1>5, <1>6, ZenonT(30) DEF BarrierInv, Serial, Like

\* Destroy reports EBUSY, or marks a barrier that nobody is inside of.
LEMMA DestroyStep ==
    ASSUME BarrierInv, NEW t \in Participant, Barrier!DestroyCheck(t)
    PROVE  BarrierInv' /\ UNCHANGED <<arrived, released>> /\ Serial' = Serial
<1>0. /\ BarrierTypes /\ Whereabouts(t) /\ Cycle /\ place[t].pc = "check"
      /\ UNCHANGED <<state, wait_count, arrived, released>>
      /\ init_count' \in {init_count, 0} /\ (init_count' = 0 => wait_count = 0)
      /\ place' = [place EXCEPT ![t] = Barrier!Idle]
  <2>1. place[t].pc = "check" /\ Whereabouts(t)
    BY Zenon DEF Barrier!DestroyCheck, BarrierInv
  <2> QED
    BY <2>1, Zenon DEF BarrierInv, Whereabouts, Barrier!DestroyCheck, Barrier!Return
<1>1. /\ place' \in [Participant -> Barrier!Calls]
      /\ place'[t].pc = "idle" /\ place'[t].op = "wait" /\ place'[t].serial = FALSE
      /\ \A u \in Participant : u # t => Like(u)
  BY <1>0, Gone, Zenon
<1>2. t \notin arrived \cup released /\ Open = {} /\ place[t].op = "destroy" /\ ~place[t].serial
  <2>1. Entering(t)
    BY <1>0, Zenon DEF Entering
  <2> QED
    BY <1>0, <2>1, Belongs, Zenon DEF Whereabouts
<1>3. BarrierTypes' /\ Open' = {} /\ Present' = Present
  <2>1. \A u \in released : u \in Participant /\ u # t /\ Like(u)
    BY <1>0, <1>1, <1>2, Zenon DEF BarrierTypes
  <2>2. BarrierTypes'
    BY <1>0, <1>1, Zenon DEF BarrierTypes
  <2> QED
    BY <1>0, <1>2, <2>1, <2>2, Zenon DEF Open, Present, Like
<1>4. Cycle'
  BY <1>0, <1>2, <1>3, Zenon DEF Cycle
<1>5. Whereabouts(t)'
  BY <1>0, <1>1, <1>2, Zenon DEF Whereabouts
<1>6. ASSUME NEW u \in Participant, u # t PROVE Whereabouts(u)'
  <2>1. Whereabouts(u) /\ Like(u) /\ ~Entering(u) /\ place[u].op # "destroy"
    BY <1>0, <1>1, <1>2, <1>6, Zenon DEF BarrierInv, Whereabouts
  <2>2. wait_count = 0 => place[u].pc \in {"idle", "wakeGate"}
    <3>1. wait_count = 0 => Present = {}
      BY <1>0, PresentFinite, FS_EmptySet, Zenon DEF BarrierInv
    <3>2. u \notin arrived /\ u \notin released => place[u].pc = "idle"
      BY <2>1, Zenon DEF Whereabouts
    <3>3. u \in released => place[u].pc = "wakeGate"
      BY <1>2, Zenon DEF Open
    <3> QED
      BY <3>1, <3>2, <3>3, Zenon DEF Present
  <2> QED
    BY <1>0, <1>1, <1>3, <2>1, <2>2, ZenonT(30) DEF Whereabouts, Like, Leaving
<1> QED
  BY <1>0, <1>1, <1>2, <1>3, <1>4, <1>5, <1>6, ZenonT(30) DEF BarrierInv, Serial, Like

LEMMA ReinitStep ==
    ASSUME BarrierInv, Barrier!Reinit
    PROVE  BarrierInv' /\ UNCHANGED <<arrived, released>> /\ Serial' = Serial
<1>0. /\ BarrierTypes /\ Cycle /\ init_count = 0 /\ state' = "WAIT" /\ wait_count' = 0
      /\ UNCHANGED <<place, arrived, released>>
      /\ \A t \in Participant : Whereabouts(t) /\ place[t].pc \in {"idle", "wakeGate"}
  BY Zenon DEF BarrierInv, Whereabouts, Barrier!Reinit, Barrier!Fresh
<1>1. init_count' = Cardinality(Participant) /\ Cardinality(Participant) # 0
  <2>1. Cardinality(Participant) # 0
    BY ParticipantAssumption, FS_EmptySet, Zenon
  <2>2. Barrier!Count = Cardinality(Participant)
    BY Zenon DEF Barrier!Count, Barrier!Cardinality, Cardinality
  <2> QED
    BY <2>1, <2>2, Zenon DEF Barrier!Reinit, Barrier!Fresh
<1>2. arrived = {} /\ Open = {} /\ Present = {}
  <2>1. arrived = {}
    BY <1>0, Kinds, Zenon DEF BarrierTypes, Whereabouts
  <2>2. \A t \in released : place[t].pc = "wakeGate"
    BY <1>0, Kinds, Zenon DEF BarrierTypes, Whereabouts, Leaving
  <2> QED
    BY <2>1, <2>2, Zenon DEF Open, Present
<1>3. BarrierTypes' /\ Open' = Open /\ Present' = Present /\ Serial' = Serial
  BY <1>0, <1>1, Zenon DEF BarrierTypes, Open, Present, Serial
<1>4. Cycle'
  BY <1>0, <1>2, <1>3, ZenonT(30) DEF Cycle
<1>5. ASSUME NEW t \in Participant PROVE Whereabouts(t)'
  BY <1>0, <1>1, <1>2, <1>3, <1>5, ZenonT(30) DEF Whereabouts, BarrierHeld, Entering, Leaving
<1> QED
  BY <1>0, <1>2, <1>3, <1>4, <1>5, FS_EmptySet, ZenonT(30) DEF BarrierInv

LEMMA BarrierStep ==
    BarrierInv /\ [Barrier!Next]_Barrier!vars
      => BarrierInv' /\ [Barrier!Abstract!Next]_<<arrived, released, Serial>>
<1> SUFFICES ASSUME BarrierInv, [Barrier!Next]_Barrier!vars
             PROVE  BarrierInv' /\ [Barrier!Abstract!Next]_<<arrived, released, Serial>>
  BY Zenon
<1>0. Serial = {t \in Participant : place[t].serial}
  BY Zenon DEF Serial
<1>1. CASE UNCHANGED Barrier!vars
  <2>1. UNCHANGED <<state, wait_count, init_count, place, arrived, released>>
    BY <1>1, Zenon DEF Barrier!vars
  <2>2. Open' = Open /\ Present' = Present /\ Serial' = Serial
    BY <2>1, Zenon DEF Open, Present, Serial
  <2>3. BarrierTypes' /\ Cycle' /\ wait_count' = Cardinality(Present)'
    BY <2>1, <2>2, Zenon DEF BarrierInv, BarrierTypes, Cycle
  <2>4. ASSUME NEW t \in Participant PROVE Whereabouts(t)'
    <3>1. Whereabouts(t)
      BY Zenon DEF BarrierInv
    <3> QED
      BY <2>1, <2>2, <3>1, Zenon DEF Whereabouts, BarrierHeld, Entering, Leaving
  <2> QED
    BY <2>1, <2>2, <2>3, <2>4, Zenon DEF BarrierInv
<1>2. CASE Barrier!Reinit
  BY <1>2, ReinitStep, Zenon
<1>3. ASSUME NEW t \in Participant, Barrier!BarrierWait(t) \/ Barrier!BarrierDestroy(t) \/ Barrier!Gate(t)
      PROVE  BarrierInv' /\ UNCHANGED <<arrived, released, Serial>>
  BY <1>3, WayInStep, Zenon DEF Serial
<1>4. ASSUME NEW t \in Participant,
             Barrier!GateWait(t) \/ Barrier!HoldWait(t) \/ Barrier!SpuriousReturn(t)
      PROVE  BarrierInv' /\ UNCHANGED <<arrived, released, Serial>>
  BY <1>4, SleepStep, Zenon DEF Serial
<1>5. ASSUME NEW t \in Participant, Barrier!Hold(t)
      PROVE  BarrierInv' /\ UNCHANGED <<arrived, released, Serial>>
  BY <1>5, HoldStep, Zenon DEF Serial
<1>6. ASSUME NEW t \in Participant, Barrier!Release(t) \/ Barrier!WakeHeld(t) \/ Barrier!Reset(t)
      PROVE  BarrierInv' /\ UNCHANGED <<arrived, released, Serial>>
  BY <1>6, OpenStep, Zenon DEF Serial
<1>7. ASSUME NEW t \in Participant, Barrier!Enter(t)
      PROVE  BarrierInv' /\ Barrier!Abstract!Arrive(t)
  BY <1>0, <1>7, EnterStep, Zenon DEF Barrier!Abstract!Arrive, Serial
<1>8. ASSUME NEW t \in Participant, Barrier!Leave(t) \/ Barrier!WakeGate(t)
      PROVE  BarrierInv' /\ (UNCHANGED <<arrived, released, Serial>> \/ Barrier!Abstract!Leave(t))
  BY <1>0, <1>8, LeaveStep, WakeGateStep, Zenon DEF Barrier!Abstract!Leave, Serial
<1>9. ASSUME NEW t \in Participant, Barrier!DestroyCheck(t)
      PROVE  BarrierInv' /\ UNCHANGED <<arrived, released, Serial>>
  BY <1>9, DestroyStep, Zenon
<1> QED
  BY <1>1, <1>2, <1>3, <1>4, <1>5, <1>6, <1>7, <1>8, <1>9, ZenonT(30)
  DEF Barrier!Next, Barrier!Inside, Barrier!Abstract!Next

(* pthread_barrier implements a barrier, for any number of participants:      *)
(* nobody leaves a cycle before everybody has arrived in it and each cycle    *)
(* has one serial thread, also while some threads leave a cycle, others wait  *)
(* at the gate for the next and one destroys the barrier.                     *)
THEOREM BarrierImplements == Barrier!Spec => ImplementsBarrier
<1>1. Barrier!Init => Barrier!Abstract!Init
  <2>1. Barrier!Idle.serial = FALSE
    BY Zenon DEF Barrier!Idle
  <2> QED
    BY <2>1, Zenon DEF Barrier!Init, Barrier!Abstract!Init
<1>2. Serial = {t \in Participant : place[t].serial}
  BY Zenon DEF Serial
<1> QED
  BY <1>1, <1>2, BarrierInit, BarrierStep, PTL
  DEF Barrier!Spec, ImplementsBarrier, Barrier!Abstract!Spec, Serial
-----------------------------------------------------------------------------
(* The primitives side by side, the way the run takes them: each behaves as   *)
(* it does alone.                                                             *)
THEOREM WaitingPrimitives == MCSpec => ImplementsSemaphore /\ ImplementsBarrier /\ []WaitersCounted
<1>1. MCInit => Init /\ Barrier!Init /\ Cond!Init
  BY Zenon DEF MCInit
<1>2. [MCNext]_mcVars => [Next]_vars /\ [Barrier!Next]_Barrier!vars /\ [Cond!Next]_Cond!vars
  BY Zenon DEF MCNext, mcVars, barrierVars, condVars, Barrier!vars, Cond!vars
<1> QED
  BY <1>1, <1>2, SemaphoreImplementsAbstract, BarrierImplements, CondWaitersCounted, PTL
  DEF MCSpec, Spec, Barrier!Spec, Cond!Spec
=============================================================================
