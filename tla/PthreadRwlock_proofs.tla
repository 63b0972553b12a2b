------------------------ MODULE PthreadRwlock_proofs ------------------------
(* Proofs about read-write locks for any finite set of threads, any limit on *)
(* readers and either preference.                                            *)
EXTENDS PthreadRwlock, FiniteSetTheorems, TLAPS

\* The read holds, one by one: the first, second ... of each thread.
Holds == {h \in Thread \X (Nat \ {0}) : h[2] <= reads[h[1]]}

\* The types that exclusion depends on.
HoldTypes ==
    /\ state \in States
    /\ call \in [Thread -> Calls]
    /\ reads \in [Thread -> Nat]
    /\ writers \in SUBSET Thread

\* The state word counts the read holds and knows of the one writer, and the
\* two exclude each other.
WordTellsHolds ==
    /\ IsFiniteSet(Holds) /\ Cardinality(Holds) = state.readers
    /\ state.writer <=> writers # {}
    /\ \A t, u \in writers : t = u
    /\ state.writer => state.readers = 0

\* writer_tid is the id of nobody else.
TidHolds == \A t \in Thread : writer_tid = t => t \in writers

\* A thread about to store its tid, or that has cleared it, is the writer.
WriterKnown ==
    /\ TidHolds
    /\ \A t \in Thread :
          /\ call[t].pc = "storeTid" => t \in writers
          /\ call[t].pc = "release" => t \in writers /\ writer_tid = NoThread

Inv == HoldTypes /\ WordTellsHolds /\ WriterKnown

\* pthread_rwlock_init leaves the lock free.
LEMMA InitInv == Init => Inv
<1> SUFFICES ASSUME Init PROVE Inv
  BY Zenon
<1>1. HoldTypes
  BY RwlockAssumption DEF Init, HoldTypes, States, Calls, Location, Kind, Idle
<1>2. Holds = {}
  BY DEF Init, Holds
<1> QED
  BY <1>1, <1>2, FS_EmptySet, RwlockAssumption, Zenon
  DEF Init, Inv, WordTellsHolds, WriterKnown, TidHolds, Idle

\* A read hold more is one element more, one less is one element less.
LEMMA HoldsStep ==
    ASSUME HoldTypes, IsFiniteSet(Holds), NEW t \in Thread
    PROVE  /\ reads' = [reads EXCEPT ![t] = @ + 1] =>
                 IsFiniteSet(Holds') /\ Cardinality(Holds') = Cardinality(Holds) + 1
           /\ reads[t] > 0 /\ reads' = [reads EXCEPT ![t] = @ - 1] =>
                 IsFiniteSet(Holds') /\ Cardinality(Holds') = Cardinality(Holds) - 1
           /\ reads[t] > 0 => Cardinality(Holds) > 0
<1>0. reads \in [Thread -> Nat] /\ reads[t] \in Nat /\ Cardinality(Holds) \in Nat
  BY FS_CardinalityType, Zenon DEF HoldTypes
<1>1. ASSUME reads' = [reads EXCEPT ![t] = @ + 1]
      PROVE  IsFiniteSet(Holds') /\ Cardinality(Holds') = Cardinality(Holds) + 1
  <2>1. Holds' = Holds \cup {<<t, reads[t] + 1>>} /\ <<t, reads[t] + 1>> \notin Holds
    BY <1>0, <1>1 DEF Holds
  <2> QED
    BY <2>1, FS_AddElement, Zenon
<1>2. ASSUME reads[t] > 0
      PROVE  <<t, reads[t]>> \in Holds
  BY <1>0, <1>2 DEF Holds
<1>3. ASSUME reads[t] > 0, reads' = [reads EXCEPT ![t] = @ - 1]
      PROVE  IsFiniteSet(Holds') /\ Cardinality(Holds') = Cardinality(Holds) - 1
  <2>1. Holds' = Holds \ {<<t, reads[t]>>}
    BY <1>0, <1>3 DEF Holds
  <2> QED
    BY <1>2, <1>3, <2>1, FS_RemoveElement, Zenon
<1>4. ASSUME reads[t] > 0 PROVE Cardinality(Holds) > 0
  BY <1>0, <1>2, <1>4, FS_EmptySet
<1> QED
  BY <1>1, <1>3, <1>4, Zenon

\* Nobody comes to hold the lock or to write its tid.
CallOnly ==
    /\ call' \in [Thread -> Calls]
    /\ \A u \in Thread : call'[u].pc \in {"storeTid", "release"} => call'[u].pc = call[u].pc

Quiet ==
    /\ UNCHANGED <<writer_tid, reads, writers>>
    /\ state' \in States /\ state'.writer = state.writer /\ state'.readers = state.readers
    /\ CallOnly

\* A step of that kind keeps the invariant.
LEMMA QuietInv == Inv /\ Quiet => Inv'
<1> SUFFICES ASSUME Inv, Quiet PROVE Inv'
  BY Zenon
<1>1. HoldTypes'
  BY Zenon DEF Inv, Quiet, CallOnly, HoldTypes
<1>2. Holds' = Holds
  BY Zenon DEF Quiet, Holds
<1>3. WordTellsHolds'
  BY <1>2, Zenon DEF Inv, Quiet, WordTellsHolds
<1>4. WriterKnown'
  BY Zenon DEF Inv, Quiet, CallOnly, WriterKnown, TidHolds
<1> QED
  BY <1>1, <1>3, <1>4, Zenon DEF Inv

\* Moving on within a call to a place that no hold is tied to, or returning.
LEMMA GotoCallOnly ==
    ASSUME HoldTypes, NEW t \in Thread, NEW l \in Location \ {"storeTid", "release"},
           Goto(t, l) \/ Return(t) \/ UNCHANGED call
    PROVE  CallOnly
<1>1. Idle \in Calls /\ Idle.pc = "idle"
  BY Zenon DEF Idle, Calls, Location, Kind
<1>2. [call[t] EXCEPT !.pc = l] \in Calls /\ [call[t] EXCEPT !.pc = l].pc = l
  BY Zenon DEF HoldTypes, Calls
<1>3. CASE Goto(t, l)
  BY <1>2, <1>3, Zenon DEF Goto, HoldTypes, CallOnly
<1>4. CASE Return(t)
  BY <1>1, <1>4, Zenon DEF Return, HoldTypes, CallOnly
<1>5. CASE UNCHANGED call
  BY <1>5, Zenon DEF HoldTypes, CallOnly
<1> QED
  BY <1>3, <1>4, <1>5, Zenon

\* The steps that neither acquire nor release are quiet.
LEMMA WaitingIsQuiet ==
    ASSUME HoldTypes, NEW t \in Thread
    PROVE  /\ Rdlock(t) \/ Wrlock(t) => Quiet
           /\ CheckState(t) \/ SpuriousReturn(t) => Quiet
           /\ Pend(t) \/ Unpend(t) => Quiet
           /\ FutexWait(t) \/ TimeOut(t) => Quiet
           /\ WakePending(t) \/ WakeWriter(t) \/ WakeReaders(t) => Quiet
<1>0. /\ state \in States /\ call \in [Thread -> Calls] /\ call[t] \in Calls
      /\ Idle \in Calls /\ Idle.pc = "idle"
  BY Zenon DEF HoldTypes, Idle, Calls, Location, Kind
<1>1. ASSUME NEW k \in Kind, NEW timed \in BOOLEAN, Begin(t, k, timed) PROVE Quiet
  <2>1. [call[t] EXCEPT !.pc = "try", !.kind = k, !.timed = timed] \in Calls
    BY <1>0, Zenon DEF Calls, Location
  <2>2. call' = [call EXCEPT ![t] = [call[t] EXCEPT !.pc = "try", !.kind = k, !.timed = timed]]
    BY <1>0, <1>1, Zenon DEF Begin, Calls
  <2>3. CallOnly
    BY <1>0, <2>1, <2>2, Zenon DEF CallOnly, Calls
  <2> QED
    BY <1>0, <1>1, <2>3, Zenon DEF Begin, Quiet
<1>2. ASSUME CheckState(t) \/ SpuriousReturn(t) PROVE Quiet
  BY <1>0, <1>2, GotoCallOnly, Zenon DEF CheckState, SpuriousReturn, Quiet, Location
<1>3. ASSUME Pend(t) PROVE Quiet
  <2>1. CanAcquire(call[t].kind, state) \in BOOLEAN
    BY Zenon DEF CanAcquire, CanAcquireRead, CanAcquireWrite
  <2> DEFINE c == [call[t] EXCEPT !.pc = "wait", !.fresh = TRUE,
                                  !.mayTake = CanAcquire(call[t].kind, state)]
  <2>2. c \in Calls /\ c.pc = "wait"
    BY <1>0, <2>1, Zenon DEF Calls, Location
  <2>3. call' = [call EXCEPT ![t] = c]
    BY <1>0, <1>3, Zenon DEF Pend, Calls
  <2>4. CallOnly
    BY <1>0, <2>2, <2>3, Zenon DEF CallOnly
  <2>5. [state EXCEPT !.flags = @ \cup {call[t].kind}] \in States
    BY <1>0, Zenon DEF States, Calls
  <2> QED
    BY <1>0, <1>3, <2>4, <2>5, Zenon DEF Pend, Quiet, States
<1>4. ASSUME Unpend(t) PROVE Quiet
  <2>1. CallOnly
    BY <1>4, GotoCallOnly, Zenon DEF Unpend, Location
  <2> QED
    BY <1>0, <1>4, <2>1, Zenon DEF Unpend, Quiet, States
<1>5. ASSUME FutexWait(t) \/ TimeOut(t) PROVE Quiet
  <2>1. \A l \in {"asleep", "unpend"} : Waited(t, l) \in Calls /\ Waited(t, l).pc = l
    BY <1>0, Zenon DEF Waited, Calls, Location
  <2> DEFINE late == [Waited(t, "unpend") EXCEPT !.expired = TRUE]
  <2>2. late \in Calls /\ late.pc = "unpend"
    BY <2>1, Zenon DEF Calls
  <2>3. PICK c \in Calls : c.pc \in {"asleep", "unpend"} /\ call' = [call EXCEPT ![t] = c]
    BY <1>5, <2>1, <2>2, Zenon DEF FutexWait, TimeOut
  <2>4. CallOnly
    BY <1>0, <2>3, Zenon DEF CallOnly
  <2> QED
    BY <1>0, <1>5, <2>4, Zenon DEF FutexWait, TimeOut, Quiet
<1>6. ASSUME NEW k \in Kind, NEW l \in {"wakeWriter", "wakeReaders"}, BumpSerial(t, k, l)
      PROVE  CallOnly
  <2>1. \A u \in Thread : call[u] \in Calls
    BY <1>0, Zenon
  <2>2. \A c \in Calls : /\ [c EXCEPT !.pc = l] \in Calls /\ [c EXCEPT !.pc = l].pc = l
                         /\ [c EXCEPT !.fresh = FALSE] \in Calls
                         /\ [c EXCEPT !.fresh = FALSE].pc = c.pc
    BY Zenon DEF Calls, Location
  <2> QED
    BY <1>6, <2>1, <2>2, Zenon DEF BumpSerial, CallOnly
<1>7. ASSUME WakePending(t) PROVE Quiet
  <2>1. CallOnly
    BY <1>6, <1>7, GotoCallOnly, Zenon DEF WakePending, Location, Kind
  <2> QED
    BY <1>0, <1>7, <2>1, Zenon DEF WakePending, Quiet
<1>8. \A u \in Thread : /\ [call[u] EXCEPT !.pc = "unpend"] \in Calls
                        /\ [call[u] EXCEPT !.pc = "unpend"].pc = "unpend"
  BY <1>0, Zenon DEF Calls, Location
<1>9. ASSUME WakeWriter(t) PROVE Quiet
  <2>1. ASSUME NEW u \in Asleep("writer"),
               call' = [call EXCEPT ![t] = Idle, ![u].pc = "unpend"]
        PROVE  CallOnly
    <3>1. u \in Thread /\ u # t
      BY <1>9, Zenon DEF WakeWriter, Asleep
    <3>2. call' = [[call EXCEPT ![t] = Idle] EXCEPT ![u] = [call[u] EXCEPT !.pc = "unpend"]]
      BY <1>0, <2>1, <3>1, Zenon
    <3> QED
      BY <1>0, <1>8, <3>1, <3>2, Zenon DEF CallOnly
  <2>2. CallOnly
    BY <1>9, <2>1, GotoCallOnly, Zenon DEF WakeWriter, Location
  <2> QED
    BY <1>0, <1>9, <2>2, Zenon DEF WakeWriter, Quiet
<1>10. ASSUME WakeReaders(t) PROVE Quiet
  <2>1. CallOnly
    BY <1>0, <1>8, <1>10, Zenon DEF WakeReaders, CallOnly
  <2> QED
    BY <1>0, <1>10, <2>1, Zenon DEF WakeReaders, Quiet
<1> QED
  BY <1>1, <1>2, <1>3, <1>4, <1>5, <1>7, <1>9, <1>10, Zenon DEF Rdlock, Wrlock, Kind

\* The acquisition by a reader finds no writer.
LEMMA TakeReadStep ==
    ASSUME Inv, NEW t \in Thread, TakeRead(t), CallOnly
    PROVE  Inv' /\ Abstract!AcquireRead(t)
<1>1. state.writer = FALSE /\ writers = {}
  BY Zenon DEF TakeRead, CanAcquireRead, Inv, HoldTypes, States, WordTellsHolds
<1>2. /\ state' = [state EXCEPT !.readers = @ + 1] /\ state' \in States
      /\ state'.writer = state.writer /\ state'.readers = state.readers + 1
  BY RwlockAssumption DEF TakeRead, Inv, HoldTypes, States
<1>3. IsFiniteSet(Holds') /\ Cardinality(Holds') = Cardinality(Holds) + 1
  BY HoldsStep, Zenon DEF TakeRead, Inv, WordTellsHolds
<1>4. HoldTypes'
  <2>1. reads' \in [Thread -> Nat]
    BY DEF TakeRead, Inv, HoldTypes
  <2>2. call' \in [Thread -> Calls] /\ writers' \in SUBSET Thread
    BY Zenon DEF TakeRead, CallOnly, Inv, HoldTypes
  <2> QED
    BY <1>2, <2>1, <2>2, Zenon DEF HoldTypes
<1>5. WordTellsHolds'
  BY <1>1, <1>2, <1>3, Zenon DEF TakeRead, Inv, WordTellsHolds
<1>6. WriterKnown'
  BY Zenon DEF TakeRead, CallOnly, Inv, WriterKnown, TidHolds
<1> QED
  BY <1>1, <1>4, <1>5, <1>6, Zenon DEF Inv, TakeRead, Abstract!AcquireRead

\* The acquisition by a writer finds neither.
LEMMA TakeWriteStep ==
    ASSUME Inv, NEW t \in Thread, TakeWrite(t)
    PROVE  Inv' /\ Abstract!AcquireWrite(t)
<1>1. state.writer = FALSE /\ state.readers = 0 /\ writers = {} /\ writers' = {t}
  BY Zenon DEF TakeWrite, CanAcquireWrite, Inv, HoldTypes, States, WordTellsHolds
<1>2. \A u \in Thread : reads[u] = 0
  <2>1. ASSUME NEW u \in Thread PROVE ~(reads[u] > 0)
    BY <1>1, HoldsStep DEF Inv, WordTellsHolds
  <2> QED
    BY <2>1 DEF Inv, HoldTypes
<1>3. state' \in States /\ state'.writer = TRUE /\ state'.readers = 0
  BY <1>1, Zenon DEF TakeWrite, Inv, HoldTypes, States
<1> DEFINE c == [Idle EXCEPT !.pc = "storeTid"]
<1>4. c \in Calls /\ c.pc = "storeTid" /\ call' = [call EXCEPT ![t] = c]
  BY Zenon DEF TakeWrite, Idle, Calls, Location, Kind
<1>5. Holds' = Holds
  BY Zenon DEF TakeWrite, Holds
<1>6. HoldTypes'
  BY <1>1, <1>3, <1>4, Zenon DEF TakeWrite, Inv, HoldTypes
<1>7. WordTellsHolds'
  BY <1>1, <1>3, <1>5, Zenon DEF Inv, WordTellsHolds
<1>8. WriterKnown'
  BY <1>1, <1>4, Zenon DEF TakeWrite, Inv, HoldTypes, WriterKnown, TidHolds
<1> QED
  BY <1>1, <1>2, <1>6, <1>7, <1>8, Zenon
     DEF Inv, TakeWrite, Abstract!AcquireWrite, Abstract!NoReader

\* Storing and clearing writer_tid leaves the holds alone.
LEMMA TidStep ==
    ASSUME Inv, NEW t \in Thread, StoreTid(t) \/ UnlockWriter(t)
    PROVE  Inv' /\ UNCHANGED <<reads, writers>>
<1>1. UNCHANGED <<state, reads, writers>> /\ Holds' = Holds
  BY Zenon DEF StoreTid, UnlockWriter, Holds
<1>2. /\ Idle \in Calls /\ Idle.pc = "idle"
      /\ [call[t] EXCEPT !.pc = "release"] \in Calls
      /\ [call[t] EXCEPT !.pc = "release"].pc = "release"
  BY ZenonT(30) DEF Inv, HoldTypes, Idle, Calls, Location, Kind
<1>3. HoldTypes'
  BY <1>1, <1>2, Zenon DEF StoreTid, UnlockWriter, Return, Goto, Inv, HoldTypes
<1>4. WordTellsHolds'
  BY <1>1, Zenon DEF Inv, WordTellsHolds
<1>5. \A u \in Thread : u # t => call'[u] = call[u]
  BY Zenon DEF StoreTid, UnlockWriter, Return, Goto, Inv, HoldTypes
<1>6. ASSUME StoreTid(t) PROVE WriterKnown'
  <2>1. t \in writers /\ writer_tid' = t /\ call'[t].pc = "idle"
    BY <1>2, <1>6, Zenon DEF StoreTid, Return, Inv, HoldTypes, WriterKnown
  <2>2. \A u \in writers : u = t
    BY <2>1, Zenon DEF Inv, WordTellsHolds
  <2> QED
    BY <1>1, <1>5, <2>1, <2>2, Zenon DEF Inv, WriterKnown, TidHolds
<1>7. ASSUME UnlockWriter(t) PROVE WriterKnown'
  <2>1. t \in writers /\ writer_tid' = NoThread /\ call'[t].pc = "release"
    BY <1>2, <1>7, Zenon DEF UnlockWriter, Goto, Inv, HoldTypes
  <2> QED
    BY <1>1, <1>5, <2>1, RwlockAssumption, Zenon DEF Inv, WriterKnown, TidHolds
<1> QED
  BY <1>1, <1>3, <1>4, <1>6, <1>7, Zenon DEF Inv

\* The release by the writer, and by a reader.
LEMMA ReleaseWriterStep ==
    ASSUME Inv, NEW t \in Thread, ReleaseWriter(t)
    PROVE  Inv' /\ Abstract!ReleaseWrite(t)
<1>1. t \in writers /\ writer_tid = NoThread /\ UNCHANGED <<writer_tid, reads>>
  BY Zenon DEF ReleaseWriter, Inv, WriterKnown
<1>2. writers = {t} /\ writers' = {}
  BY <1>1, Zenon DEF ReleaseWriter, Inv, WordTellsHolds
<1>3. state' \in States /\ state'.writer = FALSE /\ state'.readers = state.readers
  BY Zenon DEF ReleaseWriter, Inv, HoldTypes, States
<1>4. CallOnly
  BY GotoCallOnly DEF ReleaseWriter, Inv, Location
<1>5. call'[t].pc # "release"
  BY DEF ReleaseWriter, Return, Goto, Inv, HoldTypes, Calls, Idle
<1>6. Holds' = Holds
  BY <1>1, Zenon DEF Holds
<1>7. HoldTypes'
  BY <1>1, <1>2, <1>3, <1>4, Zenon DEF CallOnly, Inv, HoldTypes
<1>8. WordTellsHolds'
  BY <1>2, <1>3, <1>6, Zenon DEF Inv, WordTellsHolds
<1>9. \A u \in Thread : call'[u].pc \notin {"storeTid", "release"}
  <2>1. call[t].pc = "release"
    BY Zenon DEF ReleaseWriter
  <2> QED
    BY <1>2, <1>4, <1>5, <2>1, Zenon DEF CallOnly, Inv, WriterKnown
<1>10. WriterKnown'
  BY <1>1, <1>9, RwlockAssumption, Zenon DEF WriterKnown, TidHolds
<1> QED
  BY <1>1, <1>2, <1>7, <1>8, <1>10, Zenon DEF Inv, Abstract!ReleaseWrite

LEMMA UnlockReaderStep ==
    ASSUME Inv, NEW t \in Thread, UnlockReader(t)
    PROVE  Inv' /\ Abstract!ReleaseRead(t)
<1>1. reads[t] > 0 /\ reads' = [reads EXCEPT ![t] = @ - 1] /\ UNCHANGED <<writer_tid, writers>>
  BY Zenon DEF UnlockReader
<1>2. /\ IsFiniteSet(Holds') /\ Cardinality(Holds') = Cardinality(Holds) - 1
      /\ state.readers > 0
  BY <1>1, HoldsStep, Zenon DEF Inv, WordTellsHolds
<1>3. state' \in States /\ state'.writer = state.writer /\ state'.readers = state.readers - 1
  BY <1>2, RwlockAssumption DEF UnlockReader, Inv, HoldTypes, States
<1>4. CallOnly
  BY GotoCallOnly, Zenon DEF UnlockReader, Inv, Location
<1>5. HoldTypes'
  <2>1. reads' \in [Thread -> Nat]
    BY <1>1 DEF Inv, HoldTypes
  <2>2. call' \in [Thread -> Calls] /\ writers' \in SUBSET Thread
    BY <1>1, <1>4, Zenon DEF CallOnly, Inv, HoldTypes
  <2> QED
    BY <1>3, <2>1, <2>2, Zenon DEF HoldTypes
<1>6. WordTellsHolds'
  BY <1>1, <1>2, <1>3 DEF Inv, WordTellsHolds
<1>7. WriterKnown'
  BY <1>1, <1>4, Zenon DEF CallOnly, Inv, WriterKnown, TidHolds
<1> QED
  BY <1>1, <1>5, <1>6, <1>7, Zenon DEF Inv, Abstract!ReleaseRead

\* Every step keeps the invariant and is a step of the abstract lock.
LEMMA NextStep ==
    Inv /\ [Next]_vars => Inv' /\ [Abstract!Next]_<<reads, writers>>
<1> SUFFICES ASSUME Inv, [Next]_vars
             PROVE  Inv' /\ [Abstract!Next]_<<reads, writers>>
  BY Zenon
<1> DEFINE Goal == Inv' /\ [Abstract!Next]_<<reads, writers>>
<1>0. HoldTypes
  BY Zenon DEF Inv
<1>1. ASSUME Quiet PROVE Goal
  BY <1>1, QuietInv, Zenon DEF Quiet
<1>2. ASSUME UNCHANGED vars PROVE Quiet
  BY <1>0, <1>2, Zenon DEF vars, Quiet, CallOnly, HoldTypes
<1>3. ASSUME NEW t \in Thread, TakeRead(t), CallOnly PROVE Goal
  BY <1>3, TakeReadStep, Zenon DEF Abstract!Next
<1>4. ASSUME NEW t \in Thread, TakeWrite(t) PROVE Goal
  BY <1>4, TakeWriteStep, Zenon DEF Abstract!Next
<1>5. ASSUME NEW t \in Thread, TryRdlock(t) \/ TryWrlock(t) PROVE Goal
  <2>1. ASSUME UNCHANGED call PROVE CallOnly
    BY <1>0, <2>1, Zenon DEF CallOnly, HoldTypes
  <2> QED
    BY <1>3, <1>4, <1>5, <2>1, Zenon DEF TryRdlock, TryWrlock
<1>6. ASSUME NEW t \in Thread, LoopTryRead(t) \/ LoopTryWrite(t) PROVE Goal
  <2>1. ASSUME Return(t) \/ Goto(t, "check") PROVE CallOnly
    BY <1>0, <2>1, GotoCallOnly DEF Location
  <2>2. CASE TakeRead(t) /\ Return(t)
    BY <1>3, <2>1, <2>2, Zenon
  <2>3. CASE TakeWrite(t)
    BY <1>4, <2>3, Zenon
  <2>4. CASE /\ Return(t) \/ Goto(t, "check")
             /\ UNCHANGED <<state, writer_tid, pending, reads, writers>>
    BY <1>0, <1>1, <2>1, <2>4, Zenon DEF Quiet, HoldTypes
  <2> QED
    BY <1>6, <2>2, <2>3, <2>4, Zenon DEF LoopTryRead, LoopTryWrite
<1>7. ASSUME NEW t \in Thread, StoreTid(t) \/ UnlockWriter(t) PROVE Goal
  BY <1>7, TidStep, Zenon
<1>8. ASSUME NEW t \in Thread, ReleaseWriter(t) \/ UnlockReader(t) PROVE Goal
  BY <1>8, ReleaseWriterStep, UnlockReaderStep, Zenon DEF Abstract!Next
<1>9. ASSUME NEW t \in Thread,
             \/ Rdlock(t) \/ Wrlock(t) \/ CheckState(t) \/ Pend(t) \/ FutexWait(t)
             \/ SpuriousReturn(t) \/ TimeOut(t) \/ Unpend(t)
             \/ WakePending(t) \/ WakeWriter(t) \/ WakeReaders(t)
      PROVE  Goal
  BY <1>0, <1>1, <1>9, WaitingIsQuiet, Zenon
<1> HIDE DEF Goal
<1>10. Goal
  BY <1>1, <1>2, <1>5, <1>6, <1>7, <1>8, <1>9, Zenon DEF Next, Step, Inside
<1> QED
  BY <1>10, Zenon DEF Goal

\* The state word and writer_tid of pthread_rwlock.cpp always tell who holds
\* the lock.
THEOREM RwlockInvariant == Spec => []Inv
  BY InitInv, NextStep, PTL DEF Spec

\* A thread gets EDEADLK only while it holds the lock for writing, and
\* readers are never carried into the writer bit.
THEOREM RwlockWriterTidHolds == Spec => []WriterTidHolds
<1>1. Inv => WriterTidHolds
  BY Zenon DEF Inv, WriterKnown, WordTellsHolds, TidHolds, WriterTidHolds
<1> QED
  BY <1>1, RwlockInvariant, PTL

\* pthread_rwlock.cpp implements a reader/writer lock: a writer excludes
\* everybody, whatever times out and in whatever order waiters wake.
THEOREM RwlockImplementsRwLock == Spec => ImplementsRwLock
<1>1. Init => Abstract!Init
  BY Zenon DEF Init, Abstract!Init
<1> QED
  BY <1>1, InitInv, NextStep, PTL DEF Spec, ImplementsRwLock, Abstract!Spec

-----------------------------------------------------------------------------
(* No sleeper is forgotten.  The pending counts and flags are exact, and on a *)
(* free lock everybody who sleeps, or will without being told, is known to    *)
(* some thread that will rouse them or take the lock itself: an unlock that   *)
(* has not yet seen the pending counts, an unlock with somebody left to wake, *)
(* or a writer on its way to the lock.  A writer that times out is the one    *)
(* such thread that may leave without having done either.                     *)

Waiting(t) == call[t].pc \in {"wait", "asleep", "unpend"}

Pended(k) == {t \in Thread : Waiting(t) /\ call[t].kind = k}

Counted ==
    /\ pending = [k \in Kind |-> Cardinality(Pended(k))]
    /\ state.flags = {k \in Kind : Pended(k) # {}}

\* Asleep, or about to be: the serial is the one seen under pending_lock.
Dozing(t) ==
    \/ call[t].pc = "asleep"
    \/ call[t].pc = "wait" /\ ~call[t].mayTake /\ call[t].fresh

\* A writer on its way to the lock.
Bound(t) ==
    /\ call[t].kind = "writer" /\ ~Dozing(t)
    /\ call[t].pc \in {"try", "check", "pend", "wait", "unpend"}

Rouses(u, s) ==
    \/ call[u].pc = "wakePending"
    \/ call[u].pc = "wakeWriter" /\ Asleep("writer") # {}
    \/ call[u].pc = "wakeReaders" /\ s \in Asleep("reader")
    \/ Bound(u)

\* Only a wait that is over has expired.
Expiry ==
    \A t \in Thread : call[t].expired => call[t].pc = "unpend" /\ (call[t].kind = "writer" => gaveUp)

Roused ==
    ~gaveUp /\ Free => \A s \in Thread : Dozing(s) => \E u \in Thread : Rouses(u, s)

WaitInv == gaveUp \in BOOLEAN /\ Counted /\ Expiry /\ Roused

LEMMA InitWaitInv == Init => WaitInv
<1> SUFFICES ASSUME Init PROVE WaitInv
  BY Zenon
<1>1. \A t \in Thread : call[t] = Idle
  BY Zenon DEF Init
<1>2. \A k \in Kind : Pended(k) = {}
  BY <1>1 DEF Pended, Waiting, Idle
<1>3. Counted
  BY <1>2, FS_EmptySet, Zenon DEF Init, Counted
<1> QED
  BY <1>1, <1>3, Zenon DEF Init, WaitInv, Expiry, Roused, Dozing, Idle

\* Who waits, and for what, stays the same.
SameWaiters ==
    /\ pending' = pending /\ state'.flags = state.flags
    /\ \A u \in Thread : \/ ~Waiting(u)' /\ ~Waiting(u)
                         \/ Waiting(u)' /\ Waiting(u) /\ call'[u].kind = call[u].kind

LEMMA SameCounted == Counted /\ SameWaiters => Counted'
<1> SUFFICES ASSUME Counted, SameWaiters PROVE Counted'
  BY Zenon
<1>1. \A k \in Kind : Pended(k)' = Pended(k)
  BY Zenon DEF SameWaiters, Pended
<1> QED
  BY <1>1, Zenon DEF Counted, SameWaiters

\* One thread alone takes a step.
Alone(t) == \A u \in Thread : u # t => call'[u] = call[u]

\* A step of a thread that does not go to sleep and is not an unlock that has
\* somebody to wake: if it is a writer it stays on its way, and nobody else is
\* concerned.
LEMMA OwnBusiness ==
    ASSUME Roused, NEW t \in Thread, Alone(t), gaveUp' = gaveUp, Free' => Free, ~Dozing(t)',
           call[t].pc \notin {"wakePending", "wakeWriter", "wakeReaders"},
           Bound(t) \/ t \in Asleep("writer") => Bound(t)'
    PROVE  Roused'
<1> SUFFICES ASSUME ~gaveUp, Free, NEW s \in Thread, Dozing(s)'
             PROVE  \E u \in Thread : Rouses(u, s)'
  BY Zenon DEF Roused
<1>1. s # t /\ Dozing(s)
  BY Zenon DEF Alone, Dozing
<1>2. PICK u \in Thread : Rouses(u, s)
  BY <1>1, Zenon DEF Roused
<1>3. CASE u = t
  BY <1>3, <1>2, Zenon DEF Rouses
<1>4. CASE u # t
  <2>1. call'[u] = call[u] /\ call'[s] = call[s]
    BY <1>1, <1>4, Zenon DEF Alone
  <2>2. CASE Asleep("writer")' = {} /\ Asleep("writer") # {}
    <3>1. PICK v \in Asleep("writer") : v \notin Asleep("writer")'
      BY <2>2, Zenon
    <3>2. v = t
      BY <3>1, Zenon DEF Alone, Asleep
    <3> QED
      BY <3>1, <3>2, Zenon DEF Rouses
  <2>3. CASE Asleep("writer")' # {} \/ Asleep("writer") = {}
    <3>1. s \in Asleep("reader") => s \in Asleep("reader")'
      BY <2>1, Zenon DEF Asleep
    <3>2. Bound(u) => Bound(u)'
      BY <2>1, Zenon DEF Bound, Dozing
    <3> QED
      BY <1>2, <2>1, <2>3, <3>1, <3>2, Zenon DEF Rouses
  <2> QED
    BY <2>2, <2>3, Zenon
<1> QED
  BY <1>3, <1>4, Zenon

\* The call of a thread is set as a whole.
LEMMA SetCall ==
    ASSUME HoldTypes, NEW t \in Thread, NEW c, call' = [call EXCEPT ![t] = c]
    PROVE  Alone(t) /\ call'[t] = c
  BY Zenon DEF HoldTypes, Alone

LEMMA GotoCall ==
    ASSUME HoldTypes, NEW t \in Thread, NEW l, Goto(t, l)
    PROVE  /\ Alone(t) /\ call'[t].pc = l
           /\ call'[t].kind = call[t].kind /\ call'[t].mayTake = call[t].mayTake
           /\ call'[t].fresh = call[t].fresh /\ call'[t].expired = call[t].expired
<1>1. call[t] \in Calls
  BY Zenon DEF HoldTypes
<1>2. call' = [call EXCEPT ![t] = [call[t] EXCEPT !.pc = l]]
  BY Zenon DEF Goto
<1>3. Alone(t) /\ call'[t] = [call[t] EXCEPT !.pc = l]
  BY <1>2, SetCall, Zenon
<1> QED
  BY <1>1, <1>3, Zenon DEF Calls

LEMMA ReturnCall ==
    ASSUME HoldTypes, NEW t \in Thread, Return(t)
    PROVE  Alone(t) /\ call'[t].pc = "idle" /\ call'[t].expired = FALSE
<1>1. Alone(t) /\ call'[t] = Idle
  BY SetCall, Zenon DEF Return
<1> QED
  BY <1>1 DEF Idle

\* What a step of t alone has to show for the counts and for expiry.
LEMMA OwnCount ==
    ASSUME Counted, Expiry, NEW t \in Thread, Alone(t), gaveUp \in BOOLEAN, gaveUp => gaveUp',
           pending' = pending, state'.flags = state.flags,
           \/ ~Waiting(t)' /\ ~Waiting(t)
           \/ Waiting(t)' /\ Waiting(t) /\ call'[t].kind = call[t].kind,
           call'[t].expired => call'[t].pc = "unpend" /\ (call'[t].kind = "writer" => gaveUp')
    PROVE  Counted' /\ Expiry'
<1>1. SameWaiters
  BY Zenon DEF SameWaiters, Alone, Waiting
<1>2. Expiry'
  BY Zenon DEF Expiry, Alone
<1> QED
  BY <1>1, <1>2, SameCounted, Zenon

\* The calls that take the lock: it is not free after them.
LEMMA TakeWait ==
    ASSUME HoldTypes, WaitInv, NEW t \in Thread, UNCHANGED gaveUp,
           TryRdlock(t) \/ TryWrlock(t) \/ (LoopTryRead(t) /\ TakeRead(t)) \/ (LoopTryWrite(t) /\ TakeWrite(t))
    PROVE  WaitInv'
<1>1. state.readers \in Nat /\ pending' = pending /\ state'.flags = state.flags /\ ~Free'
  BY RwlockAssumption
     DEF HoldTypes, States, TryRdlock, TryWrlock, TakeRead, TakeWrite, Free
<1>2. /\ Alone(t) /\ ~Waiting(t) /\ ~Waiting(t)' /\ ~call'[t].expired
  <2>1. CASE TryRdlock(t)
    BY <2>1, Zenon DEF TryRdlock, Alone, Waiting, WaitInv, Expiry
  <2>2. CASE TakeWrite(t) /\ call[t].pc \in {"idle", "try"}
    <3>1. Alone(t) /\ call'[t] = [Idle EXCEPT !.pc = "storeTid"]
      BY <2>2, SetCall, Zenon DEF TakeWrite
    <3> QED
      BY <2>2, <3>1, Zenon DEF Waiting, Idle
  <2>3. CASE LoopTryRead(t) /\ TakeRead(t)
    <3>1. Return(t) /\ call[t].pc = "try"
      BY <1>1, <2>3, Zenon DEF LoopTryRead, TakeRead, HoldTypes, States
    <3> QED
      BY <3>1, ReturnCall, Zenon DEF Waiting
  <2> QED
    BY <2>1, <2>2, <2>3, Zenon DEF TryWrlock, LoopTryWrite
<1>3. Counted' /\ Expiry'
  BY <1>1, <1>2, OwnCount, Zenon DEF WaitInv
<1> QED
  BY <1>1, <1>3, Zenon DEF WaitInv, Roused

\* The steps on the way to the lock, and those of the writer's tid.
LEMMA WayWait ==
    ASSUME HoldTypes, WaitInv, NEW t \in Thread, UNCHANGED gaveUp,
           \/ Rdlock(t) \/ Wrlock(t) \/ StoreTid(t) \/ CheckState(t) \/ UnlockWriter(t)
           \/ LoopTryRead(t) /\ ~TakeRead(t)
           \/ LoopTryWrite(t) /\ ~TakeWrite(t)
    PROVE  WaitInv'
<1>0. call[t] \in Calls
  BY Zenon DEF HoldTypes
<1>1. UNCHANGED <<state, pending>> /\ call[t].pc \in {"idle", "try", "storeTid", "check"}
  BY Zenon DEF Rdlock, Wrlock, Begin, StoreTid, CheckState, UnlockWriter, LoopTryRead, LoopTryWrite
<1>2. /\ Alone(t) /\ call'[t].pc \in {"try", "idle", "pend", "check", "release"}
      /\ call'[t].expired = call[t].expired \/ call'[t].expired = FALSE
      /\ Bound(t) => call'[t].kind = "writer" /\ call'[t].pc \in {"try", "pend", "check"}
  <2>1. ASSUME NEW k \in Kind, NEW timed \in BOOLEAN, Begin(t, k, timed)
        PROVE  Alone(t) /\ call'[t].pc = "try" /\ call'[t].expired = call[t].expired /\ ~Bound(t)
    <3>1. call' = [call EXCEPT ![t] = [call[t] EXCEPT !.pc = "try", !.kind = k, !.timed = timed]]
      BY <2>1, Zenon DEF Begin, HoldTypes
    <3>2. Alone(t) /\ call'[t] = [call[t] EXCEPT !.pc = "try", !.kind = k, !.timed = timed]
      BY <3>1, SetCall, Zenon
    <3>3. call'[t].pc = "try" /\ call'[t].expired = call[t].expired
      BY <1>0, <3>2, Zenon DEF Calls
    <3>4. ~Bound(t)
      BY <2>1, Zenon DEF Begin, Bound
    <3> QED
      BY <3>2, <3>3, <3>4, Zenon
  <2>2. CASE StoreTid(t) \/ (LoopTryRead(t) /\ Return(t))
    BY <2>2, ReturnCall, Zenon DEF StoreTid, LoopTryRead, Bound
  <2>3. CASE CheckState(t)
    BY <2>3, GotoCall, Zenon DEF CheckState, Bound
  <2>4. CASE UnlockWriter(t)
    BY <2>4, GotoCall, Zenon DEF UnlockWriter, Bound
  <2>5. CASE Goto(t, "check")
    BY <2>5, GotoCall, Zenon DEF Bound
  <2> QED
    BY <2>1, <2>2, <2>3, <2>4, <2>5, Zenon DEF Rdlock, Wrlock, Kind, LoopTryRead, LoopTryWrite
<1>3. ~Waiting(t) /\ ~Waiting(t)' /\ ~Dozing(t)' /\ ~call[t].expired
  BY <1>1, <1>2, Zenon DEF Waiting, Dozing, WaitInv, Expiry
<1>4. Counted' /\ Expiry'
  BY <1>1, <1>2, <1>3, OwnCount, Zenon DEF WaitInv
<1>5. Bound(t) \/ t \in Asleep("writer") => Bound(t)'
  BY <1>1, <1>2, <1>3, Zenon DEF Bound, Asleep
<1>6. Roused'
  BY <1>1, <1>2, <1>3, <1>5, OwnBusiness, Zenon DEF WaitInv, Free
<1> QED
  BY <1>4, <1>6, Zenon DEF WaitInv

\* A thread falls asleep: it was known to somebody already.
LEMMA FallAsleepWait ==
    ASSUME HoldTypes, WaitInv, NEW t \in Thread, UNCHANGED gaveUp, FutexWait(t), Dozing(t)
    PROVE  WaitInv'
<1>0. call[t] \in Calls /\ call[t].pc = "wait" /\ UNCHANGED <<state, pending>>
  BY Zenon DEF HoldTypes, FutexWait
<1>1. Alone(t) /\ call'[t] = Waited(t, "asleep")
  BY SetCall, Zenon DEF FutexWait, Dozing
<1>2. call'[t].pc = "asleep" /\ call'[t].kind = call[t].kind /\ call'[t].expired = call[t].expired
  BY <1>0, <1>1, Zenon DEF Waited, Calls
<1>3. Counted' /\ Expiry'
  <2>1. ~call[t].expired
    BY <1>0, Zenon DEF WaitInv, Expiry
  <2> QED
    BY <1>0, <1>1, <1>2, <2>1, OwnCount, Zenon DEF WaitInv, Waiting
<1>4. ASSUME NEW s \in Thread, NEW u \in Thread, Rouses(u, s) PROVE Rouses(u, s)'
  <2>1. u # t
    BY <1>0, <1>4, Zenon DEF Rouses, Bound
  <2>2. /\ call'[u] = call[u]
        /\ Asleep("writer") # {} => Asleep("writer")' # {}
        /\ s \in Asleep("reader") => s \in Asleep("reader")'
    BY <1>0, <1>1, <2>1, Zenon DEF Alone, Asleep
  <2> QED
    BY <1>4, <2>2, Zenon DEF Rouses, Bound, Dozing
<1>5. \A s \in Thread : Dozing(s)' => Dozing(s)
  BY <1>1, Zenon DEF Alone, Dozing
<1>6. Roused'
  BY <1>0, <1>4, <1>5, Zenon DEF WaitInv, Roused, Free
<1> QED
  BY <1>3, <1>6, Zenon DEF WaitInv

\* A wait ends without a wake: the serial has changed, or for no reason.
LEMMA WaitEndsWait ==
    ASSUME HoldTypes, WaitInv, NEW t \in Thread, UNCHANGED gaveUp,
           SpuriousReturn(t) \/ (FutexWait(t) /\ ~Dozing(t))
    PROVE  WaitInv'
<1>0. call[t] \in Calls /\ call[t].pc \in {"wait", "asleep"} /\ UNCHANGED <<state, pending>>
  BY Zenon DEF HoldTypes, FutexWait, SpuriousReturn
<1>1. /\ Alone(t) /\ call'[t].pc = "unpend" /\ call'[t].kind = call[t].kind
      /\ call'[t].expired = call[t].expired
  <2>1. CASE FutexWait(t)
    <3>1. ~Dozing(t) \/ SpuriousReturn(t)
      BY Zenon
    <3>2. call[t].pc = "wait" /\ ~Dozing(t)
      BY <2>1, <3>1, Zenon DEF FutexWait, SpuriousReturn
    <3>3. Alone(t) /\ call'[t] = Waited(t, "unpend")
      BY <2>1, <3>2, SetCall, Zenon DEF FutexWait, Dozing
    <3> QED
      BY <1>0, <3>3, Zenon DEF Waited, Calls
  <2>2. CASE SpuriousReturn(t)
    BY <2>2, GotoCall, Zenon DEF SpuriousReturn
  <2> QED
    BY <2>1, <2>2, Zenon
<1>2. Counted' /\ Expiry'
  <2>1. ~call[t].expired
    BY <1>0, Zenon DEF WaitInv, Expiry
  <2> QED
    BY <1>0, <1>1, <2>1, OwnCount, Zenon DEF WaitInv, Waiting
<1>3. ~Dozing(t)' /\ (Bound(t) \/ t \in Asleep("writer") => Bound(t)')
  BY <1>1, Zenon DEF Dozing, Bound, Asleep
<1>4. Roused'
  BY <1>0, <1>1, <1>3, OwnBusiness, Zenon DEF WaitInv, Free
<1> QED
  BY <1>2, <1>4, Zenon DEF WaitInv

\* A wait times out: a writer's is recorded, a reader rouses nobody anyway.
LEMMA TimeOutWait ==
    ASSUME HoldTypes, WaitInv, NEW t \in Thread, TimeOut(t),
           gaveUp' = (gaveUp \/ call[t].kind = "writer")
    PROVE  WaitInv'
<1>0. /\ call[t] \in Calls /\ call[t].pc \in {"wait", "asleep"} /\ UNCHANGED <<state, pending>>
      /\ gaveUp \in BOOLEAN /\ gaveUp' \in BOOLEAN /\ (gaveUp => gaveUp')
  BY Zenon DEF HoldTypes, TimeOut, WaitInv
<1>1. Alone(t) /\ call'[t] = [Waited(t, "unpend") EXCEPT !.expired = TRUE]
  BY SetCall, Zenon DEF TimeOut
<1>2. call'[t].pc = "unpend" /\ call'[t].kind = call[t].kind
  BY <1>0, <1>1, Zenon DEF Waited, Calls
<1>3. Counted' /\ Expiry'
  BY <1>0, <1>1, <1>2, OwnCount, Zenon DEF WaitInv, Waiting
<1>4. Roused'
  <2>1. CASE call[t].kind = "writer"
    BY <2>1, Zenon DEF Roused
  <2>2. CASE call[t].kind # "writer"
    <3>1. gaveUp' = gaveUp
      BY <1>0, <2>2, Zenon
    <3>2. ~Dozing(t)' /\ ~Bound(t) /\ t \notin Asleep("writer")
      BY <1>2, <2>2, Zenon DEF Dozing, Bound, Asleep
    <3> QED
      BY <1>0, <1>1, <3>1, <3>2, OwnBusiness, Zenon DEF WaitInv, Free
  <2> QED
    BY <2>1, <2>2, Zenon
<1> QED
  BY <1>0, <1>3, <1>4, Zenon DEF WaitInv

LEMMA PendedFinite ==
    \A k \in Kind : IsFiniteSet(Pended(k)) /\ (Cardinality(Pended(k)) = 0 <=> Pended(k) = {})
<1> TAKE k \in Kind
<1>1. IsFiniteSet(Pended(k))
  BY RwlockAssumption, FS_Subset, Zenon DEF Pended
<1> QED
  BY <1>1, FS_EmptySet, Zenon

\* A thread joins those that wait.  If the lock is free then and it is not let
\* in, it is a reader that gives way to a writer, and that one is known.
LEMMA PendWait ==
    ASSUME HoldTypes, WaitInv, NEW t \in Thread, UNCHANGED gaveUp, Pend(t)
    PROVE  WaitInv'
<1> SUFFICES ASSUME NEW k \in Kind, call[t].kind = k PROVE WaitInv'
  BY Zenon DEF HoldTypes, Calls
<1>0. /\ call[t] \in Calls /\ call[t].kind = k /\ call[t].pc = "pend" /\ state \in States
      /\ call[t].expired = FALSE
  BY Zenon DEF HoldTypes, Calls, Pend, WaitInv, Expiry
<1> DEFINE c == [call[t] EXCEPT !.pc = "wait", !.fresh = TRUE, !.mayTake = CanAcquire(k, state)]
<1>1. Alone(t) /\ call'[t] = c
  <2>1. call' = [call EXCEPT ![t] = c]
    BY Zenon DEF Pend, HoldTypes
  <2> QED
    BY <2>1, SetCall, Zenon
<1>2. /\ c.pc = "wait" /\ c.kind = k /\ c.fresh = TRUE /\ c.mayTake = CanAcquire(k, state)
      /\ c.expired = FALSE
  BY <1>0, Zenon DEF Calls
<1> HIDE DEF c
<1>3. /\ pending' = [pending EXCEPT ![k] = @ + 1]
      /\ state' = [state EXCEPT !.flags = @ \cup {k}]
      /\ state'.flags = state.flags \cup {k}
      /\ state'.writer = state.writer /\ state'.readers = state.readers
  BY <1>0, Zenon DEF Pend, States
<1>4. t \notin Pended(k) /\ Pended(k)' = Pended(k) \cup {t}
  BY <1>0, <1>1, <1>2, Zenon DEF Pended, Waiting, Alone
<1>5. \A j \in Kind : j # k => Pended(j)' = Pended(j)
  BY <1>0, <1>1, <1>2, Zenon DEF Pended, Waiting, Alone
<1>6. Counted'
  <2>1. Cardinality(Pended(k)') = Cardinality(Pended(k)) + 1
    BY <1>0, <1>4, PendedFinite, FS_AddElement, Zenon
  <2>2. pending' = [j \in Kind |-> Cardinality(Pended(j)')]
    BY <1>0, <1>3, <1>5, <2>1, Zenon DEF WaitInv, Counted
  <2>3. state'.flags = {j \in Kind : Pended(j)' # {}}
    BY <1>0, <1>3, <1>4, <1>5, Zenon DEF WaitInv, Counted
  <2> QED
    BY <2>2, <2>3, Zenon DEF Counted
<1>7. Expiry'
  BY <1>1, <1>2, Zenon DEF Expiry, WaitInv, Alone
<1>8. Roused'
  <2>1. CASE ~Free \/ gaveUp
    BY <1>3, <2>1, Zenon DEF Roused, Free
  <2>2. CASE Free /\ c.mayTake
    <3>1. ~Dozing(t)' /\ (Bound(t) \/ t \in Asleep("writer") => Bound(t)')
      BY <1>0, <1>1, <1>2, <2>2, Zenon DEF Dozing, Bound, Asleep
    <3> QED
      BY <1>0, <1>1, <2>2, <3>1, OwnBusiness, Zenon DEF WaitInv
  <2>3. CASE Free /\ ~c.mayTake /\ ~gaveUp
    <3>1. k = "reader" /\ "writer" \in state.flags
      BY <1>0, <1>2, <2>3, Zenon DEF CanAcquire, CanAcquireRead, CanAcquireWrite, Free, Kind
    <3>2. PICK w \in Thread : Waiting(w) /\ call[w].kind = "writer"
      BY <3>1, Zenon DEF WaitInv, Counted, Pended
    <3>3. ASSUME NEW s \in Thread, s # t, NEW u \in Thread, Rouses(u, s) PROVE Rouses(u, s)'
      <4>1. u # t
        BY <1>0, <3>1, <3>3, Zenon DEF Rouses, Bound
      <4>2. /\ call'[u] = call[u]
            /\ Asleep("writer") # {} => Asleep("writer")' # {}
            /\ s \in Asleep("reader") => s \in Asleep("reader")'
        BY <1>0, <1>1, <3>3, <4>1, Zenon DEF Alone, Asleep
      <4> QED
        BY <3>3, <4>2, Zenon DEF Rouses, Bound, Dozing
    <3>4. w # t /\ call[w].kind # "reader"
      BY <3>1, <3>2, Zenon
    <3>5. \E u \in Thread : Rouses(u, w)'
      <4>1. CASE Dozing(w)
        BY <2>3, <3>3, <3>4, <4>1, Zenon DEF WaitInv, Roused
      <4>2. CASE ~Dozing(w)
        <5>1. Rouses(w, w)
          BY <3>2, <4>2, Zenon DEF Rouses, Bound, Waiting, Dozing
        <5> QED
          BY <3>3, <3>4, <5>1, Zenon
      <4> QED
        BY <4>1, <4>2, Zenon
    <3>6. w \notin Asleep("reader")'
      BY <1>1, <3>4, Zenon DEF Alone, Asleep
    <3>7. \A s \in Thread : \E u \in Thread : Rouses(u, s)'
      BY <3>5, <3>6, Zenon DEF Rouses
    <3> QED
      BY <3>7, Zenon DEF Roused
  <2> QED
    BY <2>1, <2>2, <2>3, Zenon
<1> QED
  BY <1>6, <1>7, <1>8, Zenon DEF WaitInv

\* A thread leaves those that wait, and the last of its kind takes the flag.
LEMMA UnpendWait ==
    ASSUME HoldTypes, WaitInv, NEW t \in Thread, UNCHANGED gaveUp, Unpend(t)
    PROVE  WaitInv'
<1> SUFFICES ASSUME NEW k \in Kind, call[t].kind = k PROVE WaitInv'
  BY Zenon DEF HoldTypes, Calls
<1>0. call[t] \in Calls /\ call[t].kind = k /\ call[t].pc = "unpend" /\ state \in States
  BY Zenon DEF HoldTypes, Calls, Unpend
<1>1. /\ Alone(t)
      /\ \/ call[t].expired /\ call'[t].pc = "idle" /\ ~call'[t].expired
         \/ ~call[t].expired /\ call'[t].pc = "try" /\ ~call'[t].expired /\ call'[t].kind = k
  BY GotoCall, ReturnCall, Zenon DEF Unpend
<1>2. /\ pending' = [pending EXCEPT ![k] = @ - 1]
      /\ state'.flags = (IF pending[k] = 1 THEN state.flags \ {k} ELSE state.flags)
      /\ state'.writer = state.writer /\ state'.readers = state.readers
  BY <1>0, Zenon DEF Unpend, States
<1>3. t \in Pended(k) /\ Pended(k)' = Pended(k) \ {t}
  BY <1>0, <1>1, Zenon DEF Pended, Waiting, Alone
<1>4. \A j \in Kind : j # k => Pended(j)' = Pended(j)
  BY <1>0, <1>1, Zenon DEF Pended, Waiting, Alone
<1>5. Counted'
  <2>1. Cardinality(Pended(k)') = Cardinality(Pended(k)) - 1
    BY <1>0, <1>3, PendedFinite, FS_RemoveElement, ZenonT(30)
  <2>2. pending' = [j \in Kind |-> Cardinality(Pended(j)')]
    BY <1>0, <1>2, <1>4, <2>1, Zenon DEF WaitInv, Counted
  <2>3. pending[k] = 1 <=> Pended(k)' = {}
    <3>1. Cardinality(Pended(k)) \in Nat /\ pending[k] = Cardinality(Pended(k))
      BY <1>0, PendedFinite, FS_CardinalityType, Zenon DEF WaitInv, Counted
    <3>2. IsFiniteSet(Pended(k)') /\ (Cardinality(Pended(k)') = 0 <=> Pended(k)' = {})
      BY <1>0, <1>3, PendedFinite, FS_Subset, FS_EmptySet, Zenon
    <3> QED
      BY <2>1, <3>1, <3>2
  <2>4. state'.flags = {j \in Kind : Pended(j)' # {}}
    BY <1>0, <1>2, <1>3, <1>4, <2>3, Zenon DEF WaitInv, Counted
  <2> QED
    BY <2>2, <2>4, Zenon DEF Counted
<1>6. Expiry'
  BY <1>1, Zenon DEF Expiry, WaitInv, Alone
<1>7. Roused'
  <2>1. CASE gaveUp
    BY <2>1, Zenon DEF Roused
  <2>2. CASE ~gaveUp
    <3>1. ~Dozing(t)' /\ (Bound(t) \/ t \in Asleep("writer") => Bound(t)')
      BY <1>0, <1>1, <2>2, Zenon DEF Dozing, Bound, Asleep, WaitInv, Expiry
    <3> QED
      BY <1>0, <1>1, <1>2, <3>1, OwnBusiness, Zenon DEF WaitInv, Free
  <2> QED
    BY <2>1, <2>2, Zenon
<1> QED
  BY <1>5, <1>6, <1>7, Zenon DEF WaitInv

\* Whoever dozes is pending.
LEMMA DozersPend ==
    ASSUME HoldTypes, NEW s \in Thread, Dozing(s)
    PROVE  call[s].kind \in Kind /\ s \in Pended(call[s].kind)
  BY Zenon DEF HoldTypes, Calls, Dozing, Pended, Waiting

\* The lock becomes free: nobody is pending, or this unlock is due to look.
LEMMA ReleaseWait ==
    ASSUME HoldTypes, WordTellsHolds, WaitInv, NEW t \in Thread, UNCHANGED gaveUp,
           ReleaseWriter(t) \/ UnlockReader(t)
    PROVE  WaitInv'
<1>0. /\ state \in States /\ pending' = pending /\ state'.flags = state.flags
      /\ call[t] \in Calls /\ call[t].pc \in {"release", "idle"} /\ ~call[t].expired
  BY Zenon DEF ReleaseWriter, UnlockReader, HoldTypes, States, WaitInv, Expiry
<1>1. /\ Alone(t) /\ call'[t].pc \in {"idle", "wakePending"} /\ ~call'[t].expired
      /\ state.flags # {} /\ Free' => call'[t].pc = "wakePending"
  <2>1. CASE ReleaseWriter(t)
    BY <1>0, <2>1, GotoCall, ReturnCall, Zenon DEF ReleaseWriter
  <2>2. CASE UnlockReader(t)
    <3>1. state'.readers = state.readers - 1 /\ state.readers \in Nat
      BY <1>0, <2>2 DEF UnlockReader, States
    <3>2. Free' => state.readers = 1
      BY <3>1 DEF Free
    <3> QED
      BY <1>0, <2>2, <3>2, GotoCall, Zenon DEF UnlockReader, Alone
  <2> QED
    BY <2>1, <2>2, Zenon
<1>2. Counted' /\ Expiry'
  BY <1>0, <1>1, OwnCount, Zenon DEF WaitInv, Waiting
<1>3. Roused'
  <2> SUFFICES ASSUME Free', NEW s \in Thread, Dozing(s)'
               PROVE  \E u \in Thread : Rouses(u, s)'
    BY Zenon DEF Roused
  <2>1. Dozing(s)
    BY <1>1, Zenon DEF Alone, Dozing
  <2>2. state.flags # {}
    BY <2>1, DozersPend, Zenon DEF WaitInv, Counted
  <2> QED
    BY <1>1, <2>2, Zenon DEF Rouses
<1> QED
  BY <1>2, <1>3, Zenon DEF WaitInv

\* An unlock moves the serial of a kind on.
LEMMA BumpWait ==
    ASSUME HoldTypes, WaitInv, NEW t \in Thread, NEW k \in Kind, NEW l \in {"wakeWriter", "wakeReaders"},
           UNCHANGED <<gaveUp, state, pending>>, call[t].pc = "wakePending", BumpSerial(t, k, l)
    PROVE  /\ Counted' /\ Expiry'
           /\ call'[t].pc = l
           /\ \A u \in Thread : u # t => call'[u].pc = call[u].pc /\ call'[u].kind = call[u].kind
           /\ \A u \in Thread : Dozing(u)' => Dozing(u) /\ (call[u].kind = k => call[u].pc = "asleep")
<1>0. /\ call \in [Thread -> Calls]
      /\ \A u \in Thread : call[u] \in Calls
  BY Zenon DEF HoldTypes
<1>1. /\ call'[t] = [call[t] EXCEPT !.pc = l]
      /\ \A u \in Thread : u # t => call'[u] = (IF call[u].kind = k THEN [call[u] EXCEPT !.fresh = FALSE] ELSE call[u])
  BY Zenon DEF BumpSerial
<1>2. call'[t].pc = l /\ call'[t].expired = call[t].expired
  BY <1>0, <1>1, Zenon DEF Calls
<1>3. ASSUME NEW u \in Thread, u # t
      PROVE  /\ call'[u].pc = call[u].pc /\ call'[u].kind = call[u].kind
             /\ call'[u].expired = call[u].expired /\ call'[u].mayTake = call[u].mayTake
             /\ call'[u].fresh = (call[u].fresh /\ call[u].kind # k)
  <2>1. call[u] \in Calls /\ call[u].fresh \in BOOLEAN
    BY <1>0, Zenon DEF Calls
  <2>2. CASE call[u].kind = k
    <3>1. call'[u] = [call[u] EXCEPT !.fresh = FALSE]
      BY <1>1, <1>3, <2>2, Zenon
    <3> QED
      BY <2>1, <2>2, <3>1, Zenon DEF Calls
  <2>3. CASE call[u].kind # k
    BY <1>1, <1>3, <2>1, <2>3, Zenon
  <2> QED
    BY <2>2, <2>3, Zenon
<1>4. SameWaiters
  BY <1>2, <1>3, Zenon DEF SameWaiters, Waiting
<1>5. Counted'
  BY <1>4, SameCounted, Zenon DEF WaitInv
<1>6. Expiry'
  <2>1. ~call[t].expired
    BY Zenon DEF WaitInv, Expiry
  <2> QED
    BY <1>2, <1>3, <2>1 DEF WaitInv, Expiry
<1>7. \A u \in Thread : Dozing(u)' => Dozing(u) /\ (call[u].kind = k => call[u].pc = "asleep")
  BY <1>2, <1>3, Zenon DEF Dozing
<1> QED
  BY <1>2, <1>3, <1>5, <1>6, <1>7, Zenon

\* An unlock looks at the pending counts: a writer is asleep and will be woken,
\* or is on its way; or all that doze are readers, and will be woken.
LEMMA WakePendingWait ==
    ASSUME HoldTypes, WaitInv, NEW t \in Thread, UNCHANGED gaveUp, WakePending(t)
    PROVE  WaitInv'
<1>0. UNCHANGED <<state, pending>> /\ call[t].pc = "wakePending"
  BY Zenon DEF WakePending
<1>1. \A k \in Kind : pending[k] = 0 <=> Pended(k) = {}
  BY PendedFinite, Zenon DEF WaitInv, Counted
<1>2. ASSUME pending["writer"] # 0, BumpSerial(t, "writer", "wakeWriter") PROVE WaitInv'
  <2>1. PICK w \in Thread : Waiting(w) /\ call[w].kind = "writer"
    BY <1>1, <1>2, Zenon DEF Pended, Kind
  <2>2. w # t
    BY <1>0, <2>1, Zenon DEF Waiting
  <2>3. /\ Counted' /\ Expiry' /\ call'[t].pc = "wakeWriter"
        /\ call'[w].pc = call[w].pc /\ call'[w].kind = "writer"
        /\ Dozing(w)' => call[w].pc = "asleep"
    BY <1>0, <1>2, <2>1, <2>2, BumpWait, Zenon DEF Kind
  <2>4. CASE call[w].pc = "asleep"
    <3>1. Asleep("writer")' # {}
      BY <2>3, <2>4, Zenon DEF Asleep
    <3>2. \A s \in Thread : Rouses(t, s)'
      BY <2>3, <3>1, Zenon DEF Rouses
    <3> QED
      BY <2>3, <3>2, Zenon DEF WaitInv, Roused
  <2>5. CASE call[w].pc # "asleep"
    <3>1. Bound(w)'
      BY <2>1, <2>3, <2>5, Zenon DEF Bound, Waiting
    <3> QED
      BY <2>3, <3>1, Zenon DEF WaitInv, Roused, Rouses
  <2> QED
    BY <2>4, <2>5, Zenon
<1>3. ASSUME pending["writer"] = 0, BumpSerial(t, "reader", "wakeReaders") PROVE WaitInv'
  <2>1. /\ Counted' /\ Expiry' /\ call'[t].pc = "wakeReaders"
        /\ \A u \in Thread : u # t => call'[u].pc = call[u].pc /\ call'[u].kind = call[u].kind
        /\ \A u \in Thread : Dozing(u)' => Dozing(u) /\ (call[u].kind = "reader" => call[u].pc = "asleep")
    BY <1>0, <1>3, BumpWait, Zenon DEF Kind
  <2>2. ASSUME NEW s \in Thread, Dozing(s)' PROVE Rouses(t, s)'
    <3>1. call[s].kind = "reader" /\ s # t
      BY <1>0, <1>1, <1>3, <2>1, <2>2, DozersPend, Zenon DEF Kind, Dozing
    <3>2. s \in Asleep("reader")'
      BY <2>1, <2>2, <3>1, Zenon DEF Asleep
    <3> QED
      BY <2>1, <3>2, Zenon DEF Rouses
  <2> QED
    BY <2>1, <2>2, Zenon DEF WaitInv, Roused
<1>4. ASSUME pending["writer"] = 0, pending["reader"] = 0, Return(t) PROVE WaitInv'
  <2>1. Alone(t) /\ call'[t].pc = "idle" /\ call'[t].expired = FALSE
    BY <1>4, ReturnCall, Zenon
  <2>2. Counted' /\ Expiry'
    BY <1>0, <2>1, OwnCount, Zenon DEF WaitInv, Waiting
  <2>3. \A s \in Thread : ~Dozing(s)
    BY <1>1, <1>4, DozersPend, Zenon DEF Kind
  <2>4. Roused'
    BY <2>1, <2>3, Zenon DEF Roused, Alone, Dozing
  <2> QED
    BY <2>2, <2>4, Zenon DEF WaitInv
<1> QED
  BY <1>2, <1>3, <1>4, Zenon DEF WakePending

\* The wake of one writer, which is then on its way to the lock.
LEMMA WakeWriterWait ==
    ASSUME HoldTypes, WaitInv, NEW t \in Thread, UNCHANGED gaveUp, WakeWriter(t)
    PROVE  WaitInv'
<1>0. UNCHANGED <<state, pending>> /\ call[t].pc = "wakeWriter" /\ call \in [Thread -> Calls]
  BY Zenon DEF WakeWriter, HoldTypes
<1>1. ASSUME Asleep("writer") = {}, Return(t) PROVE WaitInv'
  <2>1. Alone(t) /\ call'[t].pc = "idle" /\ call'[t].expired = FALSE
    BY <1>1, ReturnCall, Zenon
  <2>2. Counted' /\ Expiry'
    BY <1>0, <2>1, OwnCount, Zenon DEF WaitInv, Waiting
  <2>3. ASSUME NEW s \in Thread, NEW u \in Thread, s # t, Rouses(u, s) PROVE Rouses(u, s)'
    <3>1. u # t
      BY <1>0, <1>1, <2>3, Zenon DEF Rouses, Bound
    <3>2. call'[u] = call[u] /\ call'[s] = call[s]
      BY <2>1, <2>3, <3>1, Zenon DEF Alone
    <3> QED
      BY <1>1, <2>3, <3>2, Zenon DEF Rouses, Bound, Dozing, Asleep
  <2>4. \A s \in Thread : Dozing(s)' => Dozing(s) /\ s # t
    BY <2>1, Zenon DEF Alone, Dozing
  <2>5. Roused'
    BY <1>0, <2>3, <2>4, Zenon DEF WaitInv, Roused, Free
  <2> QED
    BY <2>2, <2>5, Zenon DEF WaitInv
<1>2. ASSUME NEW w \in Asleep("writer"), call' = [call EXCEPT ![t] = Idle, ![w].pc = "unpend"]
      PROVE  WaitInv'
  <2>1. w \in Thread /\ w # t /\ call[w].pc = "asleep" /\ call[w].kind = "writer" /\ call[w] \in Calls
    BY <1>0, Zenon DEF Asleep
  <2>2. /\ call'[t] = Idle /\ call'[w] = [call[w] EXCEPT !.pc = "unpend"]
        /\ \A u \in Thread : u # t /\ u # w => call'[u] = call[u]
    BY <1>0, <1>2, <2>1, Zenon
  <2>3. /\ call'[w].pc = "unpend" /\ call'[w].kind = "writer" /\ call'[w].expired = call[w].expired
        /\ call'[t].pc = "idle" /\ call'[t].expired = FALSE
    BY <2>1, <2>2 DEF Calls, Idle
  <2>4. SameWaiters
    <3>1. \A u \in Thread : u # t /\ u # w => call'[u] = call[u]
      BY <2>2, Zenon
    <3> QED
      BY <1>0, <2>1, <2>3, <3>1, Zenon DEF SameWaiters, Waiting
  <2>5. Expiry'
    <3>1. \A u \in Thread : u # t /\ u # w => call'[u] = call[u]
      BY <2>2, Zenon
    <3> QED
      BY <2>1, <2>3, <3>1, Zenon DEF WaitInv, Expiry
  <2>6. Bound(w)'
    BY <2>3, Zenon DEF Bound, Dozing
  <2> QED
    BY <2>1, <2>4, <2>5, <2>6, SameCounted, Zenon DEF WaitInv, Roused, Rouses
<1> QED
  BY <1>1, <1>2, Zenon DEF WakeWriter

\* The wake of all readers: whoever still dozes is known to somebody else.
LEMMA WakeReadersWait ==
    ASSUME HoldTypes, WaitInv, NEW t \in Thread, UNCHANGED gaveUp, WakeReaders(t)
    PROVE  WaitInv'
<1>0. UNCHANGED <<state, pending>> /\ call[t].pc = "wakeReaders" /\ call \in [Thread -> Calls]
  BY Zenon DEF WakeReaders, HoldTypes
<1>1. /\ call'[t] = Idle
      /\ \A u \in Asleep("reader") : call'[u] = [call[u] EXCEPT !.pc = "unpend"]
      /\ \A u \in Thread : u # t /\ u \notin Asleep("reader") => call'[u] = call[u]
  BY <1>0, Zenon DEF WakeReaders, Asleep
<1>2. call'[t].pc = "idle" /\ call'[t].expired = FALSE
  BY <1>1 DEF Idle
<1>3. \A u \in Asleep("reader") :
          /\ u \in Thread /\ call[u].pc = "asleep" /\ call[u].kind = "reader"
          /\ call'[u].pc = "unpend" /\ call'[u].kind = "reader" /\ call'[u].expired = call[u].expired
  <2>1. \A u \in Asleep("reader") : u \in Thread /\ call[u] \in Calls /\ call[u].pc = "asleep" /\ call[u].kind = "reader"
    BY <1>0, Zenon DEF Asleep
  <2> QED
    BY <1>1, <2>1, Zenon DEF Calls
<1>4. SameWaiters
  BY <1>0, <1>1, <1>2, <1>3, Zenon DEF SameWaiters, Waiting
<1>5. Expiry'
  BY <1>1, <1>2, <1>3 DEF WaitInv, Expiry
<1>6. ASSUME NEW s \in Thread, NEW u \in Thread, Dozing(s)', Rouses(u, s) PROVE Rouses(u, s)'
  <2>1. s # t /\ s \notin Asleep("reader")
    BY <1>2, <1>3, <1>6, Zenon DEF Dozing
  <2>2. u # t /\ u \notin Asleep("reader")
    BY <1>0, <1>3, <1>6, <2>1, Zenon DEF Rouses, Bound
  <2>3. call'[u] = call[u]
    BY <1>1, <2>2, Zenon
  <2>4. Asleep("writer") \subseteq Asleep("writer")'
    BY <1>0, <1>1, <1>3, Zenon DEF Asleep
  <2> QED
    BY <1>6, <2>1, <2>3, <2>4, Zenon DEF Rouses, Bound, Dozing
<1>7. \A s \in Thread : Dozing(s)' => Dozing(s)
  BY <1>1, <1>2, <1>3, Zenon DEF Dozing
<1>8. Roused'
  BY <1>0, <1>6, <1>7, Zenon DEF WaitInv, Roused, Free
<1> QED
  BY <1>4, <1>5, <1>8, SameCounted, Zenon DEF WaitInv

LEMMA NextWait == Inv /\ WaitInv /\ [Next]_vars => WaitInv'
<1> SUFFICES ASSUME Inv, WaitInv, [Next]_vars PROVE WaitInv'
  BY Zenon
<1>0. HoldTypes /\ WordTellsHolds
  BY Zenon DEF Inv
<1>1. CASE UNCHANGED vars
  <2>1. UNCHANGED <<call, gaveUp, state, pending>>
    BY <1>1, Zenon DEF vars
  <2>2. \A k \in Kind : Pended(k)' = Pended(k)
    BY <2>1, Zenon DEF Pended, Waiting
  <2> QED
    BY <2>1, <2>2 DEF WaitInv, Counted, Expiry, Roused, Free, Dozing, Rouses, Bound, Asleep
<1>2. ASSUME NEW t \in Thread, Step(t), UNCHANGED gaveUp PROVE WaitInv'
  <2>1. CASE TryRdlock(t) \/ TryWrlock(t)
    BY <1>0, <1>2, <2>1, TakeWait, Zenon
  <2>2. CASE LoopTryRead(t) \/ LoopTryWrite(t)
    BY <1>0, <1>2, <2>2, TakeWait, WayWait, Zenon
  <2>3. CASE Rdlock(t) \/ Wrlock(t) \/ StoreTid(t) \/ CheckState(t) \/ UnlockWriter(t)
    BY <1>0, <1>2, <2>3, WayWait, Zenon
  <2>4. CASE FutexWait(t) \/ SpuriousReturn(t)
    BY <1>0, <1>2, <2>4, FallAsleepWait, WaitEndsWait, Zenon
  <2>5. CASE Pend(t) \/ Unpend(t)
    BY <1>0, <1>2, <2>5, PendWait, UnpendWait, Zenon
  <2>6. CASE ReleaseWriter(t) \/ UnlockReader(t)
    BY <1>0, <1>2, <2>6, ReleaseWait, Zenon
  <2>7. CASE WakePending(t) \/ WakeWriter(t) \/ WakeReaders(t)
    BY <1>0, <1>2, <2>7, WakePendingWait, WakeWriterWait, WakeReadersWait, Zenon
  <2> QED
    BY <1>2, <2>1, <2>2, <2>3, <2>4, <2>5, <2>6, <2>7, Zenon DEF Step, Inside
<1>3. ASSUME NEW t \in Thread, TimeOut(t), gaveUp' = (gaveUp \/ call[t].kind = "writer")
      PROVE WaitInv'
  BY <1>0, <1>3, TimeOutWait, Zenon
<1> QED
  BY <1>1, <1>2, <1>3, Zenon DEF Next

\* Until a writer's wait times out, nobody is left asleep on a free lock with
\* every other thread idle or asleep: the wakes of pthread_rwlock_unlock reach
\* somebody who takes the lock, whatever readers time out and whichever waits
\* end for no reason.
THEOREM RwlockForgottenOnlyAfterTimeout == Spec => []ForgottenOnlyAfterTimeout
<1>1. Spec => []WaitInv
  BY InitWaitInv, NextWait, RwlockInvariant, PTL DEF Spec
<1>2. WaitInv => ForgottenOnlyAfterTimeout
  <2> SUFFICES ASSUME WaitInv, ~gaveUp, Free, NEW k \in Kind, NEW s \in Asleep(k)
               PROVE  \E t \in Thread : call[t].pc \notin {"idle", "asleep"}
    BY Zenon DEF ForgottenOnlyAfterTimeout, NoForgottenSleeper
  <2>1. s \in Thread /\ Dozing(s)
    BY Zenon DEF Asleep, Dozing
  <2>2. PICK u \in Thread : Rouses(u, s)
    BY <2>1, Zenon DEF WaitInv, Roused
  <2> QED
    BY <2>2, Zenon DEF Rouses, Bound
<1> QED
  BY <1>1, <1>2, PTL
=============================================================================
