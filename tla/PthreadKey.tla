----------------------------- MODULE PthreadKey -----------------------------
(* libc/bionic/pthread_key.cpp: thread-specific data and its destructors,    *)
(* with keys created and deleted by some threads while others exit.          *)
EXTENDS Naturals, FiniteSets

CONSTANTS Thread,
          KeyCount,     \* BIONIC_PTHREAD_KEY_COUNT
          Rounds,       \* PTHREAD_DESTRUCTOR_ITERATIONS
          Destructor,   \* the destructor functions
          Null,         \* the null pointer
          MaxSeq        \* bound: a creation starts while every seq is below

ASSUME KeyAssumption ==
    /\ KeyCount \in Nat \ {0} /\ Rounds \in Nat \ {0} /\ MaxSeq \in Nat
    /\ Null \notin Destructor /\ "none" \notin Destructor \cup {Null}

Key == 0 .. KeyCount - 1

VARIABLES seq, key_destructor,   \* key_map
          live,       \* the destructor given for each key in use, or "none"
          key_data,   \* each thread's seq and data; data stands for what it is
                      \* to be destroyed with: the destructor given for its key
          keyCall     \* the call each thread is in

keyVars == <<seq, key_destructor, live, key_data, keyCall>>

MaybeDestructor == Destructor \cup {Null}

Data == {Null} \cup [of : MaybeDestructor]

KeyCalls ==
    [pc : {"idle", "create", "store", "delete", "scan", "load", "recheck", "call", "done"},
     i : 0 .. KeyCount, seq : Nat, destructor : MaybeDestructor, data : Data,
     rounds : 0 .. Rounds, called : 0 .. KeyCount]

NoKeyCall == [pc |-> "idle", i |-> 0, seq |-> 0, destructor |-> Null, data |-> Null,
              rounds |-> 0, called |-> 0]

NoData == [seq |-> 0, data |-> Null]

SeqOfKeyInUse(s) == s % 2 = 1

InUse(k) == live[k] # "none"

Return(t) == keyCall' = [keyCall EXCEPT ![t] = NoKeyCall]

KeyInit ==
    /\ seq = [k \in Key |-> 0]
    /\ key_destructor = [k \in Key |-> Null]
    /\ live = [k \in Key |-> "none"]
    /\ key_data = [t \in Thread |-> [k \in Key |-> NoData]]
    /\ keyCall = [t \in Thread |-> NoKeyCall]

-----------------------------------------------------------------------------
KeyCreate(t) ==
    /\ keyCall[t].pc = "idle" /\ \A k \in Key : seq[k] < MaxSeq
    /\ \E d \in MaybeDestructor : keyCall' = [keyCall EXCEPT ![t].pc = "create", ![t].destructor = d]
    /\ UNCHANGED <<seq, key_destructor, live, key_data>>

\* The loop of pthread_key_create: claim the slot, or try the next one; EAGAIN.
CreateClaim(t) ==
    /\ keyCall[t].pc = "create"
    /\ LET i == keyCall[t].i
       IN \/ /\ i < KeyCount /\ ~SeqOfKeyInUse(seq[i])
             /\ seq' = [seq EXCEPT ![i] = @ + 1]
             /\ keyCall' = [keyCall EXCEPT ![t].pc = "store"]
          \/ /\ i < KeyCount /\ SeqOfKeyInUse(seq[i])
             /\ keyCall' = [keyCall EXCEPT ![t].i = i + 1]
             /\ UNCHANGED seq
          \/ i = KeyCount /\ Return(t) /\ UNCHANGED seq
    /\ UNCHANGED <<key_destructor, live, key_data>>

\* The destructor is stored and the key is the caller's.
CreateStore(t) ==
    /\ keyCall[t].pc = "store"
    /\ key_destructor' = [key_destructor EXCEPT ![keyCall[t].i] = keyCall[t].destructor]
    /\ live' = [live EXCEPT ![keyCall[t].i] = keyCall[t].destructor]
    /\ Return(t)
    /\ UNCHANGED <<seq, key_data>>

\* pthread_key_delete loads seq; two threads may delete the same key.
KeyDelete(t) ==
    /\ keyCall[t].pc = "idle"
    /\ \E k \in Key : /\ InUse(k)
                      /\ keyCall' = [keyCall EXCEPT ![t].pc = "delete", ![t].i = k, ![t].seq = seq[k]]
    /\ UNCHANGED <<seq, key_destructor, live, key_data>>

\* A mutant of the exchange: an unconditional increment.
DeleteAdds(t) ==
    /\ keyCall[t].pc = "delete"
    /\ seq' = [seq EXCEPT ![keyCall[t].i] = @ + 1]
    /\ live' = [live EXCEPT ![keyCall[t].i] = "none"]
    /\ Return(t)
    /\ UNCHANGED <<key_destructor, key_data>>

\* The exchange of pthread_key_delete; EINVAL when it fails.
DeleteExchange(t) ==
    /\ keyCall[t].pc = "delete"
    /\ LET k == keyCall[t].i
       IN \/ /\ seq[k] = keyCall[t].seq
             /\ seq' = [seq EXCEPT ![k] = @ + 1]
             /\ live' = [live EXCEPT ![k] = "none"]
          \/ seq[k] # keyCall[t].seq /\ UNCHANGED <<seq, live>>
    /\ Return(t)
    /\ UNCHANGED <<key_destructor, key_data>>

\* What pthread_setspecific stores for key k: data or a null pointer.
Specific(k) == {[seq |-> seq[k], data |-> d] : d \in {Null, [of |-> live[k]]}}

SetSpecific(t) ==
    /\ keyCall[t].pc = "idle"
    /\ \E k \in Key : /\ InUse(k)
                      /\ \E d \in Specific(k) : key_data' = [key_data EXCEPT ![t][k] = d]
    /\ UNCHANGED <<seq, key_destructor, live, keyCall>>

\* A mutant of pthread_getspecific: the sequence number is not compared.
GetsData(t, k) == SeqOfKeyInUse(seq[k])

\* The test of pthread_getspecific.
GetSpecificMatches(t, k) == SeqOfKeyInUse(seq[k]) /\ key_data[t][k].seq = seq[k]

\* What pthread_getspecific returns.
GetSpecificValue(t, k) == IF GetSpecificMatches(t, k) THEN key_data[t][k].data ELSE Null

\* pthread_getspecific clears what it does not return.
GetSpecific(t) ==
    /\ keyCall[t].pc = "idle"
    /\ \E k \in Key : /\ InUse(k) /\ ~GetSpecificMatches(t, k)
                      /\ key_data' = [key_data EXCEPT ![t][k].data = Null]
    /\ UNCHANGED <<seq, key_destructor, live, keyCall>>

-----------------------------------------------------------------------------
\* pthread_exit calls pthread_key_clean_all.
CleanAll(t) ==
    /\ keyCall[t].pc = "idle"
    /\ keyCall' = [keyCall EXCEPT ![t].pc = "scan", ![t].rounds = Rounds]
    /\ UNCHANGED <<seq, key_destructor, live, key_data>>

\* The next index, from any place in the body of the inner loop.
Continue(t) == keyCall' = [keyCall EXCEPT ![t].pc = "scan", ![t].i = @ + 1]

\* The first load of seq.
ScanSeq(t) ==
    /\ keyCall[t].pc = "scan" /\ keyCall[t].i < KeyCount
    /\ LET i == keyCall[t].i
       IN IF GetSpecificMatches(t, i) /\ key_data[t][i].data # Null
            THEN keyCall' = [keyCall EXCEPT ![t].pc = "load", ![t].seq = seq[i]]
            ELSE Continue(t)
    /\ UNCHANGED <<seq, key_destructor, live, key_data>>

ScanDestructor(t) ==
    /\ keyCall[t].pc = "load"
    /\ LET d == key_destructor[keyCall[t].i]
       IN IF d = Null THEN Continue(t)
                      ELSE keyCall' = [keyCall EXCEPT ![t].pc = "recheck", ![t].destructor = d]
    /\ UNCHANGED <<seq, key_destructor, live, key_data>>

\* A mutant of the scan: no second look at seq.
RecheckNothing(t, i) == TRUE

\* The second load of seq still gives what the first gave.
RecheckHolds(t, i) == seq[i] = keyCall[t].seq

\* The second load of seq; if it gives the same, the data is cleared.
Recheck(t) ==
    /\ keyCall[t].pc = "recheck"
    /\ LET i == keyCall[t].i
       IN \/ /\ RecheckHolds(t, i)
             /\ key_data' = [key_data EXCEPT ![t][i].data = Null]
             /\ keyCall' = [keyCall EXCEPT ![t].pc = "call", ![t].data = key_data[t][i].data]
          \/ ~RecheckHolds(t, i) /\ Continue(t) /\ UNCHANGED key_data
    /\ UNCHANGED <<seq, key_destructor, live>>

\* The call of the destructor, which may store data for a key in use. That it
\* may create and delete keys is left to the other threads.
Destruct(t) ==
    /\ keyCall[t].pc = "call"
    /\ \/ UNCHANGED key_data
       \/ \E k \in Key : /\ InUse(k)
                         /\ \E d \in Specific(k) : key_data' = [key_data EXCEPT ![t][k] = d]
    /\ keyCall' = [keyCall EXCEPT ![t].pc = "scan", ![t].i = @ + 1, ![t].called = @ + 1,
                            ![t].data = Null]
    /\ UNCHANGED <<seq, key_destructor, live>>

\* A mutant of the outer loop: one round is all.
NextRoundNever(t) == FALSE

\* The outer loop goes on while there are rounds and destructors were called.
NextRound(t) == keyCall[t].called # 0 /\ keyCall[t].rounds > 1

EndRound(t) ==
    /\ keyCall[t].pc = "scan" /\ keyCall[t].i = KeyCount
    /\ keyCall' = IF NextRound(t)
                    THEN [keyCall EXCEPT ![t] = [NoKeyCall EXCEPT !.pc = "scan",
                                                                  !.rounds = keyCall[t].rounds - 1]]
                    ELSE [keyCall EXCEPT ![t].pc = "done"]
    /\ UNCHANGED <<seq, key_destructor, live, key_data>>

\* The thread is gone; a new one starts with no data.
NewThread(t) ==
    /\ keyCall[t].pc = "done"
    /\ key_data' = [key_data EXCEPT ![t] = [k \in Key |-> NoData]]
    /\ Return(t)
    /\ UNCHANGED <<seq, key_destructor, live>>

KeyNext == \E t \in Thread :
    \/ KeyCreate(t) \/ CreateClaim(t) \/ CreateStore(t)
    \/ KeyDelete(t) \/ DeleteExchange(t)
    \/ SetSpecific(t) \/ GetSpecific(t)
    \/ CleanAll(t) \/ ScanSeq(t) \/ ScanDestructor(t) \/ Recheck(t) \/ Destruct(t)
    \/ EndRound(t) \/ NewThread(t)

KeySpec == KeyInit /\ [][KeyNext]_keyVars
-----------------------------------------------------------------------------
KeyTypeOK ==
    /\ seq \in [Key -> Nat]
    /\ key_destructor \in [Key -> MaybeDestructor]
    /\ live \in [Key -> MaybeDestructor \cup {"none"}]
    /\ key_data \in [Thread -> [Key -> [seq : Nat, data : Data]]]
    /\ keyCall \in [Thread -> KeyCalls]

\* The in-use bit of a slot is set exactly while one thread has the slot's key
\* or is creating it, whatever creations and deletions (also of the same key,
\* twice) are in flight: no two threads get the same key, none is lost.
SlotsAccounted ==
    \A k \in Key :
        LET creators == {t \in Thread : keyCall[t].pc = "store" /\ keyCall[t].i = k}
        IN IF SeqOfKeyInUse(seq[k])
             THEN Cardinality(creators) = (IF InUse(k) THEN 0 ELSE 1)
             ELSE creators = {} /\ ~InUse(k)

\* pthread_getspecific on a key in use returns null or what was stored for
\* this key, never data of an earlier key in the same slot.
NoStaleData ==
    \A t \in Thread, k \in Key :
        InUse(k) /\ GetSpecificValue(t, k) # Null => GetSpecificValue(t, k).of = live[k]

\* We either see the right key_destructor, or the sequence number must have
\* changed when we reread it: an exiting thread calls on its data only the
\* destructor of the data's own key, whoever reuses the slot meanwhile.
RightDestructor ==
    \A t \in Thread : keyCall[t].pc = "call" => keyCall[t].data.of = keyCall[t].destructor

\* When pthread_key_clean_all stops before its last round, the thread has no
\* data left whose key is in use and has a destructor.
CleanIsComplete ==
    \A t \in Thread : keyCall[t].pc = "done" /\ keyCall[t].rounds > 1 =>
        \A k \in Key : InUse(k) /\ GetSpecificValue(t, k) # Null => live[k] = Null
=============================================================================
