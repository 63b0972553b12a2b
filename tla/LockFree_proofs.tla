-------------------------- MODULE LockFree_proofs ---------------------------
(* Proofs about what is read without a lock, under a sequence number: system *)
(* properties, for any properties and values and any set of readers, and     *)
(* thread-specific data, for any set of threads, any number of keys and of   *)
(* destructor rounds, and any destructors.                                   *)
EXTENDS SystemProperties, PthreadKey, TLAPS

\* A slot in use has its destructor stored; one that is claimed and not yet in
\* use has one creator about to store.
Slots ==
    /\ \A k \in Key : InUse(k) => SeqOfKeyInUse(seq[k]) /\ key_destructor[k] = live[k]
    /\ \A t \in Thread : keyCall[t].pc = "store" => SeqOfKeyInUse(seq[keyCall[t].i]) /\ ~InUse(keyCall[t].i)
    /\ \A t, u \in Thread :
          keyCall[t].pc = "store" /\ keyCall[u].pc = "store" /\ keyCall[t].i = keyCall[u].i => t = u
    /\ \A k \in Key : SeqOfKeyInUse(seq[k]) /\ ~InUse(k)
                         => \E t \in Thread : keyCall[t].pc = "store" /\ keyCall[t].i = k

\* Data stored under the slot's sequence number belongs to the key in use.
DataKnown(t) ==
    \A k \in Key :
        /\ key_data[t][k].seq <= seq[k]
        /\ key_data[t][k].seq = seq[k] /\ key_data[t][k].data # Null
              => InUse(k) /\ key_data[t][k].data.of = live[k]

\* Slot k has nothing left that thread t would have to destroy.
Clean(t, k) == InUse(k) /\ GetSpecificValue(t, k) # Null => live[k] = Null

\* What thread t read before it is still true, or the sequence number tells.
CallKnown(t) ==
    LET c == keyCall[t]
    IN /\ c.pc = "idle" => c = NoKeyCall
       /\ c.pc \in {"store", "delete", "load", "recheck", "call"} => c.i \in Key
       /\ c.pc = "delete" => c.seq <= seq[c.i] /\ (seq[c.i] = c.seq => InUse(c.i))
       /\ c.pc \in {"load", "recheck"} =>
             key_data[t][c.i].seq = c.seq /\ key_data[t][c.i].data # Null
       /\ c.pc = "recheck" /\ seq[c.i] = c.seq => c.destructor = live[c.i]
       /\ c.pc = "call" => c.data.of = c.destructor
       /\ c.pc \in {"scan", "load", "recheck", "call"} => c.called <= c.i

\* A round that has called nothing so far has left nothing behind it.
ScanKnown(t) ==
    LET c == keyCall[t]
    IN /\ c.pc \in {"scan", "load", "recheck"} /\ c.called = 0
             => \A k \in Key : k < c.i => Clean(t, k)
       /\ c.pc = "done" /\ c.rounds > 1 => \A k \in Key : Clean(t, k)

Known(t) == DataKnown(t) /\ CallKnown(t) /\ ScanKnown(t)

KeyInv == KeyTypeOK /\ Slots /\ \A t \in Thread : Known(t)

\* The in-use bit alternates.
LEMMA KeyParity ==
    \A s \in Nat : SeqOfKeyInUse(s + 1) <=> ~SeqOfKeyInUse(s)
  BY DEF SeqOfKeyInUse

LEMMA KeyInitInv == KeyInit => KeyInv
<1> SUFFICES ASSUME KeyInit PROVE KeyInv
  BY Zenon
<1> USE KeyAssumption
<1>1. KeyTypeOK
  BY DEF KeyInit, KeyTypeOK, Key, MaybeDestructor, Data, KeyCalls, NoKeyCall, NoData
<1>2. Slots
  BY DEF KeyInit, Slots, InUse, SeqOfKeyInUse, NoKeyCall
<1>3. ASSUME NEW t \in Thread PROVE Known(t)
  BY <1>3 DEF KeyInit, Known, DataKnown, CallKnown, ScanKnown, NoKeyCall, NoData
<1> QED
  BY <1>1, <1>2, <1>3, Zenon DEF KeyInv

\* A thread outside all calls.
LEMMA IdleCall ==
    NoKeyCall \in KeyCalls /\ NoKeyCall.pc = "idle" /\ NoKeyCall.i = 0 /\ NoKeyCall.called = 0
<1>1. 0 \in 0 .. KeyCount /\ 0 \in 0 .. Rounds /\ 0 \in Nat
  BY KeyAssumption
<1>2. Null \in MaybeDestructor /\ Null \in Data
  BY Zenon DEF MaybeDestructor, Data
<1> QED
  BY <1>1, <1>2, Zenon DEF NoKeyCall, KeyCalls

\* The store of one slot of one thread.
LEMMA StoreSlot ==
    ASSUME NEW T, NEW K, NEW S, NEW f \in [T -> [K -> S]], NEW a \in T, NEW b \in K, NEW d \in S,
           NEW g, g = [f EXCEPT ![a][b] = d]
    PROVE  /\ g \in [T -> [K -> S]]
           /\ \A u \in T : u # a => g[u] = f[u]
           /\ g[a][b] = d
           /\ \A k \in K : k # b => g[a][k] = f[a][k]
  BY Zenon

\* What a step may do to a slot: nothing, move its sequence number on, or put
\* a claimed slot to use.
SlotStep(k) ==
    \/ seq'[k] = seq[k] /\ live'[k] = live[k] /\ key_destructor'[k] = key_destructor[k]
    \/ seq'[k] = seq[k] + 1
    \/ seq'[k] = seq[k] /\ ~InUse(k)

\* Data stays with its key through such steps.
LEMMA SlotData ==
    ASSUME KeyInv, NEW u \in Thread, key_data'[u] = key_data[u], \A k \in Key : SlotStep(k)
    PROVE  DataKnown(u)'
<1>1. \A k \in Key : seq[k] \in Nat /\ key_data[u][k].seq \in Nat
  BY Zenon DEF KeyInv, KeyTypeOK
<1> SUFFICES ASSUME NEW k \in Key
             PROVE  /\ key_data[u][k].seq <= seq'[k]
                    /\ key_data[u][k].seq = seq'[k] /\ key_data[u][k].data # Null
                         => InUse(k)' /\ key_data[u][k].data.of = live'[k]
  BY Zenon DEF DataKnown
<1> QED
  BY <1>1 DEF SlotStep, KeyInv, Known, DataKnown, InUse

\* A thread that takes no part in such steps still knows what it knew.
LEMMA OthersKnow ==
    ASSUME KeyInv, NEW u \in Thread, keyCall'[u] = keyCall[u], key_data'[u] = key_data[u],
           \A k \in Key : SlotStep(k)
    PROVE  Known(u)'
<1>1. /\ \A k \in Key : seq[k] \in Nat /\ key_data[u][k].seq \in Nat
      /\ keyCall[u].seq \in Nat
  BY ZenonT(30) DEF KeyInv, KeyTypeOK, KeyCalls
<1>2. DataKnown(u) /\ CallKnown(u) /\ ScanKnown(u)
  BY Zenon DEF KeyInv, Known
<1>3. DataKnown(u)'
  BY SlotData, Zenon
<1>4. ASSUME NEW k \in Key, Clean(u, k) PROVE Clean(u, k)'
  <2>1. SlotStep(k)
    BY Zenon
  <2>2. CASE seq'[k] = seq[k] /\ live'[k] = live[k]
    BY <1>4, <2>2, Zenon DEF Clean, InUse, GetSpecificValue, GetSpecificMatches
  <2>3. CASE seq'[k] = seq[k] + 1
    <3>1. key_data'[u][k].seq # seq'[k]
      BY <1>1, <1>2, <2>3 DEF DataKnown
    <3> QED
      BY <3>1, Zenon DEF Clean, GetSpecificValue, GetSpecificMatches
  <2>4. CASE seq'[k] = seq[k] /\ ~InUse(k)
    <3>1. key_data[u][k].seq # seq[k] \/ key_data[u][k].data = Null
      BY <1>2, <2>4, Zenon DEF DataKnown
    <3> QED
      BY <2>4, <3>1, Zenon DEF Clean, GetSpecificValue, GetSpecificMatches
  <2> QED
    BY <2>1, <2>2, <2>3, <2>4, Zenon DEF SlotStep
<1>5. ScanKnown(u)'
  BY <1>2, <1>4, Zenon DEF ScanKnown
<1>6. CallKnown(u)'
  <2>1. ASSUME keyCall[u].pc \in {"delete", "recheck"} PROVE SlotStep(keyCall[u].i)
    BY <1>2, <2>1, Zenon DEF CallKnown
  <2>2. ASSUME keyCall[u].pc = "delete"
        PROVE  keyCall[u].seq <= seq'[keyCall[u].i] /\ (seq'[keyCall[u].i] = keyCall[u].seq => InUse(keyCall[u].i)')
    <3>1. keyCall[u].i \in Key /\ keyCall[u].seq <= seq[keyCall[u].i]
          /\ (seq[keyCall[u].i] = keyCall[u].seq => InUse(keyCall[u].i))
      BY <1>2, <2>2, Zenon DEF CallKnown
    <3> QED
      BY <1>1, <2>1, <2>2, <3>1 DEF SlotStep, InUse
  <2>3. ASSUME keyCall[u].pc = "recheck", seq'[keyCall[u].i] = keyCall[u].seq
        PROVE  keyCall[u].destructor = live'[keyCall[u].i]
    <3>1. /\ keyCall[u].i \in Key /\ key_data[u][keyCall[u].i].seq = keyCall[u].seq
          /\ key_data[u][keyCall[u].i].data # Null
          /\ seq[keyCall[u].i] = keyCall[u].seq => keyCall[u].destructor = live[keyCall[u].i]
      BY <1>2, <2>3, Zenon DEF CallKnown
    <3>2. key_data[u][keyCall[u].i].seq <= seq[keyCall[u].i]
          /\ (key_data[u][keyCall[u].i].seq = seq[keyCall[u].i] => InUse(keyCall[u].i))
      BY <1>2, <3>1, Zenon DEF DataKnown
    <3> QED
      BY <1>1, <2>1, <2>3, <3>1, <3>2 DEF SlotStep
  <2> QED
    BY <1>2, <2>2, <2>3, Zenon DEF CallKnown
<1> QED
  BY <1>3, <1>5, <1>6, Zenon DEF Known

\* A step of thread t on its own call and data needs a look at t only.
LEMMA LocalStep ==
    ASSUME KeyInv, NEW t \in Thread, NEW c \in KeyCalls,
           keyCall' = [keyCall EXCEPT ![t] = c], keyCall[t].pc # "store", c.pc # "store",
           UNCHANGED <<seq, key_destructor, live>>,
           key_data' \in [Thread -> [Key -> [seq : Nat, data : Data]]],
           \A u \in Thread : u # t => key_data'[u] = key_data[u],
           Known(t)'
    PROVE  KeyInv'
<1>1. KeyTypeOK'
  BY Zenon DEF KeyInv, KeyTypeOK
<1>2. keyCall'[t] = c /\ \A u \in Thread : u # t => keyCall'[u] = keyCall[u]
  BY Zenon DEF KeyInv, KeyTypeOK
<1>3. ASSUME NEW u \in Thread PROVE Known(u)'
  BY <1>2, OthersKnow, Zenon DEF SlotStep
<1>4. \A u \in Thread : /\ keyCall'[u].pc = "store" <=> keyCall[u].pc = "store"
                        /\ keyCall'[u].pc = "store" => keyCall'[u] = keyCall[u]
  BY <1>2, Zenon
<1>5. Slots
  BY Zenon DEF KeyInv
<1>6. Slots'
  <2>1. \A k \in Key : InUse(k)' <=> InUse(k)
    BY Zenon DEF InUse
  <2>2. /\ \A k \in Key : InUse(k) => SeqOfKeyInUse(seq[k]) /\ key_destructor[k] = live[k]
        /\ \A u \in Thread :
              keyCall[u].pc = "store" =>
                 SeqOfKeyInUse(seq[keyCall[u].i]) /\ live[keyCall[u].i] = "none"
        /\ \A k \in Key : SeqOfKeyInUse(seq[k]) /\ ~InUse(k)
                             => \E u \in Thread : keyCall[u].pc = "store" /\ keyCall[u].i = k
    BY <1>5, Zenon DEF Slots, InUse
  <2>3. \A u, v \in Thread :
           keyCall[u].pc = "store" /\ keyCall[v].pc = "store" /\ keyCall[u].i = keyCall[v].i => u = v
    BY <1>5, Zenon DEF Slots
  <2> QED
    BY <1>4, <2>1, <2>2, <2>3 DEF Slots, InUse
<1> QED
  BY <1>1, <1>3, <1>6, Zenon DEF KeyInv

\* A step on its own call only: what is known of the data stays known.
LEMMA CallStep ==
    ASSUME KeyInv, NEW t \in Thread, NEW c \in KeyCalls,
           keyCall' = [keyCall EXCEPT ![t] = c], keyCall[t].pc # "store", c.pc # "store",
           UNCHANGED <<seq, key_destructor, live, key_data>>,
           CallKnown(t)', ScanKnown(t)'
    PROVE  KeyInv'
<1>1. DataKnown(t)'
  BY Zenon DEF KeyInv, Known, DataKnown, InUse
<1>2. key_data' \in [Thread -> [Key -> [seq : Nat, data : Data]]]
  BY Zenon DEF KeyInv, KeyTypeOK
<1> QED
  BY <1>1, <1>2, LocalStep, Zenon DEF Known

\* pthread_key_create and pthread_key_delete up to their exchanges.
LEMMA BeginSteps ==
    ASSUME KeyInv, NEW t \in Thread,
           \/ KeyCreate(t) \/ KeyDelete(t) \/ CleanAll(t)
           \/ CreateClaim(t) /\ UNCHANGED seq
    PROVE  KeyInv'
<1>0. /\ keyCall \in [Thread -> KeyCalls] /\ keyCall[t] \in KeyCalls /\ NoKeyCall \in KeyCalls
      /\ seq \in [Key -> Nat] /\ KeyCount \in Nat /\ Rounds \in Nat
      /\ keyCall[t].pc = "idle" => keyCall[t] = NoKeyCall
  BY KeyAssumption, IdleCall, Zenon DEF KeyInv, KeyTypeOK, Known, CallKnown
<1>1. ASSUME KeyCreate(t) PROVE KeyInv'
  <2>1. PICK d \in MaybeDestructor : keyCall' = [keyCall EXCEPT ![t].pc = "create", ![t].destructor = d]
    BY <1>1, Zenon DEF KeyCreate
  <2> DEFINE c == [keyCall[t] EXCEPT !.pc = "create", !.destructor = d]
  <2>2. c \in KeyCalls /\ c.pc = "create" /\ keyCall' = [keyCall EXCEPT ![t] = c] /\ keyCall'[t] = c
    BY <1>0, <2>1, ZenonT(30) DEF KeyCalls
  <2> HIDE DEF c
  <2>3. CallKnown(t)' /\ ScanKnown(t)'
    BY <2>2, Zenon DEF CallKnown, ScanKnown
  <2> QED
    BY <1>1, <2>2, <2>3, CallStep, Zenon DEF KeyCreate
<1>2. ASSUME KeyDelete(t) PROVE KeyInv'
  <2>1. PICK k \in Key : InUse(k) /\ keyCall' = [keyCall EXCEPT ![t].pc = "delete", ![t].i = k, ![t].seq = seq[k]]
    BY <1>2, Zenon DEF KeyDelete
  <2> DEFINE c == [keyCall[t] EXCEPT !.pc = "delete", !.i = k, !.seq = seq[k]]
  <2>2. /\ c \in KeyCalls /\ c.pc = "delete" /\ c.i = k /\ c.seq = seq[k]
        /\ keyCall' = [keyCall EXCEPT ![t] = c] /\ keyCall'[t] = c
    <3>1. k \in 0 .. KeyCount /\ seq[k] \in Nat
      BY <1>0 DEF Key
    <3>2. c \in KeyCalls /\ c.pc = "delete" /\ c.i = k /\ c.seq = seq[k]
      BY <1>0, <3>1, Zenon DEF KeyCalls
    <3>3. keyCall' = [keyCall EXCEPT ![t] = c]
      BY <1>0, <2>1, Zenon
    <3> QED
      BY <1>0, <3>2, <3>3, Zenon
  <2> HIDE DEF c
  <2>3. UNCHANGED <<seq, live>> /\ seq[k] \in Nat
    BY <1>0, <1>2, Zenon DEF KeyDelete
  <2>4. CallKnown(t)' /\ ScanKnown(t)'
    BY <2>1, <2>2, <2>3 DEF CallKnown, ScanKnown, InUse
  <2> QED
    BY <1>2, <2>2, <2>4, CallStep, Zenon DEF KeyDelete
<1>3. ASSUME CleanAll(t) PROVE KeyInv'
  <2> DEFINE c == [keyCall[t] EXCEPT !.pc = "scan", !.rounds = Rounds]
  <2>1. /\ c \in KeyCalls /\ c.pc = "scan" /\ c.i = 0 /\ c.called = 0
        /\ keyCall' = [keyCall EXCEPT ![t] = c] /\ keyCall'[t] = c
    <3>1. c \in KeyCalls /\ c.pc = "scan"
      <4>1. Rounds \in 0 .. Rounds
        BY <1>0
      <4> QED
        BY <1>0, <4>1, Zenon DEF KeyCalls
    <3>2. keyCall[t] = NoKeyCall
      BY <1>0, <1>3, Zenon DEF CleanAll
    <3>3. c.i = 0 /\ c.called = 0
      <4>1. NoKeyCall.i = 0 /\ NoKeyCall.called = 0
        BY Zenon DEF NoKeyCall
      <4> QED
        BY <1>0, <3>2, <4>1, Zenon DEF KeyCalls
    <3>4. keyCall' = [keyCall EXCEPT ![t] = c]
      BY <1>0, <1>3, Zenon DEF CleanAll
    <3> QED
      BY <1>0, <3>1, <3>3, <3>4, Zenon
  <2> HIDE DEF c
  <2>2. \A k \in Key : ~(k < 0)
    BY DEF Key
  <2>3. CallKnown(t)' /\ ScanKnown(t)'
    BY <2>1, <2>2 DEF CallKnown, ScanKnown
  <2> QED
    BY <1>3, <2>1, <2>3, CallStep, Zenon DEF CleanAll
<1>4. ASSUME CreateClaim(t), UNCHANGED seq PROVE KeyInv'
  <2>1. ~(keyCall[t].i < KeyCount /\ ~SeqOfKeyInUse(seq[keyCall[t].i]) /\ seq' = [seq EXCEPT ![keyCall[t].i] = @ + 1])
    BY <1>0, <1>4, SMTT(30) DEF KeyCalls, Key
  <2>2. PICK c \in KeyCalls : c.pc \in {"create", "idle"} /\ (c.pc = "idle" => c = NoKeyCall)
                           /\ keyCall' = [keyCall EXCEPT ![t] = c] /\ keyCall'[t] = c
    <3>1. CASE keyCall[t].i < KeyCount /\ keyCall' = [keyCall EXCEPT ![t].i = keyCall[t].i + 1]
      <4> DEFINE c == [keyCall[t] EXCEPT !.i = keyCall[t].i + 1]
      <4>1. c \in KeyCalls /\ c.pc = "create" /\ keyCall' = [keyCall EXCEPT ![t] = c] /\ keyCall'[t] = c
        BY <1>0, <1>4, <3>1 DEF KeyCalls, CreateClaim
      <4> QED
        BY <4>1, Zenon
    <3>2. CASE Return(t)
      BY <1>0, <3>2, Zenon DEF Return, NoKeyCall
    <3> QED
      BY <1>4, <2>1, <3>1, <3>2, Zenon DEF CreateClaim
  <2>3. CallKnown(t)' /\ ScanKnown(t)'
    BY <2>2, Zenon DEF CallKnown, ScanKnown
  <2> QED
    BY <1>4, <2>2, <2>3, CallStep, Zenon DEF CreateClaim
<1> QED
  BY <1>1, <1>2, <1>3, <1>4, Zenon

\* The scan passes over a slot only when it is clean.
LEMMA ContinueStep ==
    ASSUME KeyInv, NEW t \in Thread, keyCall[t].pc \in {"scan", "load", "recheck"},
           keyCall[t].i \in Key, Clean(t, keyCall[t].i), Continue(t),
           UNCHANGED <<seq, key_destructor, live, key_data>>
    PROVE  KeyInv'
<1>0. keyCall \in [Thread -> KeyCalls] /\ keyCall[t] \in KeyCalls /\ KeyCount \in Nat
  BY KeyAssumption, Zenon DEF KeyInv, KeyTypeOK
<1>1. keyCall[t].i + 1 \in 0 .. KeyCount /\ keyCall[t].called <= keyCall[t].i /\ keyCall[t].called \in Nat
  BY <1>0 DEF Key, KeyInv, Known, CallKnown, KeyCalls
<1> DEFINE c == [keyCall[t] EXCEPT !.pc = "scan", !.i = keyCall[t].i + 1]
<1>2. c \in KeyCalls /\ c.pc = "scan" /\ c.i = keyCall[t].i + 1 /\ c.called = keyCall[t].called
  BY <1>0, <1>1, Zenon DEF KeyCalls
<1>3. keyCall' = [keyCall EXCEPT ![t] = c]
  BY <1>0, Zenon DEF Continue
<1>4. keyCall'[t] = c
  BY <1>0, <1>3, Zenon
<1> HIDE DEF c
<1>5. CallKnown(t)'
  BY <1>1, <1>2, <1>4 DEF CallKnown, Key
<1>6. \A k \in Key : Clean(t, k)' <=> Clean(t, k)
  BY Zenon DEF Clean, InUse, GetSpecificValue, GetSpecificMatches
<1>7. keyCall[t].called = 0 => \A k \in Key : k < keyCall[t].i + 1 => Clean(t, k)
  <2>1. keyCall[t].called = 0 => \A k \in Key : k < keyCall[t].i => Clean(t, k)
    BY Zenon DEF KeyInv, Known, ScanKnown
  <2>2. \A k \in Key : k < keyCall[t].i + 1 => k < keyCall[t].i \/ k = keyCall[t].i
    BY <1>0 DEF Key
  <2> QED
    BY <2>1, <2>2, Zenon
<1>8. ScanKnown(t)'
  BY <1>2, <1>4, <1>6, <1>7, Zenon DEF ScanKnown
<1> QED
  BY <1>2, <1>3, <1>5, <1>8, CallStep, Zenon

\* pthread_key_clean_all up to the second load of seq.
LEMMA ScanSteps ==
    ASSUME KeyInv, NEW t \in Thread, ScanSeq(t) \/ ScanDestructor(t)
    PROVE  KeyInv'
<1>0. /\ keyCall \in [Thread -> KeyCalls] /\ keyCall[t] \in KeyCalls /\ KeyCount \in Nat
      /\ seq \in [Key -> Nat] /\ key_destructor \in [Key -> MaybeDestructor]
  BY KeyAssumption, Zenon DEF KeyInv, KeyTypeOK
<1>1. keyCall[t].i \in Key /\ keyCall[t].pc \in {"scan", "load"}
  BY <1>0 DEF ScanSeq, ScanDestructor, KeyCalls, Key, KeyInv, Known, CallKnown
<1> DEFINE i == keyCall[t].i
<1>2. UNCHANGED <<seq, key_destructor, live, key_data>>
  BY Zenon DEF ScanSeq, ScanDestructor
<1>3. \A k \in Key : Clean(t, k)' <=> Clean(t, k)
  BY <1>2, Zenon DEF Clean, InUse, GetSpecificValue, GetSpecificMatches
<1>4. ASSUME NEW c \in KeyCalls, keyCall' = [keyCall EXCEPT ![t] = c], c.pc \in {"load", "recheck"},
             c.i = i, c.called = keyCall[t].called, CallKnown(t)'
      PROVE  KeyInv'
  <2>1. keyCall'[t] = c
    BY <1>0, <1>4, Zenon
  <2>2. keyCall[t].called = 0 => \A k \in Key : k < i => Clean(t, k)
    BY <1>1, Zenon DEF KeyInv, Known, ScanKnown
  <2>3. ScanKnown(t)'
    BY <1>3, <1>4, <2>1, <2>2, Zenon DEF ScanKnown
  <2> QED
    BY <1>1, <1>2, <1>4, <2>3, CallStep, Zenon
<1>5. ASSUME ScanSeq(t) PROVE KeyInv'
  <2>1. CASE GetSpecificMatches(t, i) /\ key_data[t][i].data # Null
    <3> DEFINE c == [keyCall[t] EXCEPT !.pc = "load", !.seq = seq[i]]
    <3>1. c \in KeyCalls /\ c.pc = "load" /\ c.seq = seq[i] /\ c.i = i /\ c.called = keyCall[t].called
      BY <1>0, <1>1, Zenon DEF KeyCalls
    <3>2. keyCall' = [keyCall EXCEPT ![t] = c]
      BY <1>0, <1>5, <2>1, Zenon DEF ScanSeq
    <3>3. keyCall'[t] = c
      BY <1>0, <3>2, Zenon
    <3> HIDE DEF c
    <3>4. keyCall[t].called <= i
      BY <1>5, Zenon DEF ScanSeq, KeyInv, Known, CallKnown
    <3>5. CallKnown(t)'
      BY <1>1, <1>2, <2>1, <3>1, <3>3, <3>4, Zenon DEF CallKnown, GetSpecificMatches
    <3> QED
      BY <1>4, <3>1, <3>2, <3>5, Zenon
  <2>2. CASE ~(GetSpecificMatches(t, i) /\ key_data[t][i].data # Null)
    <3>1. Clean(t, i)
      BY <2>2, Zenon DEF Clean, GetSpecificValue
    <3>2. Continue(t)
      BY <1>5, <2>2, Zenon DEF ScanSeq
    <3> QED
      BY <1>1, <1>2, <3>1, <3>2, ContinueStep, Zenon
  <2> QED
    BY <2>1, <2>2, Zenon
<1>6. ASSUME ScanDestructor(t) PROVE KeyInv'
  <2>0. /\ key_data[t][i].seq = keyCall[t].seq /\ key_data[t][i].data # Null
        /\ keyCall[t].called <= i /\ keyCall[t].pc = "load"
    BY <1>6, Zenon DEF ScanDestructor, KeyInv, Known, CallKnown
  <2>1. seq[i] = keyCall[t].seq => InUse(i) /\ key_destructor[i] = live[i]
    BY <1>1, <2>0 DEF KeyInv, Known, DataKnown, Slots
  <2>2. CASE key_destructor[i] # Null
    <3> DEFINE c == [keyCall[t] EXCEPT !.pc = "recheck", !.destructor = key_destructor[i]]
    <3>1. /\ c \in KeyCalls /\ c.pc = "recheck" /\ c.seq = keyCall[t].seq /\ c.i = i
          /\ c.called = keyCall[t].called /\ c.destructor = key_destructor[i]
      BY <1>0, <1>1, Zenon DEF KeyCalls
    <3>2. keyCall' = [keyCall EXCEPT ![t] = c]
      BY <1>0, <1>6, <2>2, Zenon DEF ScanDestructor
    <3>3. keyCall'[t] = c
      BY <1>0, <3>2, Zenon
    <3> HIDE DEF c
    <3>4. CallKnown(t)'
      BY <1>1, <1>2, <2>0, <2>1, <3>1, <3>3, Zenon DEF CallKnown
    <3> QED
      BY <1>4, <3>1, <3>2, <3>4, Zenon
  <2>3. CASE key_destructor[i] = Null
    <3>1. Clean(t, i)
      BY <1>1, <2>3, Zenon DEF Clean, KeyInv, Slots
    <3>2. Continue(t)
      BY <1>6, <2>3, Zenon DEF ScanDestructor
    <3> QED
      BY <1>1, <1>2, <3>1, <3>2, ContinueStep, Zenon
  <2> QED
    BY <2>2, <2>3, Zenon
<1> QED
  BY <1>5, <1>6, Zenon

\* The second load of seq, the end of a round, and the end of the thread.
LEMMA RecheckStep ==
    ASSUME KeyInv, NEW t \in Thread, Recheck(t)
    PROVE  KeyInv'
<1> DEFINE i == keyCall[t].i
<1>0. /\ keyCall \in [Thread -> KeyCalls] /\ keyCall[t] \in KeyCalls /\ keyCall[t].pc = "recheck"
      /\ key_data \in [Thread -> [Key -> [seq : Nat, data : Data]]]
      /\ UNCHANGED <<seq, key_destructor, live>>
  BY Zenon DEF KeyInv, KeyTypeOK, Recheck
<1>1. /\ i \in Key /\ key_data[t][i].seq = keyCall[t].seq /\ key_data[t][i].data # Null
      /\ seq[i] = keyCall[t].seq => keyCall[t].destructor = live[i]
      /\ keyCall[t].called <= i
  BY <1>0, Zenon DEF KeyInv, Known, CallKnown
<1>2. CASE ~RecheckHolds(t, i)
  <2>1. Continue(t) /\ UNCHANGED key_data
    BY <1>2, Zenon DEF Recheck
  <2>2. Clean(t, i)
    BY <1>1, <1>2, Zenon DEF Clean, RecheckHolds, GetSpecificValue, GetSpecificMatches
  <2> QED
    BY <1>0, <1>1, <2>1, <2>2, ContinueStep, Zenon
<1>3. CASE RecheckHolds(t, i)
  <2>1. /\ key_data' = [key_data EXCEPT ![t][i].data = Null]
        /\ keyCall' = [keyCall EXCEPT ![t].pc = "call", ![t].data = key_data[t][i].data]
    BY <1>3, Zenon DEF Recheck
  <2>2. key_data[t][i].data.of = keyCall[t].destructor
    BY <1>1, <1>3, Zenon DEF RecheckHolds, KeyInv, Known, DataKnown
  <2> DEFINE c == [keyCall[t] EXCEPT !.pc = "call", !.data = key_data[t][i].data]
  <2>3. key_data[t][i].data \in Data
    BY <1>0, <1>1, Zenon
  <2>4. /\ c \in KeyCalls /\ c.pc = "call" /\ c.data = key_data[t][i].data /\ c.i = i
        /\ c.destructor = keyCall[t].destructor /\ c.called = keyCall[t].called
    BY <1>0, <2>3, Zenon DEF KeyCalls
  <2>5. keyCall' = [keyCall EXCEPT ![t] = c]
    BY <1>0, <2>1, Zenon
  <2>6. keyCall'[t] = c
    BY <1>0, <2>5, Zenon
  <2> HIDE DEF c
  <2>7. /\ key_data' \in [Thread -> [Key -> [seq : Nat, data : Data]]]
        /\ \A u \in Thread : u # t => key_data'[u] = key_data[u]
        /\ \A k \in Key : /\ key_data'[t][k].seq = key_data[t][k].seq
                          /\ key_data'[t][k].data \in {key_data[t][k].data, Null}
    <3> DEFINE d == [key_data[t][i] EXCEPT !.data = Null]
    <3>1. key_data[t][i] \in [seq : Nat, data : Data] /\ Null \in Data
      BY <1>0, <1>1, Zenon DEF Data
    <3>2. d \in [seq : Nat, data : Data] /\ d.seq = key_data[t][i].seq /\ d.data = Null
      BY <3>1, Zenon
    <3>3. key_data' = [key_data EXCEPT ![t][i] = d]
      BY <2>1, Zenon
    <3> HIDE DEF d
    <3>4. /\ key_data' \in [Thread -> [Key -> [seq : Nat, data : Data]]]
          /\ \A u \in Thread : u # t => key_data'[u] = key_data[u]
          /\ key_data'[t][i] = d
          /\ \A k \in Key : k # i => key_data'[t][k] = key_data[t][k]
      BY <1>0, <1>1, <3>2, <3>3, StoreSlot
    <3> QED
      BY <3>2, <3>4, Zenon
  <2>8. DataKnown(t)'
    BY <1>0, <2>7 DEF KeyInv, Known, DataKnown, InUse
  <2>9. CallKnown(t)' /\ ScanKnown(t)'
    BY <1>1, <2>2, <2>4, <2>6, Zenon DEF CallKnown, ScanKnown
  <2> QED
    BY <1>0, <2>4, <2>5, <2>7, <2>8, <2>9, LocalStep, Zenon DEF Known
<1> QED
  BY <1>2, <1>3, Zenon

LEMMA EndRoundStep ==
    ASSUME KeyInv, NEW t \in Thread, EndRound(t)
    PROVE  KeyInv'
<1>0. /\ keyCall \in [Thread -> KeyCalls] /\ keyCall[t] \in KeyCalls /\ keyCall[t].pc = "scan"
      /\ keyCall[t].i = KeyCount /\ KeyCount \in Nat
      /\ UNCHANGED <<seq, key_destructor, live, key_data>>
  BY KeyAssumption, Zenon DEF KeyInv, KeyTypeOK, EndRound
<1>1. CASE NextRound(t)
  <2> DEFINE c == [NoKeyCall EXCEPT !.pc = "scan", !.rounds = keyCall[t].rounds - 1]
  <2>1. keyCall[t].rounds - 1 \in 0 .. Rounds
    BY <1>0, <1>1, KeyAssumption DEF NextRound, KeyCalls
  <2>2. c \in KeyCalls /\ c.pc = "scan" /\ c.i = 0 /\ c.called = 0
    BY <2>1, IdleCall, Zenon DEF KeyCalls
  <2>3. keyCall' = [keyCall EXCEPT ![t] = c]
    BY <1>1, Zenon DEF EndRound
  <2>4. keyCall'[t] = c
    BY <1>0, <2>3, Zenon
  <2> HIDE DEF c
  <2>5. \A k \in Key : ~(k < 0)
    BY DEF Key
  <2>6. CallKnown(t)' /\ ScanKnown(t)'
    BY <2>2, <2>4, <2>5 DEF CallKnown, ScanKnown
  <2> QED
    BY <1>0, <2>2, <2>3, <2>6, CallStep, Zenon
<1>2. CASE ~NextRound(t)
  <2> DEFINE c == [keyCall[t] EXCEPT !.pc = "done"]
  <2>1. c \in KeyCalls /\ c.pc = "done" /\ c.rounds = keyCall[t].rounds
    BY <1>0, Zenon DEF KeyCalls
  <2>2. keyCall' = [keyCall EXCEPT ![t] = c]
    BY <1>0, <1>2, Zenon DEF EndRound
  <2>3. keyCall'[t] = c
    BY <1>0, <2>2, Zenon
  <2> HIDE DEF c
  <2>4. keyCall[t].rounds > 1 => \A k \in Key : Clean(t, k)
    <3>1. keyCall[t].rounds > 1 => keyCall[t].called = 0
      BY <1>2, Zenon DEF NextRound
    <3>2. \A k \in Key : k < KeyCount
      BY <1>0 DEF Key
    <3> QED
      BY <1>0, <3>1, <3>2, Zenon DEF KeyInv, Known, ScanKnown
  <2>5. \A k \in Key : Clean(t, k)' <=> Clean(t, k)
    BY <1>0, Zenon DEF Clean, InUse, GetSpecificValue, GetSpecificMatches
  <2>6. CallKnown(t)' /\ ScanKnown(t)'
    BY <2>1, <2>3, <2>4, <2>5, Zenon DEF CallKnown, ScanKnown
  <2> QED
    BY <1>0, <2>1, <2>2, <2>6, CallStep, Zenon
<1> QED
  BY <1>1, <1>2, Zenon

LEMMA NewThreadStep ==
    ASSUME KeyInv, NEW t \in Thread, NewThread(t)
    PROVE  KeyInv'
<1>0. /\ keyCall \in [Thread -> KeyCalls] /\ keyCall[t].pc = "done" /\ seq \in [Key -> Nat]
      /\ key_data \in [Thread -> [Key -> [seq : Nat, data : Data]]]
      /\ key_data' = [key_data EXCEPT ![t] = [k \in Key |-> NoData]]
      /\ keyCall' = [keyCall EXCEPT ![t] = NoKeyCall] /\ UNCHANGED <<seq, key_destructor, live>>
  BY Zenon DEF KeyInv, KeyTypeOK, NewThread, Return
<1>1. NoKeyCall \in KeyCalls /\ NoKeyCall.pc = "idle" /\ keyCall'[t] = NoKeyCall
  BY <1>0, IdleCall, Zenon
<1>2. /\ NoData \in [seq : Nat, data : Data] /\ NoData.seq = 0 /\ NoData.data = Null
  BY Zenon DEF NoData, Data
<1>3. /\ key_data' \in [Thread -> [Key -> [seq : Nat, data : Data]]]
      /\ \A u \in Thread : u # t => key_data'[u] = key_data[u]
      /\ \A k \in Key : key_data'[t][k] = NoData
  BY <1>0, <1>2, Zenon
<1>4. DataKnown(t)'
  BY <1>0, <1>2, <1>3 DEF DataKnown
<1>5. CallKnown(t)' /\ ScanKnown(t)'
  BY <1>1, Zenon DEF CallKnown, ScanKnown
<1> QED
  BY <1>0, <1>1, <1>3, <1>4, <1>5, LocalStep, Zenon DEF Known

\* Data of a key in use is stored under its sequence number.
LEMMA StoreKnown ==
    ASSUME KeyInv, NEW t \in Thread, NEW k \in Key, InUse(k), NEW d \in Specific(k),
           key_data' = [key_data EXCEPT ![t][k] = d],
           UNCHANGED <<seq, key_destructor, live>>
    PROVE  /\ key_data' \in [Thread -> [Key -> [seq : Nat, data : Data]]]
           /\ \A u \in Thread : u # t => key_data'[u] = key_data[u]
           /\ DataKnown(t)'
<1>0. /\ key_data \in [Thread -> [Key -> [seq : Nat, data : Data]]]
      /\ seq[k] \in Nat /\ live[k] \in MaybeDestructor
  BY Zenon DEF KeyInv, KeyTypeOK, InUse
<1>1. /\ d \in [seq : Nat, data : Data] /\ d.seq = seq[k]
      /\ d.data # Null => d.data.of = live[k]
  <2>1. [of |-> live[k]] \in Data /\ Null \in Data
    BY <1>0, Zenon DEF Data
  <2>2. PICK x \in {Null, [of |-> live[k]]} : d = [seq |-> seq[k], data |-> x]
    BY Zenon DEF Specific
  <2> QED
    BY <1>0, <2>1, <2>2
<1>2. /\ key_data' \in [Thread -> [Key -> [seq : Nat, data : Data]]]
      /\ \A u \in Thread : u # t => key_data'[u] = key_data[u]
      /\ key_data'[t][k] = d /\ \A j \in Key : j # k => key_data'[t][j] = key_data[t][j]
  BY <1>0, <1>1, Zenon
<1>3. DataKnown(t)'
  <2> SUFFICES ASSUME NEW j \in Key
               PROVE  /\ key_data'[t][j].seq <= seq[j]
                      /\ key_data'[t][j].seq = seq[j] /\ key_data'[t][j].data # Null
                           => InUse(j) /\ key_data'[t][j].data.of = live[j]
    BY Zenon DEF DataKnown, InUse
  <2>1. CASE j = k
    BY <1>0, <1>1, <1>2, <2>1
  <2>2. CASE j # k
    BY <1>2, <2>2, Zenon DEF KeyInv, Known, DataKnown
  <2> QED
    BY <2>1, <2>2, Zenon
<1> QED
  BY <1>2, <1>3, Zenon

\* pthread_setspecific and pthread_getspecific.
LEMMA SpecificSteps ==
    ASSUME KeyInv, NEW t \in Thread, SetSpecific(t) \/ GetSpecific(t)
    PROVE  KeyInv'
<1>0. /\ keyCall \in [Thread -> KeyCalls] /\ keyCall[t] \in KeyCalls /\ keyCall[t].pc = "idle"
      /\ UNCHANGED <<seq, key_destructor, live, keyCall>> /\ keyCall' = [keyCall EXCEPT ![t] = keyCall[t]]
      /\ key_data \in [Thread -> [Key -> [seq : Nat, data : Data]]]
  BY Zenon DEF KeyInv, KeyTypeOK, SetSpecific, GetSpecific
<1>1. CallKnown(t)' /\ ScanKnown(t)'
  BY <1>0, Zenon DEF KeyInv, Known, CallKnown, ScanKnown
<1>2. /\ key_data' \in [Thread -> [Key -> [seq : Nat, data : Data]]]
      /\ \A u \in Thread : u # t => key_data'[u] = key_data[u]
      /\ DataKnown(t)'
  <2>1. CASE SetSpecific(t)
    <3>1. PICK k \in Key : InUse(k) /\ \E d \in Specific(k) : key_data' = [key_data EXCEPT ![t][k] = d]
      BY <2>1, Zenon DEF SetSpecific
    <3>2. PICK d \in Specific(k) : key_data' = [key_data EXCEPT ![t][k] = d]
      BY <3>1, Zenon
    <3> QED
      BY <1>0, <3>1, <3>2, StoreKnown, Zenon
  <2>2. CASE GetSpecific(t)
    <3>1. PICK k \in Key : key_data' = [key_data EXCEPT ![t][k].data = Null]
      BY <2>2, Zenon DEF GetSpecific
    <3>2. /\ key_data' \in [Thread -> [Key -> [seq : Nat, data : Data]]]
          /\ \A u \in Thread : u # t => key_data'[u] = key_data[u]
          /\ \A j \in Key : /\ key_data'[t][j].seq = key_data[t][j].seq
                            /\ key_data'[t][j].data \in {key_data[t][j].data, Null}
      BY <1>0, <3>1 DEF Data
    <3>3. DataKnown(t)'
      BY <1>0, <3>2 DEF KeyInv, Known, DataKnown, InUse
    <3> QED
      BY <3>2, <3>3, Zenon
  <2> QED
    BY <2>1, <2>2, Zenon
<1> QED
  BY <1>0, <1>1, <1>2, LocalStep, Zenon DEF Known

\* The destructor runs, and the scan of this round has called one more.
LEMMA DestructStep ==
    ASSUME KeyInv, NEW t \in Thread, Destruct(t)
    PROVE  KeyInv'
<1>0. /\ keyCall \in [Thread -> KeyCalls] /\ keyCall[t] \in KeyCalls /\ keyCall[t].pc = "call"
      /\ UNCHANGED <<seq, key_destructor, live>> /\ KeyCount \in Nat
  BY KeyAssumption, Zenon DEF KeyInv, KeyTypeOK, Destruct
<1>1. /\ keyCall[t].i + 1 \in 0 .. KeyCount /\ keyCall[t].called + 1 \in 0 .. KeyCount
      /\ keyCall[t].called + 1 <= keyCall[t].i + 1 /\ keyCall[t].called + 1 # 0 /\ Null \in Data
  <2>1. keyCall[t].i \in Key /\ keyCall[t].called <= keyCall[t].i
    BY <1>0, Zenon DEF KeyInv, Known, CallKnown
  <2> QED
    BY <1>0, <2>1 DEF KeyCalls, Key, Data
<1> DEFINE c == [keyCall[t] EXCEPT !.pc = "scan", !.i = keyCall[t].i + 1,
                                !.called = keyCall[t].called + 1, !.data = Null]
<1>2. c \in KeyCalls /\ c.pc = "scan" /\ c.i = keyCall[t].i + 1 /\ c.called = keyCall[t].called + 1
  BY <1>0, <1>1, Zenon DEF KeyCalls
<1>3. keyCall' = [keyCall EXCEPT ![t] = c]
  BY <1>0, Zenon DEF Destruct
<1>4. keyCall'[t] = c
  BY <1>0, <1>3, Zenon
<1> HIDE DEF c
<1>5. CallKnown(t)' /\ ScanKnown(t)'
  BY <1>1, <1>2, <1>4, Zenon DEF CallKnown, ScanKnown
<1>6. /\ key_data' \in [Thread -> [Key -> [seq : Nat, data : Data]]]
      /\ \A u \in Thread : u # t => key_data'[u] = key_data[u]
      /\ DataKnown(t)'
  <2>1. CASE UNCHANGED key_data
    BY <1>0, <2>1, Zenon DEF KeyInv, KeyTypeOK, Known, DataKnown, InUse
  <2>2. CASE ~UNCHANGED key_data
    <3>1. PICK k \in Key : InUse(k) /\ \E d \in Specific(k) : key_data' = [key_data EXCEPT ![t][k] = d]
      BY <2>2, Zenon DEF Destruct
    <3>2. PICK d \in Specific(k) : key_data' = [key_data EXCEPT ![t][k] = d]
      BY <3>1, Zenon
    <3> QED
      BY <1>0, <3>1, <3>2, StoreKnown, Zenon
  <2> QED
    BY <2>1, <2>2, Zenon
<1> QED
  BY <1>0, <1>2, <1>3, <1>5, <1>6, LocalStep, Zenon DEF Known

\* A step of thread t on one slot.
LEMMA SlotChange ==
    ASSUME KeyInv, NEW t \in Thread, NEW c \in KeyCalls, keyCall' = [keyCall EXCEPT ![t] = c],
           UNCHANGED key_data, KeyTypeOK', \A k \in Key : SlotStep(k), Slots', CallKnown(t)',
           c.pc \in {"idle", "store"}
    PROVE  KeyInv'
<1>1. keyCall'[t] = c /\ \A u \in Thread : u # t => keyCall'[u] = keyCall[u]
  BY Zenon DEF KeyInv, KeyTypeOK
<1>2. DataKnown(t)'
  BY SlotData, Zenon
<1>3. ScanKnown(t)'
  BY <1>1, Zenon DEF ScanKnown
<1>4. ASSUME NEW u \in Thread, u # t PROVE Known(u)'
  BY <1>1, <1>4, OthersKnow, Zenon
<1> QED
  BY <1>2, <1>3, <1>4, Zenon DEF KeyInv, Known

\* The exchange of pthread_key_create claims a slot that nobody has.
LEMMA ClaimStep ==
    ASSUME KeyInv, NEW t \in Thread, CreateClaim(t)
    PROVE  KeyInv'
<1> DEFINE i == keyCall[t].i
<1>1. CASE UNCHANGED seq
  BY <1>1, BeginSteps, Zenon
<1>2. CASE ~UNCHANGED seq
  <2>1. /\ keyCall[t].pc = "create" /\ i < KeyCount /\ ~SeqOfKeyInUse(seq[i])
        /\ seq' = [seq EXCEPT ![i] = seq[i] + 1]
        /\ keyCall' = [keyCall EXCEPT ![t].pc = "store"]
        /\ UNCHANGED <<key_destructor, live, key_data>>
    BY <1>2, Zenon DEF CreateClaim
  <2>2. keyCall \in [Thread -> KeyCalls] /\ keyCall[t] \in KeyCalls /\ seq \in [Key -> Nat] /\ KeyCount \in Nat
    BY KeyAssumption, Zenon DEF KeyInv, KeyTypeOK
  <2>3. i \in Key /\ seq[i] \in Nat
    BY <2>1, <2>2 DEF Key, KeyCalls
  <2> DEFINE c == [keyCall[t] EXCEPT !.pc = "store"]
  <2>4. c \in KeyCalls /\ c.pc = "store" /\ c.i = i
    BY <2>2, Zenon DEF KeyCalls
  <2>5. keyCall' = [keyCall EXCEPT ![t] = c]
    BY <2>1, <2>2, Zenon
  <2>6. keyCall'[t] = c /\ \A u \in Thread : u # t => keyCall'[u] = keyCall[u]
    BY <2>2, <2>5, Zenon
  <2> HIDE DEF c
  <2>7. /\ seq' \in [Key -> Nat] /\ seq'[i] = seq[i] + 1
        /\ \A k \in Key : k # i => seq'[k] = seq[k]
    BY <2>1, <2>2, <2>3
  <2>8. SeqOfKeyInUse(seq'[i]) /\ ~InUse(i)
    BY <2>1, <2>3, <2>7, KeyParity DEF KeyInv, Slots
  <2>9. \A k \in Key : SlotStep(k)
    BY <2>1, <2>7, Zenon DEF SlotStep
  <2>10. KeyTypeOK'
    BY <2>1, <2>2, <2>4, <2>5, <2>7, ZenonT(30) DEF KeyInv, KeyTypeOK
  <2>11. CallKnown(t)'
    BY <2>3, <2>4, <2>6, Zenon DEF CallKnown
  <2>12. \A u \in Thread : u # t /\ keyCall[u].pc = "store" => keyCall[u].i \in Key /\ keyCall[u].i # i
    BY <2>1, Zenon DEF KeyInv, Slots, Known, CallKnown
  <2>13. Slots'
    <3>1. \A k \in Key : InUse(k)' => SeqOfKeyInUse(seq'[k]) /\ key_destructor'[k] = live'[k]
      BY <2>1, <2>7, <2>8, Zenon DEF KeyInv, Slots, InUse
    <3>2. \A u \in Thread :
             keyCall'[u].pc = "store" =>
                SeqOfKeyInUse(seq'[keyCall'[u].i]) /\ live'[keyCall'[u].i] = "none"
      BY <2>1, <2>4, <2>6, <2>7, <2>8, <2>12 DEF KeyInv, Slots, InUse
    <3>3. \A u, v \in Thread :
             keyCall'[u].pc = "store" /\ keyCall'[v].pc = "store" /\ keyCall'[u].i = keyCall'[v].i => u = v
      BY <2>4, <2>6, <2>12 DEF KeyInv, Slots
    <3>4. ASSUME NEW k \in Key, SeqOfKeyInUse(seq'[k]), ~InUse(k)'
          PROVE  \E u \in Thread : keyCall'[u].pc = "store" /\ keyCall'[u].i = k
      <4>1. CASE k = i
        BY <2>4, <2>6, <4>1, Zenon
      <4>2. CASE k # i
        <5>1. PICK u \in Thread : keyCall[u].pc = "store" /\ keyCall[u].i = k
          BY <2>1, <2>7, <3>4, <4>2, Zenon DEF KeyInv, Slots, InUse
        <5> QED
          BY <2>1, <2>6, <5>1, Zenon
      <4> QED
        BY <4>1, <4>2, Zenon
    <3> QED
      BY <3>1, <3>2, <3>3, <3>4, Zenon DEF Slots, InUse
  <2> QED
    BY <2>1, <2>4, <2>5, <2>9, <2>10, <2>11, <2>13, SlotChange, Zenon
<1> QED
  BY <1>1, <1>2, Zenon

\* The creator of a slot is the only one to store its destructor.
LEMMA StoreStep ==
    ASSUME KeyInv, NEW t \in Thread, CreateStore(t)
    PROVE  KeyInv'
<1> DEFINE i == keyCall[t].i
           d == keyCall[t].destructor
<1>1. /\ keyCall[t].pc = "store" /\ keyCall' = [keyCall EXCEPT ![t] = NoKeyCall]
      /\ key_destructor' = [key_destructor EXCEPT ![i] = d] /\ live' = [live EXCEPT ![i] = d]
      /\ UNCHANGED <<seq, key_data>>
  BY Zenon DEF CreateStore, Return
<1>2. /\ keyCall \in [Thread -> KeyCalls] /\ keyCall[t] \in KeyCalls
      /\ key_destructor \in [Key -> MaybeDestructor]
      /\ live \in [Key -> MaybeDestructor \cup {"none"}]
  BY Zenon DEF KeyInv, KeyTypeOK
<1>3. i \in Key /\ SeqOfKeyInUse(seq[i]) /\ ~InUse(i)
  BY <1>1, Zenon DEF KeyInv, Known, CallKnown, Slots
<1>4. d \in MaybeDestructor /\ d # "none"
  BY <1>2, KeyAssumption, Zenon DEF KeyCalls, MaybeDestructor
<1>5. NoKeyCall \in KeyCalls /\ NoKeyCall.pc = "idle"
  BY IdleCall, Zenon
<1>6. keyCall'[t] = NoKeyCall /\ \A u \in Thread : u # t => keyCall'[u] = keyCall[u]
  BY <1>1, <1>2, Zenon
<1>7. /\ key_destructor' \in [Key -> MaybeDestructor] /\ live' \in [Key -> MaybeDestructor \cup {"none"}]
      /\ key_destructor'[i] = d /\ live'[i] = d
      /\ \A k \in Key : k # i => key_destructor'[k] = key_destructor[k] /\ live'[k] = live[k]
  BY <1>1, <1>2, <1>3, <1>4, Zenon
<1>8. \A k \in Key : SlotStep(k)
  BY <1>1, <1>3, <1>7, Zenon DEF SlotStep
<1>9. KeyTypeOK'
  BY <1>1, <1>5, <1>7, Zenon DEF KeyInv, KeyTypeOK
<1>10. CallKnown(t)'
  BY <1>5, <1>6, Zenon DEF CallKnown
<1>11. \A u \in Thread : u # t /\ keyCall[u].pc = "store" => keyCall[u].i \in Key /\ keyCall[u].i # i
  BY <1>1, Zenon DEF KeyInv, Slots, Known, CallKnown
<1>12. Slots'
  <2>1. \A k \in Key : InUse(k)' => SeqOfKeyInUse(seq'[k]) /\ key_destructor'[k] = live'[k]
    BY <1>1, <1>3, <1>7, ZenonT(30) DEF KeyInv, Slots, InUse
  <2>2. \A u \in Thread :
           keyCall'[u].pc = "store" =>
              SeqOfKeyInUse(seq'[keyCall'[u].i]) /\ live'[keyCall'[u].i] = "none"
    BY <1>1, <1>5, <1>6, <1>7, <1>11 DEF KeyInv, Slots, InUse
  <2>3. \A u, v \in Thread :
           keyCall'[u].pc = "store" /\ keyCall'[v].pc = "store" /\ keyCall'[u].i = keyCall'[v].i => u = v
    BY <1>5, <1>6 DEF KeyInv, Slots
  <2>4. ASSUME NEW k \in Key, SeqOfKeyInUse(seq'[k]), ~InUse(k)'
        PROVE  \E u \in Thread : keyCall'[u].pc = "store" /\ keyCall'[u].i = k
    <3>1. k # i /\ ~InUse(k)
      BY <1>4, <1>7, <2>4, Zenon DEF InUse
    <3>2. PICK u \in Thread : keyCall[u].pc = "store" /\ keyCall[u].i = k
      BY <1>1, <2>4, <3>1, Zenon DEF KeyInv, Slots
    <3> QED
      BY <1>6, <3>1, <3>2, Zenon
  <2> QED
    BY <2>1, <2>2, <2>3, <2>4, Zenon DEF Slots, InUse
<1> QED
  BY <1>1, <1>5, <1>8, <1>9, <1>10, <1>12, SlotChange, Zenon

\* The exchange of pthread_key_delete frees a slot once, however many threads
\* delete its key.
LEMMA DeleteStep ==
    ASSUME KeyInv, NEW t \in Thread, DeleteExchange(t)
    PROVE  KeyInv'
<1> DEFINE i == keyCall[t].i
<1>1. /\ keyCall[t].pc = "delete" /\ keyCall' = [keyCall EXCEPT ![t] = NoKeyCall]
      /\ UNCHANGED <<key_destructor, key_data>>
  BY Zenon DEF DeleteExchange, Return
<1>2. /\ keyCall \in [Thread -> KeyCalls] /\ seq \in [Key -> Nat]
      /\ live \in [Key -> MaybeDestructor \cup {"none"}]
  BY Zenon DEF KeyInv, KeyTypeOK
<1>3. i \in Key /\ (seq[i] = keyCall[t].seq => InUse(i))
  BY <1>1, Zenon DEF KeyInv, Known, CallKnown
<1>4. NoKeyCall \in KeyCalls /\ NoKeyCall.pc = "idle"
  BY IdleCall, Zenon
<1>5. keyCall'[t] = NoKeyCall /\ \A u \in Thread : u # t => keyCall'[u] = keyCall[u]
  BY <1>1, <1>2, Zenon
<1>6. CallKnown(t)' /\ ScanKnown(t)'
  BY <1>4, <1>5, Zenon DEF CallKnown, ScanKnown
<1>7. CASE seq[i] # keyCall[t].seq
  <2>1. UNCHANGED <<seq, live>>
    BY <1>7, Zenon DEF DeleteExchange
  <2> QED
    BY <1>1, <1>4, <1>6, <2>1, CallStep, Zenon
<1>8. CASE seq[i] = keyCall[t].seq
  <2>1. seq' = [seq EXCEPT ![i] = seq[i] + 1] /\ live' = [live EXCEPT ![i] = "none"]
    BY <1>8, Zenon DEF DeleteExchange
  <2>2. /\ seq' \in [Key -> Nat] /\ live' \in [Key -> MaybeDestructor \cup {"none"}]
        /\ seq'[i] = seq[i] + 1 /\ live'[i] = "none"
        /\ \A k \in Key : k # i => seq'[k] = seq[k] /\ live'[k] = live[k]
    BY <1>2, <1>3, <2>1
  <2>3. ~SeqOfKeyInUse(seq'[i])
    BY <1>2, <1>3, <1>8, <2>2, KeyParity DEF KeyInv, Slots
  <2>4. \A k \in Key : SlotStep(k)
    BY <1>1, <2>2, Zenon DEF SlotStep
  <2>5. KeyTypeOK'
    BY <1>1, <1>4, <2>2, Zenon DEF KeyInv, KeyTypeOK
  <2>6. \A u \in Thread : keyCall[u].pc = "store" => keyCall[u].i \in Key /\ keyCall[u].i # i
    BY <1>3, <1>8, Zenon DEF KeyInv, Slots, Known, CallKnown
  <2>7. Slots'
    <3>1. \A k \in Key : InUse(k)' => SeqOfKeyInUse(seq'[k]) /\ key_destructor'[k] = live'[k]
      BY <1>1, <2>2, ZenonT(30) DEF KeyInv, Slots, InUse
    <3>2. \A u \in Thread :
             keyCall'[u].pc = "store" =>
                SeqOfKeyInUse(seq'[keyCall'[u].i]) /\ live'[keyCall'[u].i] = "none"
      <4>1. \A u \in Thread : keyCall'[u].pc = "store" => keyCall'[u] = keyCall[u] /\ keyCall[u].pc = "store"
        BY <1>4, <1>5, Zenon
      <4>2. \A u \in Thread :
               keyCall[u].pc = "store" =>
                  SeqOfKeyInUse(seq[keyCall[u].i]) /\ live[keyCall[u].i] = "none"
        BY Zenon DEF KeyInv, Slots, InUse
      <4> QED
        BY <2>2, <2>6, <4>1, <4>2
    <3>3. \A u, v \in Thread :
             keyCall'[u].pc = "store" /\ keyCall'[v].pc = "store" /\ keyCall'[u].i = keyCall'[v].i => u = v
      BY <1>4, <1>5 DEF KeyInv, Slots
    <3>4. ASSUME NEW k \in Key, SeqOfKeyInUse(seq'[k]), ~InUse(k)'
          PROVE  \E u \in Thread : keyCall'[u].pc = "store" /\ keyCall'[u].i = k
      <4>1. k # i
        BY <2>3, <3>4, Zenon
      <4>2. PICK u \in Thread : keyCall[u].pc = "store" /\ keyCall[u].i = k
        BY <2>2, <3>4, <4>1, Zenon DEF KeyInv, Slots, InUse
      <4> QED
        BY <1>1, <1>5, <4>2, Zenon
    <3> QED
      BY <3>1, <3>2, <3>3, <3>4, Zenon DEF Slots, InUse
  <2> QED
    BY <1>1, <1>4, <1>6, <2>4, <2>5, <2>7, SlotChange, Zenon
<1> QED
  BY <1>7, <1>8, Zenon

LEMMA KeyNextInv == KeyInv /\ [KeyNext]_keyVars => KeyInv'
<1> SUFFICES ASSUME KeyInv, [KeyNext]_keyVars PROVE KeyInv'
  BY Zenon
<1>1. CASE UNCHANGED keyVars
  <2>1. KeyTypeOK' /\ Slots'
    BY <1>1, Zenon DEF keyVars, KeyInv, KeyTypeOK, Slots, InUse
  <2>2. ASSUME NEW u \in Thread PROVE Known(u)'
    BY <1>1, OthersKnow, Zenon DEF keyVars, SlotStep
  <2> QED
    BY <2>1, <2>2, Zenon DEF KeyInv
<1>2. CASE KeyNext
  BY <1>2, BeginSteps, ScanSteps, RecheckStep, EndRoundStep, NewThreadStep, SpecificSteps,
     DestructStep, ClaimStep, StoreStep, DeleteStep, Zenon DEF KeyNext
<1> QED
  BY <1>1, <1>2, Zenon

\* key_map, the threads' data and the calls in flight always agree.
THEOREM KeyInvariant == KeySpec => []KeyInv
  BY KeyInitInv, KeyNextInv, PTL DEF KeySpec

\* pthread_getspecific never returns data of an earlier key in the same slot.
THEOREM KeyNoStaleData == KeySpec => []NoStaleData
<1>1. KeyInv => NoStaleData
  BY Zenon DEF KeyInv, Known, DataKnown, NoStaleData, GetSpecificValue, GetSpecificMatches
<1> QED
  BY <1>1, KeyInvariant, PTL

\* pthread_key_clean_all calls on data the destructor of its own key only.
THEOREM KeyRightDestructor == KeySpec => []RightDestructor
<1>1. KeyInv => RightDestructor
  BY Zenon DEF KeyInv, Known, CallKnown, RightDestructor
<1> QED
  BY <1>1, KeyInvariant, PTL

\* pthread_key_clean_all stops early only when nothing is left to destroy.
THEOREM KeyCleanIsComplete == KeySpec => []CleanIsComplete
<1>1. KeyInv => CleanIsComplete
  BY Zenon DEF KeyInv, Known, ScanKnown, Clean, CleanIsComplete
<1> QED
  BY <1>1, KeyInvariant, PTL

-----------------------------------------------------------------------------
Results == {NoResult} \cup
           [p : Property, value : {Absent} \cup [len : Nat, head : Value \cup {Absent},
                                                 tail : Value \cup {Absent}]]

Types ==
    /\ known \subseteq Property
    /\ serial \in [Property -> Serials]
    /\ info \in [Property -> Halves] /\ backup \in Halves
    /\ area \in Nat /\ update \in Updates
    /\ call \in [Reader -> Calls]
    /\ result \in [Reader -> Results]

\* The dirty bit is set just while the writer changes the value, and then the
\* old one is in the backup area.
WriterKnown ==
    /\ update.pc \notin {"idle", "area", "wakeArea"} => update.p \in known
    /\ update.pc \in {"backupHead", "backupTail", "dirty", "writeHead", "writeTail", "serial"}
          => update.value \in Value
    /\ \A p \in Property :
          Dirty(serial[p]) <=> update.pc \in {"writeHead", "writeTail", "serial"} /\ update.p = p
    /\ update.pc \in {"backupTail", "dirty"} => backup.head = info[update.p].head
    /\ update.pc = "dirty" => backup.tail = info[update.p].tail
    /\ update.pc \in {"writeTail", "serial"} => info[update.p].head = update.value
    /\ update.pc = "serial" => info[update.p].tail = update.value

\* Serials go up by two with each update, so none comes round.
SerialsBounded ==
    /\ update.pc \notin {"idle", "wakeArea"} => area < MaxSets
    /\ \A p \in Property :
          serial[p].count <= 2 * area + (CASE update.pc \in {"writeHead", "writeTail", "serial"} -> 1
                                           [] update.pc \in {"wake", "area"} -> 2
                                           [] OTHER -> 0)

Reading == {"find", "load", "head", "tail", "check"}

\* While the serial is the one a reader took, what it has copied is what is
\* there; a serial once left does not come back.
ReaderKnown(r) ==
    LET c == call[r]
    IN /\ c.pc \in Reading => result[r] = NoResult /\ c.p \in Property
       /\ c.pc \in Reading \ {"find"} => c.p \in known
       /\ c.pc \in {"head", "tail", "check"} => c.old.count <= serial[c.p].count
       /\ c.pc \in {"tail", "check"} /\ serial[c.p] = c.old => c.copy.head = Source(r).head
       /\ c.pc = "check" /\ serial[c.p] = c.old => c.copy.tail = Source(r).tail

Inv == Types /\ WriterKnown /\ SerialsBounded /\ \A r \in Reader : ReaderKnown(r)

\* Nothing has been added.
LEMMA InitInv == Init => Inv
<1> SUFFICES ASSUME Init PROVE Inv
  BY Zenon
<1> USE PropertiesAssumption
<1>1. NoSerial \in Serials /\ NoHalves \in Halves /\ ~Dirty(NoSerial) /\ NoSerial.count = 0
  BY DEF NoSerial, Serials, NoHalves, Halves, Dirty
<1>2. Idle \in Calls /\ Idle.pc = "idle" /\ NoUpdate \in Updates /\ NoUpdate.pc = "idle"
  BY <1>1, Zenon DEF Idle, Calls, NoUpdate, Updates
<1>3. Types
  BY <1>1, <1>2, Zenon DEF Init, Types, Results
<1>4. WriterKnown /\ SerialsBounded
  BY <1>1, <1>2 DEF Init, WriterKnown, SerialsBounded
<1>5. \A r \in Reader : ReaderKnown(r)
  BY <1>2, Zenon DEF Init, ReaderKnown, Reading
<1> QED
  BY <1>3, <1>4, <1>5, Zenon DEF Inv

\* What a step of the writer may do to property p and its value: where a
\* reader with the present serial copies from stays as it is, or the serial
\* moves on, or the property is new.
PropertyStep(p) ==
    \/ /\ serial'[p] = serial[p]
       /\ IF Dirty(serial[p]) THEN backup' = backup ELSE info'[p] = info[p]
    \/ serial'[p].count > serial[p].count
    \/ p \notin known

\* Readers still know what they knew after such a step, woken or not.
LEMMA ReadersKnow ==
    ASSUME Inv, \A p \in Property : PropertyStep(p), Types', known \subseteq known',
           UNCHANGED result, NEW r \in Reader,
           call'[r] = call[r] \/ call'[r].pc = "reload"
    PROVE  ReaderKnown(r)'
<1>1. ReaderKnown(r)
  BY Zenon DEF Inv
<1>2. CASE call'[r].pc = "reload"
  BY <1>2, Zenon DEF ReaderKnown, Reading
<1>3. CASE call'[r] = call[r] /\ call[r].pc \notin {"head", "tail", "check"}
  BY <1>1, <1>3, Zenon DEF ReaderKnown, Reading
<1>4. CASE call'[r] = call[r] /\ call[r].pc \in {"head", "tail", "check"}
  <2> DEFINE p == call[r].p
             old == call[r].old
  <2>1. /\ p \in Property /\ p \in known /\ PropertyStep(p) /\ old.count <= serial[p].count
        /\ result[r] = NoResult
    BY <1>1, <1>4, Zenon DEF ReaderKnown, Reading
  <2>2. old.count \in Nat /\ serial[p].count \in Nat /\ serial'[p].count \in Nat
    BY <2>1, PropertiesAssumption, SMTT(30) DEF Inv, Types, Serials, Calls
  <2>3. old.count <= serial'[p].count
    BY <2>1, <2>2, SMTT(30) DEF PropertyStep
  <2>4. ASSUME serial'[p] = old PROVE serial[p] = old /\ Source(r)' = Source(r)
    <3>1. serial[p] = old
      BY <2>1, <2>2, <2>4 DEF PropertyStep
    <3> QED
      BY <1>4, <2>1, <2>2, <2>4, <3>1, SMTT(30) DEF PropertyStep, Source
  <2> QED
    BY <1>1, <1>4, <2>1, <2>3, <2>4, Zenon DEF ReaderKnown, Reading
<1> QED
  BY <1>2, <1>3, <1>4, Zenon

LEMMA SerialCount == \A s \in Serials : s.count \in Nat
  BY PropertiesAssumption DEF Serials

\* A count below the modulus is its own remainder.
LEMMA SmallMod ==
    ASSUME NEW n \in Nat, NEW m \in Nat, n < m
    PROVE  n % m = n
<1>1. n % m \in 0 .. m - 1 /\ n = m * (n \div m) + (n % m)
  OBVIOUS
<1>2. n \div m = 0
  BY <1>1
<1> QED
  BY <1>1, <1>2

\* The dirty bit alternates.
LEMMA Parity ==
    \A s, x \in Serials : x.count = s.count + 1 => (Dirty(x) <=> ~Dirty(s))
  BY PropertiesAssumption DEF Serials, Dirty

\* The abstract values: none changes, or that of one property is set.
AbstractVars == <<[p \in Property |-> Current(p)], result>>

LEMMA ValuesKept ==
    ASSUME \A p \in Property : Current(p)' = Current(p), UNCHANGED result
    PROVE  UNCHANGED AbstractVars
  BY Zenon DEF AbstractVars

LEMMA ValueSet ==
    ASSUME NEW p \in Property, NEW v \in Value, UNCHANGED result,
           \A q \in Property : q # p => Current(q)' = Current(q),
           Current(p)' = [len |-> LenOf[v], head |-> v, tail |-> v]
    PROVE  Abstract!Set(p)
<1>1. [q \in Property |-> Current(q)]' =
         [[q \in Property |-> Current(q)] EXCEPT ![p] = [len |-> LenOf[v], head |-> v, tail |-> v]]
  BY Zenon
<1> QED
  BY <1>1, Zenon DEF Abstract!Set

\* What it takes for a step of the writer to keep the invariant.
LEMMA WriterInv ==
    ASSUME Inv, Types', WriterKnown', SerialsBounded',
           \A p \in Property : PropertyStep(p), known \subseteq known', UNCHANGED result,
           \A r \in Reader : call'[r] = call[r] \/ call'[r].pc = "reload"
    PROVE  Inv'
  BY ReadersKnow, Zenon DEF Inv

\* The wakes send sleeping readers back to their loops.
LEMMA WakeCalls ==
    ASSUME Types, NEW w \in {"property", "area"}, Wake(w)
    PROVE  /\ call' \in [Reader -> Calls]
           /\ \A r \in Reader : call'[r] = call[r] \/ call'[r].pc = "reload"
<1>1. \A r \in Reader : /\ call[r] \in Calls /\ [call[r] EXCEPT !.pc = "reload"] \in Calls
                        /\ [call[r] EXCEPT !.pc = "reload"].pc = "reload"
  BY ZenonT(30) DEF Types, Calls
<1> QED
  BY <1>1, Zenon DEF Wake

\* The steps of an update that leave the serials alone: the value that
\* readers see is not touched.
LEMMA CopySteps ==
    ASSUME Inv, BackupHead \/ BackupTail \/ WriteHead \/ WriteTail
    PROVE  Inv' /\ UNCHANGED AbstractVars
<1>0. Types /\ WriterKnown /\ SerialsBounded
  BY Zenon DEF Inv
<1>1. /\ UNCHANGED <<known, serial, area, call, result>>
      /\ update.pc \in {"backupHead", "backupTail", "writeHead", "writeTail"}
  BY Zenon DEF BackupHead, BackupTail, WriteHead, WriteTail
<1>2. update.p \in known /\ update.p \in Property /\ update.value \in Value
  BY <1>0, <1>1, Zenon DEF WriterKnown, Types
<1>3. PICK l \in {"backupTail", "dirty", "writeTail", "serial"} : update' = [update EXCEPT !.pc = l]
  BY Zenon DEF BackupHead, BackupTail, WriteHead, WriteTail, Then
<1>4. update' \in Updates /\ update'.pc = l /\ update'.p = update.p /\ update'.value = update.value
  BY <1>0, <1>3, Zenon DEF Types, Updates
<1>5. info[update.p] \in Halves /\ backup \in Halves
  BY <1>0, <1>2, Zenon DEF Types
<1>6. CASE BackupHead
  <2>1. /\ update.pc = "backupHead" /\ l = "backupTail" /\ UNCHANGED info
        /\ backup' = [backup EXCEPT !.head = info[update.p].head]
    BY <1>0, <1>4, <1>6, Zenon DEF BackupHead, Then, Types, Updates
  <2>2. backup' \in Halves /\ backup'.head = info[update.p].head
    BY <1>5, <2>1, Zenon DEF Halves
  <2>3. \A p \in Property : ~Dirty(serial[p])
    BY <1>0, <2>1, Zenon DEF WriterKnown
  <2>4. Types'
    BY <1>0, <1>1, <1>4, <2>1, <2>2, Zenon DEF Types
  <2>5. WriterKnown'
    BY <1>1, <1>2, <1>4, <2>1, <2>2, <2>3, Zenon DEF WriterKnown
  <2>6. SerialsBounded'
    BY <1>0, <1>1, <1>4, <2>1, Zenon DEF SerialsBounded
  <2>7. \A p \in Property : PropertyStep(p) /\ Current(p)' = Current(p)
    BY <1>1, <2>1, <2>3, Zenon DEF PropertyStep, Current
  <2> QED
    BY <1>1, <2>4, <2>5, <2>6, <2>7, WriterInv, ValuesKept, Zenon
<1>7. CASE BackupTail
  <2>1. /\ update.pc = "backupTail" /\ l = "dirty" /\ UNCHANGED info
        /\ backup' = [backup EXCEPT !.tail = info[update.p].tail]
    BY <1>0, <1>4, <1>7, Zenon DEF BackupTail, Then, Types, Updates
  <2>2. backup' \in Halves /\ backup'.tail = info[update.p].tail /\ backup'.head = backup.head
    BY <1>5, <2>1, Zenon DEF Halves
  <2>3. /\ \A p \in Property : ~Dirty(serial[p])
        /\ backup.head = info[update.p].head
    BY <1>0, <2>1, Zenon DEF WriterKnown
  <2>4. Types'
    BY <1>0, <1>1, <1>4, <2>1, <2>2, Zenon DEF Types
  <2>5. WriterKnown'
    BY <1>1, <1>2, <1>4, <2>1, <2>2, <2>3, Zenon DEF WriterKnown
  <2>6. SerialsBounded'
    BY <1>0, <1>1, <1>4, <2>1, Zenon DEF SerialsBounded
  <2>7. \A p \in Property : PropertyStep(p) /\ Current(p)' = Current(p)
    BY <1>1, <2>1, <2>3, Zenon DEF PropertyStep, Current
  <2> QED
    BY <1>1, <2>4, <2>5, <2>6, <2>7, WriterInv, ValuesKept, Zenon
<1>8. CASE WriteHead \/ WriteTail
  <2>1. /\ \/ update.pc = "writeHead" /\ l = "writeTail"
              /\ info' = [info EXCEPT ![update.p].head = update.value]
           \/ update.pc = "writeTail" /\ l = "serial"
              /\ info' = [info EXCEPT ![update.p].tail = update.value]
        /\ UNCHANGED backup
    BY <1>0, <1>4, <1>8, Zenon DEF WriteHead, WriteTail, Then, Types, Updates
  <2>2. /\ info' \in [Property -> Halves]
        /\ \A p \in Property : p # update.p => info'[p] = info[p]
        /\ l = "writeTail" => info'[update.p].head = update.value
        /\ l = "serial" => info'[update.p].head = info[update.p].head
                           /\ info'[update.p].tail = update.value
    BY <1>0, <1>2, <1>5, <2>1 DEF Types, Halves
  <2>3. \A p \in Property : Dirty(serial[p]) <=> update.p = p
    BY <1>0, <2>1, Zenon DEF WriterKnown
  <2>4. Types'
    BY <1>0, <1>1, <1>4, <2>1, <2>2, Zenon DEF Types
  <2>5. update.pc = "writeTail" => info[update.p].head = update.value
    BY <1>0, Zenon DEF WriterKnown
  <2>6. WriterKnown'
    BY <1>1, <1>2, <1>4, <2>1, <2>2, <2>3, <2>5, Zenon DEF WriterKnown
  <2>7. SerialsBounded'
    BY <1>0, <1>1, <1>4, <2>1, Zenon DEF SerialsBounded
  <2>8. \A p \in Property : PropertyStep(p) /\ Current(p)' = Current(p)
    BY <1>1, <2>1, <2>2, <2>3, Zenon DEF PropertyStep, Current
  <2> QED
    BY <1>1, <2>4, <2>6, <2>7, <2>8, WriterInv, ValuesKept, Zenon
<1> QED
  BY <1>6, <1>7, <1>8, Zenon

\* The beginning of an update, and what follows the new value.
LEMMA OuterSteps ==
    ASSUME Inv, \/ \E p \in Property, v \in Value : Update(p, v)
                \/ WakeProperty \/ BumpArea \/ WakeArea
    PROVE  Inv' /\ UNCHANGED AbstractVars
<1>0. Types /\ WriterKnown /\ SerialsBounded
  BY Zenon DEF Inv
<1>1. UNCHANGED <<known, serial, info, backup, result>>
  BY Zenon DEF Update, WakeProperty, BumpArea, WakeArea
<1>2. /\ NoUpdate \in Updates /\ NoUpdate.pc = "idle"
      /\ [NoUpdate EXCEPT !.pc = "area"] \in Updates /\ [NoUpdate EXCEPT !.pc = "area"].pc = "area"
  BY Zenon DEF NoUpdate, Updates
<1>3. /\ update' \in Updates
      /\ \/ /\ update.pc = "idle" /\ update'.pc = "backupHead" /\ UNCHANGED <<area, call>>
            /\ area < MaxSets /\ update'.p \in known /\ update'.value \in Value
         \/ update.pc = "wake" /\ update'.pc = "area" /\ Wake("property") /\ UNCHANGED area
         \/ update.pc = "area" /\ update'.pc = "wakeArea" /\ area' = area + 1 /\ UNCHANGED call
         \/ update.pc = "wakeArea" /\ update'.pc = "idle" /\ Wake("area") /\ UNCHANGED area
  <2>1. ASSUME NEW p \in Property, NEW v \in Value, Update(p, v)
        PROVE  /\ update' \in Updates /\ update.pc = "idle" /\ update'.pc = "backupHead"
               /\ UNCHANGED <<area, call>> /\ area < MaxSets
               /\ update'.p \in known /\ update'.value \in Value
    BY <2>1, Zenon DEF Update, Updates
  <2>2. CASE WakeProperty
    BY <1>2, <2>2, Zenon DEF WakeProperty
  <2>3. CASE BumpArea
    BY <1>0, <2>3, Zenon DEF BumpArea, Then, Types, Updates
  <2>4. CASE WakeArea
    BY <1>2, <2>4, Zenon DEF WakeArea
  <2> QED
    BY <2>1, <2>2, <2>3, <2>4, Zenon
<1>4. /\ call' \in [Reader -> Calls]
      /\ \A r \in Reader : call'[r] = call[r] \/ call'[r].pc = "reload"
  BY <1>0, <1>3, WakeCalls, Zenon DEF Types
<1>5. area \in Nat /\ area' \in Nat
  BY <1>0, <1>3 DEF Types
<1>6. Types'
  BY <1>0, <1>1, <1>3, <1>4, <1>5, Zenon DEF Types
<1>7. \A p \in Property : ~Dirty(serial[p])
  BY <1>0, <1>3, Zenon DEF WriterKnown
<1>8. WriterKnown'
  BY <1>1, <1>3, <1>7, Zenon DEF WriterKnown
<1>9. SerialsBounded'
  <2>1. \A p \in Property : serial[p].count \in Nat
    BY <1>0, SerialCount, Zenon DEF Types
  <2>2. \A p \in Property : serial[p].count <= 2 * area + (IF update.pc \in {"wake", "area"} THEN 2 ELSE 0)
    BY <1>0, <1>3, Zenon DEF SerialsBounded
  <2>3. update.pc \notin {"idle", "wakeArea"} => area < MaxSets
    BY <1>0, Zenon DEF SerialsBounded
  <2> QED
    BY <1>1, <1>3, <1>5, <2>1, <2>2, <2>3 DEF SerialsBounded
<1>10. \A p \in Property : PropertyStep(p) /\ Current(p)' = Current(p)
  BY <1>1, <1>7, Zenon DEF PropertyStep, Current
<1> QED
  BY <1>1, <1>4, <1>6, <1>8, <1>9, <1>10, WriterInv, ValuesKept, Zenon

\* The dirty bit sends readers to the backup, which has the same value.
LEMMA DirtyStep ==
    ASSUME Inv, StoreDirty
    PROVE  Inv' /\ UNCHANGED AbstractVars
<1> DEFINE p == update.p
<1>0. Types /\ WriterKnown /\ SerialsBounded
  BY Zenon DEF Inv
<1>1. /\ update.pc = "dirty" /\ UNCHANGED <<known, info, backup, area, call, result>>
      /\ serial' = [serial EXCEPT ![p].count = IF Dirty(serial[p]) THEN @ ELSE @ + 1]
      /\ update' = [update EXCEPT !.pc = "writeHead"]
  BY Zenon DEF StoreDirty, Then
<1>2. /\ p \in known /\ p \in Property /\ update.value \in Value
      /\ \A q \in Property : ~Dirty(serial[q])
      /\ backup.head = info[p].head /\ backup.tail = info[p].tail
  BY <1>0, <1>1, Zenon DEF WriterKnown, Types
<1>3. /\ update' \in Updates /\ update'.pc = "writeHead" /\ update'.p = p
      /\ update'.value = update.value
  BY <1>0, <1>1, Zenon DEF Types, Updates
<1>4. /\ serial[p] \in Serials /\ serial[p].count \in Nat /\ area \in Nat
      /\ serial[p].count <= 2 * area /\ area < MaxSets
  BY <1>0, <1>1, <1>2, PropertiesAssumption DEF Types, Serials, SerialsBounded
<1>5. serial[p].count + 1 \in 0 .. SerialMod - 1
  BY <1>4, PropertiesAssumption
<1>6. /\ serial' \in [Property -> Serials] /\ serial'[p].count = serial[p].count + 1
      /\ serial'[p].len = serial[p].len
      /\ \A q \in Property : q # p => serial'[q] = serial[q]
  BY <1>0, <1>1, <1>2, <1>4, <1>5, Zenon DEF Types, Serials
<1>7. Dirty(serial'[p])
  BY <1>2, <1>4, <1>6, Parity, Zenon
<1>8. Types'
  BY <1>0, <1>1, <1>3, <1>6, Zenon DEF Types
<1>9. WriterKnown'
  BY <1>1, <1>2, <1>3, <1>6, <1>7 DEF WriterKnown
<1>10. SerialsBounded'
  <2>1. \A q \in Property : serial[q].count \in Nat /\ serial[q].count <= 2 * area
    BY <1>0, <1>1, PropertiesAssumption DEF Types, Serials, SerialsBounded
  <2>2. \A q \in Property : serial'[q].count <= 2 * area + 1
    BY <1>4, <1>6, <2>1
  <2> QED
    BY <1>1, <1>3, <1>4, <2>2, Zenon DEF SerialsBounded
<1>11. \A q \in Property : PropertyStep(q)
  BY <1>1, <1>4, <1>6 DEF PropertyStep
<1>12. \A q \in Property : Current(q)' = Current(q)
  BY <1>1, <1>2, <1>6, <1>7, Zenon DEF Current, Sized
<1> QED
  BY <1>1, <1>8, <1>9, <1>10, <1>11, <1>12, WriterInv, ValuesKept, Zenon

\* The store of the new serial is the moment at which the value is set.
LEMMA SerialStep ==
    ASSUME Inv, StoreSerial
    PROVE  Inv' /\ \E p \in Property : Abstract!Set(p)
<1> DEFINE p == update.p
           v == update.value
<1>0. Types /\ WriterKnown /\ SerialsBounded
  BY Zenon DEF Inv
<1>1. /\ update.pc = "serial" /\ UNCHANGED <<known, info, backup, area, call, result>>
      /\ serial' = [serial EXCEPT ![p] = [len |-> LenOf[v], count |-> (serial[p].count + 1) % SerialMod]]
      /\ update' = [update EXCEPT !.pc = "wake", !.value = Absent]
  BY Zenon DEF StoreSerial
<1>2. /\ p \in known /\ p \in Property /\ v \in Value /\ LenOf[v] \in Nat
      /\ \A q \in Property : Dirty(serial[q]) <=> q = p
      /\ info[p].head = v /\ info[p].tail = v
  BY <1>0, <1>1, PropertiesAssumption, Zenon DEF WriterKnown, Types
<1>3. update' \in Updates /\ update'.pc = "wake" /\ update'.p = p
  BY <1>0, <1>1, Zenon DEF Types, Updates
<1>4. /\ serial[p] \in Serials /\ serial[p].count \in Nat /\ area \in Nat
      /\ serial[p].count <= 2 * area + 1 /\ area < MaxSets
  BY <1>0, <1>1, <1>2, PropertiesAssumption DEF Types, Serials, SerialsBounded
<1>5. /\ serial[p].count + 1 \in 0 .. SerialMod - 1
      /\ (serial[p].count + 1) % SerialMod = serial[p].count + 1
  <2>1. serial[p].count + 1 \in 0 .. SerialMod - 1
    BY <1>4, PropertiesAssumption
  <2>2. /\ serial[p].count + 1 \in Nat /\ SerialMod \in Nat
        /\ serial[p].count + 1 < SerialMod
    BY <1>4, <2>1, PropertiesAssumption
  <2>3. (serial[p].count + 1) % SerialMod = serial[p].count + 1
    BY ONLY <2>2, SmallMod, Zenon
  <2> QED
    BY <2>1, <2>3, Zenon
<1>6. /\ serial' \in [Property -> Serials] /\ serial'[p].count = serial[p].count + 1
      /\ serial'[p].len = LenOf[v]
      /\ \A q \in Property : q # p => serial'[q] = serial[q]
  BY <1>0, <1>1, <1>2, <1>5, Zenon DEF Types, Serials
<1>7. ~Dirty(serial'[p])
  BY <1>2, <1>4, <1>6, Parity, Zenon
<1>8. Types'
  BY <1>0, <1>1, <1>3, <1>6, Zenon DEF Types
<1>9. WriterKnown'
  BY <1>1, <1>2, <1>3, <1>6, <1>7 DEF WriterKnown
<1>10. SerialsBounded'
  <2>1. \A q \in Property : serial[q].count \in Nat /\ serial[q].count <= 2 * area + 1
    BY <1>0, <1>1, PropertiesAssumption DEF Types, Serials, SerialsBounded
  <2>2. \A q \in Property : serial'[q].count <= 2 * area + 2
    BY <1>4, <1>6, <2>1
  <2> QED
    BY <1>1, <1>3, <1>4, <2>2, Zenon DEF SerialsBounded
<1>11. \A q \in Property : PropertyStep(q)
  BY <1>1, <1>4, <1>6 DEF PropertyStep
<1>12. Inv'
  BY <1>1, <1>8, <1>9, <1>10, <1>11, WriterInv, Zenon
<1>13. \A q \in Property : q # p => Current(q)' = Current(q)
  BY <1>1, <1>6, Zenon DEF Current
<1>14. Current(p)' = [len |-> LenOf[v], head |-> v, tail |-> v]
  BY <1>1, <1>2, <1>6, <1>7 DEF Current, Sized
<1>15. Abstract!Set(p)
  BY <1>1, <1>2, <1>13, <1>14, ValueSet
<1> QED
  BY <1>2, <1>12, <1>15, Zenon

\* A property is added whole.
LEMMA AddStep ==
    ASSUME Inv, NEW p \in Property, NEW v \in Value, Add(p, v)
    PROVE  Inv' /\ Abstract!Set(p)
<1> DEFINE h == [head |-> v, tail |-> v]
           s == [len |-> LenOf[v], count |-> 0]
<1>0. Types /\ WriterKnown /\ SerialsBounded
  BY Zenon DEF Inv
<1>1. /\ update.pc = "idle" /\ area < MaxSets /\ p \notin known
      /\ info' = [info EXCEPT ![p] = h] /\ serial' = [serial EXCEPT ![p] = s]
      /\ known' = known \cup {p} /\ update' = [NoUpdate EXCEPT !.pc = "area"]
      /\ UNCHANGED <<backup, area, call, result>>
  BY Zenon DEF Add
<1>2. h \in Halves /\ h.head = v /\ h.tail = v
  BY Zenon DEF Halves
<1>3. s \in Serials /\ s.len = LenOf[v] /\ s.count = 0 /\ ~Dirty(s)
  BY PropertiesAssumption DEF Serials, Dirty
<1>4. update' \in Updates /\ update'.pc = "area"
  BY <1>1, Zenon DEF NoUpdate, Updates
<1> HIDE DEF h, s
<1>5. /\ info' \in [Property -> Halves] /\ serial' \in [Property -> Serials]
      /\ info'[p] = h /\ serial'[p] = s
      /\ \A q \in Property : q # p => info'[q] = info[q] /\ serial'[q] = serial[q]
  BY <1>0, <1>1, <1>2, <1>3, Zenon DEF Types
<1>6. \A q \in Property : ~Dirty(serial[q])
  BY <1>0, <1>1, Zenon DEF WriterKnown
<1>7. Types'
  BY <1>0, <1>1, <1>4, <1>5, Zenon DEF Types
<1>8. WriterKnown'
  BY <1>3, <1>4, <1>5, <1>6, Zenon DEF WriterKnown
<1>9. SerialsBounded'
  <2>1. \A q \in Property : serial[q].count \in Nat /\ serial[q].count <= 2 * area
    BY <1>0, <1>1, SerialCount DEF Types, SerialsBounded
  <2>2. \A q \in Property : serial'[q].count <= 2 * area + 2
    BY <1>0, <1>3, <1>5, <2>1 DEF Types
  <2> QED
    BY <1>1, <1>4, <2>2, Zenon DEF SerialsBounded
<1>10. \A q \in Property : PropertyStep(q)
  BY <1>1, <1>5, <1>6, Zenon DEF PropertyStep
<1>11. Inv'
  BY <1>1, <1>7, <1>8, <1>9, <1>10, WriterInv, Zenon
<1>12. \A q \in Property : q # p => Current(q)' = Current(q)
  BY <1>1, <1>5, <1>6, Zenon DEF Current
<1>13. Current(p)' = [len |-> LenOf[v], head |-> v, tail |-> v]
  BY <1>1, <1>2, <1>3, <1>5, Zenon DEF Current, Sized
<1> QED
  BY <1>1, <1>11, <1>12, <1>13, ValueSet, Zenon

\* A step of a reader concerns that reader only.
LEMMA ReaderInv ==
    ASSUME Inv, NEW r \in Reader, NEW c \in Calls, call' = [call EXCEPT ![r] = c],
           UNCHANGED writer, result' \in [Reader -> Results],
           \A q \in Reader : q # r => result'[q] = result[q],
           ReaderKnown(r)'
    PROVE  Inv'
<1>1. UNCHANGED <<known, serial, info, backup, area, update>>
  BY Zenon DEF writer
<1>2. \A q \in Reader : q # r => call'[q] = call[q]
  BY Zenon DEF Inv, Types
<1>3. Types' /\ WriterKnown' /\ SerialsBounded'
  BY <1>1, ZenonT(30) DEF Inv, Types, WriterKnown, SerialsBounded
<1>4. ASSUME NEW q \in Reader, q # r PROVE ReaderKnown(q)'
  <2>1. ReaderKnown(q) /\ call'[q] = call[q] /\ result'[q] = result[q]
    BY <1>2, <1>4, Zenon DEF Inv
  <2>2. Source(q)' = Source(q)
    BY <1>1, <2>1 DEF Source
  <2> QED
    BY <1>1, <2>1, <2>2, SMTT(30) DEF ReaderKnown
<1> QED
  BY <1>3, <1>4, Zenon DEF Inv

LEMMA SameValues ==
    ASSUME UNCHANGED writer
    PROVE  \A p \in Property : Current(p)' = Current(p)
  BY Zenon DEF writer, Current

\* A read that ends with the present value of its property.
LEMMA FinishStep ==
    ASSUME Inv, NEW r \in Reader, call[r].pc \in Reading,
           NEW v \in {Absent} \cup [len : Nat, head : Value \cup {Absent}, tail : Value \cup {Absent}],
           v = Current(call[r].p), Finish(r, v)
    PROVE  Inv' /\ Abstract!Read(r, call[r].p) /\ call[r].p \in Property
<1> DEFINE p == call[r].p
           w == [call[r] EXCEPT !.pc = "wait", !.copy = NoHalves,
                                !.old = IF call[r].waitFor = "area" THEN NoSerial ELSE call[r].old]
<1>0. /\ call \in [Reader -> Calls] /\ call[r] \in Calls /\ result \in [Reader -> Results]
      /\ p \in Property /\ result[r] = NoResult
  BY Zenon DEF Inv, Types, ReaderKnown
<1>1. /\ NoSerial \in Serials /\ NoHalves \in Halves
  BY PropertiesAssumption DEF NoSerial, Serials, NoHalves, Halves
<1>2. Idle \in Calls /\ Idle.pc = "idle" /\ w \in Calls /\ w.pc = "wait"
  BY <1>0, <1>1, Zenon DEF Idle, Calls
<1>3. PICK c \in Calls : c.pc \in {"idle", "wait"} /\ call' = [call EXCEPT ![r] = c]
  <2>1. call' = [call EXCEPT ![r] = IF call[r].waitFor = "nothing" \/ (v = Absent /\ call[r].waitFor = "property")
                                      THEN Idle ELSE w]
    BY Zenon DEF Finish
  <2> QED
    BY <1>2, <2>1, Zenon
<1>4. result' = [result EXCEPT ![r] = [p |-> p, value |-> v]] /\ UNCHANGED writer
  BY Zenon DEF Finish
<1>5. [p |-> p, value |-> v] \in Results
  BY <1>0, Zenon DEF Results
<1>6. result' \in [Reader -> Results] /\ \A q \in Reader : q # r => result'[q] = result[q]
  BY <1>0, <1>4, <1>5, Zenon
<1>7. call'[r].pc \in {"idle", "wait"}
  BY <1>0, <1>3, Zenon
<1>8. ReaderKnown(r)'
  BY <1>7, Zenon DEF ReaderKnown, Reading
<1>9. Inv'
  BY <1>3, <1>4, <1>6, <1>8, ReaderInv, Zenon
<1>10. UNCHANGED [q \in Property |-> Current(q)]
  BY <1>4, SameValues, Zenon
<1>11. [q \in Property |-> Current(q)][p] = v
  BY <1>0, Zenon
<1>12. Abstract!Read(r, p)
  BY <1>0, <1>4, <1>10, <1>11, Zenon DEF Abstract!Read
<1> QED
  BY <1>0, <1>9, <1>12, Zenon

\* The steps of a reader outside a read, and its first load of the serial.
LEMMA OutsideSteps ==
    ASSUME Inv, NEW r \in Reader,
           \/ FutexWait(r) \/ Reload(r) \/ SpuriousReturn(r) \/ TimeOut(r)
    PROVE  Inv' /\ UNCHANGED AbstractVars
<1>0. /\ call \in [Reader -> Calls] /\ call[r] \in Calls /\ result \in [Reader -> Results]
      /\ UNCHANGED <<writer, result>>
  BY Zenon DEF Inv, Types, FutexWait, Reload, SpuriousReturn, TimeOut
<1>1. Idle \in Calls /\ Idle.pc = "idle"
  BY PropertiesAssumption DEF Idle, Calls, NoSerial, Serials, NoHalves, Halves
<1>2. \A l \in {"wait", "asleep", "reload"} : [call[r] EXCEPT !.pc = l] \in Calls
                                              /\ [call[r] EXCEPT !.pc = l].pc = l
  BY <1>0, Zenon DEF Calls
<1>3. PICK c \in Calls : /\ c.pc \in {"idle", "wait", "asleep", "reload"}
                         /\ call' = [call EXCEPT ![r] = c]
  <2>1. CASE FutexWait(r)
    BY <1>2, <2>1, Zenon DEF FutexWait, Goto
  <2>2. CASE Reload(r)
    BY <1>1, <1>2, <2>2, Zenon DEF Reload
  <2>3. CASE SpuriousReturn(r)
    BY <1>2, <2>3, Zenon DEF SpuriousReturn, Goto
  <2>4. CASE TimeOut(r)
    BY <1>1, <2>4, Zenon DEF TimeOut
  <2> QED
    BY <2>1, <2>2, <2>3, <2>4, Zenon
<1>4. call'[r].pc \in {"idle", "wait", "asleep", "reload"}
  BY <1>0, <1>3, Zenon
<1>5. ReaderKnown(r)'
  BY <1>4, Zenon DEF ReaderKnown, Reading
<1> QED
  BY <1>0, <1>3, <1>5, ReaderInv, SameValues, ValuesKept, Zenon

LEMMA BeginStep ==
    ASSUME Inv, NEW r \in Reader, Begin(r)
    PROVE  Inv' /\ Abstract!Begin(r)
<1>1. PICK p \in Property, w \in {"nothing", "property", "area"} :
         call' = [call EXCEPT ![r] = [Idle EXCEPT !.pc = "find", !.p = p, !.waitFor = w,
                                                  !.area = IF w = "area" THEN area ELSE 0]]
  BY Zenon DEF Begin
<1> DEFINE c == [Idle EXCEPT !.pc = "find", !.p = p, !.waitFor = w,
                             !.area = IF w = "area" THEN area ELSE 0]
<1>2. Idle \in Calls
  BY PropertiesAssumption DEF Idle, Calls, NoSerial, Serials, NoHalves, Halves
<1>3. c \in Calls /\ c.pc = "find" /\ c.p = p
  BY <1>2, Zenon DEF Calls, Inv, Types
<1>4. call \in [Reader -> Calls] /\ result \in [Reader -> Results]
      /\ result' = [result EXCEPT ![r] = NoResult] /\ UNCHANGED writer
  BY Zenon DEF Begin, Inv, Types
<1>5. /\ result' \in [Reader -> Results] /\ result'[r] = NoResult
      /\ \A q \in Reader : q # r => result'[q] = result[q]
  BY <1>4, Zenon DEF Results
<1>6. call'[r] = c
  BY <1>1, <1>4, Zenon
<1> HIDE DEF c
<1>7. ReaderKnown(r)'
  BY <1>3, <1>5, <1>6, Zenon DEF ReaderKnown, Reading
<1>8. call' = [call EXCEPT ![r] = c]
  BY <1>1, Zenon DEF c
<1>9. Inv'
  BY <1>3, <1>4, <1>5, <1>7, <1>8, ReaderInv, Zenon
<1>10. UNCHANGED [q \in Property |-> Current(q)]
  BY <1>4, SameValues, Zenon
<1> QED
  BY <1>4, <1>9, <1>10, Zenon DEF Abstract!Begin

\* The steps within a read that leave it going on.
LEMMA ReadingSteps ==
    ASSUME Inv, NEW r \in Reader, UNCHANGED <<writer, result>>,
           \/ Find(r) /\ call[r].p \in known
           \/ LoadSerial(r) \/ CopyHead(r) \/ CopyTail(r)
           \/ CheckSerial(r) /\ serial[call[r].p] # call[r].old
    PROVE  Inv' /\ UNCHANGED AbstractVars
<1> DEFINE k == call[r]
           p == call[r].p
<1>0. /\ call \in [Reader -> Calls] /\ k \in Calls /\ result \in [Reader -> Results]
      /\ ReaderKnown(r) /\ UNCHANGED <<known, serial, info, backup, area, update>>
      /\ serial \in [Property -> Serials] /\ info \in [Property -> Halves] /\ backup \in Halves
      /\ known \subseteq Property
  BY Zenon DEF Inv, Types, writer
<1>1. p \in known /\ p \in Property /\ k.pc \in Reading /\ result[r] = NoResult
  BY <1>0, Zenon DEF Find, LoadSerial, CopyHead, CopyTail, CheckSerial, ReaderKnown, Reading
<1>2. serial[p] \in Serials /\ serial[p].count \in Nat
  BY <1>0, <1>1, SerialCount, Zenon
<1>3. Source(r) \in Halves /\ Source(r).head \in Value \cup {Absent} /\ Source(r).tail \in Value \cup {Absent}
  BY <1>0, <1>1, Zenon DEF Source, Halves
<1>4. ASSUME NEW c \in Calls, call' = [call EXCEPT ![r] = c], ReaderKnown(r)'
      PROVE  Inv' /\ UNCHANGED AbstractVars
  BY <1>0, <1>4, ReaderInv, SameValues, ValuesKept, Zenon
<1>5. CASE Find(r)
  <2> DEFINE c == [k EXCEPT !.pc = "load"]
  <2>1. c \in Calls /\ c.pc = "load" /\ c.p = p
    BY <1>0, Zenon DEF Calls
  <2>2. call' = [call EXCEPT ![r] = c]
    BY <1>1, <1>5, Zenon DEF Find, Goto
  <2>3. call'[r] = c
    BY <1>0, <2>2, Zenon
  <2> HIDE DEF c
  <2>4. ReaderKnown(r)'
    BY <1>0, <1>1, <2>1, <2>3, Zenon DEF ReaderKnown, Reading
  <2> QED
    BY <1>4, <2>1, <2>2, <2>4, Zenon
<1>6. CASE LoadSerial(r) \/ CheckSerial(r)
  <2> DEFINE c == [k EXCEPT !.pc = "head", !.old = serial[p]]
  <2>1. c \in Calls /\ c.pc = "head" /\ c.p = p /\ c.old = serial[p]
    BY <1>0, <1>2, Zenon DEF Calls
  <2>2. call' = [call EXCEPT ![r].pc = "head", ![r].old = serial[p]]
    <3>1. CASE LoadSerial(r)
      BY <3>1, Zenon DEF LoadSerial
    <3>2. CASE CheckSerial(r) /\ serial[p] # k.old
      BY <3>2, Zenon DEF CheckSerial
    <3>3. k.pc \in {"load", "check"}
      BY <1>6, Zenon DEF LoadSerial, CheckSerial
    <3> QED
      BY <1>6, <3>1, <3>2, <3>3, Zenon DEF Find, CopyHead, CopyTail
  <2>3. call' = [call EXCEPT ![r] = c]
    BY <1>0, <2>2, Zenon
  <2>4. call'[r] = c
    BY <1>0, <2>3, Zenon
  <2> HIDE DEF c
  <2>5. ReaderKnown(r)'
    <3>1. serial[p].count <= serial[p].count
      BY <1>2, SMTT(30)
    <3> QED
      BY <1>0, <1>1, <2>1, <2>4, <3>1, Zenon DEF ReaderKnown, Reading
  <2> QED
    BY <1>4, <2>1, <2>3, <2>5, Zenon
<1>7. CASE CopyHead(r)
  <2> DEFINE h == [k.copy EXCEPT !.head = Source(r).head]
             c == [k EXCEPT !.pc = "tail", !.copy = h]
  <2>1. h \in Halves /\ h.head = Source(r).head
    BY <1>0, <1>3, Zenon DEF Calls, Halves
  <2>2. c \in Calls /\ c.pc = "tail" /\ c.p = p /\ c.old = k.old /\ c.copy = h
    BY <1>0, <2>1, Zenon DEF Calls
  <2>3. call' = [call EXCEPT ![r] = c]
    BY <1>0, <1>7, Zenon DEF CopyHead, Calls
  <2>4. call'[r] = c
    BY <1>0, <2>3, Zenon
  <2>5. k.pc = "head" /\ k.old.count <= serial[p].count
    BY <1>0, <1>7, Zenon DEF CopyHead, ReaderKnown
  <2> HIDE DEF c, h
  <2>6. Source(r)' = Source(r)
    BY <1>0, <2>2, <2>4, ZenonT(30) DEF Source
  <2>7. ReaderKnown(r)'
    BY <1>0, <1>1, <2>1, <2>2, <2>4, <2>5, <2>6, Zenon DEF ReaderKnown, Reading
  <2> QED
    BY <1>4, <2>2, <2>3, <2>7, Zenon
<1>8. CASE CopyTail(r)
  <2> DEFINE h == [k.copy EXCEPT !.tail = Source(r).tail]
             c == [k EXCEPT !.pc = "check", !.copy = h]
  <2>1. h \in Halves /\ h.tail = Source(r).tail /\ h.head = k.copy.head
    BY <1>0, <1>3, Zenon DEF Calls, Halves
  <2>2. c \in Calls /\ c.pc = "check" /\ c.p = p /\ c.old = k.old /\ c.copy = h
    BY <1>0, <2>1, Zenon DEF Calls
  <2>3. call' = [call EXCEPT ![r] = c]
    BY <1>0, <1>8, Zenon DEF CopyTail, Calls
  <2>4. call'[r] = c
    BY <1>0, <2>3, Zenon
  <2>5. /\ k.pc = "tail" /\ k.old.count <= serial[p].count
        /\ serial[p] = k.old => k.copy.head = Source(r).head
    BY <1>0, <1>8, Zenon DEF CopyTail, ReaderKnown
  <2> HIDE DEF c, h
  <2>6. Source(r)' = Source(r)
    BY <1>0, <2>2, <2>4, ZenonT(30) DEF Source
  <2>7. ReaderKnown(r)'
    BY <1>0, <1>1, <2>1, <2>2, <2>4, <2>5, <2>6, ZenonT(30) DEF ReaderKnown, Reading
  <2> QED
    BY <1>4, <2>2, <2>3, <2>7, Zenon
<1> QED
  BY <1>5, <1>6, <1>7, <1>8, Zenon

\* The end of a read: nothing is there, or the copy is the value.
LEMMA LastSteps ==
    ASSUME Inv, NEW r \in Reader,
           \/ Find(r) /\ call[r].p \notin known
           \/ CheckSerial(r) /\ serial[call[r].p] = call[r].old
    PROVE  Inv' /\ Abstract!Read(r, call[r].p) /\ call[r].p \in Property
<1> DEFINE k == call[r]
           p == call[r].p
<1>1. CASE Find(r) /\ p \notin known
  BY <1>1, FinishStep, Zenon DEF Find, Current, Reading
<1>2. CASE CheckSerial(r) /\ serial[p] = k.old
  <2> DEFINE v == Sized(k.old.len, k.copy)
  <2>1. k \in Calls /\ k.pc = "check" /\ ReaderKnown(r) /\ Finish(r, v)
    BY <1>2, Zenon DEF CheckSerial, Inv, Types
  <2>2. p \in known /\ k.copy.head = Source(r).head /\ k.copy.tail = Source(r).tail
    BY <1>2, <2>1, Zenon DEF ReaderKnown, Reading
  <2>3. v \in [len : Nat, head : Value \cup {Absent}, tail : Value \cup {Absent}]
    BY <2>1, Zenon DEF Sized, Calls, Serials, Halves
  <2>4. v = Current(p)
    BY <1>2, <2>2, Zenon DEF Current, Source, Sized
  <2> QED
    BY <2>1, <2>3, <2>4, FinishStep, Zenon DEF Reading
<1> QED
  BY <1>1, <1>2, Zenon

\* Every step keeps the invariant and is an atomic step or none.
LEMMA NextStep ==
    Inv /\ [Next]_vars => Inv' /\ [Abstract!Next]_AbstractVars
<1> SUFFICES ASSUME Inv, [Next]_vars PROVE Inv' /\ [Abstract!Next]_AbstractVars
  BY Zenon
<1> DEFINE Goal == Inv' /\ [Abstract!Next]_AbstractVars
<1>1. ASSUME UNCHANGED vars PROVE Goal
  <2>1. UNCHANGED writer /\ UNCHANGED result /\ UNCHANGED call
    BY <1>1, Zenon DEF vars, writer
  <2>2. UNCHANGED AbstractVars
    BY <2>1, SameValues, ValuesKept, Zenon
  <2>3. Types' /\ WriterKnown' /\ SerialsBounded'
    BY <2>1, Zenon DEF writer, Inv, Types, WriterKnown, SerialsBounded
  <2>4. \A r \in Reader : ReaderKnown(r)'
    BY <2>1, Zenon DEF writer, Inv, ReaderKnown, Source
  <2> QED
    BY <2>2, <2>3, <2>4, Zenon DEF Inv
<1>2. ASSUME NEW p \in Property, NEW v \in Value, Add(p, v) PROVE Goal
  BY <1>2, AddStep, Zenon DEF Abstract!Next
<1>3. ASSUME NEW p \in Property, NEW v \in Value, Update(p, v) PROVE Goal
  BY <1>3, OuterSteps, Zenon
<1>4. ASSUME WriterStep PROVE Goal
  <2>1. CASE StoreSerial
    BY <2>1, SerialStep, Zenon DEF Abstract!Next
  <2>2. CASE BackupHead \/ BackupTail \/ WriteHead \/ WriteTail
    BY <2>2, CopySteps, Zenon
  <2>3. CASE WakeProperty \/ BumpArea \/ WakeArea
    BY <2>3, OuterSteps, Zenon
  <2>4. CASE StoreDirty
    BY <2>4, DirtyStep, Zenon
  <2> QED
    BY <1>4, <2>1, <2>2, <2>3, <2>4, Zenon DEF WriterStep
<1>5. ASSUME NEW r \in Reader, Begin(r) PROVE Goal
  BY <1>5, BeginStep, Zenon DEF Abstract!Next
<1>6. ASSUME NEW r \in Reader, ReaderStep(r) \/ SpuriousReturn(r) \/ TimeOut(r) PROVE Goal
  <2>1. CASE FutexWait(r) \/ Reload(r) \/ SpuriousReturn(r) \/ TimeOut(r)
    BY <2>1, OutsideSteps, Zenon
  <2>2. CASE \/ Find(r) /\ call[r].p \notin known
             \/ CheckSerial(r) /\ serial[call[r].p] = call[r].old
    BY <2>2, LastSteps, Zenon DEF Abstract!Next
  <2>3. CASE \/ Find(r) /\ call[r].p \in known
             \/ LoadSerial(r) \/ CopyHead(r) \/ CopyTail(r)
             \/ CheckSerial(r) /\ serial[call[r].p] # call[r].old
    <3>1. UNCHANGED <<writer, result>>
      BY <2>3, Zenon DEF Find, LoadSerial, CopyHead, CopyTail, CheckSerial
    <3> QED
      BY <2>3, <3>1, ReadingSteps, Zenon
  <2> QED
    BY <1>6, <2>1, <2>2, <2>3, Zenon DEF ReaderStep
<1> HIDE DEF Goal
<1>7. Goal
  BY <1>1, <1>2, <1>3, <1>4, <1>5, <1>6, Zenon DEF Next
<1> QED
  BY <1>7, Zenon DEF Goal

\* The dirty bit, the backup area and the copies of the readers agree.
THEOREM PropertiesInvariant == Spec => []Inv
  BY InitInv, NextStep, PTL DEF Spec

\* ReadMutablePropertyValue, without a lock, is an atomic read of the property:
\* never torn, never of another property, never with another value's length.
THEOREM PropertiesImplementAbstract == Spec => ImplementsProperties
<1>1. Init => Abstract!Init
  BY Zenon DEF Init, Abstract!Init, Current
<1>2. Inv /\ [Next]_vars => [Abstract!Next]_<<[p \in Property |-> Current(p)], result>>
  BY NextStep, Zenon DEF AbstractVars
<1> QED
  BY <1>1, <1>2, PropertiesInvariant, PTL DEF Spec, ImplementsProperties, Abstract!Spec

-----------------------------------------------------------------------------
INSTANCE FiniteSetTheorems

\* Creations and deletions of keys, however they interleave, never give one
\* slot to two keys and never lose one.
THEOREM KeySlotsAccounted == KeySpec => []SlotsAccounted
<1>1. KeyInv => SlotsAccounted
  <2> SUFFICES ASSUME KeyInv, NEW k \in Key
               PROVE  LET creators == {t \in Thread : keyCall[t].pc = "store" /\ keyCall[t].i = k}
                      IN IF SeqOfKeyInUse(seq[k])
                           THEN Cardinality(creators) = (IF InUse(k) THEN 0 ELSE 1)
                           ELSE creators = {} /\ ~InUse(k)
    BY Zenon DEF SlotsAccounted
  <2> DEFINE creators == {t \in Thread : keyCall[t].pc = "store" /\ keyCall[t].i = k}
  <2>1. Slots
    BY Zenon DEF KeyInv
  <2>2. CASE ~SeqOfKeyInUse(seq[k])
    BY <2>1, <2>2, Zenon DEF Slots
  <2>3. CASE InUse(k)
    <3>1. creators = {}
      BY <2>1, <2>3, ZenonT(30) DEF Slots
    <3> QED
      BY <2>1, <2>3, <3>1, FS_EmptySet, ZenonT(30) DEF Slots
  <2>4. CASE SeqOfKeyInUse(seq[k]) /\ ~InUse(k)
    <3>1. PICK t \in Thread : keyCall[t].pc = "store" /\ keyCall[t].i = k
      BY <2>1, <2>4, Zenon DEF Slots
    <3>2. creators = {t}
      BY <2>1, <3>1, ZenonT(30) DEF Slots
    <3> QED
      BY <2>4, <3>2, FS_Singleton, Zenon
  <2> QED
    BY <2>2, <2>3, <2>4, Zenon
<1> QED
  BY <1>1, KeyInvariant, PTL
=============================================================================
