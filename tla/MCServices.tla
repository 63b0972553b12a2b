----------------------------- MODULE MCServices -----------------------------
(* Services that many use while others change them, side by side: the        *)
(* initial state picks the property area, logd with one client and two logs  *)
(* that differ in the entries of a chunk, logd with two clients of one log,  *)
(* or malloc with its dispatch tables.                                       *)
EXTENDS SystemProperties, MallocHooks, TLC

CONSTANTS short, long, None, main, radio, w1, w2, u1, u2, Client, MaxSize, MaxWork, MaxWork2

VARIABLES part,                  \* "properties", "logd", "clients" or "malloc"
          sequence, pending, logs, reader, delivered, extra, disorder

logdVars == <<sequence, pending, logs, reader, delivered, extra, disorder>>
mcVars == <<part, vars, logdVars, mallocVars>>

\* A short value and a long one.
MCLenOf == [v \in Value |-> IF v = long THEN 2 ELSE 1]

\* All that is there and what follows; what follows, once there is enough of
\* it; and a dump.
Requests == {[time |-> 0, non_block |-> FALSE, timeout |-> FALSE],
             [time |-> 2, non_block |-> FALSE, timeout |-> TRUE],
             [time |-> 1, non_block |-> TRUE, timeout |-> FALSE]}

Logd == INSTANCE Logd
    WITH LogId <- {main, radio}, Writer <- {w1, w2}, Uid <- {u1, u2},
         Reader <- {CHOOSE c \in Client : TRUE},
         LogsOf <- w1 :> {main} @@ w2 :> {main, radio},
         ChunkCapacity <- main :> 2 @@ radio :> 1, Request <- Requests

Clients == INSTANCE Logd
    WITH LogId <- {radio}, Writer <- {w2}, Uid <- {u2}, Reader <- Client, LogsOf <- w2 :> {radio},
         ChunkCapacity <- radio :> 1, MaxWork <- MaxWork2,
         Request <- {q \in Requests : q.time = 0}

MCInit ==
    /\ part \in {"properties", "logd", "clients", "malloc"}
    /\ Init
    /\ IF part = "clients" THEN Clients!Init ELSE Logd!Init
    /\ MallocInit
    /\ part # "malloc" => default = "null" /\ state = "kInitialState"

Use(x) == part = x /\ UNCHANGED part

\* The threads of malloc are alike; in every other part they are all idle, so that
\* no two states of the properties, which alone have to get on, are taken for one.
Symmetry == Permutations(Thread)

MCNext ==
    \/ Use("properties") /\ Next /\ UNCHANGED <<logdVars, mallocVars>>
    \/ Use("logd") /\ Logd!Next /\ UNCHANGED <<vars, mallocVars>>
    \/ Use("clients") /\ Clients!Next /\ UNCHANGED <<vars, mallocVars>>
    \/ Use("malloc") /\ MallocNext /\ UNCHANGED <<vars, logdVars>>

\* The writer and the readers of properties keep running inside their calls.
MCSpec ==
    /\ MCInit /\ [][MCNext]_mcVars
    /\ WF_mcVars(Use("properties") /\ WriterStep /\ UNCHANGED <<logdVars, mallocVars>>)
    /\ \A r \in Reader :
          WF_mcVars(Use("properties") /\ ReaderStep(r) /\ UNCHANGED <<logdVars, mallocVars>>)

Holds(one, many) == IF part = "clients" THEN many ELSE one

\* A reader of logd holds a position exactly where a chunk lists it, within
\* what was written, and the contents of that chunk are there.
PositionsValid == Holds(Logd!PositionsValid, Clients!PositionsValid)

\* No client of logd is sent an entry older than one it already has.
InOrder == Holds(Logd!InOrder, Clients!InOrder)

\* A reader of logd asleep without a deadline stands where the next entry of
\* each log will appear, and has been sent what it should if no entry was late
\* and no flush of its found nothing; and none sleeps whose client is gone.
CaughtUp == Holds(Logd!CaughtUp, Clients!CaughtUp)
=============================================================================
