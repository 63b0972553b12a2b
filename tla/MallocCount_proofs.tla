------------------------- MODULE MallocCount_proofs -------------------------
(* What one step of a call in malloc leaves alone, and what gAllocated       *)
(* counts: the invariant of MallocHooks_proofs, the one that CountExact      *)
(* rests on besides it, and why every step of every thread keeps the second. *)
EXTENDS MallocHooks, TLAPS

\* Where a thread has set gGlobalsMutating, and where one that has taken the
\* lock for it is on its way there or back.
Changing == {"prepare", "signal", "init", "default", "current", "settle", "clear"}

Holding == Changing \cup {"exchange", "unlock"}

\* What a thread can be doing at each point.
Ops == {"none", "malloc", "free", "realloc", "signal", "init", "reset", "limit"}

\* The locations of a call.
Points == Holding \cup {"idle", "check", "uncount", "fetch", "serve", "count", "measure",
                        "store", "lock", "fallback"}

\* The calls that can be at a location.
Doing(pc) ==
    IF pc = "idle" THEN {"none"}
    ELSE IF pc \in {"check", "uncount", "fetch", "serve", "count"} THEN {"malloc", "free", "realloc"}
    ELSE IF pc \in {"measure", "store"} THEN {"limit"}
    ELSE IF pc = "fallback" THEN {"malloc"}
    ELSE IF pc = "signal" THEN {"signal"}
    ELSE IF pc = "init" THEN {"init"}
    ELSE IF pc = "lock" THEN {"malloc", "init", "reset", "limit"}
    ELSE IF pc \in {"prepare", "default", "settle"} THEN {"signal", "malloc", "init", "reset"}
    ELSE {"signal", "malloc", "init", "reset", "limit"}

\* The fields of a request.
Fields == {"op", "pc", "table", "block", "bytes", "old", "limited"}

\* What the variables are, as far as it matters here.
Shape ==
    /\ request = [t \in Thread |-> request[t]]
    /\ \A t \in Thread : /\ request[t] = [x \in Fields |-> request[t][x]]
                         /\ request[t].block \in Block \cup {NoBlock}
    /\ heap = [b \in Block |-> heap[b]]

\* At most one thread is changing the tables, gGlobalsMutating says so, and
\* whoever is there but the signal handler has the lock.
Locking ==
    /\ \A t \in Thread : request[t].pc \in Points /\ request[t].op \in Doing(request[t].pc)
    /\ \A t \in Thread : request[t].pc \in Changing => mutating
    /\ \A t, u \in Thread : request[t].pc \in Changing /\ request[u].pc \in Changing => t = u
    /\ mutating => \E t \in Thread : request[t].pc \in Changing
    /\ \A t \in Thread : request[t].pc \in Holding /\ request[t].op # "signal" => lock = t

\* The tables there are without heapprofd and without the limit.
Base == {"null", "gwp"}

\* The tables, and the state of heapprofd they go with, while nobody is
\* changing them.
Stable ==
    /\ current \in {"limit", default}
    /\ \/ state = "kInitialState" /\ default \in Base
       \/ state = "kEphemeralHookInstalled" /\ default = "ephemeral"
       \/ state = "kHookInstalled" /\ default \in Base \cup {"heapprofd"}
       \/ state = "kIncompatibleHooks" /\ default = "debug"

\* The same while a thread is at pc, doing op.
ChangingTo(op, pc) ==
    /\ pc \in {"prepare", "clear"} => Stable
    /\ op = "limit" => Stable
    /\ pc \in {"signal", "init", "default"} => current \in {"limit", default}
    /\ pc = "settle" => current \in {"limit", default}
    /\ pc \in {"signal", "init", "default", "current", "settle"} /\ op # "limit" =>
          state = Transition[op].via
    /\ pc \in {"signal", "default"} /\ op = "signal" => default \in Base \cup {"heapprofd"}
    /\ pc \in {"current", "settle"} /\ op = "signal" => default = "ephemeral"
    /\ pc \in {"init", "default"} /\ op = "init" => default \in Base
    /\ pc \in {"current", "settle"} /\ op = "init" => default \in Base \cup {"heapprofd"}
    /\ pc = "default" /\ op = "malloc" => default = "ephemeral"
    /\ pc = "default" /\ op = "reset" => default \in Base \cup {"heapprofd"}
    /\ pc \in {"current", "settle"} /\ op \in {"malloc", "reset"} => default \in Base

\* The tables are those of the state, or of the change under way.
Tables ==
    /\ previous \in Base /\ ephemeral \in Base /\ backing \in Base
    /\ default \in Base \cup {"ephemeral", "heapprofd", "debug"}
    /\ ~mutating => Stable
    /\ \A t \in Thread : request[t].pc \in Changing => ChangingTo(request[t].op, request[t].pc)

-----------------------------------------------------------------------------
\* No table leads to GWP-ASan, and no block is its.
NativeWorld ==
    /\ \A b \in Block : heap[b].owner # "gwp"
    /\ "gwp" \notin {current, default, previous, ephemeral, backing}
    /\ \A t \in Thread : request[t].table # "gwp"

\* A table leads to GWP-ASan; the limit fetches another.
Leads(x) ==
    \/ x \in {"gwp", "limit"}
    \/ x \in {"heapprofd", "debug"} /\ backing = "gwp"
    \/ x = "ephemeral" /\ ephemeral = "gwp"

\* A thread in malloc of the ephemeral table has previous to go back to.
GoesBack(t) ==
    /\ request[t].op = "malloc"
    /\ request[t].pc \in Holding \cup {"lock", "fallback"}

\* No signal has got as far as to store what it found, nothing follows from one,
\* and no reset has stored a table.
Unsignalled(t) ==
    /\ request[t].op # "init" /\ ~GoesBack(t)
    /\ request[t].pc = "serve" => request[t].table # "ephemeral"
    /\ request[t].op = "signal" => request[t].pc # "default"
    /\ request[t].op \in {"signal", "reset"} => request[t].pc \notin {"current", "settle"}

\* The states that are left without a signal; kHookInstalled is also where an
\* installation fails.
Unprofiled == {"kInitialState", "kInstallingEphemeralHook", "kHookInstalled", "kUninstallingHook",
               "kIncompatibleHooks"}

\* Nobody has got to profile yet.
NoSignal ==
    /\ state \in Unprofiled
    /\ created = 0
    /\ default # "heapprofd" /\ "ephemeral" \notin {default, current}
    /\ \A t \in Thread : Unsignalled(t)

\* What a thread does with the tables leads to GWP-ASan.
LedBy(t) ==
    /\ request[t].pc = "serve" => request[t].table # "limit" /\ Leads(request[t].table)
    /\ request[t].pc = "default" /\ request[t].op = "signal" => ephemeral = "gwp"
    /\ request[t].pc = "default" /\ request[t].op = "init" => backing = "gwp"

\* All tables in use lead to GWP-ASan.
GwpWorld ==
    /\ Leads(default) /\ Leads(current)
    /\ \A t \in Thread : LedBy(t)
    /\ previous # "gwp" => NoSignal

\* Until a table is dropped, GWP-ASan is nowhere or under everything.
Worlds == dropped # {} \/ NativeWorld \/ GwpWorld

\* The invariant of MallocHooks_proofs.
HookInv == Shape /\ Locking /\ Tables /\ Worlds

-----------------------------------------------------------------------------
\* The requests of all threads but t stay, and the variables keep their shape.
Alone(t) == Shape' /\ \A u \in Thread \ {t} : request'[u] = request[u]

\* What is left when only the pc of t moves, and when t returns.
LEMMA Proceeding ==
    ASSUME Shape, NEW t \in Thread, NEW l, Proceed(t, l), heap' = [b \in Block |-> heap'[b]]
    PROVE  /\ Alone(t)
           /\ request'[t].pc = l /\ request'[t].op = request[t].op
           /\ request'[t].table = request[t].table
<1>1. request' = [request EXCEPT ![t] = [request[t] EXCEPT !.pc = l]]
  BY Zenon DEF Proceed
<1>2. request[t] = [x \in Fields |-> request[t][x]]
  BY Zenon DEF Shape
<1>3. /\ request'[t] = [request[t] EXCEPT !.pc = l]
      /\ \A u \in Thread \ {t} : request'[u] = request[u]
      /\ request' = [u \in Thread |-> request'[u]]
  BY <1>1, Zenon DEF Shape
<1>4. /\ request'[t].pc = l /\ request'[t].op = request[t].op
      /\ request'[t].table = request[t].table /\ request'[t].block = request[t].block
      /\ request'[t] = [x \in Fields |-> request'[t][x]]
  BY <1>2, <1>3, Zenon DEF Fields
<1>5. request[t].block \in Block \cup {NoBlock}
  BY Zenon DEF Shape
<1>6. ASSUME NEW u \in Thread
      PROVE  /\ request'[u] = [x \in Fields |-> request'[u][x]]
             /\ request'[u].block \in Block \cup {NoBlock}
  <2>1. CASE u = t
    BY <2>1, <1>4, <1>5, Zenon
  <2>2. CASE u # t
    <3>1. request'[u] = request[u]
      BY <2>2, <1>3, Zenon
    <3>2. request[u] = [x \in Fields |-> request[u][x]] /\ request[u].block \in Block \cup {NoBlock}
      BY Zenon DEF Shape
    <3> QED
      BY <3>1, <3>2, Zenon
  <2> QED
    BY <2>1, <2>2, Zenon
<1>7. Shape'
  BY <1>3, <1>6, Zenon DEF Shape
<1> QED
  BY <1>3, <1>4, <1>7, Zenon DEF Alone

\* A request with these fields.
Made(r, op, pc, table) ==
    /\ r = [x \in Fields |-> r[x]] /\ r.block \in Block \cup {NoBlock}
    /\ r.op = op /\ r.pc = pc /\ r.table = table

\* One thread's request is replaced, and the others' stay.
LEMMA Replacing ==
    ASSUME Shape, NEW t \in Thread, NEW r, NEW op, NEW pc, NEW table, Made(r, op, pc, table),
           request' = [request EXCEPT ![t] = r], heap' = [b \in Block |-> heap'[b]]
    PROVE  /\ Alone(t)
           /\ request'[t].pc = pc /\ request'[t].op = op /\ request'[t].table = table
<1>1. /\ request'[t] = r /\ \A u \in Thread \ {t} : request'[u] = request[u]
      /\ request' = [u \in Thread |-> request'[u]]
  BY Zenon DEF Shape
<1> QED
  BY <1>1, Zenon DEF Shape, Alone, Made

\* A thread outside any call has made no request.
LEMMA NoRequestMade == Made(NoRequest, "none", "idle", "null")
BY Zenon DEF Made, NoRequest, Fields

-----------------------------------------------------------------------------
\* What is needed of sums of sizes; see AdditiveTotals.
Additive ==
    /\ Cardinality(Thread) \in Nat /\ Cardinality(Block) \in Nat
    /\ \A S \in {Thread, Block} : \A f \in [S -> 0 .. MaxBytes] :
         /\ Total(f) \in Nat /\ Total(f) <= Cardinality(S) * MaxBytes
         /\ (\A x \in S : f[x] = 0) => Total(f) = 0
         /\ \A g \in [S -> 0 .. MaxBytes], a \in S :
              (\A x \in S \ {a} : f[x] = g[x]) => Total(g) + f[a] = Total(f) + g[a]
    /\ \A S \in {Thread, Block} : \A f \in [S -> 0 .. MaxBytes], g \in [Block -> 0 .. MaxBytes] : \A at :
         /\ \A x \in S : f[x] # 0 => at[x] \in Block /\ f[x] = g[at[x]]
         /\ \A x, y \in S : f[x] # 0 /\ f[y] # 0 /\ at[x] = at[y] => x = y
         => Total(f) <= Total(g)

\* The law of the sum does not depend on the state.
LEMMA AdditiveStays == Additive => Additive'
  BY Zenon DEF Additive, Total, Bytes

\* Sizes are numbers.
LEMMA Sizing == MaxBytes \in Nat /\ 0 \in 0 .. MaxBytes /\ \A n \in 0 .. MaxBytes : n \in Nat
  BY CountAssumption

\* A number as the counter holds it.
Wrapped(n) == IF n < 0 THEN n + CountMod ELSE n

\* A number that the counter can hold moves modulo CountMod as it would without.
LEMMA Wraps ==
    ASSUME NEW n \in Int, NEW k \in Int, 0 - CountMod <= n, n < CountMod,
           0 - CountMod <= k, k < CountMod
    PROVE  (Wrapped(n) + CountMod + (k - n)) % CountMod = Wrapped(k)
<1>1. PICK m \in Nat : m = CountMod
  BY CountAssumption, Zenon
<1>2. ASSUME NEW a \in Int, 0 <= a, a < m PROVE a % m = a /\ (a + m) % m = a /\ (a + m + m) % m = a
  BY <1>2
<1>3. CASE n < 0 /\ k < 0
  <2>1. (k + m) + m = (n + m) + m + (k - n)
    OBVIOUS
  <2>2. ((k + m) + m) % m = k + m
    BY <1>1, <1>2, <1>3
  <2> QED
    BY <1>1, <1>3, <2>1, <2>2 DEF Wrapped
<1>4. CASE n < 0 /\ ~(k < 0)
  <2>1. k + m + m = (n + m) + m + (k - n)
    OBVIOUS
  <2>2. (k + m + m) % m = k
    BY <1>1, <1>2, <1>4
  <2> QED
    BY <1>1, <1>4, <2>1, <2>2 DEF Wrapped
<1>5. CASE ~(n < 0) /\ k < 0
  <2>1. k + m = n + m + (k - n)
    OBVIOUS
  <2>2. (k + m) % m = k + m
    BY <1>1, <1>2, <1>5
  <2> QED
    BY <1>1, <1>5, <2>1, <2>2 DEF Wrapped
<1>6. CASE ~(n < 0) /\ ~(k < 0)
  <2>1. k + m = n + m + (k - n)
    OBVIOUS
  <2>2. (k + m) % m = k
    BY <1>1, <1>2, <1>6
  <2> QED
    BY <1>1, <1>6, <2>1, <2>2 DEF Wrapped
<1> QED
  BY <1>3, <1>4, <1>5, <1>6

\* What a call knows of its block while the block is its own.
Handled(t) ==
    /\ request[t].old \in 0 .. MaxBytes /\ request[t].limited \in BOOLEAN
    /\ request[t].block # NoBlock => heap[request[t].block] # Free
    /\ request[t].op \in {"free", "realloc"} /\ request[t].pc # "count" =>
          request[t].block # NoBlock /\ request[t].old = heap[request[t].block].size
    /\ request[t].op \notin {"free", "realloc"} =>
          request[t].old = 0 /\ (request[t].block = NoBlock \/ request[t].pc = "count")
    /\ request[t].op \in {"malloc", "realloc"} => request[t].bytes \in Nat
    /\ request[t].pc \in {"check", "count"} => request[t].op # "free"
    /\ request[t].pc = "uncount" => request[t].op = "free"
    /\ request[t].pc \in {"check", "uncount", "fetch", "count"} => request[t].limited
    /\ request[t].limited => current = "limit"

\* No two calls have the same block.
Blocks ==
    /\ \A b \in Block : heap[b].size \in 0 .. MaxBytes
    /\ \A t \in Thread : Handled(t)
    /\ \A t, u \in Thread : request[t].block = request[u].block => t = u \/ request[t].block = NoBlock

\* The limit, from when it measures until it is in place.
Limiting(t) ==
    request[t].op = "limit" =>
        /\ limit_enabled
        /\ current = "limit" => request[t].pc \in {"clear", "unlock"}
        /\ ~stray /\ request[t].pc = "store" =>
              request[t].bytes \in Nat /\ request[t].bytes = Total(Sizes) + skew
        /\ ~stray /\ request[t].pc \in {"lock", "exchange", "current"} =>
              gAllocated \in Nat /\ gAllocated = Total(Sizes) + skew

\* One thread at most enables the limit, and its table is in use only then.
OneLimit ==
    /\ \A t \in Thread : Limiting(t)
    /\ \A t, u \in Thread : request[t].op = "limit" /\ request[u].op = "limit" => t = u
    /\ current = "limit" => limit_enabled

\* What the limit saw too much or too little is no more than there can be.
Skewed == skew \in Int /\ 0 - CountMod <= skew /\ skew <= MaxCached

\* The sum of the sizes of the blocks, but for what calls under way have counted
\* ahead of the allocator or not counted yet, and for what mallinfo saw amiss.
Due == Total(Sizes) + Total(Behind) + skew - Total(Ahead)

\* The counter holds that.
Counted == current = "limit" /\ ~stray => gAllocated = Wrapped(Due)

\* The invariant for CountExact.
CountInv == Blocks /\ OneLimit /\ Skewed /\ Counted

-----------------------------------------------------------------------------
\* What the calls under way add up to: never more than there is.
Weighed ==
    /\ Ahead \in [Thread -> 0 .. MaxBytes] /\ Behind \in [Thread -> 0 .. MaxBytes]
    /\ Sizes \in [Block -> 0 .. MaxBytes]
    /\ Total(Ahead) \in Nat /\ Total(Behind) \in Nat /\ Total(Sizes) \in Nat
    /\ Total(Ahead) <= Total(Sizes) /\ Total(Sizes) + Total(Behind) + MaxCached < CountMod

\* What each thread and each block adds to a sum is a number.
LEMMA Weights == Additive /\ Shape /\ Blocks => Weighed
<1> SUFFICES ASSUME Additive, Shape, Blocks PROVE Weighed
  BY Zenon
<1>1. /\ MaxBytes \in Nat /\ CountMod \in Nat /\ IsFiniteSet(Thread) /\ IsFiniteSet(Block)
      /\ MaxCached \in Nat
      /\ (Cardinality(Block) + Cardinality(Thread)) * MaxBytes + MaxCached < CountMod
  BY CountAssumption, Zenon
<1>2. Sizes \in [Block -> 0 .. MaxBytes]
  BY Zenon DEF Blocks, Sizes
<1>3. Behind \in [Thread -> 0 .. MaxBytes]
  BY <1>1 DEF Blocks, Handled, Behind
<1>4. ASSUME NEW t \in Thread
      PROVE  /\ Ahead[t] \in 0 .. MaxBytes
             /\ Ahead[t] # 0 => request[t].block \in Block /\ Ahead[t] = Sizes[request[t].block]
  <2>1. Handled(t) /\ request[t].block \in Block \cup {NoBlock}
    BY Zenon DEF Blocks, Shape
  <2>2. request[t].block # NoBlock => heap[request[t].block].size \in 0 .. MaxBytes
    BY <2>1, Zenon DEF Blocks
  <2> QED
    BY <1>1, <2>1, <2>2 DEF Handled, Ahead, Sizes
<1>5. Ahead \in [Thread -> 0 .. MaxBytes]
  <2>1. Ahead = [t \in Thread |-> Ahead[t]]
    BY Zenon DEF Ahead
  <2> QED
    BY <1>4, <2>1, Zenon
<1>6. PICK at : at = [t \in Thread |-> request[t].block]
  BY Zenon
<1>7. \A t, u \in Thread : Ahead[t] # 0 /\ Ahead[u] # 0 /\ at[t] = at[u] => t = u
  <2> SUFFICES ASSUME NEW t \in Thread, NEW u \in Thread, Ahead[t] # 0, Ahead[u] # 0, at[t] = at[u]
               PROVE  t = u
    BY Zenon
  <2>1. request[t].block = request[u].block /\ request[t].block \in Block
    BY <1>4, <1>6, Zenon
  <2>2. request[t].block # NoBlock
    BY <2>1, CountAssumption, Zenon
  <2> QED
    BY <2>1, <2>2, Zenon DEF Blocks
<1>8. \A t \in Thread : Ahead[t] # 0 => at[t] \in Block /\ Ahead[t] = Sizes[at[t]]
  BY <1>4, <1>6, Zenon
<1>9. Total(Ahead) <= Total(Sizes)
  BY <1>1, <1>2, <1>5, <1>7, <1>8, ZenonT(30) DEF Additive
<1>10. Total(Ahead) \in Nat
  BY <1>5, Zenon DEF Additive
<1>11. Total(Behind) \in Nat /\ Total(Behind) <= Cardinality(Thread) * MaxBytes
  BY <1>3, Zenon DEF Additive
<1>12. Total(Sizes) \in Nat /\ Total(Sizes) <= Cardinality(Block) * MaxBytes
  BY <1>2, Zenon DEF Additive
<1>13. Cardinality(Block) \in Nat /\ Cardinality(Thread) \in Nat
  BY Zenon DEF Additive
<1>14. Total(Sizes) + Total(Behind) + MaxCached < CountMod
  <2>1. ASSUME NEW x \in Nat, NEW y \in Nat PROVE (x + y) * MaxBytes = x * MaxBytes + y * MaxBytes
    BY <1>1
  <2>2. Cardinality(Block) * MaxBytes + Cardinality(Thread) * MaxBytes + MaxCached < CountMod
    BY <1>1, <1>13, <2>1, Zenon
  <2>3. Cardinality(Block) * MaxBytes \in Nat /\ Cardinality(Thread) * MaxBytes \in Nat
    BY <1>1, <1>13
  <2> QED
    BY <1>1, <1>11, <1>12, <2>2, <2>3
<1> QED
  BY <1>2, <1>3, <1>5, <1>9, <1>10, <1>11, <1>12, <1>14, Zenon DEF Weighed

\* Nobody's block but t's own is touched.
Touches(t) ==
    \A u \in Thread \ {t} : request[u].block # NoBlock =>
        /\ heap'[request[u].block] = heap[request[u].block]
        /\ request'[t].block # request[u].block

\* What one thread is ahead or behind changes, and the sums with it.
LEMMA CountMoves ==
    ASSUME Additive, Shape, Blocks, NEW t \in Thread, Alone(t), Touches(t), Blocks'
    PROVE  /\ Total(Ahead)' + Ahead[t] = Total(Ahead) + Ahead'[t]
           /\ Total(Behind)' + Behind[t] = Total(Behind) + Behind'[t]
<1>1. /\ Ahead \in [Thread -> 0 .. MaxBytes] /\ Behind \in [Thread -> 0 .. MaxBytes]
  BY Weights, Zenon DEF Weighed
<1>2. /\ Ahead' \in [Thread -> 0 .. MaxBytes] /\ Behind' \in [Thread -> 0 .. MaxBytes]
  <2>1. Shape' /\ Blocks'
    BY Zenon DEF Alone
  <2>2. Weighed'
    BY <2>1, AdditiveStays, Weights, PTL
  <2> QED
    BY <2>2, Zenon DEF Weighed
<1>3. ASSUME NEW u \in Thread \ {t} PROVE Ahead'[u] = Ahead[u] /\ Behind'[u] = Behind[u]
  BY Zenon DEF Alone, Touches, Ahead, Behind
<1>5. Total(Ahead') + Ahead[t] = Total(Ahead) + Ahead'[t]
  BY <1>1, <1>2, <1>3 DEF Additive
<1>6. Total(Behind') + Behind[t] = Total(Behind) + Behind'[t]
  BY <1>1, <1>2, <1>3 DEF Additive
<1> QED
  BY <1>5, <1>6, Zenon DEF Total, Bytes

\* One block's size changes, and the sum with it.
LEMMA SizesMove ==
    ASSUME Additive, Shape, Blocks, Shape', Blocks', NEW b \in Block, \A x \in Block \ {b} : heap'[x] = heap[x]
    PROVE  Total(Sizes)' + heap[b].size = Total(Sizes) + heap'[b].size
<1>1. Sizes \in [Block -> 0 .. MaxBytes] /\ Sizes' \in [Block -> 0 .. MaxBytes]
  BY Zenon DEF Blocks, Sizes
<1>2. \A x \in Block \ {b} : Sizes'[x] = Sizes[x]
  BY Zenon DEF Sizes
<1>4. Total(Sizes') + Sizes[b] = Total(Sizes) + Sizes'[b]
  BY <1>1, <1>2, Zenon DEF Additive
<1> QED
  BY <1>4, Zenon DEF Sizes, Total, Bytes

\* What a step of t has to keep.
LEMMA BlocksKept ==
    ASSUME Blocks, NEW t \in Thread, Alone(t), Touches(t), Handled(t)',
           \A b \in Block : heap'[b].size \in 0 .. MaxBytes,
           current = "limit" => current' = "limit"
    PROVE  Blocks'
<1>1. \A u \in Thread \ {t} : request'[u] = request[u]
  BY Zenon DEF Alone
<1>2. ASSUME NEW u \in Thread PROVE Handled(u)'
  <2>1. CASE u = t
    BY <2>1, Zenon
  <2>2. CASE u # t
    <3>1. Handled(u) /\ request'[u] = request[u]
      BY <1>1, <2>2, Zenon DEF Blocks
    <3>2. request[u].block # NoBlock => heap'[request[u].block] = heap[request[u].block]
      BY <2>2, Zenon DEF Touches
    <3> QED
      BY <3>1, <3>2, Zenon DEF Handled
  <2> QED
    BY <2>1, <2>2, Zenon
<1>3. \A u, v \in Thread : request'[u].block = request'[v].block => u = v \/ request'[u].block = NoBlock
  BY <1>1 DEF Blocks, Touches
<1> QED
  BY <1>2, <1>3, Zenon DEF Blocks

\* A step that enables nothing keeps OneLimit.
LEMMA OneLimitKept ==
    ASSUME Locking, OneLimit, NEW t \in Thread, Alone(t), Limiting(t)',
           current = "limit" => current' = "limit", limit_enabled => limit_enabled', stray => stray',
           request'[t].op = "limit" => request[t].op = "limit" \/ ~limit_enabled,
           current' = "limit" => current = "limit" \/ request[t].op = "limit",
           gAllocated' = gAllocated \/ current = "limit" \/ request[t].op = "limit",
           skew' = skew \/ request[t].op = "limit",
           \/ Sizes' = Sizes \/ stray' \/ current = "limit" \/ ~limit_enabled
           \/ \E v \in Thread : request[v].pc = "measure"
    PROVE  OneLimit'
<1>1. \A u \in Thread \ {t} : request'[u] = request[u]
  BY Zenon DEF Alone
<1>2. \A u, v \in Thread : request'[u].op = "limit" /\ request'[v].op = "limit" => u = v
  BY <1>1 DEF OneLimit, Limiting
<1>3. current' = "limit" => limit_enabled'
  BY Zenon DEF OneLimit, Limiting
<1>4. ASSUME NEW u \in Thread, u # t, request[u].op = "limit" PROVE Limiting(u)'
  <2>1. Limiting(u) /\ request'[u] = request[u]
    BY <1>1, <1>4, Zenon DEF OneLimit
  <2>2. request[t].op # "limit"
    BY <1>4, Zenon DEF OneLimit
  <2>3. CASE current = "limit"
    BY <1>4, <2>1, <2>3, Zenon DEF Limiting
  <2>4. CASE current # "limit" /\ request[u].pc # "measure"
    <3>1. \A v \in Thread : request[v].pc # "measure"
      BY <1>4, <2>4, Zenon DEF OneLimit, Locking, Doing
    <3>2. /\ current' # "limit" /\ gAllocated' = gAllocated /\ skew' = skew
          /\ Sizes' = Sizes \/ stray'
      BY <1>4, <2>1, <2>2, <2>4, <3>1, Zenon DEF Limiting
    <3>3. Sizes' = Sizes => Total(Sizes)' = Total(Sizes)
      BY Zenon DEF Total, Bytes
    <3> QED
      BY <1>4, <2>1, <2>4, <3>2, <3>3, Zenon DEF Limiting
  <2>5. CASE current # "limit" /\ request[u].pc = "measure"
    BY <1>4, <2>1, <2>2, <2>5, Zenon DEF Limiting
  <2> QED
    BY <2>3, <2>4, <2>5, Zenon
<1>5. \A u \in Thread : Limiting(u)'
  BY <1>1, <1>4, Zenon DEF Limiting
<1> QED
  BY <1>2, <1>3, <1>5, Zenon DEF OneLimit

\* The counter can hold what is due, and less than nothing is due only if the
\* limit saw too little.
Held == Due \in Int /\ 0 - CountMod <= Due /\ Due < CountMod /\ (Due < 0 => skew < 0)

\* So it is of the weights and the skew that the invariant bounds.
LEMMA DueHeld == Weighed /\ Skewed => Held
<1> SUFFICES ASSUME Weighed, Skewed PROVE Held
  BY Zenon
<1>1. CountMod \in Nat /\ MaxCached \in Nat
  BY CountAssumption, Zenon
<1>2. PICK a \in Nat, b \in Nat, s \in Nat :
        a = Total(Ahead) /\ b = Total(Behind) /\ s = Total(Sizes)
  BY Zenon DEF Weighed
<1>3. a <= s /\ s + b + MaxCached < CountMod
  BY <1>2, Zenon DEF Weighed
<1>4. Due = s + b + skew - a
  BY <1>2, Zenon DEF Due
<1> QED
  BY <1>1, <1>3, <1>4 DEF Skewed, Held

\* A step of t that leaves the heap, the counter and the tables alone.
LEMMA CountQuiet ==
    ASSUME Additive, HookInv, CountInv, NEW t \in Thread, Alone(t), Handled(t)', Limiting(t)',
           UNCHANGED <<heap, gAllocated>>, current' = "limit" <=> current = "limit",
           skew' = skew \/ (request[t].op = "limit" /\ current # "limit" /\ Skewed'),
           limit_enabled => limit_enabled', stray => stray',
           \/ request'[t].block \in {NoBlock, request[t].block}
           \/ \A u \in Thread : request[u].block # request'[t].block,
           request'[t].op = "limit" => request[t].op = "limit" \/ ~limit_enabled,
           stray' \/ (Ahead'[t] = Ahead[t] /\ Behind'[t] = Behind[t])
    PROVE  CountInv'
<1>1. Shape /\ Locking /\ Blocks /\ OneLimit /\ Skewed /\ Counted
  BY Zenon DEF HookInv, CountInv
<1>2. Touches(t)
  BY <1>1, Zenon DEF Touches, Blocks
<1>3. \A b \in Block : heap'[b].size \in 0 .. MaxBytes
  BY <1>1, Zenon DEF Blocks
<1>4. Blocks'
  BY <1>1, <1>2, <1>3, BlocksKept, Zenon
<1>5. Sizes' = Sizes
  BY Zenon DEF Sizes
<1>6. OneLimit'
  BY <1>1, <1>5, OneLimitKept, Zenon
<1>7. Total(Sizes)' = Total(Sizes)
  BY <1>5, Zenon DEF Total, Bytes
<1>8. ASSUME ~stray' PROVE Total(Ahead)' = Total(Ahead) /\ Total(Behind)' = Total(Behind)
  <2>1. /\ Total(Ahead)' + Ahead[t] = Total(Ahead) + Ahead[t]
        /\ Total(Behind)' + Behind[t] = Total(Behind) + Behind[t]
    BY <1>1, <1>2, <1>4, <1>8, CountMoves, Zenon
  <2>2. Shape' /\ Blocks'
    BY <1>4, Zenon DEF Alone
  <2>3. Weighed /\ Weighed'
    BY <1>1, <2>2, AdditiveStays, Weights, PTL
  <2>4. Ahead[t] \in Nat /\ Behind[t] \in Nat
    BY <2>3, CountAssumption DEF Weighed
  <2> QED
    BY <2>1, <2>3, <2>4 DEF Weighed
<1>9. Skewed'
  BY <1>1, Zenon DEF Skewed
<1>10. Counted'
  <2>1. current' = "limit" /\ ~stray' => Due' = Due
    BY <1>1, <1>7, <1>8, Zenon DEF Due
  <2> QED
    BY <1>1, <2>1, Zenon DEF Counted, Wrapped
<1> QED
  BY <1>4, <1>6, <1>9, <1>10, Zenon DEF CountInv

\* Only the pc of t moves.
LEMMA Moving ==
    ASSUME Shape, NEW t \in Thread, NEW l, Proceed(t, l), heap' = [b \in Block |-> heap'[b]]
    PROVE  /\ Alone(t)
           /\ request'[t].pc = l /\ request'[t].op = request[t].op
           /\ request'[t].block = request[t].block /\ request'[t].bytes = request[t].bytes
           /\ request'[t].old = request[t].old /\ request'[t].limited = request[t].limited
<1>1. Alone(t)
  BY Proceeding, Zenon
<1>2. PICK r : r = request[t] /\ r = [x \in Fields |-> r[x]]
  BY Zenon DEF Shape
<1>3. request'[t] = [r EXCEPT !.pc = l]
  BY <1>2, Zenon DEF Proceed, Shape
<1> QED
  BY <1>1, <1>2, <1>3, Zenon DEF Fields

\* A step that touches neither a block nor the count keeps the invariant.
LEMMA CountProceed ==
    ASSUME Additive, HookInv, CountInv, NEW t \in Thread, NEW l, Proceed(t, l),
           UNCHANGED <<heap, gAllocated, limit_enabled, stray, skew>>, current' = "limit" <=> current = "limit",
           request[t].op \notin {"free", "realloc"},
           request[t].pc # "count", l \notin {"check", "uncount", "fetch", "count", "store"},
           request[t].op = "limit" => \/ l \in {"exchange", "current"} /\ request[t].pc \in {"lock", "exchange"}
                                      \/ l \in {"clear", "unlock"}
    PROVE  CountInv'
<1>1. /\ Alone(t)
      /\ request'[t].pc = l /\ request'[t].op = request[t].op
      /\ request'[t].block = request[t].block /\ request'[t].bytes = request[t].bytes
      /\ request'[t].old = request[t].old /\ request'[t].limited = request[t].limited
  BY Moving, Zenon DEF HookInv, Shape
<1>2. Handled(t) /\ Limiting(t)
  BY Zenon DEF CountInv, Blocks, OneLimit
<1>3. Handled(t)'
  BY <1>1, <1>2, Zenon DEF Handled
<1>4. Total(Sizes)' = Total(Sizes)
  BY Zenon DEF Total, Bytes, Sizes
<1>5. Limiting(t)'
  BY <1>1, <1>2, <1>4, Zenon DEF Limiting
<1>6. Ahead'[t] = Ahead[t] /\ Behind'[t] = Behind[t]
  BY <1>1, Zenon DEF Ahead, Behind
<1> QED
  BY <1>1, <1>3, <1>5, <1>6, CountQuiet, Zenon

\* The request of t becomes r.
LEMMA Becoming ==
    ASSUME HookInv, NEW t \in Thread, NEW r, r = [x \in Fields |-> r[x]], r.block \in Block \cup {NoBlock},
           request' = [request EXCEPT ![t] = r], heap' = [b \in Block |-> heap'[b]]
    PROVE  Alone(t) /\ request'[t] = r
<1>1. Shape /\ Made(r, r.op, r.pc, r.table)
  BY Zenon DEF HookInv, Made
<1>2. PICK op, pc, table : Made(r, op, pc, table)
  BY <1>1, Zenon
<1>3. Alone(t)
  BY <1>1, <1>2, Replacing, Zenon
<1> QED
  BY <1>1, <1>3, Zenon DEF Shape

\* The request of a thread outside any call.
LEMMA NothingKnown ==
    /\ NoRequest = [x \in Fields |-> NoRequest[x]] /\ NoRequest.block = NoBlock
    /\ NoRequest.op = "none" /\ NoRequest.pc = "idle" /\ NoRequest.old = 0 /\ ~NoRequest.limited
    /\ NoRequest.limited \in BOOLEAN
  BY Zenon DEF NoRequest, Fields

\* So does a return with nothing left to count.
LEMMA CountReturn ==
    ASSUME Additive, HookInv, CountInv, NEW t \in Thread, Return(t),
           UNCHANGED <<heap, gAllocated, current, limit_enabled, skew>>, stray => stray',
           stray' \/ (Ahead[t] = 0 /\ Behind[t] = 0)
    PROVE  CountInv'
<1>1. Alone(t) /\ request'[t] = NoRequest
  <2>1. heap' = [b \in Block |-> heap'[b]]
    BY Zenon DEF HookInv, Shape
  <2> QED
    BY <2>1, NothingKnown, Becoming, Zenon DEF Return
<1>2. Handled(t)'
  BY <1>1, NothingKnown, CountAssumption DEF Handled
<1>3. Limiting(t)'
  BY <1>1, NothingKnown, Zenon DEF Limiting
<1>4. Ahead'[t] = 0 /\ Behind'[t] = 0
  BY <1>1, NothingKnown, Zenon DEF Ahead, Behind
<1> QED
  BY <1>1, <1>2, <1>3, <1>4, NothingKnown, CountQuiet, Zenon

-----------------------------------------------------------------------------
\* So does the entry into malloc, free or realloc.
LEMMA CountEnter ==
    ASSUME Additive, HookInv, CountInv, NEW t \in Thread, NEW op \in {"malloc", "free", "realloc"},
           NEW b \in Block \cup {NoBlock}, NEW bytes \in Nat, Enter(t, op, b, bytes),
           op = "malloc" <=> b = NoBlock, b # NoBlock => b \in Owned
    PROVE  CountInv'
<1>1. PICK r : r = [op |-> op, block |-> b, bytes |-> bytes,
                    pc |-> IF current # "limit" THEN "serve"
                           ELSE IF op = "free" THEN "uncount" ELSE "check",
                    table |-> current, limited |-> (current = "limit"),
                    old |-> IF b = NoBlock THEN 0 ELSE heap[b].size]
  BY Zenon
<1>2. /\ r = [x \in Fields |-> r[x]] /\ r.op = op /\ r.block = b /\ r.bytes = bytes
      /\ r.pc \in {"serve", "uncount", "check"} /\ (r.pc = "uncount" => op = "free")
      /\ (r.pc = "check" => op # "free") /\ (r.pc = "serve" <=> current # "limit")
      /\ r.limited \in BOOLEAN /\ (r.limited <=> current = "limit")
      /\ r.old = IF b = NoBlock THEN 0 ELSE heap[b].size
  BY <1>1, Zenon DEF Fields
<1>3. /\ request' = [request EXCEPT ![t] = r] /\ request[t].pc = "idle"
      /\ UNCHANGED <<heap, gAllocated, current, limit_enabled, stray, skew>>
  BY <1>1, Zenon DEF Enter, StartRequest, tables, control, memory
<1>4. Alone(t) /\ request'[t] = r
  BY <1>2, <1>3, Becoming, Zenon DEF HookInv, Shape
<1>5. b # NoBlock => /\ heap[b].size \in 0 .. MaxBytes /\ heap[b] # Free
                     /\ \A u \in Thread : request[u].block # b
  BY Zenon DEF CountInv, Blocks, Owned, Busy
<1>6. Handled(t)'
  <2>1. /\ r.old \in 0 .. MaxBytes /\ (r.block # NoBlock => heap'[r.block] # Free)
        /\ r.op \in {"free", "realloc"} => r.block # NoBlock /\ r.old = heap'[r.block].size
        /\ r.op \notin {"free", "realloc"} => r.old = 0 /\ r.block = NoBlock
    BY <1>2, <1>3, <1>5, CountAssumption
  <2> QED
    BY <1>2, <1>3, <1>4, <2>1, Zenon DEF Handled
<1>7. Limiting(t)'
  BY <1>2, <1>4, Zenon DEF Limiting
<1>8. Ahead'[t] = 0 /\ Behind'[t] = 0
  BY <1>2, <1>4, Zenon DEF Ahead, Behind
<1>9. Ahead[t] = 0 /\ Behind[t] = 0
  BY <1>3, Zenon DEF Ahead, Behind
<1> QED
  BY <1>2, <1>3, <1>4, <1>5, <1>6, <1>7, <1>8, <1>9, CountQuiet, Zenon

\* So does the beginning of a change of tables.
LEMMA CountBegin ==
    ASSUME Additive, HookInv, CountInv, NEW t \in Thread, NEW op, NEW l \in {"exchange", "lock", "measure"},
           BeginMutation(t, op, l), op \notin {"malloc", "free", "realloc"},
           op = "limit" => ~limit_enabled /\ limit_enabled' /\ l = "measure",
           limit_enabled => limit_enabled', UNCHANGED <<heap, gAllocated, current, stray, skew>>
    PROVE  CountInv'
<1>1. PICK r : r = [NoRequest EXCEPT !.op = op, !.pc = l]
  BY Zenon
<1>2. /\ r = [x \in Fields |-> r[x]] /\ r.block = NoBlock /\ r.op = op /\ r.pc = l
      /\ r.old = 0 /\ ~r.limited /\ r.limited \in BOOLEAN
  BY <1>1, Zenon DEF NoRequest, Fields
<1>3. request' = [request EXCEPT ![t] = r] /\ request[t].pc = "idle"
  BY <1>1, Zenon DEF BeginMutation, StartRequest
<1>4. Alone(t) /\ request'[t] = r
  BY <1>2, <1>3, Becoming, Zenon DEF HookInv, Shape
<1>5. Handled(t)'
  <2>1. 0 \in 0 .. MaxBytes
    BY Sizing, Zenon
  <2> QED
    BY <1>2, <1>4, <2>1, Zenon DEF Handled
<1>6. Limiting(t)'
  BY <1>2, <1>4, Zenon DEF Limiting, CountInv, OneLimit
<1>7. Ahead'[t] = 0 /\ Behind'[t] = 0 /\ Ahead[t] = 0 /\ Behind[t] = 0
  BY <1>2, <1>3, <1>4, Zenon DEF Ahead, Behind
<1> QED
  BY <1>2, <1>4, <1>5, <1>6, <1>7, CountQuiet, Zenon

\* So does the beginning of any call.
LEMMA CountStarts ==
    ASSUME Additive, HookInv, CountInv, NEW t \in Thread, Starts(t)
    PROVE  CountInv'
<1>0. /\ \A b \in Owned : b \in Block /\ b # NoBlock
      /\ \A n \in 0 .. MaxBytes : n \in Nat
      /\ 1 .. MaxBytes \subseteq 0 .. MaxBytes /\ 0 \in Nat
  BY CountAssumption DEF Owned
<1>1. CASE Malloc(t)
  BY <1>0, <1>1, CountEnter, Zenon DEF Malloc
<1>2. CASE Dispose(t)
  BY <1>0, <1>2, CountEnter, Zenon DEF Dispose
<1>3. CASE Realloc(t)
  BY <1>0, <1>3, CountEnter, Zenon DEF Realloc
<1>4. CASE HandleHeapprofdSignal(t)
  BY <1>4, CountBegin, Zenon DEF HandleHeapprofdSignal, tables, control, memory
<1>5. CASE InitHeapprofd(t)
  BY <1>5, CountBegin, Zenon DEF InitHeapprofd, tables, memory
<1>6. CASE DispatchReset(t)
  BY <1>6, CountBegin, Zenon DEF DispatchReset, tables, control, memory
<1>7. CASE LimitEnable(t)
  BY <1>7, CountBegin, Zenon DEF LimitEnable, tables, memory
<1> QED
  BY <1>1, <1>2, <1>3, <1>4, <1>5, <1>6, <1>7, Zenon DEF Starts

\* The limit is compared, and the call refused or let on.
LEMMA CountCheck ==
    ASSUME Additive, HookInv, CountInv, NEW t \in Thread, Check(t)
    PROVE  CountInv'
<1>1. PICK c : c = request[t]
  BY Zenon
<1>2. /\ c.pc = "check" /\ c = [x \in Fields |-> c[x]] /\ c.block \in Block \cup {NoBlock}
      /\ c.op \in {"malloc", "realloc"} /\ c.limited
  BY <1>1, Zenon DEF Check, HookInv, Locking, Shape, Doing, CountInv, Blocks, Handled
<1>3. /\ UNCHANGED <<heap, gAllocated, current, limit_enabled, stray, skew>>
      /\ heap' = [b \in Block |-> heap'[b]]
  BY Zenon DEF Check, HookInv, Shape, tables, control, memory
<1>4. Ahead[t] = 0 /\ Behind[t] = 0 /\ Handled(t)
  BY <1>1, <1>2, Zenon DEF Ahead, Behind, CountInv, Blocks
<1>5. \/ request' = [request EXCEPT ![t] = [c EXCEPT !.pc = "fetch"]]
      \/ Return(t)
      \/ request' = [request EXCEPT ![t] = [c EXCEPT !.op = "free", !.pc = "uncount"]] /\ c.op = "realloc"
  BY <1>1, <1>2, Zenon DEF Check, Return
<1>6. CASE Return(t)
  BY <1>3, <1>4, <1>6, CountReturn, Zenon
<1>7. CASE \E op, pc : /\ request' = [request EXCEPT ![t] = [c EXCEPT !.op = op, !.pc = pc]]
                       /\ \/ op = c.op /\ pc = "fetch"
                          \/ c.op = "realloc" /\ op = "free" /\ pc = "uncount"
  <2>1. PICK op, pc : /\ request' = [request EXCEPT ![t] = [c EXCEPT !.op = op, !.pc = pc]]
                      /\ \/ op = c.op /\ pc = "fetch"
                         \/ c.op = "realloc" /\ op = "free" /\ pc = "uncount"
    BY <1>7, Zenon
  <2>2. PICK r : r = [c EXCEPT !.op = op, !.pc = pc]
    BY Zenon
  <2>3. /\ r = [x \in Fields |-> r[x]] /\ r.op = op /\ r.pc = pc /\ r.block = c.block
        /\ r.bytes = c.bytes /\ r.old = c.old /\ r.limited = c.limited
    BY <1>2, <2>2, Zenon DEF Fields
  <2>4. Alone(t) /\ request'[t] = r
    <3>1. request' = [request EXCEPT ![t] = r] /\ r.block \in Block \cup {NoBlock}
      BY <1>2, <2>1, <2>2, <2>3, Zenon
    <3> QED
      BY <1>3, <2>3, <3>1, Becoming, Zenon
  <2>5. Handled(t)'
    <3>1. /\ c.old \in 0 .. MaxBytes /\ c.limited \in BOOLEAN /\ c.bytes \in Nat
          /\ c.block # NoBlock => heap[c.block] # Free
          /\ c.op = "realloc" => c.block # NoBlock /\ c.old = heap[c.block].size
          /\ c.op = "malloc" => c.old = 0 /\ c.block = NoBlock
          /\ c.limited => current = "limit"
      BY <1>1, <1>2, <1>4, Zenon DEF Handled
    <3> QED
      BY <1>2, <1>3, <2>1, <2>3, <2>4, <3>1, ZenonT(30) DEF Handled
  <2>6. Limiting(t)'
    BY <1>2, <2>1, <2>3, <2>4, Zenon DEF Limiting
  <2>7. Ahead'[t] = 0 /\ Behind'[t] = 0
    BY <1>2, <2>1, <2>3, <2>4, Zenon DEF Ahead, Behind
  <2> QED
    BY <1>1, <1>2, <1>3, <1>4, <2>1, <2>3, <2>4, <2>5, <2>6, <2>7, CountQuiet, ZenonT(30)
<1>8. [c EXCEPT !.pc = "fetch"] = [c EXCEPT !.op = c.op, !.pc = "fetch"]
  BY <1>2, Zenon DEF Fields
<1> QED
  BY <1>5, <1>6, <1>7, <1>8, Zenon

\* The table is fetched.
LEMMA CountFetches ==
    ASSUME Additive, HookInv, CountInv, NEW t \in Thread, Fetch(t) \/ Fallback(t)
    PROVE  CountInv'
<1>1. PICK c : c = request[t]
  BY Zenon
<1>2. /\ c = [x \in Fields |-> c[x]] /\ c.block \in Block \cup {NoBlock}
      /\ c.pc \in {"fetch", "fallback"} /\ c.op \in {"malloc", "free", "realloc"}
      /\ c.pc = "fallback" => c.op = "malloc"
      /\ Handled(t) /\ (c.pc = "fetch" => c.limited)
  BY <1>1, Zenon DEF Fetch, Fallback, HookInv, Locking, Shape, Doing, CountInv, Blocks, Handled
<1>3. PICK table : request' = [request EXCEPT ![t] = [c EXCEPT !.pc = "serve", !.table = table]]
  BY <1>1, Zenon DEF Fetch, Fallback, HookInv, Shape
<1>4. /\ UNCHANGED <<heap, gAllocated, current, limit_enabled, stray, skew>>
      /\ heap' = [b \in Block |-> heap'[b]]
  BY Zenon DEF Fetch, Fallback, HookInv, Shape, tables, control, memory
<1>5. PICK r : r = [c EXCEPT !.pc = "serve", !.table = table]
  BY Zenon
<1>6. /\ r = [x \in Fields |-> r[x]] /\ r.op = c.op /\ r.pc = "serve" /\ r.block = c.block
      /\ r.bytes = c.bytes /\ r.old = c.old /\ r.limited = c.limited
  BY <1>2, <1>5, Zenon DEF Fields
<1>7. Alone(t) /\ request'[t] = r
  <2>1. request' = [request EXCEPT ![t] = r] /\ r.block \in Block \cup {NoBlock}
    BY <1>2, <1>3, <1>5, <1>6, Zenon
  <2> QED
    BY <1>4, <1>6, <2>1, Becoming, Zenon
<1>8. Handled(t)'
  BY <1>1, <1>2, <1>4, <1>6, <1>7, ZenonT(30) DEF Handled
<1>9. Limiting(t)'
  BY <1>2, <1>6, <1>7, Zenon DEF Limiting
<1>10. Ahead'[t] = Ahead[t] /\ Behind'[t] = Behind[t]
  BY <1>1, <1>2, <1>6, <1>7, Zenon DEF Ahead, Behind
<1> QED
  BY <1>1, <1>2, <1>4, <1>6, <1>7, <1>8, <1>9, <1>10, CountQuiet, Zenon

\* The counter moves by what t has been counted for, and nothing else does.
LEMMA CountAdjusts ==
    ASSUME Additive, HookInv, CountInv, NEW t \in Thread, Alone(t), Handled(t)', Limiting(t)', Touches(t),
           request[t].limited, request'[t].op # "limit",
           UNCHANGED <<heap, current, limit_enabled, stray, skew>>,
           NEW up \in Nat, NEW down \in Nat,
           stray \/ gAllocated' = (gAllocated + CountMod + up - down) % CountMod,
           Ahead'[t] + up = Ahead[t] + down + Behind'[t] - Behind[t],
           Ahead[t] \in Nat, Ahead'[t] \in Nat, Behind[t] \in Nat, Behind'[t] \in Nat
    PROVE  CountInv'
<1>1. Shape /\ Locking /\ Blocks /\ OneLimit /\ Skewed /\ Counted /\ current = "limit"
  BY Zenon DEF HookInv, CountInv, Blocks, Handled
<1>2. Blocks'
  BY <1>1, BlocksKept, Zenon DEF Blocks
<1>3. OneLimit'
  BY <1>1, OneLimitKept, Zenon
<1>4. Skewed'
  BY <1>1, Zenon DEF Skewed
<1>5. Counted'
  <2> SUFFICES ASSUME ~stray PROVE gAllocated' = Wrapped(Due')
    BY Zenon DEF Counted, Wrapped
  <2>1. gAllocated = Wrapped(Due)
    BY <1>1, Zenon DEF Counted
  <2>2. Shape' /\ Blocks'
    BY <1>2, Zenon DEF Alone
  <2>3. Weighed /\ Weighed'
    BY <1>1, <2>2, AdditiveStays, Weights, PTL
  <2>4. /\ Total(Ahead)' + Ahead[t] = Total(Ahead) + Ahead'[t]
        /\ Total(Behind)' + Behind[t] = Total(Behind) + Behind'[t]
    BY <1>1, <1>2, CountMoves, Zenon
  <2>5. Total(Sizes)' = Total(Sizes)
    BY Zenon DEF Total, Bytes, Sizes
  <2>6. PICK n \in Int : n = Due /\ 0 - CountMod <= n /\ n < CountMod
    BY <1>1, <2>3, DueHeld, Zenon DEF Held
  <2>7. PICK k \in Int : k = Due' /\ 0 - CountMod <= k /\ k < CountMod
    <3>1. Held'
      BY <1>4, <2>3, DueHeld, PTL
    <3> QED
      BY <3>1, Zenon DEF Held
  <2>8. k - n = up - down
    <3>1. PICK a \in Nat, a1 \in Nat, b \in Nat, b1 \in Nat, s \in Nat :
            /\ a = Total(Ahead) /\ a1 = Total(Ahead)' /\ b = Total(Behind) /\ b1 = Total(Behind)'
            /\ s = Total(Sizes)
      BY <2>3, Zenon DEF Weighed
    <3>2. PICK p \in Nat, p1 \in Nat, q \in Nat, q1 \in Nat :
            p = Ahead[t] /\ p1 = Ahead'[t] /\ q = Behind[t] /\ q1 = Behind'[t]
      BY Zenon
    <3>3. /\ p1 + up = p + down + q1 - q
          /\ a1 + p = a + p1 /\ b1 + q = b + q1
      BY <2>4, <3>1, <3>2, Zenon
    <3>4. PICK w \in Int : w = skew
      BY <1>1, Zenon DEF Skewed
    <3>5. n = s + b + w - a /\ k = s + b1 + w - a1
      BY <2>5, <2>6, <2>7, <3>1, <3>4, Zenon DEF Due
    <3>6. k - n = (b1 - b) - (a1 - a)
      BY <3>5, SMTT(30)
    <3>7. b1 - b = q1 - q /\ a1 - a = p1 - p /\ up - down = (q1 - q) - (p1 - p)
      BY <3>3, SMTT(30)
    <3> QED
      BY <3>6, <3>7, Zenon
  <2>9. gAllocated' = (gAllocated + CountMod + (k - n)) % CountMod
    <3>1. gAllocated \in Int
      BY <2>1, <2>6, CountAssumption DEF Wrapped
    <3>2. gAllocated + CountMod + up - down = gAllocated + CountMod + (up - down)
      BY <3>1, CountAssumption
    <3> QED
      BY <2>8, <3>2, Zenon
  <2>10. gAllocated' = Wrapped(k)
    BY <2>1, <2>6, <2>7, <2>9, Wraps, Zenon
  <2> QED
    BY <2>7, <2>10, Zenon
<1> QED
  BY <1>2, <1>3, <1>4, <1>5, Zenon DEF CountInv

\* While the limit is in place the counter is a number.
LEMMA CountNumber ==
    ASSUME Additive, HookInv, CountInv, current = "limit", ~stray
    PROVE  gAllocated \in Int
<1>1. Weighed /\ Skewed /\ gAllocated = Wrapped(Due)
  BY Weights, Zenon DEF HookInv, CountInv, Counted
<1>2. Due \in Int
  BY <1>1, DueHeld, Zenon DEF Held
<1> QED
  BY <1>1, <1>2, CountAssumption DEF Wrapped

\* A block is taken off the count before it is freed.
LEMMA CountUncount ==
    ASSUME Additive, HookInv, CountInv, NEW t \in Thread, Uncount(t)
    PROVE  CountInv'
<1>1. /\ request[t].pc = "uncount" /\ Proceed(t, "fetch")
      /\ UNCHANGED <<heap, current, limit_enabled, stray, skew>>
      /\ gAllocated' = (gAllocated + CountMod - request[t].old) % CountMod
  BY Zenon DEF Uncount, tables, control
<1>2. Handled(t) /\ request[t].limited /\ request[t].op = "free" /\ request[t].old \in Nat
  BY <1>1, CountAssumption DEF CountInv, Blocks, Handled
<1>3. /\ Alone(t)
      /\ request'[t].pc = "fetch" /\ request'[t].op = request[t].op
      /\ request'[t].block = request[t].block /\ request'[t].bytes = request[t].bytes
      /\ request'[t].old = request[t].old /\ request'[t].limited = request[t].limited
  BY <1>1, Moving, Zenon DEF HookInv, Shape
<1>4. Handled(t)' /\ Limiting(t)'
  BY <1>1, <1>2, <1>3, Zenon DEF Handled, Limiting
<1>5. Touches(t)
  BY <1>1, <1>3, Zenon DEF Touches, CountInv, Blocks
<1>6. Ahead[t] = 0 /\ Behind[t] = 0 /\ Ahead'[t] = request[t].old /\ Behind'[t] = 0
  BY <1>1, <1>2, <1>3, Zenon DEF Ahead, Behind
<1>7. PICK down \in Nat : down = request[t].old
  BY <1>2, Zenon
<1>8. stray \/ gAllocated' = (gAllocated + CountMod + 0 - down) % CountMod
  <2>1. stray \/ gAllocated \in Int
    BY <1>2, CountNumber, Zenon DEF Handled
  <2>2. stray \/ gAllocated + CountMod - down = gAllocated + CountMod + 0 - down
    BY <2>1, CountAssumption
  <2> QED
    BY <1>1, <1>7, <2>2, Zenon
<1>9. Ahead'[t] + 0 = Ahead[t] + down + Behind'[t] - Behind[t]
  BY <1>6, <1>7
<1> QED
  BY <1>1, <1>2, <1>3, <1>4, <1>5, <1>6, <1>7, <1>8, <1>9, CountAdjusts

\* The allocator changes block b for t, which the counter is told of or will be.
LEMMA CountHeap ==
    ASSUME Additive, HookInv, CountInv, NEW t \in Thread, Alone(t), Handled(t)', request'[t].op # "limit",
           Touches(t), NEW b \in Block, \A x \in Block \ {b} : heap'[x] = heap[x],
           heap'[b].size \in 0 .. MaxBytes, UNCHANGED <<gAllocated, current, limit_enabled, skew>>,
           stray => stray',
           \/ stray' \/ ~limit_enabled
           \/ current # "limit" /\ \E v \in Thread : request[v].pc = "measure"
           \/ /\ request[t].limited
              /\ Ahead'[t] + Behind[t] + heap[b].size = Ahead[t] + Behind'[t] + heap'[b].size
    PROVE  CountInv'
<1>1. Shape /\ Shape' /\ Locking /\ Blocks /\ OneLimit /\ Skewed /\ Counted
  BY Zenon DEF HookInv, CountInv, Alone
<1>2. \A x \in Block : heap'[x].size \in 0 .. MaxBytes
  BY <1>1, Zenon DEF Blocks
<1>3. Blocks'
  BY <1>1, <1>2, BlocksKept, Zenon
<1>4. Limiting(t)' /\ (request[t].limited => current = "limit")
  BY <1>1, Zenon DEF Limiting, Blocks, Handled
<1>5. OneLimit'
  BY <1>1, <1>4, OneLimitKept, Zenon
<1>6. Skewed'
  BY <1>1, Zenon DEF Skewed
<1>7. Counted'
  <2> SUFFICES ASSUME ~stray', current' = "limit" PROVE Due' = Due
    BY <1>1, Zenon DEF Counted, Wrapped
  <2>1. PICK w \in Int : w = skew /\ w = skew'
    BY <1>1, Zenon DEF Skewed
  <2>2. Ahead'[t] + Behind[t] + heap[b].size = Ahead[t] + Behind'[t] + heap'[b].size
    BY <1>1, Zenon DEF OneLimit
  <2>3. Weighed /\ Weighed'
    BY <1>1, <1>3, AdditiveStays, Weights, PTL
  <2>4. /\ Total(Ahead)' + Ahead[t] = Total(Ahead) + Ahead'[t]
        /\ Total(Behind)' + Behind[t] = Total(Behind) + Behind'[t]
    BY <1>1, <1>3, CountMoves, Zenon
  <2>5. Total(Sizes)' + heap[b].size = Total(Sizes) + heap'[b].size
    BY <1>1, <1>3, SizesMove, Zenon
  <2>6. PICK a \in Nat, a1 \in Nat, p \in Nat, p1 \in Nat, s \in Nat, s1 \in Nat :
          /\ a = Total(Ahead) /\ a1 = Total(Ahead)' /\ p = Total(Behind) /\ p1 = Total(Behind)'
          /\ s = Total(Sizes) /\ s1 = Total(Sizes)'
    BY <2>3, Zenon DEF Weighed
  <2>7. PICK d \in Nat, d1 \in Nat, e \in Nat, e1 \in Nat, h \in Nat, h1 \in Nat :
          /\ d = Ahead[t] /\ d1 = Ahead'[t] /\ e = Behind[t] /\ e1 = Behind'[t]
          /\ h = heap[b].size /\ h1 = heap'[b].size
    <3>1. /\ Ahead[t] \in 0 .. MaxBytes /\ Ahead'[t] \in 0 .. MaxBytes
          /\ Behind[t] \in 0 .. MaxBytes /\ Behind'[t] \in 0 .. MaxBytes
          /\ heap[b].size \in 0 .. MaxBytes
      BY <1>1, <2>3, Zenon DEF Weighed, Blocks
    <3> QED
      BY <3>1, Sizing, Zenon
  <2>8. a1 + d = a + d1 /\ p1 + e = p + e1 /\ s1 + h = s + h1 /\ d1 + e + h = d + e1 + h1
    BY <2>2, <2>4, <2>5, <2>6, <2>7, Zenon
  <2>9. s1 + p1 + w - a1 = s + p + w - a
    BY <2>8, SMTT(30)
  <2> QED
    BY <2>1, <2>6, <2>9, Zenon DEF Due
<1> QED
  BY <1>3, <1>5, <1>6, <1>7, Zenon DEF CountInv

\* Whoever goes on unseen by a limit in place makes the heap one it cannot know.
LEMMA Straying ==
    ASSUME Additive, HookInv, CountInv, NEW t \in Thread, Strays(t)
    PROVE  /\ stray => stray'
           /\ \/ stray' \/ ~limit_enabled \/ request[t].limited
              \/ current # "limit" /\ \E v \in Thread : request[v].pc = "measure"
<1>1. ASSUME NEW v \in Thread, request[v].pc = "measure" PROVE current # "limit"
  BY <1>1, Zenon DEF HookInv, Locking, Doing, CountInv, OneLimit, Limiting
<1> QED
  BY <1>1, Zenon DEF Strays

\* The allocator is done with block b: the call returns, or goes on to be counted
\* with block x.
LEMMA CountServed ==
    ASSUME Additive, HookInv, CountInv, NEW t \in Thread, Strays(t), NEW b \in Block, NEW x \in {b, NoBlock},
           NEW g, heap' = [heap EXCEPT ![b] = g], g.size \in 0 .. MaxBytes,
           request[t].pc = "serve", request[t].op \in {"malloc", "realloc"},
           request[t].op = "malloc" => heap[b] = Free, request[t].op = "realloc" => request[t].block = b,
           x # NoBlock => g # Free, x = NoBlock => g.size = 0,
           request' = [request EXCEPT ![t] =
                           IF request[t].limited THEN [request[t] EXCEPT !.pc = "count", !.block = x]
                           ELSE NoRequest],
           UNCHANGED <<gAllocated, current, limit_enabled, skew>>
    PROVE  CountInv'
<1>1. PICK c : c = request[t]
  BY Zenon
<1>2. /\ Shape /\ Blocks /\ c.pc = "serve" /\ c.op \in {"malloc", "realloc"} /\ Handled(t)
      /\ c = [f \in Fields |-> c[f]] /\ c.limited \in BOOLEAN /\ c.bytes \in Nat
      /\ b # NoBlock
  BY <1>1, CountAssumption, Zenon DEF HookInv, Shape, CountInv, Blocks, Handled
<1>3. PICK r : r = IF c.limited THEN [c EXCEPT !.pc = "count", !.block = x] ELSE NoRequest
  BY Zenon
<1>4. /\ r = [f \in Fields |-> r[f]] /\ r.block \in Block \cup {NoBlock}
      /\ request' = [request EXCEPT ![t] = r] /\ heap' = [y \in Block |-> heap'[y]]
  BY <1>1, <1>2, <1>3, NothingKnown, Zenon DEF Fields, Shape
<1>5. Alone(t) /\ request'[t] = r
  BY <1>4, Becoming, ZenonT(30)
<1>6. c.limited => /\ r.pc = "count" /\ r.block = x /\ r.op = c.op /\ r.bytes = c.bytes
                   /\ r.old = c.old /\ r.limited = c.limited
  BY <1>2, <1>3, Zenon DEF Fields
<1>7. ~c.limited => r = NoRequest
  BY <1>3, Zenon
<1>8. /\ heap'[b] = g /\ (\A y \in Block \ {b} : heap'[y] = heap[y])
      /\ c.old \in 0 .. MaxBytes /\ c.old = heap[b].size
      /\ c.op = "malloc" => c.old = 0
      /\ c.limited => current = "limit"
  <2>1. heap'[b] = g /\ (\A y \in Block \ {b} : heap'[y] = heap[y])
    BY <1>2, Zenon DEF Shape
  <2>2. Free.size = 0
    BY Zenon DEF Free
  <2>3. c.op = "malloc" => heap[b].size = 0
    BY <1>1, <2>2, Zenon
  <2> QED
    BY <1>1, <1>2, <2>1, <2>3, Zenon DEF Handled
<1>9. r.op # "limit"
  BY <1>2, <1>6, <1>7, NothingKnown, Zenon
<1>10. Handled(t)'
  <2>1. CASE c.limited
    <3>1. r.block # NoBlock => heap'[r.block] # Free
      BY <1>6, <1>8, <2>1
    <3> QED
      BY <1>2, <1>5, <1>6, <1>8, <2>1, <3>1, ZenonT(30) DEF Handled
  <2>2. CASE ~c.limited
    <3>1. 0 \in 0 .. MaxBytes
      BY Sizing, Zenon
    <3> QED
      BY <1>5, <1>7, <2>2, <3>1, NothingKnown, Zenon DEF Handled
  <2> QED
    BY <2>1, <2>2, Zenon
<1>11. Touches(t)
  <2> SUFFICES ASSUME NEW u \in Thread \ {t}, request[u].block # NoBlock
               PROVE  heap'[request[u].block] = heap[request[u].block] /\ r.block # request[u].block
    BY <1>5, Zenon DEF Touches
  <2>1. request[u].block \in Block /\ heap[request[u].block] # Free
    BY <1>2, Zenon DEF Shape, Blocks, Handled
  <2>2. request[u].block # b
    BY <1>1, <1>2, <2>1, Zenon DEF Blocks
  <2>3. r.block \in {b, NoBlock}
    BY <1>6, <1>7, NothingKnown, Zenon
  <2> QED
    BY <1>8, <2>1, <2>2, <2>3, Zenon
<1>12. c.limited => Ahead'[t] + Behind[t] + heap[b].size = Ahead[t] + Behind'[t] + heap'[b].size
  <2> SUFFICES ASSUME c.limited
               PROVE  Ahead'[t] + Behind[t] + heap[b].size = Ahead[t] + Behind'[t] + heap'[b].size
    BY Zenon
  <2>1. Ahead[t] = 0 /\ Behind[t] = 0
    BY <1>1, <1>2, Zenon DEF Ahead, Behind
  <2>2. Behind'[t] = heap[b].size
    BY <1>5, <1>6, <1>8, Zenon DEF Behind
  <2>3. Ahead'[t] = g.size
    BY <1>2, <1>5, <1>6, <1>8 DEF Ahead
  <2>4. heap[b].size \in Nat /\ g.size \in Nat
    BY <1>8, CountAssumption
  <2> QED
    BY <1>8, <2>1, <2>2, <2>3, <2>4
<1>13. /\ stray => stray'
       /\ \/ stray' \/ ~limit_enabled \/ c.limited
          \/ current # "limit" /\ \E v \in Thread : request[v].pc = "measure"
  BY <1>1, Straying, Zenon
<1> QED
  BY <1>1, <1>5, <1>8, <1>9, <1>10, <1>11, <1>12, <1>13, CountHeap, Zenon

\* The allocator takes a block back.
LEMMA CountServeFree ==
    ASSUME Additive, HookInv, CountInv, NEW t \in Thread, ServeFree(t)
    PROVE  CountInv'
<1>1. PICK b : b = request[t].block
  BY Zenon
<1>2. /\ Shape /\ Blocks /\ request[t].pc = "serve" /\ request[t].op = "free" /\ Handled(t)
      /\ b \in Block /\ heap[b].size \in 0 .. MaxBytes /\ request[t].old = heap[b].size
  <2>1. Shape /\ Blocks /\ Handled(t) /\ request[t].pc = "serve" /\ request[t].op = "free"
    BY Zenon DEF HookInv, CountInv, Blocks, ServeFree
  <2>2. b # NoBlock /\ b \in Block \cup {NoBlock} /\ request[t].old = heap[b].size
    BY <1>1, <2>1, Zenon DEF Handled, Shape
  <2> QED
    BY <2>1, <2>2, Zenon DEF Blocks
<1>3. /\ heap' = [heap EXCEPT ![b] = Free] /\ Return(t) /\ Strays(t)
      /\ UNCHANGED <<gAllocated, current, limit_enabled, skew>>
  BY <1>1, Zenon DEF ServeFree, tables, control
<1>4. heap'[b] = Free /\ (\A y \in Block \ {b} : heap'[y] = heap[y]) /\ heap' = [y \in Block |-> heap'[y]]
  BY <1>2, <1>3, Zenon DEF Shape
<1>5. Alone(t) /\ request'[t] = NoRequest
  BY <1>3, <1>4, NothingKnown, Becoming, Zenon DEF Return
<1>6. Handled(t)'
  <2>1. 0 \in 0 .. MaxBytes
    BY Sizing, Zenon
  <2> QED
    BY <1>5, <2>1, NothingKnown, Zenon DEF Handled
<1>7. Touches(t)
  BY <1>1, <1>2, <1>4, <1>5, NothingKnown, Zenon DEF Touches, Blocks, Shape
<1>8. 0 \in 0 .. MaxBytes /\ Free.size = 0
  BY CountAssumption DEF Free
<1>9. request[t].limited =>
        Ahead'[t] + Behind[t] + heap[b].size = Ahead[t] + Behind'[t] + heap'[b].size
  <2> SUFFICES ASSUME request[t].limited
               PROVE  Ahead'[t] + Behind[t] + heap[b].size = Ahead[t] + Behind'[t] + heap'[b].size
    BY Zenon
  <2>1. Ahead[t] = heap[b].size /\ Behind[t] = 0 /\ heap[b].size \in Nat
    BY <1>2, CountAssumption DEF Ahead, Behind
  <2>2. Behind'[t] = 0 /\ Ahead'[t] = 0 /\ heap'[b].size = 0
    BY <1>4, <1>5, <1>8, NothingKnown, Zenon DEF Ahead, Behind
  <2> QED
    BY <2>1, <2>2
<1>10. /\ stray => stray'
       /\ \/ stray' \/ ~limit_enabled \/ request[t].limited
          \/ current # "limit" /\ \E v \in Thread : request[v].pc = "measure"
  BY <1>3, Straying, Zenon
<1>11. heap'[b].size \in 0 .. MaxBytes /\ request'[t].op # "limit"
  BY <1>4, <1>5, <1>8, NothingKnown, Zenon
<1> QED
  BY <1>2, <1>3, <1>4, <1>5, <1>6, <1>7, <1>9, <1>10, <1>11, CountHeap, Zenon

\* What the allocator hands out has a size and is not free.
LEMMA CountGrant ==
    ASSUME Additive, HookInv, CountInv, NEW t \in Thread, request[t].pc = "serve",
           request[t].op \in {"malloc", "realloc"},
           NEW x, NEW g \in Grants(x, request[t].bytes)
    PROVE  g.size \in 0 .. MaxBytes /\ g # Free
<1>1. request[t].bytes \in Nat
  BY Zenon DEF CountInv, Blocks, Handled
<1>2. g.size \in request[t].bytes .. MaxBytes /\ g.owner \in {"gwp", "native"}
  BY Zenon DEF Grants
<1>3. g.size \in 0 .. MaxBytes
  BY <1>1, <1>2, CountAssumption
<1>4. Free.owner = "none"
  BY Zenon DEF Free
<1> QED
  BY <1>2, <1>3, <1>4, Zenon

\* malloc is served.
LEMMA CountServeMalloc ==
    ASSUME Additive, HookInv, CountInv, NEW t \in Thread, ServeMalloc(t)
    PROVE  CountInv'
<1>1. /\ request[t].pc = "serve" /\ request[t].op = "malloc"
      /\ UNCHANGED <<gAllocated, current, limit_enabled, skew>>
  BY Zenon DEF ServeMalloc, tables, control
<1>2. CASE Return(t) /\ UNCHANGED <<heap, stray>>
  <2>1. Ahead[t] = 0 /\ Behind[t] = 0
    BY <1>1, Zenon DEF Ahead, Behind
  <2> QED
    BY <1>1, <1>2, <2>1, CountReturn, Zenon
<1>3. CASE ~(Return(t) /\ UNCHANGED <<heap, stray>>)
  <2>1. PICK g \in Grants(request[t].table, request[t].bytes), b \in Block :
          /\ heap[b] = Free /\ heap' = [heap EXCEPT ![b] = g]
          /\ request' = [request EXCEPT ![t] =
                        IF ~request[t].limited THEN NoRequest
                        ELSE [request[t] EXCEPT !.pc = "count", !.block = b]]
          /\ Strays(t)
    BY <1>3, Zenon DEF ServeMalloc
  <2>2. g.size \in 0 .. MaxBytes /\ g # Free
    BY <1>1, CountGrant, Zenon
  <2>3. request[t].limited \in BOOLEAN
    BY Zenon DEF CountInv, Blocks, Handled
  <2>4. request' = [request EXCEPT ![t] =
                        IF request[t].limited THEN [request[t] EXCEPT !.pc = "count", !.block = b]
                        ELSE NoRequest]
    BY <2>1, <2>3, Zenon
  <2>5. b # NoBlock
    BY CountAssumption, Zenon
  <2> QED
    BY <1>1, <2>1, <2>2, <2>4, <2>5, CountServed, Zenon
<1> QED
  BY <1>2, <1>3, Zenon

\* realloc is served, or fails and leaves the block.
LEMMA CountServeRealloc ==
    ASSUME Additive, HookInv, CountInv, NEW t \in Thread, ServeRealloc(t)
    PROVE  CountInv'
<1> DEFINE became(x) == request' = [request EXCEPT ![t] =
                           IF request[t].limited THEN [request[t] EXCEPT !.pc = "count", !.block = x]
                           ELSE NoRequest]
<1>1. /\ request[t].pc = "serve" /\ request[t].op = "realloc"
      /\ UNCHANGED <<gAllocated, current, limit_enabled, skew>>
  BY Zenon DEF ServeRealloc, tables, control
<1>2. PICK b \in Block : b = request[t].block /\ b # NoBlock
  <2>1. Handled(t) /\ request[t].block \in Block \cup {NoBlock}
    BY Zenon DEF HookInv, Shape, CountInv, Blocks
  <2> QED
    BY <1>1, <2>1, Zenon DEF Handled
<1>3. CASE /\ \E x : \E g \in Grants(x, request[t].bytes) : heap' = [heap EXCEPT ![b] = g]
           /\ became(b) /\ Strays(t)
  <2>1. PICK x : \E g \in Grants(x, request[t].bytes) : heap' = [heap EXCEPT ![b] = g]
    BY <1>3, Zenon
  <2>2. PICK g \in Grants(x, request[t].bytes) : heap' = [heap EXCEPT ![b] = g]
    BY <2>1, Zenon
  <2>3. g.size \in 0 .. MaxBytes /\ g # Free
    BY <1>1, CountGrant, Zenon
  <2> QED
    BY <1>1, <1>2, <1>3, <2>2, <2>3, CountServed, Zenon
<1>4. CASE heap' = [heap EXCEPT ![b] = Free] /\ became(NoBlock) /\ Strays(t)
  <2>1. 0 \in 0 .. MaxBytes /\ Free.size = 0
    BY CountAssumption DEF Free
  <2> QED
    BY <1>1, <1>2, <1>4, <2>1, CountServed, Zenon
<1>5. CASE became(NoBlock) /\ stray' = (stray \/ request[t].limited) /\ UNCHANGED heap
  <2>1. Ahead[t] = 0 /\ Behind[t] = 0 /\ (stray => stray')
    BY <1>1, <1>5, Zenon DEF Ahead, Behind
  <2>2. CASE ~request[t].limited
    <3>1. Return(t)
      BY <1>5, <2>2, Zenon DEF Return
    <3> QED
      BY <1>1, <1>5, <2>1, <3>1, CountReturn, Zenon
  <2>3. CASE request[t].limited
    <3>1. PICK c : c = request[t] /\ c = [f \in Fields |-> c[f]]
      BY Zenon DEF HookInv, Shape
    <3>2. PICK r : r = [c EXCEPT !.pc = "count", !.block = NoBlock]
      BY Zenon
    <3>3. /\ r = [f \in Fields |-> r[f]] /\ r.pc = "count" /\ r.op = c.op /\ r.block = NoBlock
          /\ r.bytes = c.bytes /\ r.old = c.old /\ r.limited = c.limited
      BY <3>1, <3>2, Zenon DEF Fields
    <3>4. request' = [request EXCEPT ![t] = r] /\ heap' = [y \in Block |-> heap'[y]]
      BY <1>5, <2>3, <3>1, <3>2, Zenon DEF HookInv, Shape
    <3>5. Alone(t) /\ request'[t] = r
      BY <3>3, <3>4, Becoming, Zenon
    <3>6. Handled(t)' /\ Limiting(t)' /\ stray'
      <4>1. Handled(t)
        BY Zenon DEF CountInv, Blocks
      <4> QED
        BY <1>1, <1>5, <2>3, <3>1, <3>3, <3>5, <4>1, Zenon DEF Handled, Limiting
    <3> QED
      BY <1>1, <1>5, <2>1, <3>1, <3>3, <3>5, <3>6, CountQuiet, Zenon
  <2>4. request[t].limited \in BOOLEAN
    BY Zenon DEF CountInv, Blocks, Handled
  <2> QED
    BY <2>2, <2>3, <2>4, Zenon
<1> QED
  BY <1>2, <1>3, <1>4, <1>5, Zenon DEF ServeRealloc

\* The bytes of a served request are counted.
LEMMA CountCount ==
    ASSUME Additive, HookInv, CountInv, NEW t \in Thread, Count(t)
    PROVE  CountInv'
<1>1. PICK new : new = IF request[t].block = NoBlock THEN 0 ELSE heap[request[t].block].size
  BY Zenon
<1>2. /\ request[t].pc = "count" /\ Return(t) /\ UNCHANGED <<heap, current, limit_enabled, stray, skew>>
      /\ gAllocated' = (gAllocated + CountMod + new - request[t].old) % CountMod
  BY <1>1, Zenon DEF Count, tables, control
<1>3. new \in Nat /\ request[t].old \in Nat /\ request[t].limited
  <2>1. Handled(t) /\ request[t].block \in Block \cup {NoBlock} /\ \A n \in 0 .. MaxBytes : n \in Nat
    BY CountAssumption DEF HookInv, Shape, CountInv, Blocks
  <2>2. request[t].block # NoBlock => heap[request[t].block].size \in 0 .. MaxBytes
    BY <2>1, Zenon DEF CountInv, Blocks
  <2> QED
    BY <1>1, <1>2, <2>1, <2>2, Zenon DEF Handled
<1>4. Alone(t) /\ request'[t] = NoRequest
  <2>1. heap' = [b \in Block |-> heap'[b]]
    BY <1>2, Zenon DEF HookInv, Shape
  <2> QED
    BY <1>2, <2>1, NothingKnown, Becoming, Zenon DEF Return
<1>5. Handled(t)' /\ Limiting(t)'
  <2>1. 0 \in 0 .. MaxBytes
    BY Sizing, Zenon
  <2> QED
    BY <1>4, <2>1, NothingKnown, Zenon DEF Handled, Limiting
<1>6. Touches(t)
  BY <1>2, <1>4, NothingKnown, Zenon DEF Touches
<1>7. Ahead[t] = new /\ Behind[t] = request[t].old /\ Ahead'[t] = 0 /\ Behind'[t] = 0
  BY <1>1, <1>2, <1>3, <1>4, NothingKnown, Zenon DEF Ahead, Behind
<1>8. PICK down \in Nat : down = request[t].old
  BY <1>3, Zenon
<1>9. Ahead'[t] + new = Ahead[t] + down + Behind'[t] - Behind[t]
  BY <1>3, <1>7, <1>8
<1>10. request'[t].op # "limit"
  BY <1>4, NothingKnown, Zenon
<1>11. /\ stray \/ gAllocated' = (gAllocated + CountMod + new - down) % CountMod
       /\ Ahead[t] \in Nat /\ Ahead'[t] \in Nat /\ Behind[t] \in Nat /\ Behind'[t] \in Nat
  BY <1>2, <1>3, <1>7, <1>8
<1> QED
  BY <1>2, <1>3, <1>4, <1>5, <1>6, <1>8, <1>9, <1>10, <1>11, CountAdjusts, Zenon

\* The steps of an allocation together.
LEMMA CountAllocates ==
    ASSUME Additive, HookInv, CountInv, NEW t \in Thread, Allocates(t)
    PROVE  CountInv'
<1>1. CASE MallocInitHeapprofdHook(t)
  BY <1>1, CountProceed, Zenon DEF MallocInitHeapprofdHook, tables, control, memory
<1> QED
  BY <1>1, CountCheck, CountUncount, CountFetches, CountServeMalloc, CountServeFree,
     CountServeRealloc, CountCount, Zenon DEF Allocates

\* What a thread at pc can be doing, as CountProceed wants it.
LEMMA CountDoing ==
    ASSUME HookInv, NEW t \in Thread
    PROVE  request[t].op \in Doing(request[t].pc)
  BY Zenon DEF HookInv, Locking

\* LimitEnable reads what is allocated.
LEMMA CountMeasure ==
    ASSUME Additive, HookInv, CountInv, NEW t \in Thread, Measure(t)
    PROVE  CountInv'
<1>1. PICK c : c = request[t] /\ c = [f \in Fields |-> c[f]]
  BY Zenon DEF HookInv, Shape
<1>2. PICK n : /\ \E cached \in 0 .. MaxCached : n = Total(NativeSizes) + cached
               /\ skew' = n - Total(Sizes)
               /\ request' = [request EXCEPT ![t].pc = "store", ![t].bytes = n]
  BY Zenon DEF Measure
<1>3. PICK r : r = [c EXCEPT !.pc = "store", !.bytes = n]
  BY Zenon
<1>4. /\ r = [f \in Fields |-> r[f]] /\ r.pc = "store" /\ r.op = c.op /\ r.block = c.block
      /\ r.bytes = n /\ r.old = c.old /\ r.limited = c.limited
  BY <1>1, <1>3, Zenon DEF Fields
<1>5. /\ c.pc = "measure" /\ c.op = "limit" /\ Handled(t) /\ Limiting(t)
      /\ c.block \in Block \cup {NoBlock}
  BY <1>1, CountDoing, Zenon DEF Measure, Doing, CountInv, Blocks, OneLimit, HookInv, Shape
<1>6. /\ UNCHANGED <<heap, gAllocated, current, limit_enabled, stray>> /\ current # "limit"
      /\ heap' = [b \in Block |-> heap'[b]] /\ request' = [request EXCEPT ![t] = r]
  BY <1>1, <1>2, <1>3, <1>5, Zenon DEF Measure, tables, control, HookInv, Shape, Limiting
<1>7. Alone(t) /\ request'[t] = r
  BY <1>4, <1>5, <1>6, Becoming, Zenon
<1>8. Handled(t)'
  BY <1>1, <1>4, <1>5, <1>6, <1>7, Zenon DEF Handled
<1>9. /\ Total(Sizes) \in Nat /\ Total(Sizes)' = Total(Sizes) /\ Total(Sizes) < CountMod
      /\ Total(NativeSizes) \in Nat /\ Total(NativeSizes) <= Total(Sizes)
  <2>1. Blocks /\ Weighed
    BY Weights, Zenon DEF CountInv, HookInv
  <2>2. Total(Sizes) \in Nat /\ Sizes \in [Block -> 0 .. MaxBytes] /\ Total(Sizes) < CountMod
    BY <2>1, CountAssumption DEF Weighed
  <2>3. Total(Sizes)' = Total(Sizes)
    BY <1>6, Zenon DEF Total, Bytes, Sizes
  <2>4. \A b \in Block : /\ NativeSizes[b] \in 0 .. MaxBytes
                         /\ NativeSizes[b] # 0 => NativeSizes[b] = Sizes[b]
    BY <2>1, Sizing, Zenon DEF Blocks, NativeSizes, Sizes
  <2>5. NativeSizes \in [Block -> 0 .. MaxBytes]
    <3>1. NativeSizes = [b \in Block |-> NativeSizes[b]]
      BY Zenon DEF NativeSizes
    <3> QED
      BY <2>4, <3>1, Zenon
  <2>6. PICK at : at = [b \in Block |-> b]
    BY Zenon
  <2>7. /\ \A x \in Block : NativeSizes[x] # 0 => at[x] \in Block /\ NativeSizes[x] = Sizes[at[x]]
        /\ \A x, y \in Block : NativeSizes[x] # 0 /\ NativeSizes[y] # 0 /\ at[x] = at[y] => x = y
    BY <2>4, <2>6, Zenon
  <2>8. Total(NativeSizes) \in Nat /\ Total(NativeSizes) <= Total(Sizes)
    BY <2>2, <2>5, <2>7, ZenonT(30) DEF Additive
  <2> QED
    BY <2>2, <2>3, <2>8, Zenon
<1>10. n \in Nat /\ n = Total(Sizes)' + skew' /\ Skewed'
  <2>1. PICK s \in Nat, a \in Nat : /\ s = Total(Sizes) /\ s < CountMod
                                     /\ a = Total(NativeSizes) /\ a <= s
    BY <1>9, Zenon
  <2>2. PICK cached \in 0 .. MaxCached : n = a + cached /\ skew' = n - s
    BY <1>2, <2>1, Zenon
  <2>3. n \in Nat /\ n = s + skew'
    BY <2>2, CountAssumption
  <2>4. skew' \in Int /\ 0 - CountMod <= skew' /\ skew' <= MaxCached
    BY <2>1, <2>2, CountAssumption
  <2> QED
    BY <1>9, <2>1, <2>3, <2>4, Zenon DEF Skewed
<1>11. Limiting(t)'
  BY <1>1, <1>4, <1>5, <1>6, <1>7, <1>10, ZenonT(30) DEF Limiting
<1>12. Ahead'[t] = Ahead[t] /\ Behind'[t] = Behind[t]
  BY <1>1, <1>4, <1>5, <1>7, Zenon DEF Ahead, Behind
<1> QED
  BY <1>1, <1>4, <1>5, <1>6, <1>7, <1>8, <1>10, <1>11, <1>12, CountQuiet, Zenon

\* LimitEnable stores what it measured.
LEMMA CountStore ==
    ASSUME Additive, HookInv, CountInv, NEW t \in Thread, StoreAllocated(t)
    PROVE  CountInv'
<1>1. /\ request[t].pc = "store" /\ gAllocated' = request[t].bytes /\ Proceed(t, "lock")
      /\ UNCHANGED <<heap, current, limit_enabled, stray, skew>>
  BY Zenon DEF StoreAllocated, tables, control
<1>2. /\ request[t].op = "limit" /\ Handled(t) /\ Limiting(t) /\ Shape /\ Locking /\ Blocks /\ OneLimit
      /\ current # "limit" /\ Skewed
  BY <1>1, CountDoing, Zenon DEF Doing, CountInv, Blocks, OneLimit, HookInv, Limiting
<1>3. /\ Alone(t)
      /\ request'[t].pc = "lock" /\ request'[t].op = request[t].op
      /\ request'[t].block = request[t].block /\ request'[t].bytes = request[t].bytes
      /\ request'[t].old = request[t].old /\ request'[t].limited = request[t].limited
  BY <1>1, <1>2, Moving, Zenon DEF Shape
<1>4. Handled(t)'
  BY <1>1, <1>2, <1>3, Zenon DEF Handled
<1>5. Sizes' = Sizes /\ Total(Sizes)' = Total(Sizes)
  BY <1>1, Zenon DEF Total, Bytes, Sizes
<1>6. Limiting(t)'
  BY <1>1, <1>2, <1>3, <1>5, Zenon DEF Limiting
<1>7. Touches(t) /\ \A b \in Block : heap'[b].size \in 0 .. MaxBytes
  BY <1>1, <1>2, <1>3, ZenonT(30) DEF Touches, Blocks
<1>8. Blocks'
  BY <1>1, <1>2, <1>3, <1>4, <1>7, BlocksKept, Zenon
<1>9. OneLimit'
  BY <1>1, <1>2, <1>3, <1>5, <1>6, OneLimitKept, Zenon
<1>10. Counted' /\ Skewed'
  BY <1>1, <1>2, Zenon DEF Counted, Skewed
<1> QED
  BY <1>8, <1>9, <1>10, Zenon DEF CountInv

\* The limit is put in place: no call under way knows of it.
LEMMA CountLimit ==
    ASSUME Additive, HookInv, CountInv, NEW t \in Thread, StoreCurrent(t), request[t].op = "limit"
    PROVE  CountInv'
<1>1. /\ request[t].pc = "current" /\ current' = "limit" /\ Proceed(t, "clear")
      /\ UNCHANGED <<heap, gAllocated, limit_enabled, stray, skew>>
  BY Zenon DEF StoreCurrent, control, memory
<1>2. /\ Handled(t) /\ Limiting(t) /\ Shape /\ Locking /\ Blocks /\ OneLimit
      /\ current # "limit" /\ limit_enabled /\ Skewed
  BY <1>1, Zenon DEF CountInv, Blocks, OneLimit, HookInv, Limiting
<1>3. /\ Alone(t)
      /\ request'[t].pc = "clear" /\ request'[t].op = request[t].op
      /\ request'[t].block = request[t].block /\ request'[t].bytes = request[t].bytes
      /\ request'[t].old = request[t].old /\ request'[t].limited = request[t].limited
  BY <1>1, <1>2, Moving, Zenon DEF Shape
<1>4. Handled(t)'
  BY <1>1, <1>2, <1>3, ZenonT(30) DEF Handled
<1>5. Sizes' = Sizes /\ Total(Sizes)' = Total(Sizes)
  BY <1>1, Zenon DEF Total, Bytes, Sizes
<1>6. Limiting(t)'
  BY <1>1, <1>2, <1>3, <1>5, Zenon DEF Limiting
<1>7. Touches(t) /\ \A b \in Block : heap'[b].size \in 0 .. MaxBytes
  BY <1>1, <1>2, <1>3, ZenonT(30) DEF Touches, Blocks
<1>8. Blocks'
  BY <1>1, <1>2, <1>3, <1>4, <1>7, BlocksKept, ZenonT(30)
<1>9. OneLimit'
  BY <1>1, <1>2, <1>3, <1>5, <1>6, OneLimitKept, ZenonT(30)
<1>10. \A u \in Thread : Ahead'[u] = 0 /\ Behind'[u] = 0
  <2> SUFFICES ASSUME NEW u \in Thread PROVE Ahead'[u] = 0 /\ Behind'[u] = 0
    BY Zenon
  <2>1. Handled(u) /\ ~request[u].limited /\ request[u].pc # "count"
    BY <1>2, Zenon DEF Blocks, Handled
  <2>2. /\ request'[u].pc \in {request[u].pc, "clear"}
        /\ request'[u].limited = request[u].limited
    BY <1>3, Zenon DEF Alone
  <2> QED
    BY <2>1, <2>2, Zenon DEF Ahead, Behind
<1>11. Total(Ahead)' = 0 /\ Total(Behind)' = 0
  <2>1. Weighed'
    BY <1>3, <1>8, AdditiveStays, Weights, PTL DEF Alone
  <2>2. Ahead' \in [Thread -> 0 .. MaxBytes] /\ Behind' \in [Thread -> 0 .. MaxBytes]
    BY <2>1, Zenon DEF Weighed
  <2>3. Total(Ahead') = 0 /\ Total(Behind') = 0
    BY <1>10, <2>2, Zenon DEF Additive
  <2> QED
    BY <2>3, Zenon DEF Total, Bytes
<1>12. Counted' /\ Skewed'
  <2>1. Total(Sizes) \in Nat /\ skew \in Int /\ skew' = skew
    BY <1>1, <1>2, Weights, Zenon DEF Weighed, Skewed
  <2>2. Due' = Total(Sizes) + skew
    <3>1. Due' = Total(Sizes) + 0 + skew - 0
      BY <1>5, <1>11, <2>1, Zenon DEF Due
    <3> QED
      BY <2>1, <3>1
  <2>3. ~stray => gAllocated \in Nat /\ gAllocated = Total(Sizes) + skew
    BY <1>1, <1>2, Zenon DEF Limiting
  <2>4. ~stray => gAllocated' = Wrapped(Due')
    BY <1>1, <2>2, <2>3 DEF Wrapped
  <2> QED
    BY <1>1, <1>2, <2>4, Zenon DEF Counted, Skewed, Wrapped
<1> QED
  BY <1>8, <1>9, <1>12, Zenon DEF CountInv

\* The steps of a change of tables together.
LEMMA CountMutates ==
    ASSUME Additive, HookInv, CountInv, NEW t \in Thread, Mutates(t)
    PROVE  CountInv'
<1>0. request[t].op \in Doing(request[t].pc)
  BY CountDoing, Zenon
<1>1. CASE Lock(t)
  BY <1>0, <1>1, CountProceed, Zenon DEF Lock, tables, control, memory, Doing
<1>2. CASE Exchange(t)
  BY <1>0, <1>2, CountProceed, Zenon DEF Exchange, tables, control, memory, Doing
<1>3. CASE Prepare(t)
  BY <1>0, <1>3, CountProceed, Zenon DEF Prepare, tables, control, memory, Doing
<1>4. CASE SetUpEphemeral(t)
  BY <1>0, <1>4, CountProceed, Zenon DEF SetUpEphemeral, tables, control, memory, Doing
<1>5. CASE CommonInstallHooks(t)
  BY <1>0, <1>5, CountProceed, Zenon DEF CommonInstallHooks, tables, control, memory, Doing
<1>6. CASE StoreDefault(t)
  BY <1>0, <1>6, CountProceed, Zenon DEF StoreDefault, tables, control, memory, Doing
<1>7. CASE StoreCurrent(t) /\ request[t].op # "limit"
  <2>1. default # "limit"
    BY <1>0, <1>7, Zenon DEF StoreCurrent, Doing, HookInv, Tables, ChangingTo, Base, Changing
  <2> QED
    BY <1>0, <1>7, <2>1, CountProceed, Zenon DEF StoreCurrent, tables, control, memory, Doing
<1>8. CASE Settle(t)
  BY <1>0, <1>8, CountProceed, Zenon DEF Settle, tables, control, memory, Doing
<1>9. CASE Clear(t)
  BY <1>0, <1>9, CountProceed, Zenon DEF Clear, tables, control, memory, Doing
<1>10. CASE Unlock(t)
  <2>1. Ahead[t] = 0 /\ Behind[t] = 0
    BY <1>10, Zenon DEF Unlock, Ahead, Behind
  <2> QED
    BY <1>0, <1>10, <2>1, CountProceed, CountReturn, Zenon
       DEF Unlock, tables, control, memory, Doing
<1> QED
  BY <1>1, <1>2, <1>3, <1>4, <1>5, <1>6, <1>7, <1>8, <1>9, <1>10, CountMeasure, CountStore,
     CountLimit, Zenon DEF Mutates

\* The invariant holds initially.
LEMMA CountStart == MallocInit => CountInv
<1> SUFFICES ASSUME MallocInit PROVE CountInv
  BY Zenon
<1>1. \A t \in Thread : request[t] = NoRequest
  BY Zenon DEF MallocInit
<1>2. 0 \in 0 .. MaxBytes /\ Free.size = 0 /\ current # "limit"
  BY CountAssumption DEF Free, MallocInit
<1>3. Blocks
  BY <1>1, <1>2, NothingKnown, Zenon DEF Blocks, Handled, MallocInit
<1>4. OneLimit
  BY <1>1, <1>2, NothingKnown, Zenon DEF OneLimit, Limiting
<1>5. Skewed
  BY CountAssumption DEF MallocInit, Skewed
<1> QED
  BY <1>2, <1>3, <1>4, <1>5, Zenon DEF CountInv, Counted

\* Every step keeps the invariant.
LEMMA CountNext == Additive /\ HookInv /\ CountInv /\ [MallocNext]_mallocVars => CountInv'
<1> SUFFICES ASSUME Additive, HookInv, CountInv, [MallocNext]_mallocVars PROVE CountInv'
  BY Zenon
<1>1. CASE InitializeGwpAsan \/ UNCHANGED mallocVars
  <2>1. /\ UNCHANGED <<heap, gAllocated, limit_enabled, stray, skew, request>>
        /\ current' = "limit" <=> current = "limit"
    BY <1>1, Zenon DEF InitializeGwpAsan, mallocVars, tables, control, memory
  <2>2. Total(Sizes)' = Total(Sizes) /\ Due' = Due
    BY <2>1, Zenon DEF Total, Bytes, Sizes, Ahead, Behind, Due
  <2>3. Blocks' /\ Skewed'
    BY <2>1, ZenonT(30) DEF CountInv, Blocks, Handled, Skewed
  <2>4. OneLimit'
    BY <2>1, <2>2, ZenonT(30) DEF CountInv, OneLimit, Limiting
  <2>5. Counted'
    BY <2>1, <2>2, Zenon DEF CountInv, Counted, Wrapped
  <2> QED
    BY <2>3, <2>4, <2>5, Zenon DEF CountInv
<1>2. CASE MallocNext
  BY <1>1, <1>2, CountStarts, CountAllocates, CountMutates, Zenon DEF MallocNext
<1> QED
  BY <1>1, <1>2, Zenon
=============================================================================
