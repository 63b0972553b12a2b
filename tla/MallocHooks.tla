----------------------------- MODULE MallocHooks -----------------------------
(* The dispatch tables between malloc and the allocator: how heapprofd's     *)
(* signal, its hooks and the allocation limit replace them while threads     *)
(* allocate and free (malloc_common.cpp, malloc_heapprofd.cpp,               *)
(* malloc_limit.cpp, gwp_asan_wrappers.cpp in libc/bionic).  malloc stands   *)
(* for calloc, memalign and the like too; realloc of a null pointer is       *)
(* malloc.  What an allocator makes of a block it did not hand out is        *)
(* undefined: nothing is said of the heap from then on.                      *)
EXTENDS Integers, FiniteSets

CONSTANTS Thread, NoThread,
          Block,         \* what the allocator can hand out
          NoBlock,
          MaxBytes,      \* the largest usable size of a block
          MaxCached,     \* the most bytes of free blocks in caches of threads
          gAllocLimit,
          CountBits,     \* width of gAllocated, 64 in the code
          MaxCalls       \* bound on the calls that are made

CountMod == 2 ^ CountBits

ASSUME NoThreadAssumption == NoThread \notin Thread

\* The counter has room for all there is, and for what each thread gave back.
ASSUME CountAssumption ==
    /\ IsFiniteSet(Thread) /\ IsFiniteSet(Block) /\ NoBlock \notin Block
    /\ MaxBytes \in Nat /\ MaxCached \in Nat /\ CountMod \in Nat
    /\ (Cardinality(Block) + Cardinality(Thread)) * MaxBytes + MaxCached < CountMod

VARIABLES current,         \* current_dispatch_table; "null" is the allocator
          default,         \* default_dispatch_table
          previous,        \* gPreviousDefaultDispatchTable
          ephemeral,       \* the table gEphemeralDispatch is a copy of
          backing,         \* the table heapprofd_client.so forwards to
          GwpAsanInitialized,
          state,           \* gHeapprofdState
          mutating,        \* gGlobalsMutating
          lock,            \* the holder of gGlobalsMutateLock
          created,         \* heapprofdinit threads that were created
          limit_enabled,
          gAllocated,
          heap,            \* each block's usable size and whose it is
          request,         \* the call each thread is in, with its locals
          calls,           \* how many were made
          stray,           \* the limit was measured, and the heap changed unseen
          skew,            \* what was measured less what was allocated
          dropped          \* what made libc forget the table of GWP-ASan: a
                           \* "signal", a "reset"

tables == <<current, default, previous, ephemeral, backing, GwpAsanInitialized>>
control == <<state, mutating, lock, created, limit_enabled>>
memory == <<gAllocated, heap, stray, skew>>
mallocVars == <<tables, control, memory, request, calls, dropped>>

Free == [owner |-> "none", size |-> 0]

NoRequest == [op |-> "none", pc |-> "idle", table |-> "null", block |-> NoBlock,
              bytes |-> 0, old |-> 0, limited |-> FALSE]

Proceed(t, l) == request' = [request EXCEPT ![t].pc = l]

Return(t) == request' = [request EXCEPT ![t] = NoRequest]

\* One more call, of a thread that is in none.
StartRequest(t, c) ==
    /\ request[t].pc = "idle" /\ calls < MaxCalls
    /\ calls' = calls + 1
    /\ request' = [request EXCEPT ![t] = c]

\* GWP-ASan samples this process or not.  Heapprofd is not asked for, is
\* installed, or cannot be loaded or initialised, which leaves the state of an
\* installed one; malloc debug shuts it out.
MallocInit ==
    /\ \E base \in {"null", "gwp"} :
         /\ GwpAsanInitialized = (base = "gwp")
         /\ \/ state = "kInitialState" /\ default = base /\ previous = "null" /\ backing = "null"
            \/ state = "kHookInstalled" /\ default = "heapprofd" /\ previous = base /\ backing = base
            \/ state = "kHookInstalled" /\ default = base /\ previous \in {"null", base} /\ backing = "null"
            \/ state = "kIncompatibleHooks" /\ default = "debug" /\ previous = "null" /\ backing = base
    /\ current = default /\ ephemeral = "null"
    /\ mutating = FALSE /\ lock = NoThread /\ created = 0 /\ limit_enabled = FALSE
    /\ gAllocated = 0
    /\ heap = [b \in Block |-> Free]
    /\ request = [t \in Thread |-> NoRequest] /\ calls = 0
    /\ stray = FALSE /\ skew = 0 /\ dropped = {}

-----------------------------------------------------------------------------
\* The allocator that a table ends in, "null" being the native one.
Under(table) ==
    CASE table \in {"heapprofd", "debug"} -> backing
      [] table = "ephemeral" -> ephemeral
      [] OTHER -> table

\* What Under(table) may make of a request; GWP-ASan guards some blocks and
\* leaves the others to the native allocator.
Grants(table, bytes) ==
    [owner : IF Under(table) = "gwp" THEN {"gwp", "native"} ELSE {"native"},
     size : bytes .. MaxBytes]

\* The sum of a function whose values are sizes: all bytes there are.
Bytes(f) == {x \in (DOMAIN f) \X (1 .. MaxBytes) : x[2] <= f[x[1]]}

Total(f) == Cardinality(Bytes(f))

Sizes == [b \in Block |-> heap[b].size]

\* What mallinfo sees of them: the table of GWP-ASan, and every other, has that
\* of the native allocator.
NativeSizes == [b \in Block |-> IF heap[b].owner = "native" THEN heap[b].size ELSE 0]

Busy == {request[t].block : t \in Thread}

\* The program's own blocks.
Owned == {b \in Block : heap[b] # Free} \ Busy

\* A thread that goes on unseen by the limit, once the limit has measured.
Strays(t) ==
    stray' = (stray \/ (~request[t].limited /\ limit_enabled
                          /\ \A u \in Thread : request[u].pc # "measure"))

\* CheckLimit.
WithinLimit(bytes) ==
    /\ gAllocated + bytes < CountMod
    /\ gAllocated + bytes <= gAllocLimit

Enter(t, op, b, bytes) ==
    /\ StartRequest(t,
                [op |-> op, block |-> b, bytes |-> bytes,
                 pc |-> IF current # "limit" THEN "serve"
                        ELSE IF op = "free" THEN "uncount" ELSE "check",
                 table |-> current, limited |-> (current = "limit"),
                 old |-> IF b = NoBlock THEN 0 ELSE heap[b].size])
    /\ UNCHANGED <<tables, control, memory, dropped>>

Malloc(t) == \E bytes \in 1 .. MaxBytes : Enter(t, "malloc", NoBlock, bytes)

Dispose(t) == \E b \in Owned : Enter(t, "free", b, 0)

Realloc(t) == \E b \in Owned, bytes \in 0 .. MaxBytes : Enter(t, "realloc", b, bytes)

\* LimitMalloc fails; LimitRealloc frees, and looks only if the block grows.
Check(t) ==
    /\ request[t].pc = "check"
    /\ LET c == request[t]
           fits == c.bytes <= c.old \/ WithinLimit(c.bytes - c.old)
       IN  request' = [request EXCEPT ![t] =
                      IF fits THEN [c EXCEPT !.pc = "fetch"]
                      ELSE IF c.op = "malloc" THEN NoRequest
                      ELSE [c EXCEPT !.op = "free", !.pc = "uncount"]]
    /\ UNCHANGED <<tables, control, memory, dropped>>

\* LimitFree counts before it frees.
Uncount(t) ==
    /\ request[t].pc = "uncount"
    /\ gAllocated' = (gAllocated + CountMod - request[t].old) % CountMod
    /\ Proceed(t, "fetch")
    /\ UNCHANGED <<tables, control, heap, stray, skew, dropped>>

\* GetDefaultDispatchTable.
Fetch(t) ==
    /\ request[t].pc = "fetch"
    /\ request' = [request EXCEPT ![t].pc = "serve", ![t].table = default]
    /\ UNCHANGED <<tables, control, memory, dropped>>

\* The allocator gives a block, no matter which, or none.
ServeMalloc(t) ==
    /\ request[t].pc = "serve" /\ request[t].op = "malloc"
    /\ \/ \E grant \in Grants(request[t].table, request[t].bytes) :
            LET b == CHOOSE x \in Block : heap[x] = Free IN
            /\ \E x \in Block : heap[x] = Free
            /\ heap' = [heap EXCEPT ![b] = grant]
            /\ request' = [request EXCEPT ![t] =
                          IF ~request[t].limited THEN NoRequest
                          ELSE [request[t] EXCEPT !.pc = "count", !.block = b]]
            /\ Strays(t)
       \/ Return(t) /\ UNCHANGED <<heap, stray>>
    /\ UNCHANGED <<tables, control, gAllocated, skew, dropped>>

ServeFree(t) ==
    /\ request[t].pc = "serve" /\ request[t].op = "free"
    /\ heap' = [heap EXCEPT ![request[t].block] = Free]
    /\ Return(t)
    /\ Strays(t)
    /\ UNCHANGED <<tables, control, gAllocated, skew, dropped>>

\* GWP-ASan moves a block it guards to a new one, and frees it even if there is
\* none.  For any other, a request for nothing frees the block and one that fails
\* leaves it; both give null, with nothing left to count but the old size.
ServeRealloc(t) ==
    /\ request[t].pc = "serve" /\ request[t].op = "realloc"
    /\ LET c == request[t]
           mine == Under(c.table) = "gwp" /\ heap[c.block].owner = "gwp"
           result(b) == request' = [request EXCEPT ![t] =
                           IF c.limited THEN [c EXCEPT !.pc = "count", !.block = b] ELSE NoRequest]
       IN  \/ /\ mine \/ c.bytes # 0
              /\ \E grant \in Grants(IF mine THEN c.table ELSE "null", c.bytes) :
                    heap' = [heap EXCEPT ![c.block] = grant]
              /\ result(c.block) /\ Strays(t)
           \/ /\ mine \/ c.bytes = 0
              /\ heap' = [heap EXCEPT ![c.block] = Free]
              /\ result(NoBlock) /\ Strays(t)
           \/ /\ ~mine /\ c.bytes # 0
              /\ result(NoBlock) /\ stray' = (stray \/ c.limited)
              /\ UNCHANGED heap
    /\ UNCHANGED <<tables, control, gAllocated, skew, dropped>>

\* A mutant: a block that shrinks is not counted back.
CountGrowth(t) ==
    /\ request[t].pc = "count"
    /\ LET c == request[t]
           new == IF c.block = NoBlock THEN 0 ELSE heap[c.block].size
       IN  gAllocated' = IF new > c.old THEN (gAllocated + new - c.old) % CountMod ELSE gAllocated
    /\ Return(t)
    /\ UNCHANGED <<tables, control, heap, stray, skew, dropped>>

\* IncrementLimit, and the end of LimitRealloc.
Count(t) ==
    /\ request[t].pc = "count"
    /\ LET c == request[t]
           new == IF c.block = NoBlock THEN 0 ELSE heap[c.block].size
       IN  gAllocated' = (gAllocated + CountMod + new - c.old) % CountMod
    /\ Return(t)
    /\ UNCHANGED <<tables, control, heap, stray, skew, dropped>>

-----------------------------------------------------------------------------
(* Those who replace tables: the signal handler, malloc in the ephemeral     *)
(* table (op "malloc"), the thread it creates, M_RESET_HOOKS and the limit.  *)
(* All but the handler hold gGlobalsMutateLock, and all try gGlobalsMutating.*)

BeginMutation(t, op, l) == StartRequest(t, [NoRequest EXCEPT !.op = op, !.pc = l])

\* HandleHeapprofdSignal may run on any thread, at any time.
HandleHeapprofdSignal(t) ==
    /\ state # "kIncompatibleHooks"
    /\ BeginMutation(t, "signal", "exchange")
    /\ UNCHANGED <<tables, control, memory, dropped>>

\* The thread that MallocInitHeapprofdHook creates.
InitHeapprofd(t) ==
    /\ created > 0 /\ created' = created - 1
    /\ BeginMutation(t, "init", "lock")
    /\ UNCHANGED <<tables, state, mutating, lock, limit_enabled, memory, dropped>>

DispatchReset(t) ==
    /\ state # "kInitialState"
    /\ BeginMutation(t, "reset", "lock")
    /\ UNCHANGED <<tables, control, memory, dropped>>

\* malloc of the ephemeral table.  Its other functions, which "malloc" stands for
\* too, are those it copies and go on in ServeMalloc.
MallocInitHeapprofdHook(t) ==
    /\ request[t].pc = "serve" /\ request[t].op = "malloc" /\ request[t].table = "ephemeral"
    /\ Proceed(t, "lock")
    /\ UNCHANGED <<tables, control, memory, dropped>>

\* The limit can only be enabled once.
LimitEnable(t) ==
    /\ ~limit_enabled /\ limit_enabled' = TRUE
    /\ BeginMutation(t, "limit", "measure")
    /\ UNCHANGED <<tables, state, mutating, lock, created, memory, dropped>>

\* mallinfo().uordblks: what the native allocator handed out or keeps in the
\* caches of threads, and nothing of what GWP-ASan guards.
Measure(t) ==
    /\ request[t].pc = "measure"
    /\ \E cached \in 0 .. MaxCached :
         LET measured == Total(NativeSizes) + cached
         IN  /\ request' = [request EXCEPT ![t].pc = "store", ![t].bytes = measured]
             /\ skew' = measured - Total(Sizes)
    /\ UNCHANGED <<tables, control, gAllocated, heap, stray, dropped>>

StoreAllocated(t) ==
    /\ request[t].pc = "store"
    /\ gAllocated' = request[t].bytes
    /\ Proceed(t, "lock")
    /\ UNCHANGED <<tables, control, heap, stray, skew, dropped>>

Lock(t) ==
    /\ request[t].pc = "lock" /\ lock = NoThread
    /\ lock' = t
    /\ Proceed(t, "exchange")
    /\ UNCHANGED <<tables, state, mutating, created, limit_enabled, memory, dropped>>

\* The exchange of gGlobalsMutating; whoever finds it set gives up, the limit
\* after some more tries.
Exchange(t) ==
    /\ request[t].pc = "exchange"
    /\ \/ /\ ~mutating /\ mutating' = TRUE
          /\ Proceed(t, IF request[t].op = "limit" THEN "current" ELSE "prepare")
       \/ /\ mutating /\ Proceed(t, "unlock") /\ UNCHANGED mutating
    /\ UNCHANGED <<tables, state, lock, created, limit_enabled, memory, dropped>>

\* The change of gHeapprofdState that lets a mutator go on, and where it leads.
Transition ==
    [signal |-> [from |-> {"kInitialState", "kHookInstalled"},
                 via |-> "kInstallingEphemeralHook", to |-> "kEphemeralHookInstalled"],
     malloc |-> [from |-> {"kEphemeralHookInstalled"},
                 via |-> "kRemovingEphemeralHook", to |-> "kInitialState"],
     init   |-> [from |-> {"kInitialState"}, via |-> "kInstallingHook", to |-> "kHookInstalled"],
     reset  |-> [from |-> {"kHookInstalled"}, via |-> "kUninstallingHook", to |-> "kInitialState"]]

\* The state is exchanged; a mutator that may not go on gives up.
Prepare(t) ==
    /\ request[t].pc = "prepare"
    /\ LET op == request[t].op
       IN  IF state \in Transition[op].from
             THEN /\ state' = Transition[op].via
                  /\ Proceed(t, IF op \in {"signal", "init"} THEN op ELSE "default")
             ELSE Proceed(t, "clear") /\ UNCHANGED state
    /\ UNCHANGED <<tables, mutating, lock, created, limit_enabled, memory, dropped>>

\* A mutant: everything but malloc goes to the native allocator.
SetUpEphemeralNative(t) ==
    /\ request[t].pc = "signal"
    /\ previous' = (IF default = "gwp" THEN "gwp" ELSE "null") /\ ephemeral' = "null"
    /\ dropped' = dropped \cup IF default = "heapprofd" /\ backing = "gwp" THEN {"signal"} ELSE {}
    /\ Proceed(t, "default")
    /\ UNCHANGED <<current, default, backing, GwpAsanInitialized, control, memory>>

\* The three configurations of HandleHeapprofdSignal.
SetUpEphemeral(t) ==
    /\ request[t].pc = "signal"
    /\ LET below == IF default = "gwp" THEN "gwp" ELSE "null"
       IN  previous' = below /\ ephemeral' = below
    /\ dropped' = dropped \cup IF default = "heapprofd" /\ backing = "gwp" THEN {"signal"} ELSE {}
    /\ Proceed(t, "default")
    /\ UNCHANGED <<current, default, backing, GwpAsanInitialized, control, memory>>

\* CommonInstallHooks: the library cannot be loaded, or it cannot be
\* initialised, or it now forwards to the table it found.
CommonInstallHooks(t) ==
    /\ request[t].pc = "init"
    /\ \/ Proceed(t, "settle") /\ UNCHANGED <<previous, backing>>
       \/ previous' = default /\ Proceed(t, "settle") /\ UNCHANGED backing
       \/ previous' = default /\ backing' = default /\ Proceed(t, "default")
    /\ UNCHANGED <<current, default, ephemeral, GwpAsanInitialized, control, memory, dropped>>

StoreDefault(t) ==
    /\ request[t].pc = "default"
    /\ default' = CASE request[t].op = "signal" -> "ephemeral"
                    [] request[t].op = "init" -> "heapprofd"
                    [] OTHER -> previous
    /\ dropped' = dropped \cup IF request[t].op = "reset" /\ default = "gwp" /\ previous = "null"
                               THEN {"reset"} ELSE {}
    /\ Proceed(t, "current")
    /\ UNCHANGED <<current, previous, ephemeral, backing, GwpAsanInitialized, control, memory>>

\* A mutant: whoever comes last is what malloc calls.
StoreCurrentOver(t) ==
    /\ request[t].pc = "current"
    /\ current' = IF request[t].op = "limit" THEN "limit" ELSE default
    /\ Proceed(t, IF request[t].op = "limit" THEN "clear" ELSE "settle")
    /\ UNCHANGED <<default, previous, ephemeral, backing, GwpAsanInitialized, control, memory,
                   dropped>>

\* The limit keeps its place before the others.
StoreCurrent(t) ==
    /\ request[t].pc = "current"
    /\ current' = IF request[t].op = "limit" \/ current = "limit" THEN "limit" ELSE default
    /\ Proceed(t, IF request[t].op = "limit" THEN "clear" ELSE "settle")
    /\ UNCHANGED <<default, previous, ephemeral, backing, GwpAsanInitialized, control, memory,
                   dropped>>

\* A mutant: the lock is let go before the flag.
SettleUnlocked(t) ==
    /\ request[t].pc = "settle"
    /\ state' = Transition[request[t].op].to
    /\ created' \in {created} \cup (IF request[t].op = "malloc" THEN {created + 1} ELSE {})
    /\ Proceed(t, "clear")
    /\ lock' = IF lock = t THEN NoThread ELSE lock
    /\ UNCHANGED <<tables, mutating, limit_enabled, memory, dropped>>

\* The state is stored; the hook creates its thread, or fails to.
Settle(t) ==
    /\ request[t].pc = "settle"
    /\ state' = Transition[request[t].op].to
    /\ created' \in {created} \cup (IF request[t].op = "malloc" THEN {created + 1} ELSE {})
    /\ Proceed(t, "clear")
    /\ UNCHANGED <<tables, mutating, lock, limit_enabled, memory, dropped>>

Clear(t) ==
    /\ request[t].pc = "clear"
    /\ mutating' = FALSE
    /\ Proceed(t, "unlock")
    /\ UNCHANGED <<tables, state, lock, created, limit_enabled, memory, dropped>>

\* The end, but for the hook, which has its request to serve.
Unlock(t) ==
    /\ request[t].pc = "unlock"
    /\ lock' = IF lock = t THEN NoThread ELSE lock
    /\ IF request[t].op = "malloc" THEN Proceed(t, "fallback") ELSE Return(t)
    /\ UNCHANGED <<tables, state, mutating, created, limit_enabled, memory, dropped>>

\* What was there before, or the native allocator.
Fallback(t) ==
    /\ request[t].pc = "fallback"
    /\ request' = [request EXCEPT ![t].pc = "serve", ![t].table = previous]
    /\ UNCHANGED <<tables, control, memory, dropped>>

Starts(t) ==
    \/ Malloc(t) \/ Dispose(t) \/ Realloc(t) \/ HandleHeapprofdSignal(t)
    \/ InitHeapprofd(t) \/ DispatchReset(t) \/ LimitEnable(t)

Allocates(t) ==
    \/ Check(t) \/ Uncount(t) \/ Fetch(t) \/ ServeMalloc(t) \/ ServeFree(t)
    \/ ServeRealloc(t) \/ Count(t) \/ MallocInitHeapprofdHook(t) \/ Fallback(t)

Mutates(t) ==
    \/ Measure(t) \/ StoreAllocated(t) \/ Lock(t) \/ Exchange(t) \/ Prepare(t)
    \/ SetUpEphemeral(t) \/ CommonInstallHooks(t) \/ StoreDefault(t) \/ StoreCurrent(t)
    \/ Settle(t) \/ Clear(t) \/ Unlock(t)

\* M_INITIALIZE_GWP_ASAN, which asks to be called in a single-threaded context.
InitializeGwpAsan ==
    /\ \A t \in Thread : request[t].pc = "idle"
    /\ created = 0
    /\ ~GwpAsanInitialized /\ default = "null"
    /\ GwpAsanInitialized' = TRUE /\ default' = "gwp"
    /\ current' = IF current = "null" THEN "gwp" ELSE current
    /\ UNCHANGED <<previous, ephemeral, backing, control, memory, request, calls, dropped>>

MallocNext ==
    \/ \E t \in Thread : Starts(t) \/ (UNCHANGED calls /\ (Allocates(t) \/ Mutates(t)))
    \/ InitializeGwpAsan

MallocSpec == MallocInit /\ [][MallocNext]_mallocVars
-----------------------------------------------------------------------------
\* A thread that has the lock and finds gGlobalsMutating set has met the signal
\* handler and nobody else: a heapprofdinit thread is never turned away by the
\* thread that created it.
LockedMeetOnlySignals ==
    \A t \in Thread : request[t].pc = "exchange" /\ lock = t /\ mutating =>
        \E u \in Thread \ {t} : request[u].op = "signal" /\ request[u].pc # "unlock"

\* Whenever no table is being replaced, the tables are those that the state of
\* heapprofd stands for, and malloc and the limit see the same; once the limit is
\* in place it stays.
TablesConsistent ==
    /\ [](~mutating =>
             /\ current \in {"limit", default}
             /\ default = "ephemeral" <=> state = "kEphemeralHookInstalled"
             /\ default = "heapprofd" => state = "kHookInstalled")
    /\ [][current = "limit" => current' = "limit"]_current

\* A block goes back to the allocator that knows it: what GWP-ASan guards is
\* never passed to the native allocator, whichever tables a call went through.
OwnerServes ==
    \A t \in Thread :
        request[t].pc = "serve" /\ request[t].block # NoBlock /\ heap[request[t].block].owner = "gwp" =>
            Under(request[t].table) = "gwp"

\* So it is until a signal comes while heapprofd runs over GWP-ASan, or the hooks
\* are reset after heapprofd could not be loaded: nothing else among signals,
\* hooks, resets, the limit and M_INITIALIZE_GWP_ASAN makes libc forget it.
OwnerServesUntilDropped == dropped # {} \/ OwnerServes

\* What is allocated and gAllocated does not count, or not any more: blocks on
\* their way to be counted, and blocks on their way to be freed.
Ahead ==
    [t \in Thread |->
        IF request[t].pc = "count" /\ request[t].block # NoBlock THEN heap[request[t].block].size
        ELSE IF request[t].limited /\ request[t].op = "free" /\ request[t].pc \in {"fetch", "serve"}
          THEN request[t].old
        ELSE 0]

\* What gAllocated still counts and is gone.
Behind == [t \in Thread |-> IF request[t].pc = "count" THEN request[t].old ELSE 0]

\* While the limit is in place, and if every allocation since it was measured
\* went through it, no native realloc failed and no table was dropped,
\* gAllocated is what is allocated, but for calls under way and for what
\* mallinfo saw too much or too little.  It wraps only if blocks that GWP-ASan
\* guarded went unseen and what is left is less than they were.
CountExact ==
    current = "limit" /\ ~stray /\ dropped = {} =>
        LET counted == Total(Sizes) + Total(Behind) + skew - Total(Ahead)
        IN  /\ gAllocated = IF counted < 0 THEN counted + CountMod ELSE counted
            /\ counted < 0 => skew < 0
==============================================================================
