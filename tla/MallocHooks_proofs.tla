------------------------- MODULE MallocHooks_proofs -------------------------
(* The dispatch tables of malloc, for any number of threads and blocks: who  *)
(* may meet whom at gGlobalsMutating, what the tables are while nobody       *)
(* replaces them, which allocator a block goes back to, and what gAllocated  *)
(* counts.                                                                   *)
EXTENDS MallocCount_proofs

-----------------------------------------------------------------------------
\* What a step of t may do to the flag and the lock.
LocksWell(t) ==
    /\ request'[t].pc \in Points /\ request'[t].op \in Doing(request'[t].pc)
    /\ request'[t].pc \in Changing => request[t].pc \in Changing \/ ~mutating
    /\ mutating' <=> request'[t].pc \in Changing \/ (mutating /\ request[t].pc \notin Changing)
    /\ request'[t].pc \in Holding /\ request'[t].op # "signal" => lock' = t
    /\ lock' # lock => lock \in {t, NoThread}

\* A step that takes and gives back in turn keeps Locking.
LEMMA LockingKept ==
    ASSUME Locking, NEW t \in Thread, Alone(t), LocksWell(t)
    PROVE  Locking'
<1> USE NoThreadAssumption
<1>1. \A u \in Thread \ {t} : request'[u] = request[u]
  BY Zenon DEF Alone
<1>2. \A u \in Thread : request'[u].pc \in Points /\ request'[u].op \in Doing(request'[u].pc)
  BY <1>1, Zenon DEF Locking, LocksWell
<1>3. \A u \in Thread : request'[u].pc \in Changing => mutating'
  BY <1>1, Zenon DEF Locking, LocksWell
<1>4. \A u, v \in Thread : request'[u].pc \in Changing /\ request'[v].pc \in Changing => u = v
  BY <1>1, Zenon DEF Locking, LocksWell
<1>5. mutating' => \E u \in Thread : request'[u].pc \in Changing
  BY <1>1, Zenon DEF Locking, LocksWell
<1>6. \A u \in Thread : request'[u].pc \in Holding /\ request'[u].op # "signal" => lock' = u
  BY <1>1, Zenon DEF Locking, LocksWell
<1> QED
  BY <1>2, <1>3, <1>4, <1>5, <1>6, Zenon DEF Locking

-----------------------------------------------------------------------------
\* A step of a thread that does not change tables leaves them stable.
LEMMA TablesQuiet ==
    ASSUME Tables, NEW t \in Thread, Alone(t), UNCHANGED <<tables, state>>,
           mutating' <=> mutating, request'[t].pc \notin Changing
    PROVE  Tables'
<1>1. \A u \in Thread \ {t} : request'[u] = request[u]
  BY Zenon DEF Alone
<1>2. Stable => Stable'
  BY Zenon DEF Stable, tables
<1>3. ASSUME NEW u \in Thread, request'[u].pc \in Changing
      PROVE  ChangingTo(request[u].op, request[u].pc)'
  <2>1. u # t /\ request'[u] = request[u]
    BY <1>1, <1>3, Zenon
  <2>2. ChangingTo(request[u].op, request[u].pc)
    BY <2>1, <1>3, Zenon DEF Tables
  <2> QED
    BY <2>1, <2>2, Zenon DEF ChangingTo, Stable, tables
<1> QED
  BY <1>2, <1>3, Zenon DEF Tables, tables

\* A step of the thread that changes them, or is the only one about to.
LEMMA TablesChanged ==
    ASSUME Locking, NEW t \in Thread, Alone(t),
           request[t].pc \in Changing \/ ~mutating,
           previous' \in Base, ephemeral' \in Base, backing' \in Base,
           default' \in Base \cup {"ephemeral", "heapprofd", "debug"},
           ~mutating' => Stable',
           NEW op, NEW pc, op = request'[t].op, pc = request'[t].pc,
           pc \in Changing => ChangingTo(op, pc)'
    PROVE  Tables'
<1>1. \A u \in Thread \ {t} : request'[u] = request[u] /\ request[u].pc \notin Changing
  BY Zenon DEF Alone, Locking
<1>2. ASSUME NEW u \in Thread, request'[u].pc \in Changing
      PROVE  ChangingTo(request[u].op, request[u].pc)'
  <2>1. u = t
    BY <1>1, <1>2, Zenon
  <2> QED
    BY <2>1, <1>2, Zenon DEF ChangingTo
<1> QED
  BY <1>2, Zenon DEF Tables

-----------------------------------------------------------------------------
\* What a step of t may do to tables that lead to the native allocator, and to
\* tables that lead to GWP-ASan.
StaysNative(t) ==
    /\ \A b \in Block : heap'[b].owner # "gwp"
    /\ "gwp" \notin {current', default', previous', ephemeral', backing'}
    /\ request'[t].table # "gwp"

\* What a step of t keeps of the world of GWP-ASan.
StaysLed(t) ==
    /\ backing = "gwp" => backing' = "gwp"
    /\ ephemeral = "gwp" => ephemeral' = "gwp"
    /\ Leads(default)' /\ Leads(current)' /\ LedBy(t)'
    /\ previous' # "gwp" =>
          /\ previous # "gwp" /\ created' = 0 /\ state' \in Unprofiled
          /\ default' # "heapprofd" /\ "ephemeral" \notin {default', current'}
          /\ Unsignalled(t)'

\* A step that keeps its world keeps Worlds.
LEMMA WorldsKept ==
    ASSUME Worlds, NEW t \in Thread, Alone(t), dropped # {} => dropped' # {},
           NativeWorld => dropped' # {} \/ StaysNative(t),
           GwpWorld => dropped' # {} \/ StaysLed(t)
    PROVE  Worlds'
<1>1. \A u \in Thread \ {t} : request'[u] = request[u]
  BY Zenon DEF Alone
<1>2. CASE dropped' # {}
  BY <1>2, Zenon DEF Worlds
<1>3. CASE dropped' = {} /\ NativeWorld
  <2>1. StaysNative(t)
    BY <1>3, Zenon
  <2>2. NativeWorld'
    BY <1>1, <1>3, <2>1, Zenon DEF NativeWorld, StaysNative
  <2> QED
    BY <2>2, Zenon DEF Worlds
<1>4. CASE dropped' = {} /\ GwpWorld
  <2>1. StaysLed(t)
    BY <1>4, Zenon
  <2>2. ASSUME NEW u \in Thread PROVE LedBy(u)'
    <3>1. CASE u = t
      BY <2>1, <3>1, Zenon DEF StaysLed
    <3>2. CASE u # t
      <4>1. request'[u] = request[u] /\ LedBy(u)
        BY <1>1, <1>4, <3>2, Zenon DEF GwpWorld
      <4> QED
        BY <2>1, <4>1, Zenon DEF StaysLed, LedBy, Leads
    <3> QED
      BY <3>1, <3>2, Zenon
  <2>3. ASSUME previous' # "gwp" PROVE NoSignal'
    <3>1. NoSignal
      BY <1>4, <2>1, <2>3, Zenon DEF StaysLed, GwpWorld
    <3>2. ASSUME NEW u \in Thread PROVE Unsignalled(u)'
      <4>1. CASE u = t
        BY <2>1, <2>3, <4>1, Zenon DEF StaysLed
      <4>2. CASE u # t
        <5>1. request'[u] = request[u] /\ Unsignalled(u)
          BY <1>1, <3>1, <4>2, Zenon DEF NoSignal
        <5> QED
          BY <5>1, Zenon DEF Unsignalled, GoesBack
      <4> QED
        BY <4>1, <4>2, Zenon
    <3> QED
      BY <2>1, <2>3, <3>2, Zenon DEF StaysLed, NoSignal
  <2> QED
    BY <2>1, <2>2, <2>3, Zenon DEF StaysLed, GwpWorld, Worlds
<1> QED
  BY <1>2, <1>3, <1>4, Zenon DEF Worlds

\* A step that leaves the tables alone.
LEMMA WorldsQuiet ==
    ASSUME Worlds, NEW t \in Thread, Alone(t), UNCHANGED <<tables, state, dropped>>,
           created = 0 => created' = 0,
           NativeWorld => request'[t].table # "gwp" /\ \A b \in Block : heap'[b].owner # "gwp",
           GwpWorld => LedBy(t)',
           GwpWorld /\ NoSignal => Unsignalled(t)'
    PROVE  Worlds'
<1>1. NativeWorld => StaysNative(t)
  BY Zenon DEF NativeWorld, StaysNative, tables
<1>2. GwpWorld => StaysLed(t)
  <2> SUFFICES ASSUME GwpWorld PROVE StaysLed(t)
    BY Zenon
  <2>1. Leads(default)' /\ Leads(current)'
    BY Zenon DEF GwpWorld, Leads, tables
  <2>2. previous' # "gwp" => NoSignal
    BY Zenon DEF GwpWorld, tables
  <2> QED
    BY <2>1, <2>2, Zenon DEF StaysLed, NoSignal, tables
<1> QED
  BY <1>1, <1>2, WorldsKept, Zenon

-----------------------------------------------------------------------------
\* Where a step of t that replaces no table may lead it.
QuietStep(t) ==
    /\ request[t].pc \notin Changing /\ request'[t].pc \in Points \ Changing
    /\ request'[t].op \in Doing(request'[t].pc)
    /\ request'[t].pc \in Holding => request'[t].op = "signal"
    /\ request'[t].table \in {"null", current, default, previous, request[t].table}
    /\ request'[t].pc = "serve" =>
          \/ request'[t].table = current /\ current # "limit"
          \/ request'[t].table = default
          \/ request'[t].table = previous /\ request[t].pc = "fallback"

\* A step that changes no table and no lock keeps the invariant.
LEMMA HookQuiet ==
    ASSUME HookInv, NEW t \in Thread, Alone(t), QuietStep(t),
           UNCHANGED <<tables, state, mutating, lock, dropped>>,
           created = 0 => created' = 0,
           NativeWorld => \A b \in Block : heap'[b].owner # "gwp",
           NoSignal => Unsignalled(t)'
    PROVE  HookInv'
<1>1. Locking'
  <2>1. LocksWell(t)
    BY Zenon DEF HookInv, Locking, LocksWell, QuietStep, Holding
  <2> QED
    BY <2>1, LockingKept, Zenon DEF HookInv
<1>2. Tables'
  BY TablesQuiet, Zenon DEF HookInv, QuietStep
<1>3. NativeWorld => request'[t].table # "gwp"
  BY Zenon DEF NativeWorld, QuietStep
<1>4. GwpWorld => LedBy(t)'
  <2> SUFFICES ASSUME GwpWorld PROVE LedBy(t)'
    BY Zenon
  <2>1. request'[t].pc # "default"
    BY Zenon DEF QuietStep, Changing
  <2>2. CASE request'[t].pc = "serve"
    <3>1. default # "limit"
      BY Zenon DEF HookInv, Tables, Base
    <3>2. request[t].pc = "fallback" => previous = "gwp"
      <4>1. request[t].pc = "fallback" => GoesBack(t)
        BY Zenon DEF HookInv, Locking, Doing, GoesBack
      <4> QED
        BY <4>1, Zenon DEF GwpWorld, NoSignal, Unsignalled
    <3>3. request'[t].table # "limit" /\ Leads(request'[t].table)
      BY <2>2, <3>1, <3>2, Zenon DEF QuietStep, GwpWorld, Leads
    <3> QED
      BY <2>1, <3>3, Zenon DEF LedBy, Leads, tables
  <2>3. CASE request'[t].pc # "serve"
    BY <2>1, <2>3, Zenon DEF LedBy
  <2> QED
    BY <2>2, <2>3, Zenon
<1>5. Worlds'
  BY <1>3, <1>4, WorldsQuiet, Zenon DEF HookInv
<1> QED
  BY <1>1, <1>2, <1>5, Zenon DEF HookInv, Alone

\* A call of malloc, free or realloc begins.
LEMMA HookEnter ==
    ASSUME HookInv, NEW t \in Thread, NEW op \in {"malloc", "free", "realloc"},
           NEW b \in Block \cup {NoBlock}, NEW bytes, Enter(t, op, b, bytes)
    PROVE  HookInv'
<1>1. PICK r : r = [op |-> op, block |-> b, bytes |-> bytes,
                    pc |-> IF current # "limit" THEN "serve"
                           ELSE IF op = "free" THEN "uncount" ELSE "check",
                    table |-> current, limited |-> (current = "limit"),
                    old |-> IF b = NoBlock THEN 0 ELSE heap[b].size]
  BY Zenon
<1>2. PICK pc : /\ pc \in {"serve", "uncount", "check"} /\ (pc = "serve" => current # "limit")
                /\ Made(r, op, pc, current)
  <2>1. r.pc \in {"serve", "uncount", "check"} /\ (r.pc = "serve" => current # "limit")
    BY <1>1, Zenon
  <2>2. Made(r, op, r.pc, current)
    BY <1>1, Zenon DEF Made, Fields
  <2> QED
    BY <2>1, <2>2, Zenon
<1>3. request' = [request EXCEPT ![t] = r] /\ request[t].pc = "idle"
  BY <1>1, Zenon DEF Enter, StartRequest
<1>4. UNCHANGED <<tables, control, memory, dropped>>
  BY Zenon DEF Enter
<1>5. heap' = [x \in Block |-> heap'[x]]
  BY <1>4, Zenon DEF HookInv, Shape, memory
<1>6. /\ Alone(t)
      /\ request'[t].pc = pc /\ request'[t].op = op /\ request'[t].table = current
  BY <1>2, <1>3, <1>5, Replacing, Zenon DEF HookInv
<1>7. QuietStep(t)
  BY <1>2, <1>3, <1>6, Zenon DEF QuietStep, Changing, Holding, Points, Doing
<1>8. NoSignal => Unsignalled(t)'
  BY <1>2, <1>6, Zenon DEF NoSignal, Unsignalled, GoesBack, Holding, Changing
<1>9. NativeWorld => \A x \in Block : heap'[x].owner # "gwp"
  BY <1>4, Zenon DEF NativeWorld, memory
<1> QED
  BY <1>4, <1>6, <1>7, <1>8, <1>9, HookQuiet, Zenon DEF control

\* A call begins that is to replace tables.
LEMMA HookBegin ==
    ASSUME HookInv, NEW t \in Thread, NEW op, NEW l \in {"exchange", "lock", "measure"},
           BeginMutation(t, op, l), op \in Doing(l), l = "exchange" => op = "signal",
           UNCHANGED <<tables, state, mutating, lock, memory, dropped>>,
           created = 0 => created' = 0, op # "malloc", NoSignal => op # "init"
    PROVE  HookInv'
<1>1. PICK r : r = [NoRequest EXCEPT !.op = op, !.pc = l]
  BY Zenon
<1>2. Made(r, op, l, "null")
  BY <1>1, Zenon DEF Made, Fields, NoRequest
<1>3. request' = [request EXCEPT ![t] = r] /\ request[t].pc = "idle"
  BY <1>1, Zenon DEF BeginMutation, StartRequest
<1>4. heap' = [x \in Block |-> heap'[x]]
  BY Zenon DEF HookInv, Shape, memory
<1>5. /\ Alone(t)
      /\ request'[t].pc = l /\ request'[t].op = op /\ request'[t].table = "null"
  BY <1>2, <1>3, <1>4, Replacing, Zenon DEF HookInv
<1>6. QuietStep(t)
  BY <1>3, <1>5, Zenon DEF QuietStep, Changing, Holding, Points, Doing
<1>7. NoSignal => Unsignalled(t)'
  BY <1>5, Zenon DEF Unsignalled, GoesBack
<1>8. NativeWorld => \A x \in Block : heap'[x].owner # "gwp"
  BY Zenon DEF NativeWorld, memory
<1> QED
  BY <1>5, <1>6, <1>7, <1>8, HookQuiet, Zenon

\* So does the beginning of a call.
LEMMA HookStarts ==
    ASSUME HookInv, NEW t \in Thread, Starts(t)
    PROVE  HookInv'
<1>1. CASE Malloc(t)
  BY <1>1, HookEnter, Zenon DEF Malloc
<1>2. CASE Dispose(t)
  BY <1>2, HookEnter, Zenon DEF Dispose, Owned
<1>3. CASE Realloc(t)
  BY <1>3, HookEnter, Zenon DEF Realloc, Owned
<1>4. CASE HandleHeapprofdSignal(t)
  BY <1>4, HookBegin, Zenon DEF HandleHeapprofdSignal, control, Doing
<1>5. CASE InitHeapprofd(t)
  <2>1. "init" \in Doing("lock") /\ "init" # "malloc"
    BY Zenon DEF Doing
  <2>2. /\ BeginMutation(t, "init", "lock")
        /\ UNCHANGED <<tables, state, mutating, lock, memory, dropped>>
        /\ created > 0
    BY <1>5, Zenon DEF InitHeapprofd
  <2>3. created # 0
    BY <2>2
  <2> QED
    BY <2>1, <2>2, <2>3, HookBegin, Zenon DEF NoSignal
<1>6. CASE DispatchReset(t)
  BY <1>6, HookBegin, Zenon DEF DispatchReset, control, Doing
<1>7. CASE LimitEnable(t)
  BY <1>7, HookBegin, Zenon DEF LimitEnable, Doing
<1> QED
  BY <1>1, <1>2, <1>3, <1>4, <1>5, <1>6, <1>7, Zenon DEF Starts

-----------------------------------------------------------------------------
\* A step that moves only the pc of t, or ends its call, and replaces nothing.
LEMMA HookProceed ==
    ASSUME HookInv, NEW t \in Thread, NEW l \in Points \ (Changing \cup {"serve", "default"}),
           Proceed(t, l), heap' = heap, UNCHANGED <<tables, control, dropped>>,
           request[t].pc \notin Changing, request[t].op \in Doing(l), l \notin Holding,
           NoSignal => ~(request[t].op = "malloc" /\ l \in {"lock", "fallback"})
    PROVE  HookInv'
<1>1. heap' = [x \in Block |-> heap'[x]]
  BY Zenon DEF HookInv, Shape
<1>2. /\ Alone(t)
      /\ request'[t].pc = l /\ request'[t].op = request[t].op
      /\ request'[t].table = request[t].table
  BY <1>1, Proceeding, Zenon DEF HookInv
<1>3. QuietStep(t)
  BY <1>2, Zenon DEF QuietStep
<1>4. NoSignal => Unsignalled(t)'
  BY <1>2, Zenon DEF NoSignal, Unsignalled, GoesBack, Holding, Changing
<1> QED
  BY <1>2, <1>3, <1>4, HookQuiet, Zenon DEF control, NativeWorld

\* So does a return.
LEMMA HookReturn ==
    ASSUME HookInv, NEW t \in Thread, Return(t), heap' = [x \in Block |-> heap'[x]],
           UNCHANGED <<tables, control, dropped>>, request[t].pc \notin Changing,
           NativeWorld => \A b \in Block : heap'[b].owner # "gwp"
    PROVE  HookInv'
<1>1. /\ Alone(t)
      /\ request'[t].pc = "idle" /\ request'[t].op = "none" /\ request'[t].table = "null"
  BY NoRequestMade, Replacing, Zenon DEF HookInv, Return
<1>2. QuietStep(t)
  BY <1>1, Zenon DEF QuietStep, Points, Holding, Changing, Doing
<1>3. NoSignal => Unsignalled(t)'
  BY <1>1, Zenon DEF Unsignalled, GoesBack
<1> QED
  BY <1>1, <1>2, <1>3, HookQuiet, Zenon DEF control

\* A request of t becomes r, which is not at a table yet.
LEMMA HookReplace ==
    ASSUME HookInv, NEW t \in Thread, NEW r, NEW op,
           NEW pc \in {"check", "uncount", "fetch", "count", "store"},
           Made(r, op, pc, request[t].table), op \in Doing(pc),
           request' = [request EXCEPT ![t] = r], heap' = [x \in Block |-> heap'[x]],
           UNCHANGED <<tables, control, dropped>>, request[t].pc \notin Changing,
           NativeWorld => \A b \in Block : heap'[b].owner # "gwp"
    PROVE  HookInv'
<1>1. /\ Alone(t)
      /\ request'[t].pc = pc /\ request'[t].op = op /\ request'[t].table = request[t].table
  <2>1. PICK table : table = request[t].table
    BY Zenon
  <2>2. Made(r, op, pc, table) /\ Shape
    BY <2>1, Zenon DEF Made, HookInv
  <2>3. /\ Alone(t)
        /\ request'[t].pc = pc /\ request'[t].op = op /\ request'[t].table = table
    BY <2>2, Replacing, Zenon
  <2> QED
    BY <2>1, <2>3, Zenon
<1>2. QuietStep(t)
  BY <1>1, Zenon DEF QuietStep, Points, Holding, Changing
<1>3. NoSignal => Unsignalled(t)'
  BY <1>1 DEF Unsignalled, GoesBack, Doing, Holding, Changing
<1> QED
  BY <1>1, <1>2, <1>3, HookQuiet, Zenon DEF control

\* The request is given its table.
LEMMA HookServe ==
    ASSUME HookInv, NEW t \in Thread, NEW table \in {default, previous},
           NEW r, Made(r, request[t].op, "serve", table), request' = [request EXCEPT ![t] = r],
           request[t].pc \in {"fetch", "fallback"},
           table = default \/ request[t].pc = "fallback",
           UNCHANGED <<tables, control, memory, dropped>>
    PROVE  HookInv'
<1>1. heap' = [x \in Block |-> heap'[x]]
  BY Zenon DEF HookInv, Shape, memory
<1>2. /\ Alone(t)
      /\ request'[t].pc = "serve" /\ request'[t].op = request[t].op /\ request'[t].table = table
  <2>1. PICK op : op = request[t].op
    BY Zenon
  <2>2. Made(r, op, "serve", table) /\ Shape
    BY <2>1, Zenon DEF Made, HookInv
  <2>3. /\ Alone(t)
        /\ request'[t].pc = "serve" /\ request'[t].op = op /\ request'[t].table = table
    BY <1>1, <2>2, Replacing, ZenonT(30)
  <2> QED
    BY <2>1, <2>3, Zenon
<1>3. request[t].op \in {"malloc", "free", "realloc"}
  BY Zenon DEF HookInv, Locking, Doing
<1>4. QuietStep(t)
  BY <1>2, <1>3, Zenon DEF QuietStep, Points, Holding, Changing, Doing
<1>5. NoSignal => Unsignalled(t)'
  <2> SUFFICES ASSUME NoSignal PROVE Unsignalled(t)'
    BY Zenon
  <2>1. request[t].pc # "fallback"
    BY Zenon DEF NoSignal, Unsignalled, GoesBack, HookInv, Locking, Doing
  <2>2. table # "ephemeral"
    BY <2>1, Zenon DEF NoSignal
  <2> QED
    BY <1>2, <1>3, <2>2, Zenon DEF Unsignalled, GoesBack, Holding, Changing
<1> QED
  BY <1>2, <1>4, <1>5, HookQuiet, Zenon DEF control, memory, NativeWorld

\* The table a call fetches leads to the allocator of its blocks.
LEMMA HookFetches ==
    ASSUME HookInv, NEW t \in Thread, Fetch(t) \/ Fallback(t)
    PROVE  HookInv'
<1>1. PICK table \in {default, previous} :
          /\ request' = [request EXCEPT ![t].pc = "serve", ![t].table = table]
          /\ request[t].pc \in {"fetch", "fallback"}
          /\ table = default \/ request[t].pc = "fallback"
          /\ UNCHANGED <<tables, control, memory, dropped>>
  BY Zenon DEF Fetch, Fallback
<1>2. PICK r : r = [request[t] EXCEPT !.pc = "serve", !.table = table]
  BY Zenon
<1>3. request' = [request EXCEPT ![t] = r]
  BY <1>1, <1>2, Zenon DEF HookInv, Shape
<1>4. Made(r, request[t].op, "serve", table)
  BY <1>2, Zenon DEF Made, HookInv, Shape, Fields
<1> QED
  BY <1>1, <1>3, <1>4, HookServe, ZenonT(30)
\* LimitMalloc and LimitRealloc look at the limit.
LEMMA HookCheck ==
    ASSUME HookInv, NEW t \in Thread, Check(t)
    PROVE  HookInv'
<1>1. PICK c : c = request[t]
  BY Zenon
<1>2. /\ c.pc = "check" /\ c.op \in {"malloc", "free", "realloc"}
      /\ c = [x \in Fields |-> c[x]] /\ c.block \in Block \cup {NoBlock}
  BY <1>1, Zenon DEF Check, HookInv, Locking, Shape, Doing
<1>3. /\ UNCHANGED <<tables, control, dropped>> /\ heap' = [x \in Block |-> heap'[x]]
      /\ NativeWorld => \A b \in Block : heap'[b].owner # "gwp"
      /\ request[t].pc \notin Changing
  BY <1>1, <1>2, Zenon DEF Check, HookInv, Shape, memory, NativeWorld, Changing
<1>4. \/ request' = [request EXCEPT ![t] = [c EXCEPT !.pc = "fetch"]]
      \/ Return(t)
      \/ request' = [request EXCEPT ![t] = [c EXCEPT !.op = "free", !.pc = "uncount"]]
  BY <1>1, Zenon DEF Check, Return
<1>5. CASE request' = [request EXCEPT ![t] = [c EXCEPT !.pc = "fetch"]]
  <2>1. PICK r : r = [c EXCEPT !.pc = "fetch"]
    BY Zenon
  <2>2. Made(r, c.op, "fetch", request[t].table) /\ c.op \in Doing("fetch")
    BY <1>1, <1>2, <2>1, Zenon DEF Made, Fields, Doing
  <2>3. request' = [request EXCEPT ![t] = r]
    BY <1>5, <2>1, Zenon
  <2> QED
    BY <1>3, <2>2, <2>3, HookReplace, Zenon
<1>6. CASE Return(t)
  BY <1>3, <1>6, HookReturn, Zenon
<1>7. CASE request' = [request EXCEPT ![t] = [c EXCEPT !.op = "free", !.pc = "uncount"]]
  <2>1. PICK r : r = [c EXCEPT !.op = "free", !.pc = "uncount"]
    BY Zenon
  <2>2. Made(r, "free", "uncount", request[t].table) /\ "free" \in Doing("uncount")
    BY <1>1, <1>2, <2>1, Zenon DEF Made, Fields, Doing
  <2>3. request' = [request EXCEPT ![t] = r]
    BY <1>7, <2>1, Zenon
  <2> QED
    BY <1>3, <2>2, <2>3, HookReplace, Zenon
<1> QED
  BY <1>4, <1>5, <1>6, <1>7, Zenon

\* What an allocator grants is its own; the native one has none of GWP-ASan's.
LEMMA Granted ==
    ASSUME HookInv, NEW t \in Thread, NEW bytes, NEW b \in Block,
           NEW table \in {request[t].table, "null"}, NEW grant \in Grants(table, bytes) \cup {Free},
           heap' = [heap EXCEPT ![b] = grant]
    PROVE  /\ heap' = [x \in Block |-> heap'[x]]
           /\ NativeWorld => \A x \in Block : heap'[x].owner # "gwp"
<1>1. heap = [x \in Block |-> heap[x]]
  BY Zenon DEF HookInv, Shape
<1>2. NativeWorld => Under(table) # "gwp"
  BY Zenon DEF NativeWorld, Under
<1>3. NativeWorld => grant.owner # "gwp"
  <2>1. grant = Free => grant.owner # "gwp"
    BY DEF Free
  <2>2. grant # Free /\ Under(table) # "gwp" => grant.owner # "gwp"
    BY Zenon DEF Grants
  <2> QED
    BY <1>2, <2>1, <2>2, Zenon
<1>4. \A x \in Block : heap'[x] = IF x = b THEN grant ELSE heap[x]
  BY <1>1, Zenon
<1>5. heap' = [x \in Block |-> heap'[x]]
  BY <1>1, Zenon
<1> QED
  BY <1>3, <1>4, <1>5, Zenon DEF NativeWorld

\* The allocator has served a request, which returns or goes on to be counted.
LEMMA HookServed ==
    ASSUME HookInv, NEW t \in Thread, NEW b \in Block \cup {NoBlock},
           request[t].pc = "serve",
           \/ Return(t)
           \/ request' = [request EXCEPT ![t] = [request[t] EXCEPT !.pc = "count", !.block = b]],
           heap' = [x \in Block |-> heap'[x]], UNCHANGED <<tables, control, dropped>>,
           NativeWorld => \A x \in Block : heap'[x].owner # "gwp"
    PROVE  HookInv'
<1>1. request[t].pc \notin Changing
  BY Zenon DEF Changing
<1>2. CASE Return(t)
  BY <1>1, <1>2, HookReturn, Zenon
<1>3. CASE request' = [request EXCEPT ![t] = [request[t] EXCEPT !.pc = "count", !.block = b]]
  <2>1. PICK r : r = [request[t] EXCEPT !.pc = "count", !.block = b]
    BY Zenon
  <2>2. request[t].op \in Doing("count")
    BY Zenon DEF HookInv, Locking, Doing
  <2>3. Made(r, request[t].op, "count", request[t].table)
    <3>1. PICK c : c = request[t] /\ c = [x \in Fields |-> c[x]]
      BY Zenon DEF HookInv, Shape
    <3>2. r = [c EXCEPT !.pc = "count", !.block = b]
      BY <2>1, <3>1, Zenon
    <3>3. Made(r, c.op, "count", c.table)
      BY <3>1, <3>2, Zenon DEF Made, Fields
    <3> QED
      BY <3>1, <3>3, Zenon
  <2>4. request' = [request EXCEPT ![t] = r]
    BY <1>3, <2>1, Zenon
  <2> QED
    BY <1>1, <2>2, <2>3, <2>4, HookReplace, Zenon
<1> QED
  BY <1>2, <1>3, Zenon

\* A block comes from where its table leads.
LEMMA HookServes ==
    ASSUME HookInv, NEW t \in Thread, ServeMalloc(t) \/ ServeFree(t) \/ ServeRealloc(t)
    PROVE  HookInv'
<1>1. /\ request[t].pc = "serve" /\ UNCHANGED <<tables, control, dropped>>
      /\ request[t].block \in Block \cup {NoBlock}
  BY Zenon DEF ServeMalloc, ServeFree, ServeRealloc, HookInv, Shape
<1>2. heap = [x \in Block |-> heap[x]] /\ (NativeWorld => \A x \in Block : heap[x].owner # "gwp")
  BY Zenon DEF HookInv, Shape, NativeWorld
<1>3. CASE ServeMalloc(t)
  <2>1. CASE Return(t) /\ heap' = heap
    BY <1>1, <1>2, <2>1, HookServed, Zenon
  <2>2. CASE \E grant \in Grants(request[t].table, request[t].bytes) :
                LET b == CHOOSE x \in Block : heap[x] = Free IN
                /\ \E x \in Block : heap[x] = Free
                /\ heap' = [heap EXCEPT ![b] = grant]
                /\ request' = [request EXCEPT ![t] =
                              IF ~request[t].limited THEN NoRequest
                              ELSE [request[t] EXCEPT !.pc = "count", !.block = b]]
    <3>1. PICK b : b = CHOOSE x \in Block : heap[x] = Free
      BY Zenon
    <3>2. PICK grant \in Grants(request[t].table, request[t].bytes) :
                /\ \E x \in Block : heap[x] = Free
                /\ heap' = [heap EXCEPT ![b] = grant]
                /\ request' = [request EXCEPT ![t] =
                              IF ~request[t].limited THEN NoRequest
                              ELSE [request[t] EXCEPT !.pc = "count", !.block = b]]
      BY <2>2, <3>1, Zenon
    <3>3. b \in Block
      BY <3>1, <3>2, Zenon
    <3>4. /\ heap' = [x \in Block |-> heap'[x]]
          /\ NativeWorld => \A x \in Block : heap'[x].owner # "gwp"
      BY <3>2, <3>3, Granted, Zenon
    <3>5. \/ Return(t)
          \/ request' = [request EXCEPT ![t] = [request[t] EXCEPT !.pc = "count", !.block = b]]
      BY <3>2, Zenon DEF Return
    <3> QED
      BY <1>1, <3>3, <3>4, <3>5, HookServed, Zenon
  <2> QED
    BY <1>3, <2>1, <2>2, Zenon DEF ServeMalloc
<1>4. ASSUME NEW grant, heap' = [heap EXCEPT ![request[t].block] = grant],
             \E bytes : \E table \in {request[t].table, "null"} :
                grant \in Grants(table, bytes) \cup {Free}
      PROVE  /\ heap' = [x \in Block |-> heap'[x]]
             /\ NativeWorld => \A x \in Block : heap'[x].owner # "gwp"
  <2>1. CASE request[t].block \in Block
    <3>1. PICK b \in Block : b = request[t].block
      BY <2>1, Zenon
    <3>2. PICK bytes : \E table \in {request[t].table, "null"} :
                          grant \in Grants(table, bytes) \cup {Free}
      BY <1>4, Zenon
    <3>3. PICK table \in {request[t].table, "null"} : grant \in Grants(table, bytes) \cup {Free}
      BY <3>2, Zenon
    <3> QED
      BY <1>4, <3>1, <3>3, Granted, Zenon
  <2>2. CASE request[t].block \notin Block
    <3>1. heap' = heap
      BY <1>2, <1>4, <2>2, Zenon
    <3> QED
      BY <1>2, <3>1, Zenon
  <2> QED
    BY <2>1, <2>2, Zenon
<1>5. CASE ServeFree(t)
  <2>1. /\ heap' = [x \in Block |-> heap'[x]]
        /\ NativeWorld => \A x \in Block : heap'[x].owner # "gwp"
    BY <1>4, <1>5, Zenon DEF ServeFree
  <2>2. Return(t)
    BY <1>5, Zenon DEF ServeFree
  <2> QED
    BY <1>1, <2>1, <2>2, HookServed, Zenon
<1>6. CASE ServeRealloc(t)
  <2>1. /\ heap' = [x \in Block |-> heap'[x]]
        /\ NativeWorld => \A x \in Block : heap'[x].owner # "gwp"
    <3>1. \/ \E table \in {request[t].table, "null"} :
                \E grant \in Grants(table, request[t].bytes) :
                    heap' = [heap EXCEPT ![request[t].block] = grant]
          \/ heap' = [heap EXCEPT ![request[t].block] = Free]
          \/ heap' = heap
      BY <1>6, Zenon DEF ServeRealloc
    <3> QED
      BY <1>2, <1>4, <3>1, Zenon
  <2>2. PICK b \in {request[t].block, NoBlock} :
          request' = [request EXCEPT ![t] =
                         IF request[t].limited
                           THEN [request[t] EXCEPT !.pc = "count", !.block = b] ELSE NoRequest]
    BY <1>6, Zenon DEF ServeRealloc
  <2>3. \/ Return(t)
        \/ request' = [request EXCEPT ![t] = [request[t] EXCEPT !.pc = "count", !.block = b]]
    BY <2>2, Zenon DEF Return
  <2>4. b \in Block \cup {NoBlock}
    BY <1>1, Zenon
  <2> QED
    BY <1>1, <2>1, <2>3, <2>4, HookServed, Zenon
<1> QED
  BY <1>3, <1>5, <1>6, Zenon

\* The steps of malloc, free and realloc together.
LEMMA HookAllocates ==
    ASSUME HookInv, NEW t \in Thread, Allocates(t)
    PROVE  HookInv'
<1>0. request[t].op \in Doing(request[t].pc)
  BY Zenon DEF HookInv, Locking
<1>1. CASE Check(t)
  BY <1>1, HookCheck, Zenon
<1>2. CASE Uncount(t)
  BY <1>0, <1>2, HookProceed, Zenon DEF Uncount, Doing, Points, Holding, Changing
<1>3. CASE Fetch(t) \/ Fallback(t)
  BY <1>3, HookFetches, Zenon
<1>4. CASE ServeMalloc(t) \/ ServeFree(t) \/ ServeRealloc(t)
  BY <1>4, HookServes, Zenon
<1>5. CASE Count(t)
  <2>1. Return(t) /\ UNCHANGED <<tables, control, heap, dropped>> /\ request[t].pc \notin Changing
    BY <1>5, Zenon DEF Count, Changing
  <2>2. /\ heap' = [x \in Block |-> heap'[x]]
        /\ NativeWorld => \A x \in Block : heap'[x].owner # "gwp"
    BY <2>1, Zenon DEF HookInv, Shape, NativeWorld
  <2> QED
    BY <2>1, <2>2, HookReturn, Zenon
<1>6. CASE MallocInitHeapprofdHook(t)
  <2>1. NoSignal => FALSE
    BY <1>6, Zenon DEF MallocInitHeapprofdHook, NoSignal, Unsignalled
  <2>2. /\ Proceed(t, "lock") /\ UNCHANGED <<tables, control, heap, dropped>>
        /\ request[t].pc \notin Changing /\ request[t].op \in Doing("lock")
    BY <1>6, Zenon DEF MallocInitHeapprofdHook, memory, Changing, Doing
  <2>3. "lock" \in Points \ (Changing \cup {"serve", "default"}) /\ "lock" \notin Holding
    BY Zenon DEF Points, Holding, Changing
  <2> QED
    BY <2>1, <2>2, <2>3, HookProceed, Zenon
<1> QED
  BY <1>1, <1>2, <1>3, <1>4, <1>5, <1>6, Zenon DEF Allocates

\* The limit measures what is allocated, and stores it.
LEMMA HookMeasures ==
    ASSUME HookInv, NEW t \in Thread, Measure(t) \/ StoreAllocated(t)
    PROVE  HookInv'
<1>0. request[t].op \in Doing(request[t].pc)
  BY Zenon DEF HookInv, Locking
<1>1. CASE Measure(t)
  <2>1. PICK bytes : request' = [request EXCEPT ![t].pc = "store", ![t].bytes = bytes]
    BY <1>1, Zenon DEF Measure
  <2>2. PICK c : c = request[t] /\ c = [x \in Fields |-> c[x]] /\ c.block \in Block \cup {NoBlock}
    BY Zenon DEF HookInv, Shape
  <2>3. PICK r : r = [c EXCEPT !.pc = "store", !.bytes = bytes]
    BY Zenon
  <2>4. request' = [request EXCEPT ![t] = r]
    BY <2>1, <2>2, <2>3, Zenon DEF HookInv, Shape
  <2>5. Made(r, c.op, "store", c.table)
    BY <2>2, <2>3, Zenon DEF Made, Fields
  <2>6. Made(r, c.op, "store", request[t].table) /\ c.op \in Doing("store")
    BY <1>0, <1>1, <2>2, <2>5, Zenon DEF Doing, Measure
  <2>7. UNCHANGED <<tables, control, heap, dropped>> /\ request[t].pc \notin Changing
    BY <1>1, Zenon DEF Measure, memory, Changing
  <2>8. /\ heap' = [x \in Block |-> heap'[x]]
        /\ NativeWorld => \A x \in Block : heap'[x].owner # "gwp"
    BY <2>7, Zenon DEF HookInv, Shape, NativeWorld
  <2> QED
    BY <2>4, <2>6, <2>7, <2>8, HookReplace, Zenon
<1>2. CASE StoreAllocated(t)
  <2>1. /\ Proceed(t, "lock") /\ UNCHANGED <<tables, control, heap, dropped>>
        /\ request[t].op = "limit" /\ request[t].pc \notin Changing
    BY <1>0, <1>2, Zenon DEF StoreAllocated, Changing, Doing
  <2>2. /\ "lock" \in Points \ (Changing \cup {"serve", "default"}) /\ "lock" \notin Holding
        /\ "limit" \in Doing("lock")
    BY Zenon DEF Points, Holding, Changing, Doing
  <2> QED
    BY <2>1, <2>2, HookProceed, Zenon
<1> QED
  BY <1>1, <1>2, Zenon

-----------------------------------------------------------------------------
\* A step of t from l to m that stores no table, but takes or gives the flag or
\* the lock.
LEMMA HookLockStep ==
    ASSUME HookInv, NEW t \in Thread, Alone(t), LocksWell(t),
           UNCHANGED <<tables, state, created, heap, dropped>>,
           request'[t].pc \notin {"serve", "signal", "init", "default", "current", "settle"}
             \/ (request'[t].pc = "current" /\ request'[t].op = "limit"),
           request'[t].table \in {"null", request[t].table},
           request[t].pc \in Changing => Stable,
           NoSignal => Unsignalled(t)'
    PROVE  HookInv'
<1>1. Locking'
  BY LockingKept, Zenon DEF HookInv
<1>2. Tables'
  <2>1. CASE request[t].pc \in Changing \/ (~mutating /\ request'[t].pc \in Changing)
    <3>1. Stable'
      BY <2>1, Zenon DEF HookInv, Tables, Stable, tables
    <3>2. PICK op, pc : op = request'[t].op /\ pc = request'[t].pc
      BY Zenon
    <3>3. pc \in Changing => ChangingTo(op, pc)'
      BY <3>1, <3>2, Zenon DEF ChangingTo, Changing
    <3>4. request[t].pc \in Changing \/ ~mutating
      BY <2>1, Zenon
    <3>5. /\ previous' \in Base /\ ephemeral' \in Base /\ backing' \in Base
          /\ default' \in Base \cup {"ephemeral", "heapprofd", "debug"}
      BY Zenon DEF HookInv, Tables, tables
    <3> QED
      BY <3>1, <3>2, <3>3, <3>4, <3>5, TablesChanged, Zenon DEF HookInv
  <2>2. CASE request[t].pc \notin Changing /\ request'[t].pc \notin Changing
    <3>1. mutating' <=> mutating
      BY <2>2, Zenon DEF LocksWell
    <3> QED
      BY <2>2, <3>1, TablesQuiet, Zenon DEF HookInv
  <2>3. request'[t].pc \in Changing => request[t].pc \in Changing \/ ~mutating
    BY Zenon DEF LocksWell
  <2> QED
    BY <2>1, <2>2, <2>3, Zenon
<1>3. NativeWorld => request'[t].table # "gwp" /\ \A b \in Block : heap'[b].owner # "gwp"
  BY Zenon DEF NativeWorld
<1>4. LedBy(t)'
  BY Zenon DEF LedBy
<1>5. Worlds'
  BY <1>3, <1>4, WorldsQuiet, Zenon DEF HookInv
<1> QED
  BY <1>1, <1>2, <1>5, Zenon DEF HookInv, Alone

\* The lock is taken, the flag set and cleared.
LEMMA HookLocks ==
    ASSUME HookInv, NEW t \in Thread, Lock(t) \/ Exchange(t) \/ Clear(t)
    PROVE  HookInv'
<1>1. PICK l : /\ Proceed(t, l)
               /\ \/ request[t].pc = "lock" /\ l = "exchange"
                  \/ request[t].pc = "exchange" /\ request[t].op = "limit" /\ l = "current"
                  \/ request[t].pc = "exchange" /\ request[t].op # "limit" /\ l = "prepare"
                  \/ request[t].pc = "exchange" /\ l = "unlock"
                  \/ request[t].pc = "clear" /\ l = "unlock"
  BY Zenon DEF Lock, Exchange, Clear
<1>2. UNCHANGED <<tables, state, created, heap, dropped>>
  BY Zenon DEF Lock, Exchange, Clear, memory
<1>3. /\ Alone(t)
      /\ request'[t].pc = l /\ request'[t].op = request[t].op
      /\ request'[t].table = request[t].table
  <2>1. heap' = [x \in Block |-> heap'[x]] /\ Shape
    BY <1>2, Zenon DEF HookInv, Shape
  <2> QED
    BY <1>1, <2>1, Proceeding, Zenon
<1>4. LocksWell(t)
  <2>1. /\ request[t].op \in Doing(request[t].pc) /\ (request[t].pc \in Changing => mutating)
        /\ request[t].pc \in Holding /\ request[t].op # "signal" => lock = t
    BY Zenon DEF HookInv, Locking
  <2>2. request'[t].pc \in Points /\ request'[t].op \in Doing(request'[t].pc)
    BY <1>1, <1>3, <2>1, Zenon DEF Doing, Points, Holding, Changing
  <2>3. CASE Lock(t)
    <3>1. /\ request[t].pc = "lock" /\ request'[t].pc = "exchange"
          /\ lock = NoThread /\ lock' = t /\ mutating' = mutating
      BY <1>1, <1>3, <2>3, Zenon DEF Lock
    <3> QED
      BY <2>2, <3>1, Zenon DEF LocksWell, Changing
  <2>4. CASE Exchange(t)
    <3>1. request[t].pc = "exchange" /\ request[t].pc \in Holding \ Changing
      BY <2>4, Zenon DEF Exchange, Holding, Changing
    <3>2. /\ lock' = lock
          /\ \/ ~mutating /\ mutating' /\ l \in {"current", "prepare"}
             \/ mutating /\ mutating' = mutating /\ l = "unlock"
      <4>1. request'[t].pc = l
        BY <1>3, Zenon
      <4>2. ASSUME NEW m, Proceed(t, m) PROVE m = l
        <5>1. heap' = [x \in Block |-> heap'[x]] /\ Shape
          BY <1>2, Zenon DEF HookInv, Shape
        <5>2. request'[t].pc = m
          BY <4>2, <5>1, Proceeding, Zenon
        <5> QED
          BY <4>1, <5>2, Zenon
      <4> QED
        BY <2>4, <4>2, Zenon DEF Exchange
    <3> QED
      BY <1>3, <2>1, <2>2, <3>1, <3>2, SMTT(30) DEF LocksWell, Changing
  <2>5. CASE Clear(t)
    <3>1. /\ request[t].pc = "clear" /\ l = "unlock" /\ lock' = lock /\ mutating' = FALSE
      BY <1>1, <2>5, Zenon DEF Clear
    <3> QED
      BY <1>3, <2>1, <2>2, <3>1, Zenon DEF LocksWell, Changing, Holding
  <2> QED
    BY <2>3, <2>4, <2>5, Zenon
<1>5. request[t].pc \in Changing => Stable
  <2>1. request[t].pc \in Changing => request[t].pc = "clear"
    BY <1>1, Zenon DEF Changing
  <2> QED
    BY <2>1, Zenon DEF HookInv, Tables, ChangingTo
<1>6. NoSignal => Unsignalled(t)'
  BY <1>1, <1>3, Zenon DEF NoSignal, Unsignalled, GoesBack, Holding, Changing
<1> QED
  BY <1>1, <1>2, <1>3, <1>4, <1>5, <1>6, HookLockStep, Zenon

\* The lock is given back.
LEMMA HookUnlock ==
    ASSUME HookInv, NEW t \in Thread, Unlock(t)
    PROVE  HookInv'
<1>1. /\ request[t].pc = "unlock" /\ UNCHANGED <<tables, state, mutating, created, heap, dropped>>
      /\ lock' = IF lock = t THEN NoThread ELSE lock
  BY Zenon DEF Unlock, memory
<1>2. heap' = [x \in Block |-> heap'[x]] /\ Shape
  BY <1>1, Zenon DEF HookInv, Shape
<1>3. /\ Alone(t) /\ request'[t].table \in {"null", request[t].table}
      /\ \/ /\ request[t].op = "malloc"
            /\ request'[t].pc = "fallback" /\ request'[t].op = request[t].op
         \/ request'[t].pc = "idle" /\ request'[t].op = "none"
  <2>1. CASE request[t].op = "malloc"
    <3>1. Proceed(t, "fallback")
      BY <2>1, Zenon DEF Unlock
    <3>2. /\ Alone(t)
          /\ request'[t].pc = "fallback" /\ request'[t].op = request[t].op
          /\ request'[t].table = request[t].table
      BY <1>2, <3>1, Proceeding, Zenon
    <3> QED
      BY <2>1, <3>2, Zenon
  <2>2. CASE request[t].op # "malloc"
    <3>1. Return(t)
      BY <2>2, Zenon DEF Unlock
    <3>2. /\ Alone(t)
          /\ request'[t].pc = "idle" /\ request'[t].op = "none" /\ request'[t].table = "null"
      BY <1>2, <3>1, NoRequestMade, Replacing, Zenon DEF Return
    <3> QED
      BY <3>2, Zenon
  <2> QED
    BY <2>1, <2>2, Zenon
<1>4. LocksWell(t)
  BY <1>1, <1>3, Zenon DEF LocksWell, Doing, Points, Holding, Changing
<1>5. request[t].pc \notin Changing
  BY <1>1, Zenon DEF Changing
<1>6. NoSignal => Unsignalled(t)'
  BY <1>1, <1>3, Zenon DEF NoSignal, Unsignalled, GoesBack, Holding
<1> QED
  BY <1>1, <1>3, <1>4, <1>5, <1>6, HookLockStep, Zenon

-----------------------------------------------------------------------------
\* A step of the one thread that is replacing tables.
LEMMA HookChange ==
    ASSUME HookInv, NEW t \in Thread, NEW l \in Changing, NEW op, op = request[t].op,
           Proceed(t, l), request[t].pc \in Changing, op \in Doing(l),
           UNCHANGED <<mutating, lock, heap>>, ChangingTo(op, l)',
           previous' \in Base, ephemeral' \in Base, backing' \in Base,
           default' \in Base \cup {"ephemeral", "heapprofd", "debug"},
           dropped # {} => dropped' # {},
           NativeWorld => dropped' # {} \/ "gwp" \notin {current', default', previous', ephemeral', backing'},
           GwpWorld /\ request'[t].pc = l /\ request'[t].op = op => dropped' # {} \/ StaysLed(t)
    PROVE  HookInv'
<1>1. heap' = [x \in Block |-> heap'[x]] /\ Shape
  BY Zenon DEF HookInv, Shape
<1>2. /\ Alone(t)
      /\ request'[t].pc = l /\ request'[t].op = op /\ request'[t].table = request[t].table
  BY <1>1, Proceeding, Zenon
<1>3. /\ mutating /\ request[t].pc \in Holding
      /\ request[t].pc \in Holding /\ op # "signal" => lock = t
  BY Zenon DEF HookInv, Locking, Holding
<1>4. Locking'
  <2>1. LocksWell(t)
    BY <1>2, <1>3, Zenon DEF LocksWell, Points, Holding
  <2> QED
    BY <1>2, <2>1, LockingKept, Zenon DEF HookInv
<1>5. Tables'
  BY <1>2, <1>3, TablesChanged, ZenonT(30) DEF HookInv
<1>6. Worlds'
  <2>1. NativeWorld => dropped' # {} \/ StaysNative(t)
    BY <1>2, Zenon DEF NativeWorld, StaysNative
  <2>2. GwpWorld => dropped' # {} \/ StaysLed(t)
    BY <1>2, Zenon
  <2> QED
    BY <1>2, <2>1, <2>2, WorldsKept, Zenon DEF HookInv
<1> QED
  BY <1>2, <1>4, <1>5, <1>6, Zenon DEF HookInv, Alone

\* Where t is, when it is replacing tables.
LEMMA ChangerKnows ==
    ASSUME HookInv, NEW t \in Thread, request[t].pc \in Changing, NEW op, op = request[t].op
    PROVE  /\ op \in Doing(request[t].pc) /\ ChangingTo(op, request[t].pc)
           /\ previous \in Base /\ ephemeral \in Base /\ backing \in Base
           /\ default \in Base \cup {"ephemeral", "heapprofd", "debug"}
BY Zenon DEF HookInv, Locking, Tables

\* A thread that stores tables is proof of a signal, but for the limit, a thread
\* that is about to heed the signal, and a reset that has stored none yet.
LEMMA ChangerSignalled ==
    ASSUME HookInv, NEW t \in Thread,
           request[t].pc \in {"init", "default", "current", "settle"}, request[t].op # "limit",
           request[t].op = "reset" => request[t].pc # "default"
    PROVE  ~NoSignal
<1>1. PICK op : op = request[t].op
  BY Zenon
<1>2. ChangingTo(op, request[t].pc) /\ op \in Doing(request[t].pc)
  BY <1>1, ChangerKnows, Zenon DEF Changing
<1>3. op \in {"signal", "malloc", "init", "reset"}
  BY <1>1, <1>2, Zenon DEF Doing
<1>4. op = "reset" => request[t].pc \in {"current", "settle"}
  BY <1>1, <1>2, Zenon DEF Doing
<1>5. op = "malloc" => GoesBack(t)
  BY <1>1, Zenon DEF GoesBack, Holding, Changing
<1>6. request[t].pc = "init" => op = "init"
  BY <1>2, Zenon DEF Doing
<1> QED
  BY <1>1, <1>3, <1>4, <1>5, <1>6, Zenon DEF NoSignal, Unsignalled

\* The state of heapprofd is compared and exchanged.
LEMMA HookPrepare ==
    ASSUME HookInv, NEW t \in Thread, Prepare(t)
    PROVE  HookInv'
<1>1. PICK op : op = request[t].op
  BY Zenon
<1>2. /\ request[t].pc = "prepare" /\ UNCHANGED <<tables, mutating, lock, created, heap, dropped>>
  BY Zenon DEF Prepare, memory
<1>3. request[t].pc \in Changing
  BY <1>2, Zenon DEF Changing
<1>4. /\ op \in {"signal", "malloc", "init", "reset"} /\ Stable
      /\ previous' \in Base /\ ephemeral' \in Base /\ backing' \in Base
      /\ default' \in Base \cup {"ephemeral", "heapprofd", "debug"}
  BY <1>1, <1>2, <1>3, ChangerKnows, ZenonT(30) DEF Doing, ChangingTo, tables
<1>5. PICK l : /\ Proceed(t, l)
               /\ \/ /\ state \in Transition[op].from /\ state' = Transition[op].via
                     /\ l = IF op \in {"signal", "init"} THEN op ELSE "default"
                  \/ l = "clear" /\ state' = state
  BY <1>1, Zenon DEF Prepare
<1>6. l \in Changing /\ op \in Doing(l)
  BY <1>4, <1>5, Zenon DEF Changing, Doing
<1>7. ChangingTo(op, l)'
  <2>1. CASE l = "clear" /\ state' = state
    BY <1>2, <1>4, <2>1, Zenon DEF ChangingTo, Stable, tables
  <2>2. CASE /\ state \in Transition[op].from /\ state' = Transition[op].via
             /\ l = IF op \in {"signal", "init"} THEN op ELSE "default"
    <3>1. current' = current /\ default' = default /\ current \in {"limit", default}
      BY <1>2, <1>4, Zenon DEF tables, Stable
    <3>2. CASE op = "signal"
      BY <1>4, <2>2, <3>1, <3>2, Zenon DEF ChangingTo, Stable, Transition, Base
    <3>3. CASE op = "malloc"
      BY <1>4, <2>2, <3>1, <3>3, Zenon DEF ChangingTo, Stable, Transition
    <3>4. CASE op = "init"
      BY <1>4, <2>2, <3>1, <3>4, Zenon DEF ChangingTo, Stable, Transition
    <3>5. CASE op = "reset"
      BY <1>4, <2>2, <3>1, <3>5, Zenon DEF ChangingTo, Stable, Transition
    <3> QED
      BY <1>4, <3>2, <3>3, <3>4, <3>5, Zenon
  <2> QED
    BY <1>5, <2>1, <2>2, Zenon
<1>8. NativeWorld => "gwp" \notin {current', default', previous', ephemeral', backing'}
  BY <1>2, Zenon DEF NativeWorld, tables
<1>9. ASSUME GwpWorld, request'[t].pc = l, request'[t].op = op
      PROVE  StaysLed(t)
  <2>1. Leads(default)' /\ Leads(current)'
    BY <1>2, <1>9, Zenon DEF GwpWorld, Leads, tables
  <2>2. LedBy(t)'
    BY <1>4, <1>5, <1>9, Zenon DEF LedBy
  <2>3. ASSUME NoSignal
        PROVE  state' \in Unprofiled /\ Unsignalled(t)'
    <3>1. op \in {"signal", "reset"}
      BY <1>1, <1>2, <1>4, <2>3, Zenon DEF NoSignal, Unsignalled, GoesBack, Holding, Changing
    <3>2. op = "reset" => l \in {"default", "clear"} /\ state' \in {state, "kUninstallingHook"}
      BY <1>5 DEF Transition
    <3>3. op = "signal" => l \in {"signal", "clear"} /\ state' \in {state, "kInstallingEphemeralHook"}
      BY <1>5 DEF Transition
    <3> QED
      BY <1>9, <2>3, <3>1, <3>2, <3>3, Zenon DEF NoSignal, Unsignalled, GoesBack, Unprofiled
  <2>4. previous' # "gwp" => NoSignal
    BY <1>2, <1>9, Zenon DEF GwpWorld, tables
  <2> QED
    BY <1>2, <2>1, <2>2, <2>3, <2>4, Zenon DEF StaysLed, NoSignal, tables
<1> QED
  BY <1>1, <1>2, <1>3, <1>4, <1>5, <1>6, <1>7, <1>8, <1>9, HookChange, ZenonT(30)

\* The signal handler copies a table into the ephemeral one.
LEMMA HookSetUp ==
    ASSUME HookInv, NEW t \in Thread, SetUpEphemeral(t)
    PROVE  HookInv'
<1>1. /\ request[t].pc = "signal" /\ Proceed(t, "default")
      /\ UNCHANGED <<current, default, backing, state, mutating, lock, created, heap>>
      /\ dropped' = dropped \cup IF default = "heapprofd" /\ backing = "gwp" THEN {"signal"} ELSE {}
  BY Zenon DEF SetUpEphemeral, control, memory
<1>2. PICK below : /\ previous' = below /\ ephemeral' = below /\ below \in Base
                   /\ below = "gwp" <=> default = "gwp"
  BY DEF SetUpEphemeral, Base
<1>3. request[t].pc \in Changing /\ "default" \in Changing
  BY <1>1, Zenon DEF Changing
<1>4. PICK op : op = request[t].op
  BY Zenon
<1>5. /\ op = "signal" /\ op \in Doing("default") /\ ChangingTo(op, "signal")
      /\ backing \in Base /\ default \in Base \cup {"ephemeral", "heapprofd", "debug"}
  BY <1>1, <1>3, <1>4, ChangerKnows, Zenon DEF Doing
<1>6. ChangingTo(op, "default")'
  BY <1>1, <1>5, Zenon DEF ChangingTo
<1>7. NativeWorld => "gwp" \notin {current', default', previous', ephemeral', backing'}
  BY <1>1, <1>2, Zenon DEF NativeWorld
<1>8. ASSUME GwpWorld, request'[t].pc = "default", request'[t].op = op
      PROVE  dropped' # {} \/ StaysLed(t)
  <2>1. default \in Base \cup {"heapprofd"}
    BY <1>5, Zenon DEF ChangingTo
  <2>2. CASE default = "heapprofd"
    <3>1. backing = "gwp"
      BY <1>8, <2>2, Zenon DEF GwpWorld, Leads
    <3> QED
      BY <1>1, <2>2, <3>1, Zenon
  <2>3. CASE default # "heapprofd"
    <3>1. default = "gwp"
      BY <1>8, <2>1, <2>3, Zenon DEF GwpWorld, Leads, Base
    <3>2. previous' = "gwp" /\ ephemeral' = "gwp"
      BY <1>2, <3>1, Zenon
    <3>3. Leads(default)' /\ Leads(current)'
      BY <1>1, <1>8, <3>1, <3>2, Zenon DEF GwpWorld, Leads
    <3>4. LedBy(t)'
      BY <1>5, <1>8, <3>2, Zenon DEF LedBy
    <3> QED
      BY <1>1, <3>2, <3>3, <3>4, Zenon DEF StaysLed
  <2> QED
    BY <2>2, <2>3, Zenon
<1>9. previous' \in Base /\ ephemeral' \in Base
  BY <1>2, Zenon
<1>10. dropped # {} => dropped' # {}
  BY <1>1, Zenon
<1> QED
  BY <1>1, <1>3, <1>4, <1>5, <1>6, <1>7, <1>8, <1>9, <1>10, HookChange, Zenon

\* The table of heapprofd's library is put in place.
LEMMA HookInstall ==
    ASSUME HookInv, NEW t \in Thread, CommonInstallHooks(t)
    PROVE  HookInv'
<1>1. /\ request[t].pc = "init"
      /\ UNCHANGED <<current, default, ephemeral, state, mutating, lock, created, heap, dropped>>
  BY Zenon DEF CommonInstallHooks, control, memory
<1>2. PICK l \in {"settle", "default"} :
          /\ Proceed(t, l)
          /\ previous' \in {previous, default} /\ backing' \in {backing, default}
          /\ l = "settle" => backing' = backing
          /\ l = "default" => backing' = default
  BY Zenon DEF CommonInstallHooks
<1>3. request[t].pc \in Changing /\ l \in Changing
  BY <1>1, Zenon DEF Changing
<1>4. PICK op : op = request[t].op
  BY Zenon
<1>5. /\ op = "init" /\ op \in Doing(l) /\ ChangingTo(op, "init")
      /\ previous \in Base /\ ephemeral \in Base /\ backing \in Base
  BY <1>1, <1>3, <1>4, ChangerKnows, Zenon DEF Doing
<1>6. default \in Base
  BY <1>5, Zenon DEF ChangingTo
<1>7. ChangingTo(op, l)'
  BY <1>1, <1>5, Zenon DEF ChangingTo
<1>8. NativeWorld => "gwp" \notin {current', default', previous', ephemeral', backing'}
  BY <1>1, <1>2, Zenon DEF NativeWorld
<1>9. ASSUME GwpWorld, request'[t].pc = l, request'[t].op = op
      PROVE  StaysLed(t)
  <2>1. default = "gwp"
    BY <1>6, <1>9, Zenon DEF GwpWorld, Leads, Base
  <2>2. previous = "gwp"
    BY <1>1, <1>4, <1>5, <1>9, ChangerSignalled, Zenon DEF GwpWorld
  <2>3. Leads(default)' /\ Leads(current)' /\ previous' = "gwp"
    BY <1>1, <1>2, <1>9, <2>1, <2>2, Zenon DEF GwpWorld, Leads
  <2>4. LedBy(t)'
    BY <1>2, <1>5, <1>9, <2>1, Zenon DEF LedBy
  <2> QED
    BY <1>1, <1>2, <2>1, <2>3, <2>4, Zenon DEF StaysLed
<1>10. previous' \in Base /\ ephemeral' \in Base /\ backing' \in Base /\ default' \in Base
  BY <1>1, <1>2, <1>5, <1>6, Zenon
<1> QED
  BY <1>1, <1>2, <1>3, <1>4, <1>5, <1>7, <1>8, <1>9, <1>10, HookChange, Zenon

\* The table in use is replaced.
LEMMA HookStoreDefault ==
    ASSUME HookInv, NEW t \in Thread, StoreDefault(t)
    PROVE  HookInv'
<1>1. /\ request[t].pc = "default" /\ Proceed(t, "current")
      /\ UNCHANGED <<current, previous, ephemeral, backing, state, mutating, lock, created, heap>>
      /\ dropped' = dropped \cup IF request[t].op = "reset" /\ default = "gwp" /\ previous = "null"
                                 THEN {"reset"} ELSE {}
  BY Zenon DEF StoreDefault, control, memory
<1>2. request[t].pc \in Changing /\ "current" \in Changing
  BY <1>1, Zenon DEF Changing
<1>3. PICK op : op = request[t].op
  BY Zenon
<1>4. /\ op \in {"signal", "malloc", "init", "reset"} /\ op \in Doing("current")
      /\ ChangingTo(op, "default")
      /\ previous \in Base /\ ephemeral \in Base /\ backing \in Base
  BY <1>1, <1>2, <1>3, ChangerKnows, Zenon DEF Doing
<1>5. default' = IF op = "signal" THEN "ephemeral" ELSE IF op = "init" THEN "heapprofd" ELSE previous
  BY <1>3, Zenon DEF StoreDefault
<1>6. ChangingTo(op, "current")'
  BY <1>1, <1>4, <1>5, Zenon DEF ChangingTo
<1>7. NativeWorld => "gwp" \notin {current', default', previous', ephemeral', backing'}
  BY <1>1, <1>5, Zenon DEF NativeWorld
<1>8. ASSUME GwpWorld, request'[t].pc = "current", request'[t].op = op, dropped' = {}
      PROVE  StaysLed(t)
  <2>1. previous = "gwp"
    <3>1. CASE op # "reset"
      BY <1>1, <1>3, <1>4, <1>8, <3>1, ChangerSignalled, Zenon DEF GwpWorld
    <3>2. CASE op = "reset" /\ previous # "gwp"
      <4>1. default \in Base \cup {"heapprofd"}
        BY <1>4, <3>2, Zenon DEF ChangingTo
      <4>2. NoSignal /\ Leads(default)
        BY <1>8, <3>2, Zenon DEF GwpWorld
      <4>3. default = "gwp" /\ previous = "null"
        BY <1>4, <3>2, <4>1, <4>2, Zenon DEF NoSignal, Leads, Base
      <4> QED
        BY <1>1, <1>3, <1>8, <3>2, <4>3, Zenon
    <3> QED
      BY <3>1, <3>2, Zenon
  <2>2. LedBy(t)
    BY <1>8, Zenon DEF GwpWorld
  <2>3. Leads(default)'
    BY <1>1, <1>3, <1>5, <2>1, <2>2, Zenon DEF LedBy, Leads
  <2>4. Leads(current)'
    BY <1>1, <1>8, Zenon DEF GwpWorld, Leads
  <2>5. LedBy(t)'
    BY <1>8, Zenon DEF LedBy
  <2> QED
    BY <1>1, <2>1, <2>3, <2>4, <2>5, Zenon DEF StaysLed
<1>9. default' \in Base \cup {"ephemeral", "heapprofd", "debug"}
  BY <1>4, <1>5, Zenon
<1>10. dropped # {} => dropped' # {}
  BY <1>1, Zenon
<1> QED
  BY <1>1, <1>2, <1>3, <1>4, <1>6, <1>7, <1>8, <1>9, <1>10, HookChange, Zenon

\* The table that callers look at is replaced.
LEMMA HookStoreCurrent ==
    ASSUME HookInv, NEW t \in Thread, StoreCurrent(t)
    PROVE  HookInv'
<1>1. PICK op : op = request[t].op
  BY Zenon
<1>2. PICK l : l = IF op = "limit" THEN "clear" ELSE "settle"
  BY Zenon
<1>3. /\ request[t].pc = "current" /\ Proceed(t, l)
      /\ current' = IF op = "limit" \/ current = "limit" THEN "limit" ELSE default
      /\ UNCHANGED <<default, previous, ephemeral, backing, state, mutating, lock, created,
                     heap, dropped>>
  BY <1>1, <1>2, Zenon DEF StoreCurrent, control, memory
<1>4. request[t].pc \in Changing /\ l \in Changing
  BY <1>2, <1>3, Zenon DEF Changing
<1>5. /\ op \in Doing(l) /\ ChangingTo(op, "current")
      /\ previous \in Base /\ ephemeral \in Base /\ backing \in Base
      /\ default \in Base \cup {"ephemeral", "heapprofd", "debug"}
  BY <1>1, <1>2, <1>3, <1>4, ChangerKnows, Zenon DEF Doing
<1>6. ChangingTo(op, l)'
  <2>1. CASE op = "limit"
    <3>1. Stable /\ l = "clear"
      BY <1>2, <1>5, <2>1, Zenon DEF ChangingTo
    <3>2. Stable'
      BY <1>3, <2>1, <3>1, Zenon DEF Stable
    <3> QED
      BY <2>1, <3>1, <3>2, Zenon DEF ChangingTo
  <2>2. CASE op # "limit"
    BY <1>2, <1>3, <1>5, <2>2, Zenon DEF ChangingTo
  <2> QED
    BY <2>1, <2>2, Zenon
<1>7. NativeWorld => "gwp" \notin {current', default', previous', ephemeral', backing'}
  BY <1>3, Zenon DEF NativeWorld
<1>8. ASSUME GwpWorld, request'[t].pc = l, request'[t].op = op
      PROVE  StaysLed(t)
  <2>1. Leads(default)' /\ Leads(current)'
    BY <1>3, <1>8, Zenon DEF GwpWorld, Leads
  <2>2. LedBy(t)'
    BY <1>2, <1>8, Zenon DEF LedBy
  <2>3. previous # "gwp" => NoSignal /\ op = "limit"
    BY <1>1, <1>3, <1>8, ChangerSignalled, Zenon DEF GwpWorld
  <2>4. op = "limit" => Unsignalled(t)' /\ current' = "limit"
    BY <1>2, <1>3, <1>8, Zenon DEF Unsignalled, GoesBack
  <2> QED
    BY <1>3, <2>1, <2>2, <2>3, <2>4, Zenon DEF StaysLed, NoSignal
<1> QED
  BY <1>1, <1>3, <1>4, <1>5, <1>6, <1>7, <1>8, HookChange, Zenon

\* The state of heapprofd is set to the outcome.
LEMMA HookSettle ==
    ASSUME HookInv, NEW t \in Thread, Settle(t)
    PROVE  HookInv'
<1>1. PICK op : op = request[t].op
  BY Zenon
<1>2. /\ request[t].pc = "settle" /\ Proceed(t, "clear") /\ state' = Transition[op].to
      /\ UNCHANGED <<tables, mutating, lock, heap, dropped>>
  BY <1>1, Zenon DEF Settle, memory
<1>3. request[t].pc \in Changing /\ "clear" \in Changing
  BY <1>2, Zenon DEF Changing
<1>4. /\ op \in {"signal", "malloc", "init", "reset"} /\ op \in Doing("clear")
      /\ ChangingTo(op, "settle")
      /\ previous' \in Base /\ ephemeral' \in Base /\ backing' \in Base
      /\ default' \in Base \cup {"ephemeral", "heapprofd", "debug"}
  BY <1>1, <1>2, <1>3, ChangerKnows, Zenon DEF Doing, tables
<1>5. Stable'
  <2>1. current' \in {"limit", default'}
    BY <1>2, <1>4, Zenon DEF ChangingTo, tables
  <2>2. \/ op = "signal" /\ state' = "kEphemeralHookInstalled" /\ default' = "ephemeral"
        \/ op \in {"malloc", "reset"} /\ state' = "kInitialState" /\ default' \in Base
        \/ op = "init" /\ state' = "kHookInstalled" /\ default' \in Base \cup {"heapprofd"}
    <3>1. /\ op = "signal" => state' = "kEphemeralHookInstalled"
          /\ op \in {"malloc", "reset"} => state' = "kInitialState"
          /\ op = "init" => state' = "kHookInstalled"
      BY <1>2 DEF Transition
    <3>2. /\ op = "signal" => default = "ephemeral"
          /\ op \in {"malloc", "reset"} => default \in Base
          /\ op = "init" => default \in Base \cup {"heapprofd"}
      BY <1>4, Zenon DEF ChangingTo
    <3>3. default' = default
      BY <1>2, Zenon DEF tables
    <3> QED
      BY <1>4, <3>1, <3>2, <3>3, Zenon
  <2> QED
    BY <2>1, <2>2, Zenon DEF Stable
<1>6. ChangingTo(op, "clear")'
  BY <1>4, <1>5, Zenon DEF ChangingTo
<1>7. NativeWorld => "gwp" \notin {current', default', previous', ephemeral', backing'}
  BY <1>2, Zenon DEF NativeWorld, tables
<1>8. ASSUME GwpWorld, request'[t].pc = "clear", request'[t].op = op
      PROVE  StaysLed(t)
  <2>1. Leads(default)' /\ Leads(current)'
    BY <1>2, <1>8, Zenon DEF GwpWorld, Leads, tables
  <2>2. LedBy(t)'
    BY <1>8, Zenon DEF LedBy
  <2>3. previous = "gwp"
    BY <1>1, <1>2, <1>4, <1>8, ChangerSignalled, Zenon DEF GwpWorld
  <2> QED
    BY <1>2, <2>1, <2>2, <2>3, Zenon DEF StaysLed, tables
<1> QED
  BY <1>1, <1>2, <1>3, <1>4, <1>6, <1>7, <1>8, HookChange, Zenon

\* The steps of a change of tables together.
LEMMA HookMutates ==
    ASSUME HookInv, NEW t \in Thread, Mutates(t)
    PROVE  HookInv'
BY HookMeasures, HookLocks, HookPrepare, HookSetUp, HookInstall, HookStoreDefault,
   HookStoreCurrent, HookSettle, HookUnlock, Zenon DEF Mutates

-----------------------------------------------------------------------------
\* The invariant holds initially.
LEMMA HookStart == MallocInit => HookInv
<1> SUFFICES ASSUME MallocInit PROVE HookInv
  BY Zenon
<1>1. \A t \in Thread : request[t] = NoRequest
  BY Zenon DEF MallocInit
<1>2. \A t \in Thread : /\ request[t].pc = "idle" /\ request[t].op = "none"
                        /\ request[t].table = "null" /\ request[t].block = NoBlock
  <2>1. /\ NoRequest.pc = "idle" /\ NoRequest.op = "none"
        /\ NoRequest.table = "null" /\ NoRequest.block = NoBlock
    BY Zenon DEF NoRequest
  <2> QED
    BY <1>1, <2>1, Zenon
<1>3. Shape
  <2>1. \A t \in Thread : request[t] = [x \in Fields |-> request[t][x]]
    BY <1>1, Zenon DEF NoRequest, Fields
  <2> QED
    BY <1>2, <2>1, Zenon DEF Shape, MallocInit
<1>4. Locking
  BY <1>2 DEF Locking, MallocInit, Points, Doing, Holding, Changing
<1>5. PICK base \in Base :
         /\ \/ state = "kInitialState" /\ default = base /\ previous = "null" /\ backing = "null"
            \/ state = "kHookInstalled" /\ default = "heapprofd" /\ previous = base /\ backing = base
            \/ state = "kHookInstalled" /\ default = base /\ previous \in {"null", base} /\ backing = "null"
            \/ state = "kIncompatibleHooks" /\ default = "debug" /\ previous = "null" /\ backing = base
         /\ current = default /\ ephemeral = "null"
  BY Zenon DEF MallocInit, Base
<1>6. Tables
  <2>1. previous \in Base /\ ephemeral \in Base /\ backing \in Base
    BY <1>5, Zenon DEF Base
  <2>2. Stable /\ default \in Base \cup {"ephemeral", "heapprofd", "debug"}
    BY <1>5, Zenon DEF Stable, Base
  <2> QED
    BY <1>2, <2>1, <2>2, Zenon DEF Tables, Changing
<1>7. Worlds
  <2>1. \A b \in Block : heap[b].owner # "gwp"
    BY Zenon DEF MallocInit, Free
  <2>2. CASE base = "null"
    BY <1>2, <1>5, <2>1, <2>2, Zenon DEF Worlds, NativeWorld
  <2>3. CASE base = "gwp"
    <3>1. Leads(default) /\ Leads(current)
      BY <1>5, <2>3, Zenon DEF Leads
    <3>2. \A t \in Thread : LedBy(t) /\ Unsignalled(t)
      BY <1>2, Zenon DEF LedBy, Unsignalled, GoesBack
    <3>3. previous # "gwp" => /\ state \in Unprofiled /\ default \in {"gwp", "debug"}
                              /\ current = default
      BY <1>5, <2>3, Zenon DEF Unprofiled
    <3>4. previous # "gwp" => NoSignal
      BY <3>2, <3>3, Zenon DEF NoSignal, MallocInit
    <3> QED
      BY <3>1, <3>2, <3>4, Zenon DEF Worlds, GwpWorld
  <2> QED
    BY <2>2, <2>3, Zenon DEF Base
<1> QED
  BY <1>3, <1>4, <1>6, <1>7, Zenon DEF HookInv

\* GWP-ASan comes in while no call is under way: from then on it is under every
\* table in use.
LEMMA HookGwp ==
    ASSUME HookInv, InitializeGwpAsan
    PROVE  HookInv'
<1>1. /\ \A t \in Thread : request[t].pc = "idle" /\ request[t].op = "none"
      /\ created = 0 /\ default = "null" /\ default' = "gwp"
      /\ current' = IF current = "null" THEN "gwp" ELSE current
      /\ UNCHANGED <<previous, ephemeral, backing, state, mutating, lock, created, heap, request, dropped>>
  BY Zenon DEF InitializeGwpAsan, control, memory, HookInv, Locking, Doing
<1>2. \A t \in Thread : request[t].pc \notin Holding /\ request[t].pc \notin Changing
  BY <1>1, Zenon DEF Holding, Changing
<1>3. ~mutating /\ Stable
  BY <1>2, Zenon DEF HookInv, Locking, Tables
<1>4. state \in {"kInitialState", "kHookInstalled"} /\ current \in {"limit", "null"}
  BY <1>1, <1>3, Zenon DEF Stable, Base
<1>5. Shape' /\ Locking'
  BY <1>1, Zenon DEF HookInv, Shape, Locking
<1>6. Tables'
  <2>1. Stable'
    BY <1>1, <1>4, Zenon DEF Stable, Base
  <2> QED
    BY <1>1, <1>2, <2>1, Zenon DEF HookInv, Tables, Base
<1>7. Worlds'
  <2>1. CASE dropped # {}
    BY <1>1, <2>1, Zenon DEF Worlds
  <2>2. CASE dropped = {}
    <3>1. Leads(default)' /\ Leads(current)'
      BY <1>1, <1>4, Zenon DEF Leads
    <3>2. \A t \in Thread : LedBy(t)' /\ Unsignalled(t)'
      BY <1>1, Zenon DEF LedBy, Unsignalled, GoesBack
    <3>3. NoSignal'
      BY <1>1, <1>4, <3>2, Zenon DEF NoSignal, Unprofiled
    <3> QED
      BY <3>1, <3>2, <3>3, Zenon DEF Worlds, GwpWorld
  <2> QED
    BY <2>1, <2>2, Zenon
<1> QED
  BY <1>5, <1>6, <1>7, Zenon DEF HookInv

\* Every step keeps the invariant.
LEMMA HookNext == HookInv /\ [MallocNext]_mallocVars => HookInv'
<1> SUFFICES ASSUME HookInv, [MallocNext]_mallocVars PROVE HookInv'
  BY Zenon
<1>1. CASE MallocNext
  BY <1>1, HookStarts, HookAllocates, HookMutates, HookGwp, Zenon DEF MallocNext
<1>2. CASE UNCHANGED mallocVars
  <2>1. UNCHANGED <<current, default, previous, ephemeral, backing, state, mutating, lock,
                    created, heap, request, dropped>>
    BY <1>2, Zenon DEF mallocVars, tables, control, memory
  <2>2. Shape' /\ Locking'
    BY <2>1, ZenonT(30) DEF HookInv, Shape, Locking
  <2>3. Tables'
    BY <2>1, ZenonT(30) DEF HookInv, Tables, Stable, ChangingTo
  <2>4. Worlds'
    BY <2>1, Zenon
       DEF HookInv, Worlds, NativeWorld, GwpWorld, Leads, LedBy, NoSignal, Unsignalled, GoesBack
  <2> QED
    BY <2>2, <2>3, <2>4, Zenon DEF HookInv
<1> QED
  BY <1>1, <1>2, Zenon

\* At every step of every thread, the flag, the lock, the tables and the
\* requests under way fit together as HookInv says.
THEOREM HookInvariant == MallocSpec => []HookInv
BY HookStart, HookNext, PTL DEF MallocSpec

\* Whoever holds gGlobalsMutateLock and is turned away at gGlobalsMutating was
\* turned away by the signal handler, which takes no lock.
THEOREM HooksMeetOnlySignals == MallocSpec => []LockedMeetOnlySignals
<1>1. HookInv => LockedMeetOnlySignals
  BY Zenon DEF HookInv, Locking, LockedMeetOnlySignals, Holding, Changing
<1> QED
  BY <1>1, HookInvariant, PTL

\* Whenever gGlobalsMutating is clear, the default table is the one that
\* gHeapprofdState stands for and the current one is it or the limit's; and once
\* the limit is in place no one takes it away.
THEOREM HooksTablesConsistent == MallocSpec => TablesConsistent
<1> DEFINE Fit == ~mutating => /\ current \in {"limit", default}
                               /\ default = "ephemeral" <=> state = "kEphemeralHookInstalled"
                               /\ default = "heapprofd" => state = "kHookInstalled"
<1>1. HookInv => Fit
  BY Zenon DEF HookInv, Tables, Stable, Base
<1>2. [MallocNext]_mallocVars => [current = "limit" => current' = "limit"]_current
  <2> SUFFICES ASSUME [MallocNext]_mallocVars, current' # current, current = "limit"
               PROVE  current' = "limit"
    BY Zenon
  <2>0. ~InitializeGwpAsan
    BY Zenon DEF InitializeGwpAsan
  <2>1. PICK t \in Thread : Starts(t) \/ Allocates(t) \/ Mutates(t)
    BY <2>0, Zenon DEF MallocNext, mallocVars, tables
  <2>2. ~Starts(t)
    BY Zenon DEF Starts, Malloc, Dispose, Realloc, Enter, HandleHeapprofdSignal, InitHeapprofd,
           DispatchReset, LimitEnable, tables
  <2>3. ~Allocates(t)
    BY Zenon DEF Allocates, Check, Uncount, Fetch, ServeMalloc, ServeFree, ServeRealloc, Count,
           MallocInitHeapprofdHook, Fallback, tables
  <2>4. StoreCurrent(t)
    BY <2>1, <2>2, <2>3, Zenon
       DEF Mutates, Measure, StoreAllocated, Lock, Exchange, Prepare, SetUpEphemeral,
           CommonInstallHooks, StoreDefault, Settle, Clear, Unlock, tables
  <2> QED
    BY <2>4, Zenon DEF StoreCurrent
<1>3. MallocSpec => []Fit
  BY <1>1, HookInvariant, PTL
<1>4. MallocSpec => [][current = "limit" => current' = "limit"]_current
  BY <1>2, PTL DEF MallocSpec
<1> QED
  BY <1>3, <1>4, Zenon DEF TablesConsistent

\* Until a signal comes while heapprofd runs over GWP-ASan, or the hooks are reset
\* after heapprofd could not be loaded, a block that GWP-ASan guards is never
\* passed to the native allocator: neither through a table that a call fetched
\* long ago, nor through one it falls back to.
THEOREM HooksOwnerServes == MallocSpec => []OwnerServesUntilDropped
<1>1. HookInv => OwnerServesUntilDropped
  <2> SUFFICES ASSUME HookInv, dropped = {}, NEW t \in Thread, request[t].pc = "serve",
                      request[t].block # NoBlock, heap[request[t].block].owner = "gwp"
               PROVE  Under(request[t].table) = "gwp"
    BY Zenon DEF OwnerServesUntilDropped, OwnerServes
  <2>1. request[t].block \in Block
    BY Zenon DEF HookInv, Shape
  <2>2. GwpWorld
    BY <2>1, Zenon DEF HookInv, Worlds, NativeWorld
  <2>3. request[t].table # "limit" /\ Leads(request[t].table)
    BY <2>2, Zenon DEF GwpWorld, LedBy
  <2> QED
    BY <2>3, Zenon DEF Leads, Under
<1> QED
  BY <1>1, HookInvariant, PTL

-----------------------------------------------------------------------------
INSTANCE FiniteSetTheorems

\* A sum over a finite set is a number.
LEMMA TotalBound ==
    ASSUME NEW S, IsFiniteSet(S), NEW f \in [S -> 0 .. MaxBytes]
    PROVE  /\ IsFiniteSet(Bytes(f)) /\ Total(f) \in Nat
           /\ Total(f) <= Cardinality(S) * MaxBytes
<1>1. MaxBytes \in Nat
  BY CountAssumption, Zenon
<1>2. IsFiniteSet(1 .. MaxBytes) /\ Cardinality(1 .. MaxBytes) = MaxBytes
  BY <1>1, FS_Interval
<1>3. /\ IsFiniteSet(S \X (1 .. MaxBytes))
      /\ Cardinality(S \X (1 .. MaxBytes)) = Cardinality(S) * MaxBytes
  BY <1>2, FS_Product, ZenonT(30)
<1>4. Bytes(f) \in SUBSET (S \X (1 .. MaxBytes))
  BY Zenon DEF Bytes
<1>5. IsFiniteSet(Bytes(f)) /\ Cardinality(Bytes(f)) <= Cardinality(S \X (1 .. MaxBytes))
  BY <1>3, <1>4, FS_Subset, ZenonT(30)
<1> QED
  BY <1>3, <1>5, FS_CardinalityType, ZenonT(30) DEF Total

\* What one element adds to the set whose size is the sum.
LEMMA Column ==
    ASSUME NEW a, NEW n \in Nat
    PROVE  IsFiniteSet({a} \X (1 .. n)) /\ Cardinality({a} \X (1 .. n)) = n
<1>1. IsFiniteSet(1 .. n) /\ Cardinality(1 .. n) = n
  BY FS_Interval
<1>2. IsFiniteSet({a}) /\ Cardinality({a}) = 1
  BY FS_Singleton, Zenon
<1>3. /\ IsFiniteSet({a} \X (1 .. n))
      /\ Cardinality({a} \X (1 .. n)) = Cardinality({a}) * Cardinality(1 .. n)
  BY <1>1, <1>2, FS_Product, ZenonT(30)
<1> QED
  BY <1>1, <1>2, <1>3, SMTT(30)

\* The size of two sets that share nothing.
LEMMA Disjoint ==
    ASSUME NEW S, NEW T, IsFiniteSet(S), IsFiniteSet(T), S \cap T = {}
    PROVE  Cardinality(S \cup T) = Cardinality(S) + Cardinality(T)
<1>1. Cardinality(S) \in Nat /\ Cardinality(T) \in Nat
  BY FS_CardinalityType, Zenon
<1>2. Cardinality(S \cup T) = Cardinality(S) + Cardinality(T) - Cardinality(S \cap T)
  BY FS_Union, Zenon
<1>3. Cardinality(S \cap T) = 0
  BY FS_EmptySet, Zenon
<1> QED
  BY <1>1, <1>2, <1>3, SMTT(30)

\* The bytes but for those of one argument.
Rest(f, a) == {x \in Bytes(f) : x[1] # a}

\* A sum is one summand and the rest.
LEMMA TotalRest ==
    ASSUME NEW S, IsFiniteSet(S), NEW f \in [S -> 0 .. MaxBytes], NEW a \in S
    PROVE  Cardinality(Rest(f, a)) \in Nat /\ Total(f) = Cardinality(Rest(f, a)) + f[a]
<1> DEFINE own == {a} \X (1 .. f[a])
<1>1. MaxBytes \in Nat /\ f[a] \in 0 .. MaxBytes /\ f[a] \in Nat
  BY CountAssumption
<1>2. IsFiniteSet(Rest(f, a)) /\ Cardinality(Rest(f, a)) \in Nat
  <2>1. Rest(f, a) \in SUBSET Bytes(f) /\ IsFiniteSet(Bytes(f))
    BY TotalBound, Zenon DEF Rest
  <2> QED
    BY <2>1, FS_Subset, FS_CardinalityType, ZenonT(30)
<1>3. IsFiniteSet(own) /\ Cardinality(own) = f[a]
  BY <1>1, Column, Zenon
<1>4. Bytes(f) = Rest(f, a) \cup own /\ Rest(f, a) \cap own = {}
  <2>1. ASSUME NEW x \in Bytes(f), x[1] = a PROVE x \in own
    BY <1>1, <2>1, SMTT(30) DEF Bytes
  <2>2. ASSUME NEW x \in own PROVE x \in Bytes(f) /\ x[1] = a
    BY <1>1, <2>2 DEF Bytes
  <2> QED
    BY <2>1, <2>2, Zenon DEF Rest
<1>5. Cardinality(Rest(f, a) \cup own) = Cardinality(Rest(f, a)) + Cardinality(own)
  BY <1>2, <1>3, <1>4, Disjoint, ZenonT(30)
<1> QED
  BY <1>1, <1>2, <1>3, <1>4, <1>5, ZenonT(30) DEF Total

\* When one summand changes, the sum changes by as much.
LEMMA TotalAt ==
    ASSUME NEW S, IsFiniteSet(S), NEW f \in [S -> 0 .. MaxBytes], NEW g \in [S -> 0 .. MaxBytes],
           NEW a \in S, \A x \in S \ {a} : f[x] = g[x]
    PROVE  Total(g) + f[a] = Total(f) + g[a]
<1>1. Rest(f, a) = Rest(g, a)
  BY Zenon DEF Bytes, Rest
<1>2. f[a] \in Nat /\ g[a] \in Nat
  BY CountAssumption
<1>3. PICK n \in Nat : Total(f) = n + f[a] /\ Total(g) = n + g[a]
  BY <1>1, TotalRest, ZenonT(30)
<1> QED
  BY <1>2, <1>3, SMTT(30)

\* Sizes of blocks that are told apart are part of all sizes.
LEMMA TotalPart ==
    ASSUME NEW S, NEW R, IsFiniteSet(S), IsFiniteSet(R), NEW f \in [S -> 0 .. MaxBytes],
           NEW g \in [R -> 0 .. MaxBytes], NEW at,
           \A x \in S : f[x] # 0 => at[x] \in R /\ f[x] = g[at[x]],
           \A x, y \in S : f[x] # 0 /\ f[y] # 0 /\ at[x] = at[y] => x = y
    PROVE  Total(f) <= Total(g)
<1> DEFINE h == [x \in Bytes(f) |-> <<at[x[1]], x[2]>>]
<1>1. MaxBytes \in Nat
  BY CountAssumption, Zenon
<1>2. \A x \in Bytes(f) : x[1] \in S /\ x[2] \in 1 .. MaxBytes /\ x = <<x[1], x[2]>> /\ x[2] <= f[x[1]]
  BY DEF Bytes
<1>3. \A x \in Bytes(f) : f[x[1]] # 0
  BY <1>1, <1>2
<1>4. ASSUME NEW x \in Bytes(f) PROVE h[x] \in Bytes(g)
  BY <1>2, <1>3, ZenonT(30) DEF Bytes
<1>5. ASSUME NEW x \in Bytes(f), NEW y \in Bytes(f), h[x] = h[y] PROVE x = y
  <2>1. at[x[1]] = at[y[1]] /\ x[2] = y[2]
    BY <1>5, ZenonT(30)
  <2>2. x[1] = y[1]
    BY <1>2, <1>3, <2>1, ZenonT(30)
  <2> QED
    BY <1>2, <2>1, <2>2, ZenonT(30)
<1>6. h \in Injection(Bytes(f), Bytes(g))
  BY <1>4, <1>5, ZenonT(30) DEF Injection, IsInjective
<1>7. IsFiniteSet(Bytes(g))
  BY TotalBound, Zenon
<1> QED
  BY <1>6, <1>7, FS_Injection, ZenonT(30) DEF Total

\* Sums over threads and over blocks obey that law.
LEMMA AdditiveTotals == Additive
<1>1. IsFiniteSet(Thread) /\ IsFiniteSet(Block)
  BY CountAssumption, Zenon
<1>2. Cardinality(Thread) \in Nat /\ Cardinality(Block) \in Nat
  BY <1>1, FS_CardinalityType, ZenonT(30)
<1>3. ASSUME NEW S \in {Thread, Block}, NEW f \in [S -> 0 .. MaxBytes]
      PROVE  Total(f) \in Nat /\ Total(f) <= Cardinality(S) * MaxBytes
  BY <1>1, TotalBound, ZenonT(30)
<1>4. ASSUME NEW S \in {Thread, Block}, NEW f \in [S -> 0 .. MaxBytes], \A x \in S : f[x] = 0
      PROVE  Total(f) = 0
  <2>1. \A n \in 1 .. MaxBytes : ~(n <= 0)
    BY CountAssumption
  <2>2. Bytes(f) = {}
    BY <1>4, <2>1, ZenonT(30) DEF Bytes
  <2> QED
    BY <2>2, FS_EmptySet, ZenonT(30) DEF Total
<1>5. ASSUME NEW S \in {Thread, Block}, NEW f \in [S -> 0 .. MaxBytes], NEW g \in [S -> 0 .. MaxBytes],
             NEW a \in S, \A x \in S \ {a} : f[x] = g[x]
      PROVE  Total(g) + f[a] = Total(f) + g[a]
  BY <1>1, <1>5, TotalAt, SMTT(30)
<1>6. ASSUME NEW S \in {Thread, Block}, NEW f \in [S -> 0 .. MaxBytes],
             NEW g \in [Block -> 0 .. MaxBytes], NEW at,
             \A x \in S : f[x] # 0 => at[x] \in Block /\ f[x] = g[at[x]],
             \A x, y \in S : f[x] # 0 /\ f[y] # 0 /\ at[x] = at[y] => x = y
      PROVE  Total(f) <= Total(g)
  BY <1>1, <1>6, TotalPart, SMTT(30)
<1> QED
  BY <1>2, <1>3, <1>4, <1>5, <1>6, ZenonT(30) DEF Additive

\* While the limit is in place, gAllocated is the size of all blocks but for
\* what calls under way have counted ahead of the allocator or have yet to
\* count, and for what mallinfo saw too much or too little when the limit was
\* enabled, whatever calls overlap, if every allocation since went through the
\* limit and no realloc failed; and it wraps only when mallinfo saw too little.
THEOREM HooksCountExact == MallocSpec => []CountExact
<1>1. Additive /\ HookInv /\ CountInv => CountExact
  <2> SUFFICES ASSUME Additive, HookInv, CountInv PROVE CountExact
    BY Zenon
  <2>1. Weighed /\ Skewed /\ Counted
    BY Weights, Zenon DEF HookInv, CountInv
  <2>2. Held
    BY <2>1, DueHeld, Zenon
  <2> QED
    BY <2>1, <2>2, ZenonT(30) DEF Held, Counted, Wrapped, Due, CountExact
<1>2. MallocSpec => []CountInv
  BY AdditiveTotals, CountStart, CountNext, HookInvariant, PTL DEF MallocSpec
<1> QED
  BY <1>1, <1>2, AdditiveTotals, HookInvariant, PTL
=============================================================================
