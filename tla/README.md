# A TLA+ model of bionic's concurrency core

This project models the parts of the repository where several threads or
processes meet, or where calls nest and come back at awkward moments: the
locks, condition variables, semaphores, one-time initialisers, barriers,
thread-specific data and thread life cycle of bionic's libc, its exit and fork
handlers, its malloc dispatch tables and its shared-memory system properties;
the loading and unloading of libraries by the dynamic linker; and the log
buffer and reader threads of logd. Every module is a translation of the C and
C++ sources under `src/platform_bionic-android-vts-12.0_r2` and
`src/logging-platform-12.0.0_r1` (paths below are relative to the first, those
of `logd/` to the second). TLC checks the modules on small instances; TLAPS
proves the theorems for every value of the constants.

## The system

The repository is a port of Android's C library with its dynamic linker, its
allocator and the logging daemon.

| part | state | operations | what makes it hard |
|---|---|---|---|
| `Lock` (`private/bionic_lock.h`), spin locks over it | one three-valued word | init, trylock, lock, unlock | a wake lost between the exchange and the sleep |
| mutex (`pthread_mutex.cpp`) | 16-bit state, owner tid | lock, timed lock, trylock, unlock, destroy | contention bit and recursion counter in one word; owner read without the lock; timeouts |
| rwlock (`pthread_rwlock.cpp`) | state word, writer tid, pending counts and serials | read and write, try and timed, unlock | pending flags set before the sleep; one wake for many sleepers; timeouts |
| semaphore (`semaphore.cpp`) | one word, -1 for "maybe waiters" | wait, trywait, timedwait, post, getvalue | many sleepers for one wake; the limit |
| once, guard (`pthread_once.cpp`, `__cxa_guard.cpp`) | one word | once; acquire, release, abort | waiters during initialisation; a constructor that throws |
| condition variable (`pthread_cond.cpp`) | counter with flags, waiters count | wait, timedwait, signal, broadcast | unlock and sleep in two steps; signals skipped when nobody is counted |
| barrier (`pthread_barrier.cpp`) | state, count | wait, destroy | threads of one cycle meet those of the next; destroy directly after wait |
| threads (`pthread_create.cpp`, `_exit`, `_join`, `_detach`, `_internal`) | join state and mapping of each thread, global list, two locks | create, exit, join, detach, android_run_on_all_threads | who unmaps, and when the kernel still writes |
| keys (`pthread_key.cpp`) | a sequence number and destructor for each slot, data for each thread | create, delete, get, set, destructor rounds | slots reused while threads hold data and exit |
| exit and fork handlers (`atexit.cpp`, `exit.cpp`, `pthread_atfork.cpp`, `fork.cpp`) | an array of callbacks, a list of handlers under a recursive mutex | register, finalize, exit, fork | callbacks that register, finalize and exit; the mutex in the child |
| malloc tables (`malloc_common*.cpp`, `malloc_heapprofd.cpp`, `malloc_limit.cpp`) | two table pointers, state of heapprofd, a flag, a lock, the counted bytes | malloc, free, realloc; signal, hook, its thread, reset, enabling the limit, M_INITIALIZE_GWP_ASAN | tables replaced by a signal handler while threads use the old ones |
| system properties (`system_properties/`) | serial and value of each property, a backup area, the serial of the area | add, update, read, wait | values copied without a lock across processes |
| dynamic linker (`linker/linker.cpp`, `linker_soinfo.cpp`) and thread_local destructors (`__cxa_thread_atexit_impl.cpp`) | soinfos with children, group roots and counts; counters of destructors | dlopen, dlclose, constructors, destructors, thread exit | counts of groups that refer to one another; failures half way; calls from constructors |
| logd (`logd/SerializedLogBuffer.cpp`, `SerializedFlushToState.cpp`, `LogReaderThread.cpp`, `LogReader.cpp`) | chunks of each log with the readers attached, positions of readers | log, prune, clear, connect, flush, wait, hang up | the lock is given up while an entry is written; chunks go away under readers |

The mutex, rwlock, semaphore, barrier, once and condition variable sleep in
futexes (`bionic_futex.cpp`); the rwlock and the thread list use `Lock` and
rwlocks inside; `__cxa_finalize` ends in the list of fork handlers; the linker
runs the callbacks of libraries. `PROJECT.json` lists every other part with the
reason it is not modelled, and the hazards with the properties that cover them.

## Conventions

* A module has the fields of the C object as variables and one action for each
  atomic access or system call. `call[t]` (`request[t]` in `MallocHooks`,
  `keyCall[t]` in `PthreadKey`, `client[c]` in `ThreadLifecycle`) holds the call
  a thread is in: its program counter and its live locals; `Idle`, `NoRequest`,
  `NoKeyCall` or `NoCall` is a thread outside. The names differ where the
  theorems of two components stand in one module. Locals are reset once they are
  dead, which only merges equal futures. Where calls nest (callbacks,
  constructors), `stack[t]` holds the frames: innermost last in `Atfork` and
  `Atexit`, innermost first in `Linker`.
* A section under a lock that makes no call out is one step (`Atexit`,
  `Atfork`, `Logd`, the sections under `pending_lock`).
* A compare-and-exchange loop is one step, the one that ends it: the failed
  rounds change nothing.
* A thread in `FUTEX_WAIT` has pc `"asleep"`. The kernel compares the word and
  enqueues the thread in one step; a wait may also end for no reason
  (`SpuriousReturn` or `JoinSpurious`, a signal) or by its timeout (`TimeOut`,
  which may come without any wait, since a timeout in the past returns at once).
* Memory is sequentially consistent. The fences and memory orders of the code
  are not modelled, so the checks say nothing about a missing one.
* Build and type choices that never change (mutex type, 64-bit build, rwlock
  preference, GWP-ASan on or off) are variables that `Init` picks, so that one
  run covers them all.
* Ghost variables (`passed`, `done`, `credits`, `arrived`, `gaveUp`,
  `delivered`, `disorder`, `stray`, `skew`, `dropped`, ...) record history that properties speak of
  and no guard of the code reads.
* A definition whose comment begins with "A mutant" is a plausible bug that
  must break the property it is paired with in `PROJECT.json`.

## Modules

| module | models | abstract specification |
|---|---|---|
| `BionicLock` | the class `Lock` | `AbstractLock`: a set of holders, at most one |
| `PthreadMutex` | normal, recursive and errorcheck mutexes | `AbstractLock`, the holder being whoever has a positive depth |
| `PthreadRwlock` | read-write locks | `AbstractRwLock`: readers or one writer |
| `Semaphore` | unnamed semaphores | `AbstractSemaphore`: a bounded counter of credits |
| `PthreadOnce`, `CxaGuard` | one-time initialisation | `AbstractOnce`: one initialiser at a time, nobody passes before it is done |
| `PthreadCond` | condition variables, with a mutex as an exclusive lock and threads that produce and consume items | |
| `PthreadBarrier` | barriers, cycle after cycle | `AbstractBarrier`: nobody leaves a cycle before all have arrived, and the last to arrive alone is its serial thread |
| `ThreadLifecycle` | creation, exit, join, detach, the thread list, android_run_on_all_threads | |
| `PthreadKey` | thread-specific data | |
| `Atfork` | fork and its handlers, in the parent and in the child | |
| `Atexit` | `__cxa_atexit`, `__cxa_finalize`, `exit`, over `Atfork` | `AbstractExitHandlers`: each callback once, newest first |
| `MallocHooks` | malloc, free and realloc through the dispatch tables; heapprofd's signal, hook, thread and reset; the limit; GWP-ASan and its late initialisation | |
| `SystemProperties` | one property area, one writer, readers that poll and wait | `AbstractProperties`: atomic sets and reads |
| `Linker` | dlopen and dlclose with load groups, counts, constructors and destructors; destructors of thread_locals | `AbstractLoader`: what is held is mapped with all it needs |
| `Logd` | the serialized buffer and its reader threads | |
| `PthreadRwlock_proofs`, `MallocHooks_proofs` | the theorems about the module of that name, the latter on top of `MallocCount_proofs` | |
| `Startup_proofs`, `Waiting_proofs` | theorems about `BionicLock`, `PthreadOnce` and `CxaGuard`, and about `Semaphore`, `PthreadCond` and `PthreadBarrier`, through the MC module that composes them | |
| `Threads_proofs` | theorems about `PthreadMutex` and `ThreadLifecycle` | |
| `LockFree_proofs` | theorems about `PthreadKey` and `SystemProperties` | |
| `Exit_proofs` | theorems about `Atfork` and `Atexit` | |
| `MC*` | instances for TLC | |

Compositions. `PthreadCond` composes the condition variable with its mutex,
taken as the exclusive lock that `PthreadMutex` is proved to implement.
`PthreadRwlock` and `ThreadLifecycle` take the sections under `Lock` as atomic,
which `BionicLock` justifies. `Atexit` extends `Atfork`: a `__cxa_finalize`
removes the library's fork handlers, and callbacks fork. `Linker` has the
thread_local destructors of `__cxa_thread_atexit_impl.cpp` on top of dlopen and
dlclose. `MallocHooks` composes the three parties that replace tables with the
threads that use them.

## Runs

Several runs put components side by side: a variable (`primitive` or `part`)
that the initial state picks and no step changes says which of them takes the
steps, so that one run explores each of them as if alone.

| run | instance | what it shows |
|---|---|---|
| `startup` | 3 threads on a `Lock`, a once or a guard; or 2 threads that load 5 libraries, two of which share a third, in 2 namespaces, with 3 dlopens or registrations | no thread asleep on a free lock without a wake under way; calls return and waiters wake; `AbstractLock`, `AbstractOnce`; counts of load groups exact, nothing left behind, users destructed before and constructed after what they need, `AbstractLoader` |
| `mutex` | 3 threads; normal and recursive on LP64, errorcheck on LP32, counter up to 1 | the counter is the depth of the owner's locks; a holder of a recursive or errorcheck mutex never waits for itself; no sleeper left behind, timeouts included; `AbstractLock` |
| `rwlock` | 3 threads, both preferences, 2 readers at most | `writer_tid` names the writer, and the reader count never runs into the writer bit; no sleeper is forgotten unless a timed writer gave up; `AbstractRwLock` |
| `rwlock_timeout` | as `rwlock` | fails: see Findings |
| `semaphore` | 4 threads, maximum 3; or a barrier of 3; or a condition variable with 3 threads and 3 items, LP64 and LP32 | `AbstractSemaphore`, `AbstractBarrier`; waiters on the condition counted exactly; waiters on a semaphore get on, a full cycle ends, no signal is missed, timeouts included |
| `barrier_destroy` | 2 threads | fails: see Findings |
| `key` | 2 threads, 2 slots, 2 destructor rounds, sequence numbers up to 3 | a slot belongs to one key; no data of a deleted key; the destructor called is that of the data's key; data left behind only after the last round |
| `heapprofd_gwp` | malloc as in `services`, 3 calls | fails: see Findings |
| `exit` | handlers: 2 threads, one library and the program, 5 calls nested 2 deep, pages of one entry; or threads: 2 workers, 2 clients, 2 runs on all threads | a pass calls every callback once, newest first, also what is registered meanwhile; nothing of a finalized library is left or called; forks call the same handlers backwards and forwards; all calls return, in the child too. No access to an unmapped thread; every joined or detached thread is reclaimed; android_run_on_all_threads returns |
| `services` | properties: 1 reader, 2 properties, values of two lengths, 4 sets; or logd: two threads that log for two uids and one client of two logs with chunks of two entries and of one, 4 events, or two clients of one log, 5 events; or malloc: 2 threads, 2 blocks of up to 2 bytes, a limit of 3, 4 calls | reads atomic, never torn or of another property; a change is not slept through. Readers of logd stand on chunks that exist and list them; entries come in order; a reader asleep is at the end of every log, has sent all it should where entries came in turn, and its client is there. Whoever holds the lock of malloc's tables is turned away by the signal handler only; tables agree with the state of heapprofd and the limit stays; blocks go back to the allocator they came from until a table is dropped; counted bytes exact but for what mallinfo does not see |
| `linker_loop` | 4 libraries, 3 of them in a loop | fails: see Findings |
| `logd_missed` | one client | fails: see Findings |

Bounds. Three threads give a holder, a sleeper and a third that comes between
them, which is the pattern of every lost wake in these algorithms; the semaphore
has a fourth so that two sleepers meet two posters. Counters are cut at the
smallest value that reaches the code's limit branches (`EAGAIN`, `EOVERFLOW`).
Three items let a second and a third signal meet waiters that the first has
woken or that have timed out. A slot of `PthreadKey` is used, deleted and used
again within `MaxSeq`. Four calls of `MallocHooks` are enough for an allocation,
a signal, the hook's thread and a free or the limit among them, and for a
guarded block that is allocated before the limit, missed by `mallinfo` and freed
after it, when the counter wraps. `MaxCached`, the bytes that `mallinfo` may
count too many, is 0 in this run; with 1 the same four calls (1.5 million states,
malloc alone) satisfy the inductive invariants of the proofs. The library graph of `startup` has what the
linker's cases ask for: a shared dependency, one that is named before the
library that needs it too, and one in another namespace; `MaxWork` bounds the
dlopens and registrations, never the dlcloses and exits that follow. Pages of
one entry make every extraction a candidate for recompaction. Readers of
properties write nothing that others read, so one reader is enough; four sets
let the writer add both properties and update both, so that the shared backup
area changes hands during a read, and stay below half a period of the 4-bit
serial. Readers of logd meet only through the chunks they are attached to, hence
the second instance with two of them. `key` is checked under symmetry of the
threads, which is sound for its invariants, and `services` under symmetry of the
threads of malloc: they are all idle in every state of the system properties,
the only part of that run with a liveness property, so that no two states of a
behaviour it speaks of are taken for one.

Fairness. Liveness is checked under weak fairness of the steps of each thread
inside a call: a thread that has begun a call is scheduled again. Nothing makes
a thread begin a call, no timeout has to expire and no spurious return has to
come, so a sleeper that gets on does so by a wake. Critical sections,
constructors, callbacks and handlers are taken to end where the property needs
it. A thread that comes late may take a lock before one that was woken, so what
is claimed is that a free lock with sleepers is taken by somebody, never that
each sleeper gets it. Where every thread is to get on (`startup`, `semaphore`),
the property is stated of one thread, `watched`: the specifications treat all
threads alike, so it holds of each. The start routine of a thread may run for ever.

## Findings

* `rwlock_timeout`: an unlock that finds a pending writer wakes one writer
  and no reader. If that writer's timed wait has just expired, the wake reaches
  nobody and the readers stay asleep on a free lock (`pthread_rwlock.cpp:514`,
  against the comment at line 314). `rwlock` shows, on its
  instance, that until a timed writer has given up no sleeper is forgotten;
  what happens to liveness after that is left open (`gaveUp`).
* `barrier_destroy`: the last thread to leave stores `WAIT` and then reads
  `pshared` and `init_count` for its wake, when a destroy that waited for
  `WAIT` may have returned (`pthread_barrier.cpp:163`, against
  `tests/pthread_test.cpp:2738`).
* `linker_loop`: `soinfo_unload_impl` unloads a child only when it has no
  parents left, so libraries that need one another in a loop stay loaded when
  the handle that brought them in is closed (`linker/linker.cpp:1869`). The test
  `dlopen_check_loop` means to cover this (`tests/dlfcn_test.cpp:729`) but asks
  in its last check for a library that is not part of the loop.
* `logd_missed`: `FlushTo` moves `start` one on even if it sent nothing, so a
  client that waits on an empty buffer is not sent the entry logged next
  (`logd/SerializedLogBuffer.cpp:297`, against `logd/LogBufferTest.cpp:360`).
* `heapprofd_gwp`: a second profiling signal while heapprofd runs over GWP-ASan
  takes the third configuration of `HandleHeapprofdSignal`, which forgets the
  table of GWP-ASan; blocks that it guards are then freed by the native
  allocator (`malloc_heapprofd.cpp:273`, against the comment at line 260).
  There is a second way to forget it, which this run leaves out of its
  property: if heapprofd is asked for at process start and its library cannot be
  loaded, `CommonInstallHooks` returns before it stores the previous table, the
  state becomes `kHookInstalled` all the same (`malloc_heapprofd.cpp:352`), and
  M_RESET_HOOKS then installs a null table over GWP-ASan. `dropped` records
  which of the two has happened, and `OwnerServesUntilDropped` says, on the
  instance of `services` and as a theorem, that nothing else among the modelled
  operations does it.

`InOrder` allows an entry to be sent twice: a `UidClear` while a reader writes
entry n resets its position with `start` = n. An entry whose sequence number was
taken before, but which enters a buffer after, one that has been sent is skipped.
It can hide others: a chunk takes the number of the entry logged last for its
highest (`logd/SerializedLogChunk.cpp:90`), so a chunk with the entries 2, 3, 1
passes for one that ends at 1. If a `UidClear` takes a reader's position away
while it writes 2, `CreateLogPosition` passes over this chunk and 3 is not sent,
although `logd/SerializedFlushToState.h:71` has it search for the first entry
"that is greater or equal to start()". (TLC reaches this with chunks of three
entries and six events; the instance of `services` is smaller.) Hence what `CaughtUp` says of
a reader asleep: it stands at the end of every log in any case, and it has sent
every entry since it connected that is still there if no entry was late
(`disorder`) and no flush of its found nothing (`idle`, the case of
`logd_missed`).

Comments that differ from the code without a run of their own:
`pthread_cond.cpp:44` says a signal can be missed after exactly UINT_MAX/2
pulses, but the counter has 30 bits and comes round after 2^30; the comment in
`NormalMutexUnlock` (`pthread_mutex.cpp:642`) says that a woken sleeper swaps in
`locked_uncontended`, and it swaps in `locked_contended`; `pthread_mutex.cpp:877`
speaks of a compare-exchange loop where there is a `fetch_sub`;
`semaphore.cpp:52` speaks of -2. `SystemProperties::Wait` returns -1, that is
true, from a `bool` function when the area is not initialised.
`malloc_limit.cpp:272` says that all other code that calls `mutate` takes
`gGlobalsMutateLock`, and `heap_tagging.cpp:110` does not. A realloc that fails
"acts as if the pointer was freed" for the limit (`malloc_limit.cpp:215`), but
the block is still there, so it is freed from the count a second time later
(`stray` excludes this from `CountExact`). `malloc_limit.cpp:326` takes what is
allocated from `mallinfo`, which is the native allocator's in every table
(`gwp_asan_wrappers.cpp:181`), while `LimitFree` subtracts the sizes of blocks
that GWP-ASan guards as well: if such blocks are there when the limit is enabled
and are freed later, the counter can wrap to a number that fails every further
request. `CountExact` says that it wraps in no other way (`skew`). Concurrent
calls that have all passed the check may together exceed the limit.

## Proofs

Each theorem holds for any set of threads (a finite one for the rwlock, the
condition variable, the barrier and the count of malloc) and every value of the
other constants that the named assumption allows. The argument is the same throughout: an inductive
invariant, checked by TLC first, shown of the initial states and of every
action; from it the safety properties, and that each step is a step of the
abstract specification or changes nothing that it speaks of.

`Startup_proofs`. For `Lock`, the invariant is
`TypeOK /\ MutualExclusion /\ WordTellsHolder /\ NoLostWakeup`. Mutual
exclusion alone is not inductive: that the word is not `Unlocked` while somebody
is in the critical section (`WordTellsHolder`) is what makes the successful
exchange exclusive. `NoLostWakeup` follows because every thread goes to sleep
only on `LockedWithWaiter`, and the unlock that swaps that value out owes a
wake. For `pthread_once` and the guard, the word tells whether somebody
constructs, and who that is is unique (`OnceControlTellsClaimant`,
`GuardStateTellsBuilder`); a thread that has seen the complete value knows that
the construction is done (`OnceDoneKnown`, `GuardDoneKnown`); and no wake is
lost. `OneTimeInitialisation` and `StartupLock` carry this over to the
specification that the run `startup` checks: whichever primitive the initial
state picks, the others stand still, so that its steps are those of the
primitive alone.

`Waiting_proofs`. The semaphore, for any initial value and any `SEM_VALUE_MAX`
(`SemaphoreAssumption`): the word, with -1 read as 0, is the number of credits,
so that each step takes a credit that is there, posts one below the limit, or
changes none. The condition variable: `waiters` is the number of threads between
the two places that count, which is a cardinality that one step changes by one
(`CondCount`), and a wake of one or of all leaves it alone (`CondWake`). The
barrier, for any number of participants: each thread belongs to the cycle that
fills up or to the one that empties, never to both, and the state word says
which of the two there is (`Cycle`, `Whereabouts`); `wait_count` is the number
of those present. The delicate one is the last to leave: when it has stored
`WAIT` it still has those at the gate to wake, and threads of the next cycle
enter past it (`Open` and `Present` leave it out, `LeaveStep`, `EnterStep`).
`WaitingPrimitives` carries the three over to the specification of the run
`semaphore`.

`Threads_proofs`, mutexes, for any counter limit and any choice of types and
builds (`MutexAssumption`). To `MutualExclusion`, `CounterIsDepth` and
`OwnerHolds` the invariant adds that the lock bits tell whether there is a
holder (`WordTellsHolder`), which locations each type of mutex can be at
(`Paths`, `NormalIsFlat`), and that `owner_tid` names the holder from the store
after its acquisition to the one before its release, so that no holder gets into
the waiting part of the code (`OwnerKnown`); the last makes the relaxed read of
`owner_tid` harmless and gives `MutexNoSelfDeadlock`. `MutexNoLostWakeup` needs
one more fact, that a thread goes to sleep only on a word it saw contended
(`Wakes`).

`PthreadRwlock_proofs`, for any limit on readers and both preferences. A thread
may hold the lock for reading several times, so the invariant counts numbered
read holds: the reader count of the word is the cardinality of `Holds`, and the
writer bit is set exactly while one writer holds (`WordTellsHolds`); a thread on
its way to store or clear `writer_tid` is the writer (`WriterKnown`). The limit
on readers enters where a reader is added: the count stays in its field.
`RwlockForgottenOnlyAfterTimeout` needs a second invariant, `WaitInv`, about
those who wait: the pending counts are exact and the pending flags tell whether
they are zero (`Counted`), and while the lock is free and no timed writer has
given up, each thread that sleeps, or is about to on a serial that has not moved
on, has another that will rouse it (`Roused`): an unlock that has not yet looked
at the counts or has a wake to give, or a writer on its way to the lock, which
will unlock in its turn.

`Threads_proofs`, lives of threads, for any threads and clients
(`NobodyAssumption`: the two values for "nobody" are neither). `LifeInv` says of
each worker, by where it is, whether it is mapped, on the list, and who is to
free it (`Stands`); of each client inside a call, what it may rely on about the
worker it was given (`Knows`); and that a worker has at most one such client
(`OneClient`), which is the ownership that `joinable` hands over. The exchange
of the join state decides once and for all whether the exiting thread or its
joiner unmaps, and the kernel still clears the tid only of those that a joiner
waits for.

`LockFree_proofs`, thread-specific data, for any numbers of slots and rounds
(`KeyAssumption`). A slot whose sequence number says "in use" has its destructor
stored, or one creator that is about to store it (`Slots`). Of each thread the
invariant says what its data, its current call and its scan remember: data with
the current sequence number is of the current key (`DataKnown`); what it read
before is still true unless the sequence number has moved on, which is the claim
of the comment in `pthread_key_clean_all` (`CallKnown`); and a round that has
called nothing so far has left nothing behind it (`ScanKnown`).

`LockFree_proofs`, system properties, for any readers, properties, values and
lengths, as long as fewer updates are made than half a period of the serial
(`PropertiesAssumption`, `2 * MaxSets < SerialMod`). The dirty bit is set
exactly while the value is being written, with the old value in the backup area
(`WriterKnown`); serials go up with each set and do not come round
(`SerialsBounded`); and while the serial is the one a reader took, what it has
copied is what is there (`ReaderKnown`). A read that passes the final check is
therefore a read of the value at one moment of the call.

`MallocHooks_proofs`, for any threads, blocks and number of calls
(`NoThreadAssumption`). `HookInv` has three parts. `Locking`: at most one thread
is between the exchange that sets `gGlobalsMutating` and the store that clears
it, and unless it is the signal handler it has the lock; this gives
`HooksMeetOnlySignals`. `Tables`: what the tables and `gHeapprofdState` are
while nobody changes them (`Stable`), and at each point of a change
(`ChangingTo`); this gives `HooksTablesConsistent`. `Worlds`: either nothing
leads to GWP-ASan and no block is its, or every table in use leads to it, the
tables that calls fetched and have not used yet included, and so does the one
they fall back to once there has been a signal. M_INITIALIZE_GWP_ASAN leads from
the one to the other, and it does so only while no call is under way; before a
signal a failed load may leave a null previous table under GWP-ASan
(`Unprofiled`). A signal over heapprofd over GWP-ASan and a reset of such a null
table are the only steps out of both worlds (`dropped`). This gives
`HooksOwnerServes`. Each part needs the one before it: what the handler copies
into the ephemeral table is right only because nobody else is storing tables.

`HooksCountExact` is about sums over all threads and all blocks, for finite sets
of both, with a counter that has room for all blocks, for what each thread is
giving back and for what caches of threads hold (`CountAssumption`). `Total(f)` is the number of
pairs of an element and one of its bytes, so that it can be reasoned about by
cardinality, without induction: when one summand changes, the total changes by
as much (`TotalAt`). `CountInv`, kept by every step by `MallocCount_proofs`,
says which block each call under way has taken, and that no two have taken the
same (`Blocks`); that one thread at most enables the limit, and what it has
measured differs from what is allocated by `skew` until it stores it, unless an
allocation overlapped (`OneLimit`); that `skew` is at most `MaxCached` and no
lower than the counter is wide (`Skewed`); and that the count is what is due: the total
of the sizes and the skew, but for what each call has counted ahead of the
allocator or not yet, modulo the width of the counter (`Counted`, `Due`,
`Wrapped`). What is due is below zero only if `skew` is (`DueHeld`).

`Exit_proofs`, for any threads, libraries, nesting depth, number of calls and
page size (`NoneAssumption`, `NoDsoAssumption`, `AtexitAssumption`). Entries are
numbered as they are registered, and the list and the array keep them in this
order through every removal and recompaction (`SortedInv`): what is removed is
described by the ascending positions of what stays (`Ascending`), so that no
induction along the sequence is needed. Fork handlers: one thread at most is in
a fork, and it has the mutex (`OneFork`); `Walk` says which handlers a fork has
called by where it stands, for entries that were there when it began and still
are; what is registered meanwhile comes after them, and the entry under the walk
is not removed, since a handler does not finalize its own library (`InHandler`)
and nobody else gets the mutex. `ForkHandlersPaired` and the second half of
`UnloadsClean` follow. Exit handlers: a pass that is in a callback has nothing
left to call at its index or above it, unless something was appended since it
looked (`Caught`), so that starting anew and going on below come to the same
(`GoesOn`). That other passes recompact the array meanwhile would break this; it
does not happen because `call_depth` counts every pass under way and only the
last one recompacts (`DepthInv`, as an injection of the passes into the numbers
up to `call_depth`). This gives `PassesComplete`, and `ExitHandlersImplemented`:
the entry extracted is the newest of those the pass is to call.

Only model-checked: the properties of `Linker`, which are about what a recursive
walk of the graph of libraries reaches and in which order, and are beyond a
prover without induction over data; those of `Logd` (`PositionsValid`,
`InOrder`, `CaughtUp`), whose chunks are searched and pruned in the middle while
readers hold iterators into them; and all liveness properties, since fairness
and ENABLED are out of the prover's reach.

## Plan

1. Model: fdsan's owner tags against the descriptor table; the page protection
   of `__libc_globals` with heap tagging's `mutate`; generations of the dynamic
   thread vector; SIGEV_THREAD timers. The trie of `prop_area`, PI mutexes and the
   arithmetic of `bionic_time_conversions.cpp` complete parts that are begun.
2. Compose: `PthreadCond` over `PthreadMutex` itself; keys' destructors and
   thread_local destructors into the exit of `ThreadLifecycle`.
3. Prove: exact counts of load groups and the order of destructors of `Linker`;
   positions of readers of `Logd`.

## Not modelled

Weak memory; process-shared details beyond the choice of futex operation;
scheduling priorities; cleanup handlers, guard pages and TLS layout of threads.
Hazards without a property, each with its reason in `PROJECT.json`: the wrap of
the condition variable's counter after 2^30 pulses and of a property's 24-bit
serial, which no enumeration reaches; destructors that open again what a
dlclose is about to free; overlapping `mutate` calls.

Of the system properties: failures that change nothing (a full area, a name that
is too long), long read-only values and enumeration.

Of fork and exit: a fork inside a fork handler, write protection of the array
of callbacks and its failure to grow.

Of malloc: heap tagging, the static build, HWASan, what malloc debug, malloc
hooks and the library of heapprofd do with a request (they are taken to pass it
on to the table they were given), the allocations of dlopen itself, a signal
during process start, and M_INITIALIZE_GWP_ASAN while another thread allocates or
replaces tables (`MaybeInitGwpAsan` "should always be called in a single-threaded
context"). What an allocator does with a block that it did not hand out is
undefined, and nothing is said of the heap after that.

Of threads: callers join or detach a thread once, so that the `EINVAL` of
`pthread_join` and `pthread_detach` for a thread that is already joined or
detached does not come up; `android_run_on_all_threads` that fails before it
signals anybody, which changes nothing.

Of the linker: relocation, symbol lookup, search paths and configuration of
namespaces, TLS modules, the CFI shadow and the debugger's list. Each library
exists in one copy, is visible where it is needed, and names each dependency
once; destructors do not open or register thread_locals for what is being
unloaded. Groups that refer to each other across namespaces keep each other
loaded, as in the code, and no instance has such a pair.

Of logd: the Simple and Chatty buffers, `SetSize`, statistics, passes for a
tail count, and filters by pid and uid.

Sequential library code (strings, mathematics, formatting, time zones), imported
BSD sources, jemalloc, generated headers and assembler have no shared state to
explore or are out of reach of a small model.
