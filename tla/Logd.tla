-------------------------------- MODULE Logd --------------------------------
(* logd's serialized log buffer (SerializedLogBuffer.cpp,                    *)
(* SerializedLogChunk.cpp, SerializedFlushToState.cpp) and the threads that  *)
(* read it (LogReaderThread.cpp, LogReader.cpp).  A section under logd_lock  *)
(* is one step, except that a reader in FlushTo keeps the lock over steps    *)
(* until it writes an entry to its client.  A chunk is a sequence of entries *)
(* of equal length; an offset in it is a number of entries.                  *)
EXTENDS Integers, SequencesExt

CONSTANTS LogId, Reader, None,
          Writer,          \* the threads that log: LogListener's, LogAudit's
          LogsOf,          \* the logs each of them writes to
          Uid,             \* those they log for
          ChunkCapacity,   \* entries that fit in a chunk of each log
          MaxSize,         \* max_size_, where a chunk counts 2, compressed 1
          MaxWork,         \* the bound on entries logged and on the other
                           \* events from outside, together
          Request          \* what clients ask for: a start time, dumpAndClose
                           \* or not, with a timeout or not

VARIABLES sequence,        \* sequence_
          pending,         \* what each writer is going to log
          logs,            \* the chunks of each log, oldest first
          reader,          \* each LogReaderThread and its SerializedFlushToState
          delivered,       \* the sequence numbers each client has been sent
          extra,           \* clears, clients that come or go, and wakeups
                           \* without a reason, so far
          disorder         \* has an entry entered the buffers after one with
                           \* a higher number?

vars == <<sequence, pending, logs, reader, delivered, extra, disorder>>

NewChunk == [entries |-> <<>>, writing |-> TRUE, plain |-> TRUE, attached |-> {}]

\* Beside the fields of the code: since is the first number the client is
\* certainly owed, read tells whether the flush passed an entry from start on,
\* and idle whether some flush returned without.
NewReader ==
    [pc |-> "none", start |-> 1, pos |-> [i \in LogId |-> None],
     needed |-> [i \in LogId |-> TRUE], release |-> FALSE, non_block |-> FALSE,
     deadline |-> FALSE, after |-> 0, entry |-> 0, since |-> 0,
     read |-> FALSE, idle |-> FALSE]

Init ==
    /\ sequence = 1 /\ extra = 0 /\ disorder = FALSE
    /\ pending = [w \in Writer |-> None]
    /\ logs = [i \in LogId |-> <<>>]
    /\ reader = [r \in Reader |-> NewReader]
    /\ delivered = [r \in Reader |-> <<>>]

HasWork == sequence + extra <= MaxWork

\* logd_lock is free.
CanLock == \A r \in Reader : reader[r].pc # "flush"

-----------------------------------------------------------------------------
(* SerializedLogChunk *)

HighestSequenceNumber(c) == IF c.entries = <<>> THEN 1 ELSE Last(c.entries).seq

\* FinishWriting compresses; the contents stay for readers.
FinishWriting(c) == [c EXCEPT !.writing = FALSE, !.plain = c.attached # {}]

AttachReader(c, r) == [c EXCEPT !.attached = @ \cup {r}, !.plain = TRUE]

\* A mutant of the next: the contents go with any reader.
DetachReaderAny(c, r) == [c EXCEPT !.attached = @ \ {r}, !.plain = c.writing]

DetachReader(c, r) ==
    [c EXCEPT !.attached = @ \ {r}, !.plain = c.writing \/ c.attached # {r}]

PruneSize(c) == IF c.writing THEN 2 ELSE 1

SizeUsed(buffer, n) == FoldLeft(LAMBDA x, c : x + PruneSize(c), 0, SubSeq(buffer, 1, n))

LogToLogBuffer(i, buffer, entry) ==
    LET full == buffer # <<>> /\ Len(Last(buffer).entries) = ChunkCapacity[i]
        old == IF full THEN [buffer EXCEPT ![Len(buffer)] = FinishWriting(@)] ELSE buffer
        open == IF full \/ buffer = <<>> THEN Append(old, NewChunk) ELSE old
    IN  [open EXCEPT ![Len(open)].entries = Append(@, entry)]

-----------------------------------------------------------------------------
(* What happens to readers when chunks go, and how they are woken. *)

TriggerReader(rd) == IF rd.pc \in {"wait", "timed"} THEN [rd EXCEPT !.pc = "woken"] ELSE rd

\* SerializedFlushToState::Prune.
PrunePosition(rd, i) == [rd EXCEPT !.pos[i] = None, !.needed[i] = TRUE]

\* A mutant of the next: readers are not told.
ReaderAfterPruneUntold(r, i, n) ==
    LET rd == reader[r]
        moved == IF rd.pos[i] # None
                   THEN [rd EXCEPT !.pos[i].chunk = @ - n] ELSE rd
    IN  IF n > 0 /\ rd.deadline THEN TriggerReader(moved) ELSE moved

\* Reader r when the first n chunks of log i are erased: NotifyReadersOfPrune,
\* and the wakeup of readers that wait for a deadline.
ReaderAfterPrune(r, i, n) ==
    LET rd == reader[r]
        told == \E k \in DOMAIN logs[i] : k <= n /\ r \in logs[i][k].attached
        moved == IF told THEN PrunePosition(rd, i)
                 ELSE IF rd.pos[i] # None THEN [rd EXCEPT !.pos[i].chunk = @ - n] ELSE rd
    IN  IF n > 0 /\ rd.deadline THEN TriggerReader(moved) ELSE moved

\* MaybePrune: the chunks that Prune erases, until enough is freed.
ChunksToPrune(buffer) ==
    LET over == SizeUsed(buffer, Len(buffer)) - MaxSize
    IN  IF SizeUsed(buffer, Len(buffer)) <= MaxSize THEN 0
        ELSE CHOOSE n \in DOMAIN buffer :
                 SizeUsed(buffer, n) >= over /\ SizeUsed(buffer, n - 1) < over

\* A mutant of NotifyNewLog: only readers with a deadline are woken.
NotifyNewLogDeadline(rd) == IF rd.deadline THEN TriggerReader(rd) ELSE rd

\* LogReaderList::NotifyNewLog, for one reader.
NotifyNewLog(rd) == IF rd.deadline THEN rd ELSE TriggerReader(rd)

\* Log takes its sequence number before it takes the lock.
LogSequence(w) ==
    /\ pending[w] = None /\ HasWork
    /\ \E i \in LogsOf[w], u \in Uid :
          pending' = [pending EXCEPT ![w] = [id |-> i, entry |-> [seq |-> sequence, uid |-> u]]]
    /\ sequence' = sequence + 1
    /\ UNCHANGED <<logs, reader, delivered, extra, disorder>>

\* Every higher number is still to be logged.
InTurn(w) ==
    \A n \in pending[w].entry.seq + 1 .. sequence - 1 :
        \E v \in Writer : pending[v] # None /\ pending[v].entry.seq = n

Log(w) ==
    /\ pending[w] # None /\ CanLock
    /\ LET i == pending[w].id
           buffer == LogToLogBuffer(i, logs[i], pending[w].entry)
           n == ChunksToPrune(buffer)
       IN  /\ logs' = [logs EXCEPT ![i] = SubSeq(buffer, n + 1, Len(buffer))]
           /\ reader' = [r \in Reader |-> NotifyNewLog(ReaderAfterPrune(r, i, n))]
    /\ pending' = [pending EXCEPT ![w] = None]
    /\ disorder' = (disorder \/ ~InTurn(w))
    /\ UNCHANGED <<sequence, delivered, extra>>

-----------------------------------------------------------------------------
(* Clear *)

\* ClearLogsByUid: chunks before the first entry of u stay as they are, the
\* other entries are logged again.  Every reader of the log loses its position.
ClearLogsByUid(i, buffer, u) ==
    LET HasUid(c) == \E k \in DOMAIN c.entries : c.entries[k].uid = u
        kept == CHOOSE n \in 0 .. Len(buffer) :
                    /\ \A k \in 1 .. n : ~HasUid(buffer[k])
                    /\ n < Len(buffer) => HasUid(buffer[n + 1])
        prefix == [k \in 1 .. kept |->
                      [buffer[k] EXCEPT !.attached = {}, !.plain = buffer[k].writing]]
        rest == SelectSeq(FlattenSeq([k \in 1 .. Len(buffer) - kept |->
                                         buffer[kept + k].entries]),
                          LAMBDA e : e.uid # u)
    IN  IF kept = Len(buffer) THEN prefix
        ELSE FoldLeft(LAMBDA b, e : LogToLogBuffer(i, b, e), Append(prefix, NewChunk), rest)

\* clear(id, 0): Prune of everything.
Clear(i) ==
    /\ CanLock /\ HasWork
    /\ reader' = [r \in Reader |-> ReaderAfterPrune(r, i, Len(logs[i]))]
    /\ logs' = [logs EXCEPT ![i] = <<>>]
    /\ extra' = extra + 1
    /\ UNCHANGED <<sequence, pending, delivered, disorder>>

\* clear(id, uid): readers with a deadline are woken even if the log is empty.
UidClear(i, u) ==
    /\ CanLock /\ HasWork
    /\ reader' = [r \in Reader |->
          LET rd == ReaderAfterPrune(r, i, Len(logs[i]))
          IN  IF rd.deadline THEN TriggerReader(rd) ELSE rd]
    /\ logs' = [logs EXCEPT ![i] = ClearLogsByUid(i, @, u)]
    /\ extra' = extra + 1
    /\ UNCHANGED <<sequence, pending, delivered, disorder>>

-----------------------------------------------------------------------------
(* SerializedFlushToState *)

\* A mutant of the next: the chunk has to go beyond start.
CreateLogPositionBeyond(i, start) ==
    LET reach == {k \in DOMAIN logs[i] : start < HighestSequenceNumber(logs[i][k])}
        chunk == IF reach = {} THEN Len(logs[i]) ELSE CHOOSE k \in reach : \A j \in reach : k <= j
        seqs == logs[i][chunk].entries
    IN  [chunk |-> chunk,
         offset |-> CHOOSE n \in 0 .. Len(seqs) :
                        /\ \A k \in 1 .. n : seqs[k].seq < start
                        /\ n < Len(seqs) => seqs[n + 1].seq >= start]

\* The first chunk whose highest sequence number reaches start, or the last
\* chunk, and in it the first entry from start on.
CreateLogPosition(i, start) ==
    LET reach == {k \in DOMAIN logs[i] : start <= HighestSequenceNumber(logs[i][k])}
        chunk == IF reach = {} THEN Len(logs[i]) ELSE CHOOSE k \in reach : \A j \in reach : k <= j
        seqs == logs[i][chunk].entries
    IN  [chunk |-> chunk,
         offset |-> CHOOSE n \in 0 .. Len(seqs) :
                        /\ \A k \in 1 .. n : seqs[k].seq < start
                        /\ n < Len(seqs) => seqs[n + 1].seq >= start]

\* Where UpdateLogsNeeded leaves position p: on the next chunk when its own is
\* read and is not the last.
Advance(i, p) ==
    IF p.offset = Len(logs[i][p.chunk].entries) /\ p.chunk < Len(logs[i])
      THEN [chunk |-> p.chunk + 1, offset |-> 0] ELSE p

\* CheckForNewLogs with UpdateLogsNeeded, as a function of the reader's state.
CheckForNewLogs(rd) ==
    LET At(i) == IF ~rd.needed[i] THEN rd.pos[i]
                 ELSE IF rd.pos[i] # None THEN Advance(i, rd.pos[i])
                 ELSE IF logs[i] = <<>> THEN None
                 ELSE Advance(i, CreateLogPosition(i, rd.start))
        pos == [i \in LogId |-> At(i)]
    IN  [rd EXCEPT !.pos = pos,
                   !.needed = [i \in LogId |-> pos[i] = None
                                  \/ pos[i].offset = Len(logs[i][pos[i].chunk].entries)]]

Unread(rd) == {i \in LogId : ~rd.needed[i]}

LogEntry(rd, i) == logs[i][rd.pos[i].chunk].entries[rd.pos[i].offset + 1]

\* PopNextUnreadLog takes it from the log whose next entry is the oldest.
OldestLog(rd) ==
    CHOOSE i \in Unread(rd) : \A j \in Unread(rd) : LogEntry(rd, i).seq <= LogEntry(rd, j).seq

PopNextUnreadLog(rd) ==
    [rd EXCEPT !.pos[OldestLog(rd)].offset = @ + 1, !.needed[OldestLog(rd)] = TRUE]

\* A mutant of the next: every entry is sent.
OldNever(rd, seq) == FALSE

\* An entry before start, logged out of order or already passed, is not sent.
Old(rd, seq) == seq < rd.start

\* The chunks when reader r moves from positions old to positions new.
Reattach(r, old, new) ==
    LET On(pos, i, k) == pos[i] # None /\ pos[i].chunk = k
    IN  [i \in LogId |-> [k \in DOMAIN logs[i] |->
            CASE On(old, i, k) /\ ~On(new, i, k) -> DetachReader(logs[i][k], r)
              [] On(new, i, k) /\ ~On(old, i, k) -> AttachReader(logs[i][k], r)
              [] OTHER -> logs[i][k]]]

-----------------------------------------------------------------------------
(* LogReader and LogReaderThread.  An entry's realtime is its sequence        *)
(* number; start time 0 is log_time::EPOCH.                                   *)

\* onDataAvailable's FlushTo with log_find_start: the sequence number to start
\* from for start time t, 0 if no entry is that late.
RECURSIVE FindStart(_, _, _)
FindStart(state, t, last) ==
    LET rd == CheckForNewLogs(state)
        seq == LogEntry(rd, OldestLog(rd)).seq
        next == PopNextUnreadLog(rd)
    IN  IF Unread(rd) = {} THEN 0
        ELSE IF Old(rd, seq) THEN FindStart(next, t, last)
        ELSE IF seq = t THEN seq
        ELSE IF seq > t THEN last
        ELSE FindStart([next EXCEPT !.start = seq], t, seq)

Gone == [NewReader EXCEPT !.pc = "off"]

\* The first half of onDataAvailable; a dumpAndClose whose start time is later
\* than every entry is refused.
OnDataAvailable(r) ==
    /\ reader[r].pc = "none" /\ CanLock /\ HasWork
    /\ \E q \in Request :
          LET found == IF q.time = 0 THEN 1 ELSE FindStart(reader[r], q.time, 1)
          IN  reader' = [reader EXCEPT ![r] =
                IF found = 0 /\ q.non_block THEN Gone
                ELSE [@ EXCEPT !.pc = "found", !.after = q.time, !.non_block = q.non_block,
                               !.start = IF found = 0 THEN sequence ELSE found,
                               !.deadline = q.timeout /\ q.time # 0]]
    /\ extra' = extra + 1
    /\ UNCHANGED <<sequence, pending, logs, delivered, disorder>>

\* Its second half, under the lock again: the reader enters the list.
Connect(r) ==
    /\ reader[r].pc = "found" /\ CanLock
    /\ reader' = [reader EXCEPT ![r].pc = "top",
                                  ![r].since = Max({sequence, reader[r].after + 1})]
    /\ UNCHANGED <<sequence, pending, logs, delivered, extra, disorder>>

\* A mutant of the next: the reader is not woken.
ReleaseSilently(r) ==
    /\ reader[r].pc \notin {"none", "found", "off"} /\ ~reader[r].release
    /\ CanLock /\ HasWork
    /\ reader' = [reader EXCEPT ![r].release = TRUE]
    /\ extra' = extra + 1
    /\ UNCHANGED <<sequence, pending, logs, delivered, disorder>>

\* DoSocketDelete: the client hung up or sent a second command.
Release(r) ==
    /\ reader[r].pc \notin {"none", "found", "off"} /\ ~reader[r].release
    /\ CanLock /\ HasWork
    /\ reader' = [reader EXCEPT ![r] = [TriggerReader(@) EXCEPT !.release = TRUE]]
    /\ extra' = extra + 1
    /\ UNCHANGED <<sequence, pending, logs, delivered, disorder>>

\* The thread of r ends; its flush state is destroyed, its client is let go.
End(r) ==
    /\ logs' = Reattach(r, reader[r].pos, NewReader.pos)
    /\ reader' = [reader EXCEPT ![r] = Gone]
    /\ delivered' = [delivered EXCEPT ![r] = <<>>]

\* FlushTo returns true to ThreadFunction, which ends or waits.
FlushReturns(r, rd) ==
    LET done == [rd EXCEPT !.start = @ + 1, !.after = 0,
                           !.read = FALSE, !.idle = @ \/ ~rd.read,
                           !.pc = IF rd.deadline THEN "timed" ELSE "wait"]
    IN  IF rd.non_block \/ rd.release THEN End(r)
        ELSE /\ logs' = Reattach(r, reader[r].pos, rd.pos)
             /\ reader' = [reader EXCEPT ![r] = done]
             /\ UNCHANGED delivered

\* ThreadFunction has the lock, at the top of its loop or after a wait.
Run(r) ==
    /\ reader[r].pc \in {"top", "woken"} /\ CanLock
    /\ \/ reader[r].release /\ End(r)
       \/ /\ ~reader[r].release
          /\ reader' = [reader EXCEPT ![r].pc =
                IF @ = "top" /\ reader[r].deadline THEN "timed" ELSE "flush"]
          /\ UNCHANGED <<logs, delivered>>
    /\ UNCHANGED <<sequence, pending, extra, disorder>>

\* One turn of FlushTo's loop, up to the write of an entry.
FlushTo(r) ==
    /\ reader[r].pc = "flush"
    /\ LET rd == CheckForNewLogs(reader[r])
           seq == LogEntry(rd, OldestLog(rd)).seq
           next == PopNextUnreadLog(rd)
           at == [next EXCEPT !.start = seq, !.read = TRUE]
           Goes(new) == /\ logs' = Reattach(r, reader[r].pos, new.pos)
                        /\ reader' = [reader EXCEPT ![r] = new]
                        /\ UNCHANGED delivered
       IN  CASE Unread(rd) = {} -> FlushReturns(r, rd)
             [] Unread(rd) # {} /\ Old(rd, seq) -> Goes(next)
             [] Unread(rd) # {} /\ ~Old(rd, seq) /\ seq <= rd.after -> Goes(at)
             [] Unread(rd) # {} /\ ~Old(rd, seq) /\ seq > rd.after /\ rd.release ->
                   FlushReturns(r, at)
             [] OTHER -> Goes([at EXCEPT !.pc = "write", !.entry = seq])
    /\ UNCHANGED <<sequence, pending, extra, disorder>>

\* Flush sends the copy without the lock and takes the lock again.
Flushed(r) ==
    /\ reader[r].pc = "write" /\ CanLock
    /\ delivered' = [delivered EXCEPT ![r] = Append(@, reader[r].entry)]
    /\ reader' = [reader EXCEPT ![r].pc = "flush", ![r].entry = 0]
    /\ UNCHANGED <<sequence, pending, logs, extra, disorder>>

\* The send fails: the client is gone or too slow (SO_SNDTIMEO).
FlushFails(r) ==
    /\ reader[r].pc = "write" /\ CanLock
    /\ End(r)
    /\ UNCHANGED <<sequence, pending, extra, disorder>>

Timeout(r) ==
    /\ reader[r].pc = "timed"
    /\ reader' = [reader EXCEPT ![r].pc = "woken", ![r].deadline = FALSE]
    /\ UNCHANGED <<sequence, pending, logs, delivered, extra, disorder>>

\* The condition variable may wake a waiter for no reason.
Spurious(r) ==
    /\ reader[r].pc \in {"wait", "timed"} /\ HasWork
    /\ reader' = [reader EXCEPT ![r].pc = "woken"]
    /\ extra' = extra + 1
    /\ UNCHANGED <<sequence, pending, logs, delivered, disorder>>

Next ==
    \/ \E w \in Writer : LogSequence(w) \/ Log(w)
    \/ \E i \in LogId : Clear(i) \/ \E u \in Uid : UidClear(i, u)
    \/ \E r \in Reader : \/ OnDataAvailable(r) \/ Connect(r) \/ Release(r)
                         \/ Run(r) \/ FlushTo(r) \/ Flushed(r) \/ FlushFails(r)
                         \/ Timeout(r) \/ Spurious(r)

Spec == Init /\ [][Next]_vars

-----------------------------------------------------------------------------

\* A reader holds a position exactly where a chunk of the buffer lists it, the
\* position is within what was written, and the chunk's contents are there
\* (the CHECKs of SerializedLogChunk and the LOG(FATAL) of UpdateLogsNeeded),
\* however prunes, clears and disconnects fall between the reader's steps.
PositionsValid ==
    /\ \A r \in Reader, i \in LogId : LET p == reader[r].pos[i] IN p # None =>
          /\ p.chunk \in DOMAIN logs[i]
          /\ p.offset <= Len(logs[i][p.chunk].entries)
          /\ r \in logs[i][p.chunk].attached
    /\ \A i \in LogId : \A k \in DOMAIN logs[i] :
          /\ logs[i][k].attached # {} => logs[i][k].plain
          /\ \A r \in logs[i][k].attached : reader[r].pos[i] # None /\ reader[r].pos[i].chunk = k

\* No client is sent an entry older than one it already has, though entries
\* enter the buffers out of order and positions are lost and made again.
InOrder ==
    \A r \in Reader : \A k \in 1 .. Len(delivered[r]) - 1 :
        delivered[r][k] <= delivered[r][k + 1]

\* A reader asleep without a deadline stands where the next entry of each log
\* will appear.  (It has no position in a log that was empty, or that was cleared
\* for a uid in its sleep.)
AtEnds(r) ==
    \A i \in LogId : reader[r].pos[i] # None =>
        LET p == reader[r].pos[i]
        IN  p.chunk = Len(logs[i]) /\ p.offset = Len(logs[i][p.chunk].entries)

EntriesOf(i) == UNION {Range(logs[i][k].entries) : k \in DOMAIN logs[i]}

\* Its client has been sent every entry since it connected that is still there.
SentWhatIsThere(r) ==
    \A i \in LogId : \A e \in EntriesOf(i) :
        e.seq >= reader[r].since => e.seq \in Range(delivered[r])

\* A reader asleep without a deadline has caught up: the lock is given up during
\* every write, and no entry logged and no chunk begun meanwhile is slept over;
\* and where entries come in the order of their numbers and each of its flushes
\* found something, all that it should send is sent, although prunes and clears
\* take away the position it goes by.  None sleeps whose client is gone, wherever
\* the hang-up meets its thread: before its first wait, between two flushes, in
\* a write.
CaughtUp ==
    /\ \A r \in Reader : reader[r].pc = "wait" =>
          /\ AtEnds(r)
          /\ reader[r].idle \/ disorder \/ SentWhatIsThere(r)
    /\ \A r \in Reader : reader[r].release => reader[r].pc \notin {"wait", "timed"}
=============================================================================
