-------------------------- MODULE SystemProperties --------------------------
(* libc/system_properties/system_properties.cpp on the properties of one     *)
(* prop_area: one process that adds and updates properties, and others that  *)
(* read them and wait for changes without any lock.  A copy of a value is    *)
(* two steps, one for each half.                                             *)
EXTENDS Naturals

CONSTANTS Property, Reader, Value,
          LenOf,        \* the length of each value
          Absent,       \* the result for a property that is not there
          NoProperty, NoResult,
          SerialBits,   \* width of the serial with its dirty bit (24)
          MaxSets       \* bound on the properties added and updated

SerialMod == 2 ^ SerialBits

\* Fewer sets than would bring the serial of a property round.
ASSUME PropertiesAssumption ==
    /\ LenOf \in [Value -> Nat] /\ Absent \notin Value
    /\ SerialMod \in Nat /\ MaxSets \in Nat /\ 2 * MaxSets < SerialMod

VARIABLES known,        \* properties that can be found in the area
          serial,       \* pi->serial: the length, and the serial with its dirty bit
          info,         \* pi->value
          backup,       \* dirty_backup_area
          area,         \* the serial of the area
          update,       \* the call the writer is in
          call,         \* the call each reader is in
          result        \* what each reader read in its last call

vars == <<known, serial, info, backup, area, update, call, result>>
writer == <<known, serial, info, backup, area, update>>

Halves == [head : Value \cup {Absent}, tail : Value \cup {Absent}]
NoHalves == [head |-> Absent, tail |-> Absent]

Serials == [len : Nat, count : 0 .. SerialMod - 1]
NoSerial == [len |-> 0, count |-> 0]

Dirty(s) == s.count % 2 = 1

\* The writer's locals: the property and its new value.
Updates == [pc : {"idle", "backupHead", "backupTail", "dirty", "writeHead", "writeTail",
                  "serial", "wake", "area", "wakeArea"},
            p : Property \cup {NoProperty}, value : Value \cup {Absent}]

NoUpdate == [pc |-> "idle", p |-> NoProperty, value |-> Absent]

(* A reader's locals: the serial it read and what it copied; what it waits   *)
(* for after the read, and the serial of the area it took before.            *)
Calls == [pc : {"idle", "find", "load", "head", "tail", "check", "wait", "asleep", "reload"},
          p : Property \cup {NoProperty}, old : Serials, copy : Halves,
          waitFor : {"nothing", "property", "area"}, area : Nat]

Idle == [pc |-> "idle", p |-> NoProperty, old |-> NoSerial, copy |-> NoHalves,
         waitFor |-> "nothing", area |-> 0]

Init ==
    /\ known = {}
    /\ serial = [p \in Property |-> NoSerial]
    /\ info = [p \in Property |-> NoHalves]
    /\ backup = NoHalves
    /\ area = 0 /\ update = NoUpdate
    /\ call = [r \in Reader |-> Idle]
    /\ result = [r \in Reader |-> NoResult]

-----------------------------------------------------------------------------
(* The writer *)

Then(l) == update' = [update EXCEPT !.pc = l]

\* Add: the new prop_info is complete when the trie is made to point to it.
Add(p, v) ==
    /\ update.pc = "idle" /\ area < MaxSets /\ p \notin known
    /\ info' = [info EXCEPT ![p] = [head |-> v, tail |-> v]]
    /\ serial' = [serial EXCEPT ![p] = [len |-> LenOf[v], count |-> 0]]
    /\ known' = known \cup {p}
    /\ update' = [NoUpdate EXCEPT !.pc = "area"]
    /\ UNCHANGED <<backup, area, call, result>>

Update(p, v) ==
    /\ update.pc = "idle" /\ area < MaxSets /\ p \in known
    /\ update' = [pc |-> "backupHead", p |-> p, value |-> v]
    /\ UNCHANGED <<known, serial, info, backup, area, call, result>>

\* The old value is copied to the dirty backup area.
BackupHead ==
    /\ update.pc = "backupHead"
    /\ backup' = [backup EXCEPT !.head = info[update.p].head]
    /\ Then("backupTail")
    /\ UNCHANGED <<known, serial, info, area, call, result>>

BackupTail ==
    /\ update.pc = "backupTail"
    /\ backup' = [backup EXCEPT !.tail = info[update.p].tail]
    /\ Then("dirty")
    /\ UNCHANGED <<known, serial, info, area, call, result>>

\* serial |= 1, the length still that of the old value.
StoreDirty ==
    /\ update.pc = "dirty"
    /\ serial' = [serial EXCEPT ![update.p].count = IF Dirty(serial[update.p]) THEN @ ELSE @ + 1]
    /\ Then("writeHead")
    /\ UNCHANGED <<known, info, backup, area, call, result>>

WriteHead ==
    /\ update.pc = "writeHead"
    /\ info' = [info EXCEPT ![update.p].head = update.value]
    /\ Then("writeTail")
    /\ UNCHANGED <<known, serial, backup, area, call, result>>

WriteTail ==
    /\ update.pc = "writeTail"
    /\ info' = [info EXCEPT ![update.p].tail = update.value]
    /\ Then("serial")
    /\ UNCHANGED <<known, serial, backup, area, call, result>>

\* The new length and the next clean serial, in one word.
StoreSerial ==
    /\ update.pc = "serial"
    /\ serial' = [serial EXCEPT ![update.p] = [len |-> LenOf[update.value],
                                              count |-> (serial[update.p].count + 1) % SerialMod]]
    /\ update' = [update EXCEPT !.pc = "wake", !.value = Absent]
    /\ UNCHANGED <<known, info, backup, area, call, result>>

\* FUTEX_WAKE of all readers asleep on a word of the kind.
Wake(w) ==
    call' = [r \in Reader |->
               IF /\ call[r].pc = "asleep" /\ call[r].waitFor = w
                  /\ w = "property" => call[r].p = update.p
                 THEN [call[r] EXCEPT !.pc = "reload"] ELSE call[r]]

WakeProperty ==
    /\ update.pc = "wake"
    /\ Wake("property")
    /\ update' = [NoUpdate EXCEPT !.pc = "area"]
    /\ UNCHANGED <<known, serial, info, backup, area, result>>

\* The serial of the area goes up after the property has its new value.
BumpArea ==
    /\ update.pc = "area"
    /\ area' = area + 1
    /\ Then("wakeArea")
    /\ UNCHANGED <<known, serial, info, backup, call, result>>

\* A mutant: the readers that wait for any change are not woken.
WakeAreaNot ==
    /\ update.pc = "wakeArea"
    /\ update' = NoUpdate
    /\ UNCHANGED <<known, serial, info, backup, area, call, result>>

WakeArea ==
    /\ update.pc = "wakeArea"
    /\ Wake("area")
    /\ update' = NoUpdate
    /\ UNCHANGED <<known, serial, info, backup, area, result>>

WriterStep ==
    \/ BackupHead \/ BackupTail \/ StoreDirty \/ WriteHead \/ WriteTail
    \/ StoreSerial \/ WakeProperty \/ BumpArea \/ WakeArea

-----------------------------------------------------------------------------
(* A reader *)

Goto(r, l) == call' = [call EXCEPT ![r].pc = l]

\* A reader begins; one that is to wait for any change takes the serial of the
\* area first (AreaSerial).
Begin(r) ==
    /\ call[r].pc = "idle"
    /\ \E p \in Property, w \in {"nothing", "property", "area"} :
         call' = [call EXCEPT ![r] = [Idle EXCEPT !.pc = "find", !.p = p, !.waitFor = w,
                                                  !.area = IF w = "area" THEN area ELSE 0]]
    /\ result' = [result EXCEPT ![r] = NoResult]
    /\ UNCHANGED writer

\* The read is over: the reader has its result and returns, or goes to wait.
Finish(r, v) ==
    /\ result' = [result EXCEPT ![r] = [p |-> call[r].p, value |-> v]]
    /\ LET c == call[r]
       IN call' = [call EXCEPT ![r] =
                     IF c.waitFor = "nothing" \/ (v = Absent /\ c.waitFor = "property") THEN Idle
                     ELSE [c EXCEPT !.pc = "wait", !.copy = NoHalves,
                                    !.old = IF c.waitFor = "area" THEN NoSerial ELSE c.old]]
    /\ UNCHANGED writer

\* Find; without a prop_info there is nothing to wait for but the area.
Find(r) ==
    /\ call[r].pc = "find"
    /\ \/ call[r].p \in known /\ Goto(r, "load") /\ UNCHANGED <<writer, result>>
       \/ call[r].p \notin known /\ Finish(r, Absent)

\* ReadMutablePropertyValue: the first load of the serial ...
LoadSerial(r) ==
    /\ call[r].pc = "load"
    /\ call' = [call EXCEPT ![r].pc = "head", ![r].old = serial[call[r].p]]
    /\ UNCHANGED <<writer, result>>

\* ... which tells where to copy from.
Source(r) == IF Dirty(call[r].old) THEN backup ELSE info[call[r].p]

CopyHead(r) ==
    /\ call[r].pc = "head"
    /\ call' = [call EXCEPT ![r].pc = "tail", ![r].copy.head = Source(r).head]
    /\ UNCHANGED <<writer, result>>

CopyTail(r) ==
    /\ call[r].pc = "tail"
    /\ call' = [call EXCEPT ![r].pc = "check", ![r].copy.tail = Source(r).tail]
    /\ UNCHANGED <<writer, result>>

\* A value with the length from the serial.
Sized(len, halves) == [len |-> len, head |-> halves.head, tail |-> halves.tail]

\* A mutant: the copy counts whatever the serial is now.
CheckNothing(r) ==
    /\ call[r].pc = "check"
    /\ Finish(r, Sized(call[r].old.len, call[r].copy))

\* The second load: the copy counts if the serial has not changed.
CheckSerial(r) ==
    /\ call[r].pc = "check"
    /\ \/ /\ serial[call[r].p] = call[r].old
          /\ Finish(r, Sized(call[r].old.len, call[r].copy))
       \/ /\ serial[call[r].p] # call[r].old
          /\ call' = [call EXCEPT ![r].pc = "head", ![r].old = serial[call[r].p]]
          /\ UNCHANGED <<writer, result>>

\* Whether the word that r waits on has the old serial.
Unchanged(r) ==
    IF call[r].waitFor = "area" THEN area = call[r].area ELSE serial[call[r].p] = call[r].old

\* Wait and WaitAny: FUTEX_WAIT while the word has the old serial ...
FutexWait(r) ==
    /\ call[r].pc = "wait"
    /\ Goto(r, IF Unchanged(r) THEN "asleep" ELSE "reload")
    /\ UNCHANGED <<writer, result>>

\* ... and the loop until a load gives another.
Reload(r) ==
    /\ call[r].pc = "reload"
    /\ call' = [call EXCEPT ![r] = IF Unchanged(r) THEN [@ EXCEPT !.pc = "wait"] ELSE Idle]
    /\ UNCHANGED <<writer, result>>

\* FUTEX_WAIT returns without a wake.
SpuriousReturn(r) ==
    /\ call[r].pc = "asleep"
    /\ Goto(r, "reload")
    /\ UNCHANGED <<writer, result>>

\* Wait with a relative_timeout returns false.
TimeOut(r) ==
    /\ call[r].pc \in {"wait", "asleep"} /\ call[r].waitFor = "property"
    /\ call' = [call EXCEPT ![r] = Idle]
    /\ UNCHANGED <<writer, result>>

ReaderStep(r) ==
    \/ Find(r) \/ LoadSerial(r) \/ CopyHead(r) \/ CopyTail(r) \/ CheckSerial(r)
    \/ FutexWait(r) \/ Reload(r)

Next ==
    \/ \E p \in Property, v \in Value : Add(p, v) \/ Update(p, v)
    \/ WriterStep
    \/ \E r \in Reader : Begin(r) \/ ReaderStep(r) \/ SpuriousReturn(r) \/ TimeOut(r)

Spec == Init /\ [][Next]_vars

\* The writer and the readers keep running inside their calls; no wait need
\* end but by a wake.
FairSpec == Spec /\ WF_vars(WriterStep) /\ \A r \in Reader : WF_vars(ReaderStep(r))
-----------------------------------------------------------------------------
TypeOK ==
    /\ known \subseteq Property
    /\ serial \in [Property -> Serials]
    /\ info \in [Property -> Halves] /\ backup \in Halves
    /\ area \in Nat /\ update \in Updates
    /\ call \in [Reader -> Calls]
    /\ result \in [Reader -> {NoResult} \cup
                           [p : Property, value : {Absent} \cup [len : Nat, head : Value, tail : Value]]]

\* The value of a property: whenever the dirty bit is set, it is in the dirty
\* backup area.
Current(p) ==
    IF p \notin known THEN Absent
    ELSE Sized(serial[p].len, IF Dirty(serial[p]) THEN backup ELSE info[p])

Abstract == INSTANCE AbstractProperties
                WITH value <- [p \in Property |-> Current(p)],
                     Values <- {[len |-> LenOf[v], head |-> v, tail |-> v] : v \in Value}

\* Reads without locks are atomic: no read gives a torn or a mixed-up value,
\* or one with another's length or of another
\* property, or a value older than its last serial check.
ImplementsProperties == Abstract!Spec

\* A reader that waits after having read a value which is not the value any
\* more comes back, whether it waits for the property or for any change.
ChangesNoticed ==
    \A r \in Reader :
        (call[r].pc \in {"wait", "asleep"} /\ result[r].value # Current(call[r].p))
            ~> (call[r].pc \notin {"wait", "asleep"})
=============================================================================
