------------------------------- MODULE MCLogd -------------------------------
(* logd with one client, for what a test expects of it and it does not do.   *)
EXTENDS Logd

MCLogsOf == [w \in Writer |-> LogId]

MCChunkCapacity == [i \in LogId |-> 2]

\* `logcat`: everything, and wait for more.
MCRequest == {[time |-> 0, non_block |-> FALSE, timeout |-> FALSE]}

\* A client that waits has been sent every entry of the buffer that was logged
\* after it connected (LogBufferTest.cpp, "Check that we have read all 6
\* messages.").
SentAll == \A r \in Reader : reader[r].pc = "wait" => SentWhatIsThere(r)
=============================================================================
