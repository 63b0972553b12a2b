--------------------------- MODULE MCMallocHooks ---------------------------
(* malloc and its dispatch tables, for what a signal makes libc forget.      *)
EXTENDS MallocHooks

\* No signal sends a block of GWP-ASan to the native allocator
\* (malloc_heapprofd.cpp, "to allow heapprofd and GWP-ASan to coexist").
SignalKeepsOwner == "reset" \in dropped \/ OwnerServes
============================================================================
