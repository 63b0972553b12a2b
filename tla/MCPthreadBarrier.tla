---- MODULE MCPthreadBarrier ----
EXTENDS PthreadBarrier
====
