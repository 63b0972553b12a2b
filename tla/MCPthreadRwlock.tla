--------------------------- MODULE MCPthreadRwlock ---------------------------
EXTENDS PthreadRwlock
==============================================================================
