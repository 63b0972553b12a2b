---------------------------- MODULE MCPthreadKey ----------------------------
EXTENDS PthreadKey, TLC

Symmetry == Permutations(Thread)
=============================================================================
