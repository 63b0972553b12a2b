--------------------------- MODULE MCPthreadMutex ---------------------------
EXTENDS PthreadMutex

\* A normal mutex is the same in both builds.
MCVariants == {<<"normal", TRUE>>, <<"recursive", TRUE>>, <<"errorcheck", FALSE>>}
=============================================================================
