------------------------------- MODULE MCProc -------------------------------
\* Proc with two user processes besides init.
EXTENDS Proc

CONSTANTS u1, u2

MCProcs == {init, u1, u2}
=============================================================================
