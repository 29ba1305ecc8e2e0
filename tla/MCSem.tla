------------------------------- MODULE MCSem --------------------------------
\* SemClients with a semaphore that is free at first and one that is not.
EXTENDS SemClients

CONSTANTS s1, s2

MCSems == {s1, s2}
MCInitial == [s \in MCSems |-> IF s = s1 THEN 1 ELSE 0]
=============================================================================
