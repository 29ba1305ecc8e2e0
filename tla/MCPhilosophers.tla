--------------------------- MODULE MCPhilosophers ---------------------------
\* Philosophers around a table of N seats.
EXTENDS Philosophers

MCProcs == 0 .. N - 1
MCSems == MCProcs \cup {mutex}
=============================================================================
