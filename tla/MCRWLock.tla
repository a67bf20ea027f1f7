------------------------------ MODULE MCRWLock ------------------------------
(* Small instances of RWLock for TLC.                                      *)
EXTENDS RWLock, TLC

CONSTANTS t1, t2, t3, t4, p1, p2

\* "threading": every thread in one process
OneHome == [t \in Thread |-> p1]

=============================================================================
