------------------------------ MODULE MC_RWLock ------------------------------
(* RWLock with three threads: a holder, and a reader and a writer waiting   *)
(* in either order.                                                         *)
EXTENDS RWLock

CONSTANTS t1, t2, t3

MCThreads == {t1, t2, t3}
=============================================================================
