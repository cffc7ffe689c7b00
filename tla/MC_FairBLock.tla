---------------------------- MODULE MC_FairBLock ----------------------------
(* FairBLock for three threads: an owner, a converting head and a thread    *)
(* that joins the queue behind it.                                          *)
EXTENDS FairBLock

CONSTANTS t1, t2, t3

MCThreads == {t1, t2, t3}
=============================================================================
