----------------------- MODULE MC_RequestCountWithStop -----------------------
(* RequestCountWithStop for three threads, any of which may stop.           *)
EXTENDS RequestCountWithStop

CONSTANTS t1, t2, t3

MCThreads == {t1, t2, t3}
=============================================================================
