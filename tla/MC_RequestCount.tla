--------------------------- MODULE MC_RequestCount ---------------------------
(* RequestCount for three threads, any of which may use it and shut it down. *)
EXTENDS RequestCount

CONSTANTS t1, t2, t3

MCThreads == {t1, t2, t3}
=============================================================================
