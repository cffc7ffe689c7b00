-------------------------- MODULE MC_SchedulerTimer --------------------------
(* The timer with a thread in DelayUntil and one in BlockWithTimeout.  The  *)
(* delays and the clock go beyond a turn of the table (BUCKET_TICKS times   *)
(* TABLE_SIZE), so that slots are shared by events of different turns.      *)
EXTENDS SchedulerTimer

CONSTANTS e1, e2
=============================================================================
