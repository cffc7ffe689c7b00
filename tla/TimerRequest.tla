---------------------------- MODULE TimerRequest ----------------------------
(***************************************************************************)
(* What the kernel's timer promises one dispatcher: a request, when it is  *)
(* not replaced, ends in a TIMER_EVENT soft interrupt at or after its      *)
(* time, and the interrupt is never sent for another reason than a request *)
(* that is due or one that has to be given up.  KernelTimer models the     *)
(* queue that keeps the promise, SchedulerTimer builds on it.              *)
(***************************************************************************)
EXTENDS Integers

CONSTANT Never      \* SysTime(-1): later than any time

VARIABLES
  clock,      \* the processor's clock
  req,        \* timerEvent.when of the dispatcher's annex, Never: no request
  intr        \* TIMER_EVENT is pending in the dispatcher

(* The call _TIMER_REQUEST(w, absolute), or with kind reset for w = Never. *)
TimerRequest(w) == req' = w

(* The interrupt for a request that is due. *)
Pop ==
  /\ req <= clock
  /\ intr' = TRUE
  /\ req' = Never
  /\ UNCHANGED clock

(* The dispatcher is taken off the processor with a request outstanding.   *)
GiveUp ==
  /\ req # Never
  /\ intr' = TRUE
  /\ req' = Never
  /\ UNCHANGED clock
=============================================================================
