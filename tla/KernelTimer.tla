----------------------------- MODULE KernelTimer -----------------------------
(***************************************************************************)
(* The timer of one processor (KernelTimer): a queue of at most one        *)
(* request per process annex, ordered by time, and the end of the current  *)
(* quantum, served by one decrementer that can be set only a bounded time  *)
(* ahead and never to 0.  Everything runs with hardware interrupts off, so *)
(* an action is a whole function; the clock goes on between them.          *)
(*                                                                         *)
(* The queue is the function reqWhen, its anchor the annex with the        *)
(* earliest request.  Among requests for the same time the first in the    *)
(* queue can be taken for any other: its removal leaves the same time.     *)
(***************************************************************************)
EXTENDS Integers

CONSTANTS
  Annexes,    \* the process annexes of the processor
  Never,      \* SysTime(-1): later than any time
  MaxDec      \* maxDecrementer()

VARIABLES
  clock,
  hw,         \* the time at which the decrementer interrupts
  when, dispatchTime,
  reqWhen,    \* reqWhen[p]: p.timerEvent.when, Never: not in the queue
  intr        \* intr[p]: TIMER_EVENT is pending in p's dispatcher

vars == <<clock, hw, when, dispatchTime, reqWhen, intr>>

Times == {t \in Nat : t < Never}

TypeOK ==
  /\ clock \in Times /\ hw \in Nat
  /\ when \in Nat /\ dispatchTime \in Times \cup {Never}
  /\ reqWhen \in [Annexes -> Times \cup {Never}]
  /\ intr \in [Annexes -> BOOLEAN]

Init ==
  /\ clock = 0 /\ hw \in Nat
  /\ when = Never /\ dispatchTime = Never
  /\ reqWhen = [p \in Annexes |-> Never]
  /\ intr = [p \in Annexes |-> FALSE]

Later(s, t) == IF s < t THEN t ELSE s

(* KernelClock::setInterval. *)
setInterval(x) ==
  clock + (IF x > MaxDec THEN MaxDec ELSE IF x = 0 THEN 1 ELSE x)

(* The earlier of dispatchTime d and the anchor of the queue r (the set    *)
(* has one element).                                                       *)
Earliest(r, d) ==
  LET S == {r[p] : p \in Annexes} \cup {d} IN {t \in S : \A s \in S : t <= s}

Tick(t) ==
  /\ t > clock /\ t < Never
  /\ clock' = t
  /\ UNCHANGED <<hw, when, dispatchTime, reqWhen, intr>>

-----------------------------------------------------------------------------
(* timerRequest.                                                           *)

Without(p) == [reqWhen EXCEPT ![p] = Never]

(* Kind reset: when and the decrementer once p is off the queue.  Only the *)
(* removal of the first request can change them, and only to a later time; *)
(* a time that has come already is left to the pop that is pending.        *)
Removal(p) ==
  IF reqWhen[p] # Never /\ \A q \in Annexes : reqWhen[p] <= reqWhen[q]
  THEN {IF when < t THEN <<t, IF t > clock THEN setInterval(t - clock) ELSE hw>>
        ELSE <<when, hw>> : t \in Earliest(Without(p), dispatchTime)}
  ELSE {<<when, hw>>}

Reset(p) ==
  /\ reqWhen' = Without(p)
  /\ \E s \in Removal(p) : when' = s[1] /\ hw' = s[2]
  /\ UNCHANGED <<clock, dispatchTime, intr>>

(* Kind absolute: a request replaces the annex's earlier one.  If it comes *)
(* first, the decrementer is set for it, at once if it is due already.     *)
Absolute(p, w) ==
  /\ w < Never
  /\ reqWhen' = [reqWhen EXCEPT ![p] = w]
  /\ IF w < dispatchTime /\ \A q \in Annexes \ {p} : w < reqWhen[q]
     THEN /\ when' = Later(w, clock)
          /\ hw' = setInterval(Later(w, clock) - clock)
     ELSE \E s \in Removal(p) : when' = s[1] /\ hw' = s[2]
  /\ UNCHANGED <<clock, dispatchTime, intr>>

(* Kind relative: never later than the outstanding request. *)
Relative(p, d) == clock + d <= reqWhen[p] /\ Absolute(p, clock + d)

(* detachDispatcher: an annex that leaves the processor with a request     *)
(* outstanding gets its interrupt at once.                                 *)
Detach(p) ==
  /\ reqWhen' = Without(p)
  /\ \E s \in Removal(p) : when' = s[1] /\ hw' = s[2]
  /\ intr' = [intr EXCEPT ![p] = @ \/ reqWhen[p] # Never]
  /\ UNCHANGED <<clock, dispatchTime>>

-----------------------------------------------------------------------------
(* A new quantum begins.  The decrementer is left alone only if it is set  *)
(* for the first request already.                                          *)
SetDispatchTime(quantum) ==
  /\ clock + quantum < Never
  /\ dispatchTime' = clock + quantum
  /\ \E t \in Earliest(reqWhen, dispatchTime') :
       IF t < dispatchTime'
       THEN /\ when' = IF when # t THEN Later(t, clock) ELSE when
            /\ hw' = IF when # t THEN setInterval(Later(t, clock) - clock) ELSE hw
       ELSE /\ when' = dispatchTime'
            /\ hw' = setInterval(quantum)
  /\ UNCHANGED <<clock, reqWhen, intr>>

(* timerInterrupt takes all requests that are due off the queue, ends the  *)
(* quantum when its time has come, and sets the decrementer for what is    *)
(* left.                                                                   *)
TimerInterrupt ==
  /\ hw <= clock
  /\ intr' = [p \in Annexes |-> intr[p] \/ reqWhen[p] <= clock]
  /\ reqWhen' = [p \in Annexes |-> IF reqWhen[p] <= clock THEN Never ELSE reqWhen[p]]
  /\ dispatchTime' = IF dispatchTime <= clock THEN Never ELSE dispatchTime
  /\ \E t \in Earliest(reqWhen', dispatchTime') : when' = t /\ hw' = setInterval(t - clock)
  /\ UNCHANGED clock

(* The dispatcher of p takes its interrupt. *)
Take(p) ==
  /\ intr[p]
  /\ intr' = [intr EXCEPT ![p] = FALSE]
  /\ UNCHANGED <<clock, hw, when, dispatchTime, reqWhen>>

Next ==
  \/ TimerInterrupt
  \/ \E t \in Nat : Tick(t) \/ SetDispatchTime(t)
  \/ \E p \in Annexes :
       \/ Reset(p) \/ Detach(p) \/ Take(p)
       \/ \E t \in Nat : Absolute(p, t) \/ Relative(p, t)

Spec == Init /\ [][Next]_vars

-----------------------------------------------------------------------------
(* No request is forgotten: the decrementer always interrupts by the time  *)
(* of every request in the queue, or in the next tick when that has passed,*)
(* whatever requests, cancellations and quanta came in between.            *)
NoRequestForgotten ==
  \A p \in Annexes : reqWhen[p] # Never => hw <= Later(reqWhen[p], clock + 1)

(* The same of the end of the quantum. *)
QuantumEnds == dispatchTime # Never => hw <= Later(dispatchTime, clock + 1)

(* To an annex the queue looks as if it were alone on the processor: what  *)
(* becomes of its request is its own doing, or the interrupt of a request  *)
(* that is due or given up; and there is no other interrupt.               *)
Annex(p) == INSTANCE TimerRequest WITH req <- reqWhen[p], intr <- intr[p]

AnnexNext(p) ==
  \/ Annex(p)!Pop \/ Annex(p)!GiveUp
  \/ Reset(p) \/ Absolute(p, reqWhen'[p])
  \/ reqWhen'[p] = reqWhen[p] /\ intr'[p] \in {intr[p], FALSE}

AnnexServed == [][\A p \in Annexes : AnnexNext(p)]_vars

(* The inductive invariant: when is no later than anything the timer is to *)
(* do, or has passed, and the decrementer is set for when or is about to   *)
(* go off.                                                                 *)
IInv ==
  /\ TypeOK
  /\ when <= clock \/ (when <= dispatchTime /\ \A p \in Annexes : when <= reqWhen[p])
  /\ when # Never => hw <= when \/ hw <= clock + 1
=============================================================================
