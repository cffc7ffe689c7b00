--------------------------- MODULE SchedulerTimer ---------------------------
(***************************************************************************)
(* The timer of a dispatcher (SchedulerTimer) and its main clients,        *)
(* BlockWithTimeout and DelayUntil, whose events live on the stack of the  *)
(* waiting thread.  Events due in the bucket of the current time are on    *)
(* the immediate list, the earliest of them is the anchor; later ones are  *)
(* in a table of slots, one per bucket, which wraps around.                *)
(*                                                                         *)
(* disabledScheduleEvent and timerInterrupt run disabled, so they exclude  *)
(* each other; what comes between their steps is the clock and the kernel. *)
(* Lists are sets here: their order only settles ties.                     *)
(***************************************************************************)
EXTENDS TimerRequest

CONSTANTS
  Events,         \* a TimerEventDelay each, with its thread
  Delays,         \* those of DelayUntil; the others are of BlockWithTimeout
  BUCKET_TICKS, TABLE_SIZE,
  MaxClock,       \* bound on the clock
  MaxDelay,       \* bound on how far ahead an event is scheduled
  None

ASSUME Ticks == /\ {BUCKET_TICKS, TABLE_SIZE} \subseteq Nat \ {0}
                /\ {MaxClock, MaxDelay, Never} \subseteq Nat
ASSUME NoneIsNoEvent == None \notin Events

VARIABLES
  now, when,  \* estimate of the time; time of the next interrupt or bucket
  anchor,     \* the event next to go off, or None
  imm, table, \* events on the immediate list, events in the table
  ewhen,      \* ewhen[e]: the time of e
  run, old,   \* local variables runList and old of timerInterrupt
  at,         \* where the disabled code stands
  th, waiter  \* th[e]: where e's thread is; waiter[e]: e.waiter is not null

timerVars == <<now, when, anchor, imm, table, ewhen, run, old>>
vars == <<clock, req, intr, timerVars, at, th, waiter>>

bucketStart(t) == t - (t % BUCKET_TICKS)
bucketEnd(t) == bucketStart(t) + BUCKET_TICKS - 1
timeIndex(t) == (t \div BUCKET_TICKS) % TABLE_SIZE

TypeOK ==
  /\ clock \in 0 .. MaxClock /\ now \in 0 .. MaxClock
  /\ {req, when, old} \subseteq Nat /\ intr \in BOOLEAN
  /\ anchor \in imm \cup {None}
  /\ imm \subseteq Events /\ table \subseteq Events /\ run \subseteq Events
  /\ imm \cap table = {} /\ run \cap (imm \cup table) = {}
  /\ ewhen \in [Events -> 0 .. MaxClock + MaxDelay]
  /\ at \in {"idle", "request", "enable", "rearm", "loop", "adjust"}
  /\ th \in [Events -> {"out", "in", "reset"}]
  /\ waiter \in [Events -> BOOLEAN]

Init ==
  /\ clock = 0 /\ req = Never /\ intr = FALSE
  /\ now = 0 /\ when = Never /\ anchor = None
  /\ imm = {} /\ table = {} /\ run = {} /\ old = Never
  /\ ewhen = [e \in Events |-> 0]
  /\ at = "idle"
  /\ th = [e \in Events |-> "out"]
  /\ waiter = [e \in Events |-> FALSE]

-----------------------------------------------------------------------------
(* The clock and the kernel. *)

Tick ==
  /\ clock < MaxClock
  /\ clock' = clock + 1
  /\ UNCHANGED <<req, intr, timerVars, at, th, waiter>>

TimerPop ==
  /\ Pop
  /\ UNCHANGED <<timerVars, at, th, waiter>>

(* detachDispatcher: only a dispatcher that is not disabled is moved to    *)
(* another processor.                                                      *)
Detach ==
  /\ at = "idle" /\ GiveUp
  /\ UNCHANGED <<timerVars, at, th, waiter>>

-----------------------------------------------------------------------------
(* disabledScheduleEvent.                                                  *)

Pending == imm \cup table
Slot(i) == {e \in table : timeIndex(ewhen[e]) = i}
Earliest(S) == {e \in S : \A d \in S : ewhen[e] <= ewhen[d]}

(* The caller has set e.waiter; an event that is due already goes off at   *)
(* once.  scheduleEvent enables the dispatcher again afterwards.           *)
FireNow(e) ==
  /\ now' = clock
  /\ ewhen' = [ewhen EXCEPT ![e] = clock]
  /\ waiter' = [waiter EXCEPT ![e] = FALSE]
  /\ at' = "enable"
  /\ UNCHANGED <<when, anchor, imm, table>>

(* An event at w is the next to go off. *)
SoonerUnanchored(w) == anchor = None
Sooner(w) == anchor = None \/ ewhen[anchor] > w

(* Kind absolute with the estimate n of the time. *)
Insert(e, w, n) ==
  /\ now' = n
  /\ ewhen' = [ewhen EXCEPT ![e] = w]
  /\ waiter' = [waiter EXCEPT ![e] = TRUE]
  /\ IF w <= bucketEnd(n)
     THEN /\ imm' = imm \cup {e}
          /\ anchor' = IF Sooner(w) THEN e ELSE anchor
          /\ when' = IF Sooner(w) THEN w ELSE when
          /\ UNCHANGED table
     ELSE /\ table' = table \cup {e}
          /\ anchor' = IF w < when THEN None ELSE anchor
          /\ when' = IF w < when THEN bucketStart(w) ELSE when
          /\ UNCHANGED imm
  /\ at' = IF when' # when THEN "request" ELSE "enable"

(* BlockWithTimeout and DelayUntil up to Block.  Only the relative kind    *)
(* reads the clock; the absolute one goes by the old estimate.             *)
ScheduleRelative(e, d) ==
  /\ at = "idle" /\ th[e] = "out"
  /\ th' = [th EXCEPT ![e] = "in"]
  /\ IF d = 0 THEN FireNow(e) ELSE Insert(e, clock + d, clock)
  /\ UNCHANGED <<clock, req, intr, run, old>>

ScheduleAbsolute(e, w) ==
  /\ at = "idle" /\ th[e] = "out"
  /\ th' = [th EXCEPT ![e] = "in"]
  /\ IF w <= now THEN FireNow(e) ELSE Insert(e, w, now)
  /\ UNCHANGED <<clock, req, intr, run, old>>

(* The _TIMER_REQUEST that follows a change of when. *)
Request ==
  /\ at = "request"
  /\ TimerRequest(when)
  /\ now' = clock
  /\ at' = "enable"
  /\ UNCHANGED <<clock, intr, when, anchor, imm, table, ewhen, run, old, th, waiter>>

(* Enable delivers an interrupt that has come in the meantime. *)
Enable ==
  /\ at = "enable" /\ ~intr
  /\ at' = "idle"
  /\ UNCHANGED <<clock, req, intr, timerVars, th, waiter>>

(* The starts of the buckets after t, in the order of the search, up to    *)
(* the one with index last.                                                *)
Ahead(t, last) ==
  LET k == CHOOSE j \in 1 .. TABLE_SIZE : timeIndex(t + j * BUCKET_TICKS) = last
  IN {bucketStart(t + j * BUCKET_TICKS) : j \in 1 .. k}

First(S) == CHOOSE x \in S : \A y \in S : x <= y
Last(S) == CHOOSE x \in S : \A y \in S : x >= y

(* The next bucket with an event once e is gone; the search ends at e's    *)
(* own slot, without looking into it.                                      *)
BucketAfter(e) ==
  LET slots == Ahead(ewhen[e], timeIndex(ewhen[e]))
      full == {s \in slots \ {Last(slots)} : Slot(timeIndex(s)) # {}}
  IN IF full = {} THEN Never ELSE First(full)

(* Kind reset: e goes; if the timer was set for it, find the next one.     *)
Reset(e) ==
  LET rest == imm \ {e}
      emptied == e \in table /\ Slot(timeIndex(ewhen[e])) = {e}
  IN
  /\ at = "idle" /\ th[e] = "reset"
  /\ th' = [th EXCEPT ![e] = "out"]
  /\ waiter' = [waiter EXCEPT ![e] = FALSE]
  /\ ewhen' = [ewhen EXCEPT ![e] = 0]
  /\ imm' = rest
  /\ table' = table \ {e}
  /\ IF e = anchor
     THEN \/ rest = {} /\ anchor' = None /\ when' = BucketAfter(e)
          \/ \E a \in Earliest(rest) : anchor' = a /\ when' = ewhen[a]
     ELSE /\ anchor' = anchor
          /\ when' = IF emptied /\ when = bucketStart(ewhen[e]) /\ anchor = None
                     THEN BucketAfter(e) ELSE when
  /\ at' = IF when' # when THEN "request" ELSE "enable"
  /\ UNCHANGED <<clock, req, intr, now, run, old>>

(* The thread runs again: the timer has gone off, or somebody else has     *)
(* unblocked it, and then DelayUntil blocks again and BlockWithTimeout     *)
(* goes on to cancel.  An event whose function returns is no more.         *)
CheckLeavesEvent(e) ==
  /\ th[e] = "in" /\ at = "idle"
  /\ e \in Delays => ~waiter[e]
  /\ th' = [th EXCEPT ![e] = "out"]
  /\ UNCHANGED <<clock, req, intr, timerVars, at, waiter>>

Check(e) ==
  /\ th[e] = "in" /\ at = "idle"
  /\ e \in Delays => ~waiter[e]
  /\ th' = [th EXCEPT ![e] = IF waiter[e] THEN "reset" ELSE "out"]
  /\ ewhen' = [ewhen EXCEPT ![e] = IF waiter[e] THEN @ ELSE 0]
  /\ UNCHANGED <<clock, req, intr, now, when, anchor, imm, table, run, old, at, waiter>>

-----------------------------------------------------------------------------
(* timerInterrupt.  An interrupt that comes too early asks for the same    *)
(* time again; one that reads exactly when does nothing at all.            *)
TimerInterrupt ==
  /\ at \in {"idle", "enable"} /\ intr
  /\ intr' = FALSE
  /\ now' = clock
  /\ old' = when
  /\ at' = IF clock < when THEN "rearm" ELSE "loop"
  /\ UNCHANGED <<clock, req, when, anchor, imm, table, ewhen, run, th, waiter>>

(* The events in the slots of the buckets from old to now. *)
Swept == {e \in table : \E t \in old .. bucketEnd(now) : timeIndex(t) = timeIndex(ewhen[e])}

DueInBucket == imm \cup {e \in Swept : ewhen[e] <= bucketEnd(now)}
Due == {e \in imm : e = anchor \/ ewhen[e] <= now} \cup {e \in Swept : ewhen[e] <= now}

(* The next bucket with an event of S; without one the search ends at the  *)
(* slot of old, and says so only if that is also the slot of now.          *)
NextBucketBefore(S) ==
  LET slots == Ahead(now, timeIndex(old))
      full == {s \in slots \ {Last(slots)} : \E e \in S : timeIndex(ewhen[e]) = timeIndex(s)}
  IN IF full = {} THEN Never ELSE First(full)

NextBucket(S) ==
  LET slots == Ahead(now, timeIndex(old))
      full == {s \in slots : \E e \in S : timeIndex(ewhen[e]) = timeIndex(s)}
      next == IF full # {} THEN First(full) ELSE Last(slots)
  IN IF timeIndex(now) = timeIndex(next) /\ full = {} THEN Never ELSE next

(* One round of the loop: expired events go to runList, events of the      *)
(* buckets up to now to the immediate list (migrate), and the timer is set *)
(* for the earliest of these or for the next bucket with events.           *)
Loop ==
  LET soon == (imm \ Due) \cup {e \in Swept \ Due : ewhen[e] <= bucketEnd(now)}
      left == table \ (Due \cup soon)
  IN
  /\ at = "loop" /\ now > when
  /\ run' = run \cup Due
  /\ imm' = soon
  /\ table' = left
  /\ \/ soon = {} /\ anchor' = None /\ when' = NextBucket(left)
     \/ \E a \in Earliest(soon) : anchor' = a /\ when' = ewhen[a]
  /\ at' = IF when' # old THEN "adjust" ELSE "loop"
  /\ UNCHANGED <<clock, req, intr, now, ewhen, old, th, waiter>>

Adjust ==
  /\ at \in {"adjust", "rearm"}
  /\ TimerRequest(when)
  /\ now' = clock
  /\ at' = "loop"
  /\ UNCHANGED <<clock, intr, when, anchor, imm, table, ewhen, run, old, th, waiter>>

(* handleEvent of the expired events unblocks their threads. *)
RunExpired ==
  /\ at = "loop" /\ now <= when
  /\ waiter' = [e \in Events |-> waiter[e] /\ e \notin run]
  /\ run' = {}
  /\ at' = "enable"
  /\ UNCHANGED <<clock, req, intr, now, when, anchor, imm, table, ewhen, old, th>>

Next ==
  \/ Tick \/ TimerPop \/ Detach \/ Request \/ Enable
  \/ TimerInterrupt \/ Loop \/ Adjust \/ RunExpired
  \/ \E e \in Events :
       \/ Check(e) \/ Reset(e)
       \/ \E d \in 0 .. MaxDelay : ScheduleRelative(e, d) \/ ScheduleAbsolute(e, clock + d)

Spec == Init /\ [][Next]_vars

-----------------------------------------------------------------------------
(* A thread is told of a timeout only when the time has come. *)
NotEarly ==
  \A e \in Events : e \in run \/ (th[e] # "out" /\ ~waiter[e]) => ewhen[e] <= clock

(* The settings the assertions call for ("bad timer setting"): the anchor  *)
(* is the earliest event of the immediate list and the timer is set for    *)
(* it; without one the timer is off or set for the start of a bucket.      *)
TimerSetting ==
  /\ imm # {} => anchor \in Earliest(imm)
  /\ at \in {"idle", "enable"} => IF anchor # None THEN when = ewhen[anchor]
                                  ELSE when = Never \/ when = bucketStart(when)

(* No event stays behind on a list when the function whose stack it is on  *)
(* has returned, and none is waited for that is on no list.                *)
EventOnLiveStack ==
  \A e \in Events : (th[e] # "out" /\ waiter[e]) <=> e \in Pending \cup run

(* Every round of timerInterrupt's loop, that is, every time it finds when *)
(* past, leaves when after now, and no later than any event that is still  *)
(* to come.  An event that is overdue and that the round has passed over   *)
(* in the table is looked at again before one turn of the table is over.   *)
(* So the timer is turned off only without an event ("Existing event, no   *)
(* timer").                                                                *)
InterruptFindsNext ==
  [][Loop => \A e \in Pending' :
       /\ now < when'
       /\ when' <= IF ewhen[e] > now THEN ewhen[e]
                   ELSE bucketStart(now + (TABLE_SIZE - 1) * BUCKET_TICKS)]_vars

(* "When the time is reached, the function specified is run": the timer is *)
(* never off while an event is pending.                                    *)
TimerNotLost == Pending # {} /\ at = "idle" => when # Never

(* More than TimerNotLost, and false as well: the kernel has a request of  *)
(* the dispatcher, or an interrupt is under way, while an event is         *)
(* pending.  An interrupt that reads exactly when has used up the request. *)
RequestOutstanding == Pending # {} /\ at = "idle" => req # Never \/ intr

(* The inductive invariant: the immediate list holds only events of the    *)
(* bucket of now or earlier, so that an event for the table never comes    *)
(* before the anchor; and when timerInterrupt sorts the events, what it    *)
(* sweeps begins no later than now.                                        *)
IInv ==
  /\ TypeOK /\ NotEarly /\ EventOnLiveStack
  /\ imm # {} => anchor \in Earliest(imm)
  /\ IF anchor # None THEN when = ewhen[anchor]
                      ELSE when = Never \/ when = bucketStart(when)
  /\ \A e \in imm : ewhen[e] <= bucketEnd(now)
  /\ now <= clock
  /\ run # {} => at \in {"loop", "adjust"}
  /\ at = "loop" /\ now > when => old <= now
  /\ at = "adjust" => old <= now
  /\ at = "rearm" => old = when
=============================================================================
