------------------------ MODULE RequestCountWithStop ------------------------
(***************************************************************************)
(* lib/libc/sync/RequestCount.{H,C}, class RequestCountWithStop: a         *)
(* RequestCount that can also be stopped for a while.  stop() does the     *)
(* shutdown logic under a lock and returns holding it; a refused enter()   *)
(* queues on the lock and tries again after restart().  The kernel's       *)
(* regions, VP lists and DHashTable all guard themselves with this class.  *)
(*                                                                         *)
(* leave() and the atomic steps of the closing protocol are inherited from *)
(* RequestCount; the lock is a BLock (FairBLock.tla), here a mutex that is *)
(* granted fairly.                                                         *)
(***************************************************************************)
EXTENDS RequestCount

CONSTANT MaxClosings  \* bound on the calls of stop() and shutdown()

ASSUME MaxClosingsNat == MaxClosings \in Nat

VARIABLES lock,     \* holder of the BLock, or NullThread
          retry,    \* retry[t]: the leave() of t undoes a refused enter()
          kind,     \* which of stop() and shutdown() t is executing
          closings, \* calls of stop() and shutdown() so far
          stale,    \* history: the threads that a restart() caught in leave()
                    \* between the last subtraction and the swap
          robbed    \* history: the closers whose shutdownThread was taken by
                    \* such a thread

history  == <<closings, stale, robbed>>
stopVars == <<vars, lock, retry, kind, history>>

StopInit ==
  /\ Init
  /\ lock = NullThread
  /\ retry = [t \in Threads |-> FALSE]
  /\ kind = [t \in Threads |-> "none"]
  /\ closings = 0 /\ stale = {} /\ robbed = {}

-----------------------------------------------------------------------------
(* enter(), whose loop comes back to label "again".                         *)
StopEnter(t) ==
  /\ \E label \in {"idle", "again"} : EnterFrom(t, label)
  /\ retry' = [retry EXCEPT ![t] = requests < 0]
  /\ UNCHANGED <<lock, kind, history>>

Ret(t) == IF retry[t] THEN "enterLock" ELSE "idle"

StopLeave(t) ==
  /\ LeaveSubtract(t, Ret(t)) \/ LeaveSwap(t, Ret(t)) \/ LeaveUnblock(t, Ret(t))
  /\ robbed' = IF t \in stale THEN robbed \cup ({shutdownThread} \ {NullThread}) ELSE robbed
  /\ stale' = stale \ {t}
  /\ UNCHANGED <<lock, retry, kind, closings>>

AcquireLock(t, from, to) ==
  /\ pc[t] = from
  /\ lock = NullThread
  /\ lock' = t
  /\ Goto(t, to)
  /\ UNCHANGED <<requests, shutdownThread, id, wasUnblocked, retry, kind, history>>

EnterAcquire(t) == AcquireLock(t, "enterLock", "enterCheck")

\* Mutant: goes back for the lock instead of trying to enter again.
EnterCheckLoops(t) ==
  /\ pc[t] = "enterCheck"
  /\ Goto(t, IF requests < 0 THEN "idle" ELSE "enterLock")
  /\ lock' = NullThread
  /\ UNCHANGED <<requests, shutdownThread, id, wasUnblocked, retry, kind, history>>

\* Negative while the lock is held means shut down; otherwise try again.
EnterCheck(t) ==
  /\ pc[t] = "enterCheck"
  /\ Goto(t, IF requests < 0 THEN "idle" ELSE "again")
  /\ lock' = NullThread
  /\ retry' = [retry EXCEPT ![t] = FALSE]
  /\ UNCHANGED <<requests, shutdownThread, id, wasUnblocked, kind, history>>

-----------------------------------------------------------------------------
(* stop() and shutdown() run the same steps under the lock.                 *)
CloseCall(t, k) ==
  /\ t \in Destroyers
  /\ closings < MaxClosings
  /\ pc[t] = "idle"
  /\ Goto(t, "closeLock")
  /\ kind' = [kind EXCEPT ![t] = k]
  /\ closings' = closings + 1
  /\ robbed' = robbed \ {t}
  /\ UNCHANGED <<requests, shutdownThread, id, wasUnblocked, lock, retry, stale>>

CloseAcquire(t) == AcquireLock(t, "closeLock", "sdReadRequests")

\* Finding a closing in progress releases the lock and returns.  With the
\* lock held that is only ever found in the count, so nobody gets FalseWin.
CloseTry(t) ==
  /\ ShutdownReadRequests(t) \/ ShutdownReadThread(t) \/ ShutdownMark(t)
  /\ lock' = IF pc'[t] \in {"lost", FalseWin} THEN NullThread ELSE lock
  /\ UNCHANGED <<retry, kind, history>>

\* Mutant: stop() too releases the lock.
CloseSubtractRelease(t) ==
  /\ ShutdownSubtract(t)
  /\ lock' = NullThread
  /\ UNCHANGED <<retry, kind, history>>

\* shutdown() releases the lock as soon as the count is negative; stop()
\* keeps it until restart().
CloseSubtract(t) ==
  /\ ShutdownSubtract(t)
  /\ lock' = IF kind[t] = "shutdown" THEN NullThread ELSE lock
  /\ UNCHANGED <<retry, kind, history>>

CloseFinish(t) ==
  /\ ShutdownClear(t) \/ ShutdownWait(t) \/ ShutdownBlock(t)
  /\ UNCHANGED <<lock, retry, kind, history>>

CloseLost(t) ==
  /\ ShutdownLost(t)
  /\ kind' = [kind EXCEPT ![t] = "none"]
  /\ UNCHANGED <<lock, retry, history>>

(* restart(), by the thread whose stop() returned 0.                        *)
RestartAdd(t) ==
  /\ pc[t] = "won" /\ kind[t] = "stop"
  /\ requests' = requests + N
  /\ Goto(t, "restartRelease")
  /\ stale' = stale \cup At({"leaveSwap"})
  /\ UNCHANGED <<shutdownThread, id, wasUnblocked, lock, retry, kind, closings, robbed>>

RestartRelease(t) ==
  /\ pc[t] = "restartRelease"
  /\ lock' = NullThread
  /\ Goto(t, "idle")
  /\ kind' = [kind EXCEPT ![t] = "none"]
  /\ UNCHANGED <<requests, shutdownThread, id, wasUnblocked, retry, history>>

-----------------------------------------------------------------------------
Progress(t) ==
  \/ StopLeave(t) \/ EnterCheck(t) \/ CloseTry(t) \/ CloseSubtract(t)
  \/ CloseFinish(t) \/ CloseLost(t) \/ RestartAdd(t) \/ RestartRelease(t)
  \/ pc[t] = "again" /\ StopEnter(t)

StopNext ==
  \E t \in Threads :
    \/ StopEnter(t) \/ EnterAcquire(t) \/ CloseAcquire(t) \/ Progress(t)
    \/ \E k \in {"stop", "shutdown"} : CloseCall(t, k)

(* Threads inside an operation run, users leave, a stopper restarts, and    *)
(* the BLock is first-come first-served (FairBLock!QueuedGetsLock).         *)
StopFairness ==
  \A t \in Threads : /\ WF_stopVars(Progress(t))
                     /\ SF_stopVars(EnterAcquire(t))
                     /\ SF_stopVars(CloseAcquire(t))

StopSpec == StopInit /\ [][StopNext]_stopVars /\ StopFairness
-----------------------------------------------------------------------------
StopTypeOK ==
  /\ requests \in Int
  /\ shutdownThread \in Threads \cup {NullThread}
  /\ pc \in [Threads -> PCs \cup {"enterLock", "enterCheck", "again", "closeLock",
                                  "restartRelease"}]
  /\ lock \in Threads \cup {NullThread}
  /\ retry \in [Threads -> BOOLEAN]
  /\ kind \in [Threads -> {"none", "stop", "shutdown"}]
  /\ closings \in 0..MaxClosings
  /\ stale \subseteq Threads /\ robbed \subseteq Threads

(* RequestCount.H:115 "Only one stop or shutdown may be in progress", to    *)
(* the end of the life of a shut-down object.                               *)
OneCloser == \A t, u \in At(ClosingPCs) : t = u

(* RequestCount.C:157: restart never finds a waiting shutdownThread.        *)
RestartFindsNoWaiter ==
  \A t \in At({"won"}) : kind[t] = "stop" => shutdownThread = NullThread /\ lock = t

(* RequestCount.H:184-185: when stop returns 0 "the lock is held and all    *)
(* requests are either blocked in enter or finished"; and the same for a    *)
(* shutdown that returns 0.                                                 *)
CloserSeesNoUse == At({"won"}) # {} => At({Using}) = {}

(* ... which every closer can count on, the first or a later one, unless    *)
(* its own mark was taken by a leave() that an earlier restart() had caught *)
(* between its subtraction and its swap.                                    *)
UnrobbedCloserSeesNoUse ==
  \A t \in At({"won"}) : t \notin robbed => At({Using}) = {}

(* A request refused during a stop is not lost: it gets in after restart(), *)
(* or learns of a shutdown.                                                 *)
RefusedEnterResolves ==
  \A t \in Threads : pc[t] = "enterLock" ~> pc[t] \in {Using, "idle"}

(* stop() and shutdown() return once refused calls cease.                   *)
CloseReturns ==
  RefusalsCease
    => \A t \in Threads : pc[t] = "closeLock" ~> pc[t] \in {"won", "lost"}
=============================================================================
