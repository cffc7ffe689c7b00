---------------------------- MODULE RequestCount ----------------------------
(***************************************************************************)
(* lib/libc/sync/RequestCount.{H,C}: the counter that guards an object's   *)
(* destruction.  Users bracket each use with enter() and leave(); the one  *)
(* caller of shutdown() that wins blocks until the uses in flight are      *)
(* finished, after which no enter() succeeds.                              *)
(*                                                                         *)
(* Each atomic memory operation of the code (FetchAndAddSigned,            *)
(* CompareAndStore, Swap, FetchAndNop) is one step, so any interleaving of *)
(* the threads between two of them is a behaviour.                         *)
(***************************************************************************)
EXTENDS Integers, FiniteSets

CONSTANTS Threads,     \* the threads that use the object
          Destroyers,  \* those among them that may call shutdown()
          NullThread,  \* Scheduler::NullThreadID
          N            \* LONG_MAX/2, "larger than any possible number of
                       \* outstanding requests"

ASSUME ThreadsFinite == IsFiniteSet(Threads)
ASSUME DestroyersAreThreads == Destroyers \subseteq Threads
ASSUME NullIsNoThread == NullThread \notin Threads
ASSUME NIsHuge == N \in Nat /\ N > Cardinality(Threads) + 1

VARIABLES requests,       \* uses in flight, minus N once shut down
          shutdownThread, \* the thread doing the shutdown, or NullThread
          pc,             \* where each thread is in the code
          id,             \* leave()'s local: the thread it will unblock,
                          \* NullThread when dead
          wasUnblocked    \* Thread::wasUnblocked, the scheduler's memory of
                          \* an Unblock that no Block has consumed

vars == <<requests, shutdownThread, pc, id, wasUnblocked>>

-----------------------------------------------------------------------------
(* The program counters of the three operations. *)

\* Counted in requests: a use in progress, or a failed enter() that has yet
\* to take back its increment.
Using   == "using"
Failed  == "failed"
Counted == {Using, Failed}

LeavePCs    == {"leaveSwap", "leaveUnblock"}
TryPCs      == {"sdReadRequests", "sdReadThread", "sdReadThread0", "sdMark",
                "sdSubtract"}
ClosingPCs  == {"sdClear", "sdWait", "sdBlock", "won"}

\* shutdown() has returned 0 without closing the object; see ShutdownReadThread.
FalseWin == "falseWin"

PCs == {"idle", "lost", FalseWin} \cup Counted \cup LeavePCs \cup TryPCs \cup ClosingPCs

Goto(t, label) == pc' = [pc EXCEPT ![t] = label]

Init ==
  /\ requests = 0
  /\ shutdownThread = NullThread
  /\ pc = [t \in Threads |-> "idle"]
  /\ id = [t \in Threads |-> NullThread]
  /\ wasUnblocked = [t \in Threads |-> FALSE]

-----------------------------------------------------------------------------
\* Mutant: a refused enter() does not call leave().
EnterNoUndo(t, label) ==
  /\ pc[t] = label
  /\ requests' = requests + 1
  /\ Goto(t, IF requests < 0 THEN "idle" ELSE Using)
  /\ UNCHANGED <<shutdownThread, id, wasUnblocked>>

(* enter(): add one; a negative count means a shutdown, so undo by leave(). *)
EnterFrom(t, label) ==
  /\ pc[t] = label
  /\ requests' = requests + 1
  /\ Goto(t, IF requests < 0 THEN Failed ELSE Using)
  /\ UNCHANGED <<shutdownThread, id, wasUnblocked>>

Enter(t) == EnterFrom(t, "idle")

\* Mutant: the value before last is taken for the last.
NextToLastOut(v) == v = 2 - N

(* leave(): subtract one.  The fetched value -N+1 is the last use to finish *)
(* under a shutdown; any other value ends the call.                         *)
LastOut(v) == v = 1 - N

LeaveSubtract(t, retLabel) ==
  /\ pc[t] \in Counted
  /\ requests' = requests - 1
  /\ Goto(t, IF LastOut(requests) THEN "leaveSwap" ELSE retLabel)
  /\ UNCHANGED <<shutdownThread, id, wasUnblocked>>

\* Mutant: the shutdown thread is not unblocked.
LeaveSwapSilent(t, retLabel) ==
  /\ pc[t] = "leaveSwap"
  /\ shutdownThread' = NullThread
  /\ Goto(t, retLabel)
  /\ UNCHANGED <<requests, id, wasUnblocked>>

LeaveSwap(t, retLabel) ==
  /\ pc[t] = "leaveSwap"
  /\ id' = [id EXCEPT ![t] = shutdownThread]
  /\ shutdownThread' = NullThread
  /\ Goto(t, IF shutdownThread = NullThread THEN retLabel ELSE "leaveUnblock")
  /\ UNCHANGED <<requests, wasUnblocked>>

LeaveUnblock(t, retLabel) ==
  /\ pc[t] = "leaveUnblock"
  /\ wasUnblocked' = [wasUnblocked EXCEPT ![id[t]] = TRUE]
  /\ id' = [id EXCEPT ![t] = NullThread]
  /\ Goto(t, retLabel)
  /\ UNCHANGED <<requests, shutdownThread>>

Leave(t) ==
  \/ LeaveSubtract(t, "idle")
  \/ LeaveSwap(t, "idle")
  \/ LeaveUnblock(t, "idle")

-----------------------------------------------------------------------------
(* shutdown(): look for a shutdown in progress, claim shutdownThread, take  *)
(* N off the count, and wait for the uses that were in flight.              *)
ShutdownCall(t) ==
  /\ t \in Destroyers
  /\ pc[t] = "idle"
  /\ Goto(t, "sdReadRequests")
  /\ UNCHANGED <<requests, shutdownThread, id, wasUnblocked>>

\* Of the count it reads, r, what matters later is whether it is 0: label
\* sdReadThread0.
ShutdownReadRequests(t) ==
  /\ pc[t] = "sdReadRequests"
  /\ Goto(t, IF requests < 0 THEN "lost"
             ELSE IF requests = 0 THEN "sdReadThread0" ELSE "sdReadThread")
  /\ UNCHANGED <<requests, shutdownThread, id, wasUnblocked>>

\* "someone already shutting down": the call returns r, and so tells its
\* caller that it won when r is 0.
ShutdownReadThread(t) ==
  /\ pc[t] \in {"sdReadThread", "sdReadThread0"}
  /\ Goto(t, IF shutdownThread = NullThread THEN "sdMark"
             ELSE IF pc[t] = "sdReadThread0" THEN FalseWin ELSE "lost")
  /\ UNCHANGED <<requests, shutdownThread, id, wasUnblocked>>

\* Mutant: the sense of the compare-and-store is inverted.
ShutdownMarkInverted(t) ==
  /\ pc[t] = "sdMark"
  /\ IF shutdownThread # NullThread
     THEN shutdownThread' = t /\ Goto(t, "sdSubtract")
     ELSE Goto(t, "sdReadRequests") /\ UNCHANGED shutdownThread
  /\ UNCHANGED <<requests, id, wasUnblocked>>

ShutdownMark(t) ==
  /\ pc[t] = "sdMark"
  /\ IF shutdownThread = NullThread
     THEN shutdownThread' = t /\ Goto(t, "sdSubtract")
     ELSE Goto(t, "sdReadRequests") /\ UNCHANGED shutdownThread
  /\ UNCHANGED <<requests, id, wasUnblocked>>

\* Mutant: one use in flight is not waited for.
ShutdownSubtractOffByOne(t) ==
  /\ pc[t] = "sdSubtract"
  /\ requests' = requests - N
  /\ Goto(t, IF requests <= 1 THEN "sdClear" ELSE "sdWait")
  /\ UNCHANGED <<shutdownThread, id, wasUnblocked>>

ShutdownSubtract(t) ==
  /\ pc[t] = "sdSubtract"
  /\ requests' = requests - N
  /\ Goto(t, IF requests = 0 THEN "sdClear" ELSE "sdWait")
  /\ UNCHANGED <<shutdownThread, id, wasUnblocked>>

ShutdownClear(t) ==
  /\ pc[t] = "sdClear"
  /\ shutdownThread' = NullThread
  /\ Goto(t, "won")
  /\ UNCHANGED <<requests, id, wasUnblocked>>

ShutdownWait(t) ==
  /\ pc[t] = "sdWait"
  /\ Goto(t, IF shutdownThread = NullThread THEN "won" ELSE "sdBlock")
  /\ UNCHANGED <<requests, shutdownThread, id, wasUnblocked>>

\* Scheduler::Block() returns once an Unblock has been remembered.
ShutdownBlock(t) ==
  /\ pc[t] = "sdBlock"
  /\ wasUnblocked[t]
  /\ wasUnblocked' = [wasUnblocked EXCEPT ![t] = FALSE]
  /\ Goto(t, "sdWait")
  /\ UNCHANGED <<requests, shutdownThread, id>>

\* A caller that did not win is told so and goes on with its work.
ShutdownLost(t) ==
  /\ pc[t] = "lost"
  /\ Goto(t, "idle")
  /\ UNCHANGED <<requests, shutdownThread, id, wasUnblocked>>

Shutdown(t) ==
  \/ ShutdownReadRequests(t) \/ ShutdownReadThread(t) \/ ShutdownMark(t)
  \/ ShutdownSubtract(t) \/ ShutdownClear(t)
  \/ ShutdownWait(t) \/ ShutdownBlock(t) \/ ShutdownLost(t)

Next == \E t \in Threads : Enter(t) \/ Leave(t) \/ ShutdownCall(t) \/ Shutdown(t)

(* A thread inside an operation keeps running, and a user that entered      *)
(* leaves; nothing obliges an idle thread to call anything.                 *)
Fairness == \A t \in Threads : WF_vars(Leave(t)) /\ WF_vars(Shutdown(t))

Spec == Init /\ [][Next]_vars /\ Fairness

-----------------------------------------------------------------------------
TypeOK ==
  /\ requests \in Int
  /\ shutdownThread \in Threads \cup {NullThread}
  /\ pc \in [Threads -> PCs]
  /\ id \in [Threads -> Threads \cup {NullThread}]
  /\ wasUnblocked \in [Threads -> BOOLEAN]

At(labels) == {t \in Threads : pc[t] \in labels}

(* A shutdown() that took N off the count returns 0 only when no use is in  *)
(* flight and none can begin: the enclosing object may be freed.            *)
WinnerSeesNoUse == At({"won"}) # {} => At({Using}) = {} /\ requests < 0

(* RequestCount.H:102-105 promises this to every caller that gets 0.  It is *)
(* false: a second shutdown() that reads the count as 0 and then finds      *)
(* shutdownThread set returns that 0, while enter() still succeeds.         *)
ZeroSeesNoUse ==
  At({"won", FalseWin}) # {} => At({Using}) = {} /\ requests < 0

(* The count is the number of threads inside an operation, less N for each  *)
(* shutdown() that subtracted it: the header's four states, and its claim   *)
(* that a shut-down count never becomes non-negative again.                 *)
CountExact ==
  requests = Cardinality(At(Counted)) - N * Cardinality(At(ClosingPCs))

(* shutdownThread is not cleared, nor is its thread woken, while a use that *)
(* began before the shutdown is still in flight.                            *)
NoEarlyWakeup ==
  At(LeavePCs) # {} \/ (At(ClosingPCs) # {} /\ shutdownThread = NullThread)
    => At({Using}) = {}

\* Refused enter() calls cease.  Two callers that overlap their refused calls
\* for ever keep the count from ever being fetched as 1-N.
RefusalsCease == <>[](At({Failed}) = {})

(* RequestCount.H:102-105: every shutdown() returns, for the winner "when   *)
(* shutdown is complete" and for the others at once.                        *)
ShutdownReturns ==
  RefusalsCease
    => \A t \in Threads : pc[t] = "sdReadRequests" ~> pc[t] \in {"won", "lost", FalseWin}

(* The same where only one caller ever takes N off the count: the last      *)
(* leave() finds the thread to wake, even when it runs before that thread   *)
(* blocks.                                                                  *)
OnlyShutdownReturns ==
  [](Cardinality(At(ClosingPCs)) <= 1) => ShutdownReturns
=============================================================================
