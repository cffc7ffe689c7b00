---------------------------- MODULE CountProofs -----------------------------
(***************************************************************************)
(* Proofs about the objects that count their users: RequestCount and       *)
(* RequestCountWithStop, and the counters of ActiveThrdCnt, an instance    *)
(* (Cnt) over variables of its own, for any number of threads.             *)
(***************************************************************************)
EXTENDS RequestCountWithStop, FiniteSetTheorems, TLAPS

(***************************************************************************)
(* Proofs about RequestCount for any number of threads, any set of         *)
(* destroyers and any N above the number of threads.                       *)
(*                                                                         *)
(* The count alone does not give WinnerSeesNoUse: a winner returns because *)
(* shutdownThread was cleared, so the invariant must say that whoever      *)
(* clears it does so after the last use.  Quiet says it for every place    *)
(* from which it can be cleared, MarkStands that no one else clears it     *)
(* before the subtraction, and CountExact turns the one fetched value 1-N  *)
(* into "I was the only one counted".                                      *)
(***************************************************************************)

Closed == At(ClosingPCs) # {}

Quiet ==
  (At(LeavePCs \cup {"sdClear", "won"}) # {} \/ (Closed /\ shutdownThread = NullThread))
    => At({Using}) = {}

LeavingIsClosed == At(LeavePCs) # {} => Closed

MarkStands ==
  \A t \in Threads : pc[t] = "sdSubtract" /\ ~Closed => shutdownThread = t

IInv == TypeOK /\ CountExact /\ Quiet /\ LeavingIsClosed /\ MarkStands

-----------------------------------------------------------------------------
(* Moving one thread's pc moves that thread, and no other, between the sets *)
(* At(L).                                                                   *)
LEMMA AtMoves ==
  ASSUME DOMAIN pc = Threads, NEW t \in Threads, NEW label, NEW L, Goto(t, label)
  PROVE  At(L)' = IF label \in L THEN At(L) \cup {t} ELSE At(L) \ {t}
BY DEF Goto, At

LEMMA AtStays ==
  ASSUME DOMAIN pc = Threads, NEW t \in Threads, NEW label, NEW L, Goto(t, label),
         pc[t] \in L <=> label \in L
  PROVE  At(L)' = At(L)
<1>1. At(L)' = IF label \in L THEN At(L) \cup {t} ELSE At(L) \ {t}
  BY AtMoves
<1> QED
  BY <1>1 DEF At

(* The counted sets are finite, so their cardinalities are naturals no      *)
(* larger than the number of threads.                                       *)
LEMMA AtFinite ==
  ASSUME NEW L
  PROVE  /\ IsFiniteSet(At(L))
         /\ Cardinality(At(L)) \in Nat
         /\ Cardinality(At(L)) <= Cardinality(Threads)
         /\ At(L) = {} <=> Cardinality(At(L)) = 0
<1>1. At(L) \subseteq Threads
  BY DEF At
<1>2. IsFiniteSet(At(L)) /\ Cardinality(At(L)) <= Cardinality(Threads)
  BY <1>1, FS_Subset, ThreadsFinite
<1> QED
  BY <1>2, FS_CardinalityType, FS_EmptySet

(* How one step changes the size of At(L).                                  *)
LEMMA CardMoves ==
  ASSUME DOMAIN pc = Threads, NEW t \in Threads, NEW label, NEW L, Goto(t, label)
  PROVE  /\ pc[t] \in L /\ label \notin L
              => Cardinality(At(L))' = Cardinality(At(L)) - 1
         /\ pc[t] \notin L /\ label \in L
              => Cardinality(At(L))' = Cardinality(At(L)) + 1
         /\ (pc[t] \in L <=> label \in L)
              => Cardinality(At(L))' = Cardinality(At(L))
<1>1. At(L)' = IF label \in L THEN At(L) \cup {t} ELSE At(L) \ {t}
  BY AtMoves
<1>2. pc[t] \in L <=> t \in At(L)
  BY DEF At
<1>3. IsFiniteSet(At(L)) /\ Cardinality(At(L)) \in Nat
  BY AtFinite
<1>4. Cardinality(At(L) \cup {t})
        = IF t \in At(L) THEN Cardinality(At(L)) ELSE Cardinality(At(L)) + 1
  BY <1>3, FS_AddElement, Zenon
<1>5. Cardinality(At(L) \ {t})
        = IF t \in At(L) THEN Cardinality(At(L)) - 1 ELSE Cardinality(At(L))
  BY <1>3, FS_RemoveElement, SMTT(30), Z3
<1> QED
  BY <1>1, <1>2, <1>4, <1>5

(* The sign of the count tells whether a shutdown has subtracted N, and the *)
(* value 1-N that leave() looks for is fetched only by a thread that is     *)
(* alone in the count.                                                      *)
LEMMA CountTells ==
  ASSUME CountExact
  PROVE  /\ requests < 0 <=> Closed
         /\ requests = 0 => At(Counted) = {}
         /\ LastOut(requests) => Closed /\ Cardinality(At(Counted)) = 1
<1> DEFINE C == Cardinality(At(Counted))
           K == Cardinality(At(ClosingPCs))
<1>1. C \in Nat /\ C <= Cardinality(Threads) /\ (At(Counted) = {} <=> C = 0)
  BY AtFinite
<1>2. K \in Nat /\ (Closed <=> K # 0)
  BY AtFinite DEF Closed
<1>3. N \in Nat /\ C + 1 < N
  BY <1>1, NIsHuge, FS_CardinalityType, ThreadsFinite
<1>4. requests = C - N * K
  BY DEF CountExact
<1>5. CASE K = 0
  BY <1>1, <1>2, <1>3, <1>4, <1>5 DEF LastOut
<1>6. CASE K = 1
  BY <1>1, <1>2, <1>3, <1>4, <1>6 DEF LastOut
<1>7. CASE K > 1
  <2>1. N * K >= N * 2
    BY <1>2, <1>3, <1>7
  <2>2. requests < -N
    BY <1>1, <1>3, <1>4, <2>1, <1>2
  <2> QED
    BY <1>1, <1>2, <1>3, <1>7, <2>2, <1>4 DEF LastOut
<1> QED
  BY <1>2, <1>5, <1>6, <1>7

-----------------------------------------------------------------------------
LEMMA InitIInv == Init => IInv
<1> SUFFICES ASSUME Init PROVE IInv
  OBVIOUS
<1>1. \A L : "idle" \notin L => At(L) = {}
  BY DEF Init, At
<1>2. "idle" \notin Counted /\ "idle" \notin ClosingPCs
  BY DEF Counted, ClosingPCs, Using, Failed
<1>3. TypeOK
  BY DEF Init, TypeOK, PCs
<1>4. CountExact
  <2>1. Cardinality(At(Counted)) = 0 /\ Cardinality(At(ClosingPCs)) = 0
    BY <1>1, <1>2, FS_EmptySet
  <2> QED
    BY <2>1, NIsHuge DEF CountExact, Init
<1>5. Quiet /\ LeavingIsClosed /\ MarkStands
  BY DEF Init, Quiet, LeavingIsClosed, MarkStands, At, Using, LeavePCs
<1> QED
  BY <1>3, <1>4, <1>5 DEF IInv

LEMMA TypeStep == TypeOK /\ [Next]_vars => TypeOK'
<1> SUFFICES ASSUME TypeOK, [Next]_vars PROVE TypeOK'
  OBVIOUS
<1> USE DEF TypeOK, Goto, PCs, Counted, LeavePCs, TryPCs, ClosingPCs, Using, Failed,
            FalseWin
<1>0. N \in Nat
  BY NIsHuge
<1>1. ASSUME NEW t \in Threads, Enter(t) PROVE TypeOK'
  BY <1>1 DEF Enter, EnterFrom
<1>2. ASSUME NEW t \in Threads, Leave(t) PROVE TypeOK'
  <2>1. CASE LeaveSubtract(t, "idle")
    BY <2>1 DEF LeaveSubtract
  <2>2. CASE LeaveSwap(t, "idle")
    BY <2>2 DEF LeaveSwap
  <2>3. CASE LeaveUnblock(t, "idle")
    BY <2>3, Zenon DEF LeaveUnblock
  <2> QED
    BY <1>2, <2>1, <2>2, <2>3 DEF Leave
<1>3. ASSUME NEW t \in Threads, ShutdownCall(t) PROVE TypeOK'
  BY <1>3 DEF ShutdownCall
<1>4. ASSUME NEW t \in Threads, Shutdown(t) PROVE TypeOK'
  <2>1. CASE ShutdownReadRequests(t) \/ ShutdownReadThread(t) \/ ShutdownMark(t)
    BY <2>1 DEF ShutdownReadRequests, ShutdownReadThread, ShutdownMark
  <2>2. CASE ShutdownSubtract(t)
    BY <2>2, <1>0 DEF ShutdownSubtract
  <2>3. CASE ShutdownClear(t) \/ ShutdownWait(t) \/ ShutdownBlock(t) \/ ShutdownLost(t)
    BY <2>3, Zenon DEF ShutdownClear, ShutdownWait, ShutdownBlock, ShutdownLost
  <2> QED
    BY <1>4, <2>1, <2>2, <2>3 DEF Shutdown
<1>5. CASE UNCHANGED vars
  BY <1>5 DEF vars
<1> QED
  BY <1>1, <1>2, <1>3, <1>4, <1>5 DEF Next

-----------------------------------------------------------------------------
(* A step that leaves the count alone and moves a thread between places     *)
(* that are not counted keeps the count exact; so does one that moves both. *)
LEMMA CountStep ==
  ASSUME DOMAIN pc = Threads, CountExact, NEW t \in Threads, NEW label, Goto(t, label),
         \/ /\ requests' = requests
            /\ pc[t] \in Counted <=> label \in Counted
            /\ pc[t] \in ClosingPCs <=> label \in ClosingPCs
         \/ /\ requests' = requests + 1
            /\ pc[t] \notin Counted /\ label \in Counted
            /\ pc[t] \in ClosingPCs <=> label \in ClosingPCs
         \/ /\ requests' = requests - 1
            /\ pc[t] \in Counted /\ label \notin Counted
            /\ pc[t] \in ClosingPCs <=> label \in ClosingPCs
         \/ /\ requests' = requests - N
            /\ pc[t] \in Counted <=> label \in Counted
            /\ pc[t] \notin ClosingPCs /\ label \in ClosingPCs
         \/ /\ requests' = requests + N
            /\ pc[t] \in Counted <=> label \in Counted
            /\ pc[t] \in ClosingPCs /\ label \notin ClosingPCs
  PROVE  CountExact'
<1> DEFINE C == Cardinality(At(Counted))
           K == Cardinality(At(ClosingPCs))
<1>1. C \in Nat /\ K \in Nat /\ N \in Nat /\ requests = C - N * K
  BY AtFinite, NIsHuge DEF CountExact
<1>2. CountExact' <=> requests' = C' - N * K'
  BY DEF CountExact
<1>3. /\ pc[t] \in Counted /\ label \notin Counted => C' = C - 1
      /\ pc[t] \notin Counted /\ label \in Counted => C' = C + 1
      /\ (pc[t] \in Counted <=> label \in Counted) => C' = C
  BY CardMoves
<1>4. /\ pc[t] \notin ClosingPCs /\ label \in ClosingPCs => K' = K + 1
      /\ pc[t] \in ClosingPCs /\ label \notin ClosingPCs => K' = K - 1
      /\ (pc[t] \in ClosingPCs <=> label \in ClosingPCs) => K' = K
  BY CardMoves
<1>5. N * (K + 1) = N * K + N /\ N * (K - 1) = N * K - N
  BY <1>1
<1> HIDE DEF C, K
<1> QED
  BY <1>1, <1>2, <1>3, <1>4, <1>5

LEMMA EnterStep ==
  ASSUME IInv, NEW t \in Threads, Enter(t) PROVE IInv'
<1> USE DEF IInv, Enter, EnterFrom
<1> DOMAIN pc = Threads
  BY DEF TypeOK
<1> DEFINE label == IF requests < 0 THEN Failed ELSE Using
<1>0. TypeOK'
  BY TypeStep DEF Next
<1>1. Goto(t, label) /\ (requests < 0 <=> Closed)
  BY CountTells
<1>2. CountExact'
  BY CountStep DEF Counted, ClosingPCs, Using, Failed
<1>3. \A L : At(L)' = IF label \in L THEN At(L) \cup {t} ELSE At(L) \ {t}
  BY AtMoves
<1> QED
  BY <1>0, <1>1, <1>2, <1>3 DEF Quiet, LeavingIsClosed, MarkStands, Closed, At,
     LeavePCs, ClosingPCs, Using, Failed, Goto, TypeOK

LEMMA LeaveStep ==
  ASSUME IInv, NEW t \in Threads, Leave(t) PROVE IInv'
<1> USE DEF IInv
<1> DOMAIN pc = Threads
  BY DEF TypeOK
<1>0. TypeOK'
  BY TypeStep DEF Next
<1>1. CASE LeaveSubtract(t, "idle")
  <2> USE <1>1 DEF LeaveSubtract
  <2> DEFINE label == IF LastOut(requests) THEN "leaveSwap" ELSE "idle"
  <2>1. CountExact'
    BY CountStep DEF Counted, ClosingPCs, Using, Failed
  <2>2. LastOut(requests) => Closed /\ At(Counted) = {t}
    <3> SUFFICES ASSUME LastOut(requests)
                 PROVE  Closed /\ At(Counted) = {t}
      OBVIOUS
    <3>1. Closed /\ Cardinality(At(Counted)) = 1
      BY CountTells
    <3>2. PICK x : At(Counted) = {x}
      BY <3>1, AtFinite, FS_Singleton, Zenon
    <3> QED
      BY <3>1, <3>2 DEF At
  <2>3. \A L : At(L)' = IF label \in L THEN At(L) \cup {t} ELSE At(L) \ {t}
    BY AtMoves
  <2>4. At(ClosingPCs)' = At(ClosingPCs)
    BY AtStays, SMTT(30), Z3 DEF Counted, Using, Failed, ClosingPCs
  <2>5. At({Using})' = At({Using}) \ {t}
    BY AtMoves, Zenon DEF Using
  <2>6. Quiet'
    <3>1. CASE LastOut(requests)
      BY <2>2, <2>5, <3>1 DEF Quiet, At, Counted
    <3>2. CASE ~LastOut(requests)
      BY <2>3, <2>4, <2>5, <3>2 DEF Quiet, Closed, LeavePCs
    <3> QED
      BY <3>1, <3>2
  <2>7. LeavingIsClosed'
    BY <2>2, <2>3, <2>4 DEF LeavingIsClosed, LeavePCs, Closed
  <2>8. MarkStands'
    BY <2>4, <1>0 DEF MarkStands, Closed, Goto, TypeOK
  <2> QED
    BY <1>0, <2>1, <2>6, <2>7, <2>8
<1>2. CASE LeaveSwap(t, "idle") \/ LeaveUnblock(t, "idle")
  <2> DEFINE label == IF pc[t] = "leaveSwap" /\ shutdownThread # NullThread
                      THEN "leaveUnblock" ELSE "idle"
  <2>1. Goto(t, label) /\ requests' = requests /\ pc[t] \in LeavePCs
    BY <1>2 DEF LeaveSwap, LeaveUnblock, LeavePCs
  <2>2. CountExact'
    BY <2>1, CountStep DEF Counted, ClosingPCs, LeavePCs, Using, Failed
  <2>3. \A L : At(L)' = IF label \in L THEN At(L) \cup {t} ELSE At(L) \ {t}
    BY <2>1, AtMoves
  <2>4. t \in At(LeavePCs) /\ Closed /\ At({Using}) = {}
    BY <2>1 DEF At, Quiet, LeavingIsClosed
  <2>5. Closed' /\ At({Using})' = {}
    BY <2>1, <2>3, <2>4, Zenon DEF Closed, At, LeavePCs, ClosingPCs, Using
  <2> QED
    BY <1>0, <2>2, <2>5 DEF Quiet, LeavingIsClosed, MarkStands
<1> QED
  BY <1>1, <1>2 DEF Leave

(* Looking for a shutdown in progress, and claiming shutdownThread when it  *)
(* is free, disturb nothing.                                                *)
LEMMA LookingStep ==
  ASSUME IInv, TypeOK', NEW t \in Threads, NEW label, Goto(t, label),
         pc[t] \notin ClosingPCs \cup Counted \cup LeavePCs,
         label \notin ClosingPCs \cup Counted \cup LeavePCs,
         requests' = requests,
         \/ label # "sdSubtract" /\ shutdownThread' = shutdownThread
         \/ shutdownThread = NullThread /\ shutdownThread' = t
  PROVE  IInv'
<1> USE DEF IInv
<1> DOMAIN pc = Threads
  BY DEF TypeOK
<1>1. CountExact'
  BY CountStep
<1>2. At(ClosingPCs)' = At(ClosingPCs) /\ At(LeavePCs)' = At(LeavePCs)
  BY AtStays
<1>3. At({Using})' = At({Using})
  BY AtStays, Zenon DEF Counted
<1>4. At(LeavePCs \cup {"sdClear", "won"})' = At(LeavePCs \cup {"sdClear", "won"})
  BY AtStays DEF ClosingPCs
<1>5. Quiet'
  BY <1>2, <1>3, <1>4, NullIsNoThread DEF Quiet, Closed
<1>6. LeavingIsClosed'
  BY <1>2 DEF LeavingIsClosed, Closed
<1>7. MarkStands'
  BY <1>2, NullIsNoThread DEF MarkStands, Closed, Goto, TypeOK
<1> QED
  BY <1>1, <1>5, <1>6, <1>7

LEMMA ShutdownStep ==
  ASSUME IInv, NEW t \in Threads, ShutdownCall(t) \/ Shutdown(t) PROVE IInv'
<1> DOMAIN pc = Threads
  BY DEF IInv, TypeOK
<1>0. TypeOK'
  BY TypeStep DEF Next, IInv
<1>1. CASE \/ ShutdownCall(t) \/ ShutdownReadRequests(t) \/ ShutdownReadThread(t)
           \/ ShutdownMark(t) \/ ShutdownLost(t)
  <2> USE DEF ClosingPCs, Counted, LeavePCs, Using, Failed, FalseWin
  <2>1. CASE ShutdownCall(t)
    BY <1>0, <2>1, LookingStep DEF ShutdownCall
  <2>2. CASE ShutdownReadRequests(t)
    BY <1>0, <2>2, LookingStep DEF ShutdownReadRequests
  <2>3. CASE ShutdownReadThread(t)
    BY <1>0, <2>3, LookingStep DEF ShutdownReadThread
  <2>4. CASE ShutdownMark(t)
    BY <1>0, <2>4, LookingStep DEF ShutdownMark
  <2>5. CASE ShutdownLost(t)
    BY <1>0, <2>5, LookingStep DEF ShutdownLost
  <2> QED
    BY <1>1, <2>1, <2>2, <2>3, <2>4, <2>5
<1>2. CASE ShutdownSubtract(t)
  <2> USE <1>2 DEF ShutdownSubtract, IInv
  <2> DEFINE label == IF requests = 0 THEN "sdClear" ELSE "sdWait"
  <2>1. CountExact'
    BY CountStep DEF Counted, ClosingPCs, Using, Failed
  <2>2. \A L : At(L)' = IF label \in L THEN At(L) \cup {t} ELSE At(L) \ {t}
    BY AtMoves
  <2>3. Closed' /\ LeavingIsClosed' /\ MarkStands'
    BY <2>2 DEF Closed, LeavingIsClosed, MarkStands, ClosingPCs
  <2>4. At({Using})' = At({Using}) \ {t} /\ t \notin At({Using})
    BY <2>2, Zenon DEF At, Using
  <2>5. At(LeavePCs)' = At(LeavePCs)
    BY AtStays, SMTT(30), Z3 DEF LeavePCs
  <2>6. Quiet'
    <3>1. CASE requests = 0
      BY <3>1, <2>4, CountTells DEF Quiet, At, Counted
    <3>2. CASE requests # 0
      <4>1. At(LeavePCs \cup {"sdClear", "won"})' = At(LeavePCs \cup {"sdClear", "won"})
        BY <3>2, AtStays, Zenon DEF LeavePCs
      <4>2. shutdownThread = NullThread => Closed
        BY NullIsNoThread DEF MarkStands
      <4> QED
        BY <2>4, <4>1, <4>2 DEF Quiet
    <3> QED
      BY <3>1, <3>2
  <2> QED
    BY <1>0, <2>1, <2>3, <2>6
<1>3. CASE ShutdownClear(t) \/ ShutdownWait(t) \/ ShutdownBlock(t)
  <2> USE DEF IInv
  <2>1. PICK label \in ClosingPCs :
          /\ Goto(t, label)
          /\ label = "won" => pc[t] = "sdClear" \/ shutdownThread = NullThread
          /\ shutdownThread' # shutdownThread => pc[t] = "sdClear"
          /\ label # "sdClear"
    BY <1>3 DEF ShutdownClear, ShutdownWait, ShutdownBlock, ClosingPCs
  <2>2. pc[t] \in ClosingPCs /\ requests' = requests
    BY <1>3 DEF ShutdownClear, ShutdownWait, ShutdownBlock, ClosingPCs
  <2>3. CountExact'
    BY <2>1, <2>2, CountStep DEF Counted, ClosingPCs, Using, Failed
  <2>4. \A L : At(L)' = IF label \in L THEN At(L) \cup {t} ELSE At(L) \ {t}
    BY <2>1, AtMoves
  <2>5. Closed /\ Closed' /\ t \in At(ClosingPCs)
    BY <2>2, <2>4 DEF At, Closed
  <2>6. LeavingIsClosed' /\ MarkStands'
    BY <2>5 DEF LeavingIsClosed, MarkStands
  <2>7. At({Using})' = At({Using})
    BY <2>1, <2>2, AtStays, SMTT(30), Z3 DEF Using, ClosingPCs
  <2>8. Quiet'
    <3>1. CASE pc[t] = "sdClear" \/ shutdownThread = NullThread
      BY <3>1, <2>5, <2>7 DEF Quiet, At
    <3>2. CASE pc[t] # "sdClear" /\ shutdownThread # NullThread
      <4>1. label \notin {"won", "sdClear"} /\ shutdownThread' = shutdownThread
        BY <3>2, <2>1
      <4>2. At(LeavePCs \cup {"sdClear", "won"})' \subseteq At(LeavePCs \cup {"sdClear", "won"})
        BY <2>1, <2>4, <4>1 DEF LeavePCs, ClosingPCs
      <4> QED
        BY <2>7, <3>2, <4>1, <4>2 DEF Quiet
    <3> QED
      BY <3>1, <3>2
  <2> QED
    BY <1>0, <2>3, <2>6, <2>8
<1> QED
  BY <1>1, <1>2, <1>3 DEF Shutdown

LEMMA StutterStep == IInv /\ UNCHANGED vars => IInv'
BY DEF IInv, TypeOK, CountExact, Quiet, LeavingIsClosed, MarkStands, Closed, At, vars

-----------------------------------------------------------------------------
(* Every behaviour keeps the inductive invariant.                           *)
THEOREM Invariance == Spec => []IInv
<1>1. IInv /\ [Next]_vars => IInv'
  BY EnterStep, LeaveStep, ShutdownStep, StutterStep DEF Next
<1> QED
  BY <1>1, InitIInv, PTL DEF Spec

(* Types: the state of the counter and of its callers is well formed.       *)
THEOREM TypeCorrect == Spec => []TypeOK
BY Invariance, PTL DEF IInv

(* The count is exact: RequestCount.H:19-30, for any number of threads.     *)
THEOREM CountIsExact == Spec => []CountExact
BY Invariance, PTL DEF IInv

(* RequestCount::shutdown: a call that took N off the count returns only    *)
(* when no use is in flight, and the count stays negative, so none can      *)
(* begin.                                                                   *)
THEOREM ShutdownIsSafe == Spec => []WinnerSeesNoUse
<1>1. IInv => WinnerSeesNoUse
  <2> SUFFICES ASSUME IInv, At({"won"}) # {}
               PROVE  At({Using}) = {} /\ requests < 0
    BY DEF WinnerSeesNoUse
  <2>1. Closed /\ At(LeavePCs \cup {"sdClear", "won"}) # {}
    BY DEF Closed, At, ClosingPCs
  <2> QED
    BY <2>1, CountTells DEF IInv, Quiet
<1> QED
  BY <1>1, Invariance, PTL

(* leave(): no wake-up of the destroyer while a use is in flight.           *)
THEOREM WakeupIsLate == Spec => []NoEarlyWakeup
<1>1. IInv => NoEarlyWakeup
  BY DEF IInv, Quiet, NoEarlyWakeup, Closed, At
<1> QED
  BY <1>1, Invariance, PTL

-----------------------------------------------------------------------------
(***************************************************************************)
(* Proofs about RequestCountWithStop for any number of threads and of      *)
(* calls of stop() and shutdown().                                         *)
(*                                                                         *)
(* The lock alone does not give OneCloser: shutdown() lets go of it while  *)
(* its closing lasts.  A second closer is kept out by the sign of the      *)
(* count, which it reads under the lock: TryAlone says that the value it   *)
(* read still holds when it subtracts.  Undisturbed is the argument for    *)
(* RequestCount again, for the leave() calls that no restart has caught: a *)
(* stale one is no sign that the object is closed and quiet, and what it   *)
(* does to a closer whose mark it takes is what robbed records.            *)
(***************************************************************************)

HoldsLock(t) ==
  \/ pc[t] \in TryPCs \cup {"enterCheck", "restartRelease"}
  \/ pc[t] \in ClosingPCs /\ kind[t] = "stop"

LockHeld == \A t \in Threads : HoldsLock(t) => lock = t

TryAlone ==
  \A t, u \in Threads :
    pc[t] \in TryPCs \ {"sdReadRequests"} => pc[u] \notin ClosingPCs

CloserAlone ==
  \A t, u \in Threads : pc[t] \in ClosingPCs /\ pc[u] \in ClosingPCs => t = u

WonIsUnmarked == \A t \in Threads : pc[t] = "won" => shutdownThread = NullThread

StopIInv == StopTypeOK /\ CountExact /\ LockHeld /\ TryAlone /\ CloserAlone /\ WonIsUnmarked

Fresh(t) == pc[t] = "leaveSwap" /\ t \notin stale

\* Who has its name in shutdownThread, what a leave() means that no restart
\* has caught, and what a closer that was not robbed can rely on.
Undisturbed ==
  /\ shutdownThread # NullThread
       => pc[shutdownThread] \in ClosingPCs \cup {"sdSubtract"}
  /\ \A t \in Threads : Fresh(t) => \E u \in Threads : pc[u] \in ClosingPCs
  /\ \A t, v \in Threads : Fresh(t) \/ pc[t] = "sdClear" => pc[v] # Using
  /\ \A t \in Threads : pc[t] = "sdSubtract" /\ t \notin robbed => shutdownThread = t
  /\ \A t, v \in Threads :
       pc[t] \in ClosingPCs /\ t \notin robbed /\ shutdownThread = NullThread
         => pc[v] # Using

-----------------------------------------------------------------------------
LEMMA StopPcDomain == StopTypeOK => DOMAIN pc = Threads
BY DEF StopTypeOK

(* The sign of the count, thread by thread.                                 *)
LEMMA SignTells ==
  ASSUME StopTypeOK, CountExact
  PROVE  /\ requests < 0 <=> \E t \in Threads : pc[t] \in ClosingPCs
         /\ requests = 0 => \A t \in Threads : pc[t] \notin Counted
         /\ \A t \in Threads :
              LastOut(requests) /\ pc[t] \in Counted
                => /\ \E u \in Threads : pc[u] \in ClosingPCs
                   /\ \A u \in Threads : pc[u] \in Counted => u = t
<1>1. /\ requests < 0 <=> \E t \in Threads : pc[t] \in ClosingPCs
      /\ requests = 0 => \A t \in Threads : pc[t] \notin Counted
  BY CountTells DEF Closed, At
<1>2. ASSUME NEW t \in Threads, LastOut(requests), pc[t] \in Counted
      PROVE  /\ \E u \in Threads : pc[u] \in ClosingPCs
             /\ \A u \in Threads : pc[u] \in Counted => u = t
  <2>1. Closed /\ Cardinality(At(Counted)) = 1
    BY <1>2, CountTells
  <2>2. PICK x : At(Counted) = {x}
    BY <2>1, AtFinite, FS_Singleton, Zenon
  <2> QED
    BY <1>2, <2>1, <2>2 DEF Closed, At
<1> QED
  BY <1>1, <1>2

LEMMA StopInitIInv == StopInit => StopIInv /\ Undisturbed
<1> SUFFICES ASSUME StopInit PROVE StopIInv /\ Undisturbed
  OBVIOUS
<1>1. CountExact
  BY InitIInv DEF IInv, StopInit
<1>2. StopTypeOK
  BY MaxClosingsNat DEF StopInit, Init, StopTypeOK, PCs, FalseWin
<1>3. (\A t \in Threads : pc[t] = "idle") /\ shutdownThread = NullThread
  BY DEF StopInit, Init
<1> QED
  BY <1>1, <1>2, <1>3 DEF StopIInv, LockHeld, HoldsLock, TryAlone, CloserAlone,
     WonIsUnmarked, Undisturbed, Fresh, ClosingPCs, TryPCs

-----------------------------------------------------------------------------
(* One lemma per action.                                                    *)
LEMMA StopEnterStep ==
  ASSUME StopIInv, Undisturbed, NEW t \in Threads, StopEnter(t)
  PROVE  StopIInv' /\ Undisturbed'
<1> USE DEF StopIInv, history, StopEnter, EnterFrom, Goto
<1>1. StopTypeOK'
  BY DEF StopTypeOK, PCs, FalseWin, Counted, Using, Failed
<1>2. CountExact'
  BY CountStep, StopPcDomain, Zenon DEF Counted, ClosingPCs, Using, Failed
<1>3. LockHeld' /\ TryAlone' /\ CloserAlone' /\ WonIsUnmarked'
  BY DEF StopTypeOK, LockHeld, HoldsLock, TryAlone, CloserAlone, WonIsUnmarked,
     ClosingPCs, TryPCs, Using, Failed
<1>4. Undisturbed'
  BY SignTells, SMTT(30) DEF StopTypeOK, Undisturbed, Fresh, TryAlone, CloserAlone, LockHeld, HoldsLock,
     ClosingPCs, TryPCs, Using, Failed
<1> QED
  BY <1>1, <1>2, <1>3, <1>4

LEMMA StopLeaveSubtractStep ==
  ASSUME StopIInv, Undisturbed, NEW t \in Threads, LeaveSubtract(t, Ret(t)), StopLeave(t)
  PROVE  StopIInv' /\ Undisturbed'
<1> USE DEF StopIInv, history, LeaveSubtract, StopLeave, Ret, Goto
<1>1. StopTypeOK'
  BY DEF StopTypeOK, PCs, FalseWin, Counted, LeavePCs, TryPCs, ClosingPCs
<1>2. CountExact'
  <2>1. PICK label \in {"leaveSwap", "enterLock", "idle"} : Goto(t, label)
    BY Zenon DEF Goto
  <2>2. label \notin Counted \cup ClosingPCs /\ pc[t] \notin ClosingPCs
    BY DEF Counted, ClosingPCs, Using, Failed
  <2> QED
    BY <2>1, <2>2, CountStep, StopPcDomain, Zenon
<1>3. LockHeld' /\ TryAlone' /\ CloserAlone' /\ WonIsUnmarked'
  BY DEF StopTypeOK, LockHeld, HoldsLock, TryAlone, CloserAlone, WonIsUnmarked,
     ClosingPCs, TryPCs, LeavePCs, Counted, Using, Failed
<1>4. Undisturbed'
  BY SignTells DEF StopTypeOK, Undisturbed, Fresh, TryAlone, CloserAlone, LockHeld, HoldsLock,
     ClosingPCs, TryPCs, Counted, Using, Failed
<1> QED
  BY <1>1, <1>2, <1>3, <1>4

LEMMA StopLeaveSwapStep ==
  ASSUME StopIInv, Undisturbed, NEW t \in Threads, LeaveSwap(t, Ret(t)), StopLeave(t)
  PROVE  StopIInv' /\ Undisturbed'
<1> USE DEF StopIInv, history, LeaveSwap, StopLeave, Ret, Goto
<1>1. StopTypeOK'
  BY DEF StopTypeOK, PCs, FalseWin, Counted, LeavePCs, TryPCs, ClosingPCs
<1>2. CountExact'
  BY CountStep, StopPcDomain, Zenon DEF Counted, LeavePCs, TryPCs, ClosingPCs, Using, Failed
<1>3. LockHeld' /\ TryAlone' /\ CloserAlone' /\ WonIsUnmarked'
  BY DEF StopTypeOK, LockHeld, HoldsLock, TryAlone, CloserAlone, WonIsUnmarked,
     ClosingPCs, TryPCs, LeavePCs, Counted, Using, Failed
<1>4. Undisturbed'
  BY DEF StopTypeOK, Undisturbed, Fresh, TryAlone, CloserAlone, LockHeld, HoldsLock,
     ClosingPCs, TryPCs, Counted, Using, Failed
<1> QED
  BY <1>1, <1>2, <1>3, <1>4

LEMMA StopLeaveUnblockStep ==
  ASSUME StopIInv, Undisturbed, NEW t \in Threads, LeaveUnblock(t, Ret(t)), StopLeave(t)
  PROVE  StopIInv' /\ Undisturbed'
<1> USE DEF StopIInv, history, LeaveUnblock, StopLeave, Ret, Goto
<1>1. StopTypeOK'
  BY DEF StopTypeOK, PCs, FalseWin, Counted, LeavePCs, TryPCs, ClosingPCs
<1>2. CountExact'
  BY CountStep, StopPcDomain, Zenon DEF Counted, LeavePCs, TryPCs, ClosingPCs, Using, Failed
<1>3. LockHeld' /\ TryAlone' /\ CloserAlone' /\ WonIsUnmarked'
  BY DEF StopTypeOK, LockHeld, HoldsLock, TryAlone, CloserAlone, WonIsUnmarked,
     ClosingPCs, TryPCs, LeavePCs, Counted, Using, Failed
<1>4. Undisturbed'
  BY DEF StopTypeOK, Undisturbed, Fresh, TryAlone, CloserAlone, LockHeld, HoldsLock,
     ClosingPCs, TryPCs, Counted, Using, Failed
<1> QED
  BY <1>1, <1>2, <1>3, <1>4

LEMMA LockStep ==
  ASSUME StopIInv, Undisturbed, NEW t \in Threads, EnterAcquire(t) \/ CloseAcquire(t)
  PROVE  StopIInv' /\ Undisturbed'
<1> USE DEF StopIInv, history, EnterAcquire, CloseAcquire, AcquireLock, Goto
<1>1. StopTypeOK'
  BY DEF StopTypeOK, PCs, FalseWin, Counted, LeavePCs, TryPCs, ClosingPCs
<1>2. CountExact'
  BY CountStep, StopPcDomain DEF Counted, LeavePCs, TryPCs, ClosingPCs, Using, Failed
<1>3. LockHeld' /\ TryAlone' /\ CloserAlone' /\ WonIsUnmarked'
  BY NullIsNoThread DEF StopTypeOK, LockHeld, HoldsLock, TryAlone, CloserAlone, WonIsUnmarked,
     ClosingPCs, TryPCs, LeavePCs, Counted, Using, Failed
<1>4. Undisturbed'
  BY NullIsNoThread DEF StopTypeOK, Undisturbed, Fresh, TryAlone, CloserAlone, LockHeld, HoldsLock,
     ClosingPCs, TryPCs, Counted, Using, Failed
<1> QED
  BY <1>1, <1>2, <1>3, <1>4

LEMMA EnterCheckStep ==
  ASSUME StopIInv, Undisturbed, NEW t \in Threads, EnterCheck(t)
  PROVE  StopIInv' /\ Undisturbed'
<1> USE DEF StopIInv, history, EnterCheck, Goto
<1>1. StopTypeOK'
  BY DEF StopTypeOK, PCs, FalseWin, Counted, LeavePCs, TryPCs, ClosingPCs
<1>2. CountExact'
  BY CountStep, StopPcDomain, Zenon DEF Counted, LeavePCs, TryPCs, ClosingPCs, Using, Failed
<1>3. LockHeld' /\ TryAlone' /\ CloserAlone' /\ WonIsUnmarked'
  BY NullIsNoThread DEF StopTypeOK, LockHeld, HoldsLock, TryAlone, CloserAlone, WonIsUnmarked,
     ClosingPCs, TryPCs, LeavePCs, Counted, Using, Failed
<1>4. Undisturbed'
  BY DEF StopTypeOK, Undisturbed, Fresh, TryAlone, CloserAlone, LockHeld, HoldsLock,
     ClosingPCs, TryPCs, Counted, Using, Failed
<1> QED
  BY <1>1, <1>2, <1>3, <1>4

LEMMA CloseCallStep ==
  ASSUME StopIInv, Undisturbed, NEW t \in Threads,
         NEW k \in {"stop", "shutdown"}, CloseCall(t, k)
  PROVE  StopIInv' /\ Undisturbed'
<1> USE DEF StopIInv, history, CloseCall, Goto
<1>1. StopTypeOK'
  BY MaxClosingsNat DEF StopTypeOK, PCs, FalseWin, Counted, LeavePCs, TryPCs, ClosingPCs
<1>2. CountExact'
  BY CountStep, StopPcDomain, Zenon DEF Counted, LeavePCs, TryPCs, ClosingPCs, Using, Failed
<1>3. LockHeld' /\ TryAlone' /\ CloserAlone' /\ WonIsUnmarked'
  BY DEF StopTypeOK, LockHeld, HoldsLock, TryAlone, CloserAlone, WonIsUnmarked,
     ClosingPCs, TryPCs, LeavePCs, Counted, Using, Failed
<1>4. Undisturbed'
  BY DEF StopTypeOK, Undisturbed, Fresh, TryAlone, CloserAlone, LockHeld, HoldsLock,
     ClosingPCs, TryPCs, Counted, Using, Failed
<1> QED
  BY <1>1, <1>2, <1>3, <1>4

LEMMA CloseReadStep ==
  ASSUME StopIInv, Undisturbed, NEW t \in Threads, ShutdownReadRequests(t) \/ ShutdownReadThread(t),
         CloseTry(t)
  PROVE  StopIInv' /\ Undisturbed'
<1> USE DEF StopIInv, history, ShutdownReadRequests, ShutdownReadThread, ShutdownMark, CloseTry, Goto, FalseWin
<1>1. StopTypeOK'
  BY DEF StopTypeOK, PCs, FalseWin, Counted, LeavePCs, TryPCs, ClosingPCs
<1>2. CountExact'
  BY CountStep, StopPcDomain DEF Counted, LeavePCs, TryPCs, ClosingPCs, Using, Failed
<1>3. LockHeld' /\ TryAlone' /\ CloserAlone' /\ WonIsUnmarked'
  BY SignTells DEF StopTypeOK, LockHeld, HoldsLock, TryAlone, CloserAlone, WonIsUnmarked,
     ClosingPCs, TryPCs, LeavePCs, Counted, Using, Failed
<1>4. Undisturbed'
  BY DEF StopTypeOK, Undisturbed, Fresh, TryAlone, CloserAlone, LockHeld, HoldsLock,
     ClosingPCs, TryPCs, Counted, Using, Failed
<1> QED
  BY <1>1, <1>2, <1>3, <1>4

LEMMA CloseMarkStep ==
  ASSUME StopIInv, Undisturbed, NEW t \in Threads, ShutdownMark(t), CloseTry(t)
  PROVE  StopIInv' /\ Undisturbed'
<1> USE DEF StopIInv, history, ShutdownReadRequests, ShutdownReadThread, ShutdownMark, CloseTry, Goto, FalseWin
<1>1. StopTypeOK'
  BY DEF StopTypeOK, PCs, FalseWin, Counted, LeavePCs, TryPCs, ClosingPCs
<1>2. CountExact'
  BY CountStep, StopPcDomain DEF Counted, LeavePCs, TryPCs, ClosingPCs, Using, Failed
<1>3. LockHeld' /\ TryAlone' /\ CloserAlone' /\ WonIsUnmarked'
  BY NullIsNoThread DEF StopTypeOK, LockHeld, HoldsLock, TryAlone, CloserAlone, WonIsUnmarked,
     ClosingPCs, TryPCs, LeavePCs, Counted, Using, Failed
<1>4. Undisturbed'
  BY NullIsNoThread DEF StopTypeOK, Undisturbed, Fresh, TryAlone, CloserAlone, LockHeld, HoldsLock,
     ClosingPCs, TryPCs, Counted, Using, Failed
<1> QED
  BY <1>1, <1>2, <1>3, <1>4

LEMMA CloseSubtractStep ==
  ASSUME StopIInv, Undisturbed, NEW t \in Threads, CloseSubtract(t)
  PROVE  StopIInv' /\ Undisturbed'
<1> USE DEF StopIInv, history, CloseSubtract, ShutdownSubtract, Goto
<1>1. StopTypeOK'
  BY DEF StopTypeOK, PCs, FalseWin, Counted, LeavePCs, TryPCs, ClosingPCs
<1>2. CountExact'
  BY CountStep, StopPcDomain, Zenon DEF Counted, LeavePCs, TryPCs, ClosingPCs, Using, Failed
<1>3. LockHeld' /\ TryAlone' /\ CloserAlone' /\ WonIsUnmarked'
  BY DEF StopTypeOK, LockHeld, HoldsLock, TryAlone, CloserAlone, WonIsUnmarked,
     ClosingPCs, TryPCs, LeavePCs, Counted, Using, Failed
<1>4. Undisturbed'
  BY SignTells, NullIsNoThread DEF StopTypeOK, Undisturbed, Fresh, TryAlone, CloserAlone, LockHeld, HoldsLock,
     ClosingPCs, TryPCs, Counted, Using, Failed
<1> QED
  BY <1>1, <1>2, <1>3, <1>4

LEMMA CloseFinishStep ==
  ASSUME StopIInv, Undisturbed, NEW t \in Threads, CloseFinish(t)
  PROVE  StopIInv' /\ Undisturbed'
<1> USE DEF StopIInv, history, CloseFinish, ShutdownClear, ShutdownWait, ShutdownBlock, Goto
<1>1. StopTypeOK'
  BY DEF StopTypeOK, PCs, FalseWin, Counted, LeavePCs, TryPCs, ClosingPCs
<1>2. CountExact'
  BY CountStep, StopPcDomain DEF Counted, LeavePCs, TryPCs, ClosingPCs, Using, Failed
<1>3. LockHeld' /\ TryAlone' /\ CloserAlone' /\ WonIsUnmarked'
  BY DEF StopTypeOK, LockHeld, HoldsLock, TryAlone, CloserAlone, WonIsUnmarked,
     ClosingPCs, TryPCs, LeavePCs, Counted, Using, Failed
<1>4. Undisturbed'
  BY DEF StopTypeOK, Undisturbed, Fresh, TryAlone, CloserAlone, LockHeld, HoldsLock,
     ClosingPCs, TryPCs, Counted, Using, Failed
<1> QED
  BY <1>1, <1>2, <1>3, <1>4

LEMMA CloseLostStep ==
  ASSUME StopIInv, Undisturbed, NEW t \in Threads, CloseLost(t)
  PROVE  StopIInv' /\ Undisturbed'
<1> USE DEF StopIInv, history, CloseLost, ShutdownLost, Goto
<1>1. StopTypeOK'
  BY DEF StopTypeOK, PCs, FalseWin, Counted, LeavePCs, TryPCs, ClosingPCs
<1>2. CountExact'
  BY CountStep, StopPcDomain, Zenon DEF Counted, LeavePCs, TryPCs, ClosingPCs, Using, Failed
<1>3. LockHeld' /\ TryAlone' /\ CloserAlone' /\ WonIsUnmarked'
  BY DEF StopTypeOK, LockHeld, HoldsLock, TryAlone, CloserAlone, WonIsUnmarked,
     ClosingPCs, TryPCs, LeavePCs, Counted, Using, Failed
<1>4. Undisturbed'
  BY DEF StopTypeOK, Undisturbed, Fresh, TryAlone, CloserAlone, LockHeld, HoldsLock,
     ClosingPCs, TryPCs, Counted, Using, Failed
<1> QED
  BY <1>1, <1>2, <1>3, <1>4

LEMMA RestartAddStep ==
  ASSUME StopIInv, Undisturbed, NEW t \in Threads, RestartAdd(t)
  PROVE  StopIInv' /\ Undisturbed'
<1> USE DEF StopIInv, history, RestartAdd, Goto
<1>1. StopTypeOK'
  BY NIsHuge DEF At, StopTypeOK, PCs, FalseWin, Counted, LeavePCs, TryPCs, ClosingPCs
<1>2. CountExact'
  BY CountStep, StopPcDomain, Zenon DEF Counted, LeavePCs, TryPCs, ClosingPCs, Using, Failed
<1>3. LockHeld' /\ TryAlone' /\ CloserAlone' /\ WonIsUnmarked'
  BY DEF StopTypeOK, LockHeld, HoldsLock, TryAlone, CloserAlone, WonIsUnmarked,
     ClosingPCs, TryPCs, LeavePCs, Counted, Using, Failed
<1>4. shutdownThread = NullThread /\ \A u \in Threads : pc'[u] \notin ClosingPCs /\ ~Fresh(u)'
  BY DEF StopTypeOK, WonIsUnmarked, CloserAlone, Fresh, At, ClosingPCs
<1>5. Undisturbed'
  BY <1>4 DEF StopTypeOK, Undisturbed, TryAlone, ClosingPCs, TryPCs
<1> QED
  BY <1>1, <1>2, <1>3, <1>5

LEMMA RestartReleaseStep ==
  ASSUME StopIInv, Undisturbed, NEW t \in Threads, RestartRelease(t)
  PROVE  StopIInv' /\ Undisturbed'
<1> USE DEF StopIInv, history, RestartRelease, Goto
<1>1. StopTypeOK'
  BY DEF StopTypeOK, PCs, FalseWin, Counted, LeavePCs, TryPCs, ClosingPCs
<1>2. CountExact'
  BY CountStep, StopPcDomain, Zenon DEF Counted, LeavePCs, TryPCs, ClosingPCs, Using, Failed
<1>3. LockHeld' /\ TryAlone' /\ CloserAlone' /\ WonIsUnmarked'
  BY DEF StopTypeOK, LockHeld, HoldsLock, TryAlone, CloserAlone, WonIsUnmarked,
     ClosingPCs, TryPCs, LeavePCs, Counted, Using, Failed
<1>4. Undisturbed'
  BY DEF StopTypeOK, Undisturbed, Fresh, TryAlone, CloserAlone, LockHeld, HoldsLock,
     ClosingPCs, TryPCs, Counted, Using, Failed
<1> QED
  BY <1>1, <1>2, <1>3, <1>4

-----------------------------------------------------------------------------
(* Every behaviour keeps the invariant of the lock and the count, and the   *)
(* promise to the closers that are not robbed.                              *)
THEOREM StopInvariance == StopSpec => [](StopIInv /\ Undisturbed)
<1>1. ASSUME StopIInv, Undisturbed, NEW t \in Threads, StopLeave(t)
      PROVE  StopIInv' /\ Undisturbed'
  BY <1>1, StopLeaveSubtractStep, StopLeaveSwapStep, StopLeaveUnblockStep DEF StopLeave
<1>2. ASSUME StopIInv, Undisturbed, NEW t \in Threads, CloseTry(t)
      PROVE  StopIInv' /\ Undisturbed'
  BY <1>2, CloseReadStep, CloseMarkStep DEF CloseTry
<1>3. ASSUME StopIInv, Undisturbed, UNCHANGED stopVars
      PROVE  StopIInv' /\ Undisturbed'
  BY <1>3 DEF stopVars, vars, history, Fresh, StopIInv, StopTypeOK, CountExact, At, LockHeld, HoldsLock,
     TryAlone, CloserAlone, WonIsUnmarked, Undisturbed
<1>4. StopIInv /\ Undisturbed /\ [StopNext]_stopVars => (StopIInv /\ Undisturbed)'
  BY <1>1, <1>2, <1>3, StopEnterStep, LockStep, EnterCheckStep, CloseCallStep,
     CloseSubtractStep, CloseFinishStep, CloseLostStep, RestartAddStep, RestartReleaseStep
     DEF StopNext, Progress
<1> QED
  BY <1>4, StopInitIInv, PTL DEF StopSpec

(* RequestCount.H:115: one stop() or shutdown() at a time is between taking *)
(* N off the count and giving it back, and the count is exact.              *)
THEOREM ClosersExclude == StopSpec => [](OneCloser /\ CountExact)
<1>1. StopIInv => OneCloser /\ CountExact
  BY DEF StopIInv, CloserAlone, OneCloser, At
<1> QED
  BY <1>1, StopInvariance, PTL

(* RequestCount.C:157: the assertion in restart() never fails, and the      *)
(* caller of restart() holds the lock that stop() left it.                  *)
THEOREM RestartIsSafe == StopSpec => []RestartFindsNoWaiter
<1>1. StopIInv => RestartFindsNoWaiter
  BY DEF StopIInv, WonIsUnmarked, LockHeld, HoldsLock, RestartFindsNoWaiter, At, ClosingPCs
<1> QED
  BY <1>1, StopInvariance, PTL

(* RequestCount.H:184: a stop() or shutdown(), the first or a later one,    *)
(* returns 0 only when no use is in flight, unless a leave() that a restart *)
(* had caught took its mark.                                                *)
THEOREM UnrobbedCloserIsSafe == StopSpec => []UnrobbedCloserSeesNoUse
<1>1. StopIInv /\ Undisturbed => UnrobbedCloserSeesNoUse
  BY DEF StopIInv, WonIsUnmarked, Undisturbed, UnrobbedCloserSeesNoUse, At, ClosingPCs
<1> QED
  BY <1>1, StopInvariance, PTL

-----------------------------------------------------------------------------
(***************************************************************************)
(* The counters of ActiveThrdCnt count what they should, whatever the      *)
(* number of threads and wherever they come in between the steps of        *)
(* advance, and they implement Generations.                                *)
(***************************************************************************)

VARIABLES index, cnt, activeCnt, cntP, note, advancePc, oldCnt

Cnt == INSTANCE ActiveThrdCnt WITH pc <- advancePc

(* The inductive invariant: what each counter is worth in threads at every *)
(* point of advance, and who has to reset it when it stands at 1.          *)
Activations == IF advancePc \in {"add", "sub"} THEN cnt - Cnt!HUGE_COUNT ELSE cnt

CurrentCount(i) ==
  /\ activeCnt[i] + Activations = 2 * Cardinality(Cnt!InGen(i))
  /\ Activations % 2 = 0

PreviousCount(i) ==
  LET n == Cardinality(Cnt!InGen(i))
      c == activeCnt[i]
  IN
  /\ advancePc = "add" => c + oldCnt = 2 * n /\ oldCnt % 2 = 0
  /\ advancePc = "sub" => c = 2 * n
  /\ advancePc = "store" => c = 0 /\ n = 0
  /\ advancePc \in {"idle", "or", "notify"} => c \in {2 * n, 2 * n + 1}
  /\ advancePc = "notify" => c = 1
  /\ (c = 1 /\ advancePc \in {"idle", "or"}) => \E t \in Threads : note[t] = i

Notes ==
  \A t \in Threads : note[t] # -1 =>
    /\ note[t] = 1 - index /\ cntP[t] = -1
    /\ activeCnt[note[t]] = 1
    /\ advancePc \in {"idle", "or"}
    /\ \A s \in Threads : note[s] # -1 => s = t

CntIInv ==
     /\ Cnt!TypeOK
     /\ \A i \in {0, 1} :
          /\ IsFiniteSet(Cnt!InGen(i))
          /\ i = index => CurrentCount(i)
          /\ i # index => PreviousCount(i)
     /\ Notes

Size(i) == Cardinality(Cnt!InGen(i))

(* The size of a generation is a natural number, zero only if it is empty. *)
LEMMA GenSize ==
  ASSUME CntIInv, NEW i \in {0, 1}
  PROVE  Size(i) \in Nat /\ (Size(i) = 0 <=> Cnt!InGen(i) = {})
  BY FS_EmptySet, FS_CardinalityType DEF CntIInv, Size

(* An activation adds its thread to the current generation only. *)
LEMMA Joins ==
  ASSUME CntIInv, NEW t \in Threads, Cnt!Activate(t), NEW i \in {0, 1}
  PROVE  /\ IsFiniteSet(Cnt!InGen(i)')
         /\ Size(i)' = IF i = index THEN Size(i) + 1 ELSE Size(i)
  <1>1. IsFiniteSet(Cnt!InGen(i))
    BY DEF CntIInv
  <1>2. CASE i = index
    <2>1. Cnt!InGen(i)' = Cnt!InGen(i) \cup {t} /\ t \notin Cnt!InGen(i)
      BY <1>2 DEF CntIInv, Cnt!TypeOK, Cnt!Activate, Cnt!InGen
    <2> QED BY <1>1, <1>2, <2>1, FS_AddElement DEF Size
  <1>3. CASE i # index
    <2>1. Cnt!InGen(i)' = Cnt!InGen(i)
      BY <1>3 DEF CntIInv, Cnt!TypeOK, Cnt!Activate, Cnt!InGen
    <2> QED BY <1>1, <1>3, <2>1 DEF Size
  <1> QED BY <1>2, <1>3

(* A deactivation takes its thread from its own generation only. *)
LEMMA Leaves ==
  ASSUME CntIInv, NEW t \in Threads, Cnt!Deactivate(t), NEW i \in {0, 1}
  PROVE  /\ IsFiniteSet(Cnt!InGen(i)')
         /\ Size(i)' = IF i = cntP[t] THEN Size(i) - 1 ELSE Size(i)
         /\ i = cntP[t] => Size(i) > 0
  <1>1. IsFiniteSet(Cnt!InGen(i)) /\ Size(i) \in Nat /\ (Size(i) = 0 <=> Cnt!InGen(i) = {})
    BY GenSize DEF CntIInv
  <1>2. CASE i = cntP[t]
    <2>1. Cnt!InGen(i)' = Cnt!InGen(i) \ {t} /\ t \in Cnt!InGen(i)
      BY <1>2 DEF CntIInv, Cnt!TypeOK, Cnt!Deactivate, Cnt!InGen
    <2>2. IsFiniteSet(Cnt!InGen(i)') /\ Size(i)' = Size(i) - 1
      BY <1>1, <2>1, FS_RemoveElement DEF Size
    <2> QED BY <1>1, <1>2, <2>1, <2>2
  <1>3. CASE i # cntP[t]
    <2>1. Cnt!InGen(i)' = Cnt!InGen(i)
      BY <1>3 DEF CntIInv, Cnt!TypeOK, Cnt!Deactivate, Cnt!InGen
    <2> QED BY <1>1, <1>3, <2>1 DEF Size
  <1> QED BY <1>2, <1>3

(* The steps of advance and NotifyAdvance move no thread. *)
LEMMA Stays ==
  ASSUME CntIInv, cntP' = cntP, NEW i \in {0, 1}
  PROVE  IsFiniteSet(Cnt!InGen(i)') /\ Size(i)' = Size(i)
  <1>1. Cnt!InGen(i)' = Cnt!InGen(i)
    BY DEF Cnt!InGen
  <1> QED BY <1>1 DEF Size, CntIInv

(* The invariant holds initially. *)
LEMMA CntInitIInv == Cnt!Init => CntIInv
  <1> SUFFICES ASSUME Cnt!Init PROVE CntIInv
    OBVIOUS
  <1>1. Cnt!TypeOK /\ Notes
    BY DEF Cnt!Init, Cnt!TypeOK, Notes
  <1>2. ASSUME NEW i \in {0, 1}
        PROVE  IsFiniteSet(Cnt!InGen(i)) /\ Size(i) = 0
    <2>1. Cnt!InGen(i) = {}
      BY DEF Cnt!Init, Cnt!InGen
    <2> QED BY <2>1, FS_EmptySet DEF Size
  <1>3. ASSUME NEW i \in {0, 1}
        PROVE  /\ i = index => CurrentCount(i)
               /\ i # index => PreviousCount(i)
    BY <1>2 DEF Cnt!Init, CurrentCount, PreviousCount, Activations, Size
  <1> QED BY <1>1, <1>2, <1>3 DEF CntIInv

(* The counts in terms of Size, at one index. *)
LEMMA Counts ==
  ASSUME CntIInv, NEW i \in {0, 1}
  PROVE  /\ Cnt!TypeOK /\ Notes
         /\ activeCnt[i] \in Int /\ cnt \in Int /\ oldCnt \in Int /\ index \in {0, 1}
         /\ Size(i) \in Nat
         /\ i = index => activeCnt[i] + Activations = 2 * Size(i) /\ Activations % 2 = 0
         /\ i # index => PreviousCount(i)
  BY GenSize DEF CntIInv, Cnt!TypeOK, CurrentCount, Size

(* A counter with its interest bit set is one above an even number, and no *)
(* other counter ever stands at 3.                                         *)
LEMMA ActivateStep ==
  ASSUME CntIInv, NEW t \in Threads, Cnt!Activate(t) PROVE CntIInv'
  <1>1. Cnt!TypeOK'
    BY DEF CntIInv, Cnt!TypeOK, Cnt!Activate
  <1>2. Notes'
    BY DEF CntIInv, Notes, Cnt!Activate
  <1>3. ASSUME NEW i \in {0, 1}
        PROVE  /\ IsFiniteSet(Cnt!InGen(i)')
               /\ (i = index => CurrentCount(i))'
               /\ (i # index => PreviousCount(i))'
    <2>1. IsFiniteSet(Cnt!InGen(i)') /\ Size(i)' = IF i = index THEN Size(i) + 1 ELSE Size(i)
      BY Joins
    <2>2. CASE i = index
      BY <2>1, <2>2, Counts, SMTT(30), Z3
         DEF CurrentCount, Activations, Size, Cnt!Activate, Cnt!HUGE_COUNT
    <2>3. CASE i # index
      BY <2>1, <2>3, Counts DEF PreviousCount, Size, Cnt!Activate
    <2> QED BY <2>1, <2>2, <2>3 DEF Cnt!Activate
  <1> QED BY <1>1, <1>2, <1>3 DEF CntIInv

(* Only the last thread of the previous generation finds a 3, and only if  *)
(* advance waits; the current counter is even.                             *)
LEMMA DeactivateStep ==
  ASSUME CntIInv, NEW t \in Threads, Cnt!Deactivate(t) PROVE CntIInv'
  <1> DEFINE c == cntP[t]
  <1>1. c \in {0, 1} /\ index' = index /\ advancePc' = advancePc /\ oldCnt' = oldCnt /\ cnt' = cnt
        /\ activeCnt'[c] = activeCnt[c] - 2 /\ \A i \in {0, 1} : i # c => activeCnt'[i] = activeCnt[i]
    BY DEF CntIInv, Cnt!TypeOK, Cnt!Deactivate
  <1>2. Cnt!TypeOK'
    BY <1>1 DEF CntIInv, Cnt!TypeOK, Cnt!Deactivate
  <1>3. activeCnt[c] = 3 => c # index /\ advancePc \in {"idle", "or"} /\ Size(c) = 1
    <2>1. CASE c = index
      <3>1. activeCnt[c] + Activations = 2 * Size(c) /\ Activations % 2 = 0
            /\ Size(c) \in Nat /\ activeCnt[c] \in Int /\ Activations \in Int
        BY <1>1, <2>1, Counts, SMTT(30), Z3 DEF Activations, Cnt!HUGE_COUNT
      <3> QED BY <3>1
    <2>2. CASE c # index
      <3>1. PreviousCount(c) /\ Size(c) \in Nat /\ Size(c) > 0 /\ activeCnt[c] \in Int
            /\ oldCnt \in Int /\ advancePc \in {"idle", "or", "notify", "store", "add", "sub"}
        BY <1>1, <2>2, Counts, Leaves, SMTT(30), Z3 DEF Cnt!TypeOK
      <3> QED BY <2>2, <3>1 DEF PreviousCount, Size
    <2> QED BY <2>1, <2>2
  <1>4. \A s \in Threads : note[s] # -1 => c # note[s]
    <2> SUFFICES ASSUME NEW s \in Threads, note[s] # -1, c = note[s] PROVE FALSE
      OBVIOUS
    <2>1. activeCnt[c] = 1 /\ c # index /\ advancePc \in {"idle", "or"}
      BY <1>1 DEF CntIInv, Cnt!TypeOK, Notes
    <2>2. PreviousCount(c) /\ Size(c) \in Nat /\ Size(c) > 0
      BY <1>1, <2>1, Counts, Leaves
    <2> QED BY <2>1, <2>2 DEF PreviousCount, Size
  <1>5. activeCnt[c] = 3 => \A s \in Threads : note[s] = -1
    BY <1>1, <1>3, <1>4 DEF CntIInv, Cnt!TypeOK, Notes
  <1>6. Notes'
    <2>1. CASE activeCnt[c] = 3
      BY <1>1, <1>3, <1>5, <2>1, SMTT(30), Z3 DEF CntIInv, Cnt!TypeOK, Notes, Cnt!Deactivate
    <2>2. CASE activeCnt[c] # 3
      BY <1>1, <1>4, <2>2 DEF CntIInv, Cnt!TypeOK, Notes, Cnt!Deactivate
    <2> QED BY <2>1, <2>2
  <1>7. ASSUME NEW i \in {0, 1}
        PROVE  /\ IsFiniteSet(Cnt!InGen(i)')
               /\ (i = index => CurrentCount(i))'
               /\ (i # index => PreviousCount(i))'
    <2>1. /\ IsFiniteSet(Cnt!InGen(i)') /\ Size(i)' = IF i = c THEN Size(i) - 1 ELSE Size(i)
          /\ i = c => Size(i) > 0
      BY Leaves
    <2>2. CASE i = index
      BY <1>1, <2>1, <2>2, Counts, SMTT(30), Z3 DEF CurrentCount, Activations, Size, Cnt!HUGE_COUNT
    <2>3. CASE i # index /\ i # c
      <3>1. ASSUME NEW s \in Threads, note[s] = i PROVE note'[s] = i
        BY <1>1, <2>3, <3>1, SMTT(30), Z3 DEF CntIInv, Cnt!TypeOK, Notes, Cnt!Deactivate
      <3> QED BY <1>1, <2>1, <2>3, <3>1, Counts, Zenon DEF PreviousCount, Size
    <2>4. CASE i # index /\ i = c
      <3>1. activeCnt[c] = 3 => note'[t] = i
        BY <1>1, <2>4 DEF CntIInv, Cnt!TypeOK, Cnt!Deactivate
      <3>2. PreviousCount(i) /\ Size(i) \in Nat /\ activeCnt[i] \in Int /\ oldCnt \in Int
        BY <2>4, Counts
      <3> QED BY <1>1, <1>3, <2>1, <2>4, <3>1, <3>2 DEF PreviousCount, Size
    <2> QED BY <1>1, <2>1, <2>2, <2>3, <2>4
  <1> QED BY <1>2, <1>6, <1>7 DEF CntIInv

(* The reset comes from the only thread about to do it. *)
LEMMA NotifyStep ==
  ASSUME CntIInv, NEW t \in Threads, Cnt!NotifyAdvance(t) PROVE CntIInv'
  <1>1. /\ note[t] \in {0, 1} /\ note[t] # index /\ activeCnt[note[t]] = 1
        /\ advancePc \in {"idle", "or"} /\ \A s \in Threads : s # t => note[s] = -1
    BY DEF CntIInv, Cnt!TypeOK, Notes, Cnt!NotifyAdvance
  <1>2. Cnt!TypeOK' /\ Notes'
    BY <1>1 DEF CntIInv, Cnt!TypeOK, Notes, Cnt!NotifyAdvance
  <1>3. ASSUME NEW i \in {0, 1}
        PROVE  /\ IsFiniteSet(Cnt!InGen(i)')
               /\ (i = index => CurrentCount(i))'
               /\ (i # index => PreviousCount(i))'
    <2>1. IsFiniteSet(Cnt!InGen(i)') /\ Size(i)' = Size(i)
      BY Stays DEF Cnt!NotifyAdvance
    <2>2. CASE i = index
      BY <1>1, <2>1, <2>2, Counts DEF CurrentCount, Activations, Size, Cnt!NotifyAdvance, Cnt!TypeOK
    <2>3. CASE i # index
      <3>1. i = note[t] /\ activeCnt'[i] = 0
        BY <1>1, <2>3 DEF CntIInv, Cnt!TypeOK, Cnt!NotifyAdvance
      <3>2. Size(i) = 0
        BY <1>1, <2>3, <3>1, Counts DEF PreviousCount, Size
      <3> QED BY <1>1, <2>1, <3>1, <3>2 DEF PreviousCount, Size, Cnt!NotifyAdvance
    <2> QED BY <2>1, <2>2, <2>3 DEF Cnt!NotifyAdvance
  <1> QED BY <1>2, <1>3 DEF CntIInv

(* A zero found in the counter of the previous generation stays zero. *)
LEMMA TestStep ==
  ASSUME CntIInv, Cnt!AdvanceTest PROVE CntIInv'
  <1>1. index \in {0, 1} /\ Cnt!newIndex \in {0, 1} /\ Cnt!newIndex # index
    BY DEF CntIInv, Cnt!TypeOK, Cnt!newIndex
  <1>2. Cnt!TypeOK' /\ Notes'
    BY <1>1 DEF CntIInv, Cnt!TypeOK, Notes, Cnt!AdvanceTest, Cnt!newIndex
  <1>3. ASSUME NEW i \in {0, 1}
        PROVE  /\ IsFiniteSet(Cnt!InGen(i)')
               /\ (i = index => CurrentCount(i))'
               /\ (i # index => PreviousCount(i))'
    <2>1. IsFiniteSet(Cnt!InGen(i)') /\ Size(i)' = Size(i)
      BY Stays DEF Cnt!AdvanceTest
    <2>2. CASE i = index
      BY <2>1, <2>2, Counts DEF CurrentCount, Activations, Size, Cnt!AdvanceTest
    <2>3. CASE i # index
      <3>1. i = Cnt!newIndex
        BY <1>1, <2>3 DEF Cnt!newIndex
      <3> QED BY <2>1, <2>3, <3>1, Counts DEF PreviousCount, Size, Cnt!AdvanceTest
    <2> QED BY <2>1, <2>2, <2>3 DEF Cnt!AdvanceTest
  <1> QED BY <1>2, <1>3 DEF CntIInv

(* The interest bit goes into a counter that has none, or is there already. *)
LEMMA OrStep ==
  ASSUME CntIInv, Cnt!AdvanceOr PROVE CntIInv'
  <1>1. index \in {0, 1} /\ Cnt!newIndex \in {0, 1} /\ Cnt!newIndex # index /\ Cnt!newIndex = 1 - index
    BY DEF CntIInv, Cnt!TypeOK, Cnt!newIndex
  <1>2. /\ PreviousCount(Cnt!newIndex) /\ Size(Cnt!newIndex) \in Nat /\ activeCnt[Cnt!newIndex] \in Int
        /\ advancePc = "or" /\ advancePc' \in {"idle", "notify"} /\ index' = index
        /\ activeCnt'[Cnt!newIndex] = IF activeCnt[Cnt!newIndex] % 2 = 0 THEN activeCnt[Cnt!newIndex] + 1
                                      ELSE activeCnt[Cnt!newIndex]
        /\ activeCnt'[index] = activeCnt[index]
    BY <1>1, Counts DEF Cnt!AdvanceOr, Cnt!TypeOK
  <1>3. activeCnt[Cnt!newIndex] = 2 * Size(Cnt!newIndex) \/ activeCnt[Cnt!newIndex] = 2 * Size(Cnt!newIndex) + 1
    BY <1>2 DEF PreviousCount, Size
  <1>4. activeCnt'[Cnt!newIndex] = 2 * Size(Cnt!newIndex) + 1
    BY <1>2, <1>3
  <1>5. Cnt!TypeOK'
    BY <1>1, <1>2 DEF CntIInv, Cnt!TypeOK, Cnt!AdvanceOr
  <1>6. ASSUME NEW t \in Threads, note[t] # -1
        PROVE  activeCnt[Cnt!newIndex] = 1 /\ note[t] = Cnt!newIndex
    BY <1>1, <1>6, SMTT(30), Z3 DEF CntIInv, Notes
  <1>7. Notes'
    BY <1>1, <1>2, <1>6 DEF CntIInv, Notes, Cnt!AdvanceOr
  <1>8. ASSUME NEW i \in {0, 1}
        PROVE  /\ IsFiniteSet(Cnt!InGen(i)')
               /\ (i = index => CurrentCount(i))'
               /\ (i # index => PreviousCount(i))'
    <2>1. IsFiniteSet(Cnt!InGen(i)') /\ Size(i)' = Size(i)
      BY Stays DEF Cnt!AdvanceOr
    <2>2. CASE i = index
      BY <1>2, <2>1, <2>2, Counts, SMTT(30), Z3 DEF CurrentCount, Activations, Size, Cnt!AdvanceOr
    <2>3. CASE i # index
      <3>1. i = Cnt!newIndex
        BY <1>1, <2>3
      <3>2. (activeCnt'[i] = 1 /\ advancePc' = "idle") => \E t \in Threads : note'[t] = i
        BY <1>2, <1>3, <1>4, <3>1 DEF PreviousCount, Cnt!AdvanceOr
      <3>3. advancePc' = "notify" => activeCnt'[i] = 1
        BY <1>2, <3>1 DEF Cnt!AdvanceOr
      <3> QED BY <1>2, <1>4, <2>1, <2>3, <3>1, <3>2, <3>3 DEF PreviousCount, Size
    <2> QED BY <1>2, <2>1, <2>2, <2>3
  <1> QED BY <1>5, <1>7, <1>8 DEF CntIInv

(* advance itself resets the counter when it found zero under the or. *)
LEMMA AdvanceNotifyStep ==
  ASSUME CntIInv, Cnt!AdvanceNotify PROVE CntIInv'
  <1>1. index \in {0, 1} /\ Cnt!newIndex \in {0, 1} /\ Cnt!newIndex # index /\ Cnt!newIndex = 1 - index
    BY DEF CntIInv, Cnt!TypeOK, Cnt!newIndex
  <1>2. Cnt!TypeOK' /\ Notes'
    BY <1>1 DEF CntIInv, Cnt!TypeOK, Notes, Cnt!AdvanceNotify
  <1>3. ASSUME NEW i \in {0, 1}
        PROVE  /\ IsFiniteSet(Cnt!InGen(i)')
               /\ (i = index => CurrentCount(i))'
               /\ (i # index => PreviousCount(i))'
    <2>1. IsFiniteSet(Cnt!InGen(i)') /\ Size(i)' = Size(i)
      BY Stays DEF Cnt!AdvanceNotify
    <2>2. CASE i = index
      BY <1>1, <2>1, <2>2, Counts, SMTT(30), Z3
         DEF CurrentCount, Activations, Size, Cnt!AdvanceNotify, Cnt!TypeOK
    <2>3. CASE i # index
      <3>1. i = Cnt!newIndex /\ activeCnt'[i] = 0 /\ Size(i) = 0
        BY <1>1, <2>3, Counts, SMTT(30), Z3 DEF Cnt!AdvanceNotify, Cnt!TypeOK, PreviousCount, Size
      <3> QED BY <2>1, <2>3, <3>1, SMTT(30), Z3 DEF PreviousCount, Size, Cnt!AdvanceNotify
    <2> QED BY <2>1, <2>2, <2>3 DEF Cnt!AdvanceNotify
  <1> QED BY <1>2, <1>3 DEF CntIInv

(* The switch: the previous generation is empty, the current one becomes   *)
(* the previous one and a generation without threads the current one.      *)
LEMMA StoreStep ==
  ASSUME CntIInv, Cnt!AdvanceStore PROVE CntIInv'
  <1>1. index \in {0, 1} /\ Cnt!newIndex \in {0, 1} /\ Cnt!newIndex # index /\ Cnt!newIndex = 1 - index
        /\ index' = Cnt!newIndex /\ advancePc = "store" /\ advancePc' = "add"
    BY DEF CntIInv, Cnt!TypeOK, Cnt!newIndex, Cnt!AdvanceStore
  <1>2. Cnt!TypeOK'
    BY <1>1 DEF CntIInv, Cnt!TypeOK, Cnt!AdvanceStore, Cnt!HUGE_COUNT
  <1>3. Notes'
    BY <1>1 DEF CntIInv, Notes, Cnt!AdvanceStore
  <1>4. ASSUME NEW i \in {0, 1}
        PROVE  /\ IsFiniteSet(Cnt!InGen(i)')
               /\ (i = index => CurrentCount(i))'
               /\ (i # index => PreviousCount(i))'
    <2>1. IsFiniteSet(Cnt!InGen(i)') /\ Size(i)' = Size(i)
      BY Stays DEF Cnt!AdvanceStore
    <2>2. CASE i = index
      BY <1>1, <2>1, <2>2, Counts DEF PreviousCount, Activations, Size, Cnt!AdvanceStore
    <2>3. CASE i = Cnt!newIndex
      <3>1. activeCnt[i] = 0 /\ Size(i) = 0
        BY <1>1, <2>3, Counts DEF PreviousCount, Size
      <3> QED BY <1>1, <2>1, <2>3, <3>1
              DEF CurrentCount, Activations, Size, Cnt!AdvanceStore, Cnt!HUGE_COUNT
    <2> QED BY <1>1, <2>2, <2>3
  <1> QED BY <1>2, <1>3, <1>4 DEF CntIInv

(* With the old activations added the counter counts threads. *)
LEMMA AddStep ==
  ASSUME CntIInv, Cnt!AdvanceAdd PROVE CntIInv'
  <1>1. index \in {0, 1} /\ 1 - index \in {0, 1} /\ 1 - index # index
    BY DEF CntIInv, Cnt!TypeOK
  <1>2. Cnt!TypeOK' /\ Notes'
    BY <1>1 DEF CntIInv, Cnt!TypeOK, Notes, Cnt!AdvanceAdd
  <1>3. ASSUME NEW i \in {0, 1}
        PROVE  /\ IsFiniteSet(Cnt!InGen(i)')
               /\ (i = index => CurrentCount(i))'
               /\ (i # index => PreviousCount(i))'
    <2>1. IsFiniteSet(Cnt!InGen(i)') /\ Size(i)' = Size(i)
      BY Stays DEF Cnt!AdvanceAdd
    <2>2. CASE i = index
      BY <1>1, <2>1, <2>2, Counts DEF CurrentCount, Activations, Size, Cnt!AdvanceAdd, Cnt!TypeOK
    <2>3. CASE i # index
      <3>1. activeCnt'[i] = 2 * Size(i)
        BY <1>1, <2>3, Counts DEF Cnt!AdvanceAdd, Cnt!TypeOK, PreviousCount, Size
      <3> QED BY <2>1, <2>3, <3>1, SMTT(30), Z3 DEF PreviousCount, Size, Cnt!AdvanceAdd
    <2> QED BY <2>1, <2>2, <2>3 DEF Cnt!AdvanceAdd
  <1> QED BY <1>2, <1>3 DEF CntIInv

(* Taking the large number out again leaves the activations. *)
LEMMA SubStep ==
  ASSUME CntIInv, Cnt!AdvanceSub PROVE CntIInv'
  <1>1. Cnt!TypeOK' /\ Notes'
    BY DEF CntIInv, Cnt!TypeOK, Notes, Cnt!AdvanceSub, Cnt!HUGE_COUNT
  <1>2. ASSUME NEW i \in {0, 1}
        PROVE  /\ IsFiniteSet(Cnt!InGen(i)')
               /\ (i = index => CurrentCount(i))'
               /\ (i # index => PreviousCount(i))'
    <2>1. IsFiniteSet(Cnt!InGen(i)') /\ Size(i)' = Size(i)
      BY Stays DEF Cnt!AdvanceSub
    <2>2. CASE i = index
      BY <2>1, <2>2, Counts DEF CurrentCount, Activations, Size, Cnt!AdvanceSub, Cnt!HUGE_COUNT
    <2>3. CASE i # index
      <3>1. activeCnt'[i] = 2 * Size(i) /\ Size(i) \in Nat
        BY <2>3, Counts DEF Cnt!AdvanceSub, PreviousCount, Size
      <3> QED BY <2>1, <2>3, <3>1, SMTT(30), Z3 DEF PreviousCount, Size, Cnt!AdvanceSub
    <2> QED BY <2>1, <2>2, <2>3 DEF Cnt!AdvanceSub
  <1> QED BY <1>1, <1>2 DEF CntIInv

(* The invariant is inductive. *)
LEMMA Inductive == CntIInv /\ [Cnt!Next]_(Cnt!vars) => CntIInv'
  <1> SUFFICES ASSUME CntIInv, [Cnt!Next]_(Cnt!vars) PROVE CntIInv'
    OBVIOUS
  <1>1. CASE \E t \in Threads : Cnt!Activate(t) \/ Cnt!Deactivate(t) \/ Cnt!NotifyAdvance(t)
    BY <1>1, ActivateStep, DeactivateStep, NotifyStep
  <1>2. CASE Cnt!Advance
    BY <1>2, TestStep, OrStep, AdvanceNotifyStep, StoreStep, AddStep, SubStep DEF Cnt!Advance
  <1>3. CASE UNCHANGED Cnt!vars
    <2>1. Cnt!TypeOK' /\ Notes'
      BY <1>3, SMTT(30), Z3 DEF Cnt!vars, CntIInv, Cnt!TypeOK, Notes
    <2>2. ASSUME NEW i \in {0, 1}
          PROVE  /\ IsFiniteSet(Cnt!InGen(i)')
                 /\ (i = index => CurrentCount(i))'
                 /\ (i # index => PreviousCount(i))'
      <3>1. IsFiniteSet(Cnt!InGen(i)') /\ Size(i)' = Size(i)
        BY <1>3, Stays DEF Cnt!vars
      <3> QED BY <1>3, <3>1 DEF Cnt!vars, CntIInv, CurrentCount, PreviousCount, Activations, Size
    <2> QED BY <2>1, <2>2 DEF CntIInv
  <1> QED BY <1>1, <1>2, <1>3 DEF Cnt!Next

(* NotifyAdvance, from a thread or from advance, finds the counter at 1    *)
(* with no thread counted in it and is its only writer; and an interest    *)
(* that advance registered never keeps it from advancing once the previous *)
(* generation is empty.                                                    *)
THEOREM CountersCorrect == Cnt!Spec => [](Cnt!NotifyFindsOne /\ Cnt!AdvanceNotBlocked)
  <1>1. ASSUME CntIInv PROVE Cnt!NotifyFindsOne /\ Cnt!AdvanceNotBlocked
    <2>1. index \in {0, 1} /\ Cnt!newIndex \in {0, 1} /\ Cnt!newIndex # index /\ Cnt!newIndex = 1 - index
      BY <1>1 DEF CntIInv, Cnt!TypeOK, Cnt!newIndex
    <2>2. PreviousCount(Cnt!newIndex) /\ Size(Cnt!newIndex) \in Nat
          /\ (Size(Cnt!newIndex) = 0 <=> Cnt!InGen(Cnt!newIndex) = {})
      BY <1>1, <2>1, Counts, GenSize, SMTT(30), Z3
    <2>3. activeCnt[Cnt!newIndex] = 1 /\ advancePc \in {"idle", "or", "notify"} => Cnt!InGen(Cnt!newIndex) = {}
      BY <2>2, SMTT(30), Z3 DEF PreviousCount, Size
    <2>4. Cnt!NotifyFindsOne
      BY <1>1, <2>1, <2>2, <2>3, SMTT(30), Z3 DEF Cnt!NotifyFindsOne, CntIInv, Notes, PreviousCount
    <2>5. Cnt!AdvanceNotBlocked
      BY <2>1, <2>2 DEF Cnt!AdvanceNotBlocked, PreviousCount, Size
    <2> QED BY <2>4, <2>5
  <1> HIDE DEF CntIInv, Cnt!NotifyFindsOne, Cnt!AdvanceNotBlocked
  <1> QED BY <1>1, CntInitIInv, Inductive, PTL DEF Cnt!Spec

(* Seen from the object manager, each step of the counters is a step of    *)
(* Generations or none at all: activate and deactivate are the thread's    *)
(* own, the FetchAndStore of advance is the switch of generations, and it  *)
(* happens only when no thread of the previous generation is left.         *)
THEOREM CountersImplementGenerations == Cnt!Spec => Cnt!ImplementsGenerations
  <1>1. Cnt!Init => Cnt!Gens!InitGen
    BY DEF Cnt!Init, Cnt!Gens!InitGen, Cnt!gen
  <1>2. ASSUME CntIInv, [Cnt!Next]_(Cnt!vars) PROVE [Cnt!GensNext]_(Cnt!gen)
    <2>0. Cnt!TypeOK
      BY <1>2 DEF CntIInv
    <2>1. ASSUME NEW t \in Threads, Cnt!Activate(t) PROVE Cnt!Gens!activate(t)
      <3>1. Cnt!gen[t] = "none"
        BY <2>1 DEF Cnt!gen, Cnt!Activate
      <3>2. index' = index /\ index # -1
        BY <2>0, <2>1 DEF Cnt!TypeOK, Cnt!Activate
      <3>3. \A s \in Threads : cntP'[s] = IF s = t THEN index ELSE cntP[s]
        BY <2>0, <2>1 DEF Cnt!TypeOK, Cnt!Activate
      <3>4. Cnt!gen' = [Cnt!gen EXCEPT ![t] = "cur"]
        BY <3>2, <3>3, Zenon DEF Cnt!gen
      <3> QED BY <3>1, <3>4 DEF Cnt!Gens!activate, Cnt!Gens!Active
    <2>2. ASSUME NEW t \in Threads, Cnt!Deactivate(t) PROVE Cnt!Gens!deactivate(t)
      <3>1. Cnt!gen[t] # "none"
        BY <2>2 DEF Cnt!gen, Cnt!Deactivate
      <3>2. Cnt!gen' = [Cnt!gen EXCEPT ![t] = "none"]
        BY <2>0, <2>2, Zenon DEF Cnt!gen, Cnt!Deactivate, Cnt!TypeOK
      <3> QED BY <3>1, <3>2 DEF Cnt!Gens!deactivate, Cnt!Gens!Active
    <2>3. ASSUME Cnt!AdvanceStore PROVE Cnt!Gens!advance(0)
      <3>1. index \in {0, 1} /\ Cnt!newIndex \in {0, 1} /\ Cnt!newIndex # index /\ Cnt!newIndex = 1 - index
        BY <2>0 DEF Cnt!TypeOK, Cnt!newIndex
      <3>2. PreviousCount(Cnt!newIndex) /\ (Size(Cnt!newIndex) = 0 <=> Cnt!InGen(Cnt!newIndex) = {})
        BY <1>2, <3>1, Counts, GenSize, SMTT(30), Z3
      <3>3. Cnt!InGen(Cnt!newIndex) = {}
        BY <2>3, <3>2 DEF PreviousCount, Size, Cnt!AdvanceStore
      <3>4. \A t \in Threads : cntP[t] \in {-1, index}
        BY <2>0, <3>1, <3>3 DEF Cnt!TypeOK, Cnt!InGen
      <3>5. \A t \in Threads : Cnt!gen[t] # "prev"
        BY <3>4 DEF Cnt!gen
      <3>6. Cnt!gen' = [t \in Threads |-> IF Cnt!gen[t] # "none" THEN "prev" ELSE Cnt!gen[t]]
        BY <2>0, <2>3, <3>1, <3>4 DEF Cnt!gen, Cnt!AdvanceStore, Cnt!TypeOK
      <3>7. Cnt!Gens!On(0) = Threads
        BY DEF Cnt!Gens!On
      <3> QED BY <3>5, <3>6, <3>7 DEF Cnt!Gens!advance, Cnt!Gens!Active
    <2>4. ASSUME UNCHANGED <<index, cntP>> PROVE Cnt!gen' = Cnt!gen
      BY <2>4 DEF Cnt!gen
    <2>5. CASE \E t \in Threads : Cnt!Activate(t) \/ Cnt!Deactivate(t) \/ Cnt!NotifyAdvance(t)
      BY <2>1, <2>2, <2>4, <2>5, SMTT(30), Z3 DEF Cnt!GensNext, Cnt!NotifyAdvance
    <2>6. CASE Cnt!Advance
      BY <2>3, <2>4, <2>6 DEF Cnt!GensNext, Cnt!Advance, Cnt!AdvanceTest, Cnt!AdvanceOr, Cnt!AdvanceNotify,
                              Cnt!AdvanceAdd, Cnt!AdvanceSub
    <2>7. CASE UNCHANGED Cnt!vars
      BY <2>4, <2>7 DEF Cnt!vars
    <2> QED BY <1>2, <2>5, <2>6, <2>7 DEF Cnt!Next
  <1> HIDE DEF CntIInv, Cnt!GensNext, Cnt!gen
  <1> QED BY <1>1, <1>2, CntInitIInv, Inductive, PTL DEF Cnt!Spec, Cnt!ImplementsGenerations
=============================================================================
