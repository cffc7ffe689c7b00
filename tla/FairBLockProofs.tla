-------------------------- MODULE FairBLockProofs ---------------------------
(***************************************************************************)
(* Proofs about FairBLock for any set of threads: mutual exclusion, the    *)
(* chain of waiters that a release follows, and the lifetime of the stack  *)
(* elements that queueing threads write into.                              *)
(*                                                                         *)
(* None of these is inductive: who is handed the lock is decided by the    *)
(* pointers that earlier waiters stored.  IInv therefore says where tail,  *)
(* the head and the link of every element point at each step.  It speaks   *)
(* of neighbours only, never of the whole queue, so no sequence is needed. *)
(***************************************************************************)
EXTENDS FairBLock, TLAPS

\* An owner that has not yet fetched the first waiter.
HoldPCs == {"held", "releaseCAS", "readHead"}

\* Queued, linked and not yet handed the lock.
Waits(w) == w \in Threads /\ pc[w] \in {"wait", "block"} /\ waiting[w]

\* w is first in the queue behind the owner o: it found the lock held
\* without waiters, or queued behind o itself.
First(w, o) == Waits(w) /\ el[w] \in {LockEl, o}

\* A thread about to queue has seen some tail.
SeenTail == \A t \in Threads : pc[t] = "queueCAS" => el[t] # Nil

\* Between the compare-and-store and the store of line 120: the element is
\* not the tail, is not linked, and is still needed by its thread.
Linking ==
  \A t \in Threads : pc[t] = "link" =>
    /\ waiting[t]
    /\ el[t] \in Elements /\ el[t] # tail /\ nextThread[el[t]] = Nil
    /\ el[t] \in Threads => pc[el[t]] \in QueuedPCs \cup {"clearHead", "tailCAS", "awaitNext"}
    /\ el[t] = LockEl => tail # Nil /\ \A o \in Threads : Owns(o) => pc[o] \in HoldPCs

OneLinks ==
  \A t, u \in Threads : pc[t] = "link" /\ pc[u] = "link" /\ el[t] = el[u] => t = u

TailRight ==
  /\ tail \in Threads => /\ pc[tail] \in QueuedPCs \cup {"clearHead", "tailCAS"}
                         /\ nextThread[tail] = Nil
  /\ tail = LockEl => \A o \in Threads : Owns(o) => pc[o] \in {"held", "releaseCAS"}
  /\ tail \in {LockEl, Nil} => nextThread[LockEl] = Nil

HeadRight ==
  \A o \in Threads :
    /\ pc[o] \in {"tailCAS", "awaitNext", "setHead"} => nextThread[LockEl] = Nil
    /\ pc[o] = "setHead" => nextThread[o] # Nil
    /\ pc[o] \in HoldPCs /\ nextThread[LockEl] # Nil => First(nextThread[LockEl], o)
    /\ pc[o] \in {"readWaiter", "wake"} => First(el[o], o)

NextRight ==
  \A v \in Threads :
    pc[v] \in QueuedPCs \cup ConvertPCs /\ nextThread[v] # Nil =>
      Waits(nextThread[v]) /\ el[nextThread[v]] = v

IInv ==
  /\ TypeOK /\ MutualExclusion /\ FreeMeansNoOwner
  /\ SeenTail /\ Linking /\ OneLinks /\ TailRight /\ HeadRight /\ NextRight

USE ElementsDistinct DEF IInv, Elements, PCs, SeekPCs, QueuedPCs, ConvertPCs,
                         ReleasePCs, HoldPCs, Goto

LEMMA InitIInv == Init => IInv
  BY DEF Init, TypeOK, MutualExclusion, FreeMeansNoOwner, SeenTail, Linking,
         OneLinks, TailRight, HeadRight, NextRight, First, Waits, Owns

-----------------------------------------------------------------------------
(* One lemma per step of the code.  A step first keeps the types, then the  *)
(* conjuncts that need no other, then those it could disturb, each with the *)
(* conjuncts that protect it.                                               *)

\* Who takes a free lock finds no owner.
LEMMA AcquireStep == ASSUME IInv, NEW t \in Threads, Acquire(t) PROVE IInv'
<1> USE DEF Acquire, CASTail
<1>1. TypeOK'
  BY DEF TypeOK
<1>2. FreeMeansNoOwner' /\ SeenTail' /\ Linking' /\ OneLinks' /\ NextRight'
  BY DEF TypeOK, FreeMeansNoOwner, SeenTail, Linking, OneLinks, NextRight,
         Waits, Owns
<1>3. MutualExclusion'
  BY DEF TypeOK, MutualExclusion, FreeMeansNoOwner, Owns
<1>4. TailRight'
  BY DEF TypeOK, FreeMeansNoOwner, TailRight, Owns
<1>5. HeadRight'
  BY DEF TypeOK, TailRight, HeadRight, First, Waits, Owns
<1> QED
  BY <1>1, <1>2, <1>3, <1>4, <1>5

LEMMA TryAcquireStep == ASSUME IInv, NEW t \in Threads, TryAcquire(t) PROVE IInv'
<1> USE DEF TryAcquire, CASTail
<1>1. TypeOK'
  BY DEF TypeOK
<1>2. FreeMeansNoOwner' /\ SeenTail' /\ Linking' /\ OneLinks' /\ NextRight'
  BY DEF TypeOK, FreeMeansNoOwner, SeenTail, Linking, OneLinks, NextRight,
         Waits, Owns
<1>3. MutualExclusion'
  BY DEF TypeOK, MutualExclusion, FreeMeansNoOwner, Owns
<1>4. TailRight'
  BY DEF TypeOK, FreeMeansNoOwner, TailRight, Owns
<1>5. HeadRight'
  BY DEF TypeOK, TailRight, HeadRight, First, Waits, Owns
<1> QED
  BY <1>1, <1>2, <1>3, <1>4, <1>5

LEMMA SpinReadStep == ASSUME IInv, NEW t \in Threads, SpinRead(t) PROVE IInv'
<1> USE DEF SpinRead
<1>1. TypeOK'
  BY DEF TypeOK
<1>2. MutualExclusion' /\ FreeMeansNoOwner' /\ SeenTail' /\ Linking'
        /\ OneLinks' /\ TailRight' /\ HeadRight' /\ NextRight'
  BY DEF TypeOK, MutualExclusion, FreeMeansNoOwner, SeenTail, Linking,
         OneLinks, TailRight, HeadRight, NextRight, First, Waits, Owns
<1> QED
  BY <1>1, <1>2

LEMMA SpinCASStep == ASSUME IInv, NEW t \in Threads, SpinCAS(t) PROVE IInv'
<1> USE DEF SpinCAS, CASTail
<1>1. TypeOK'
  BY DEF TypeOK
<1>2. FreeMeansNoOwner' /\ SeenTail' /\ Linking' /\ OneLinks' /\ NextRight'
  BY DEF TypeOK, FreeMeansNoOwner, SeenTail, Linking, OneLinks, NextRight,
         Waits, Owns
<1>3. MutualExclusion'
  BY DEF TypeOK, MutualExclusion, FreeMeansNoOwner, Owns
<1>4. TailRight'
  BY DEF TypeOK, FreeMeansNoOwner, TailRight, Owns
<1>5. HeadRight'
  BY DEF TypeOK, TailRight, HeadRight, First, Waits, Owns
<1> QED
  BY <1>1, <1>2, <1>3, <1>4, <1>5

LEMMA ReadTailStep == ASSUME IInv, NEW t \in Threads, ReadTail(t) PROVE IInv'
<1> USE DEF ReadTail
<1>1. TypeOK'
  BY DEF TypeOK
<1>2. MutualExclusion' /\ FreeMeansNoOwner' /\ SeenTail' /\ Linking'
        /\ OneLinks' /\ TailRight' /\ HeadRight' /\ NextRight'
  BY DEF TypeOK, MutualExclusion, FreeMeansNoOwner, SeenTail, Linking,
         OneLinks, TailRight, HeadRight, NextRight, First, Waits, Owns
<1> QED
  BY <1>1, <1>2

LEMMA GrabCASStep == ASSUME IInv, NEW t \in Threads, GrabCAS(t) PROVE IInv'
<1> USE DEF GrabCAS, CASTail
<1>1. TypeOK'
  BY DEF TypeOK
<1>2. FreeMeansNoOwner' /\ SeenTail' /\ Linking' /\ OneLinks' /\ NextRight'
  BY DEF TypeOK, FreeMeansNoOwner, SeenTail, Linking, OneLinks, NextRight,
         Waits, Owns
<1>3. MutualExclusion'
  BY DEF TypeOK, MutualExclusion, FreeMeansNoOwner, Owns
<1>4. TailRight'
  BY DEF TypeOK, FreeMeansNoOwner, TailRight, Owns
<1>5. HeadRight'
  BY DEF TypeOK, TailRight, HeadRight, First, Waits, Owns
<1> QED
  BY <1>1, <1>2, <1>3, <1>4, <1>5

\* The new tail is linked to the old one by nobody else, because only the tail
\* can be queued behind.
LEMMA QueueCASStep == ASSUME IInv, NEW t \in Threads, QueueCAS(t) PROVE IInv'
<1> USE DEF QueueCAS, CASTail, Forget
<1>1. TypeOK'
  BY Zenon DEF TypeOK
<1>2. MutualExclusion' /\ SeenTail' /\ TailRight' /\ HeadRight'
        /\ NextRight'
  BY DEF TypeOK, MutualExclusion, SeenTail, TailRight, HeadRight, NextRight,
         First, Waits, Owns
<1>3. FreeMeansNoOwner'
  BY DEF TypeOK, FreeMeansNoOwner, SeenTail, Owns
<1>4. Linking'
  BY DEF TypeOK, SeenTail, Linking, TailRight, Owns
<1>5. OneLinks'
  BY DEF TypeOK, Linking, OneLinks
<1> QED
  BY <1>1, <1>2, <1>3, <1>4, <1>5

\* The store goes into an element that nobody else links.
LEMMA LinkStep == ASSUME IInv, NEW t \in Threads, Link(t) PROVE IInv'
<1> USE DEF Link
<1>1. TypeOK'
  BY Zenon DEF TypeOK
<1>2. SeenTail' /\ OneLinks'
  BY DEF SeenTail, OneLinks
<1>3. MutualExclusion'
  BY DEF TypeOK, MutualExclusion, Linking, Owns
<1>4. FreeMeansNoOwner'
  BY DEF TypeOK, FreeMeansNoOwner, Linking, Owns
<1>5. Linking'
  BY DEF TypeOK, Linking, OneLinks, Owns
<1>6. TailRight'
  BY DEF TypeOK, Linking, TailRight, Owns
<1>7. HeadRight'
  BY DEF TypeOK, Linking, HeadRight, First, Waits, Owns
<1>8. NextRight'
  BY DEF TypeOK, Linking, NextRight, Waits, Owns
<1> QED
  BY <1>1, <1>2, <1>3, <1>4, <1>5, <1>6, <1>7, <1>8

LEMMA WaitCheckStep == ASSUME IInv, NEW t \in Threads, WaitCheck(t) PROVE IInv'
<1> USE DEF WaitCheck, Forget
<1>1. TypeOK'
  BY DEF TypeOK
<1>2. MutualExclusion' /\ FreeMeansNoOwner' /\ SeenTail' /\ Linking'
        /\ OneLinks' /\ TailRight' /\ HeadRight' /\ NextRight'
  BY DEF TypeOK, MutualExclusion, FreeMeansNoOwner, SeenTail, Linking,
         OneLinks, TailRight, HeadRight, NextRight, First, Waits, Owns
<1> QED
  BY <1>1, <1>2

LEMMA BlockStep == ASSUME IInv, NEW t \in Threads, Block(t) PROVE IInv'
<1> USE DEF Block
<1>1. TypeOK'
  BY DEF TypeOK
<1>2. MutualExclusion' /\ FreeMeansNoOwner' /\ SeenTail' /\ Linking'
        /\ OneLinks' /\ TailRight' /\ HeadRight' /\ NextRight'
  BY DEF TypeOK, MutualExclusion, FreeMeansNoOwner, SeenTail, Linking,
         OneLinks, TailRight, HeadRight, NextRight, First, Waits, Owns
<1> QED
  BY <1>1, <1>2

LEMMA ClearHeadStep == ASSUME IInv, NEW t \in Threads, ClearHead(t) PROVE IInv'
<1> USE DEF ClearHead
<1>1. TypeOK'
  BY DEF TypeOK
<1>2. MutualExclusion' /\ FreeMeansNoOwner' /\ SeenTail' /\ Linking'
        /\ OneLinks' /\ TailRight' /\ HeadRight' /\ NextRight'
  BY DEF TypeOK, MutualExclusion, FreeMeansNoOwner, SeenTail, Linking,
         OneLinks, TailRight, HeadRight, NextRight, First, Waits, Owns
<1> QED
  BY <1>1, <1>2

\* The owner is the last of the queue: its element leaves the tail.
LEMMA TailCASStep == ASSUME IInv, NEW t \in Threads, TailCAS(t) PROVE IInv'
<1> USE DEF TailCAS, CASTail
<1>1. TypeOK'
  BY DEF TypeOK
<1>2. MutualExclusion' /\ FreeMeansNoOwner' /\ SeenTail' /\ Linking'
        /\ OneLinks' /\ HeadRight' /\ NextRight'
  BY DEF TypeOK, MutualExclusion, FreeMeansNoOwner, SeenTail, Linking,
         OneLinks, HeadRight, NextRight, First, Waits, Owns
<1>3. TailRight'
  BY DEF TypeOK, MutualExclusion, TailRight, HeadRight, Owns
<1> QED
  BY <1>1, <1>2, <1>3

LEMMA AwaitNextStep == ASSUME IInv, NEW t \in Threads, AwaitNext(t) PROVE IInv'
<1> USE DEF AwaitNext
<1>1. TypeOK'
  BY DEF TypeOK
<1>2. MutualExclusion' /\ FreeMeansNoOwner' /\ SeenTail' /\ Linking'
        /\ OneLinks' /\ TailRight' /\ HeadRight' /\ NextRight'
  BY DEF TypeOK, MutualExclusion, FreeMeansNoOwner, SeenTail, Linking,
         OneLinks, TailRight, HeadRight, NextRight, First, Waits, Owns
<1> QED
  BY <1>1, <1>2

\* The next waiter moves from the owner's element to the lock's.
LEMMA SetHeadStep == ASSUME IInv, NEW t \in Threads, SetHead(t) PROVE IInv'
<1> USE DEF SetHead
<1>1. TypeOK'
  BY DEF TypeOK
<1>2. MutualExclusion' /\ FreeMeansNoOwner' /\ SeenTail' /\ Linking'
        /\ OneLinks' /\ NextRight'
  BY DEF TypeOK, MutualExclusion, FreeMeansNoOwner, SeenTail, Linking,
         OneLinks, NextRight, Waits, Owns
<1>3. TailRight'
  BY DEF TypeOK, FreeMeansNoOwner, TailRight, Owns
<1>4. HeadRight'
  BY DEF TypeOK, MutualExclusion, HeadRight, NextRight, First, Waits, Owns
<1> QED
  BY <1>1, <1>2, <1>3, <1>4

LEMMA ReleaseStep == ASSUME IInv, NEW t \in Threads, Release(t) PROVE IInv'
<1> USE DEF Release
<1>1. TypeOK'
  BY DEF TypeOK
<1>2. MutualExclusion' /\ FreeMeansNoOwner' /\ SeenTail' /\ Linking'
        /\ OneLinks' /\ TailRight' /\ HeadRight' /\ NextRight'
  BY DEF TypeOK, MutualExclusion, FreeMeansNoOwner, SeenTail, Linking,
         OneLinks, TailRight, HeadRight, NextRight, First, Waits, Owns
<1> QED
  BY <1>1, <1>2

\* The one owner gives up the lock when nobody waits.
LEMMA ReleaseCASStep == ASSUME IInv, NEW t \in Threads, ReleaseCAS(t) PROVE IInv'
<1> USE DEF ReleaseCAS, CASTail
<1>1. TypeOK'
  BY DEF TypeOK
<1>2. MutualExclusion' /\ SeenTail' /\ Linking' /\ OneLinks'
        /\ TailRight' /\ HeadRight' /\ NextRight'
  BY DEF TypeOK, MutualExclusion, SeenTail, Linking, OneLinks, TailRight,
         HeadRight, NextRight, First, Waits, Owns
<1>3. FreeMeansNoOwner'
  BY DEF TypeOK, MutualExclusion, FreeMeansNoOwner, Owns
<1> QED
  BY <1>1, <1>2, <1>3

LEMMA ReadHeadStep == ASSUME IInv, NEW t \in Threads, ReadHead(t) PROVE IInv'
<1> USE DEF ReadHead
<1>1. TypeOK'
  BY DEF TypeOK
<1>2. MutualExclusion' /\ FreeMeansNoOwner' /\ SeenTail' /\ Linking'
        /\ OneLinks' /\ TailRight' /\ HeadRight' /\ NextRight'
  BY DEF TypeOK, MutualExclusion, FreeMeansNoOwner, SeenTail, Linking,
         OneLinks, TailRight, HeadRight, NextRight, First, Waits, Owns
<1> QED
  BY <1>1, <1>2

LEMMA ReadWaiterStep == ASSUME IInv, NEW t \in Threads, ReadWaiter(t) PROVE IInv'
<1> USE DEF ReadWaiter
<1>1. TypeOK'
  BY DEF TypeOK
<1>2. MutualExclusion' /\ FreeMeansNoOwner' /\ SeenTail' /\ Linking'
        /\ OneLinks' /\ TailRight' /\ HeadRight' /\ NextRight'
  BY DEF TypeOK, MutualExclusion, FreeMeansNoOwner, SeenTail, Linking,
         OneLinks, TailRight, HeadRight, NextRight, First, Waits, Owns
<1> QED
  BY <1>1, <1>2

\* Ownership passes to the first waiter, from the only owner.
LEMMA WakeStep == ASSUME IInv, NEW t \in Threads, Wake(t) PROVE IInv'
<1> USE DEF Wake
<1>1. TypeOK'
  BY Zenon DEF TypeOK
<1>2. MutualExclusion' /\ SeenTail' /\ OneLinks' /\ TailRight'
  BY DEF TypeOK, MutualExclusion, SeenTail, OneLinks, TailRight, Owns
<1>3. FreeMeansNoOwner'
  BY DEF TypeOK, FreeMeansNoOwner, HeadRight, First, Waits, Owns
<1>4. Linking'
  BY DEF TypeOK, Linking, HeadRight, First, Owns
<1>5. HeadRight'
  BY DEF TypeOK, MutualExclusion, HeadRight, Owns
<1>6. NextRight'
  BY DEF TypeOK, HeadRight, NextRight, First, Waits, Owns
<1> QED
  BY <1>1, <1>2, <1>3, <1>4, <1>5, <1>6

LEMMA UnblockStep == ASSUME IInv, NEW t \in Threads, Unblock(t) PROVE IInv'
<1> USE DEF Unblock, Forget
<1>1. TypeOK'
  BY Zenon DEF TypeOK
<1>2. MutualExclusion' /\ FreeMeansNoOwner' /\ SeenTail' /\ Linking'
        /\ OneLinks' /\ TailRight' /\ HeadRight' /\ NextRight'
  BY DEF TypeOK, MutualExclusion, FreeMeansNoOwner, SeenTail, Linking,
         OneLinks, TailRight, HeadRight, NextRight, First, Waits, Owns
<1> QED
  BY <1>1, <1>2
LEMMA StutterStep == IInv /\ UNCHANGED vars => IInv'
  BY DEF vars, TypeOK, MutualExclusion, FreeMeansNoOwner, SeenTail, Linking,
         OneLinks, TailRight, HeadRight, NextRight, First, Waits, Owns

LEMMA NextIInv == IInv /\ [Next]_vars => IInv'
<1> SUFFICES ASSUME IInv, [Next]_vars PROVE IInv'
  OBVIOUS
<1>1. CASE UNCHANGED vars
  BY ONLY <1>1, IInv, StutterStep
<1>2. CASE Next
  <2> PICK t \in Threads :
           \/ Acquire(t) \/ TryAcquire(t) \/ Seek(t) \/ Queued(t) \/ Convert(t)
           \/ Release(t) \/ HandOver(t)
    BY ONLY <1>2 DEF Next
  <2> HIDE DEF IInv
  <2>1. CASE Acquire(t) \/ TryAcquire(t) \/ Release(t)
    BY ONLY <2>1, IInv, t \in Threads, AcquireStep, TryAcquireStep, ReleaseStep
  <2>2. CASE Seek(t)
    BY ONLY <2>2, IInv, t \in Threads, SpinReadStep, SpinCASStep, ReadTailStep,
            GrabCASStep, QueueCASStep DEF Seek
  <2>3. CASE Queued(t)
    BY ONLY <2>3, IInv, t \in Threads, LinkStep, WaitCheckStep, BlockStep DEF Queued
  <2>4. CASE Convert(t)
    BY ONLY <2>4, IInv, t \in Threads, ClearHeadStep, TailCASStep, AwaitNextStep,
            SetHeadStep DEF Convert
  <2>5. CASE HandOver(t)
    BY ONLY <2>5, IInv, t \in Threads, ReleaseCASStep, ReadHeadStep,
            ReadWaiterStep, WakeStep, UnblockStep DEF HandOver
  <2> QED
    BY ONLY <2>1, <2>2, <2>3, <2>4, <2>5, Acquire(t) \/ TryAcquire(t) \/ Seek(t)
       \/ Queued(t) \/ Convert(t) \/ Release(t) \/ HandOver(t)
<1> QED
  BY <1>1, <1>2

-----------------------------------------------------------------------------
(* The invariant of the queue: where the tail, the head and the links point *)
(* at every step of acquire and release.                                    *)
THEOREM QueueIsWellFormed == Spec => []IInv
<1> HIDE DEF IInv
<1> QED
  BY InitIInv, NextIInv, PTL DEF Spec

(* Every variable of FairBLock keeps its type: in particular the element    *)
(* pointers of lock.tail and of el are Nil, the lock's or a thread's.       *)
THEOREM TypeCorrect == Spec => []TypeOK
<1>1. IInv => TypeOK
  OBVIOUS
<1> HIDE DEF IInv
<1> QED
  BY QueueIsWellFormed, <1>1, PTL

(* At most one thread is between acquire and the end of release, counting   *)
(* the waiter that has been handed the lock and does not know it yet.       *)
THEOREM OneOwner == Spec => []MutualExclusion
<1>1. IInv => MutualExclusion
  OBVIOUS
<1> HIDE DEF IInv
<1> QED
  BY QueueIsWellFormed, <1>1, PTL

(* lock.tail is 0 exactly when no thread owns the lock (FairBLock.C:15).    *)
THEOREM FreeIsUnowned == Spec => []FreeMeansNoOwner
<1>1. IInv => FreeMeansNoOwner
  OBVIOUS
<1> HIDE DEF IInv
<1> QED
  BY QueueIsWellFormed, <1>1, PTL

(* The assertion of FairBLock.C:198, "lock waiter chain damaged", never     *)
(* fails: release hands the lock to a thread that still waits in the queue. *)
THEOREM ChainIsIntact == Spec => []WaiterChainIntact
<1>1. IInv => WaiterChainIntact
  BY DEF WaiterChainIntact, InQueue, HeadRight, First, Waits
<1> HIDE DEF IInv
<1> QED
  BY QueueIsWellFormed, <1>1, PTL

(* The store of FairBLock.C:120 goes into the lock or into the stack frame  *)
(* of a thread that is still inside _acquire.                               *)
THEOREM LinkTargetIsAlive == Spec => []LinkTargetAlive
<1>1. IInv => LinkTargetAlive
  BY DEF LinkTargetAlive, Linking
<1> HIDE DEF IInv
<1> QED
  BY QueueIsWellFormed, <1>1, PTL
=============================================================================
