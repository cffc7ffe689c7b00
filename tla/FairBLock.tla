------------------------------ MODULE FairBLock ------------------------------
(***************************************************************************)
(* lib/libc/sync/FairBLock.{H,C}: K42's blocking lock (BLock), an MCS-type *)
(* queue lock whose waiter elements live on the waiters' stacks, so that   *)
(* it needs no allocation.  The same algorithm, with spinning in place of  *)
(* Block and Unblock, is SLock.C.                                          *)
(*                                                                         *)
(* An Element is {nextThread, waiter | tail}.  The lock holds one, LockEl, *)
(* whose second field is the tail; every thread has one, myel.  Element    *)
(* pointers are LockEl, a thread (its myel) or Nil.  One step is one read, *)
(* write or compare-and-store of shared memory.                            *)
(***************************************************************************)
EXTENDS Naturals, Sequences, FiniteSets

CONSTANTS Threads, LockEl, Nil

ASSUME ElementsDistinct == LockEl \notin Threads /\ Nil \notin Threads /\ LockEl # Nil

VARIABLES tail,        \* lock.tail: Nil, LockEl or a thread's element
          nextThread,  \* nextThread of every element
          waiting,     \* waiting[t]: t's myel.waiter is t, not NullThreadID
          el,          \* the local el of each thread
          pc,
          wasUnblocked \* Thread::wasUnblocked

vars == <<tail, nextThread, waiting, el, pc, wasUnblocked>>

Elements == Threads \cup {LockEl}

\* _acquire: spinning, then the loop that queues.
SeekPCs == {"spinRead", "spinCAS", "read", "grabCAS", "queueCAS"}
\* Queued on the lock: el->nextThread still to be set, then the wait loop.
QueuedPCs == {"link", "wait", "block"}
\* Handed the lock: putting lock.nextThread and lock.tail right.
ConvertPCs == {"clearHead", "tailCAS", "awaitNext", "setHead"}
ReleasePCs == {"releaseCAS", "readHead", "readWaiter", "wake"}
PCs == {"idle", "held", "unblock"} \cup SeekPCs \cup QueuedPCs \cup ConvertPCs
         \cup ReleasePCs

Goto(t, label) == pc' = [pc EXCEPT ![t] = label]

\* The local el is not used again.
Forget(t) == el' = [el EXCEPT ![t] = Nil]

Init ==
  /\ tail = Nil
  /\ nextThread = [e \in Elements |-> Nil]
  /\ waiting = [t \in Threads |-> FALSE]
  /\ el = [t \in Threads |-> Nil]
  /\ pc = [t \in Threads |-> "idle"]
  /\ wasUnblocked = [t \in Threads |-> FALSE]

-----------------------------------------------------------------------------
\* CompareAndStoreSynced(&lock.tail, from, to) by t, which goes on at yes or no.
CASTail(t, from, to, yes, no) ==
  IF tail = from
  THEN tail' = to /\ Goto(t, yes)
  ELSE UNCHANGED tail /\ Goto(t, no)

(* acquire(): the fast path's compare-and-store, else _acquire().           *)
Acquire(t) ==
  /\ pc[t] = "idle"
  /\ CASTail(t, Nil, LockEl, "held", "spinRead")
  /\ UNCHANGED <<nextThread, waiting, el, wasUnblocked>>

(* tryAcquire(): the compare-and-store alone.                               *)
TryAcquire(t) ==
  /\ pc[t] = "idle"
  /\ CASTail(t, Nil, LockEl, "held", "idle")
  /\ UNCHANGED <<nextThread, waiting, el, wasUnblocked>>

(* The spin loop looks at tail until it is free, has waiters, or the spin   *)
(* and yield limits are reached; the limits are a free choice to go on.     *)
SpinRead(t) ==
  /\ pc[t] = "spinRead"
  /\ \/ tail = Nil    /\ Goto(t, "spinCAS")
     \/ tail = LockEl /\ \E l \in {"spinRead", "read"} : Goto(t, l)
     \/ tail \in Threads /\ Goto(t, "read")
  /\ UNCHANGED <<tail, nextThread, waiting, el, wasUnblocked>>

SpinCAS(t) ==
  /\ pc[t] = "spinCAS"
  /\ \E l \in {"spinRead", "read"} : CASTail(t, Nil, LockEl, "held", l)
  /\ UNCHANGED <<nextThread, waiting, el, wasUnblocked>>

(* The blocking loop: take a free lock, or swing the tail to myel, whose    *)
(* fields nobody else sees before the compare-and-store publishes them.     *)
ReadTail(t) ==
  /\ pc[t] = "read"
  /\ IF tail = Nil
     THEN Goto(t, "grabCAS") /\ UNCHANGED el
     ELSE Goto(t, "queueCAS") /\ el' = [el EXCEPT ![t] = tail]
  /\ UNCHANGED <<tail, nextThread, waiting, wasUnblocked>>

\* Mutant: a store in place of the compare-and-store.
GrabStore(t) ==
  /\ pc[t] = "grabCAS"
  /\ tail' = LockEl
  /\ Goto(t, "held")
  /\ UNCHANGED <<nextThread, waiting, el, wasUnblocked>>

GrabCAS(t) ==
  /\ pc[t] = "grabCAS"
  /\ CASTail(t, Nil, LockEl, "held", "read")
  /\ UNCHANGED <<nextThread, waiting, el, wasUnblocked>>

\* Mutant: a waiter goes straight for the lock when it finds the tail moved.
QueueCASBarge(t) ==
  /\ pc[t] = "queueCAS"
  /\ CASTail(t, el[t], t, "link", "held")
  /\ IF tail = el[t]
     THEN /\ nextThread' = [nextThread EXCEPT ![t] = Nil]
          /\ waiting' = [waiting EXCEPT ![t] = TRUE]
          /\ UNCHANGED el
     ELSE Forget(t) /\ UNCHANGED <<nextThread, waiting>>
  /\ UNCHANGED wasUnblocked

QueueCAS(t) ==
  /\ pc[t] = "queueCAS"
  /\ CASTail(t, el[t], t, "link", "read")
  /\ IF tail = el[t]
     THEN /\ nextThread' = [nextThread EXCEPT ![t] = Nil]
          /\ waiting' = [waiting EXCEPT ![t] = TRUE]
          /\ UNCHANGED el
     ELSE Forget(t) /\ UNCHANGED <<nextThread, waiting>>
  /\ UNCHANGED wasUnblocked

(* Complete the chain: the previous tail points at me.                      *)
Link(t) ==
  /\ pc[t] = "link"
  /\ nextThread' = [nextThread EXCEPT ![el[t]] = t]
  /\ Goto(t, "wait")
  /\ UNCHANGED <<tail, waiting, el, wasUnblocked>>

\* Mutant: a waiter that has been handed the lock keeps looking.
WaitCheckForever(t) ==
  /\ pc[t] = "wait"
  /\ Goto(t, IF waiting[t] THEN "block" ELSE "wait")
  /\ UNCHANGED <<tail, nextThread, waiting, el, wasUnblocked>>

WaitCheck(t) ==
  /\ pc[t] = "wait"
  /\ IF waiting[t]
     THEN Goto(t, "block") /\ UNCHANGED el
     ELSE Goto(t, "clearHead") /\ Forget(t)
  /\ UNCHANGED <<tail, nextThread, waiting, wasUnblocked>>

Block(t) ==
  /\ pc[t] = "block"
  /\ wasUnblocked[t]
  /\ wasUnblocked' = [wasUnblocked EXCEPT ![t] = FALSE]
  /\ Goto(t, "wait")
  /\ UNCHANGED <<tail, nextThread, waiting, el>>

\* Mutant: lock.nextThread keeps the waiter that has become the owner.
ClearHeadNot(t) ==
  /\ pc[t] = "clearHead"
  /\ Goto(t, "tailCAS")
  /\ UNCHANGED <<tail, nextThread, waiting, el, wasUnblocked>>

(* The new owner puts the lock into the held state: no waiters, or the next *)
(* waiter recorded in lock.nextThread so that myel is no longer needed.     *)
ClearHead(t) ==
  /\ pc[t] = "clearHead"
  /\ nextThread' = [nextThread EXCEPT ![LockEl] = Nil]
  /\ Goto(t, "tailCAS")
  /\ UNCHANGED <<tail, waiting, el, wasUnblocked>>

TailCAS(t) ==
  /\ pc[t] = "tailCAS"
  /\ CASTail(t, t, LockEl, "held", "awaitNext")
  /\ UNCHANGED <<nextThread, waiting, el, wasUnblocked>>

\* Mutant: does not wait until the next waiter has linked itself.
AwaitNextNot(t) ==
  /\ pc[t] = "awaitNext"
  /\ Goto(t, "setHead")
  /\ UNCHANGED <<tail, nextThread, waiting, el, wasUnblocked>>

AwaitNext(t) ==
  /\ pc[t] = "awaitNext"
  /\ nextThread[t] # Nil
  /\ Goto(t, "setHead")
  /\ UNCHANGED <<tail, nextThread, waiting, el, wasUnblocked>>

SetHead(t) ==
  /\ pc[t] = "setHead"
  /\ nextThread' = [nextThread EXCEPT ![LockEl] = nextThread[t], ![t] = Nil]
  /\ Goto(t, "held")
  /\ UNCHANGED <<tail, waiting, el, wasUnblocked>>

-----------------------------------------------------------------------------
(* release(): bet that there is no waiter, else hand the lock to the head.  *)
Release(t) ==
  /\ pc[t] = "held"
  /\ Goto(t, "releaseCAS")
  /\ UNCHANGED <<tail, nextThread, waiting, el, wasUnblocked>>

ReleaseCAS(t) ==
  /\ pc[t] = "releaseCAS"
  /\ CASTail(t, LockEl, Nil, "idle", "readHead")
  /\ UNCHANGED <<nextThread, waiting, el, wasUnblocked>>

\* Yields and delays until the head has been linked.
ReadHead(t) ==
  /\ pc[t] = "readHead"
  /\ nextThread[LockEl] # Nil
  /\ el' = [el EXCEPT ![t] = nextThread[LockEl]]
  /\ Goto(t, "readWaiter")
  /\ UNCHANGED <<tail, nextThread, waiting, wasUnblocked>>

\* waiter = el->waiter; the assertion "lock waiter chain damaged" is about it.
ReadWaiter(t) ==
  /\ pc[t] = "readWaiter"
  /\ Goto(t, "wake")
  /\ UNCHANGED <<tail, nextThread, waiting, el, wasUnblocked>>

\* el->waiter = NullThreadID: from here on the waiter owns the lock.
Wake(t) ==
  /\ pc[t] = "wake"
  /\ waiting' = [waiting EXCEPT ![el[t]] = FALSE]
  /\ Goto(t, "unblock")
  /\ UNCHANGED <<tail, nextThread, el, wasUnblocked>>

Unblock(t) ==
  /\ pc[t] = "unblock"
  /\ wasUnblocked' = [wasUnblocked EXCEPT ![el[t]] = TRUE]
  /\ Goto(t, "idle")
  /\ Forget(t)
  /\ UNCHANGED <<tail, nextThread, waiting>>

-----------------------------------------------------------------------------
\* The steps a thread takes by itself once it has called acquire or release.
Seek(t)    == SpinRead(t) \/ SpinCAS(t) \/ ReadTail(t) \/ GrabCAS(t) \/ QueueCAS(t)
Queued(t)  == Link(t) \/ WaitCheck(t) \/ Block(t)
Convert(t) == ClearHead(t) \/ TailCAS(t) \/ AwaitNext(t) \/ SetHead(t)
HandOver(t) == ReleaseCAS(t) \/ ReadHead(t) \/ ReadWaiter(t) \/ Wake(t) \/ Unblock(t)

Next ==
  \E t \in Threads :
    \/ Acquire(t) \/ TryAcquire(t) \/ Seek(t) \/ Queued(t) \/ Convert(t)
    \/ Release(t) \/ HandOver(t)

(* Threads run, and holders release.  Nothing is assumed of a thread that   *)
(* spins or retries: its compare-and-store may lose for ever.               *)
Fairness ==
  \A t \in Threads : WF_vars(Queued(t) \/ Convert(t) \/ Release(t) \/ HandOver(t))

Spec == Init /\ [][Next]_vars /\ Fairness
-----------------------------------------------------------------------------
TypeOK ==
  /\ tail \in Elements \cup {Nil}
  /\ nextThread \in [Elements -> Threads \cup {Nil}]
  /\ waiting \in [Threads -> BOOLEAN]
  /\ el \in [Threads -> Elements \cup {Nil}]
  /\ pc \in [Threads -> PCs]
  /\ wasUnblocked \in [Threads -> BOOLEAN]

(* Threads that have been given the lock and not yet given it up.           *)
Owns(t) ==
  \/ pc[t] \in ConvertPCs \cup ReleasePCs \cup {"held"}
  \/ pc[t] \in {"wait", "block"} /\ ~waiting[t]

InQueue(t) == pc[t] \in QueuedPCs /\ waiting[t]

(* Mutual exclusion, counting as owners also a thread handed the lock that  *)
(* has yet to notice, and one in the middle of release.                     *)
MutualExclusion == \A t, u \in Threads : Owns(t) /\ Owns(u) => t = u

(* FairBLock.C:198: the element a release hands to still has its waiter.    *)
WaiterChainIntact ==
  \A t \in Threads : pc[t] \in {"readWaiter", "wake"} =>
    el[t] \in Threads /\ InQueue(el[t])

(* A queued thread writes only into an element that its owner still needs:  *)
(* line 120 stores through el, which may be on another thread's stack.      *)
LinkTargetAlive ==
  \A t \in Threads : pc[t] = "link" =>
    \/ el[t] = LockEl
    \/ el[t] \in Threads /\ pc[el[t]] \in QueuedPCs \cup {"clearHead", "tailCAS", "awaitNext"}

(* The lock is free exactly when nobody owns it (FairBLock.C:15).           *)
FreeMeansNoOwner == tail = Nil <=> \A t \in Threads : ~Owns(t)

(* Once queued a thread gets the lock: no wake-up is lost between its last  *)
(* look at myel.waiter and Block, and no waiter drops off the chain.        *)
QueuedGetsLock == \A t \in Threads : pc[t] = "link" ~> pc[t] = "held"

(* The abstract lock.  The queue is read off the tail pointer and the       *)
(* predecessor each queued thread keeps in el.                              *)
Waiters == {t \in Threads : InQueue(t)}
queue ==
  CHOOSE s \in [1..Cardinality(Waiters) -> Waiters] :
    /\ \A i \in DOMAIN s : \A j \in DOMAIN s : s[i] = s[j] => i = j
    /\ s # <<>> => s[Len(s)] = tail
    /\ \A i \in 2..Len(s) : el[s[i]] = s[i-1]
owner == IF \E t \in Threads : Owns(t) THEN CHOOSE t \in Threads : Owns(t) ELSE Nil

Abstract == INSTANCE FairLock WITH NoOwner <- Nil

(* FairBLock implements the first-come first-served lock.                   *)
ImplementsFairLock == Abstract!Spec
=============================================================================
