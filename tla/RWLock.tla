------------------------------- MODULE RWLock -------------------------------
(***************************************************************************)
(* lib/libc/sync/RWLock.H: the reader/writer lock TmpRWLock.  Its state is *)
(* guarded by an inner mutex, `lock'.  A section of code that runs under   *)
(* the mutex is one step, unless the mutex is still held when the section  *)
(* lets another thread go: a releaser hands the mutex itself over to the   *)
(* writer it chose, and readers are woken one by one while it is held.     *)
(***************************************************************************)
EXTENDS Integers, FiniteSets, Sequences

CONSTANTS Threads, NullThread
ASSUME NullIsNoThread == NullThread \notin Threads

VARIABLES lock,         \* the thread that holds the mutex, or NullThread
          readers,      \* number of readers; -1 for a writer
          waiters,      \* the queue of [type, thread] entries
          waiting,      \* the threads whose local `id' has not been cleared
          pc,
          target,       \* releaser's local `id': the thread to Unblock next
          wasUnblocked  \* the scheduler's memory of an Unblock

vars == <<lock, readers, waiters, waiting, pc, target, wasUnblocked>>

WaitPCs    == {"rWait", "rBlock", "wWait", "wBlock"}
ReleasePCs == {"handing", "releasing", "downgrading"}
PCs == {"out", "reading", "writing", "rAgain"} \cup WaitPCs \cup ReleasePCs

Init ==
  /\ lock = NullThread /\ readers = 0
  /\ waiters = <<>> /\ waiting = {}
  /\ pc = [t \in Threads |-> "out"]
  /\ target = [t \in Threads |-> NullThread]
  /\ wasUnblocked = [t \in Threads |-> FALSE]

Goto(t, label) == pc' = [pc EXCEPT ![t] = label]
Free == lock = NullThread

\* The ListSimpleKey operations: addToEndOfList, find, and the position of
\* the entry that remove(type) takes, 0 for none.
Enqueue(t, type) ==
  /\ waiters' = Append(waiters, [type |-> type, thread |-> t])
  /\ waiting' = waiting \cup {t}

First(type) ==
  LET I == {i \in DOMAIN waiters : waiters[i].type = type}
  IN  IF I = {} THEN 0 ELSE CHOOSE i \in I : \A j \in I : i <= j

\* *threadIDp = NullThreadID, with the old value kept for the Unblock.
Dequeue(t, i) ==
  /\ waiters' = SubSeq(waiters, 1, i - 1) \o SubSeq(waiters, i + 1, Len(waiters))
  /\ waiting' = waiting \ {waiters[i].thread}
  /\ target' = [target EXCEPT ![t] = waiters[i].thread]

-----------------------------------------------------------------------------
\* Mutant: a reader passes the writers that wait.
AcquireRPassing(t) ==
  /\ pc[t] \in {"out", "rAgain"} /\ Free
  /\ IF readers < 0
     THEN Enqueue(t, "Reader") /\ Goto(t, "rWait") /\ UNCHANGED readers
     ELSE readers' = readers + 1 /\ Goto(t, "reading") /\ UNCHANGED <<waiters, waiting>>
  /\ UNCHANGED <<lock, target, wasUnblocked>>

AcquireR(t) ==
  /\ pc[t] \in {"out", "rAgain"} /\ Free
  /\ IF readers < 0 \/ First("Writer") # 0
     THEN Enqueue(t, "Reader") /\ Goto(t, "rWait") /\ UNCHANGED readers
     ELSE readers' = readers + 1 /\ Goto(t, "reading") /\ UNCHANGED <<waiters, waiting>>
  /\ UNCHANGED <<lock, target, wasUnblocked>>

AcquireW(t) ==
  /\ pc[t] = "out" /\ Free
  /\ IF readers # 0
     THEN Enqueue(t, "Writer") /\ Goto(t, "wWait") /\ UNCHANGED readers
     ELSE readers' = -1 /\ Goto(t, "writing") /\ UNCHANGED <<waiters, waiting>>
  /\ UNCHANGED <<lock, target, wasUnblocked>>

Upgrade(t) ==
  /\ pc[t] = "reading" /\ Free
  /\ IF readers # 1
     THEN Enqueue(t, "Writer") /\ Goto(t, "wWait") /\ readers' = readers - 1
     ELSE readers' = -1 /\ Goto(t, "writing") /\ UNCHANGED <<waiters, waiting>>
  /\ UNCHANGED <<lock, target, wasUnblocked>>

TryAcquireW(t) ==
  /\ pc[t] = "out" /\ Free /\ readers = 0
  /\ readers' = -1 /\ Goto(t, "writing")
  /\ UNCHANGED <<lock, waiters, waiting, target, wasUnblocked>>

\* Mutant: upgrades beside other readers.
TryUpgradeAnyway(t) ==
  /\ pc[t] = "reading" /\ Free
  /\ readers' = -1 /\ Goto(t, "writing")
  /\ UNCHANGED <<lock, waiters, waiting, target, wasUnblocked>>

TryUpgrade(t) ==
  /\ pc[t] = "reading" /\ Free /\ readers = 1
  /\ readers' = -1 /\ Goto(t, "writing")
  /\ UNCHANGED <<lock, waiters, waiting, target, wasUnblocked>>

-----------------------------------------------------------------------------
(* while (id != NullThreadID) Block(): the test and the Block are two       *)
(* steps.  A reader then starts again; a writer finds that the mutex is its *)
(* own, and takes the lock.                                                 *)
WaitTest(t) ==
  \/ /\ pc[t] \in {"rWait", "wWait"} /\ t \in waiting
     /\ Goto(t, IF pc[t] = "rWait" THEN "rBlock" ELSE "wBlock")
     /\ UNCHANGED <<lock, readers, waiters, waiting, target, wasUnblocked>>
  \/ /\ pc[t] = "rWait" /\ t \notin waiting
     /\ Goto(t, "rAgain")
     /\ UNCHANGED <<lock, readers, waiters, waiting, target, wasUnblocked>>

WaitBlock(t) ==
  /\ pc[t] \in {"rBlock", "wBlock"} /\ wasUnblocked[t]
  /\ wasUnblocked' = [wasUnblocked EXCEPT ![t] = FALSE]
  /\ Goto(t, IF pc[t] = "rBlock" THEN "rWait" ELSE "wWait")
  /\ UNCHANGED <<lock, readers, waiters, waiting, target>>

GivenLock(t) ==
  /\ pc[t] = "wWait" /\ t \notin waiting
  /\ readers' = -1
  /\ lock' = NullThread
  /\ Goto(t, "writing")
  /\ UNCHANGED <<waiters, waiting, target, wasUnblocked>>

-----------------------------------------------------------------------------
\* The mutex goes to the waiter at position i, together with the lock.
HandOff(t, i) ==
  /\ Dequeue(t, i)
  /\ lock' = waiters[i].thread
  /\ Goto(t, "handing")

\* Mutant: the last reader does not look for a writer.
ReleaseRSilent(t) ==
  /\ pc[t] = "reading" /\ Free
  /\ readers' = readers - 1
  /\ Goto(t, "out")
  /\ UNCHANGED <<lock, waiters, waiting, target, wasUnblocked>>

ReleaseR(t) ==
  /\ pc[t] = "reading" /\ Free
  /\ readers' = readers - 1
  /\ IF readers' = 0 /\ waiters # <<>>
     THEN HandOff(t, 1)
     ELSE Goto(t, "out") /\ UNCHANGED <<lock, waiters, waiting, target>>
  /\ UNCHANGED wasUnblocked

ReleaseW(t) ==
  /\ pc[t] = "writing" /\ Free
  /\ readers' = 0
  /\ IF First("Writer") # 0
     THEN HandOff(t, First("Writer"))
     ELSE lock' = t /\ Goto(t, "releasing") /\ UNCHANGED <<waiters, waiting, target>>
  /\ UNCHANGED wasUnblocked

Downgrade(t) ==
  /\ pc[t] = "writing" /\ Free
  /\ readers' = 1
  /\ lock' = t
  /\ Goto(t, "downgrading")
  /\ UNCHANGED <<waiters, waiting, target, wasUnblocked>>

(* The loops of releaseW and downgrade: the next entry, or release the mutex. *)
NextToWake(t) ==
  IF pc[t] = "downgrading" THEN First("Reader") ELSE IF waiters = <<>> THEN 0 ELSE 1

WakeNext(t) ==
  /\ pc[t] \in {"releasing", "downgrading"} /\ target[t] = NullThread
  /\ IF NextToWake(t) # 0
     THEN Dequeue(t, NextToWake(t)) /\ UNCHANGED <<pc, lock>>
     ELSE /\ Goto(t, IF pc[t] = "downgrading" THEN "reading" ELSE "out")
          /\ lock' = NullThread
          /\ UNCHANGED <<waiters, waiting, target>>
  /\ UNCHANGED <<readers, wasUnblocked>>

\* Mutant: releaseW wakes one reader only.
UnblockOnce(t) ==
  /\ target[t] # NullThread
  /\ wasUnblocked' = [wasUnblocked EXCEPT ![target[t]] = TRUE]
  /\ target' = [target EXCEPT ![t] = NullThread]
  /\ pc' = IF pc[t] = "downgrading" THEN pc ELSE [pc EXCEPT ![t] = "out"]
  /\ lock' = IF pc[t] = "releasing" THEN NullThread ELSE lock
  /\ UNCHANGED <<readers, waiters, waiting>>

Unblock(t) ==
  /\ target[t] # NullThread
  /\ wasUnblocked' = [wasUnblocked EXCEPT ![target[t]] = TRUE]
  /\ target' = [target EXCEPT ![t] = NullThread]
  /\ pc' = IF pc[t] = "handing" THEN [pc EXCEPT ![t] = "out"] ELSE pc
  /\ UNCHANGED <<lock, readers, waiters, waiting>>

-----------------------------------------------------------------------------
Acquire(t) == AcquireR(t) \/ AcquireW(t) \/ TryAcquireW(t)
Convert(t) == Upgrade(t) \/ TryUpgrade(t) \/ Downgrade(t)
Release(t) == ReleaseR(t) \/ ReleaseW(t)
Proceed(t) == WaitTest(t) \/ WaitBlock(t) \/ GivenLock(t) \/ WakeNext(t) \/ Unblock(t)

Next == \E t \in Threads : Acquire(t) \/ Convert(t) \/ Release(t) \/ Proceed(t)

(* A thread inside an operation keeps running.  The mutex is a fair lock    *)
(* (see FairBLock), hence strong fairness of the steps that take it: of a   *)
(* woken reader's second try, and of the holder's release, which every      *)
(* acquirer owes.                                                           *)
Fairness ==
  \A t \in Threads : /\ WF_vars(Proceed(t))
                     /\ SF_vars(AcquireR(t) /\ pc[t] = "rAgain")
                     /\ SF_vars(Release(t))

Spec == Init /\ [][Next]_vars /\ Fairness

-----------------------------------------------------------------------------
TypeOK ==
  /\ lock \in Threads \cup {NullThread}
  /\ readers \in Nat \cup {-1}
  /\ waiters \in Seq([type : {"Reader", "Writer"}, thread : Threads])
  /\ waiting \subseteq Threads
  /\ pc \in [Threads -> PCs]
  /\ target \in [Threads -> Threads \cup {NullThread}]
  /\ wasUnblocked \in [Threads -> BOOLEAN]

At(labels) == {t \in Threads : pc[t] \in labels}
Readers == At({"reading", "downgrading"})
Writers == At({"writing"})

(* The promise of the lock: a writer is alone.  `readers' tells the truth   *)
(* about who holds it, but for the writer that has yet to find that it was  *)
(* given the lock.                                                          *)
WriterIsAlone ==
  /\ Writers # {} => Cardinality(Writers) = 1 /\ Readers = {}
  /\ readers = IF Writers # {} THEN -1 ELSE Cardinality(Readers)

(* No waiter is forgotten.  With the mutex free and the lock free, the      *)
(* queue is empty, so tryAcquireW and acquireW may take the lock            *)
(* unconditionally; with readers in, the head of the queue is a writer      *)
(* (asserted at RWLock.H:73), for only a writer may be handed the mutex.    *)
(* Every thread that waits is in the queue, once.                           *)
NoWaiterForgotten ==
  /\ Free /\ readers = 0 => waiters = <<>>
  /\ Free /\ readers > 0 /\ waiters # <<>> => waiters[1].type = "Writer"
  /\ waiting = {waiters[i].thread : i \in DOMAIN waiters}
  /\ \A i, j \in DOMAIN waiters : waiters[i].thread = waiters[j].thread => i = j
  /\ waiting \subseteq At(WaitPCs)

(* A writer that waits gets the lock, whatever the readers do: readers that *)
(* arrive after it queue up behind it.                                      *)
WriterGetsIn == \A t \in Threads : pc[t] = "wWait" ~> pc[t] = "writing"

(* A reader that waits gets the lock once writers cease to come.            *)
ReaderGetsIn ==
  \A t \in Threads :
    <>[](At({"wWait", "wBlock", "writing"}) = {}) => (pc[t] = "rWait" ~> pc[t] = "reading")
=============================================================================
