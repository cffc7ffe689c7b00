---------------------------- MODULE RWLockProofs ----------------------------
(***************************************************************************)
(* Proofs about RWLock for any number of threads.                          *)
(*                                                                         *)
(* A writer that was handed the mutex holds the lock before `readers' says *)
(* so: MutexTells says what the holder of the mutex may count on while it  *)
(* holds it, HolderHasMutex that there is only one such thread, and        *)
(* Queued that the thread behind a Writer entry is one that will take what *)
(* it is handed.                                                           *)
(***************************************************************************)
EXTENDS RWLock, FiniteSetTheorems, TLAPS

WriterWaits(t) == pc[t] \in {"wWait", "wBlock"}

Entries == [type : {"Reader", "Writer"}, thread : Threads]

\* What the queue says about the threads that wait.
Queued ==
  /\ waiting = {waiters[i].thread : i \in DOMAIN waiters}
  /\ \A i, j \in DOMAIN waiters : waiters[i].thread = waiters[j].thread => i = j
  /\ \A i \in DOMAIN waiters :
       pc[waiters[i].thread] \in IF waiters[i].type = "Writer" THEN {"wWait", "wBlock"}
                                                               ELSE {"rWait", "rBlock"}

FreeQueue ==
  /\ Free /\ readers = 0 => waiters = <<>>
  /\ Free /\ readers > 0 /\ waiters # <<>> => waiters[1].type = "Writer"

\* The threads that act with the mutex in their hands.
HolderHasMutex ==
  \A t \in Threads :
    pc[t] \in {"releasing", "downgrading"} \/ (WriterWaits(t) /\ t \notin waiting) => lock = t

MutexTells ==
  ~Free =>
    \/ WriterWaits(lock) /\ lock \notin waiting /\ readers = 0
    \/ pc[lock] = "downgrading"
    \/ /\ pc[lock] = "releasing" /\ readers = 0
       /\ \A i \in DOMAIN waiters : waiters[i].type = "Reader"

ReadPCs == {"reading", "downgrading"}

\* WriterIsAlone, thread by thread.
Alone ==
  \A t, u \in Threads : pc[t] = "writing" /\ pc[u] \in ReadPCs \cup {"writing"} => t = u

Counts ==
  IsFiniteSet(Readers) /\ readers = IF Writers # {} THEN -1 ELSE Cardinality(Readers)

IInv ==
  TypeOK /\ Alone /\ Counts /\ Queued /\ FreeQueue /\ HolderHasMutex /\ MutexTells

-----------------------------------------------------------------------------
(* What the value of `readers' says about the threads.                      *)
LEMMA ReadersTell ==
  ASSUME TypeOK, Alone, Counts
  PROVE  /\ readers = -1 <=> \E t \in Threads : pc[t] = "writing"
         /\ readers = 0 => \A t \in Threads : pc[t] \notin ReadPCs \cup {"writing"}
         /\ readers = 1 => \A t, u \in Threads : pc[t] \in ReadPCs /\ pc[u] \in ReadPCs => t = u
         /\ \A t \in Threads : pc[t] \in ReadPCs => readers > 0
         /\ readers >= -1
<1>1. Writers # {} <=> \E t \in Threads : pc[t] = "writing"
  BY DEF Writers, At
<1>2. \A t \in Threads : t \in Readers <=> pc[t] \in ReadPCs
  BY DEF Readers, ReadPCs, At
<1>3. CASE Writers # {}
  BY <1>1, <1>3 DEF Counts, Alone, ReadPCs
<1>4. CASE Writers = {}
  <2>1. readers = Cardinality(Readers) /\ readers \in Nat
    BY <1>4, FS_CardinalityType DEF Counts
  <2>2. readers = 0 <=> Readers = {}
    BY <2>1, FS_EmptySet DEF Counts
  <2>3. readers = 1 => \E x : Readers = {x}
    BY <2>1, FS_Singleton, Zenon DEF Counts
  <2> QED
    BY <1>1, <1>2, <1>4, <2>1, <2>2, <2>3, SMTT(30), Z3
<1> QED
  BY <1>3, <1>4

(* How the moves of one thread between the sets of readers and writers go   *)
(* with `readers'.                                                          *)
LEMMA ReadersStep ==
  ASSUME TypeOK, Alone, Counts, NEW t \in Threads, NEW label, Goto(t, label),
         \/ /\ readers' = readers
            /\ pc[t] # "writing" /\ label # "writing"
            /\ pc[t] \in ReadPCs <=> label \in ReadPCs
         \/ /\ readers' = readers + 1 /\ readers >= 0
            /\ pc[t] \notin ReadPCs /\ label \in ReadPCs
         \/ /\ readers' = readers - 1
            /\ pc[t] \in ReadPCs /\ label \notin ReadPCs \cup {"writing"}
         \/ /\ readers' = -1 /\ label = "writing"
            /\ readers = 0 \/ (readers = 1 /\ pc[t] \in ReadPCs)
         \/ /\ readers' = 0 /\ pc[t] = "writing"
            /\ label \notin ReadPCs \cup {"writing"}
         \/ readers' = 1 /\ pc[t] = "writing" /\ label \in ReadPCs
  PROVE  Alone' /\ Counts'
<1> DEFINE R == Cardinality(Readers)
<1>1. /\ Readers' = IF label \in ReadPCs THEN Readers \cup {t} ELSE Readers \ {t}
      /\ Writers' = IF label = "writing" THEN Writers \cup {t} ELSE Writers \ {t}
      /\ t \in Readers <=> pc[t] \in ReadPCs
      /\ t \in Writers <=> pc[t] = "writing"
  BY DEF Readers, Writers, At, Goto, TypeOK, ReadPCs
<1>2. "writing" \notin ReadPCs
  BY DEF ReadPCs
<1>3. /\ Cardinality(Readers \cup {t}) = IF t \in Readers THEN R ELSE R + 1
      /\ Cardinality(Readers \ {t}) = IF t \in Readers THEN R - 1 ELSE R
      /\ R \in Nat /\ IsFiniteSet(Readers)
      /\ IsFiniteSet(Readers \cup {t}) /\ IsFiniteSet(Readers \ {t})
  BY FS_CardinalityType, FS_AddElement, FS_RemoveElement, Zenon DEF Counts
<1>4. Writers # {} => Readers = {} /\ R = 0 /\ \A u \in Writers : Writers = {u}
  BY FS_EmptySet DEF Alone, Readers, Writers, At, ReadPCs
<1>5. Alone'
  BY ReadersTell DEF Alone, Goto, TypeOK, ReadPCs
<1>6. Counts'
  <2>1. Counts' <=> /\ IsFiniteSet(Readers')
                    /\ readers' = IF Writers' # {} THEN -1 ELSE Cardinality(Readers')
    BY DEF Counts
  <2>2. readers = IF Writers # {} THEN -1 ELSE R
    BY DEF Counts
  <2> HIDE DEF R
  <2> QED
    BY <1>1, <1>2, <1>3, <1>4, <2>1, <2>2
<1> QED
  BY <1>5, <1>6
-----------------------------------------------------------------------------
(* ListSimpleKey: an entry is added at the end, ...                         *)
LEMMA Enqueued ==
  ASSUME TypeOK, Queued, NEW t \in Threads, NEW type \in {"Reader", "Writer"},
         Enqueue(t, type), pc[t] \notin WaitPCs,
         Goto(t, IF type = "Writer" THEN "wWait" ELSE "rWait")
  PROVE  /\ waiters' \in Seq(Entries)
         /\ waiting' \subseteq Threads
         /\ waiters' # <<>>
         /\ waiters'[1] = IF waiters = <<>> THEN [type |-> type, thread |-> t] ELSE waiters[1]
         /\ Queued'
<1> DEFINE e == [type |-> type, thread |-> t]
<1>1. waiters \in Seq(Entries) /\ e \in Entries /\ waiters' = Append(waiters, e)
  BY DEF TypeOK, Entries, Enqueue
<1>2. /\ waiters' \in Seq(Entries)
      /\ Len(waiters') = Len(waiters) + 1
      /\ \A i \in 1..Len(waiters) : waiters'[i] = waiters[i]
      /\ waiters'[Len(waiters) + 1] = e
      /\ DOMAIN waiters = 1..Len(waiters) /\ Len(waiters) \in Nat
      /\ DOMAIN waiters' = 1..(Len(waiters) + 1)
      /\ waiters = <<>> <=> Len(waiters) = 0
  BY <1>1
<1>3. /\ e.thread = t /\ e.type = type
      /\ \A i \in DOMAIN waiters : waiters[i].thread # t /\ waiters[i].thread \in Threads
  <2>1. \A i \in DOMAIN waiters : waiters[i] \in Entries
    BY <1>1, <1>2
  <2>2. \A i \in DOMAIN waiters : waiters[i].thread # t
    BY DEF Queued, WaitPCs
  <2> QED
    BY <2>1, <2>2 DEF Entries
<1> HIDE DEF e
<1>4. waiting' = {waiters'[i].thread : i \in DOMAIN waiters'}
  BY <1>2, <1>3 DEF Queued, Enqueue
<1>5. Queued'
  BY <1>2, <1>3, <1>4, SMTT(30), Z3 DEF Queued, Goto, TypeOK
<1> QED
  BY <1>2, <1>5 DEF Enqueue, TypeOK, e

(* ... found by its type, ...                                               *)
LEMMA FirstTells ==
  ASSUME TypeOK, NEW type
  PROVE  /\ First(type) = 0 <=> \A i \in DOMAIN waiters : waiters[i].type # type
         /\ First(type) # 0 =>
              First(type) \in DOMAIN waiters /\ waiters[First(type)].type = type
<1> DEFINE I == {i \in DOMAIN waiters : waiters[i].type = type}
           Least == CHOOSE i \in I : \A j \in I : i <= j
<1>1. DOMAIN waiters = 1..Len(waiters) /\ Len(waiters) \in Nat
  BY DEF TypeOK
<1>2. First(type) = IF I = {} THEN 0 ELSE Least
  BY DEF First
<1>3. ASSUME I # {} PROVE Least \in I
  <2>1. I \subseteq Nat
    BY <1>1
  <2>2. PICK x \in I : \A y \in I : ~(<<y, x>> \in OpToRel(<, Nat))
    BY <1>3, <2>1, WFMin, NatLessThanWellFounded, Zenon
  <2>3. \A y \in I : x <= y
    <3> TAKE y \in I
    <3>1. ~(<<y, x>> \in {p \in Nat \X Nat : p[1] < p[2]})
      BY <2>2 DEF OpToRel
    <3>2. x \in Nat /\ y \in Nat /\ ~(y < x)
      BY <2>1, <3>1
    <3> QED
      BY <3>2
  <2> QED
    BY <2>3, Zenon
<1>4. CASE I = {}
  <2>1. First(type) = 0 /\ \A i \in DOMAIN waiters : waiters[i].type # type
    BY <1>2, <1>4
  <2> QED
    BY <2>1
<1>5. CASE I # {}
  <2>1. First(type) = Least
    BY <1>2, <1>5, Zenon
  <2>2. First(type) \in DOMAIN waiters /\ waiters[First(type)].type = type
    BY <1>3, <1>5, <2>1, Zenon
  <2> HIDE DEF I, Least
  <2>3. First(type) # 0
    BY <1>1, <2>2
  <2> QED
    BY <2>2, <2>3
<1> QED
  BY <1>4, <1>5

(* ... and removed from any place.                                          *)
LEMMA Dequeued ==
  ASSUME TypeOK, Queued, NEW t \in Threads, NEW i \in DOMAIN waiters, Dequeue(t, i),
         \A u \in Threads : pc[u] \in WaitPCs => pc'[u] = pc[u]
  PROVE  /\ waiters' \in Seq(Entries)
         /\ waiting' = waiting \ {waiters[i].thread}
         /\ waiters[i].thread \in waiting
         /\ target' \in [Threads -> Threads \cup {NullThread}]
         /\ \A j \in DOMAIN waiters' : \E k \in DOMAIN waiters : waiters'[j] = waiters[k]
         /\ Queued'
<1> DEFINE n == Len(waiters)
           a == SubSeq(waiters, 1, i - 1)
           b == SubSeq(waiters, i + 1, n)
<1>1. waiters \in Seq(Entries) /\ n \in Nat /\ DOMAIN waiters = 1..n /\ i \in 1..n
  BY DEF TypeOK, Entries
<1>e. \A k \in 1..n : waiters[k] \in Entries /\ waiters[k].thread \in Threads
  <2>1. \A k \in 1..n : waiters[k] \in Entries
    BY <1>1
  <2> QED
    BY <2>1 DEF Entries
<1>2. a \in Seq(Entries) /\ Len(a) = i - 1 /\ \A j \in 1..(i-1) : a[j] = waiters[j]
  BY <1>1
<1>3. b \in Seq(Entries) /\ Len(b) = n - i /\ \A j \in 1..(n-i) : b[j] = waiters[i+j]
  <2>1. i + 1 \in Int /\ n \in Int /\ \A k \in (i+1)..n : waiters[k] \in Entries
    BY <1>1, <1>e
  <2>2. /\ b \in Seq(Entries)
        /\ Len(b) = IF i + 1 <= n THEN n - (i + 1) + 1 ELSE 0
        /\ \A j \in 1..(n - (i + 1) + 1) : b[j] = waiters[i + 1 + j - 1]
    BY <2>1, SMTT(30), Z3
  <2> HIDE DEF b, n
  <2>3. Len(b) = n - i
    BY <1>1, <2>2
  <2>4. ASSUME NEW j \in 1..(n - i) PROVE b[j] = waiters[i + j]
    <3>1. j \in 1..(n - (i + 1) + 1) /\ i + 1 + j - 1 = i + j
      BY <1>1
    <3> QED
      BY <2>2, <3>1
  <2> QED
    BY <2>2, <2>3, <2>4
<1>4. waiters' = a \o b
  BY DEF Dequeue
<1>5. /\ waiters' \in Seq(Entries)
      /\ DOMAIN waiters' = 1..(n - 1)
      /\ \A j \in 1..(n - 1) : waiters'[j] = IF j < i THEN waiters[j] ELSE waiters[j + 1]
  <2> HIDE DEF n, a, b
  <2>1. /\ waiters' \in Seq(Entries)
        /\ Len(waiters') = Len(a) + Len(b)
        /\ \A j \in 1..(Len(a) + Len(b)) :
             waiters'[j] = IF j <= Len(a) THEN a[j] ELSE b[j - Len(a)]
    BY <1>2, <1>3, <1>4
  <2>2. DOMAIN waiters' = 1..Len(waiters') /\ Len(waiters') = n - 1
    BY <1>1, <1>2, <1>3, <2>1
  <2>3. ASSUME NEW j \in 1..(n - 1)
        PROVE  waiters'[j] = IF j < i THEN waiters[j] ELSE waiters[j + 1]
    <3>1. CASE j < i
      BY <1>1, <1>2, <1>3, <2>1, <3>1
    <3>2. CASE j >= i
      <4>1. j - Len(a) \in 1..(n - i) /\ i + (j - Len(a)) = j + 1
        BY <1>1, <1>2, <3>2
      <4>2. waiters'[j] = b[j - Len(a)]
        BY <1>1, <1>2, <1>3, <2>1, <3>2
      <4> QED
        BY <1>1, <1>3, <3>2, <4>1, <4>2
    <3> QED
      BY <1>1, <3>1, <3>2
  <2> QED
    BY <2>1, <2>2, <2>3
<1> HIDE DEF n, a, b
<1>6. waiters[i].thread \in waiting /\ waiting' = waiting \ {waiters[i].thread}
  BY DEF Queued, Dequeue
<1>7. \A k \in 1..n : k # i => \E j \in 1..(n - 1) : waiters'[j] = waiters[k]
  <2> TAKE k \in 1..n
  <2>1. CASE k < i
    BY <1>1, <1>5, <2>1
  <2>2. CASE k > i
    <3>1. k - 1 \in 1..(n - 1) /\ waiters'[k - 1] = waiters[k]
      BY <1>1, <1>5, <2>2
    <3> QED
      BY <3>1
  <2> QED
    BY <1>1, <2>1, <2>2
<1>8. \A j \in 1..(n - 1) : \E k \in 1..n : k # i /\ waiters'[j] = waiters[k]
  <2> TAKE j \in 1..(n - 1)
  <2>1. CASE j < i
    BY <1>1, <1>5, <2>1
  <2>2. CASE j >= i
    <3>1. j + 1 \in 1..n /\ j + 1 # i /\ waiters'[j] = waiters[j + 1]
      BY <1>1, <1>5, <2>2
    <3> QED
      BY <3>1
  <2> QED
    BY <1>1, <2>1, <2>2
<1>9. waiting' = {waiters'[j].thread : j \in DOMAIN waiters'}
  <2>1. \A x : x \in waiting' <=> \E k \in 1..n : k # i /\ x = waiters[k].thread
    BY <1>1, <1>6 DEF Queued
  <2>2. \A x : x \in waiting' <=> \E j \in 1..(n - 1) : x = waiters'[j].thread
    BY <2>1, <1>7, <1>8
  <2> QED
    BY <1>5, <2>2
<1>10. \A j, k \in DOMAIN waiters' : waiters'[j].thread = waiters'[k].thread => j = k
  <2>1. \A j, k \in 1..n : waiters[j].thread = waiters[k].thread => j = k
    BY <1>1 DEF Queued
  <2> DEFINE Old(j) == IF j < i THEN j ELSE j + 1
  <2>2. \A j \in 1..(n - 1) : Old(j) \in 1..n /\ waiters'[j] = waiters[Old(j)]
    BY <1>1, <1>5, SMTT(30), Z3
  <2>3. \A j, k \in 1..(n - 1) : Old(j) = Old(k) => j = k
    BY <1>1, SMTT(30), Z3
  <2> HIDE DEF Old
  <2>4. ASSUME NEW j \in 1..(n - 1), NEW k \in 1..(n - 1),
               waiters'[j].thread = waiters'[k].thread
        PROVE  j = k
    <3>1. waiters[Old(j)].thread = waiters[Old(k)].thread
      BY <2>2, <2>4
    <3>2. Old(j) \in 1..n /\ Old(k) \in 1..n
      BY <2>2
    <3>3. Old(j) = Old(k)
      BY <2>1, <3>1, <3>2
    <3> QED
      BY <2>3, <3>3
  <2> QED
    BY <1>5, <2>4
<1>11. \A j \in DOMAIN waiters' :
         pc'[waiters'[j].thread] \in IF waiters'[j].type = "Writer" THEN {"wWait", "wBlock"}
                                                                  ELSE {"rWait", "rBlock"}
  <2> TAKE j \in DOMAIN waiters'
  <2>1. PICK k \in 1..n : waiters'[j] = waiters[k]
    BY <1>5, <1>8
  <2>2. pc[waiters[k].thread] \in IF waiters[k].type = "Writer" THEN {"wWait", "wBlock"}
                                                              ELSE {"rWait", "rBlock"}
    BY <1>1 DEF Queued
  <2>3. pc'[waiters[k].thread] = pc[waiters[k].thread]
    BY <1>e, <2>2 DEF WaitPCs
  <2> QED
    BY <2>1, <2>2, <2>3
<1>12. target' \in [Threads -> Threads \cup {NullThread}]
  BY <1>1, <1>e DEF Dequeue, TypeOK
<1> QED
  BY <1>1, <1>5, <1>6, <1>8, <1>9, <1>10, <1>11, <1>12, Zenon DEF Queued
-----------------------------------------------------------------------------
(* A thread that moves without touching the queue.                          *)
LEMMA QueueStays ==
  ASSUME TypeOK, Queued, UNCHANGED <<waiters, waiting>>,
         NEW t \in Threads, NEW label, Goto(t, label),
         \/ t \notin waiting
         \/ pc[t] \in {"wWait", "wBlock"} /\ label \in {"wWait", "wBlock"}
         \/ pc[t] \in {"rWait", "rBlock"} /\ label \in {"rWait", "rBlock"}
  PROVE  Queued'
<1>1. \A i \in DOMAIN waiters : waiters[i].thread \in waiting
  BY DEF Queued
<1>2. waiting \subseteq Threads /\ DOMAIN pc = Threads
  BY DEF TypeOK
<1> QED
  BY <1>1, <1>2 DEF Queued, Goto

(* Whoever is in the queue is where threads wait.                           *)
LEMMA WaitersWait ==
  ASSUME Queued
  PROVE  \A t \in waiting : pc[t] \in WaitPCs
BY DEF Queued, WaitPCs

LEMMA InitIInv == Init => IInv
<1> SUFFICES ASSUME Init PROVE IInv
  OBVIOUS
<1>1. Readers = {} /\ Writers = {}
  BY DEF Init, Readers, Writers, At
<1>2. Counts
  BY <1>1, FS_EmptySet DEF Init, Counts
<1>3. TypeOK
  BY DEF Init, TypeOK, PCs
<1>4. Queued /\ FreeQueue
  BY DEF Init, Queued, FreeQueue
<1> QED
  BY <1>2, <1>3, <1>4 DEF Init, IInv, Alone, HolderHasMutex, MutexTells, WriterWaits, Free

-----------------------------------------------------------------------------
(* One lemma per action.                                                    *)
LEMMA AcquireRStep ==
  ASSUME IInv, NEW t \in Threads, AcquireR(t) PROVE IInv'
<1> USE DEF IInv
<1>0. Free /\ pc[t] \in {"out", "rAgain"} /\ t \notin waiting /\ UNCHANGED <<lock, target, wasUnblocked>>
  BY WaitersWait DEF AcquireR, WaitPCs
<1>1. CASE readers < 0 \/ First("Writer") # 0
  <2>1. Enqueue(t, "Reader") /\ Goto(t, "rWait") /\ readers' = readers
    BY <1>1 DEF AcquireR
  <2>2. /\ waiters' \in Seq(Entries) /\ waiting' \subseteq Threads /\ Queued'
        /\ waiters # <<>> => waiters'[1] = waiters[1]
    BY <1>0, <2>1, Enqueued, Zenon DEF WaitPCs
  <2>3. TypeOK'
    BY <1>0, <2>1, <2>2 DEF TypeOK, Entries, Goto, PCs, WaitPCs
  <2>4. Alone' /\ Counts'
    BY <1>0, <2>1, ReadersStep DEF ReadPCs
  <2>5. readers < 0 \/ waiters # <<>>
    BY <1>1, FirstTells
  <2>6. FreeQueue'
    BY <1>0, <2>1, <2>2, <2>5 DEF FreeQueue, Free, TypeOK
  <2>7. HolderHasMutex' /\ MutexTells'
    BY <1>0, <2>1 DEF HolderHasMutex, MutexTells, WriterWaits, Free, Goto, TypeOK, Enqueue
  <2> QED
    BY <2>2, <2>3, <2>4, <2>6, <2>7
<1>2. CASE ~(readers < 0 \/ First("Writer") # 0)
  <2>1. Goto(t, "reading") /\ readers' = readers + 1 /\ UNCHANGED <<waiters, waiting>>
    BY <1>2 DEF AcquireR
  <2>2. readers >= 0 /\ \A i \in DOMAIN waiters : waiters[i].type # "Writer"
    BY <1>2, FirstTells DEF TypeOK
  <2>3. TypeOK'
    BY <1>0, <2>1, <2>2 DEF TypeOK, Goto, PCs
  <2>4. Alone' /\ Counts'
    BY <1>0, <2>1, <2>2, ReadersStep DEF ReadPCs
  <2>5. waiters = <<>>
    BY <1>0, <2>2 DEF FreeQueue, TypeOK
  <2>6. FreeQueue' /\ Queued'
    BY <1>0, <2>1, <2>5, QueueStays DEF FreeQueue
  <2>7. HolderHasMutex' /\ MutexTells'
    BY <1>0, <2>1, SMTT(30), Z3 DEF HolderHasMutex, MutexTells, WriterWaits, Free, Goto, TypeOK
  <2> QED
    BY <2>3, <2>4, <2>6, <2>7
<1> QED
  BY <1>1, <1>2

(* acquireW and upgrade, when they have to wait.                            *)
LEMMA WriterQueues ==
  ASSUME IInv, NEW t \in Threads, Free, pc[t] \in {"out", "reading"},
         readers' = IF pc[t] = "reading" THEN readers - 1 ELSE readers,
         readers # 0, pc[t] = "reading" => readers # 1,
         Enqueue(t, "Writer"), Goto(t, "wWait"), UNCHANGED <<lock, target, wasUnblocked>>
  PROVE  IInv'
<1> USE DEF IInv
<1>1. /\ waiters' \in Seq(Entries) /\ waiting' \subseteq Threads /\ Queued'
      /\ waiters'[1] = IF waiters = <<>> THEN [type |-> "Writer", thread |-> t] ELSE waiters[1]
  BY Enqueued, Zenon DEF WaitPCs
<1>2. pc[t] = "reading" => readers > 1
  BY ReadersTell DEF ReadPCs, TypeOK
<1>3. readers \in Int /\ readers' \in Nat \cup {-1} /\ readers' # 0
      /\ (readers' > 0 => readers > 0)
  BY <1>2 DEF TypeOK
<1>4. TypeOK'
  BY <1>1, <1>3 DEF TypeOK, Entries, Goto, PCs, WaitPCs
<1>5. Alone' /\ Counts'
  BY ReadersStep DEF ReadPCs
<1>6. FreeQueue'
  BY <1>1, <1>3 DEF FreeQueue, Free
<1>7. HolderHasMutex' /\ MutexTells'
  BY DEF HolderHasMutex, MutexTells, WriterWaits, Free, Goto, TypeOK, Enqueue
<1> QED
  BY <1>1, <1>4, <1>5, <1>6, <1>7

(* ... and when they, or their try variants, take the lock at once.         *)
LEMMA WriterEnters ==
  ASSUME IInv, NEW t \in Threads, Free,
         \/ pc[t] = "out" /\ readers = 0
         \/ pc[t] = "reading" /\ readers = 1,
         readers' = -1, Goto(t, "writing"),
         UNCHANGED <<lock, waiters, waiting, target, wasUnblocked>>
  PROVE  IInv'
<1> USE DEF IInv
<1>1. TypeOK'
  BY DEF TypeOK, Goto, PCs
<1>2. Alone' /\ Counts'
  BY ReadersStep DEF ReadPCs
<1>3. Queued'
  BY QueueStays, WaitersWait DEF WaitPCs
<1>4. FreeQueue'
  BY DEF FreeQueue
<1>5. HolderHasMutex' /\ MutexTells'
  BY DEF HolderHasMutex, MutexTells, WriterWaits, Free, Goto, TypeOK
<1> QED
  BY <1>1, <1>2, <1>3, <1>4, <1>5
(* The waiting loop.                                                        *)
LEMMA WaitStep ==
  ASSUME IInv, NEW t \in Threads, WaitTest(t) \/ WaitBlock(t) PROVE IInv'
<1> USE DEF IInv
<1>1. PICK label :
        /\ Goto(t, label)
        /\ \/ pc[t] \in {"wWait", "wBlock"} /\ label \in {"wWait", "wBlock"}
           \/ pc[t] \in {"rWait", "rBlock"} /\ label \in {"rWait", "rBlock"}
           \/ pc[t] = "rWait" /\ label = "rAgain" /\ t \notin waiting
  BY DEF WaitTest, WaitBlock
<1>2. UNCHANGED <<lock, readers, waiters, waiting, target>>
      /\ wasUnblocked' \in [Threads -> BOOLEAN]
  BY Zenon DEF WaitTest, WaitBlock, TypeOK
<1>3. TypeOK'
  BY <1>1, <1>2, Zenon DEF TypeOK, Goto, PCs, WaitPCs
<1>4. Alone' /\ Counts'
  BY <1>1, <1>2, ReadersStep DEF ReadPCs
<1>5. Queued'
  BY <1>1, <1>2, QueueStays
<1>6. FreeQueue'
  BY <1>2 DEF FreeQueue, Free
<1>7. HolderHasMutex' /\ MutexTells'
  BY <1>1, <1>2 DEF HolderHasMutex, MutexTells, WriterWaits, Free, Goto, TypeOK
<1> QED
  BY <1>3, <1>4, <1>5, <1>6, <1>7

LEMMA GivenLockStep ==
  ASSUME IInv, NEW t \in Threads, GivenLock(t) PROVE IInv'
<1> USE DEF IInv, GivenLock
<1>1. lock = t /\ readers = 0
  <2>1. lock = t
    BY DEF HolderHasMutex, WriterWaits
  <2> QED
    BY <2>1, NullIsNoThread DEF MutexTells, WriterWaits, Free
<1>2. TypeOK'
  BY DEF TypeOK, Goto, PCs
<1>3. Alone' /\ Counts'
  BY <1>1, ReadersStep DEF ReadPCs
<1>4. Queued'
  BY QueueStays
<1>5. FreeQueue'
  BY DEF FreeQueue
<1>6. HolderHasMutex' /\ MutexTells'
  BY <1>1 DEF HolderHasMutex, MutexTells, WriterWaits, Free, Goto, TypeOK
<1> QED
  BY <1>2, <1>3, <1>4, <1>5, <1>6

(* The mutex and the lock are handed to a writer in the queue.              *)
LEMMA HandOffStep ==
  ASSUME IInv, NEW t \in Threads, Free,
         \/ pc[t] = "reading" /\ readers = 1
         \/ pc[t] = "writing",
         NEW i \in DOMAIN waiters, waiters[i].type = "Writer",
         HandOff(t, i), readers' = 0, UNCHANGED wasUnblocked
  PROVE  IInv'
<1> USE DEF IInv, HandOff
<1> DEFINE w == waiters[i].thread
<1>1. \A u \in Threads : pc[u] \in WaitPCs => pc'[u] = pc[u]
  BY SMTT(30), Z3 DEF Goto, TypeOK, WaitPCs
<1>2. /\ waiters' \in Seq(Entries)
      /\ waiting' = waiting \ {w} /\ w \in waiting
      /\ target' \in [Threads -> Threads \cup {NullThread}]
      /\ Queued'
  BY <1>1, Dequeued, SMTT(30), Z3
<1>3. w \in Threads /\ w # t /\ pc[w] \in {"wWait", "wBlock"} /\ pc'[w] = pc[w]
  BY <1>1, <1>2 DEF Queued, TypeOK, WaitPCs
<1>4. lock' = w
  OBVIOUS
<1> HIDE DEF w
<1>5. TypeOK'
  BY <1>2, <1>3, <1>4, Zenon DEF TypeOK, Entries, Goto, PCs, ReleasePCs
<1>6. Alone' /\ Counts'
  BY ReadersStep DEF ReadPCs
<1>7. ~Free'
  BY <1>3, <1>4, NullIsNoThread DEF Free
<1>8. HolderHasMutex'
  BY <1>2, <1>3, <1>4, NullIsNoThread, SMTT(30), Z3 DEF HolderHasMutex, WriterWaits, Free, Goto, TypeOK
<1>9. FreeQueue' /\ MutexTells'
  BY <1>2, <1>3, <1>4, <1>7 DEF FreeQueue, MutexTells, WriterWaits
<1> QED
  BY <1>2, <1>5, <1>6, <1>8, <1>9, SMTT(30), Z3

LEMMA ReleaseRStep ==
  ASSUME IInv, NEW t \in Threads, ReleaseR(t) PROVE IInv'
<1> USE DEF IInv, ReleaseR
<1>0. readers > 0 /\ readers \in Nat
  BY ReadersTell DEF ReadPCs, TypeOK
<1>1. CASE readers' = 0 /\ waiters # <<>>
  <2>1. 1 \in DOMAIN waiters /\ waiters[1].type = "Writer"
    BY <1>0, <1>1 DEF FreeQueue, TypeOK
  <2> QED
    BY <1>0, <1>1, <2>1, HandOffStep
<1>2. CASE ~(readers' = 0 /\ waiters # <<>>)
  <2>1. Goto(t, "out") /\ readers' = readers - 1
        /\ UNCHANGED <<lock, waiters, waiting, target, wasUnblocked>>
    BY <1>2
  <2>2. TypeOK'
    BY <1>0, <2>1 DEF TypeOK, Goto, PCs
  <2>3. Alone' /\ Counts'
    BY <2>1, ReadersStep DEF ReadPCs
  <2>4. Queued'
    BY <2>1, QueueStays, WaitersWait DEF WaitPCs
  <2>5. FreeQueue'
    BY <1>0, <1>2, <2>1 DEF FreeQueue, Free
  <2>6. HolderHasMutex' /\ MutexTells'
    BY <2>1 DEF HolderHasMutex, MutexTells, WriterWaits, Free, Goto, TypeOK
  <2> QED
    BY <2>2, <2>3, <2>4, <2>5, <2>6, SMTT(30), Z3
<1> QED
  BY <1>1, <1>2

(* releaseW without a writer in the queue, and downgrade, keep the mutex    *)
(* for waking readers.                                                      *)
LEMMA ReleaseWStep ==
  ASSUME IInv, NEW t \in Threads, ReleaseW(t) \/ Downgrade(t) PROVE IInv'
<1> USE DEF IInv
<1>1. CASE ReleaseW(t) /\ First("Writer") # 0
  BY <1>1, FirstTells, HandOffStep DEF ReleaseW
<1>2. CASE Downgrade(t) \/ (ReleaseW(t) /\ First("Writer") = 0)
  <2>1. PICK label \in {"releasing", "downgrading"} :
          /\ Goto(t, label)
          /\ readers' = IF label = "releasing" THEN 0 ELSE 1
          /\ label = "releasing" => First("Writer") = 0
    BY <1>2 DEF ReleaseW, Downgrade
  <2>2. /\ pc[t] = "writing" /\ Free /\ lock' = t
        /\ UNCHANGED <<waiters, waiting, target, wasUnblocked>>
    BY <1>2 DEF ReleaseW, Downgrade
  <2>3. TypeOK'
    BY <2>1, <2>2 DEF TypeOK, Goto, PCs, ReleasePCs
  <2>4. Alone' /\ Counts'
    BY <2>1, <2>2, ReadersStep, SMTT(30), Z3 DEF ReadPCs
  <2>5. Queued'
    BY <2>1, <2>2, QueueStays, WaitersWait, SMTT(30), Z3 DEF WaitPCs
  <2>6. FreeQueue'
    BY <2>2, NullIsNoThread DEF FreeQueue, Free
  <2>7. HolderHasMutex'
    BY <2>1, <2>2, NullIsNoThread DEF HolderHasMutex, WriterWaits, Free, Goto, TypeOK
  <2>8. pc'[t] = label
    BY <2>1 DEF Goto, TypeOK
  <2>9. label = "releasing" => \A i \in DOMAIN waiters : waiters[i].type = "Reader"
    <3>1. \A i \in DOMAIN waiters : waiters[i] \in Entries
      <4>1. waiters \in Seq(Entries)
        BY DEF TypeOK, Entries
      <4> QED
        BY <4>1
    <3>2. \A i \in DOMAIN waiters : waiters[i].type \in {"Reader", "Writer"}
      BY <3>1 DEF Entries
    <3> QED
      BY <2>1, <3>2, FirstTells
  <2>10. MutexTells'
    BY <2>1, <2>2, <2>8, <2>9 DEF MutexTells
  <2> QED
    BY <2>3, <2>4, <2>5, <2>6, <2>7, <2>10, SMTT(30), Z3
<1> QED
  BY <1>1, <1>2, SMTT(30), Z3 DEF ReleaseW
(* The loops that wake the readers.                                         *)
LEMMA WakeNextStep ==
  ASSUME IInv, NEW t \in Threads, WakeNext(t) PROVE IInv'
<1> USE DEF IInv
<1>0. /\ pc[t] \in {"releasing", "downgrading"} /\ lock = t /\ ~Free
      /\ UNCHANGED <<readers, wasUnblocked>>
  BY NullIsNoThread DEF WakeNext, HolderHasMutex, Free
<1>1. pc[t] = "downgrading" => readers > 0
  BY ReadersTell DEF ReadPCs
<1>2. pc[t] = "releasing" =>
        readers = 0 /\ \A i \in DOMAIN waiters : waiters[i].type = "Reader"
  BY <1>0 DEF MutexTells, WriterWaits
<1>3. CASE NextToWake(t) # 0
  <2> DEFINE i == NextToWake(t)
             w == waiters[i].thread
  <2>1. Dequeue(t, i) /\ UNCHANGED <<pc, lock>>
    BY <1>3 DEF WakeNext
  <2>2. i \in DOMAIN waiters /\ waiters[i].type # "Writer"
    BY <1>0, <1>2, <1>3, FirstTells, SMTT(30), Z3 DEF NextToWake, TypeOK
  <2>3. /\ waiters' \in Seq(Entries)
        /\ waiting' = waiting \ {w} /\ w \in waiting
        /\ target' \in [Threads -> Threads \cup {NullThread}]
        /\ \A j \in DOMAIN waiters' : \E k \in DOMAIN waiters : waiters'[j] = waiters[k]
        /\ Queued'
    BY <2>1, <2>2, Dequeued, SMTT(30), Z3
  <2>4. pc[w] \in {"rWait", "rBlock"}
    BY <2>2 DEF Queued
  <2> HIDE DEF w, i
  <2>5. TypeOK'
    BY <1>0, <2>1, <2>3 DEF TypeOK, Entries
  <2>6. Alone' /\ Counts'
    BY <1>0, <2>1 DEF Alone, Counts, Readers, Writers, At
  <2>7. FreeQueue'
    BY <1>0, <2>1 DEF FreeQueue, Free
  <2>8. HolderHasMutex'
    BY <1>0, <2>1, <2>3, <2>4, SMTT(30), Z3 DEF HolderHasMutex, WriterWaits
  <2>9. MutexTells'
    BY <1>0, <1>2, <2>1, <2>3 DEF MutexTells
  <2> QED
    BY <2>3, <2>5, <2>6, <2>7, <2>8, <2>9, Zenon
<1>4. CASE NextToWake(t) = 0
  <2> DEFINE label == IF pc[t] = "downgrading" THEN "reading" ELSE "out"
  <2>1. Goto(t, label) /\ lock' = NullThread /\ UNCHANGED <<waiters, waiting, target>>
    BY <1>4 DEF WakeNext
  <2>2. pc[t] = "releasing" => waiters = <<>>
    BY <1>4 DEF NextToWake
  <2>3. pc[t] = "downgrading" => \A i \in DOMAIN waiters : waiters[i].type # "Reader"
    BY <1>4, FirstTells DEF NextToWake
  <2>4. TypeOK'
    BY <1>0, <2>1 DEF TypeOK, Goto, PCs
  <2>5. Alone' /\ Counts'
    BY <1>0, <2>1, ReadersStep DEF ReadPCs
  <2>6. Queued'
    BY <1>0, <2>1, QueueStays, WaitersWait DEF WaitPCs
  <2>7. FreeQueue'
    <3>1. CASE pc[t] = "releasing"
      BY <1>0, <1>2, <2>1, <2>2, <3>1, SMTT(30), Z3 DEF FreeQueue
    <3>2. CASE pc[t] = "downgrading"
      <4>1. waiters # <<>> => 1 \in DOMAIN waiters /\ waiters[1] \in Entries
        <5>1. waiters \in Seq(Entries)
          BY DEF TypeOK, Entries
        <5> QED
          BY <5>1
      <4>2. waiters # <<>> => waiters[1].type = "Writer"
        BY <2>3, <3>2, <4>1, SMTT(30), Z3 DEF Entries
      <4> QED
        BY <1>0, <1>1, <2>1, <3>2, <4>2, SMTT(30), Z3 DEF FreeQueue
    <3> QED
      BY <1>0, <3>1, <3>2
  <2>8. HolderHasMutex' /\ MutexTells'
    BY <1>0, <2>1 DEF HolderHasMutex, MutexTells, WriterWaits, Free, Goto, TypeOK
  <2> QED
    BY <2>4, <2>5, <2>6, <2>7, <2>8, SMTT(30), Z3
<1> QED
  BY <1>3, <1>4, SMTT(30), Z3

LEMMA UnblockStep ==
  ASSUME IInv, NEW t \in Threads, Unblock(t) PROVE IInv'
<1> USE DEF IInv, Unblock
<1>1. UNCHANGED <<lock, readers, waiters, waiting>>
      /\ wasUnblocked' \in [Threads -> BOOLEAN]
      /\ target' \in [Threads -> Threads \cup {NullThread}]
  BY DEF TypeOK
<1>2. CASE pc[t] = "handing"
  <2>1. Goto(t, "out")
    BY <1>2 DEF Goto
  <2>2. TypeOK'
    BY <1>1, <2>1 DEF TypeOK, Goto, PCs
  <2>3. Alone' /\ Counts'
    BY <1>1, <1>2, <2>1, ReadersStep DEF ReadPCs
  <2>4. Queued'
    BY <1>1, <1>2, <2>1, QueueStays, WaitersWait DEF WaitPCs
  <2>5. FreeQueue'
    BY <1>1 DEF FreeQueue, Free
  <2>6. HolderHasMutex' /\ MutexTells'
    BY <1>1, <1>2, <2>1 DEF HolderHasMutex, MutexTells, WriterWaits, Free, Goto, TypeOK
  <2> QED
    BY <2>2, <2>3, <2>4, <2>5, <2>6, SMTT(30), Z3
<1>3. CASE pc[t] # "handing"
  <2>1. pc' = pc
    BY <1>3
  <2>2. TypeOK'
    BY <1>1, <2>1 DEF TypeOK
  <2>3. Alone' /\ Counts'
    BY <1>1, <2>1, Zenon DEF Alone, Counts, Readers, Writers, At
  <2>4. Queued' /\ FreeQueue'
    BY <1>1, <2>1 DEF Queued, FreeQueue, Free
  <2>5. HolderHasMutex' /\ MutexTells'
    BY <1>1, <2>1 DEF HolderHasMutex, MutexTells, WriterWaits, Free
  <2> QED
    BY <2>2, <2>3, <2>4, <2>5
<1> QED
  BY <1>2, <1>3

-----------------------------------------------------------------------------
(* Every behaviour keeps the inductive invariant.                           *)
THEOREM Invariance == Spec => []IInv
<1>1. ASSUME IInv, NEW t \in Threads, AcquireW(t) \/ Upgrade(t) PROVE IInv'
  <2>1. pc[t] = "reading" => readers > 0
    BY <1>1, ReadersTell DEF IInv, ReadPCs
  <2>2. CASE AcquireW(t) /\ readers # 0
    BY <1>1, <2>2, WriterQueues DEF AcquireW
  <2>3. CASE Upgrade(t) /\ readers # 1
    BY <1>1, <2>1, <2>3, WriterQueues, SMTT(30), Z3 DEF Upgrade
  <2>4. CASE (AcquireW(t) /\ readers = 0) \/ (Upgrade(t) /\ readers = 1)
    BY <1>1, <2>4, WriterEnters DEF AcquireW, Upgrade
  <2> QED
    BY <1>1, <2>2, <2>3, <2>4
<1>2. ASSUME IInv, NEW t \in Threads, TryAcquireW(t) \/ TryUpgrade(t) PROVE IInv'
  BY <1>2, WriterEnters, SMTT(30), Z3 DEF TryAcquireW, TryUpgrade
<1>3. ASSUME IInv, UNCHANGED vars PROVE IInv'
  BY <1>3 DEF vars, IInv, TypeOK, Alone, Counts, Readers, Writers, At, Queued, FreeQueue,
     Free, HolderHasMutex, MutexTells, WriterWaits
<1>4. IInv /\ [Next]_vars => IInv'
  BY <1>1, <1>2, <1>3, AcquireRStep, WaitStep, GivenLockStep, ReleaseRStep, ReleaseWStep,
     WakeNextStep, UnblockStep, SMTT(30), Z3 DEF Next, Acquire, Convert, Release, Proceed
<1> QED
  BY <1>4, InitIInv, PTL DEF Spec

(* The promise of TmpRWLock: a writer is alone, and `readers' tells who     *)
(* holds the lock, for any number of threads.                               *)
THEOREM WriterExcludes == Spec => []WriterIsAlone
<1>1. IInv => WriterIsAlone
  <2> SUFFICES ASSUME IInv PROVE WriterIsAlone
    OBVIOUS
  <2>1. ASSUME Writers # {} PROVE Cardinality(Writers) = 1 /\ Readers = {}
    <3>1. PICK w \in Threads : pc[w] = "writing"
      BY <2>1 DEF Writers, At
    <3>2. Writers = {w} /\ Readers = {}
      BY <3>1 DEF IInv, Alone, Writers, Readers, At, ReadPCs
    <3> QED
      BY <3>2, FS_Singleton
  <2> QED
    BY <2>1 DEF IInv, Counts, WriterIsAlone
<1> QED
  BY <1>1, Invariance, PTL

(* releaseR, releaseW and downgrade leave no one behind: whenever the inner *)
(* mutex is free, the queue is empty or waits for those who hold the lock,  *)
(* and it holds every waiting thread once.                                  *)
THEOREM NoWaiterIsForgotten == Spec => []NoWaiterForgotten
<1>1. IInv => NoWaiterForgotten
  <2> SUFFICES ASSUME IInv PROVE NoWaiterForgotten
    OBVIOUS
  <2>1. waiting \subseteq At(WaitPCs)
    BY WaitersWait DEF IInv, At, TypeOK
  <2> QED
    BY <2>1 DEF IInv, NoWaiterForgotten, FreeQueue, Queued
<1> QED
  BY <1>1, Invariance, PTL
=============================================================================
