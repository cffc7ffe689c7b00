# TLA+ models of K42

K42 is a research operating system for shared-memory multiprocessors, written in
C++.  This directory holds TLA+ specifications of its concurrent core, the TLC
configurations that check them on small instances, and proofs, checked by TLAPS,
of the properties that matter most, for every number of threads.

Run a model with `tlc -config X.cfg M` (the pairs are listed in `PROJECT.json`), and
a proof with `tlapm M.tla` for a module whose name ends in `Proofs`.

## The system

K42 is a small kernel, servers, and a large library (`lib/libc`) linked into the
kernel and into every program.  Much of what other systems do in the kernel is
done in that library, at user level:

* **Dispatchers and threads** (`lib/libc/scheduler`).  A process has a dispatcher
  per virtual processor.  The kernel runs dispatchers; the dispatcher schedules its
  threads itself, *disabled* (not interruptible) while it touches its lists.  The
  kernel tells it of events by soft interrupts, by bit vectors of completed page
  faults and IPC retries, and by entering it at one of eight entry points.
* **Synchronisation** (`lib/libc/sync`).  Locks, reader-writer locks, semaphores,
  barriers and use counts are built from atomic memory operations and the two calls
  `Scheduler::Block` and `Scheduler::Unblock`.  An unblock that comes before the
  block is remembered in the thread (`wasUnblocked`), and every wait is a loop that
  looks at its condition again.
* **Messages between dispatchers of a program** (`lib/libc/sync/MPMsgMgr*`): pushed
  on a queue of the receiver, which is told by a soft interrupt.
* **Asynchronous messages between processes**: the kernel stores them into ring
  buffers in the page it shares with the dispatcher (`os/kernel/sys/Dispatcher.H`)
  and threads of the dispatcher fetch them.
* **Timers**: the kernel keeps one request per process annex (`os/kernel/exception/
  KernelTimer`), the dispatcher a wheel of events (`lib/libc/scheduler/
  SchedulerTimer`), and the waits with a timeout put their event on the stack.
* **Clustered objects** (`lib/libc/cobj`): objects with a representative per
  processor, reached through translation tables, with deferred destruction and hot
  swapping.  A destroyed object is freed when the threads that may use it are gone,
  which is found out by counting active threads in *generations* and by a *token*
  that goes round the processors.
* **Kernel** (`os/kernel`): exception-level code and IPC (`exception`), processes
  (`proc`), memory management (`mem`), devices and tests (`bilge`), start-up
  (`init`).
* **Servers** (`os/servers`) for file systems, pseudo terminals, pipes, naming, and
  **Linux emulation** (`kitch-linux`).

How the parts depend on each other, from the bottom: `DispatcherDefault` provides
Block and Unblock; `FairBLock` is built on those; `RWLock`, `RequestCountWithStop`
and `Semaphore` on FairBLock; regions, VP lists and hash tables of the kernel on
RequestCountWithStop; `sendRemoteAsyncMsg` on the VP list and the ring buffers; the
handlers of asynchronous messages on the ring buffers, the soft interrupts and the
dispatcher; `SchedulerTimer` on `KernelTimer`; the object manager on the generations
of `ActiveThrdCnt` and, through its daemon's waits, on the timer.  The models follow those layers: each takes from the layer below what
that layer's own model shows it to provide.

### Inventory

| Part | State | Operations | What is hard about it |
|---|---|---|---|
| RequestCount | count, closing thread | enter, leave, shutdown | count and closer are changed by separate atomic operations |
| RequestCountWithStop | the same, and a lock | enter, leave, stop, restart, shutdown | stops in sequence; a leave that is late by a whole stop |
| FairBLock | tail pointer, elements on stacks | acquire, tryAcquire, release | stores into other threads' stacks; the state is put right by the next owner |
| RWLock | reader count, queue of waiters, mutex | acquire/try/release for readers and writers, upgrade, downgrade | the mutex is released by a thread other than the one that took it |
| MPMsgMgr | two queues per dispatcher, message pool, registry | send (sync, async), reply, process both queues | one interrupt per non-empty queue; messages live on stacks and in a pool |
| DispatcherDefault | thread lists, flags, posted bits | block, unblock, yield, schedule, exit, migrate, page fault, IPC, groups, interrupts | one `next` field for all lists; events in any order |
| AsyncBuffer | two counters, words | storeMsg, fetchMsg | wrap-around, counters reset under the reader |
| Async handlers | buffers, a flag, a count, threads | send, interrupt, fetch, loop, end | messages that arrive just when a handler gives up; the limit |
| SchedulerTimer | immediate list, table of slots, anchor | schedule, cancel, interrupt, block with timeout | slots shared by times a whole table apart; events on stacks |
| KernelTimer | queue of requests, decrementer | request, reset, new quantum, interrupt, detach | one decrementer for all, set by whoever comes first |
| ActiveThrdCnt | a packed word, two counters | activate, deactivate, advance | a count split over two words, and an interest bit |
| COSMgr | tables, delete sets, token, transfer records | allocate, miss, call, destroy, check cleanup | quiescence over all processors; references outlive objects |
| Semaphore, SysVSemaphores | counter, two waiter lists | P, V, Z, try, wake-up with error, semop, remove | waiters of different sizes, removal of the set |
| Barrier | count, sense | enter | reuse of a barrier while threads leave it |
| Mediators, arbiters | phases, thread tables | swap, forward, complete | calls in flight while the object is exchanged |
| Regions, FCMs, page allocators | page descriptors, reference counts | fault, page in and out, fork copy, destroy | I/O in progress against destruction |
| Process, VP lists | dispatchers, use counts | create, destroy, deliver | destruction against delivery |
| File systems, servers, emulation | formats, name trees | many | mostly sequential, data-heavy |

`PROJECT.json` lists every part with its sources and status, and, under `hazards`,
the places where the code is exposed to orders of events that tests hardly reach.

## The modules

A program counter `pc` names the point a thread has reached; an action is one step
of the code up to the next access to memory that others see.  `Block` is modelled as
in `DispatcherDefault`: it returns when `wasUnblocked` is set, and clears it.  Code
that runs disabled on one dispatcher is one step, unless another processor can look
in between.  Definitions marked `Mutant:` are changed versions of the definition
after them; they are used only to see that the properties notice such a change.

**RequestCount** (`RequestCount.{H,C}`).  `requests` and `shutdownThread` are the
fields of the class.  Every fetch-and-add, swap and compare-and-store is an action:
`Enter`, `LeaveSubtract`, `LeaveSwap`, `LeaveUnblock`, and the steps of `shutdown`.
A caller that finds `shutdownThread` taken returns the count it read before; when that
was 0 it believes to have won, and is at `FalseWin`.  `N` is `LONG_MAX/2`; all the code needs of it is that it exceeds the
number of threads.

**RequestCountWithStop** extends it: `stop` and `shutdown` run the steps of
RequestCount under `lock`, `restart` gives back `N`, and a refused `enter` waits for
the lock and tries again.  A release of the lock is part of the step before it.
`MaxClosings` bounds the calls of stop and shutdown.  Two history variables tell apart
what the count cannot: `stale` has the threads that a restart caught between the
subtraction and the swap of `leave`, `robbed` the closers whose mark such a thread took.
The lock keeps a second closer out, so `FalseWin` does not occur here.

**FairLock** is the abstract lock: an owner and a queue.  **FairBLock**
(`FairBLock.{H,C}`) is the code: `tail` and `nextThread` of the lock's element and of
the element on each thread's stack, `waiting[t]` for `myel.waiter`.  The spin and
yield limits are a free choice to go on.  The refinement mapping reads the abstract
queue off `tail` and the predecessors in the local `el`; the owner is the thread that
has been handed the lock, also before it notices.

**RWLock** (`RWLock.H`).  `readers` is the field (-1 for a writer), `waiters` the
sequence kept by ListSimpleKey.  What is done under the inner mutex `lock` is one
step, except where threads are woken one by one, or where the mutex is handed to a
woken writer, which releases it: then `lock` is held across steps.

**ThreadLists** has the list operations of a dispatcher as operators on a record of
links, with the `next` field shared by all lists as in the code.
**DispatcherDefault** (`DispatcherDefault.{H,C}`, `DispatcherDefaultExp.C`) has one
action per operation and kernel entry: RunEntry with its handling of interrupts and
barred threads, SelfInterrupt, Yield, Block, Unblock, ScheduleFunction, Exit,
Suspend, ResumeThread, FreeThreadKey, Migrate, PgfltBlock, InterruptThread, the IPC
entries, the thread groups, and what the kernel posts.  The kernel reports a page-fault
completion in two steps, the bit and then the soft interrupt (`notifying` is the bit in
between), since it may do so from another processor.  A thread is `outside` when it has
no key in the dispatcher.

**AsyncBuffer** (`Dispatcher.H`).  Words, counters, `CAPACITY` and the message
lengths are those of the code, in small numbers; `remote` chooses between the two
classes.  `sent` and `got` record what was stored and fetched; `fpc` is the point the
reader has reached in fetchMsg.  **AsyncSizes** has the sizes that this module and the
next one share, and the assumption on them.

**AsyncMsgHandler** (`DispatcherDefault.C`, `ExceptionLocal.C`, `ProcessVPList.C`)
composes senders, interrupt and handler threads, each buffer being the number of
messages in it, which AsyncBuffer shows to be a FIFO queue.  `sending` counts the
remote senders between their store and their interrupt.

**MPMsgMgr** (`MPMsgMgr*.{H,C}`).  A header's `next` links it into whichever list it
is on.  `enabled` chooses between the enabled manager, whose lists are walked by
threads, and the disabled one, which walks them in the interrupt handler.  `owed`
records messages whose function has not been called.  The enabled manager takes a whole
send queue off and then asks the dispatcher for a thread; when there is none, its
assertion stops the dispatcher (`stopped`) with the messages in hand.

**TimerRequest** is what the kernel's timer promises one dispatcher: `req` is its
request, `intr` its pending TIMER_EVENT; `Pop` answers a request that is due,
`GiveUp` one that is dropped because the dispatcher moves away.  **KernelTimer**
(`KernelTimer.{H,C}`, `KernelClock.H`) is the queue behind it, for all annexes of a
processor: `reqWhen`, `when`, `dispatchTime` as in the code, `hw` the time at which
the decrementer goes off.  Its functions run with hardware interrupts off and are one
action each; time may pass by any amount between them.

**SchedulerTimer** (`SchedulerTimer.{H,C}`, `TimerEvent.C`, and BlockWithTimeout and
DelayUntil of `DispatcherDefault.C`) extends TimerRequest: `imm` and `table` are the
immediate list and the slots, `anchor`, `when`, `now` the fields, `run` and `old` local
variables of timerInterrupt.  The code runs disabled, but the clock and the kernel go
on, so each `_TIMER_REQUEST` and each round of the interrupt's loop is a step.  Each
event belongs to a thread; `th` says whether that is in the wait (`in`), about to cancel
(`reset`) or has left the stack frame (`out`).  The clock is the one user code can read.
`TimerInterrupt` has the code's three cases: before `when` it asks for the interrupt
again, at `when` it does nothing, after it the loop runs.

**Generations** is what the object manager needs of the counting of threads: an active
thread is in the current or the previous generation of its processor, and a generation
ends only when the previous one is empty.  **ActiveThrdCnt** (`ActiveThrdCnt.{H,C}`) is
the counters, with the two fields of `genIndexAndActivationCnt`, the interest bit and
every atomic operation as a step; `gen` is its refinement mapping.

**ThreadMarkers** (`COSMgrObject.C`) is the part of the manager that decides when a
marker has elapsed: generation counts, the token, and a global marker.  A marker is a
generation count that is only ever compared with a later one; the model keeps the
difference, up to 2.  **COSMgr** (`COSMgrObject.C`, `TransEntry.H`,
`CObjRootSingleRep.C`, `CObjRootMultiRep.C`) is the manager with its clients: threads
that get hold of references, call, miss and destroy; per processor the lists a destroyed
object passes through (`stage1`, `delSets`, `tmpList`, `remList`, `vpCleanup`), the
lists of references (`refLists`), the `transferArray` (`xfer`); and `checkCleanup`, cut
at the points where another processor or an active thread can come in between (`at`).
`DestroyCO` of a multi-rep root needs a representative: its only caller,
`BaseObj::destroyUnchecked` (`BaseObj.C:391`), is a method of one.  It implements
ThreadMarkers with no global marker set; ThreadMarkers has that marker, which only
observes the token, and what is proved of it (`GlobalMarkerElapsed`).

## Runs

Each run is a module with a configuration of the same line in `PROJECT.json`.

| Run | Instance | Shows |
|---|---|---|
| request_count | 3 threads, all may shut down | a shutdown that took `N` off and returns 0 sees no use (`WinnerSeesNoUse`), the count is exact, nobody is woken early, and a shutdown that is the only one to subtract returns |
| request_stop | 3 threads, 2 closings | restart finds no waiter, a closer sees no use unless it was robbed (`UnrobbedCloserSeesNoUse`), refused requests resolve, closings return |
| request_stop_twice | the same | **violated**: `CloserSeesNoUse`, for every closer |
| fairblock | 3 threads | mutual exclusion, the chain of waiters, lifetime of stack elements, refinement of FairLock, every queued thread gets the lock |
| dispatcher | 3 threads, one of them migratable, 2 groups, 1 fault id, 1 retry id, 2 events outstanding (`Bounded`) | each thread is in exactly one place, the tail pointer is right, no barred thread is stranded, fault lists are exact, no completion or retry notification is lost (`CompletionNotLost`) |
| asyncbuffer | header 1, data up to 2 words of 2 bytes, capacity 4, 4 messages | messages arrive in order and whole, and all of them |
| asyncmsg | 4 handlers, limit 3, buffers of 3, 2 senders | the handlers' book-keeping is exact, no message is stranded, messages are taken while older handlers block |
| rwlock | 3 threads, all nine operations | a writer is alone, no waiter is forgotten and only writers are handed the mutex, writers and readers get in |
| mpmsg | 2 clients and 1 holder on one dispatcher, 2 workers on the other | a message is reachable from one place, a non-empty queue has its interrupt, replies follow the call, all is handled unless a dispatcher stops |
| cosmgr | 2 processors with a thread each, 1 reference, a multi-rep and a single-rep root | nobody uses a deleted object, references are reused only when unknown everywhere, the lists name no deleted root, every destroyed object is reclaimed, ThreadMarkers is implemented |
| timer | a DelayUntil and a BlockWithTimeout, 2 slots of 4 ticks, delays up to 9, clock to 11 | no timeout is early, the timer's setting fits the anchor and the lists, events do not outlive their stack frame, a round of the interrupt's loop finds the next event |
| timer_lost | the same | **violated**: `TimerNotLost` |

### Bounds, and why they are enough

Three threads give FairBLock an owner, a head that is converting the lock and a
thread that queues behind it, all at once; RequestCount a closer, a use in flight and
a refused enter, or two closers and a use; RWLock a holder, and a reader and a writer
that wait in either order.  Two closings are the fewest for a leave that belongs to
one stop to act in the next.  A capacity of four words with messages of one to three
words wraps at every offset, fills the buffer, and resets the counters at every point
of a fetch.  With a handler limit of three, buffers of three and four threads the
limit is reached with messages left over.  With two workers the enabled manager walks
two lists, hands on the rest of one, and runs out of threads.  In the dispatcher two
threads can be ready, barred or on one fault list while the third runs, and the
migratable one can be removed from any place in the queue; the two threads of the base
kind are interchangeable, and the run uses that symmetry.  `Bounded` keeps at most
`MaxOutstanding` flags, bits and interrupts outstanding at a time, and none while a
group is in use.  Two processors and one reference let an object
be destroyed where it is local, where it is remote and where its reference is at home or
not, and the reference be allocated again while another object's cleanup is under way;
two threads of one processor in different generations are beyond this instance, and are
covered by the proofs about ActiveThrdCnt, ThreadMarkers and COSMgr, which are for any
number of threads.  A delay of nine ticks
is longer than a turn of the table (eight), so both events can share a slot in different
turns, and the clock runs almost one and a half turns.  No bound is on the depth: except
for the message and closing counts, the clock and what is outstanding (`MaxStores`,
`MaxClosings`, `MaxClock`, `MaxDelay`, `MaxOutstanding`) the runs cover all behaviours of
the instance.

`request_count`, `asyncbuffer`, `mpmsg` and the timer runs allow deadlock: after a shutdown nobody
is obliged to do anything, after `MaxStores` messages nothing is left to fetch, a
dispatcher that stopped leaves its clients waiting, and after `MaxClock` a thread may wait for a time that does not come.

Larger instances, too long to be kept as runs, were checked once without an error: the
dispatcher with three events outstanding (350,564 states); RequestCountWithStop with three
closings (189,003) and four (548,191); SchedulerTimer with the clock to 12 (5,936,080) and
with three slots of three ticks (4,281,947); ActiveThrdCnt with three threads (5,636), and
KernelTimer with three annexes and times up to 6 (353,130), before they were proved.

### Fairness

Weak fairness of a thread's own steps stands for a scheduler that runs every ready
thread.  The others:

* Taking a BLock is strongly fair in RequestCountWithStop and RWLock: FairBLock hands
  the lock over in order (`QueuedGetsLock`), and its holders release it.
* FairBLock assumes nothing of threads that spin or retry a compare-and-store; only a
  thread already queued is shown to get the lock.
* AsyncMsgHandler assumes nothing of a handler that processes a message.  The
  interrupt and the ready handler are strongly fair, since the dispatcher can be
  disabled again and again but returns to its ready threads.
* COSMgr: the cleanup daemon of each processor runs again and again (it waits with a
  timeout), and every activation of a thread ends; nothing is assumed of calls, misses or
  destructions.
* MPMsgMgr: threads of a dispatcher run between its interrupts (strong fairness).  That
  no dispatcher stops is a premise of `AllHandled`.
* DispatcherDefault assumes none: that a completion wakes its thread is stated as safety
  (`CompletionNotLost`), since what it leads to depends on the kernel running the
  dispatcher.
* Where others can for ever overtake a thread (`RefusalsCease` in RequestCount,
  `RetriesCease` in MPMsgMgr) the liveness properties say so in their premise; no
  fairness is assumed instead, since the code gives none.

## What the runs found

* **A second stop can return too early** (`RequestCount.H:91`, run `request_stop_twice`).
  A leave() that fetched `1-N` during one stop can be delayed over restart and into a
  later stop or shutdown, whose closer it then releases although a use is in flight.
  `UnrobbedCloserSeesNoUse` says that this is the only way: a closer whose mark no such
  leave() took sees no use, after any number of closings.
* **A timer can be lost** (`SchedulerTimer.C:208`, run `timer_lost`).  The event the timer
  is set for is cancelled, and the only other event is in the slot with the same index,
  one turn of the table later.  The search for the next bucket ends at that slot without
  looking into it, the kernel request is reset, and the other event does not go off until
  something else sets the timer.  `timerInterrupt` has the same search and does look.
  With a larger table the same happens when the anchor shares its bucket with an event
  that is still in the table and is then cancelled.

Others are stated as definitions that TLC refutes, without a run of their own:

* **A second shutdown can win falsely** (`ZeroSeesNoUse` in RequestCount, against
  `RequestCount.H:102`).  Caller B reads `requests` as 0; A marks itself in
  `shutdownThread`; B finds the mark and returns the 0 it read, as if it had shut the
  object down, while enter() still succeeds.
* **An interrupt on time is used up** (`RequestOutstanding` in SchedulerTimer,
  `SchedulerTimer.C:463`).  When the clock reads exactly `when`, timerInterrupt neither
  runs its loop nor asks again, and events in the table are left without a kernel request
  until something else sets the timer.

* **A second shutdown can hang** (`ShutdownReturns` in RequestCount, `RequestCount.C:37`).
  Caller B reads `requests` and `shutdownThread`; caller A shuts down completely and
  clears `shutdownThread`; B's compare-and-store succeeds, B subtracts N again, and if a
  refused enter() was counted at that moment B blocks for ever.
* **The largest message** (`ShorterThanMax` in AsyncBuffer, `Dispatcher.H:169`): storeMsg
  accepts `MSG_LENGTH` words, the assertion in fetchMsg wants fewer.

Seen while reading, and without a run: `anyActive` (`ActiveThrdCnt.C:98`) reads the
activation count before the counters, so that an advance in between can make it see too
few threads, against the comment at line 63;
`CObjRootMultiRepBase::cleanup` looks for the representative of its own processor
(`CObjRootMultiRep.C:237`), which roots with a cluster size other than one need not have.
In code that nothing calls,
`disabledReplaceBarMask` (`DispatcherDefault.C:1364`) and
`disabledRemoveThread(Thread*)` (`DispatcherDefault.C:693`) would leave the lists
wrong if they were used.

## What is proved

Eight modules hold proofs.  Each proves an inductive invariant (it holds in `Init`,
every step keeps it, one lemma per step of the code) and draws the properties from it.
The theorems are for every value of the constants that satisfies the assumptions named
in the modules; `PROJECT.json` lists them.  TLC checked the invariants on
small instances, except that of AsyncBuffer, which quantifies over functions into the
natural numbers.

**CountProofs**, on the counts.  Of RequestCount: `CountExact`, `WinnerSeesNoUse`,
`NoEarlyWakeup`, for any finite set of threads (`ThreadsFinite`), any set of destroyers
and any `N` larger than the number of threads plus one (`NIsHuge`).

    IInv == TypeOK /\ CountExact /\ Quiet /\ LeavingIsClosed /\ MarkStands

A winner returns because `shutdownThread` was cleared, which the count does not
mention.  `Quiet` says that no use is in flight wherever the field can be cleared,
`LeavingIsClosed` that only a closed count sends a `leave` to the swap, and `MarkStands`
that the mark of a closer survives until it has subtracted.  `CountExact` then turns the
fetched value `1-N` into "I was the only one counted", by the cardinality of the set of
threads at a program point.

Of RequestCountWithStop: `RestartFindsNoWaiter`, `UnrobbedCloserSeesNoUse`, `OneCloser` and
the exact count, for any number of threads and of closings.  The invariant says who may
be where while the lock is held (`LockHeld`, `TryAlone`, `CloserAlone`) and that a closer
that has won has no mark left (`WonIsUnmarked`).  That a closer sees no use is false in
general, see above; `Undisturbed` carries it for those that were not robbed.  A `leave` on
its way to the swap that no restart has caught (`Fresh`) belongs to the closing in
progress, so no use is left when it takes the mark; any other that takes the mark makes
its closer `robbed`.

Of ActiveThrdCnt (an instance, `Cnt`): `NotifyFindsOne`, `AdvanceNotBlocked` and the
refinement of Generations.  The invariant gives each counter's value in threads at each
point of advance (`CurrentCount`, `PreviousCount`) and names the one who has to reset a
counter at 1 (`Notes`).

**FairBLockProofs**: `MutualExclusion`, `FreeMeansNoOwner`, `WaiterChainIntact`,
`LinkTargetAlive` and the types, for any set of threads, finite or not; the only
assumption is that the lock's element, the null pointer and the threads differ
(`ElementsDistinct`).

    IInv == TypeOK /\ MutualExclusion /\ FreeMeansNoOwner /\ SeenTail
              /\ Linking /\ OneLinks /\ TailRight /\ HeadRight /\ NextRight

Who is handed the lock next depends on pointers stored by threads that queued long
before, so mutual exclusion needs the shape of the queue: `Linking` and `OneLinks` say
that an element between the compare-and-store and the store of its link is not the
tail, has one thread about to link to it, and is still needed; `TailRight`, `HeadRight`
and `NextRight` say where the tail, the head and each link point at each step.

**RWLockProofs**: `WriterIsAlone` and `NoWaiterForgotten`, for any set of threads
(`NullIsNoThread`).

    IInv == TypeOK /\ Alone /\ Counts /\ Queued /\ FreeQueue
              /\ HolderHasMutex /\ MutexTells

`readers` is right only together with who is being handed the lock, and that is known
only from the mutex: `HolderHasMutex` says which points of the code hold it,
`MutexTells` what the holder of a handed-on mutex is about to do, `FreeQueue` what the
queue looks like when nobody holds it.

**AsyncProofs**, on asynchronous messages.  Of AsyncMsgHandler: `HandlersCounted` and
`NoneStranded`, for any finite set of handler threads larger than the limit
(`EnoughThreads`), any limit, buffer size and number of senders.

    IInv == Types /\ Counted /\ RoomForReady /\ LookedFresh /\ NoneStranded

`NoneStranded` is broken by a handler that ends; `LookedFresh` gives the step its
reason (a message that came after the handler's last look has left an interrupt
pending), and `RoomForReady` and `Counted` keep the limit.

Of AsyncBuffer: `FetchedInOrder`, for both classes of buffer, any number of messages and
any sizes of word, header, message and buffer of which a largest message fits (`Sizes`).

    RingIInv == /\ RingTypes /\ Reader /\ Writer /\ Fetched
                /\ \E start \in [1..Last -> Nat] : Layout(start)

`Layout` says where the messages stored and not yet fetched begin: the words from
`accepted` to `delivered` are those messages, one after the other, each in one piece from
the remainder of its position on.  `Reader` says what fetchMsg may rely on at each of its
steps: the counters may be reset before it has looked at both, but it goes on only when
there was a message, and then they are not.  `Writer` says what storeMsg on another
processor relies on between its check and its delivery.  That messages less than the
capacity apart never share a word is the arithmetic of remainders (`NoOverlap`).

**TimerProofs**, on the timers.  Of SchedulerTimer: `NotEarly`, `TimerSetting`,
`EventOnLiveStack` and `InterruptFindsNext`, for any set of events, any number of slots
and any width of a bucket (`Ticks`, `NoneIsNoEvent`).  The invariant `IInv`, in
SchedulerTimer, adds what `timerInterrupt` has established at each point of its loop.
`InterruptFindsNext` is about one step, a round of the loop: it sets `when` after `now`,
no later than any event in the table that is yet to come, and less than a turn ahead for
one that is overdue.  The slots the search passes cover the buckets from `now` on, each
once, so the first that holds an event of its own turn is the next one.  An event can be
overdue, since an insertion into the current bucket while an interrupt is outstanding may
move `when` past an event of the table.

Of KernelTimer (an instance, `Kern`): `NoRequestForgotten`, `QuantumEnds` and
`AnnexServed` (to each annex the shared queue is a TimerRequest), for any set of annexes,
any time and any limit of the decrementer from 1.  The invariant: `when` has passed or is
no later than anything the timer has to do, and the decrementer is set for `when` or
about to go off.

**COSMgrProofs**: every step of COSMgr is a step of ThreadMarkers or a stutter
(`ImplementsThreadMarkers`), and, for its actions other than those of the token, the
lemmas for the invariant of the object manager, for any number of processors, sets of
threads, references and roots (`NAssumption`, `VPOfAssumption`, `HomeOfAssumption`: every
thread and reference has its processor; `NoneAssumption`, `NullAssumption`: null is none
of them).

    IInv == TypeOK /\ Shape /\ GteInv /\ RootInv /\ PlaceInv /\ VpInv /\ LteInv
              /\ RecInv /\ RefInv /\ ClaimInv /\ ThreadInv /\ AgeInv

An object is deleted by whoever finds it on a list at the right time, so the invariant
says for each list how old its objects are: `PlaceInv`, `VpInv` and `RecInv` that a
destroyed root is in one place (a list of one processor or one transfer record) and what
its translations are there, `RefInv` and `ClaimInv` the same for a reference, `LteInv`
and `GteInv` what the tables still say of it, and `ThreadInv` and `AgeInv` that a thread
which may still hold the root is in a generation the marker of its list waits for.

**COSMgrTokenProofs** has the remaining actions, in which the token arrives, waits and
goes on, and the theorems: `NoUseAfterCleanup`, `FreeRefUnused` and `ListedRootsAlive`.
The crucial step is PassToken, where one processor deletes for all: the transfer records
carry the processors that still have a translation, and the records it leaves behind
must again be in one place.  It also proves, of ThreadMarkers (an instance, `Glob`),
`GlobalMarkerElapsed`: while the token makes its round, the processors behind it are rid
of the threads that were active when the marker was set, and its holder as far as its
own marker is old.

**MPMsgMgrProofs**: `QueueAnnounced`, `ReturnsServed` and `LinkInv`, for any number of
dispatchers, threads and messages, and both managers (`HomesAreVPs`, `ObjectsDiffer`:
every header and thread has its dispatcher, and different objects are different).

    IInv == TypeOK /\ PcInv /\ LinkInv /\ LabelInv /\ ClientInv
              /\ HandInv /\ AnnounceInv

Headers are linked by the sender, taken off by the receiver and handed from thread to
thread, so the argument counts pointers.  `Leads(k, i, x)` says that the pointer of kind
`k` (head of a queue, list of a thread, link of a listed header, link a thread is about
to follow, header in a thread's hands) at place `i` leads to `x`.  `LinkInv`: exactly one
pointer leads to a message that has yet to be handled or answered, and none to a header
whose memory may be used again.  Each step removes one pointer and adds another, and by
`LinkInv` it knows that no third one is left.  `LabelInv` says which messages are on
which lists (what is reached through a send queue has not been handled, through a reply
queue has been), `ClientInv` and `HandInv` what a sender and a worker hold, and
`AnnounceInv` who is about to interrupt for a queue that has become non-empty.

## What is only model-checked

* All liveness: the provers handle neither fairness nor ENABLED.
* The refinement of FairLock by FairBLock: the abstract queue is chosen from the
  pointers, and to show the choice unique needs induction over the queue's length.
* DispatcherDefault (`InOnePlace`, `TailIsLast`, `NoneStranded`, `FaultListExact`): its
  properties are about what a walk along the `next` fields finds, which is induction over
  data, and that is not possible with the installed provers.
* For the same reason `ReachedOnce` of MPMsgMgr, which follows the chains from their
  heads; `OnePointerEach` is what it says of each single pointer.
* `TimerNotLost` and `CloserSeesNoUse` are false, see above; nothing is proved of them but
  the parts that hold (`InterruptFindsNextEvent`, `UnrobbedCloserIsSafe`).

## What is not modelled, and why

* Machine-dependent code, boot, devices, register and page-table formats: the effect
  is on hardware state that no property here speaks of.
* File systems, servers, Linux emulation, the C library's ANSI part: large, mostly
  sequential, and data-heavy; the pipe and SysV semaphore servers are exceptions and
  are planned.
* Tracing, statistics, printing and debugging.
* Memory order weaker than sequential consistency.  The code mixes the `Synced` and
  `Volatile` forms of the atomic operations (`RequestCount.H:69` against `:91`); the
  models take every access as ordered, so the choice of form is not checked.
* Time, except in the timers: spin limits are free choices.
* Fork of a process: the dispatcher, the timer table and the object manager are copied
  and partly reset in the child.
* Of the object manager: pinned references, reclaimRef with its dummy root, manager
  representatives that join while the token goes round, and hot swapping.  The first
  three are small; the last is a protocol of its own.
* Machines on which user code cannot read the clock: SchedulerTimer then works with
  estimates that the kernel returns.
* Memory management (regions, FCMs, page I/O) and the process life cycle: planned.

## Plan

1. `Semaphore` and `SysVSemaphores` (waiters of different sizes, removal of the set,
   wake-up with error), with an abstract counting semaphore; `Barrier`;
   `BlockedThreadQueues`.
2. The mediator of a hot swap, on ThreadMarkers; manager representatives that join late.
3. Page I/O in the FCMs against destruction; `DHashTable`; VP lists and process
   destruction, composed with RequestCountWithStop and AsyncMsgHandler.
4. Fork: `disabledPostFork`, the timer table, the object manager.
5. The bit and recursive locks; the pipe server.
6. Proofs: DispatcherDefault with an invariant over single links, as for MPMsgMgr, and the
   initial states and steps of the FairBLock refinement.
7. Abstract specifications: a FIFO queue for AsyncBuffer, an abstract reader-writer
   lock for RWLock.
