-------------------------- MODULE DispatcherDefault --------------------------
(***************************************************************************)
(* lib/libc/scheduler/DispatcherDefault.{H,C} and DispatcherDefaultExp.C:  *)
(* the user-level thread scheduler of one dispatcher.  Its code runs with  *)
(* the dispatcher disabled, so every operation is one step; what           *)
(* interleaves is the choice of the next operation by the current thread,  *)
(* the entries made by the kernel, and the soft interrupts and completion  *)
(* bits that the kernel and other processors post at any moment.           *)
(***************************************************************************)
EXTENDS ThreadLists, Integers, FiniteSets

CONSTANTS Extended,   \* threads with extensionID # 0: they are not pooled,
                      \* may be migratable, and lose their key when freed
          Groups,     \* Thread::Group
          FaultIDs,   \* page-fault ids
          RetryIDs    \* IPC-retry ids

ASSUME ExtendedAreThreads == Extended \subseteq Threads
ASSUME NullIsNoThread     == NULL \notin Threads
ASSUME IDsAreNumbers      == FaultIDs \subseteq Nat /\ RetryIDs \subseteq Nat

VARIABLES h,            \* the thread lists
          current,      \* CurrentThread; NULL in RunEntry or out of the process
          outside,      \* threads not in threadArray: not yet created, freed
                        \* with their key, or migrated away
          isBlocked, wasUnblocked,
          pgfltID,      \* the fault t waits for, or -1
          suspended,    \* threads that disabledSuspend put aside
          inPPC,        \* threads with targetID set: calling another process
          retrying,     \* threads made by IPCFaultEntry to repeat an IPC
          groups, barredGroups,
          migratable,   \* isMigratable()
          interrupts,   \* pending soft interrupts
          pgfltCompleted, ipcRetry,  \* the bit vectors the kernel posts
          notifying,    \* the fault notifyFaultCompletion has set the bit of
                        \* without having sent the interrupt yet, or -1
          yieldRequested, preemptRequested, rescheduleNeeded

threadVars == <<isBlocked, wasUnblocked, pgfltID, suspended, inPPC, retrying, groups, migratable>>
flagVars   == <<yieldRequested, preemptRequested, rescheduleNeeded>>
postVars   == <<interrupts, pgfltCompleted, notifying, ipcRetry>>
vars == <<h, current, outside, threadVars, barredGroups, postVars, flagVars>>

Fault(f) == <<"pgflt", f>>
Retry(i) == <<"ipcRetry", i>>
Stacks == {<<"free">>, <<"barred">>} \cup {Fault(f) : f \in FaultIDs}
            \cup {Retry(i) : i \in RetryIDs}
Free == <<"free">>
Barred == <<"barred">>
Interrupts == {"PREEMPT", "PGFLT_COMPLETION", "IPC_RETRY_NOTIFY", "PULSE"}

Init ==
  /\ h = Empty(Stacks)
  /\ current = NULL
  /\ outside = Threads
  /\ isBlocked = [t \in Threads |-> FALSE]
  /\ wasUnblocked = [t \in Threads |-> FALSE]
  /\ pgfltID = [t \in Threads |-> -1]
  /\ suspended = {} /\ inPPC = {} /\ retrying = {}
  /\ groups = [t \in Threads |-> {}]
  /\ barredGroups = {}
  /\ migratable = {}
  /\ interrupts = {} /\ pgfltCompleted = {} /\ ipcRetry = {}
  /\ notifying = -1
  /\ yieldRequested = FALSE /\ preemptRequested = FALSE /\ rescheduleNeeded = FALSE

-----------------------------------------------------------------------------
(* Posted from outside: PREEMPT and PULSE, fault completions, IPC retries.  *)
PostFlag ==
  /\ \E i \in {"PREEMPT", "PULSE"} : interrupts' = interrupts \cup {i}
  /\ UNCHANGED <<h, current, outside, threadVars, barredGroups, pgfltCompleted,
                 notifying, ipcRetry, flagVars>>

\* Mutant: the interrupt is sent before the bit is set.
NotifyInterruptFirst(f) ==
  /\ \/ /\ notifying = -1
        /\ interrupts' = interrupts \cup {"PGFLT_COMPLETION"}
        /\ notifying' = f
        /\ UNCHANGED pgfltCompleted
     \/ /\ notifying = f
        /\ pgfltCompleted' = pgfltCompleted \cup {f}
        /\ notifying' = -1
        /\ UNCHANGED interrupts
  /\ UNCHANGED <<h, current, outside, threadVars, barredGroups, ipcRetry, flagVars>>

(* notifyFaultCompletion, in the kernel and perhaps on another processor:   *)
(* the bit, and then the interrupt.                                         *)
NotifyFaultCompletion(f) ==
  /\ \/ /\ notifying = -1
        /\ pgfltCompleted' = pgfltCompleted \cup {f}
        /\ notifying' = f
        /\ UNCHANGED interrupts
     \/ /\ notifying = f
        /\ interrupts' = interrupts \cup {"PGFLT_COMPLETION"}
        /\ notifying' = -1
        /\ UNCHANGED pgfltCompleted
  /\ UNCHANGED <<h, current, outside, threadVars, barredGroups, ipcRetry, flagVars>>

(* The retry manager works on the dispatcher's own processor, above it.     *)
PostRetry(i) ==
  /\ ipcRetry' = ipcRetry \cup {i}
  /\ interrupts' = interrupts \cup {"IPC_RETRY_NOTIFY"}
  /\ UNCHANGED <<h, current, outside, threadVars, barredGroups, pgfltCompleted, notifying, flagVars>>

-----------------------------------------------------------------------------
(* handleInterrupts: take all the pending interrupts and run their          *)
(* functions, lowest number first: PREEMPT, PGFLT_COMPLETION,               *)
(* IPC_RETRY_NOTIFY, PULSE.                                                 *)
Ascending(ids) == SetToSortSeq(ids, <)

ProcessPgfltCompletions(hh) ==
  FoldLeft(LAMBDA g, f : WakeStack(g, Fault(f)), hh, Ascending(pgfltCompleted))

ProcessIPCRetryNotifs(hh) ==
  FoldLeft(LAMBDA g, i : WakeStack(g, Retry(i)), hh, Ascending(ipcRetry))

PgfltPending == "PGFLT_COMPLETION" \in interrupts
RetryPending == "IPC_RETRY_NOTIFY" \in interrupts

ListsHandled ==
  LET g == IF PgfltPending THEN ProcessPgfltCompletions(h) ELSE h
  IN  IF RetryPending THEN ProcessIPCRetryNotifs(g) ELSE g

\* Mutant: a woken thread keeps its pgfltID.
BitsHandledKeepID ==
  /\ interrupts' = {}
  /\ pgfltCompleted' = IF PgfltPending THEN {} ELSE pgfltCompleted
  /\ ipcRetry' = IF RetryPending THEN {} ELSE ipcRetry
  /\ UNCHANGED notifying
  /\ UNCHANGED pgfltID

BitsHandled ==
  /\ interrupts' = {}
  /\ pgfltCompleted' = IF PgfltPending THEN {} ELSE pgfltCompleted
  /\ pgfltID' = IF PgfltPending
                THEN [t \in Threads |-> IF pgfltID[t] \in pgfltCompleted
                                        THEN -1 ELSE pgfltID[t]]
                ELSE pgfltID
  /\ ipcRetry' = IF RetryPending THEN {} ELSE ipcRetry
  /\ UNCHANGED notifying

PreemptNow    == preemptRequested \/ "PREEMPT" \in interrupts
YieldNow      == yieldRequested \/ "PULSE" \in interrupts
RescheduleNow == rescheduleNeeded \/ interrupts \cap {"PREEMPT", "PULSE"} # {}

(* RunEntry: handle interrupts, give up the processor when preempted, else  *)
(* run the first ready thread that is not barred, putting the barred ones   *)
(* before it on the barred list.                                            *)
IsBarred(t) == groups[t] \cap barredGroups # {}

BarFirst(hh) == Push(DropReady(hh), Barred, hh.ready)

RunFirst(lists, ready) ==
  LET n == SelectInSeq(ready, LAMBDA t : ~IsBarred(t))
      k == IF n = 0 THEN Len(ready) ELSE n - 1
      barred == FoldLeft(LAMBDA a, i : BarFirst(a), lists, [i \in 1..k |-> i])
  IN  /\ current' = IF n = 0 THEN NULL ELSE ready[n]
      /\ h' = IF n = 0 THEN barred ELSE DropReady(barred)

RunEntry ==
  /\ current = NULL
  /\ BitsHandled
  /\ \E lists \in {ListsHandled} :
       IF PreemptNow
       THEN preemptRequested' = FALSE /\ h' = lists /\ UNCHANGED current
       ELSE /\ \E ready \in {ReadySeq(lists)} : RunFirst(lists, ready)
            /\ UNCHANGED preemptRequested
  /\ yieldRequested' = YieldNow
  /\ rescheduleNeeded' = RescheduleNow
  /\ UNCHANGED <<outside, isBlocked, wasUnblocked, suspended, inPPC, retrying, groups,
                 barredGroups, migratable>>

OnThread == current # NULL /\ current \notin retrying

(* selfInterrupt, on a thread that enables with interrupts pending or is    *)
(* interrupted by the kernel: the thread gives way when asked to.           *)
SelfInterrupt ==
  /\ OnThread
  /\ interrupts # {}
  /\ BitsHandled
  /\ preemptRequested' = PreemptNow
  /\ rescheduleNeeded' = FALSE
  /\ IF RescheduleNow
     THEN /\ h' = IF YieldNow THEN MakeReady(ListsHandled, current)
                              ELSE MakeReadyFirst(ListsHandled, current)
          /\ yieldRequested' = FALSE
          /\ current' = NULL
     ELSE /\ h' = ListsHandled
          /\ yieldRequested' = YieldNow
          /\ UNCHANGED current
  /\ UNCHANGED <<outside, isBlocked, wasUnblocked, suspended, inPPC, retrying, groups,
                 barredGroups, migratable>>

-----------------------------------------------------------------------------
(* Operations of the current thread.                                        *)
Running(t) == current = t /\ t \notin retrying

Yield(t) ==
  /\ Running(t)
  /\ h' = MakeReady(h, t)
  /\ current' = NULL
  /\ UNCHANGED <<outside, threadVars, barredGroups, postVars, flagVars>>

YieldProcessor(t) ==
  /\ Running(t)
  /\ preemptRequested' = TRUE
  /\ h' = MakeReady(h, t)
  /\ current' = NULL
  /\ UNCHANGED <<outside, threadVars, barredGroups, postVars, yieldRequested,
                 rescheduleNeeded>>

Block(t) ==
  /\ Running(t)
  /\ IF wasUnblocked[t]
     THEN wasUnblocked' = [wasUnblocked EXCEPT ![t] = FALSE] /\ UNCHANGED <<isBlocked, current>>
     ELSE isBlocked' = [isBlocked EXCEPT ![t] = TRUE] /\ current' = NULL /\ UNCHANGED wasUnblocked
  /\ UNCHANGED <<h, outside, pgfltID, suspended, inPPC, retrying, groups, migratable,
                 barredGroups, postVars, flagVars>>

(* disabledSuspend puts the current thread aside, on no list, until          *)
(* resumeThread, or freeThreadKey on its way to another dispatcher.          *)
Suspend(t) ==
  /\ Running(t)
  /\ suspended' = suspended \cup {t}
  /\ current' = NULL
  /\ UNCHANGED <<h, outside, isBlocked, wasUnblocked, pgfltID, inPPC, retrying, groups,
                 migratable, barredGroups, postVars, flagVars>>

ResumeThread(t) ==
  /\ OnThread /\ t \in suspended
  /\ suspended' = suspended \ {t}
  /\ h' = MakeReady(h, t)
  /\ UNCHANGED <<current, outside, isBlocked, wasUnblocked, pgfltID, inPPC, retrying,
                 groups, migratable, barredGroups, postVars, flagVars>>

FreeThreadKey(t) ==
  /\ OnThread /\ t \in suspended \cap Extended
  /\ suspended' = suspended \ {t}
  /\ outside' = outside \cup {t}
  /\ UNCHANGED <<h, current, isBlocked, wasUnblocked, pgfltID, inPPC, retrying, groups,
                 migratable, barredGroups, postVars, flagVars>>

(* disabledUnblock, by the current thread, a message or a timer: a thread   *)
(* that has left the dispatcher no longer waits, and is passed over.        *)
Unblock(t, makeFirst) ==
  /\ t \notin outside
  /\ IF isBlocked[t]
     THEN /\ isBlocked' = [isBlocked EXCEPT ![t] = FALSE]
          /\ h' = IF makeFirst THEN MakeReadyFirst(h, t) ELSE MakeReady(h, t)
          /\ UNCHANGED wasUnblocked
     ELSE wasUnblocked' = [wasUnblocked EXCEPT ![t] = TRUE] /\ UNCHANGED <<h, isBlocked>>
  /\ UNCHANGED <<current, outside, pgfltID, suspended, inPPC, retrying, groups, migratable,
                 barredGroups, postVars, flagVars>>

-----------------------------------------------------------------------------
(* allocThread and freeThread.  A base thread is taken from the free list,  *)
(* and created, with an unused key, when that is empty.                     *)
Alloc(t) ==
  IF h.stack[Free] # NULL
  THEN t = h.stack[Free] /\ UNCHANGED outside
  ELSE t \in outside \ Extended /\ outside' = outside \ {t}

Allocated == IF h.stack[Free] # NULL THEN Pop(h, Free) ELSE h

\* Mutant: an extended thread goes to the free list as well.
FreeThreadPooled(t) ==
  /\ outside' = IF t \in Extended THEN outside \cup {t} ELSE outside
  /\ h' = Push(h, Free, t)

FreeThread(t) ==
  IF t \in Extended
  THEN outside' = outside \cup {t} /\ UNCHANGED h
  ELSE h' = Push(h, Free, t) /\ UNCHANGED outside

(* disabledScheduleFunction: by the current thread, or by an interrupt      *)
(* function that runs when there is none.                                   *)
ScheduleFunction(t) ==
  /\ Alloc(t)
  /\ h' = MakeReady(Allocated, t)
  /\ UNCHANGED <<current, threadVars, barredGroups, postVars, flagVars>>

(* ... on the caller's own thread, and disabledAddThread: a new key.        *)
AddThread(t) ==
  /\ t \in outside \cap Extended
  /\ outside' = outside \ {t}
  /\ h' = MakeReady(h, t)
  /\ UNCHANGED <<current, threadVars, barredGroups, postVars, flagVars>>

(* The end of ThreadBase, disabledExit.                                     *)
Exit(t) ==
  /\ Running(t)
  /\ groups[t] = {} /\ t \notin migratable
  /\ FreeThread(t)
  /\ current' = NULL
  /\ UNCHANGED <<threadVars, barredGroups, postVars, flagVars>>

(* disabledRemoveThread(), from any disabled code: the first migratable     *)
(* ready thread leaves.                                                     *)
Migrate ==
  LET ready == ReadySeq(h)
      n == SelectInSeq(ready, LAMBDA t : t \in migratable)
  IN  /\ n # 0
      /\ h' = RemoveReady(h, ready[n])
      /\ outside' = outside \cup {ready[n]}
      /\ UNCHANGED <<current, threadVars, barredGroups, postVars, flagVars>>

\* isCurrentlyMigratable is the extension's affair; it says no while the
\* thread may block.
SetMigratable(t) ==
  /\ Running(t) /\ t \in Extended
  /\ \/ migratable' = migratable \cup {t} /\ h' = MakeReady(h, t) /\ current' = NULL
     \/ migratable' = migratable \ {t} /\ UNCHANGED <<h, current>>
  /\ UNCHANGED <<outside, isBlocked, wasUnblocked, pgfltID, suspended, inPPC, retrying, groups,
                 barredGroups, postVars, flagVars>>

-----------------------------------------------------------------------------
(* Page faults: pgfltBlock, and disabledInterruptThread, which takes a      *)
(* thread off its fault's list so that it runs the interrupt function.      *)
PgfltBlock(t, f) ==
  /\ Running(t)
  /\ pgfltID' = [pgfltID EXCEPT ![t] = f]
  /\ h' = Push(h, Fault(f), t)
  /\ current' = NULL
  /\ UNCHANGED <<outside, isBlocked, wasUnblocked, suspended, inPPC, retrying, groups, migratable,
                 barredGroups, postVars, flagVars>>

InterruptThread(t) ==
  /\ pgfltID[t] # -1
  /\ h' = MakeReady(Unlink(h, Fault(pgfltID[t]), t), t)
  /\ pgfltID' = [pgfltID EXCEPT ![t] = -1]
  /\ UNCHANGED <<current, outside, isBlocked, wasUnblocked, suspended, inPPC, retrying, groups,
                 migratable, barredGroups, postVars, flagVars>>

-----------------------------------------------------------------------------
(* Inter-process calls: PPCClient, IPCReturnEntry, IPCCallEntry, whose      *)
(* thread ends as a ThreadBase does, and IPCFaultEntry.                     *)
PPCClient(t) ==
  /\ Running(t)
  /\ groups[t] = {}
  /\ inPPC' = inPPC \cup {t}
  /\ current' = NULL
  /\ UNCHANGED <<h, outside, isBlocked, wasUnblocked, pgfltID, suspended, retrying, groups,
                 migratable, barredGroups, postVars, flagVars>>

IPCReturnEntry(t) ==
  /\ current = NULL
  /\ t \in inPPC \ outside
  /\ inPPC' = inPPC \ {t}
  /\ current' = t
  /\ UNCHANGED <<h, outside, isBlocked, wasUnblocked, pgfltID, suspended, retrying, groups,
                 migratable, barredGroups, postVars, flagVars>>

IPCCallEntry(t) ==
  /\ current = NULL
  /\ Alloc(t)
  /\ h' = Allocated
  /\ current' = t
  /\ UNCHANGED <<threadVars, barredGroups, postVars, flagVars>>

\* EAGAIN: a new thread waits on the retry list with the call's parameters.
IPCFaultEntry(t, i) ==
  /\ current = NULL
  /\ Alloc(t)
  /\ h' = Push(Allocated, Retry(i), t)
  /\ retrying' = retrying \cup {t}
  /\ UNCHANGED <<current, isBlocked, wasUnblocked, pgfltID, suspended, inPPC, groups, migratable,
                 barredGroups, postVars, flagVars>>

\* IPCFaultOnThread after Suspend, still disabled: repeat the system call.
RepeatIPC(t) ==
  /\ current = t /\ t \in retrying
  /\ retrying' = retrying \ {t}
  /\ FreeThread(t)
  /\ current' = NULL
  /\ UNCHANGED <<isBlocked, wasUnblocked, pgfltID, suspended, inPPC, groups, migratable,
                 barredGroups, postVars, flagVars>>

-----------------------------------------------------------------------------
(* Thread groups.  A thread that joins a barred group yields.               *)
SetGroupsSelf(t, mask) ==
  /\ Running(t)
  /\ groups' = [groups EXCEPT ![t] = mask]
  /\ IF mask \cap barredGroups # {}
     THEN h' = MakeReady(h, t) /\ current' = NULL
     ELSE UNCHANGED <<h, current>>
  /\ UNCHANGED <<outside, isBlocked, wasUnblocked, pgfltID, suspended, inPPC, retrying, migratable,
                 barredGroups, postVars, flagVars>>

JoinGroupSelf(t, g) ==
  /\ Running(t)
  /\ groups' = [groups EXCEPT ![t] = @ \cup {g}]
  /\ IF g \in barredGroups
     THEN h' = MakeReady(h, t) /\ current' = NULL
     ELSE UNCHANGED <<h, current>>
  /\ UNCHANGED <<outside, isBlocked, wasUnblocked, pgfltID, suspended, inPPC, retrying, migratable,
                 barredGroups, postVars, flagVars>>

LeaveGroupSelf(t, g) ==
  /\ Running(t)
  /\ groups' = [groups EXCEPT ![t] = @ \ {g}]
  /\ UNCHANGED <<h, current, outside, isBlocked, wasUnblocked, pgfltID, suspended, inPPC, retrying,
                 migratable, barredGroups, postVars, flagVars>>

BarGroup(g) ==
  /\ OnThread
  /\ barredGroups' = barredGroups \cup {g}
  /\ UNCHANGED <<h, current, outside, threadVars, postVars, flagVars>>

Unbarred(hh, bars) == WakeSome(hh, Barred, {t \in Threads : groups[t] \cap bars = {}})

UnbarGroup(g) ==
  /\ OnThread
  /\ barredGroups' = barredGroups \ {g}
  /\ h' = Unbarred(h, barredGroups')
  /\ UNCHANGED <<current, outside, threadVars, postVars, flagVars>>

-----------------------------------------------------------------------------
ThreadStep(t) ==
  \/ Yield(t) \/ YieldProcessor(t) \/ Block(t) \/ Suspend(t) \/ Exit(t) \/ SetMigratable(t)
  \/ PPCClient(t) \/ \E f \in FaultIDs : PgfltBlock(t, f)
  \/ \E g \in Groups : JoinGroupSelf(t, g) \/ LeaveGroupSelf(t, g)
  \/ \E mask \in SUBSET Groups : SetGroupsSelf(t, mask)

Entry(t) ==
  \/ IPCReturnEntry(t) \/ IPCCallEntry(t) \/ \E i \in RetryIDs : IPCFaultEntry(t, i)

Dispatch == RunEntry \/ SelfInterrupt \/ \E t \in Threads : RepeatIPC(t)

Next ==
  \/ Dispatch
  \/ PostFlag \/ Migrate
  \/ \E f \in FaultIDs : NotifyFaultCompletion(f)
  \/ \E i \in RetryIDs : PostRetry(i)
  \/ \E t \in Threads : \/ ThreadStep(t) \/ Entry(t) \/ ScheduleFunction(t)
                        \/ AddThread(t) \/ InterruptThread(t)
                        \/ ResumeThread(t) \/ FreeThreadKey(t)
                        \/ \E first \in BOOLEAN : Unblock(t, first)
  \/ \E g \in Groups : BarGroup(g) \/ UnbarGroup(g)

Spec == Init /\ [][Next]_vars

-----------------------------------------------------------------------------
TypeOK ==
  /\ h \in [next : [Threads -> Threads \cup {NULL}], ready : Threads \cup {NULL},
            tail : Threads \cup {NULL}, stack : [Stacks -> Threads \cup {NULL}]]
  /\ current \in Threads \cup {NULL}
  /\ outside \subseteq Threads
  /\ isBlocked \in [Threads -> BOOLEAN] /\ wasUnblocked \in [Threads -> BOOLEAN]
  /\ pgfltID \in [Threads -> FaultIDs \cup {-1}]
  /\ inPPC \subseteq Threads /\ retrying \subseteq Threads /\ migratable \subseteq Threads
  /\ groups \in [Threads -> SUBSET Groups] /\ barredGroups \subseteq Groups
  /\ interrupts \subseteq Interrupts
  /\ suspended \subseteq Threads
  /\ notifying \in FaultIDs \cup {-1}
  /\ pgfltCompleted \subseteq FaultIDs /\ ipcRetry \subseteq RetryIDs
  /\ {yieldRequested, preemptRequested, rescheduleNeeded} \subseteq BOOLEAN

\* All the lists, one after the other.
OnLists == FoldSet(LAMBDA s, q : StackSeq(h, s) \o q, ReadySeq(h), Stacks)

(* Every thread is in exactly one place: on one list, current, blocked,     *)
(* suspended, calling out, or gone.  All the lists share Thread::next, so a thread on  *)
(* two of them would cut one off; one in no place would never run again.    *)
InOnePlace ==
  LET lists  == OnLists
      places == <<ToSet(lists), {current}, outside, {t \in Threads : isBlocked[t]},
                  suspended, inPPC>>
  IN  /\ IsInjective(lists)
      /\ \A t \in Threads : Cardinality({i \in DOMAIN places : t \in places[i]}) = 1

(* DispatcherDefault.H:71 "last thread on readyQueue (undefined if          *)
(* readyQueue is NULL)": makeReady appends to a thread that is on the queue.*)
TailIsLast == h.ready # NULL => h.tail = Last(ReadySeq(h))

(* DispatcherDefault.C:645: a thread that awaits a page fault is on the     *)
(* list of that fault, where disabledInterruptThread and the completion     *)
(* look for it.                                                             *)
FaultListExact ==
  \A t \in Threads, f \in FaultIDs :
    pgfltID[t] = f <=> t \in ToSet(StackSeq(h, Fault(f)))

(* Threads are barred "temporarily" (Thread.H:71-74): one that is on the    *)
(* barred list belongs to a group that is still barred.                     *)
NoneStranded == \A t \in ToSet(StackSeq(h, Barred)) : IsBarred(t)

(* No completed page fault is forgotten, though its bit and its soft        *)
(* interrupt are two steps of the kernel and the dispatcher takes both at   *)
(* any moment, on account of an earlier completion as well: a bit that is   *)
(* set has its interrupt pending or still to be sent, and a bit that is     *)
(* taken leaves no thread waiting for its fault.  The same of the           *)
(* notification of an IPC retry, which is one step.                         *)
CompletionNotLost ==
  /\ [](pgfltCompleted \subseteq
          IF "PGFLT_COMPLETION" \in interrupts THEN FaultIDs ELSE {notifying})
  /\ [](ipcRetry # {} => "IPC_RETRY_NOTIFY" \in interrupts)
  /\ [][\A f \in pgfltCompleted \ pgfltCompleted' : h'.stack[Fault(f)] = NULL]_vars
  /\ [][\A i \in ipcRetry \ ipcRetry' : h'.stack[Retry(i)] = NULL]_vars
=============================================================================
