------------------------------ MODULE MPMsgMgr ------------------------------
(***************************************************************************)
(* lib/libc/sync/MPMsgMgr.{H,C}, MPMsgMgrEnabled.C, MPMsgMgrDisabled.C:    *)
(* messages between the processors (dispatchers) of one program.  A        *)
(* message is pushed with compare-and-store on the receiver's queue, and   *)
(* only the push that finds the queue empty sends a soft interrupt; the    *)
(* interrupt handler takes the whole queue with one fetch-and-clear.       *)
(*                                                                         *)
(* A synchronous message lives on its sender's stack, so it is named by    *)
(* the sender; an asynchronous one is a holder of the fixed pool of the    *)
(* sending dispatcher, freed by its handler.  Both use the next field of   *)
(* their header for whichever list they are on.                            *)
(***************************************************************************)
EXTENDS Naturals, FiniteSets

CONSTANTS VPs,        \* the dispatchers
          Clients,    \* threads that send
          Workers,    \* threads that run ProcessMsgList (enabled manager)
          Holders,    \* the msgHolder[NUM_MSGS] of all managers
          Home,       \* the dispatcher of each client, worker and holder
          Targets,    \* the dispatchers that messages are sent to
          NULL

ASSUME HomesAreVPs == /\ Home \in [Clients \cup Workers \cup Holders -> VPs]
                      /\ Targets \subseteq VPs
\* Headers, threads and dispatchers are different objects, and NULL is none.
ASSUME ObjectsDiffer == /\ Clients \cap (Workers \cup VPs \cup Holders) = {}
                        /\ Workers \cap (VPs \cup Holders) = {} /\ VPs \cap Holders = {}
                        /\ NULL \notin Clients \cup Workers \cup VPs \cup Holders

Hdrs   == Clients \cup Holders          \* the message headers
Actors == Clients \cup Workers \cup VPs \* a VP acts in its interrupt handlers
Queues == VPs \X {"send", "reply"}

VARIABLES enabled,    \* MPMsgMgrEnabled, or MPMsgMgrDisabled (and ...Exception,
                      \* whose loop is the same)
          manager,    \* the registry: the dispatchers whose manager is known
          head,       \* sendQueue.head and replyQueue.head
          next, busy, \* of each header; of each holder
          sender,     \* sync headers: the sender has not been released
          intr,       \* pending soft interrupts
          todo,       \* those the dispatcher has fetched and not yet handled
          pc, hdr, list, old, dest,  \* program counter and locals
          owed        \* history: headers whose handler has not been called

vars == <<enabled, manager, head, next, busy, sender, intr, todo,
          pc, hdr, list, old, dest, owed>>

Goto(a, label) == pc' = [pc EXCEPT ![a] = label]

Init ==
  /\ enabled \in BOOLEAN
  /\ manager = {}
  /\ head = [q \in Queues |-> NULL] /\ next = [h \in Hdrs |-> NULL]
  /\ busy = [h \in Holders |-> FALSE] /\ sender = [c \in Clients |-> FALSE]
  /\ intr = [v \in VPs |-> {}] /\ todo = [v \in VPs |-> {}]
  /\ pc = [a \in Actors |-> "idle"]
  /\ hdr = [a \in Actors |-> NULL] /\ list = [a \in Actors |-> NULL]
  /\ old = [a \in Actors |-> NULL]
  /\ dest = [a \in Actors |-> NULL]
  /\ owed = {}

(* The threads of a dispatcher do not run while it handles an interrupt.    *)
Enabled(a) == a \notin VPs => pc[Home[a]] = "idle"

-----------------------------------------------------------------------------
(* addToRegistry, at the end of init: lookups of this manager now succeed.  *)
Register(v) ==
  /\ v \notin manager
  /\ manager' = manager \cup {v}
  /\ UNCHANGED <<enabled, head, next, busy, sender, intr, todo, pc, hdr, list, old,
                 dest, owed>>

(* SendAsyncUval: alloc() takes a holder that is not busy, whichever        *)
(* nextMsgIdx leads to, and yields until there is one.                      *)
AllocAsync(c, h, v) ==
  /\ pc[c] = "idle" /\ Enabled(c)
  /\ Home[h] = Home[c] /\ ~busy[h]
  /\ busy' = [busy EXCEPT ![h] = TRUE]
  /\ hdr' = [hdr EXCEPT ![c] = h]
  /\ dest' = [dest EXCEPT ![c] = <<v, "send">>]
  /\ owed' = owed \cup {h}
  /\ Goto(c, "lookup")
  /\ UNCHANGED <<enabled, manager, head, next, sender, intr, todo, list, old>>

(* SendSyncUval: the message is in the buffer of the caller.                *)
AllocSync(c, v) ==
  /\ pc[c] = "idle" /\ Enabled(c)
  /\ hdr' = [hdr EXCEPT ![c] = c]
  /\ dest' = [dest EXCEPT ![c] = <<v, "send">>]
  /\ owed' = owed \cup {c}
  /\ Goto(c, "lookup")
  /\ UNCHANGED <<enabled, manager, head, next, busy, sender, intr, todo, list, old>>

\* Mutant: sender is not set.
LookupUnset(c) ==
  /\ pc[c] = "lookup" /\ Enabled(c)
  /\ dest[c][1] \in manager
  /\ Goto(c, "push")
  /\ UNCHANGED <<enabled, manager, head, next, busy, sender, intr, todo, hdr, list, old,
                 dest, owed>>

(* MsgAsync::send and MsgSync::send: lookupMgr blocks until the manager is  *)
(* registered; a synchronous message then names its sender.                 *)
Lookup(c) ==
  /\ pc[c] = "lookup" /\ Enabled(c)
  /\ dest[c][1] \in manager
  /\ sender' = [sender EXCEPT ![c] = hdr[c] = c]
  /\ Goto(c, "push")
  /\ UNCHANGED <<enabled, manager, head, next, busy, intr, todo, hdr, list, old, dest, owed>>

-----------------------------------------------------------------------------
(* addPendingMsg, called to send by a client and to reply by a handler.     *)

\* Where the caller goes on: a sender of a synchronous message waits; a
\* handler goes on with its list.
AfterPush(a) ==
  CASE a \in Clients -> IF hdr[a] = a THEN "wait" ELSE "idle"
    [] a \notin Clients /\ list[a] # NULL -> "walk"
    [] a \in Workers /\ list[a] = NULL -> "idle"
    [] a \in VPs /\ list[a] = NULL -> "next"

Finish(a) ==
  /\ Goto(a, AfterPush(a))
  /\ hdr' = [hdr EXCEPT ![a] = NULL]
  /\ dest' = [dest EXCEPT ![a] = NULL]

PushRead(a) ==
  /\ pc[a] = "push" /\ Enabled(a)
  /\ old' = [old EXCEPT ![a] = head[dest[a]]]
  /\ next' = [next EXCEPT ![hdr[a]] = head[dest[a]]]
  /\ Goto(a, "cas")
  /\ UNCHANGED <<enabled, manager, head, busy, sender, intr, todo, hdr, list, dest, owed>>

\* Mutant: the interrupt is left to the push that finds the queue in use.
PushCASInverted(a) ==
  /\ pc[a] = "cas" /\ Enabled(a)
  /\ IF head[dest[a]] = old[a]
     THEN /\ head' = [head EXCEPT ![dest[a]] = hdr[a]]
          /\ IF old[a] # NULL
             THEN Goto(a, "interrupt") /\ UNCHANGED <<hdr, dest>>
             ELSE Finish(a)
     ELSE Goto(a, "push") /\ UNCHANGED <<head, hdr, dest>>
  /\ old' = [old EXCEPT ![a] = NULL]
  /\ UNCHANGED <<enabled, manager, next, busy, sender, intr, todo, list, owed>>

PushCAS(a) ==
  /\ pc[a] = "cas" /\ Enabled(a)
  /\ IF head[dest[a]] = old[a]
     THEN /\ head' = [head EXCEPT ![dest[a]] = hdr[a]]
          /\ IF old[a] = NULL
             THEN Goto(a, "interrupt") /\ UNCHANGED <<hdr, dest>>
             ELSE Finish(a)
     ELSE Goto(a, "push") /\ UNCHANGED <<head, hdr, dest>>
  /\ old' = [old EXCEPT ![a] = NULL]
  /\ UNCHANGED <<enabled, manager, next, busy, sender, intr, todo, list, owed>>

PushInterrupt(a) ==
  /\ pc[a] = "interrupt" /\ Enabled(a)
  /\ intr' = [intr EXCEPT ![dest[a][1]] = @ \cup {dest[a][2]}]
  /\ Finish(a)
  /\ UNCHANGED <<enabled, manager, head, next, busy, sender, todo, list, old, owed>>

Push(a) == PushRead(a) \/ PushCAS(a) \/ PushInterrupt(a)

\* Mutant: the thread runs as soon as it is released, the dispatcher still
\* being inside processReplyQueue.
SyncReturnAtOnce(c) ==
  /\ pc[c] = "wait" /\ ~sender[c]
  /\ Goto(c, "idle")
  /\ UNCHANGED <<enabled, manager, head, next, busy, sender, intr, todo, hdr, list, old,
                 dest, owed>>

(* MsgSync::send returns when the reply has cleared sender.                 *)
SyncReturn(c) ==
  /\ pc[c] = "wait" /\ ~sender[c] /\ Enabled(c)
  /\ Goto(c, "idle")
  /\ UNCHANGED <<enabled, manager, head, next, busy, sender, intr, todo, hdr, list, old,
                 dest, owed>>

-----------------------------------------------------------------------------
(* The dispatcher fetches all its pending interrupts and handles them in    *)
(* order, with its threads not running.                                     *)
FetchInterrupts(v) ==
  /\ pc[v] = "idle" /\ intr[v] # {}
  /\ todo' = [todo EXCEPT ![v] = intr[v]]
  /\ intr' = [intr EXCEPT ![v] = {}]
  /\ Goto(v, "next")
  /\ UNCHANGED <<enabled, manager, head, next, busy, sender, hdr, list, old, dest, owed>>

InterruptsDone(v) ==
  /\ pc[v] = "next" /\ todo[v] = {}
  /\ Goto(v, "idle")
  /\ UNCHANGED <<enabled, manager, head, next, busy, sender, intr, todo, hdr, list, old,
                 dest, owed>>

\* The thread, if there is one, that ScheduleFunction has run ProcessMsgList.
NewWorker(v) ==
  LET idle == {w \in Workers : Home[w] = v /\ pc[w] = "idle"}
  IN  IF idle = {} THEN {} ELSE {CHOOSE w \in idle : TRUE}

\* processSendQueue: the disabled manager walks the list here, the enabled
\* one has a thread do it.  Nothing keeps a thread back for it: without one
\* the queue is cleared all the same and the assertion stops the dispatcher.
ProcessSendQueue(v) ==
  /\ pc[v] = "next" /\ "send" \in todo[v]
  /\ todo' = [todo EXCEPT ![v] = @ \ {"send"}]
  /\ head' = [head EXCEPT ![<<v, "send">>] = NULL]
  /\ LET l == head[<<v, "send">>]
     IN  \/ l = NULL /\ UNCHANGED <<pc, list>>
         \/ /\ l # NULL /\ ~enabled
            /\ list' = [list EXCEPT ![v] = l]
            /\ Goto(v, "walk")
         \/ /\ l # NULL /\ enabled
            /\ \E w \in NewWorker(v) :
                 /\ list' = [list EXCEPT ![w] = l]
                 /\ Goto(w, "walk")
         \/ /\ l # NULL /\ enabled /\ NewWorker(v) = {}
            /\ list' = [list EXCEPT ![v] = l]
            /\ Goto(v, "stopped")
  /\ UNCHANGED <<enabled, manager, next, busy, sender, intr, hdr, old, dest, owed>>

\* processReplyQueue: release each sender, and only then follow the link.
ProcessReplyQueue(v) ==
  /\ pc[v] = "next" /\ todo[v] = {"reply"}
  /\ todo' = [todo EXCEPT ![v] = {}]
  /\ head' = [head EXCEPT ![<<v, "reply">>] = NULL]
  /\ list' = [list EXCEPT ![v] = head[<<v, "reply">>]]
  /\ Goto(v, IF head[<<v, "reply">>] = NULL THEN "next" ELSE "release")
  /\ UNCHANGED <<enabled, manager, next, busy, sender, intr, hdr, old, dest, owed>>

ReplyRelease(v) ==
  /\ pc[v] = "release"
  /\ sender' = [sender EXCEPT ![list[v]] = FALSE]
  /\ Goto(v, "follow")
  /\ UNCHANGED <<enabled, manager, head, next, busy, intr, todo, hdr, list, old, dest, owed>>

\* Mutant: the list is not advanced.
ReplyFollowNot(v) ==
  /\ pc[v] = "follow"
  /\ Goto(v, "release")
  /\ UNCHANGED <<enabled, manager, head, next, busy, sender, intr, todo, hdr, list, old,
                 dest, owed>>

ReplyFollow(v) ==
  /\ pc[v] = "follow"
  /\ list' = [list EXCEPT ![v] = next[list[v]]]
  /\ Goto(v, IF next[list[v]] = NULL THEN "next" ELSE "release")
  /\ UNCHANGED <<enabled, manager, head, next, busy, sender, intr, todo, hdr, old, dest, owed>>

(* The loops over a send list read the link before the message is handled.  *)
(* ProcessMsgList leaves the rest of the list to another thread, unless it  *)
(* cannot have one.                                                         *)
Walk(a) ==
  /\ pc[a] = "walk" /\ Enabled(a)
  /\ hdr' = [hdr EXCEPT ![a] = list[a]]
  /\ LET rest == next[list[a]]
     IN  \/ /\ list' = [list EXCEPT ![a] = rest]
            /\ Goto(a, "handle")
         \/ /\ a \in Workers /\ rest # NULL
            /\ \E w \in NewWorker(Home[a]) :
                 /\ list' = [list EXCEPT ![a] = NULL, ![w] = rest]
                 /\ pc' = [pc EXCEPT ![a] = "handle", ![w] = "walk"]
  /\ UNCHANGED <<enabled, manager, head, next, busy, sender, intr, todo, old, dest, owed>>

(* handle(): the asynchronous message is freed and its function called; the *)
(* function of a synchronous one is called and the reply pushed.            *)
Handle(a) ==
  /\ pc[a] = "handle" /\ Enabled(a)
  /\ owed' = owed \ {hdr[a]}
  /\ IF hdr[a] \in Holders
     THEN /\ busy' = [busy EXCEPT ![hdr[a]] = FALSE]
          /\ Finish(a)
     ELSE /\ dest' = [dest EXCEPT ![a] = <<Home[hdr[a]], "reply">>]
          /\ Goto(a, "push")
          /\ UNCHANGED <<busy, hdr>>
  /\ UNCHANGED <<enabled, manager, head, next, sender, intr, todo, list, old>>

Alloc(c) == \E v \in Targets : AllocSync(c, v) \/ \E h \in Holders : AllocAsync(c, h, v)
Send(c)  == Lookup(c) \/ Push(c) \/ SyncReturn(c)
Interrupt(v) ==
  \/ FetchInterrupts(v) \/ ProcessSendQueue(v) \/ ProcessReplyQueue(v)
  \/ ReplyRelease(v) \/ ReplyFollow(v) \/ InterruptsDone(v)
Process(a) == Walk(a) \/ Handle(a) \/ Push(a)

Next ==
  \/ \E c \in Clients : Alloc(c) \/ Send(c)
  \/ \E v \in VPs : Register(v) \/ Interrupt(v)
  \/ \E a \in Workers \cup VPs : Process(a)

(* Interrupts are delivered and handled, a handler's function returns, the  *)
(* manager of every dispatcher is created, and the threads of a dispatcher  *)
(* get to run between its interrupts.                                       *)
Fairness ==
  /\ \A v \in VPs : WF_vars(Register(v)) /\ WF_vars(Interrupt(v) \/ Process(v))
  /\ \A c \in Clients : SF_vars(Send(c))
  /\ \A w \in Workers : SF_vars(Process(w))

Spec == Init /\ [][Next]_vars /\ Fairness

-----------------------------------------------------------------------------
\* The headers on the list that starts at h.
Linked[n \in 0..Cardinality(Hdrs), h \in Hdrs \cup {NULL}] ==
  IF n = 0 \/ h = NULL THEN {} ELSE {h} \cup Linked[n - 1, next[h]]
Chain(h) == Linked[Cardinality(Hdrs), h]

\* Who can reach header h: the queues and lists it is on, and the threads
\* and handlers that are pushing or handling it.
OnQueue(h)  == {q \in Queues : h \in Chain(head[q])}
OnList(h)   == {a \in Actors : h \in Chain(list[a])}
AtHand(h)   == {a \in Actors : hdr[a] = h /\ pc[a] \notin {"interrupt"}}
Reaching(h) == Cardinality(OnQueue(h)) + Cardinality(OnList(h)) + Cardinality(AtHand(h))

(* MPMsgMgrDisabled.C:26-30: a message whose memory may be used again       *)
(* (a holder that is not busy, the stack of a call that has returned) is    *)
(* reachable from no list, and one that has yet to be handled or answered   *)
(* is on exactly one: none is lost, or linked into two lists.               *)
ReachedOnce ==
  \A h \in Hdrs :
    /\ Reaching(h) <= 1
    /\ h \in owed \/ (h \in Clients /\ sender[h]) => Reaching(h) = 1
    /\ (h \in Holders /\ ~busy[h]) \/ (h \in Clients /\ pc[h] = "idle") => Reaching(h) = 0

(* Only the push on an empty queue interrupts.  That is enough: a queue     *)
(* with messages has its interrupt pending, fetched or about to be sent.    *)
QueueAnnounced ==
  \A v \in VPs, k \in {"send", "reply"} :
    head[<<v, k>>] # NULL =>
      \/ k \in intr[v] \cup todo[v]
      \/ \E a \in Actors : pc[a] = "interrupt" /\ dest[a] = <<v, k>>

(* A synchronous send returns only after its function has been called.      *)
ReturnsServed == \A c \in Clients : pc[c] = "wait" /\ ~sender[c] => c \notin owed

\* The pushes that have to be repeated cease: others may for ever overtake
\* a thread between its read of the head and its compare-and-store.
RetriesCease == <>[](\A a \in Actors : pc[a] = "cas" => head[dest[a]] = old[a])

(* Every message is handled and every call returns, unless a dispatcher     *)
(* runs out of threads ("should have a reserved thread for this").          *)
AllHandled ==
  RetriesCease /\ [](\A v \in VPs : pc[v] # "stopped") =>
    /\ \A h \in Hdrs : h \in owed ~> h \notin owed
    /\ \A c \in Clients : pc[c] = "lookup" ~> pc[c] = "idle"
=============================================================================
