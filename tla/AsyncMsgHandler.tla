--------------------------- MODULE AsyncMsgHandler ---------------------------
(***************************************************************************)
(* The handler threads for asynchronous messages, lib/libc/scheduler       *)
(* DispatcherDefault.C:1098-1282, with the senders in the kernel:          *)
(* ExceptionLocal.C PPC_ASYNC and ProcessVPList.C sendRemoteAsyncMsg.      *)
(*                                                                         *)
(* The two buffers are FIFO queues here (AsyncBuffer.tla), of which only   *)
(* the number of messages matters.  Handler code that runs disabled is     *)
(* split where it looks at the buffers again, since messages arrive while  *)
(* the dispatcher is disabled.                                             *)
(***************************************************************************)
EXTENDS AsyncSizes, FiniteSets

CONSTANTS Handlers,                \* threads the dispatcher may use
          ASYNC_BUSY_HANDLER_MAX,
          Senders                  \* remote senders that may be at work at once

ASSUME EnoughThreads == /\ IsFiniteSet(Handlers)
                        /\ ASYNC_BUSY_HANDLER_MAX \in Nat \ {0}
                        /\ Cardinality(Handlers) > ASYNC_BUSY_HANDLER_MAX
                        /\ Senders \in Nat \ {0}

VARIABLES asyncBufferLocal, asyncBufferRemote,  \* messages in each buffer
          asyncMsgPending,         \* the ASYNC_MSG soft interrupt
          sending,                 \* remote senders that have stored their
                                   \* message and not yet sent the interrupt
          asyncReadyHandlerExists, asyncBusyHandlerCnt,
          pc                       \* of each handler thread

bufVars == <<asyncBufferLocal, asyncBufferRemote>>
vars == <<bufVars, asyncMsgPending, sending, asyncReadyHandlerExists,
          asyncBusyHandlerCnt, pc>>

At(label) == {t \in Handlers : pc[t] = label}
Goto(t, label) == pc' = [pc EXCEPT ![t] = label]

\* No handler is in the middle of its disabled code.
Enabled == At("looked") = {} /\ At("grabbed") = {} /\ At("relooked") = {}

Init ==
  /\ asyncBufferLocal = 0 /\ asyncBufferRemote = 0
  /\ asyncMsgPending = FALSE /\ sending = 0
  /\ asyncReadyHandlerExists = FALSE /\ asyncBusyHandlerCnt = 0
  /\ pc = [t \in Handlers |-> "none"]

-----------------------------------------------------------------------------
(* A full buffer refuses the message.  The local sender is the kernel of    *)
(* this processor, which stores and interrupts in one go.                   *)
SendLocal ==
  /\ asyncBufferLocal < BufferMax
  /\ asyncBufferLocal' = asyncBufferLocal + 1
  /\ asyncMsgPending' = TRUE
  /\ UNCHANGED <<asyncBufferRemote, sending, asyncReadyHandlerExists, asyncBusyHandlerCnt, pc>>

\* The VP lock serialises the stores; it is released before the interrupt.
SendRemote ==
  /\ sending < Senders
  /\ asyncBufferRemote < BufferMax
  /\ asyncBufferRemote' = asyncBufferRemote + 1
  /\ sending' = sending + 1
  /\ UNCHANGED <<asyncBufferLocal, asyncMsgPending, asyncReadyHandlerExists,
                 asyncBusyHandlerCnt, pc>>

SendInterrupt ==
  /\ sending > 0
  /\ asyncMsgPending' = TRUE
  /\ sending' = sending - 1
  /\ UNCHANGED <<bufVars, asyncReadyHandlerExists, asyncBusyHandlerCnt, pc>>

-----------------------------------------------------------------------------
\* Mutant: one busy handler too many.
CreateOneMore(pcs) ==
  IF asyncBusyHandlerCnt > ASYNC_BUSY_HANDLER_MAX
  THEN asyncReadyHandlerExists' = FALSE /\ pc' = pcs
  ELSE /\ asyncReadyHandlerExists' = TRUE
       /\ \E t \in At("none") : pc' = [pcs EXCEPT ![t] = "ready"]

(* createAsyncMsgHandler: no further thread when enough are busy.           *)
CreateAsyncMsgHandler(pcs) ==
  IF asyncBusyHandlerCnt >= ASYNC_BUSY_HANDLER_MAX
  THEN asyncReadyHandlerExists' = FALSE /\ pc' = pcs
  ELSE /\ asyncReadyHandlerExists' = TRUE
       /\ \E t \in At("none") : pc' = [pcs EXCEPT ![t] = "ready"]

ProcessAsyncMsgs ==
  /\ Enabled
  /\ asyncMsgPending
  /\ asyncMsgPending' = FALSE
  /\ IF asyncReadyHandlerExists
     THEN UNCHANGED <<asyncReadyHandlerExists, pc>>
     ELSE CreateAsyncMsgHandler(pc)
  /\ UNCHANGED <<bufVars, sending, asyncBusyHandlerCnt>>

(* asyncMsgHandler, first part: the ready handler takes a message from the  *)
(* local buffer, else from the remote one, else ends.                       *)
FetchLocal(t, from, yes, no) ==
  /\ pc[t] = from
  /\ IF asyncBufferLocal > 0
     THEN asyncBufferLocal' = asyncBufferLocal - 1 /\ Goto(t, yes)
     ELSE UNCHANGED asyncBufferLocal /\ Goto(t, no)
  /\ UNCHANGED <<asyncBufferRemote, asyncMsgPending, sending, asyncReadyHandlerExists>>

ReadyLocal(t) ==
  /\ Enabled
  /\ FetchLocal(t, "ready", "grabbed", "looked")
  /\ asyncBusyHandlerCnt' = asyncBusyHandlerCnt + (IF asyncBufferLocal > 0 THEN 1 ELSE 0)

ReadyRemote(t) ==
  /\ pc[t] = "looked"
  /\ IF asyncBufferRemote > 0
     THEN /\ asyncBufferRemote' = asyncBufferRemote - 1
          /\ asyncBusyHandlerCnt' = asyncBusyHandlerCnt + 1
          /\ Goto(t, "grabbed")
          /\ UNCHANGED asyncReadyHandlerExists
     ELSE /\ asyncReadyHandlerExists' = FALSE
          /\ Goto(t, "none")
          /\ UNCHANGED <<asyncBufferRemote, asyncBusyHandlerCnt>>
  /\ UNCHANGED <<asyncBufferLocal, asyncMsgPending, sending>>

\* Mutant: does not look whether more messages are waiting.
GrabbedAlone(t) ==
  /\ pc[t] = "grabbed"
  /\ asyncReadyHandlerExists' = FALSE
  /\ Goto(t, "busy")
  /\ UNCHANGED <<bufVars, asyncMsgPending, sending, asyncBusyHandlerCnt>>

(* With more messages waiting, another ready handler takes its place.       *)
Grabbed(t) ==
  /\ pc[t] = "grabbed"
  /\ IF asyncBufferLocal = 0 /\ asyncBufferRemote = 0
     THEN asyncReadyHandlerExists' = FALSE /\ Goto(t, "busy")
     ELSE CreateAsyncMsgHandler([pc EXCEPT ![t] = "busy"])
  /\ UNCHANGED <<bufVars, asyncMsgPending, sending, asyncBusyHandlerCnt>>

(* The loop: the message has been processed, enabled; look for another.     *)
BusyLocal(t) ==
  /\ Enabled
  /\ FetchLocal(t, "busy", "busy", "relooked")
  /\ UNCHANGED asyncBusyHandlerCnt

BusyRemote(t) ==
  /\ pc[t] = "relooked"
  /\ IF asyncBufferRemote > 0
     THEN /\ asyncBufferRemote' = asyncBufferRemote - 1
          /\ Goto(t, "busy")
          /\ UNCHANGED asyncBusyHandlerCnt
     ELSE /\ asyncBusyHandlerCnt' = asyncBusyHandlerCnt - 1
          /\ Goto(t, "none")
          /\ UNCHANGED asyncBufferRemote
  /\ UNCHANGED <<asyncBufferLocal, asyncMsgPending, sending, asyncReadyHandlerExists>>

Send == SendLocal \/ SendRemote
Disabled(t) == ReadyRemote(t) \/ Grabbed(t) \/ BusyRemote(t)

Next ==
  \/ Send \/ SendInterrupt \/ ProcessAsyncMsgs
  \/ \E t \in Handlers : ReadyLocal(t) \/ BusyLocal(t) \/ Disabled(t)

(* The dispatcher runs its ready threads, handles interrupts when enabled,  *)
(* and disabled code runs to its end.  Of a handler that processes a        *)
(* message nothing is assumed: it may block for ever.                       *)
Fairness ==
  /\ WF_vars(SendInterrupt)
  /\ SF_vars(ProcessAsyncMsgs)
  /\ \A t \in Handlers : SF_vars(ReadyLocal(t)) /\ WF_vars(Disabled(t))

Spec == Init /\ [][Next]_vars /\ Fairness
-----------------------------------------------------------------------------
TypeOK ==
  /\ asyncBufferLocal \in 0..BufferMax /\ asyncBufferRemote \in 0..BufferMax
  /\ asyncMsgPending \in BOOLEAN /\ sending \in 0..Senders
  /\ asyncReadyHandlerExists \in BOOLEAN
  /\ asyncBusyHandlerCnt \in 0..Cardinality(Handlers)
  /\ pc \in [Handlers -> {"none", "ready", "looked", "grabbed", "busy", "relooked"}]

(* DispatcherDefault.C:1172, "Unexpected async msg handler": the flag and   *)
(* the count say exactly which handlers there are, and there are never more *)
(* busy ones than ASYNC_BUSY_HANDLER_MAX.                                   *)
HandlersCounted ==
  /\ asyncBusyHandlerCnt = Cardinality(At("busy") \cup At("grabbed") \cup At("relooked"))
  /\ asyncBusyHandlerCnt <= ASYNC_BUSY_HANDLER_MAX
  /\ Cardinality(At("ready") \cup At("looked") \cup At("grabbed"))
       = IF asyncReadyHandlerExists THEN 1 ELSE 0

(* No message is stranded: while one waits there is an interrupt to come, a *)
(* ready handler, or as many busy handlers as there may be.                 *)
NoneStranded ==
  asyncBufferLocal + asyncBufferRemote > 0 =>
    \/ asyncMsgPending \/ sending > 0
    \/ asyncReadyHandlerExists
    \/ asyncBusyHandlerCnt = ASYNC_BUSY_HANDLER_MAX

(* Messages are taken although the handlers before block for ever, until    *)
(* the limit: the buffers empty, or all handlers are busy.                  *)
MessagesTaken ==
  asyncBufferLocal + asyncBufferRemote > 0 ~>
    \/ asyncBufferLocal + asyncBufferRemote = 0
    \/ asyncBusyHandlerCnt = ASYNC_BUSY_HANDLER_MAX
=============================================================================
