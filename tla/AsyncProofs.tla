---------------------------- MODULE AsyncProofs -----------------------------
(***************************************************************************)
(* Proofs about asynchronous messages: the handler threads of              *)
(* AsyncMsgHandler, and the ring buffers of AsyncBuffer.                   *)
(***************************************************************************)
EXTENDS AsyncMsgHandler, AsyncBuffer, FiniteSetTheorems, SequenceTheorems, TLAPS

(***************************************************************************)
(* Proofs about AsyncMsgHandler for any number of handler threads, any     *)
(* limit and any buffer size: the bookkeeping of the handlers is exact and *)
(* no message is stranded.                                                 *)
(***************************************************************************)

PCs  == {"none", "ready", "looked", "grabbed", "busy", "relooked"}
Busy == At("busy") \cup At("grabbed") \cup At("relooked")
Rdy  == At("ready") \cup At("looked") \cup At("grabbed")

\* The types, but for the upper bound of asyncBusyHandlerCnt.
Numbers ==
  /\ asyncBufferLocal \in 0..BufferMax /\ asyncBufferRemote \in 0..BufferMax
  /\ asyncBusyHandlerCnt \in Nat
  /\ sending \in 0..Senders

Flags ==
  /\ asyncMsgPending \in BOOLEAN
  /\ asyncReadyHandlerExists \in BOOLEAN

Types == Numbers /\ Flags /\ pc \in [Handlers -> PCs]

\* HandlersCounted without cardinalities.
Counted ==
  /\ asyncBusyHandlerCnt = Cardinality(Busy)
  /\ asyncBusyHandlerCnt <= ASYNC_BUSY_HANDLER_MAX
  /\ asyncReadyHandlerExists => \E r \in Handlers : Rdy = {r}
  /\ ~asyncReadyHandlerExists => Rdy = {}

\* A handler that is still to take its first message has a place among the
\* busy ones.
RoomForReady ==
  At("ready") \cup At("looked") # {} => asyncBusyHandlerCnt < ASYNC_BUSY_HANDLER_MAX

\* A local message that came after the handler had found no local one has
\* left its interrupt pending.
LookedFresh ==
  At("looked") \cup At("relooked") # {} /\ asyncBufferLocal > 0 => asyncMsgPending

IInv == Types /\ Counted /\ RoomForReady /\ LookedFresh /\ NoneStranded

LEMMA BufferMaxNat == BufferMax \in Nat
  BY Sizes DEF BufferMax

LEMMA SumGrows == \A a, b, c \in Nat : a <= b /\ a + c > 0 => b + c > 0
  OBVIOUS

LEMMA SetOfFinite == \A S : S \subseteq Handlers => IsFiniteSet(S)
  BY EnoughThreads, FS_Subset, Zenon

LEMMA InitIInv == Init => IInv
<1> SUFFICES ASSUME Init PROVE IInv
  BY Zenon
<1>1. Types
  <2>1. 0 \in 0..BufferMax /\ 0 \in Nat /\ 0 \in 0..Senders
    BY EnoughThreads, BufferMaxNat
  <2>2. pc \in [Handlers -> PCs]
    BY Zenon DEF Init, PCs
  <2> QED
    BY <2>1, <2>2, Zenon DEF Init, Types, Numbers, Flags
<1>2. Busy = {} /\ Rdy = {} /\ At("ready") = {} /\ At("looked") = {} /\ At("relooked") = {}
  BY Zenon DEF Init, Busy, Rdy, At
<1>3. Counted
  BY <1>2, FS_EmptySet, EnoughThreads, BufferMaxNat DEF Init, Counted
<1> QED
  BY <1>1, <1>2, <1>3 DEF Init, IInv, RoomForReady, LookedFresh, NoneStranded

\* Where the handlers are after one of them has moved.
LEMMA Moved ==
  ASSUME Types, NEW t \in Handlers, NEW l \in PCs, pc' = [pc EXCEPT ![t] = l]
  PROVE  /\ pc' \in [Handlers -> PCs]
         /\ \A k : At(k)' = IF k = l THEN At(k) \cup {t} ELSE At(k) \ {t}
<1>1. pc \in [Handlers -> PCs]
  BY Zenon DEF Types
<1> QED
  BY <1>1, Zenon DEF At

LEMMA BusyFinite == IsFiniteSet(Busy) /\ Cardinality(Busy) \in Nat
<1>1. Busy \subseteq Handlers
  BY Zenon DEF Busy, At
<1> QED
  BY <1>1, SetOfFinite, FS_CardinalityType, Zenon

\* A handler that is not yet busy, or just about to be, is the only one.
LEMMA ReadyIsAlone ==
  ASSUME Counted, NEW t \in Rdy
  PROVE  asyncReadyHandlerExists /\ Rdy = {t}
  BY Zenon DEF Counted

\* Steps of senders.
LEMMA SendStep ==
  ASSUME IInv, SendLocal \/ SendRemote \/ SendInterrupt
  PROVE  IInv'
<1> USE DEF IInv
<1>1. UNCHANGED <<pc, asyncBusyHandlerCnt, asyncReadyHandlerExists>>
  BY Zenon DEF SendLocal, SendRemote, SendInterrupt
<1>2. \A k : At(k)' = At(k)
  BY <1>1, Zenon DEF At
<1>3. Counted' /\ RoomForReady'
  BY <1>1, <1>2, Zenon DEF Counted, RoomForReady, Busy, Rdy
<1>4. CASE SendLocal
  <2>1. Numbers'
    BY <1>4, EnoughThreads, BufferMaxNat DEF Types, Numbers, SendLocal
  <2>2. Flags'
    BY <1>4, Zenon DEF Types, Flags, SendLocal
  <2> QED
    BY <1>1, <1>3, <1>4, <2>1, <2>2, Zenon DEF Types, SendLocal, LookedFresh, NoneStranded
<1>5. CASE SendRemote
  <2>1. Numbers'
    BY <1>5, EnoughThreads, BufferMaxNat DEF Types, Numbers, SendRemote
  <2>2. Flags'
    BY <1>5, Zenon DEF Types, Flags, SendRemote
  <2>3. sending' > 0
    BY <1>5, EnoughThreads, BufferMaxNat DEF Types, Numbers, SendRemote
  <2> QED
    BY <1>1, <1>2, <1>3, <1>5, <2>1, <2>2, <2>3, Zenon
    DEF Types, SendRemote, LookedFresh, NoneStranded
<1>6. CASE SendInterrupt
  <2>1. Numbers'
    BY <1>6, EnoughThreads, BufferMaxNat DEF Types, Numbers, SendInterrupt, bufVars
  <2>2. Flags'
    BY <1>6, Zenon DEF Types, Flags, SendInterrupt
  <2> QED
    BY <1>1, <1>3, <1>6, <2>1, <2>2, Zenon DEF Types, SendInterrupt, LookedFresh, NoneStranded
<1> QED
  BY <1>4, <1>5, <1>6, Zenon

\* The interrupt: a ready handler exists afterwards, or there are enough.
LEMMA ProcessStep ==
  ASSUME IInv, ProcessAsyncMsgs
  PROVE  IInv'
<1> USE DEF IInv
<1>1. UNCHANGED <<bufVars, sending, asyncBusyHandlerCnt>> /\ asyncMsgPending' = FALSE
  BY Zenon DEF ProcessAsyncMsgs
<1>2. Numbers'
  BY <1>1, Zenon DEF Types, Numbers, bufVars
<1>3. At("looked") = {} /\ At("relooked") = {} /\ At("grabbed") = {}
  BY Zenon DEF ProcessAsyncMsgs, Enabled
<1>4. CASE UNCHANGED pc /\ asyncReadyHandlerExists' = asyncReadyHandlerExists
           /\ (asyncReadyHandlerExists \/ asyncBusyHandlerCnt = ASYNC_BUSY_HANDLER_MAX)
  <2>1. \A k : At(k)' = At(k)
    BY <1>4, Zenon DEF At
  <2>2. Flags'
    BY <1>1, <1>4, Zenon DEF Types, Flags
  <2>3. Types' /\ Counted' /\ RoomForReady' /\ LookedFresh'
    BY <1>1, <1>2, <1>3, <1>4, <2>1, <2>2, Zenon
    DEF Types, Counted, RoomForReady, LookedFresh, Busy, Rdy
  <2> QED
    BY <1>1, <1>4, <2>3, Zenon DEF NoneStranded
<1>5. ASSUME NEW t \in At("none"), ~asyncReadyHandlerExists,
             asyncBusyHandlerCnt < ASYNC_BUSY_HANDLER_MAX,
             asyncReadyHandlerExists' = TRUE, pc' = [pc EXCEPT ![t] = "ready"]
      PROVE  IInv'
  <2>1. t \in Handlers /\ pc[t] = "none"
    BY Zenon DEF At
  <2>2. /\ pc' \in [Handlers -> PCs]
        /\ \A k : At(k)' = IF k = "ready" THEN At(k) \cup {t} ELSE At(k) \ {t}
    BY <1>5, <2>1, Moved, Zenon DEF PCs
  <2>3. \A k : k # "none" => t \notin At(k)
    BY <2>1, Zenon DEF At
  <2>4. Busy' = Busy /\ Rdy' = {t}
    BY <1>5, <2>2, <2>3 DEF Busy, Rdy, Counted
  <2>5. Flags'
    BY <1>1, <1>5, Zenon DEF Types, Flags
  <2>6. Types' /\ Counted' /\ RoomForReady'
    BY <1>1, <1>2, <1>5, <2>1, <2>2, <2>4, <2>5, Zenon DEF Types, Counted, RoomForReady
  <2>7. LookedFresh' /\ NoneStranded'
    BY <1>3, <1>5, <2>2, Zenon DEF LookedFresh, NoneStranded
  <2> QED
    BY <2>6, <2>7, Zenon
<1>6. CASE asyncReadyHandlerExists
  BY <1>4, <1>6, Zenon DEF ProcessAsyncMsgs
<1>7. CASE ~asyncReadyHandlerExists
  <2>1. CreateAsyncMsgHandler(pc)
    BY <1>7, Zenon DEF ProcessAsyncMsgs
  <2>2. CASE asyncBusyHandlerCnt >= ASYNC_BUSY_HANDLER_MAX
    <3>1. asyncReadyHandlerExists' = FALSE /\ pc' = pc
      BY <2>1, <2>2, Zenon DEF CreateAsyncMsgHandler
    <3>2. asyncReadyHandlerExists = FALSE
      BY <1>7, Zenon DEF Types, Flags
    <3>3. asyncBusyHandlerCnt = ASYNC_BUSY_HANDLER_MAX
      BY <2>2, EnoughThreads, BufferMaxNat DEF Types, Numbers, Counted
    <3> QED
      BY <1>4, <3>1, <3>2, <3>3, Zenon
  <2>3. CASE ~(asyncBusyHandlerCnt >= ASYNC_BUSY_HANDLER_MAX)
    <3>1. /\ asyncReadyHandlerExists' = TRUE
          /\ \E t \in At("none") : pc' = [pc EXCEPT ![t] = "ready"]
      BY <2>1, <2>3, Zenon DEF CreateAsyncMsgHandler
    <3>2. asyncBusyHandlerCnt < ASYNC_BUSY_HANDLER_MAX
      BY <2>3, EnoughThreads, BufferMaxNat DEF Types, Numbers
    <3> QED
      BY <1>5, <1>7, <3>1, <3>2, Zenon
  <2> QED
    BY <2>2, <2>3, Zenon
<1> QED
  BY <1>6, <1>7, Zenon

\* The ready handler, or a busy one, looks into the local buffer.
LEMMA LocalStep ==
  ASSUME IInv, NEW t \in Handlers, ReadyLocal(t) \/ BusyLocal(t)
  PROVE  IInv'
<1> USE DEF IInv
<1>1. UNCHANGED <<asyncBufferRemote, asyncMsgPending, sending, asyncReadyHandlerExists>>
  BY Zenon DEF ReadyLocal, BusyLocal, FetchLocal
<1>2. Flags'
  BY <1>1, Zenon DEF Types, Flags
<1>3. asyncBufferLocal' \in 0..BufferMax /\ asyncBufferLocal' <= asyncBufferLocal
  BY EnoughThreads, BufferMaxNat DEF ReadyLocal, BusyLocal, FetchLocal, Types, Numbers
<1>4. At("looked") = {} /\ At("relooked") = {} /\ At("grabbed") = {}
  BY Zenon DEF ReadyLocal, BusyLocal, Enabled
<1>5. CASE ReadyLocal(t)
  <2>1. pc[t] = "ready" /\ t \in Rdy /\ t \in At("ready")
    BY <1>5, Zenon DEF ReadyLocal, FetchLocal, Rdy, At
  <2>2. asyncReadyHandlerExists /\ Rdy = {t}
    BY <2>1, ReadyIsAlone, Zenon
  <2>3. asyncBusyHandlerCnt < ASYNC_BUSY_HANDLER_MAX
    BY <2>1, Zenon DEF RoomForReady
  <2>4. t \notin Busy
    BY <2>1, Zenon DEF Busy, At
  <2>5. NoneStranded'
    BY <1>1, <2>2, Zenon DEF NoneStranded
  <2>6. CASE asyncBufferLocal > 0
    <3>1. pc' = [pc EXCEPT ![t] = "grabbed"] /\ asyncBusyHandlerCnt' = asyncBusyHandlerCnt + 1
      BY <1>5, <2>6, Zenon DEF ReadyLocal, FetchLocal, Goto
    <3>2. /\ pc' \in [Handlers -> PCs]
          /\ \A k : At(k)' = IF k = "grabbed" THEN At(k) \cup {t} ELSE At(k) \ {t}
      BY <3>1, Moved, Zenon DEF PCs
    <3>3. Busy' = Busy \cup {t} /\ Rdy' = {t} /\ At("ready")' = {} /\ At("looked")' = {}
          /\ At("relooked")' = {}
      BY <1>4, <2>2, <2>4, <3>2, Zenon DEF Busy, Rdy
    <3>4. Cardinality(Busy') = Cardinality(Busy) + 1
      BY <2>4, <3>3, BusyFinite, FS_AddElement, Zenon
    <3>5. Numbers'
      BY <1>1, <1>3, <3>1 DEF Types, Numbers
    <3>6. Counted'
      BY <1>1, <2>2, <2>3, <3>1, <3>3, <3>4, EnoughThreads, BufferMaxNat DEF Types, Numbers, Counted
    <3> QED
      BY <1>2, <2>5, <3>2, <3>3, <3>5, <3>6, Zenon DEF Types, RoomForReady, LookedFresh
  <2>7. CASE ~(asyncBufferLocal > 0)
    <3>1. /\ pc' = [pc EXCEPT ![t] = "looked"]
          /\ asyncBusyHandlerCnt' = asyncBusyHandlerCnt
          /\ asyncBufferLocal' = asyncBufferLocal
      BY <1>5, <2>7 DEF ReadyLocal, FetchLocal, Goto, Types, Numbers
    <3>2. /\ pc' \in [Handlers -> PCs]
          /\ \A k : At(k)' = IF k = "looked" THEN At(k) \cup {t} ELSE At(k) \ {t}
      BY <3>1, Moved, Zenon DEF PCs
    <3>3. Busy' = Busy /\ Rdy' = {t}
      BY <2>2, <2>4, <3>2, Zenon DEF Busy, Rdy
    <3>4. Numbers'
      BY <1>1, <1>3, <3>1, Zenon DEF Types, Numbers
    <3>5. Counted'
      BY <1>1, <2>2, <3>1, <3>3, Zenon DEF Counted
    <3> QED
      BY <1>2, <2>3, <2>5, <2>7, <3>1, <3>2, <3>4, <3>5, Zenon DEF Types, RoomForReady, LookedFresh
  <2> QED
    BY <2>6, <2>7, Zenon
<1>6. CASE BusyLocal(t)
  <2>1. pc[t] = "busy" /\ t \in At("busy") /\ asyncBusyHandlerCnt' = asyncBusyHandlerCnt
    BY <1>6, Zenon DEF BusyLocal, FetchLocal, At
  <2>2. PICK l \in {"busy", "relooked"} :
          /\ pc' = [pc EXCEPT ![t] = l]
          /\ l = "relooked" => ~(asyncBufferLocal > 0) /\ asyncBufferLocal' = asyncBufferLocal
    BY <1>6, Zenon DEF BusyLocal, FetchLocal, Goto
  <2>3. /\ pc' \in [Handlers -> PCs]
        /\ \A k : At(k)' = IF k = l THEN At(k) \cup {t} ELSE At(k) \ {t}
    BY <2>2, Moved, Zenon DEF PCs
  <2>4. \A k : k # "busy" => t \notin At(k)
    BY <2>1, Zenon DEF At
  <2>5. Busy' = Busy /\ Rdy' = Rdy /\ At("ready")' = At("ready") /\ At("looked")' = {}
        /\ (At("relooked")' # {} => l = "relooked")
    <3>1. At("ready")' = At("ready") /\ At("looked")' = {} /\ At("grabbed")' = {}
      BY <1>4, <2>2, <2>3, <2>4, SMTT(30), Z3
    <3>2. CASE l = "busy"
      <4>1. At("busy")' = At("busy") /\ At("relooked")' = {}
        BY <1>4, <2>1, <2>3, <3>2, Zenon
      <4> QED
        BY <1>4, <3>1, <4>1, Zenon DEF Busy, Rdy
    <3>3. CASE l = "relooked"
      <4>1. At("busy")' = At("busy") \ {t} /\ At("relooked")' = {t}
        BY <1>4, <2>3, <3>3, Zenon
      <4> QED
        BY <1>4, <2>1, <3>1, <3>3, <4>1, Zenon DEF Busy, Rdy
    <3> QED
      BY <2>2, <3>2, <3>3, Zenon
  <2>6. Numbers'
    BY <1>1, <1>3, <2>1, Zenon DEF Types, Numbers
  <2>7. Counted' /\ RoomForReady'
    BY <1>1, <1>4, <2>1, <2>5, Zenon DEF Counted, RoomForReady
  <2>8. LookedFresh'
    BY <2>2, <2>5, Zenon DEF LookedFresh
  <2>9. NoneStranded'
    <3>1. asyncBufferRemote' = asyncBufferRemote
      BY <1>1, Zenon
    <3>2. ASSUME asyncBufferLocal' + asyncBufferRemote > 0
          PROVE  asyncBufferLocal + asyncBufferRemote > 0
      <4>1. /\ asyncBufferLocal \in Nat /\ asyncBufferRemote \in Nat
            /\ asyncBufferLocal' \in Nat /\ asyncBufferLocal' <= asyncBufferLocal
        BY <1>3, EnoughThreads, BufferMaxNat DEF Types, Numbers
      <4> QED
        BY <3>2, <4>1, SumGrows, Zenon
    <3> QED
      BY <1>1, <2>1, <3>1, <3>2, Zenon DEF NoneStranded
  <2> QED
    BY <1>2, <2>3, <2>6, <2>7, <2>8, <2>9, Zenon DEF Types
<1> QED
  BY <1>5, <1>6, Zenon

\* The rest of the disabled code, which looks into the remote buffer.
LEMMA ReadyRemoteStep ==
  ASSUME IInv, NEW t \in Handlers, ReadyRemote(t)
  PROVE  IInv'
<1> USE DEF IInv
<1>1. UNCHANGED <<asyncBufferLocal, asyncMsgPending, sending>>
  BY Zenon DEF ReadyRemote
<1>2. pc[t] = "looked" /\ t \in Rdy /\ t \in At("looked")
  BY Zenon DEF ReadyRemote, Rdy, At
<1>3. asyncReadyHandlerExists /\ Rdy = {t}
  BY <1>2, ReadyIsAlone, Zenon
<1>4. asyncBusyHandlerCnt < ASYNC_BUSY_HANDLER_MAX
  BY <1>2, Zenon DEF RoomForReady
<1>5. t \notin Busy /\ At("ready") = {} /\ At("grabbed") = {} /\ At("looked") = {t}
  BY <1>2, <1>3, Zenon DEF Busy, Rdy, At
<1>6. CASE asyncBufferRemote > 0
  <2>1. /\ pc' = [pc EXCEPT ![t] = "grabbed"]
        /\ asyncBufferRemote' = asyncBufferRemote - 1
        /\ asyncBusyHandlerCnt' = asyncBusyHandlerCnt + 1
        /\ asyncReadyHandlerExists' = asyncReadyHandlerExists
    BY <1>6, Zenon DEF ReadyRemote, Goto
  <2>2. /\ pc' \in [Handlers -> PCs]
        /\ \A k : At(k)' = IF k = "grabbed" THEN At(k) \cup {t} ELSE At(k) \ {t}
    BY <2>1, Moved, Zenon DEF PCs
  <2>3. Busy' = Busy \cup {t} /\ Rdy' = {t} /\ At("ready")' = {} /\ At("looked")' = {}
        /\ At("relooked")' \subseteq At("relooked")
    BY <1>3, <1>5, <2>2, Zenon DEF Busy, Rdy
  <2>4. Cardinality(Busy') = Cardinality(Busy) + 1
    BY <1>5, <2>3, BusyFinite, FS_AddElement, Zenon
  <2>5. Numbers'
    BY <1>1, <1>6, <2>1, EnoughThreads, BufferMaxNat DEF Types, Numbers
  <2>6. Flags'
    BY <1>1, <2>1, Zenon DEF Types, Flags
  <2>7. Counted'
    BY <1>3, <1>4, <2>1, <2>3, <2>4, EnoughThreads, BufferMaxNat DEF Types, Numbers, Counted
  <2> QED
    BY <1>1, <1>3, <2>1, <2>2, <2>3, <2>5, <2>6, <2>7, Zenon
    DEF Types, RoomForReady, LookedFresh, NoneStranded
<1>7. CASE ~(asyncBufferRemote > 0)
  <2>1. /\ pc' = [pc EXCEPT ![t] = "none"]
        /\ asyncBufferRemote' = asyncBufferRemote
        /\ asyncBusyHandlerCnt' = asyncBusyHandlerCnt
        /\ asyncReadyHandlerExists' = FALSE
    BY <1>7, Zenon DEF ReadyRemote, Goto
  <2>2. /\ pc' \in [Handlers -> PCs]
        /\ \A k : At(k)' = IF k = "none" THEN At(k) \cup {t} ELSE At(k) \ {t}
    BY <2>1, Moved, Zenon DEF PCs
  <2>3. Busy' = Busy /\ Rdy' = {} /\ At("ready")' = {} /\ At("looked")' = {}
        /\ At("relooked")' \subseteq At("relooked")
    BY <1>3, <1>5, <2>2, Zenon DEF Busy, Rdy
  <2>4. Numbers'
    BY <1>1, <2>1, Zenon DEF Types, Numbers
  <2>5. Flags'
    BY <1>1, <2>1, Zenon DEF Types, Flags
  <2>6. Counted'
    BY <2>1, <2>3, Zenon DEF Counted
  <2>7. NoneStranded'
    <3>1. asyncBufferLocal' + asyncBufferRemote' > 0 => asyncBufferLocal > 0
      BY <1>1, <1>7, <2>1, EnoughThreads, BufferMaxNat DEF Types, Numbers
    <3>2. asyncBufferLocal > 0 => asyncMsgPending
      BY <1>2, Zenon DEF LookedFresh
    <3> QED
      BY <1>1, <3>1, <3>2, Zenon DEF NoneStranded
  <2> QED
    BY <1>1, <2>1, <2>2, <2>3, <2>4, <2>5, <2>6, <2>7, Zenon DEF Types, RoomForReady, LookedFresh
<1> QED
  BY <1>6, <1>7, Zenon

LEMMA GrabbedStep ==
  ASSUME IInv, NEW t \in Handlers, Grabbed(t)
  PROVE  IInv'
<1> USE DEF IInv
<1>1. UNCHANGED <<bufVars, asyncMsgPending, sending, asyncBusyHandlerCnt>>
  BY Zenon DEF Grabbed
<1>2. pc[t] = "grabbed" /\ t \in Rdy /\ t \in Busy
  BY Zenon DEF Grabbed, Rdy, Busy, At
<1>3. asyncReadyHandlerExists /\ Rdy = {t}
  BY <1>2, ReadyIsAlone, Zenon
<1>4. At("ready") = {} /\ At("grabbed") = {t} /\ At("looked") = {}
  BY <1>2, <1>3, Zenon DEF Rdy, At
<1>5. Numbers'
  BY <1>1, Zenon DEF Types, Numbers, bufVars
<1>6. CASE /\ asyncReadyHandlerExists' = FALSE /\ pc' = [pc EXCEPT ![t] = "busy"]
           /\ \/ asyncBufferLocal = 0 /\ asyncBufferRemote = 0
              \/ asyncBusyHandlerCnt = ASYNC_BUSY_HANDLER_MAX
  <2>1. /\ pc' \in [Handlers -> PCs]
        /\ \A k : At(k)' = IF k = "busy" THEN At(k) \cup {t} ELSE At(k) \ {t}
    BY <1>6, Moved, Zenon DEF PCs
  <2>2. Busy' = Busy /\ Rdy' = {} /\ At("ready")' = {} /\ At("looked")' = {}
        /\ At("relooked")' \subseteq At("relooked")
    BY <1>2, <1>4, <2>1, Zenon DEF Busy, Rdy
  <2>3. Flags'
    BY <1>1, <1>6, Zenon DEF Types, Flags
  <2>4. Counted'
    BY <1>1, <1>6, <2>2, Zenon DEF Counted
  <2>5. NoneStranded'
    BY <1>1, <1>6 DEF NoneStranded, bufVars
  <2> QED
    BY <1>1, <1>5, <2>1, <2>2, <2>3, <2>4, <2>5, Zenon
    DEF Types, RoomForReady, LookedFresh, bufVars
<1>7. ASSUME NEW u \in At("none"), asyncBusyHandlerCnt < ASYNC_BUSY_HANDLER_MAX,
             asyncReadyHandlerExists' = TRUE,
             pc' = [[pc EXCEPT ![t] = "busy"] EXCEPT ![u] = "ready"]
      PROVE  IInv'
  <2>1. u \in Handlers /\ pc[u] = "none" /\ u # t
    BY <1>2, Zenon DEF At
  <2>2. /\ pc' \in [Handlers -> PCs]
        /\ \A k : At(k)' = IF k = "busy" THEN (At(k) \cup {t}) \ {u}
                           ELSE IF k = "ready" THEN (At(k) \ {t}) \cup {u}
                           ELSE At(k) \ {t, u}
    BY <1>7, <2>1, Zenon DEF At, Types, PCs
  <2>3. \A k : k # "none" => u \notin At(k)
    BY <2>1, Zenon DEF At
  <2>4. Busy' = Busy /\ Rdy' = {u} /\ At("ready")' = {u} /\ At("looked")' = {}
        /\ At("relooked")' \subseteq At("relooked")
    BY <1>2, <1>4, <2>1, <2>2, <2>3 DEF Busy, Rdy
  <2>5. Flags'
    BY <1>1, <1>7, Zenon DEF Types, Flags
  <2>6. Counted'
    BY <1>1, <1>7, <2>1, <2>4, Zenon DEF Counted
  <2> QED
    BY <1>1, <1>5, <1>7, <2>2, <2>4, <2>5, <2>6, Zenon
    DEF Types, RoomForReady, LookedFresh, NoneStranded, bufVars
<1>8. CASE asyncBufferLocal = 0 /\ asyncBufferRemote = 0
  BY <1>6, <1>8, Zenon DEF Grabbed, Goto
<1>9. CASE ~(asyncBufferLocal = 0 /\ asyncBufferRemote = 0)
  <2>1. CreateAsyncMsgHandler([pc EXCEPT ![t] = "busy"])
    BY <1>9, Zenon DEF Grabbed
  <2>2. CASE asyncBusyHandlerCnt >= ASYNC_BUSY_HANDLER_MAX
    <3>1. asyncReadyHandlerExists' = FALSE /\ pc' = [pc EXCEPT ![t] = "busy"]
      BY <2>1, <2>2, Zenon DEF CreateAsyncMsgHandler
    <3>2. asyncBusyHandlerCnt = ASYNC_BUSY_HANDLER_MAX
      BY <2>2, EnoughThreads, BufferMaxNat DEF Types, Numbers, Counted
    <3> QED
      BY <1>6, <3>1, <3>2, Zenon
  <2>3. CASE ~(asyncBusyHandlerCnt >= ASYNC_BUSY_HANDLER_MAX)
    <3>1. /\ asyncReadyHandlerExists' = TRUE
          /\ \E u \in At("none") : pc' = [[pc EXCEPT ![t] = "busy"] EXCEPT ![u] = "ready"]
      BY <2>1, <2>3, Zenon DEF CreateAsyncMsgHandler
    <3>2. asyncBusyHandlerCnt < ASYNC_BUSY_HANDLER_MAX
      BY <2>3, EnoughThreads, BufferMaxNat DEF Types, Numbers
    <3> QED
      BY <1>7, <3>1, <3>2, Zenon
  <2> QED
    BY <2>2, <2>3, Zenon
<1> QED
  BY <1>8, <1>9, Zenon

\* A busy handler that finds no message ends: there is room for one again,
\* and should a message have come meanwhile, its interrupt is pending.
LEMMA BusyRemoteStep ==
  ASSUME IInv, NEW t \in Handlers, BusyRemote(t)
  PROVE  IInv'
<1> USE DEF IInv
<1>1. UNCHANGED <<asyncBufferLocal, asyncMsgPending, sending, asyncReadyHandlerExists>>
  BY Zenon DEF BusyRemote
<1>2. pc[t] = "relooked" /\ t \in Busy /\ t \in At("relooked")
  BY Zenon DEF BusyRemote, Busy, At
<1>3. \A k : k # "relooked" => t \notin At(k)
  BY <1>2, Zenon DEF At
<1>4. Flags'
  BY <1>1, Zenon DEF Types, Flags
<1>5. CASE asyncBufferRemote > 0
  <2>1. /\ pc' = [pc EXCEPT ![t] = "busy"]
        /\ asyncBufferRemote' = asyncBufferRemote - 1
        /\ asyncBusyHandlerCnt' = asyncBusyHandlerCnt
    BY <1>5, Zenon DEF BusyRemote, Goto
  <2>2. /\ pc' \in [Handlers -> PCs]
        /\ \A k : At(k)' = IF k = "busy" THEN At(k) \cup {t} ELSE At(k) \ {t}
    BY <2>1, Moved, Zenon DEF PCs
  <2>3. Busy' = Busy /\ Rdy' = Rdy /\ At("ready")' = At("ready")
        /\ At("looked")' = At("looked") /\ At("relooked")' \subseteq At("relooked")
    BY <1>2, <1>3, <2>2, Zenon DEF Busy, Rdy
  <2>4. Numbers'
    BY <1>1, <1>5, <2>1, EnoughThreads, BufferMaxNat DEF Types, Numbers
  <2>5. Counted' /\ RoomForReady' /\ LookedFresh'
    BY <1>1, <2>1, <2>3, Zenon DEF Counted, RoomForReady, LookedFresh
  <2>6. NoneStranded'
    <3>1. asyncBufferLocal + asyncBufferRemote > 0
      BY <1>5, EnoughThreads, BufferMaxNat DEF Types, Numbers
    <3> QED
      BY <1>1, <2>1, <3>1, Zenon DEF NoneStranded
  <2> QED
    BY <1>4, <2>2, <2>4, <2>5, <2>6, Zenon DEF Types
<1>6. CASE ~(asyncBufferRemote > 0)
  <2>1. /\ pc' = [pc EXCEPT ![t] = "none"]
        /\ asyncBufferRemote' = asyncBufferRemote
        /\ asyncBusyHandlerCnt' = asyncBusyHandlerCnt - 1
    BY <1>6, Zenon DEF BusyRemote, Goto
  <2>2. /\ pc' \in [Handlers -> PCs]
        /\ \A k : At(k)' = IF k = "none" THEN At(k) \cup {t} ELSE At(k) \ {t}
    BY <2>1, Moved, Zenon DEF PCs
  <2>3. Busy' = Busy \ {t} /\ Rdy' = Rdy /\ At("ready")' = At("ready")
        /\ At("looked")' = At("looked") /\ At("relooked")' \subseteq At("relooked")
    BY <1>2, <1>3, <2>2, Zenon DEF Busy, Rdy
  <2>4. Cardinality(Busy') = Cardinality(Busy) - 1 /\ Cardinality(Busy') \in Nat
    BY <1>2, <2>3, BusyFinite, FS_RemoveElement, FS_CardinalityType, Zenon
  <2>5. asyncBusyHandlerCnt' = Cardinality(Busy') /\ asyncBusyHandlerCnt' \in Nat
        /\ asyncBusyHandlerCnt' < asyncBusyHandlerCnt
    BY <2>1, <2>4 DEF Counted, Types, Numbers
  <2>6. Numbers'
    BY <1>1, <2>1, <2>5, Zenon DEF Types, Numbers
  <2>7. asyncBusyHandlerCnt' < ASYNC_BUSY_HANDLER_MAX
    BY <2>5, EnoughThreads, BufferMaxNat DEF Counted, Types, Numbers
  <2>8. Counted'
    BY <1>1, <2>3, <2>5, <2>7, EnoughThreads, BufferMaxNat DEF Counted, Types, Numbers
  <2>9. RoomForReady' /\ LookedFresh'
    BY <1>1, <2>3, <2>7, Zenon DEF RoomForReady, LookedFresh
  <2>10. NoneStranded'
    <3>1. asyncBufferLocal' = asyncBufferLocal
      BY <1>1, Zenon
    <3>2. asyncBufferLocal' + asyncBufferRemote' > 0 => asyncBufferLocal > 0
      BY <1>6, <2>1, <3>1, EnoughThreads, BufferMaxNat DEF Types, Numbers
    <3>3. asyncBufferLocal > 0 => asyncMsgPending
      BY <1>2, Zenon DEF LookedFresh
    <3> QED
      BY <1>1, <3>2, <3>3, Zenon DEF NoneStranded
  <2> QED
    BY <1>4, <2>2, <2>6, <2>8, <2>9, <2>10, Zenon DEF Types
<1> QED
  BY <1>5, <1>6, Zenon

LEMMA Stutter == ASSUME IInv, UNCHANGED vars PROVE IInv'
<1>1. UNCHANGED <<asyncBufferLocal, asyncBufferRemote, asyncMsgPending, sending,
                  asyncReadyHandlerExists, asyncBusyHandlerCnt, pc>>
  BY Zenon DEF vars, bufVars
<1> QED
  BY <1>1, Zenon DEF IInv, Types, Numbers, Flags, Counted, RoomForReady, LookedFresh,
              NoneStranded, Busy, Rdy, At

(* The strengthened invariant holds throughout.                             *)
THEOREM Invariance == Spec => []IInv
<1>1. IInv /\ [Next]_vars => IInv'
  <2> SUFFICES ASSUME IInv, [Next]_vars PROVE IInv'
    BY Zenon
  <2>1. CASE Send \/ SendInterrupt
    BY <2>1, SendStep, Zenon DEF Send
  <2>2. CASE ProcessAsyncMsgs
    BY <2>2, ProcessStep, Zenon
  <2>3. ASSUME NEW t \in Handlers, ReadyLocal(t) \/ BusyLocal(t) PROVE IInv'
    BY <2>3, LocalStep, Zenon
  <2>4. ASSUME NEW t \in Handlers, Disabled(t) PROVE IInv'
    BY <2>4, ReadyRemoteStep, GrabbedStep, BusyRemoteStep, Zenon DEF Disabled
  <2>5. CASE UNCHANGED vars
    BY <2>5, Stutter, Zenon
  <2> QED
    BY <2>1, <2>2, <2>3, <2>4, <2>5, Zenon DEF Next
<1> QED
  BY <1>1, InitIInv, PTL DEF Spec

LEMMA CountedIsHandlersCounted == IInv => HandlersCounted
<1> SUFFICES ASSUME IInv PROVE HandlersCounted
  BY Zenon
<1>1. asyncReadyHandlerExists => Cardinality(Rdy) = 1
  BY FS_Singleton, Zenon DEF IInv, Counted
<1>2. ~asyncReadyHandlerExists => Cardinality(Rdy) = 0
  BY FS_EmptySet, Zenon DEF IInv, Counted
<1> QED
  BY <1>1, <1>2, Zenon DEF IInv, Counted, HandlersCounted, Busy, Rdy

(* The variables keep their types, the count of busy handlers never going   *)
(* below zero or beyond the number of threads.                              *)
THEOREM TypeCorrect == Spec => []TypeOK
<1>1. IInv => TypeOK
  <2> SUFFICES ASSUME IInv PROVE TypeOK
    BY Zenon
  <2>1. asyncBusyHandlerCnt \in 0..Cardinality(Handlers)
    BY EnoughThreads, BufferMaxNat, FS_CardinalityType DEF IInv, Counted, Types, Numbers
  <2> QED
    BY <2>1, Zenon DEF IInv, Types, Numbers, Flags, PCs, TypeOK
<1> QED
  BY <1>1, Invariance, PTL

(* createAsyncMsgHandler and asyncMsgHandler keep asyncReadyHandlerExists   *)
(* and asyncBusyHandlerCnt exact, and never exceed ASYNC_BUSY_HANDLER_MAX.  *)
THEOREM CountIsExact == Spec => []HandlersCounted
  BY Invariance, CountedIsHandlersCounted, PTL

(* While a message waits in either buffer, the ASYNC_MSG interrupt is       *)
(* pending or about to be sent, a ready handler exists, or as many handlers *)
(* are busy as there may be.                                                *)
THEOREM NoMessageStranded == Spec => []NoneStranded
<1>1. IInv => NoneStranded
  BY Zenon DEF IInv
<1> QED
  BY <1>1, Invariance, PTL

-----------------------------------------------------------------------------
(***************************************************************************)
(* The process fetches the messages that were stored, in order and intact, *)
(* whatever the sizes of header, message, word and buffer.                 *)
(*                                                                         *)
(* The counters say how many words were stored and fetched, but not where  *)
(* one message ends and the next begins: the invariant speaks of a         *)
(* function start that gives the first word of every message stored.       *)
(***************************************************************************)

Words == [msg : Nat, word : Nat, length : Nat]

RingTypes ==
      /\ remote \in BOOLEAN
      /\ delivered \in Nat /\ accepted \in Nat
      /\ buf \in [0..BUF_SIZE-1 -> Words]
      /\ sent \in Seq(Nat) /\ got \in Seq(Seq(Words))
      /\ fpc \in {"idle", "loadAccepted", "check", "header", "copy", "accept"}
      /\ lDelivered1 \in Nat /\ lAccepted \in Nat /\ lDelivered2 \in Nat /\ header \in Words
      /\ spc \in {"idle", "write", "deliver"} /\ toStore \in Nat

\* The first message that is not accepted yet, and the last one stored.
First == IF fpc = "accept" THEN Len(got) ELSE Len(got) + 1
Last  == Len(sent)

\* Message m has been written to b from word s on.
Stored(b, m, s, bytes) ==
  \A k \in 1..Required(bytes) : b[(s % CAPACITY) + k - 1] = Word(m, k, bytes)

\* The words from accepted to delivered are the messages First to Last.
Layout(start) ==
  /\ First \in 1..(Last + 1)
  /\ accepted = IF First > Last THEN delivered ELSE start[First]
  /\ delivered <= accepted + CAPACITY
  /\ \A m \in First..Last :
       /\ Required(sent[m]) <= MAX_LENGTH
       /\ accepted <= start[m] /\ start[m] + Required(sent[m]) <= delivered
       /\ start[m] + Required(sent[m]) = IF m = Last THEN delivered ELSE start[m + 1]
       /\ Stored(buf, m, start[m], sent[m])
  /\ \A m, n \in First..Last : m < n => start[m] + Required(sent[m]) <= start[n]

\* What fetchMsg knows.  Before it has looked at both counters they may be
\* reset; it goes on only if there was a message, and then they are not.
Reader ==
  /\ fpc \in {"loadAccepted", "check"} => ~remote
  /\ fpc = "loadAccepted" /\ accepted < lDelivered1 => accepted < delivered
  /\ fpc = "check" /\ lAccepted < lDelivered1 => lAccepted = accepted /\ accepted < delivered
  /\ fpc \in {"header", "copy", "accept"} =>
        /\ lAccepted = accepted /\ accepted < delivered
        /\ accepted + Required(sent[First]) <= lDelivered2
  /\ fpc \in {"copy", "accept"} => header = Word(First, 1, sent[First])

\* What storeMsg of the remote buffer knows.
Writer ==
  /\ spc # "idle" => remote /\ Fits(toStore)
  /\ spc = "deliver" => Stored(buf, Last + 1, delivered, toStore)

Fetched == \A m \in DOMAIN got : got[m] = Message(m, sent[m])

RingIInv ==
      /\ RingTypes /\ Reader /\ Writer /\ Fetched
      /\ \E start \in [1..Last -> Nat] : Layout(start)

-----------------------------------------------------------------------------
(* The remainders that place a message in the buffer (Dispatcher.H:98).    *)
LEMMA DivMod ==
  ASSUME NEW a \in Nat, NEW b \in Nat \ {0}
  PROVE  a = b * (a \div b) + (a % b) /\ a \div b \in Nat /\ a % b \in 0..(b - 1)
  OBVIOUS

LEMMA Multiples ==
  ASSUME NEW p \in Int, NEW q \in Int, NEW c \in Nat \ {0}, q >= p + 1
  PROVE  c * q >= c * p + c
  OBVIOUS

(* Two words of the buffer less than c words apart are different words,    *)
(* even when both are counted on from the remainder of an earlier word, as *)
(* the words past the end of the ring are.                                 *)
LEMMA NoOverlap ==
  ASSUME NEW c \in Nat \ {0}, NEW s \in Nat, NEW d \in Nat, NEW j \in Nat, NEW i \in Nat,
         s + j < d, d + i < s + c
  PROVE  (s % c) + j # (d % c) + i
<1>1. PICK p \in Nat : s = c * p + (s % c) /\ s % c \in 0..(c - 1)
  BY DivMod, Zenon
<1>2. PICK q \in Nat : d = c * q + (d % c) /\ d % c \in 0..(c - 1)
  BY DivMod, Zenon
<1> DEFINE x == c * p
           y == c * q
<1>3. x \in Int /\ y \in Int
  OBVIOUS
<1>4. CASE p = q
  BY <1>1, <1>2, <1>4
<1>5. CASE q >= p + 1
  <2>1. y >= x + c
    BY <1>5, Multiples
  <2> HIDE DEF x, y
  <2> QED
    BY <1>1, <1>2, <1>3, <2>1 DEF x, y
<1>6. CASE p >= q + 1
  <2>1. x >= y + c
    BY <1>6, Multiples
  <2> QED
    BY <1>1, <1>2, <1>3, <2>1
<1> QED
  BY <1>4, <1>5, <1>6

LEMMA RequiredType ==
  ASSUME NEW bytes \in Nat
  PROVE  Required(bytes) \in Nat /\ Required(bytes) >= 1
<1>1. bytes + (WORD - 1) \in Nat /\ WORD \in Nat \ {0} /\ HDR_LENGTH \in Nat \ {0}
  BY Sizes
<1>2. NumUvals(bytes) \in Nat
  BY <1>1, DivMod, Zenon DEF NumUvals
<1> QED
  BY <1>1, <1>2 DEF Required

LEMMA SizesType ==
  /\ CAPACITY \in Nat \ {0} /\ MAX_LENGTH \in Nat \ {0} /\ BUF_SIZE \in Nat
  /\ BUF_SIZE = CAPACITY + MAX_LENGTH - 1
  BY Sizes DEF MAX_LENGTH, BUF_SIZE

LEMMA IndexType ==
  ASSUME NEW s \in Nat
  PROVE  s % CAPACITY \in 0..(CAPACITY - 1)
  BY DivMod, SizesType, Zenon

(* Every word of a message at most MAX_LENGTH long is inside the buffer.   *)
LEMMA InBuffer ==
  ASSUME NEW s \in Nat, NEW k \in Nat, k < MAX_LENGTH
  PROVE  (s % CAPACITY) + k \in 0..BUF_SIZE - 1
<1>1. s % CAPACITY \in 0..(CAPACITY - 1)
  BY IndexType, Zenon
<1> QED
  BY <1>1, SizesType

(* storeMsg writes the message where it says.                              *)
LEMMA WrittenThere ==
  ASSUME NEW b \in [0..BUF_SIZE-1 -> Words], NEW d \in Nat, NEW m \in Nat, NEW bytes \in Nat,
         Required(bytes) <= MAX_LENGTH
  PROVE  /\ Written(b, d, m, bytes) \in [0..BUF_SIZE-1 -> Words]
         /\ Stored(Written(b, d, m, bytes), m, d, bytes)
<1> DEFINE index == d % CAPACITY
           w == Written(b, d, m, bytes)
<1>1. Required(bytes) \in Nat /\ index \in Nat
  BY RequiredType, IndexType, SizesType
<1>2. \A k \in 1..Required(bytes) : Message(m, bytes)[k] = Word(m, k, bytes) /\ Word(m, k, bytes) \in Words
  BY <1>1 DEF Message, Word, Words
<1>3. ASSUME NEW i \in 0..BUF_SIZE-1
      PROVE  w[i] \in Words /\ w[i] = IF i \in index..index + Required(bytes) - 1
                                       THEN Word(m, i - index + 1, bytes) ELSE b[i]
  <2>1. w[i] = IF i \in index..index + Required(bytes) - 1
               THEN Message(m, bytes)[i - index + 1] ELSE b[i]
    BY Zenon DEF Written
  <2>2. CASE i \in index..index + Required(bytes) - 1
    <3>1. i - index + 1 \in 1..Required(bytes)
      BY <1>1, <2>2
    <3> QED
      BY <1>2, <2>1, <2>2, <3>1, Zenon
  <2>3. CASE i \notin index..index + Required(bytes) - 1
    BY <2>1, <2>3, Zenon
  <2> QED
    BY <2>2, <2>3, Zenon
<1>4. w \in [0..BUF_SIZE-1 -> Words]
  <2>1. w = [i \in 0..BUF_SIZE-1 |-> w[i]]
    BY Zenon DEF Written
  <2> HIDE DEF w
  <2> QED
    BY <1>3, <2>1, Zenon
<1>5. ASSUME NEW k \in 1..Required(bytes)
      PROVE  w[index + k - 1] = Word(m, k, bytes)
  <2>1. index + (k - 1) \in 0..BUF_SIZE-1
    <3>1. k - 1 \in Nat /\ k - 1 < MAX_LENGTH
      BY <1>1, SizesType
    <3> QED
      BY <3>1, InBuffer, Zenon
  <2>2. index + k - 1 = index + (k - 1) /\ (index + (k - 1)) - index + 1 = k
        /\ index + (k - 1) \in index..index + Required(bytes) - 1
    BY <1>1
  <2> HIDE DEF w, index
  <2> QED
    BY <1>3, <2>1, <2>2, Zenon
<1> QED
  BY <1>4, <1>5, Zenon DEF Stored

(* It leaves alone the messages that are not more than CAPACITY words back.*)
LEMMA WrittenElsewhere ==
  ASSUME NEW b \in [0..BUF_SIZE-1 -> Words], NEW d \in Nat, NEW n \in Nat, NEW bytes \in Nat,
         NEW s \in Nat, NEW m \in Nat, NEW length \in Nat,
         Required(length) <= MAX_LENGTH,
         s + Required(length) <= d, d + Required(bytes) <= s + CAPACITY,
         Stored(b, m, s, length)
  PROVE  Stored(Written(b, d, n, bytes), m, s, length)
<1>1. Required(bytes) \in Nat /\ Required(length) \in Nat
  BY RequiredType, Zenon
<1>a. CAPACITY \in Nat /\ MAX_LENGTH \in Nat /\ d % CAPACITY \in Nat /\ s % CAPACITY \in Nat
  BY IndexType, SizesType
<1>b. ASSUME NEW k \in 1..Required(length) PROVE k - 1 \in Nat /\ k - 1 < MAX_LENGTH
  BY <1>1, <1>a
<1> SUFFICES ASSUME NEW k \in 1..Required(length)
             PROVE  Written(b, d, n, bytes)[(s % CAPACITY) + k - 1] = b[(s % CAPACITY) + k - 1]
  BY Zenon DEF Stored
<1> DEFINE i == (s % CAPACITY) + (k - 1)
<1>2. i \in 0..BUF_SIZE-1 /\ i = (s % CAPACITY) + k - 1
  <2>1. i \in 0..BUF_SIZE-1
    BY <1>b, InBuffer, Zenon
  <2>2. i = (s % CAPACITY) + k - 1
    BY <1>a, Zenon
  <2> QED
    BY <2>1, <2>2, Zenon
<1>3. i \notin (d % CAPACITY)..(d % CAPACITY) + Required(bytes) - 1
  <2> SUFFICES ASSUME i \in (d % CAPACITY)..(d % CAPACITY) + Required(bytes) - 1 PROVE FALSE
    BY Zenon
  <2> DEFINE j == i - (d % CAPACITY)
  <2>a. i \in Int
    BY <1>a
  <2>1. j \in Nat /\ j < Required(bytes) /\ k - 1 \in Nat /\ k - 1 < Required(length)
    <3> HIDE DEF i
    <3> QED
      BY <1>1, <1>a, <2>a, SMTT(30), Z3
  <2>2. s + (k - 1) < d /\ d + j < s + CAPACITY
    <3> HIDE DEF i, j
    <3> QED
      BY <1>1, <1>a, <2>1, SMTT(30), Z3
  <2>3. (s % CAPACITY) + (k - 1) # (d % CAPACITY) + j
    BY <2>1, <2>2, NoOverlap, SizesType, ZenonT(40)
  <2> QED
    BY <1>a, <2>3, SMTT(30), Z3
<1>4. Written(b, d, n, bytes)[i] = b[i]
  BY <1>2, <1>3, Zenon DEF Written
<1> QED
  BY <1>2, <1>4, Zenon

-----------------------------------------------------------------------------
(* Nothing has been stored or fetched at first.                            *)
LEMMA InitInv == RingInit => RingIInv
<1> SUFFICES ASSUME RingInit PROVE RingIInv
  BY Zenon
<1>1. Blank \in Words
  BY Zenon DEF Blank, Word, Words
<1>2. RingTypes
  BY <1>1, EmptySeq, Zenon DEF RingInit, RingTypes
<1>3. Reader /\ Writer /\ Fetched
  BY DEF RingInit, Reader, Writer, Fetched
<1>4. Layout([m \in 1..Last |-> 0])
  <2>1. First = 1 /\ Last = 0 /\ accepted = 0 /\ delivered = 0
    BY DEF RingInit, First, Last
  <2> QED
    BY <2>1, SizesType DEF Layout
<1> QED
  BY <1>2, <1>3, <1>4, Zenon DEF RingIInv

(* The layout only depends on the ring and on which message is next.       *)
LEMMA LayoutFrame ==
  ASSUME NEW start, Layout(start), First' = First, UNCHANGED <<delivered, accepted, buf, sent>>
  PROVE  Layout(start)'
<1>1. Last' = Last
  BY Zenon DEF Last
<1> QED
  BY <1>1, Zenon DEF Layout

\* What every step may use of the message that is next.
LEMMA NextMessage ==
  ASSUME RingTypes, NEW start \in [1..Last -> Nat], Layout(start), accepted < delivered
  PROVE  /\ First \in 1..Last /\ sent[First] \in Nat
         /\ Required(sent[First]) \in 1..MAX_LENGTH
         /\ Stored(buf, First, accepted, sent[First])
         /\ accepted + Required(sent[First]) <= delivered
<1>1. Last \in Nat /\ First \in 1..(Last + 1) /\ delivered \in Nat /\ accepted \in Nat
  BY LenProperties, Zenon DEF RingTypes, Last, Layout
<1>2. First \in 1..Last /\ First \in First..Last /\ accepted = start[First]
  BY <1>1 DEF Layout
<1>3. sent[First] \in Nat
  BY <1>2, ElementOfSeq, Zenon DEF RingTypes, Last
<1>4. Required(sent[First]) \in Nat /\ Required(sent[First]) >= 1
  BY <1>3, RequiredType, Zenon
<1> QED
  BY <1>2, <1>3, <1>4, SizesType DEF Layout

(* A message of the given length is added to the layout at word at, where  *)
(* the last one ends unless there is none.                                 *)
LEMMA LayoutAppend ==
  ASSUME RingTypes, NEW start \in [1..Last -> Nat], Layout(start),
         NEW bytes \in Nat, NEW at \in Nat, Fits(bytes), First' = First,
         First <= Last => at = delivered,
         accepted' = IF First > Last THEN at ELSE accepted,
         delivered' = at + Required(bytes),
         sent' = Append(sent, bytes),
         \A m \in First..Last : Stored(buf', m, start[m], sent[m]),
         Stored(buf', Last + 1, at, bytes)
  PROVE  \E new \in [1..Last' -> Nat] : Layout(new)'
<1>1. /\ Last \in Nat /\ First \in 1..(Last + 1) /\ delivered \in Nat /\ accepted \in Nat
      /\ Required(bytes) \in Nat /\ Required(bytes) >= 1
  BY LenProperties, RequiredType, Zenon DEF RingTypes, Last, Layout
<1>2. /\ Last' = Last + 1
      /\ sent'[Last + 1] = bytes /\ \A m \in 1..Last : sent'[m] = sent[m]
  BY AppendProperties DEF RingTypes, Last
<1>4. Required(bytes) <= MAX_LENGTH /\ delivered + Required(bytes) <= accepted + CAPACITY
  BY <1>1, SizesType DEF Fits
<1>5. ASSUME NEW m \in First..Last
      PROVE  /\ m \in 1..Last /\ sent[m] \in Nat /\ start[m] \in Nat
             /\ Required(sent[m]) \in Nat
  <2>1. m \in 1..Last
    BY <1>1
  <2>2. sent[m] \in Nat
    BY <2>1, ElementOfSeq, Zenon DEF RingTypes, Last
  <2> QED
    BY <2>1, <2>2, RequiredType, Zenon
<1>3. accepted <= delivered
  <2>1. CASE First > Last
    BY <1>1, <2>1 DEF Layout
  <2>2. CASE ~(First > Last)
    <3>1. First \in First..Last
      BY <1>1, <2>2
    <3>2. accepted = start[First] /\ start[First] + Required(sent[First]) <= delivered
      BY <2>2, <3>1, Zenon DEF Layout
    <3> QED
      BY <1>1, <1>5, <3>1, <3>2, SMTT(30), Z3
  <2> QED
    BY <2>1, <2>2, Zenon
<1>6. PICK new \in [1..Last + 1 -> Nat] :
        new[Last + 1] = at /\ \A m \in 1..Last : new[m] = start[m]
  <2> DEFINE f == [m \in 1..Last + 1 |-> IF m = Last + 1 THEN at ELSE start[m]]
  <2>1. f \in [1..Last + 1 -> Nat] /\ f[Last + 1] = at /\ \A m \in 1..Last : f[m] = start[m]
    BY <1>1
  <2> HIDE DEF f
  <2> QED
    BY <2>1, Zenon
<1>7. new[Last + 1] = at /\ \A m \in 1..Last : new[m] = start[m]
  BY <1>6, Zenon
<1>8. First' \in 1..(Last' + 1)
  BY <1>1, <1>2
<1>9. accepted' = IF First' > Last' THEN delivered' ELSE new[First']
  BY <1>1, <1>2, <1>7, SMTT(30), Z3 DEF Layout
<1>10. accepted' <= at /\ delivered' <= accepted' + CAPACITY
  BY <1>1, <1>3, <1>4, SizesType, SMTT(30), Z3 DEF Layout
<1>11. ASSUME NEW m \in (First..Last)'
       PROVE  /\ Required(sent'[m]) <= MAX_LENGTH
              /\ accepted' <= new[m] /\ new[m] + Required(sent'[m]) <= delivered'
              /\ new[m] + Required(sent'[m]) = IF m = Last' THEN delivered' ELSE new[m + 1]
              /\ Stored(buf', m, new[m], sent'[m])
  <2>1. CASE m = Last + 1
    <3>1. sent'[m] = bytes /\ new[m] = at /\ m = Last'
      BY <1>2, <1>7, <2>1, Zenon
    <3> QED
      BY <1>1, <1>4, <1>10, <2>1, <3>1
  <2>2. CASE m # Last + 1
    <3>1. m \in First..Last /\ m \in 1..Last /\ First <= Last
      BY <1>1, <1>2, <2>2
    <3>2. sent'[m] = sent[m] /\ new[m] = start[m] /\ at = delivered /\ accepted' = accepted
      <4>1. sent'[m] = sent[m] /\ new[m] = start[m] /\ at = delivered
        BY <1>2, <1>7, <3>1, Zenon
      <4>2. ~(First > Last)
        BY <1>1, <3>1
      <4> QED
        BY <4>1, <4>2, Zenon
    <3>3. Required(sent[m]) <= MAX_LENGTH /\ accepted <= start[m] /\ start[m] + Required(sent[m]) <= delivered
          /\ start[m] + Required(sent[m]) = IF m = Last THEN delivered ELSE start[m + 1]
      BY <3>1, Zenon DEF Layout
    <3>4. new[m + 1] = IF m = Last THEN at ELSE start[m + 1]
      BY <1>1, <1>7, <3>1, SMTT(30), Z3
    <3>5. start[m] \in Nat /\ Required(sent[m]) \in Nat
      BY <1>5, <3>1, Zenon
    <3>6. new[m] + Required(sent'[m]) <= delivered'
      BY <1>1, <3>2, <3>3, <3>5, SMTT(30), Z3
    <3> QED
      BY <1>1, <1>2, <3>1, <3>2, <3>3, <3>4, <3>6, SMTT(30), Z3
  <2> QED
    BY <2>1, <2>2, Zenon
<1>12. ASSUME NEW m \in (First..Last)', NEW n \in (First..Last)', m < n
       PROVE  new[m] + Required(sent'[m]) <= new[n]
  <2>1. m \in First..Last /\ m \in 1..Last /\ First <= Last /\ n \in 1..Last + 1 /\ n \in First..Last + 1
    BY <1>1, <1>2, <1>12
  <2>2. sent'[m] = sent[m] /\ new[m] = start[m] /\ at = delivered
    BY <1>2, <1>7, <2>1, Zenon
  <2>3. CASE n = Last + 1
    BY <1>7, <2>1, <2>2, <2>3, ZenonT(40) DEF Layout
  <2>4. CASE n \in First..Last
    <3>1. n \in 1..Last
      BY <1>1, <2>4
    <3> QED
      BY <1>7, <1>12, <2>1, <2>2, <2>4, <3>1, ZenonT(40) DEF Layout
  <2>5. n = Last + 1 \/ n \in First..Last
    BY <1>1, <2>1
  <2> QED
    BY <2>3, <2>4, <2>5, Zenon
<1>13. Layout(new)'
  BY <1>8, <1>9, <1>10, <1>11, <1>12, Zenon DEF Layout
<1> QED
  BY <1>2, <1>6, <1>13, Zenon

LEMMA Progress ==
  ASSUME RingIInv
  PROVE  /\ Last \in Nat /\ Len(got) \in 0..Last /\ DOMAIN got = 1..Len(got)
         /\ First \in 1..(Last + 1) /\ accepted <= delivered
         /\ accepted < delivered => First \in 1..Last
<1>1. PICK start \in [1..Last -> Nat] : Layout(start)
  BY Zenon DEF RingIInv
<1>2. /\ Last \in Nat /\ Len(got) \in Nat /\ DOMAIN got = 1..Len(got)
      /\ First \in 1..(Last + 1) /\ accepted \in Nat /\ delivered \in Nat
  BY <1>1, LenProperties, Zenon DEF RingIInv, RingTypes, Last, Layout
<1>3. accepted < delivered => First \in 1..Last
  BY <1>1, NextMessage, Zenon DEF RingIInv
<1>4. accepted <= delivered
  <2>1. CASE First > Last
    BY <1>1, <1>2, <2>1 DEF Layout
  <2>2. CASE ~(First > Last)
    <3>1. First \in 1..Last /\ First \in First..Last
      BY <1>2, <2>2
    <3>2. sent[First] \in Nat
      BY <3>1, ElementOfSeq, Zenon DEF RingIInv, RingTypes, Last
    <3>3. accepted + Required(sent[First]) <= delivered
      BY <1>1, <2>2, <3>1, Zenon DEF Layout
    <3>4. Required(sent[First]) \in Nat
      BY <3>2, RequiredType, Zenon
    <3> QED
      BY <1>2, <3>3, <3>4
  <2> QED
    BY <2>1, <2>2, Zenon
<1>5. Len(got) <= Last
  <2>1. CASE fpc = "accept"
    BY <1>2, <1>3, <2>1 DEF RingIInv, Reader, First
  <2>2. CASE fpc # "accept"
    BY <1>2, <2>2 DEF First
  <2> QED
    BY <2>1, <2>2, Zenon
<1> QED
  BY <1>2, <1>3, <1>4, <1>5

(* A store that leaves the counters alone, or starts again at zero when    *)
(* the buffer is empty, does not disturb the reader.                       *)
LEMMA StoreKeepsReader ==
  ASSUME RingIInv, NEW bytes \in Nat, sent' = Append(sent, bytes),
         UNCHANGED <<remote, got, readVars>>,
         accepted' = accepted \/ accepted = delivered,
         accepted' < delivered'
  PROVE  Reader' /\ Fetched' /\ First' = First /\ sent' \in Seq(Nat)
<1>1. /\ Last \in Nat /\ Len(got) \in 0..Last /\ DOMAIN got = 1..Len(got)
      /\ accepted < delivered => First \in 1..Last
  BY Progress, Zenon
<1>2. sent' \in Seq(Nat) /\ \A m \in 1..Last : sent'[m] = sent[m]
  BY AppendProperties DEF RingIInv, RingTypes, Last
<1>3. Fetched'
  <2>1. \A m \in 1..Len(got) : m \in 1..Last
    BY <1>1
  <2> QED
    BY <1>1, <1>2, <2>1, Zenon DEF RingIInv, Fetched
<1>4. First' = First
  BY Zenon DEF First, readVars
<1>5. ASSUME fpc \in {"header", "copy", "accept"}
      PROVE  lAccepted = accepted' /\ sent'[First] = sent[First]
  <2>1. lAccepted = accepted /\ accepted < delivered
    BY <1>5, Zenon DEF RingIInv, Reader
  <2>2. First \in 1..Last /\ accepted # delivered
    BY <1>1, <2>1 DEF RingIInv, RingTypes
  <2> QED
    BY <1>2, <2>1, <2>2, Zenon
<1>6. Reader'
  <2>1. (fpc \in {"loadAccepted", "check"} => ~remote)'
    BY Zenon DEF RingIInv, Reader, readVars
  <2>2. (fpc = "check" /\ lAccepted < lDelivered1 => lAccepted = accepted /\ accepted < delivered)'
    BY DEF RingIInv, Reader, RingTypes, readVars
  <2>3. (fpc \in {"header", "copy", "accept"} =>
            /\ lAccepted = accepted /\ accepted < delivered
            /\ accepted + Required(sent[First]) <= lDelivered2)'
    BY <1>4, <1>5, Zenon DEF RingIInv, Reader, readVars
  <2>4. (fpc \in {"copy", "accept"} => header = Word(First, 1, sent[First]))'
    BY <1>4, <1>5, Zenon DEF RingIInv, Reader, readVars
  <2> QED
    BY <2>1, <2>2, <2>3, <2>4, Zenon DEF Reader, readVars
<1> QED
  BY <1>2, <1>3, <1>4, <1>6, Zenon

(* What fits is written without touching a message that is not accepted.   *)
LEMMA WriteKeeps ==
  ASSUME RingIInv, NEW start \in [1..Last -> Nat], Layout(start),
         NEW bytes \in Nat, Fits(bytes), NEW m \in First..Last, NEW n \in Nat
  PROVE  Stored(Written(buf, delivered, n, bytes), m, start[m], sent[m])
<1>1. m \in 1..Last /\ m \in Nat
  BY Progress
<1>2. sent[m] \in Nat /\ start[m] \in Nat
  BY <1>1, ElementOfSeq, Zenon DEF RingIInv, RingTypes, Last
<1>3. Required(bytes) \in Nat /\ Required(sent[m]) \in Nat
  BY <1>2, RequiredType, Zenon
<1>4. /\ Required(sent[m]) <= MAX_LENGTH /\ Stored(buf, m, start[m], sent[m])
      /\ accepted <= start[m] /\ start[m] + Required(sent[m]) <= delivered
  BY Zenon DEF Layout
<1>5. delivered + Required(bytes) <= start[m] + CAPACITY
  BY <1>2, <1>3, <1>4, SizesType, SMTT(30), Z3 DEF Fits, RingIInv, RingTypes
<1> QED
  BY <1>1, <1>2, <1>4, <1>5, WrittenElsewhere, Zenon DEF RingIInv, RingTypes

LEMMA EmptyIffNoneLeft ==
  ASSUME RingIInv
  PROVE  accepted = delivered <=> First > Last
<1>1. PICK start \in [1..Last -> Nat] : Layout(start)
  BY Zenon DEF RingIInv
<1>2. CASE First > Last
  BY <1>1, <1>2, Zenon DEF Layout
<1>3. CASE ~(First > Last)
  <2>1. First \in 1..Last /\ First \in First..Last
    BY <1>3, Progress
  <2>2. sent[First] \in Nat
    BY <2>1, ElementOfSeq, Zenon DEF RingIInv, RingTypes, Last
  <2>3. Required(sent[First]) \in Nat /\ Required(sent[First]) >= 1
    BY <2>2, RequiredType, Zenon
  <2>4. accepted + Required(sent[First]) <= delivered
    BY <1>1, <1>3, <2>1, Zenon DEF Layout
  <2> QED
    BY <1>3, <2>3, <2>4 DEF RingIInv, RingTypes
<1> QED
  BY <1>2, <1>3, Zenon

LEMMA StoreLocalInv ==
  ASSUME RingIInv, NEW bytes \in Nat, StoreLocal(bytes)
  PROVE  RingIInv'
<1> DEFINE at == IF accepted = delivered THEN 0 ELSE delivered
<1>1. PICK start \in [1..Last -> Nat] : Layout(start)
  BY Zenon DEF RingIInv
<1>2. /\ Fits(bytes) /\ ~remote /\ buf' = Written(buf, at, Last + 1, bytes)
      /\ accepted' = IF accepted = delivered THEN 0 ELSE accepted
      /\ delivered' = at + Required(bytes) /\ sent' = Append(sent, bytes)
      /\ UNCHANGED <<remote, got, readVars, storeVars>>
  BY Zenon DEF StoreLocal, Last
<1>3. /\ Required(bytes) \in Nat /\ Required(bytes) >= 1 /\ at \in Nat
      /\ accepted \in Nat /\ delivered \in Nat /\ accepted <= delivered
      /\ Last \in Nat /\ First \in Nat
  <2>1. Required(bytes) \in Nat /\ Required(bytes) >= 1
    BY RequiredType, Zenon
  <2>2. Last \in Nat /\ First \in Nat /\ accepted <= delivered
    BY Progress
  <2> QED
    BY <2>1, <2>2, Zenon DEF RingIInv, RingTypes
<1>4. accepted' < delivered' /\ accepted' \in Nat /\ delivered' \in Nat
      /\ (accepted' = accepted \/ accepted = delivered)
  BY <1>2, <1>3
<1>5. Reader' /\ Fetched' /\ First' = First /\ sent' \in Seq(Nat)
  BY <1>2, <1>4, StoreKeepsReader, Zenon
<1>6. buf' \in [0..BUF_SIZE-1 -> Words] /\ Stored(buf', Last + 1, at, bytes)
  <2>1. buf \in [0..BUF_SIZE-1 -> Words] /\ Last + 1 \in Nat /\ Required(bytes) <= MAX_LENGTH
    BY <1>2, <1>3 DEF RingIInv, RingTypes, Fits
  <2> HIDE DEF at
  <2> QED
    BY <1>2, <1>3, <2>1, WrittenThere, ZenonT(40)
<1>7. RingTypes'
  BY <1>2, <1>4, <1>5, <1>6, Zenon DEF RingIInv, RingTypes, readVars, storeVars
<1>8. Writer'
  BY <1>2, Zenon DEF RingIInv, Writer, storeVars
<1>9. \A m \in First..Last : Stored(buf', m, start[m], sent[m])
  <2> SUFFICES ASSUME NEW m \in First..Last PROVE Stored(buf', m, start[m], sent[m])
    BY Zenon
  <2>1. at = delivered
    BY <1>3, EmptyIffNoneLeft, SMTT(30), Z3
  <2>2. buf' = Written(buf, delivered, Last + 1, bytes) /\ Last + 1 \in Nat
    BY <1>2, <1>3, <2>1
  <2>3. Stored(Written(buf, delivered, Last + 1, bytes), m, start[m], sent[m])
    BY <1>1, <1>2, <2>2, WriteKeeps, ZenonT(40)
  <2> QED
    BY <2>2, <2>3, Zenon
<1>10. /\ First <= Last => at = delivered
       /\ accepted' = IF First > Last THEN at ELSE accepted
  BY <1>2, <1>3, EmptyIffNoneLeft
<1>11. RingTypes
  BY Zenon DEF RingIInv
<1> HIDE DEF at
<1>12. \E new \in [1..Last' -> Nat] : Layout(new)'
  BY <1>1, <1>2, <1>3, <1>5, <1>6, <1>9, <1>10, <1>11, LayoutAppend, ZenonT(40)
<1> QED
  BY <1>5, <1>7, <1>8, <1>12, Zenon DEF RingIInv

LEMMA StoreCheckInv ==
  ASSUME RingIInv, NEW bytes \in Nat, StoreCheck(bytes)
  PROVE  RingIInv'
<1>1. PICK start \in [1..Last -> Nat] : Layout(start)
  BY Zenon DEF RingIInv
<1>2. First' = First /\ Last' = Last
  BY Zenon DEF StoreCheck, First, Last, ringVars, readVars
<1>3. RingTypes'
  BY Zenon DEF RingIInv, RingTypes, StoreCheck, ringVars, readVars
<1>4. Fits(bytes)'
  BY Zenon DEF StoreCheck, Fits, ringVars
<1>5. Writer'
  BY <1>4, Zenon DEF StoreCheck, Writer, Fits, ringVars
<1>6. Reader' /\ Fetched'
  BY <1>2, Zenon DEF RingIInv, Reader, Fetched, StoreCheck, ringVars, readVars
<1>7. Layout(start)'
  BY <1>1, <1>2, LayoutFrame, Zenon DEF StoreCheck, ringVars
<1> QED
  BY <1>2, <1>3, <1>5, <1>6, <1>7, Zenon DEF RingIInv

LEMMA StoreWriteInv ==
  ASSUME RingIInv, StoreWrite
  PROVE  RingIInv'
<1>1. PICK start \in [1..Last -> Nat] : Layout(start)
  BY Zenon DEF RingIInv
<1>2. First' = First /\ Last' = Last
  BY Zenon DEF StoreWrite, First, Last, readVars
<1>3. /\ toStore \in Nat /\ delivered \in Nat /\ Last + 1 \in Nat /\ buf \in [0..BUF_SIZE-1 -> Words]
      /\ Fits(toStore) /\ Required(toStore) <= MAX_LENGTH
      /\ buf' = Written(buf, delivered, Last + 1, toStore)
  BY Progress DEF RingIInv, RingTypes, Writer, StoreWrite, Fits, Last
<1>4. buf' \in [0..BUF_SIZE-1 -> Words] /\ Stored(buf', Last + 1, delivered, toStore)
  BY <1>3, WrittenThere, Zenon
<1>5. RingTypes'
  BY <1>4, Zenon DEF RingIInv, RingTypes, StoreWrite, readVars
<1>6. Writer'
  BY <1>2, <1>4, Zenon DEF RingIInv, StoreWrite, Writer, Fits
<1>7. Reader' /\ Fetched'
  BY <1>2, Zenon DEF RingIInv, Reader, Fetched, StoreWrite, readVars
<1>8. \A m \in First..Last : Stored(buf', m, start[m], sent[m])
  BY <1>1, <1>3, WriteKeeps, Zenon
<1>9. Layout(start)'
  BY <1>1, <1>2, <1>8, Zenon DEF StoreWrite, Layout
<1> QED
  BY <1>2, <1>5, <1>6, <1>7, <1>9, Zenon DEF RingIInv

LEMMA StoreDeliverInv ==
  ASSUME RingIInv, StoreDeliver
  PROVE  RingIInv'
<1>1. PICK start \in [1..Last -> Nat] : Layout(start)
  BY Zenon DEF RingIInv
<1>2. /\ Fits(toStore) /\ Stored(buf, Last + 1, delivered, toStore)
      /\ delivered' = delivered + Required(toStore) /\ sent' = Append(sent, toStore)
      /\ spc' = "idle" /\ toStore' = 0
      /\ UNCHANGED <<remote, accepted, buf, got, readVars>>
  BY Zenon DEF RingIInv, Writer, StoreDeliver
<1>3. toStore \in Nat /\ RingTypes
  BY Zenon DEF RingIInv, RingTypes
<1>4. Required(toStore) \in Nat /\ Required(toStore) >= 1
  BY <1>3, RequiredType, Zenon
<1>5. accepted \in Nat /\ delivered \in Nat /\ accepted <= delivered
  BY Progress, Zenon DEF RingIInv, RingTypes
<1>6. accepted' < delivered' /\ accepted' = accepted /\ delivered' \in Nat
  BY <1>2, <1>4, <1>5
<1>7. Reader' /\ Fetched' /\ First' = First /\ sent' \in Seq(Nat)
  BY <1>2, <1>3, <1>6, StoreKeepsReader, Zenon
<1>8. RingTypes'
  BY <1>2, <1>6, <1>7, Zenon DEF RingIInv, RingTypes, readVars
<1>9. Writer'
  BY <1>2, Zenon DEF Writer
<1>10. \A m \in First..Last : Stored(buf', m, start[m], sent[m])
  BY <1>1, <1>2, Zenon DEF Layout
<1>11. accepted' = IF First > Last THEN delivered ELSE accepted
  BY <1>2, EmptyIffNoneLeft, Zenon
<1>12. Stored(buf', Last + 1, delivered, toStore)
  BY <1>2, Zenon
<1>13. \E new \in [1..Last' -> Nat] : Layout(new)'
  BY <1>1, <1>2, <1>3, <1>5, <1>7, <1>10, <1>11, <1>12, LayoutAppend, ZenonT(40)
<1> QED
  BY <1>7, <1>8, <1>9, <1>13, ZenonT(40) DEF RingIInv

-----------------------------------------------------------------------------
(* The steps of fetchMsg that only look at the counters.                   *)
LEMMA LookInv ==
  ASSUME RingIInv, FetchDelivered \/ FetchAccepted \/ FetchCheck \/ FetchRemote
  PROVE  RingIInv'
<1>1. PICK start \in [1..Last -> Nat] : Layout(start)
  BY Zenon DEF RingIInv
<1>2. /\ UNCHANGED <<ringVars, header, storeVars>>
      /\ fpc # "accept" /\ fpc' # "accept"
  BY Zenon DEF FetchDelivered, FetchAccepted, FetchCheck, FetchRemote, FetchAt
<1>3. First' = First /\ Last' = Last
  BY <1>2, Zenon DEF First, Last, ringVars
<1>4. RingTypes'
  BY Zenon DEF RingIInv, RingTypes, FetchDelivered, FetchAccepted, FetchCheck, FetchRemote, FetchAt, ringVars, storeVars
<1>5. Writer' /\ Fetched'
  BY <1>2, <1>3, Zenon DEF RingIInv, Writer, Fits, Fetched, ringVars, storeVars
<1>6. Layout(start)'
  BY <1>1, <1>2, <1>3, LayoutFrame, Zenon DEF ringVars
<1>7. accepted \in Nat /\ delivered \in Nat /\ lAccepted \in Nat /\ lDelivered1 \in Nat /\ accepted <= delivered
  BY Progress, Zenon DEF RingIInv, RingTypes
<1>8. accepted < delivered => accepted + Required(sent[First]) <= delivered
  BY <1>1, NextMessage, Zenon DEF RingIInv
<1>9. Reader'
  <2>1. CASE FetchDelivered
    BY <1>7, <2>1, Zenon DEF Reader, FetchDelivered, FetchAt, ringVars
  <2>2. CASE FetchAccepted
    BY <1>7, <2>2, Zenon DEF RingIInv, Reader, FetchAccepted, FetchAt, ringVars
  <2>3. CASE FetchCheck
    BY <1>3, <1>7, <1>8, <2>3, SMTT(30), Z3 DEF RingIInv, Reader, FetchCheck, FetchAt, ringVars
  <2>4. CASE FetchRemote
    BY <1>3, <1>7, <1>8, <2>4, Zenon DEF RingIInv, Reader, FetchRemote, FetchAt, ringVars
  <2> QED
    BY <2>1, <2>2, <2>3, <2>4, Zenon
<1> QED
  BY <1>3, <1>4, <1>5, <1>6, <1>9, Zenon DEF RingIInv

LEMMA FetchHeaderInv ==
  ASSUME RingIInv, FetchHeader
  PROVE  RingIInv'
<1>1. PICK start \in [1..Last -> Nat] : Layout(start)
  BY Zenon DEF RingIInv
<1>2. First' = First /\ Last' = Last
  BY Zenon DEF FetchHeader, FetchAt, First, Last, ringVars
<1>3. RingTypes /\ lAccepted = accepted /\ accepted < delivered
  BY Zenon DEF RingIInv, Reader, FetchHeader
<1>4. header' = Word(First, 1, sent[First])
  <2>1. Stored(buf, First, accepted, sent[First]) /\ Required(sent[First]) \in 1..MAX_LENGTH
    BY <1>1, <1>3, NextMessage, Zenon
  <2>2. (accepted % CAPACITY) + 1 - 1 = accepted % CAPACITY
    BY <1>3, IndexType, SizesType DEF RingTypes
  <2>3. 1 \in 1..Required(sent[First])
    BY <2>1, SizesType
  <2>4. buf[(accepted % CAPACITY) + 1 - 1] = Word(First, 1, sent[First])
    BY <2>1, <2>3, Zenon DEF Stored
  <2> QED
    BY <1>3, <2>2, <2>4, Zenon DEF FetchHeader
<1>5. header' \in Words
  <2>1. First \in Nat /\ sent[First] \in Nat
    BY <1>1, <1>3, NextMessage, SMTT(30), Z3
  <2> QED
    BY <1>4, <2>1, Zenon DEF Word, Words
<1>6. RingTypes'
  BY <1>5, Zenon DEF RingIInv, RingTypes, FetchHeader, FetchAt, ringVars, storeVars
<1>7. Writer' /\ Fetched'
  BY <1>2, Zenon DEF RingIInv, Writer, Fits, Fetched, FetchHeader, ringVars, storeVars
<1>8. Reader'
  BY <1>2, <1>4, Zenon DEF RingIInv, Reader, FetchHeader, FetchAt, ringVars
<1>9. Layout(start)'
  BY <1>1, <1>2, LayoutFrame, Zenon DEF FetchHeader, ringVars
<1> QED
  BY <1>2, <1>6, <1>7, <1>8, <1>9, ZenonT(40) DEF RingIInv

(* The header and the words that follow it are the message.                *)
LEMMA CopiesMessage ==
  ASSUME NEW m \in Nat, NEW bytes \in Nat, NEW s \in Nat, Stored(buf, m, s, bytes)
  PROVE  /\ <<Word(m, 1, bytes)>> \o [k \in 1..Required(bytes) - 1 |-> buf[(s % CAPACITY) + k]]
              = Message(m, bytes)
         /\ Message(m, bytes) \in Seq(Words)
<1> DEFINE R == Required(bytes)
           index == s % CAPACITY
           rest == [k \in 1..R - 1 |-> buf[index + k]]
           head == <<Word(m, 1, bytes)>>
           all == Message(m, bytes)
<1>1. R \in Nat /\ R >= 1 /\ index \in Nat
  BY RequiredType, IndexType, SizesType
<1>2. \A k \in 1..R : buf[index + k - 1] = Word(m, k, bytes)
  BY Zenon DEF Stored
<1> HIDE DEF R, index
<1>3. \A k \in 1..R : Word(m, k, bytes) \in Words
  BY <1>1 DEF Word, Words
<1>4. all = [k \in 1..R |-> Word(m, k, bytes)]
  BY Zenon DEF Message, R
<1>5. all \in Seq(Words) /\ Len(all) = R
  <2>1. all \in [1..R -> Words]
    BY <1>3, <1>4, Zenon
  <2> HIDE DEF all
  <2> QED
    BY <1>1, <2>1
<1>6. \A k \in 1..R - 1 : rest[k] = Word(m, k + 1, bytes)
  <2> SUFFICES ASSUME NEW k \in 1..R - 1 PROVE rest[k] = Word(m, k + 1, bytes)
    BY Zenon
  <2>1. k + 1 \in 1..R /\ index + (k + 1) - 1 = index + k
    BY <1>1
  <2> QED
    BY <1>2, <2>1, Zenon
<1>7. rest \in Seq(Words) /\ Len(rest) = R - 1
  <2>1. \A k \in 1..R - 1 : rest[k] \in Words
    BY <1>1, <1>3, <1>6
  <2>2. rest \in [1..R - 1 -> Words]
    BY <2>1, Zenon
  <2> HIDE DEF rest
  <2> QED
    BY <1>1, <2>2
<1>8. head \in Seq(Words) /\ Len(head) = 1 /\ head[1] = Word(m, 1, bytes)
  BY <1>1, <1>3
<1> HIDE DEF rest, head, all
<1>9. /\ head \o rest \in Seq(Words) /\ Len(head \o rest) = R
      /\ \A i \in 1..R : (head \o rest)[i] = IF i <= 1 THEN head[i] ELSE rest[i - 1]
  <2>1. Len(head) + Len(rest) = R
    BY <1>1, <1>7, <1>8
  <2> QED
    BY <1>7, <1>8, <2>1, ConcatProperties, ZenonT(30)
<1>10. \A i \in 1..R : (head \o rest)[i] = all[i]
  <2> SUFFICES ASSUME NEW i \in 1..R PROVE (head \o rest)[i] = Word(m, i, bytes)
    BY <1>4, Zenon
  <2>1. CASE i = 1
    BY <1>8, <1>9, <2>1
  <2>2. CASE i # 1
    <3>1. i - 1 \in 1..R - 1 /\ (i - 1) + 1 = i /\ ~(i <= 1)
      BY <1>1, <2>2
    <3> QED
      BY <1>6, <1>9, <3>1, Zenon
  <2> QED
    BY <2>1, <2>2, Zenon
<1>11. head \o rest = all
  <2> DEFINE cat == head \o rest
  <2>1. cat \in Seq(Words) /\ Len(cat) = Len(all) /\ \A i \in 1..Len(cat) : cat[i] = all[i]
    BY <1>5, <1>9, <1>10, Zenon
  <2> HIDE DEF cat
  <2>2. cat = all
    BY <1>5, <2>1, SeqEqual, Zenon
  <2> QED
    BY <2>2, Zenon DEF cat
<1> QED
  BY <1>5, <1>11, Zenon DEF head, rest, all, R, index

LEMMA FetchCopyInv ==
  ASSUME RingIInv, FetchCopy
  PROVE  RingIInv'
<1>1. PICK start \in [1..Last -> Nat] : Layout(start)
  BY Zenon DEF RingIInv
<1>2. /\ RingTypes /\ lAccepted = accepted /\ accepted < delivered /\ First = Len(got) + 1
      /\ header = Word(First, 1, sent[First]) /\ header.length = sent[First]
  BY DEF RingIInv, Reader, FetchCopy, First, Word
<1>3. First \in Nat /\ sent[First] \in Nat /\ Stored(buf, First, accepted, sent[First]) /\ accepted \in Nat
  BY <1>1, <1>2, NextMessage DEF RingTypes
<1>4. /\ got' = Append(got, Message(First, sent[First]))
      /\ Message(First, sent[First]) \in Seq(Words)
  <2> DEFINE body == [k \in 1..Required(sent[First]) - 1 |-> buf[(accepted % CAPACITY) + k]]
  <2>1. /\ <<Word(First, 1, sent[First])>> \o body = Message(First, sent[First])
        /\ Message(First, sent[First]) \in Seq(Words)
    BY <1>3, CopiesMessage, Zenon
  <2>2. got' = Append(got, <<Word(First, 1, sent[First])>> \o body)
    BY <1>2, Zenon DEF FetchCopy
  <2> QED
    BY <2>1, <2>2, Zenon
<1>5. /\ got' \in Seq(Seq(Words)) /\ Len(got') = Len(got) + 1 /\ Len(got) \in Nat
      /\ got'[Len(got) + 1] = Message(First, sent[First])
      /\ \A m \in 1..Len(got) : got'[m] = got[m]
  <2>1. got \in Seq(Seq(Words))
    BY <1>2, Zenon DEF RingTypes
  <2>2. Len(got) \in Nat
    BY <2>1, LenProperties, Zenon
  <2> DEFINE msg == Message(First, sent[First])
  <2>3. msg \in Seq(Words) /\ got' = Append(got, msg)
    BY <1>4, Zenon
  <2> HIDE DEF msg
  <2>4. /\ Append(got, msg) \in Seq(Seq(Words)) /\ Len(Append(got, msg)) = Len(got) + 1
        /\ Append(got, msg)[Len(got) + 1] = msg
        /\ \A m \in 1..Len(got) : Append(got, msg)[m] = got[m]
    BY <2>1, <2>3, AppendProperties, SMTT(30), Z3
  <2>5. /\ got' \in Seq(Seq(Words)) /\ Len(got') = Len(got) + 1
        /\ got'[Len(got) + 1] = msg
        /\ \A m \in 1..Len(got) : got'[m] = got[m]
    BY <2>3, <2>4, Zenon
  <2> QED
    BY <2>2, <2>5, Zenon DEF msg
<1>6. First' = First /\ Last' = Last
  BY <1>2, <1>5, Zenon DEF FetchCopy, FetchAt, First, Last
<1>7. Fetched'
  <2>1. DOMAIN got' = 1..Len(got) + 1 /\ DOMAIN got = 1..Len(got)
    <3>1. got \in Seq(Seq(Words))
      BY <1>2, Zenon DEF RingTypes
    <3>2. DOMAIN got' = 1..Len(got') /\ DOMAIN got = 1..Len(got)
      BY <1>5, <3>1, LenProperties, Zenon
    <3> QED
      BY <1>5, <3>2, Zenon
  <2>2. ASSUME NEW m \in 1..Len(got) + 1 PROVE got'[m] = Message(m, sent[m])
    <3>1. CASE m \in 1..Len(got)
      BY <1>5, <2>1, <3>1, Zenon DEF RingIInv, Fetched
    <3>2. CASE m = Len(got) + 1
      BY <1>2, <1>5, <3>2, Zenon
    <3> QED
      BY <1>5, <3>1, <3>2
  <2> QED
    BY <2>1, <2>2, Zenon DEF Fetched, FetchCopy
<1>8. RingTypes'
  BY <1>5, Zenon DEF RingIInv, RingTypes, FetchCopy, FetchAt, storeVars
<1>9. Writer'
  BY <1>6, Zenon DEF RingIInv, Writer, Fits, FetchCopy, storeVars
<1>10. Reader'
  BY <1>6, Zenon DEF RingIInv, Reader, FetchCopy, FetchAt
<1>11. Layout(start)'
  BY <1>1, <1>6, LayoutFrame, Zenon DEF FetchCopy
<1> QED
  BY <1>6, <1>7, <1>8, <1>9, <1>10, <1>11, ZenonT(40) DEF RingIInv

LEMMA FetchAcceptInv ==
  ASSUME RingIInv, FetchAccept
  PROVE  RingIInv'
<1>1. PICK start \in [1..Last -> Nat] : Layout(start)
  BY Zenon DEF RingIInv
<1>2. /\ RingTypes /\ lAccepted = accepted /\ accepted < delivered /\ First = Len(got)
      /\ header = Word(First, 1, sent[First]) /\ header.length = sent[First]
  BY DEF RingIInv, Reader, FetchAccept, First, Word
<1>3. accepted \in Nat /\ delivered \in Nat /\ Last \in Nat
  BY Progress, Zenon DEF RingIInv, RingTypes
<1>4. /\ First \in 1..Last /\ Required(sent[First]) \in 1..MAX_LENGTH
      /\ accepted + Required(sent[First]) <= delivered
  BY <1>1, <1>2, NextMessage, Zenon
<1>5. accepted' = accepted + Required(sent[First]) /\ accepted' \in Nat /\ accepted' <= delivered
      /\ accepted <= accepted'
  BY <1>2, <1>3, <1>4, SizesType, SMTT(30), Z3 DEF FetchAccept
<1>6. First' = First + 1 /\ Last' = Last
  BY <1>2, Zenon DEF FetchAccept, FetchAt, First, Last
<1>7. RingTypes'
  <2>1. Blank \in Words
    BY Zenon DEF Blank, Word, Words
  <2> QED
    BY <1>5, <2>1, Zenon DEF RingIInv, RingTypes, FetchAccept, FetchAt, storeVars
<1>8. Fits(toStore) => Fits(toStore)'
  <2>1. Required(toStore) \in Nat
    BY RequiredType, Zenon DEF RingIInv, RingTypes
  <2>2. UNCHANGED <<delivered, toStore>>
    BY Zenon DEF FetchAccept, storeVars
  <2> QED
    BY <1>3, <1>5, <2>1, <2>2, SizesType, SMTT(30), Z3 DEF Fits
<1>9. Writer'
  BY <1>6, <1>8, Zenon DEF RingIInv, Writer, FetchAccept, storeVars
<1>10. Reader' /\ Fetched'
  BY Zenon DEF RingIInv, Reader, Fetched, FetchAccept, FetchAt
<1>11. Layout(start)'
  <2>1. First' \in 1..(Last' + 1)
    BY <1>3, <1>4, <1>6, SMTT(30), Z3
  <2>2. start[First] = accepted /\ start[First] + Required(sent[First]) = IF First = Last THEN delivered ELSE start[First + 1]
    BY <1>1, <1>3, <1>4, SMTT(30), Z3 DEF Layout
  <2>3. accepted' = IF First' > Last' THEN delivered' ELSE start[First']
    BY <1>3, <1>4, <1>5, <1>6, <2>2, SMTT(30), Z3 DEF FetchAccept
  <2>4. delivered' <= accepted' + CAPACITY
    BY <1>1, <1>3, <1>5, SizesType, SMTT(30), Z3 DEF FetchAccept, Layout
  <2>5. ASSUME NEW m \in (First..Last)' PROVE m \in First..Last /\ accepted' <= start[m]
    <3>1. m \in First..Last /\ First \in First..Last /\ First < m
      BY <1>3, <1>4, <1>6
    <3> QED
      BY <1>1, <1>5, <2>2, <3>1, Zenon DEF Layout
  <2> QED
    BY <1>1, <1>6, <2>1, <2>3, <2>4, <2>5, ZenonT(40) DEF Layout, FetchAccept
<1> QED
  BY <1>6, <1>7, <1>9, <1>10, <1>11, ZenonT(40) DEF RingIInv

-----------------------------------------------------------------------------
LEMMA Inductive == RingIInv /\ [RingNext]_bufferVars => RingIInv'
<1> SUFFICES ASSUME RingIInv, [RingNext]_bufferVars PROVE RingIInv'
  BY Zenon
<1>1. ASSUME NEW bytes \in Lengths, StoreLocal(bytes) \/ StoreCheck(bytes) PROVE RingIInv'
  <2>1. bytes \in Nat
    BY Sizes DEF Lengths
  <2> QED
    BY <1>1, <2>1, StoreLocalInv, StoreCheckInv, ZenonT(40)
<1>2. CASE UNCHANGED bufferVars
  <2>1. PICK start \in [1..Last -> Nat] : Layout(start)
    BY Zenon DEF RingIInv
  <2>2. First' = First /\ Last' = Last
    BY <1>2, Zenon DEF bufferVars, ringVars, readVars, First, Last
  <2>3. Layout(start)'
    BY <1>2, <2>1, <2>2, LayoutFrame, Zenon DEF bufferVars, ringVars
  <2>4. RingTypes' /\ Reader' /\ Writer' /\ Fetched'
    BY <1>2, <2>2, Zenon
       DEF bufferVars, ringVars, readVars, storeVars, RingIInv, RingTypes, Reader, Writer, Fits, Fetched
  <2> QED
    BY <2>2, <2>3, <2>4, Zenon DEF RingIInv
<1> QED
  BY <1>1, <1>2, StoreWriteInv, StoreDeliverInv, LookInv, FetchHeaderInv, FetchCopyInv, FetchAcceptInv, ZenonT(40)
  DEF RingNext, Store, Fetch

(* For every size of header, message, word and buffer, and any number of   *)
(* messages: AsyncBufferLocal and AsyncBufferRemote hand over the messages *)
(* stored, in order and intact, and fetchMsg never meets a message that is *)
(* longer than what it saw delivered.                                      *)
THEOREM MessagesFetchedInOrder == RingSpec => []FetchedInOrder
<1>1. RingIInv => FetchedInOrder
  <2> SUFFICES ASSUME RingIInv PROVE FetchedInOrder
    BY Zenon
  <2>1. fpc \in {"copy", "accept"} => lAccepted + Required(header.length) <= lDelivered2
    BY DEF RingIInv, Reader, Word
  <2> QED
    BY <2>1, ZenonT(40) DEF FetchedInOrder, RingIInv, Fetched
<1> QED
  BY <1>1, InitInv, Inductive, PTL DEF RingSpec
=============================================================================
