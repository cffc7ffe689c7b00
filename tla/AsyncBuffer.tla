----------------------------- MODULE AsyncBuffer -----------------------------
(***************************************************************************)
(* os/kernel/sys/Dispatcher.H: AsyncBufferLocal and AsyncBufferRemote, the *)
(* ring buffers in the dispatcher page through which the kernel hands      *)
(* asynchronous messages to a process.  The process reads with fetchMsg,   *)
(* one load at a time; the kernel of the same processor stores into the    *)
(* local buffer without the reader running in between, and other           *)
(* processors, one at a time under the VP lock, store into the remote one. *)
(*                                                                         *)
(* delivered and accepted count words since the start.  A message is kept  *)
(* contiguous: its place is its start modulo CAPACITY, and the buffer is   *)
(* MAX_LENGTH-1 words longer than CAPACITY.                                *)
(***************************************************************************)
EXTENDS AsyncSizes, Sequences

CONSTANT MaxStores   \* bound on the number of messages stored

VARIABLES remote,    \* whether this is an AsyncBufferRemote
          delivered, accepted, buf,
          sent,      \* history: the lengths in bytes of the messages stored
          got,       \* history: the messages fetched, word by word
          fpc, lDelivered1, lAccepted, lDelivered2, header,  \* fetchMsg
          spc, toStore    \* storeMsg of the remote buffer

ringVars  == <<remote, delivered, accepted, buf, sent, got>>
readVars  == <<fpc, lDelivered1, lAccepted, lDelivered2, header>>
storeVars == <<spc, toStore>>
bufferVars == <<ringVars, readVars, storeVars>>

\* A word of the buffer: which message it belongs to, which word of it, and
\* (in the header) the length.
Word(m, k, length) == [msg |-> m, word |-> k, length |-> length]
Blank == Word(0, 0, 0)

NumUvals(bytes) == (bytes + (WORD - 1)) \div WORD
Required(bytes) == HDR_LENGTH + NumUvals(bytes)
Message(m, bytes) == [k \in 1..Required(bytes) |-> Word(m, k, bytes)]

RingInit ==
  /\ remote \in BOOLEAN
  /\ delivered = 0 /\ accepted = 0
  /\ buf = [i \in 0..BUF_SIZE-1 |-> Blank]
  /\ sent = <<>> /\ got = <<>>
  /\ fpc = "idle"
  /\ lDelivered1 = 0 /\ lAccepted = 0 /\ lDelivered2 = 0 /\ header = Blank
  /\ spc = "idle" /\ toStore = 0

-----------------------------------------------------------------------------
\* Mutant: one word too many is let in.
FitsOneMore(bytes) ==
  /\ Required(bytes) <= MAX_LENGTH
  /\ Required(bytes) <= CAPACITY - (delivered - accepted) + 1

(* storeMsg.  A message that is too long or does not fit is refused with    *)
(* EMSGSIZE or EBUSY, and nothing changes.                                  *)
Fits(bytes) ==
  /\ Required(bytes) <= MAX_LENGTH
  /\ Required(bytes) <= CAPACITY - (delivered - accepted)

Written(b, start, m, bytes) ==
  LET index == start % CAPACITY
  IN  [i \in 0..BUF_SIZE-1 |->
         IF i \in index..index + Required(bytes) - 1
         THEN Message(m, bytes)[i - index + 1]
         ELSE b[i]]

\* In the local buffer an empty buffer starts again at zero.
StoreLocal(bytes) ==
  LET start == IF accepted = delivered THEN 0 ELSE delivered
  IN  /\ ~remote
      /\ Len(sent) < MaxStores
      /\ Fits(bytes)
      /\ accepted' = IF accepted = delivered THEN 0 ELSE accepted
      /\ buf' = Written(buf, start, Len(sent) + 1, bytes)
      /\ delivered' = start + Required(bytes)
      /\ sent' = Append(sent, bytes)
      /\ UNCHANGED <<remote, got, readVars, storeVars>>

\* In the remote buffer the reader runs between the steps.
StoreCheck(bytes) ==
  /\ remote /\ spc = "idle"
  /\ Len(sent) < MaxStores
  /\ Fits(bytes)
  /\ toStore' = bytes
  /\ spc' = "write"
  /\ UNCHANGED <<ringVars, readVars>>

StoreWrite ==
  /\ spc = "write"
  /\ buf' = Written(buf, delivered, Len(sent) + 1, toStore)
  /\ spc' = "deliver"
  /\ UNCHANGED <<remote, delivered, accepted, sent, got, readVars, toStore>>

StoreDeliver ==
  /\ spc = "deliver"
  /\ delivered' = delivered + Required(toStore)
  /\ sent' = Append(sent, toStore)
  /\ spc' = "idle"
  /\ toStore' = 0
  /\ UNCHANGED <<remote, accepted, buf, got, readVars>>

-----------------------------------------------------------------------------
(* fetchMsg.  The local reader loads delivered, accepted and delivered      *)
(* again, because the counters may be reset between two loads.              *)
FetchAt(label) == fpc' = label

FetchDelivered ==
  /\ ~remote /\ fpc = "idle"
  /\ lDelivered1' = delivered
  /\ FetchAt("loadAccepted")
  /\ UNCHANGED <<ringVars, lAccepted, lDelivered2, header, storeVars>>

FetchAccepted ==
  /\ fpc = "loadAccepted"
  /\ lAccepted' = accepted
  /\ FetchAt("check")
  /\ UNCHANGED <<ringVars, lDelivered1, lDelivered2, header, storeVars>>

\* Mutant: a message of one word is overlooked.
FetchCheckOffByOne ==
  /\ fpc = "check"
  /\ lDelivered2' = delivered
  /\ FetchAt(IF lAccepted + 1 >= lDelivered1 THEN "idle" ELSE "header")
  /\ UNCHANGED <<ringVars, lDelivered1, lAccepted, header, storeVars>>

FetchCheck ==
  /\ fpc = "check"
  /\ lDelivered2' = delivered
  /\ FetchAt(IF lAccepted >= lDelivered1 THEN "idle" ELSE "header")
  /\ UNCHANGED <<ringVars, lDelivered1, lAccepted, header, storeVars>>

\* The remote reader looks once.
FetchRemote ==
  /\ remote /\ fpc = "idle"
  /\ accepted < delivered
  /\ lAccepted' = accepted
  /\ lDelivered2' = delivered
  /\ FetchAt("header")
  /\ UNCHANGED <<ringVars, lDelivered1, header, storeVars>>

FetchHeader ==
  /\ fpc = "header"
  /\ header' = buf[lAccepted % CAPACITY]
  /\ FetchAt("copy")
  /\ UNCHANGED <<ringVars, lDelivered1, lAccepted, lDelivered2, storeVars>>

FetchCopy ==
  LET index == lAccepted % CAPACITY
  IN  /\ fpc = "copy"
      /\ got' = Append(got, <<header>> \o
                   [k \in 1..Required(header.length) - 1 |-> buf[index + k]])
      /\ FetchAt("accept")
      /\ UNCHANGED <<remote, delivered, accepted, buf, sent, lDelivered1, lAccepted, lDelivered2,
                     header, storeVars>>

FetchAccept ==
  /\ fpc = "accept"
  /\ accepted' = lAccepted + Required(header.length)
  /\ FetchAt("idle")
  /\ header' = Blank /\ lDelivered1' = 0 /\ lAccepted' = 0 /\ lDelivered2' = 0
  /\ UNCHANGED <<remote, delivered, buf, sent, got, storeVars>>

Lengths == 0..(MSG_LENGTH * WORD + 1)

Fetch ==
  \/ FetchDelivered \/ FetchAccepted \/ FetchCheck \/ FetchRemote
  \/ FetchHeader \/ FetchCopy \/ FetchAccept

Store ==
  \/ \E bytes \in Lengths : StoreLocal(bytes) \/ StoreCheck(bytes)
  \/ StoreWrite \/ StoreDeliver

RingNext == Fetch \/ Store

\* The handler of the ASYNC_MSG interrupt keeps calling fetchMsg.
RingSpec == RingInit /\ [][RingNext]_bufferVars /\ WF_bufferVars(Fetch)
-----------------------------------------------------------------------------
RingTypeOK ==
  /\ remote \in BOOLEAN
  /\ delivered \in Nat /\ accepted \in 0..delivered
  /\ \A i \in 0..BUF_SIZE-1 : buf[i].msg \in 0..MaxStores
  /\ Len(got) <= Len(sent)
  /\ fpc \in {"idle", "loadAccepted", "check", "header", "copy", "accept"}
  /\ spc \in {"idle", "write", "deliver"}

(* The process receives the messages that were stored, in order and intact: *)
(* no word of one is overwritten before it is copied, across the wrap at    *)
(* the end of the buffer and the reset of the counters to zero.  The reader *)
(* never meets the "garbled async message" of Dispatcher.H:158 and 225, a   *)
(* message that ends later than the words delivered.                        *)
FetchedInOrder ==
  /\ \A m \in DOMAIN got : got[m] = Message(m, sent[m])
  /\ fpc \in {"copy", "accept"} => lAccepted + Required(header.length) <= lDelivered2

(* Dispatcher.H:153, "async message exceeds max size": what storeMsg lets   *)
(* through is shorter than MSG_LENGTH words.                                *)
ShorterThanMax == fpc = "copy" => header.length < MSG_LENGTH * WORD

(* A reader that keeps calling fetchMsg gets every message.                 *)
AllFetched == \A m \in 1..MaxStores : Len(sent) >= m ~> Len(got) >= m
=============================================================================
