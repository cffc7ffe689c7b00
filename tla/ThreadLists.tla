----------------------------- MODULE ThreadLists -----------------------------
(***************************************************************************)
(* The thread lists of a DispatcherDefault (lib/libc/scheduler), all       *)
(* chained through the one Thread::next field: the ready queue with its    *)
(* tail pointer, and the stacks freeList, barredList, pgfltList[] and      *)
(* ipcRetryList[].                                                         *)
(*                                                                         *)
(* h is the record [next, ready, tail, stack]: stack maps the name of each *)
(* stack to its top.  A thread that leaves a list has its dead next field  *)
(* set to NULL, which the code leaves as it was, and so has the tail       *)
(* pointer of a ready queue that becomes empty ("undefined", says          *)
(* DispatcherDefault.H:71).                                                *)
(***************************************************************************)
EXTENDS Naturals, SequencesExt

CONSTANTS Threads, NULL

\* The threads found by following next from p, cut off after n of them
\* should the chain be cyclic.
RECURSIVE Walk(_, _, _)
Walk(next, p, n) ==
  IF p = NULL \/ n = 0 THEN <<>> ELSE <<p>> \o Walk(next, next[p], n - 1)

ReadySeq(h)    == Walk(h.next, h.ready, Cardinality(Threads) + 1)
StackSeq(h, s) == Walk(h.next, h.stack[s], Cardinality(Threads) + 1)

Empty(stacks) ==
  [next |-> [t \in Threads |-> NULL], ready |-> NULL, tail |-> NULL,
   stack |-> [s \in stacks |-> NULL]]

-----------------------------------------------------------------------------
(* makeReady: append at the tail.                                           *)
MakeReady(h, t) ==
  LET cleared == [h EXCEPT !.next[t] = NULL]
  IN  IF h.ready = NULL
      THEN [cleared EXCEPT !.ready = t, !.tail = t]
      ELSE [cleared EXCEPT !.next[h.tail] = t, !.tail = t]

(* makeReadyFirst.                                                          *)
MakeReadyFirst(h, t) ==
  [h EXCEPT !.next[t] = h.ready, !.ready = t,
            !.tail = IF h.ready = NULL THEN t ELSE h.tail]

(* getReadyThread, which is called only when there is one.                  *)
DropReady(h) ==
  [h EXCEPT !.ready = h.next[h.ready], !.next[h.ready] = NULL,
            !.tail = IF h.tail = h.ready THEN NULL ELSE h.tail]

Push(h, s, t) == [h EXCEPT !.next[t] = h.stack[s], !.stack[s] = t]

Pop(h, s) ==
  LET t == h.stack[s]
  IN  [h EXCEPT !.stack[s] = h.next[t], !.next[t] = NULL]

MakeAllReady(h, ts) == FoldLeft(MakeReady, h, ts)

(* Empty a stack onto the ready queue, top first.                           *)
WakeStack(h, s) == [MakeAllReady(h, StackSeq(h, s)) EXCEPT !.stack[s] = NULL]

\* Mutant: only the first thread of the list is looked at.
WakeSomeFirst(h, s, ts) ==
  IF h.stack[s] \in ts THEN MakeReady(Pop(h, s), h.stack[s]) ELSE h

(* disabledUnbarGroup's loop: the threads of stack s that are in ts become  *)
(* ready in list order, the others keep their places.                       *)
WakeSome(h, s, ts) ==
  LET all  == StackSeq(h, s)
      stay == SelectSeq(all, LAMBDA t : t \notin ts)
      wake == SelectSeq(all, LAMBDA t : t \in ts)
      kept == [h EXCEPT
                 !.stack[s] = IF stay = <<>> THEN NULL ELSE stay[1],
                 !.next = [t \in Threads |->
                   IF t \notin ToSet(stay) THEN h.next[t]
                   ELSE LET i == CHOOSE j \in DOMAIN stay : stay[j] = t
                        IN  IF i = Len(stay) THEN NULL ELSE stay[i+1]]]
  IN  MakeAllReady(kept, wake)

(* Unlink t from the middle or the top of stack s.                          *)
Unlink(h, s, t) ==
  IF h.stack[s] = t
  THEN Pop(h, s)
  ELSE LET prev == CHOOSE p \in ToSet(StackSeq(h, s)) : h.next[p] = t
       IN  [h EXCEPT !.next[prev] = h.next[t], !.next[t] = NULL]

\* Mutant: the tail stays where it was when the last thread is unlinked.
RemoveReadyKeepTail(h, t) ==
  IF h.ready = t
  THEN DropReady(h)
  ELSE LET prev == CHOOSE p \in ToSet(ReadySeq(h)) : h.next[p] = t
       IN  [h EXCEPT !.next[prev] = h.next[t], !.next[t] = NULL]

(* disabledRemoveThread(): unlink the ready thread t, moving the tail back  *)
(* when t was last.                                                         *)
RemoveReady(h, t) ==
  IF h.ready = t
  THEN DropReady(h)
  ELSE LET prev == CHOOSE p \in ToSet(ReadySeq(h)) : h.next[p] = t
       IN  [h EXCEPT !.next[prev] = h.next[t], !.next[t] = NULL,
                     !.tail = IF h.tail = t THEN prev ELSE h.tail]

=============================================================================
