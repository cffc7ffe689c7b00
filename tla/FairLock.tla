------------------------------ MODULE FairLock ------------------------------
(***************************************************************************)
(* What a K42 BLock promises (FairBLock.C:11-23): one owner at a time, and *)
(* the threads that found the lock held get it in the order in which they  *)
(* queued.  A thread that finds it free takes it at once, but never past a *)
(* queued thread: a release with waiters hands the lock to the first.      *)
(***************************************************************************)
EXTENDS Sequences

CONSTANTS Threads, NoOwner

VARIABLES owner,  \* the thread holding the lock, or NoOwner
          queue   \* the threads waiting for it, in order

vars == <<owner, queue>>

Init == owner = NoOwner /\ queue = <<>>

Grab(t) ==
  /\ owner = NoOwner /\ queue = <<>>
  /\ owner' = t
  /\ UNCHANGED queue

Enqueue(t) ==
  /\ owner # NoOwner
  /\ queue' = Append(queue, t)
  /\ UNCHANGED owner

Handoff ==
  /\ queue # <<>>
  /\ owner # NoOwner
  /\ owner' = Head(queue)
  /\ queue' = Tail(queue)

Free ==
  /\ owner # NoOwner /\ queue = <<>>
  /\ owner' = NoOwner
  /\ UNCHANGED queue

Next == Handoff \/ Free \/ \E t \in Threads : Grab(t) \/ Enqueue(t)

Spec == Init /\ [][Next]_vars
=============================================================================
