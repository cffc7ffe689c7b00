------------------------ MODULE MC_DispatcherDefault ------------------------
(* DispatcherDefault with two threads of the base kind and an extended one, *)
(* which may migrate, two groups to bar, a page fault and an IPC retry:     *)
(* two threads can be ready or barred while the third runs.                 *)
EXTENDS DispatcherDefault

CONSTANTS b1, b2, e1,
          MaxOutstanding   \* bound on Outstanding

MCThreads == {b1, b2, e1}
MCExtended == {e1}

\* The threads of the base kind are alike.
Alike == Permutations({b1, b2})

Count(b) == IF b THEN 1 ELSE 0

\* What was posted or asked for and is not yet taken.
Outstanding ==
  Cardinality(interrupts) + Cardinality(pgfltCompleted) + Cardinality(ipcRetry)
    + Count(yieldRequested) + Count(preemptRequested)
    + Cardinality({t \in Threads : wasUnblocked[t]}) + Cardinality(migratable)

GroupsInUse == barredGroups # {} \/ \E t \in Threads : groups[t] # {}

(* Only so much is outstanding at a time, and nothing while groups are in   *)
(* use, which with the rest would be too many states.                       *)
Bounded == Outstanding <= IF GroupsInUse THEN 0 ELSE MaxOutstanding
=============================================================================
