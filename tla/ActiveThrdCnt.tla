---------------------------- MODULE ActiveThrdCnt ----------------------------
(***************************************************************************)
(* The counters of active threads of one virtual processor.  activate adds *)
(* 2 to the activation count of the current generation, which shares a     *)
(* word with the generation's index; deactivate takes 2 from the counter   *)
(* of the thread's generation.  advance switches generations and then adds *)
(* the old activation count to the counter.  The low bit of a counter says *)
(* that advance waits for it to reach zero.  Every atomic operation of the *)
(* code is a step; threads of all dispatchers of the processor interleave, *)
(* advance runs serially with respect to itself.                           *)
(***************************************************************************)
EXTENDS Integers

CONSTANT Threads    \* threads of this processor

VARIABLES
  index, cnt, \* the two fields of genIndexAndActivationCnt
  activeCnt,  \* activeCnt[i], i \in 0 .. NUM_GENERATIONS - 1
  cntP,       \* cntP[t]: index of the counter t will decrement, -1: inactive
  note,       \* note[t]: counter t is about to reset in NotifyAdvance, or -1
  pc, oldCnt  \* where advance stands, and its local variable

vars == <<index, cnt, activeCnt, cntP, note, pc, oldCnt>>

(* Any value larger than the counts; the code takes 2^55. *)
HUGE_COUNT == 1073741824

newIndex == 1 - index     \* before the switch; afterwards it is oldIndex

TypeOK ==
  /\ index \in {0, 1} /\ cnt \in Int /\ oldCnt \in Int
  /\ activeCnt \in [{0, 1} -> Int]
  /\ cntP \in [Threads -> {-1, 0, 1}]
  /\ note \in [Threads -> {-1, 0, 1}]
  /\ pc \in {"idle", "or", "notify", "store", "add", "sub"}

Init ==
  /\ index = 0 /\ cnt = 0 /\ oldCnt = 0
  /\ activeCnt = [i \in {0, 1} |-> 0]
  /\ cntP = [t \in Threads |-> -1]
  /\ note = [t \in Threads |-> -1]
  /\ pc = "idle"

Activate(t) ==
  /\ cntP[t] = -1 /\ note[t] = -1
  /\ cnt' = cnt + 2
  /\ cntP' = [cntP EXCEPT ![t] = index]
  /\ UNCHANGED <<index, activeCnt, note, pc, oldCnt>>

Deactivate(t) ==
  /\ cntP[t] # -1
  /\ activeCnt' = [activeCnt EXCEPT ![cntP[t]] = @ - 2]
  /\ note' = [note EXCEPT ![t] = IF activeCnt[cntP[t]] = 3 THEN cntP[t] ELSE -1]
  /\ cntP' = [cntP EXCEPT ![t] = -1]
  /\ UNCHANGED <<index, cnt, pc, oldCnt>>

NotifyAdvance(t) ==
  /\ note[t] # -1
  /\ activeCnt' = [activeCnt EXCEPT ![note[t]] = 0]
  /\ note' = [note EXCEPT ![t] = -1]
  /\ UNCHANGED <<index, cnt, cntP, pc, oldCnt>>

(* advance: the test of the new generation's counter, ... *)
AdvanceTest ==
  /\ pc = "idle"
  /\ pc' = IF activeCnt[newIndex] # 0 THEN "or" ELSE "store"
  /\ UNCHANGED <<index, cnt, activeCnt, cntP, note, oldCnt>>

(* ... FetchAndOr64 of the interest bit, with NotifyAdvance if the counter *)
(* has become zero in between, ...                                         *)
AdvanceOr ==
  /\ pc = "or"
  /\ activeCnt' = [activeCnt EXCEPT ![newIndex] = IF @ % 2 = 0 THEN @ + 1 ELSE @]
  /\ pc' = IF activeCnt[newIndex] = 0 THEN "notify" ELSE "idle"
  /\ UNCHANGED <<index, cnt, cntP, note, oldCnt>>

AdvanceNotify ==
  /\ pc = "notify"
  /\ activeCnt' = [activeCnt EXCEPT ![newIndex] = 0]
  /\ pc' = "idle"
  /\ UNCHANGED <<index, cnt, cntP, note, oldCnt>>

(* ... or FetchAndStore64 of the new index and HUGE_COUNT, ... *)
AdvanceStore ==
  /\ pc = "store"
  /\ index' = newIndex
  /\ cnt' = HUGE_COUNT
  /\ oldCnt' = cnt
  /\ pc' = "add"
  /\ UNCHANGED <<activeCnt, cntP, note>>

(* ... and the two additions. *)
AdvanceAdd ==
  /\ pc = "add"
  /\ activeCnt' = [activeCnt EXCEPT ![1 - index] = @ + oldCnt]
  /\ pc' = "sub"
  /\ UNCHANGED <<index, cnt, cntP, note, oldCnt>>

AdvanceSub ==
  /\ pc = "sub"
  /\ cnt' = cnt - HUGE_COUNT
  /\ pc' = "idle"
  /\ UNCHANGED <<index, activeCnt, cntP, note, oldCnt>>

Advance ==
  AdvanceTest \/ AdvanceOr \/ AdvanceNotify \/ AdvanceStore \/ AdvanceAdd \/ AdvanceSub

Next ==
  \/ \E t \in Threads : Activate(t) \/ Deactivate(t) \/ NotifyAdvance(t)
  \/ Advance

Spec == Init /\ [][Next]_vars

-----------------------------------------------------------------------------
InGen(i) == {t \in Threads : cntP[t] = i}

(* NotifyAdvance finds the counter at exactly 1 and is its only writer     *)
(* ("Unexpected thread count"; "No one else should be changing the count").*)
NotifyFindsOne ==
  /\ \A t \in Threads : note[t] # -1 =>
       /\ activeCnt[note[t]] = 1 /\ InGen(note[t]) = {}
       /\ pc # "notify" /\ \A s \in Threads : note[s] # -1 => s = t
  /\ pc = "notify" => activeCnt[newIndex] = 1 /\ InGen(newIndex) = {}

(* A registered interest is never forgotten: once the previous generation  *)
(* has no thread left and nobody is about to reset its counter, advance    *)
(* finds zero.                                                             *)
AdvanceNotBlocked ==
  (/\ pc \in {"idle", "or"} /\ InGen(newIndex) = {}
   /\ \A t \in Threads : note[t] = -1)
  => activeCnt[newIndex] = 0

(* The generation of a thread as the object manager understands it. *)
gen == [t \in Threads |-> IF cntP[t] = -1 THEN "none"
                          ELSE IF cntP[t] = index THEN "cur" ELSE "prev"]

(* The counters keep the promise of Generations: threads enter the current *)
(* generation, and a switch happens only when the previous one is empty.   *)
Gens == INSTANCE Generations WITH N <- 1, VPOf <- [t \in Threads |-> 0], None <- "none"
GensNext ==
  \/ \E t \in Threads : Gens!activate(t) \/ Gens!deactivate(t)
  \/ Gens!advance(0)
ImplementsGenerations == Gens!InitGen /\ [][GensNext]_gen
=============================================================================
