----------------------------- MODULE Generations -----------------------------
(***************************************************************************)
(* What the counting of active threads promises the clustered object       *)
(* manager: every active thread of a virtual processor belongs to the      *)
(* current or to the previous generation of that processor, and the        *)
(* processor advances only when nobody is left in the previous one.        *)
(* ActiveThrdCnt models the counters that keep the promise.                *)
(***************************************************************************)
EXTENDS Integers

CONSTANTS
  N,          \* number of virtual processors
  Threads,
  VPOf,       \* VPOf[t]: the processor thread t is active on
  None        \* the null pointer, and "not there" in general

ASSUME NAssumption == N \in Nat \ {0}
ASSUME VPOfAssumption == VPOf \in [Threads -> 0 .. N - 1]
ASSUME NoneAssumption == None \notin Int

VARIABLE
  gen         \* gen[t] \in Gen: the generation t is active in, "none" if inactive

VPs == 0 .. N - 1
Gen == {"none", "cur", "prev"}

On(v) == {t \in Threads : VPOf[t] = v}
Active(t) == gen[t] # "none"

InitGen == gen = [t \in Threads |-> "none"]

(* Thread::activate and Thread::deactivate. *)
activate(t) == ~Active(t) /\ gen' = [gen EXCEPT ![t] = "cur"]

deactivate(t) == Active(t) /\ gen' = [gen EXCEPT ![t] = "none"]

(* A successful ActiveThrdCnt::Advance: nobody is left in the previous     *)
(* generation, and what was the current one becomes it.                    *)
advance(v) ==
  /\ \A t \in On(v) : gen[t] # "prev"
  /\ gen' = [t \in Threads |-> IF t \in On(v) /\ Active(t) THEN "prev" ELSE gen[t]]

(* How often updateTheGen's two calls of ActiveThrdCnt::Advance succeed.   *)
Advances(v) ==
  IF \E t \in On(v) : gen[t] = "prev" THEN 0
  ELSE IF \E t \in On(v) : gen[t] = "cur" THEN 1 ELSE 2

(* updateTheGen.  A thread in late activates between the two calls: when   *)
(* both succeed it has ended up in the previous generation.  (When the     *)
(* second fails it is in the current one, as if it had activated after.)   *)
updateTheGen(v, late) ==
  /\ late \subseteq On(v)
  /\ late # {} => Advances(v) = 2
  /\ gen' = [t \in Threads |->
               IF Advances(v) > 0 /\ t \in On(v) /\ (Active(t) \/ t \in late)
               THEN "prev" ELSE gen[t]]
=============================================================================
