---------------------------- MODULE ThreadMarkers ----------------------------
(***************************************************************************)
(* Thread markers of the clustered object manager: a local marker elapses  *)
(* after two generation advances, the token moves to the next processor    *)
(* only when a marker set there on its arrival has elapsed, and a global   *)
(* marker elapses when processor 0 has noticed the token twice.            *)
(*                                                                         *)
(* A marker is a copy of a generation count; the code only ever asks       *)
(* whether the count has grown by 2 since.  The model keeps that           *)
(* difference, the age of the marker, and stops counting at 2.             *)
(***************************************************************************)
EXTENDS Generations

VARIABLES
  token,      \* token[v]: the previous holder when v has the token, else None
  seen,       \* seen[v]: seenToken, v has noticed that the token is here
  age,        \* age[v]: age of remoteDeleteSet.marker, set when v noticed it
  mark,       \* age of the global marker under observation, None when not set
  marked      \* history: threads active when it was set and ever since

vars == <<gen, token, seen, age, mark, marked>>

TypeOK ==
  /\ gen \in [Threads -> Gen]
  /\ token \in [VPs -> VPs \cup {None}]
  /\ seen \in [VPs -> BOOLEAN]
  /\ age \in [VPs -> 0 .. 2]
  /\ mark \in {None} \cup 0 .. 2
  /\ marked \subseteq Threads

Init ==
  /\ InitGen
  /\ token = [v \in VPs |-> IF v = 0 THEN 0 ELSE None]
  /\ seen = [v \in VPs |-> FALSE]
  /\ age = [v \in VPs |-> 0]
  /\ mark = None
  /\ marked = {}

Older(n, a) == IF a + n > 2 THEN 2 ELSE a + n

AgeAfter(v) == IF seen[v] THEN Older(Advances(v), age[v]) ELSE age[v]

Activate(t) ==
  /\ activate(t)
  /\ UNCHANGED <<token, seen, age, mark, marked>>

Deactivate(t) ==
  /\ deactivate(t)
  /\ marked' = marked \ {t}
  /\ UNCHANGED <<token, seen, age, mark>>

SetGlobalThreadMarker ==
  /\ mark = None
  /\ mark' = 0
  /\ marked' = {t \in Threads : Active(t)}
  /\ UNCHANGED <<gen, token, seen, age>>

(* Any updateTheGen that does not go on to pass the token. *)
UpdateTheGen(v) ==
  /\ \E late \in SUBSET On(v) : updateTheGen(v, late)
  /\ age' = [age EXCEPT ![v] = AgeAfter(v)]
  /\ UNCHANGED <<token, seen, mark, marked>>

(* checkCleanup sees the token for the first time since it arrived. *)
NoteToken(v) ==
  /\ token[v] # None /\ ~seen[v]
  /\ seen' = [seen EXCEPT ![v] = TRUE]
  /\ age' = [age EXCEPT ![v] = 0]
  /\ mark' = IF v = 0 /\ mark # None THEN Older(1, mark) ELSE mark
  /\ UNCHANGED <<gen, token, marked>>

PassToken(v) ==
  /\ token[v] # None /\ seen[v]
  /\ \E late \in SUBSET On(v) : updateTheGen(v, late)
  /\ AgeAfter(v) = 2
  /\ seen' = [seen EXCEPT ![v] = FALSE]
  /\ age' = [age EXCEPT ![v] = 0]
  /\ token' = [u \in VPs |-> IF u = (v + 1) % N THEN v
                             ELSE IF u = v THEN None ELSE token[u]]
  /\ UNCHANGED <<mark, marked>>

Next ==
  \/ \E t \in Threads : Activate(t) \/ Deactivate(t)
  \/ SetGlobalThreadMarker
  \/ \E v \in VPs : UpdateTheGen(v) \/ NoteToken(v) \/ PassToken(v)

Spec == Init /\ [][Next]_vars

(* checkGlobalThreadMarker answers ELAPSED only when every thread that was *)
(* active anywhere when the marker was set has been deactivated since.     *)
GlobalMarkerElapsed == mark = 2 => marked = {}

(* The inductive invariant: while the token makes the round that follows   *)
(* the first notice by processor 0, the processors behind it are rid of    *)
(* the marked threads, and the holder is as far as its own marker is old.  *)
IInv ==
  /\ TypeOK
  /\ \A v \in VPs : token[v] # None => \A u \in VPs : token[u] # None => u = v
  /\ \A t \in marked : Active(t)
  /\ \A v \in VPs : seen[v] => token[v] # None
  /\ mark = 1 => \A v \in VPs : token[v] # None =>
       /\ \A t \in marked : VPOf[t] >= v
       /\ v = 0 /\ ~seen[v] => marked = {}
       /\ seen[v] /\ age[v] = 1 => \A t \in marked \cap On(v) : gen[t] = "prev"
       /\ seen[v] /\ age[v] = 2 => marked \cap On(v) = {}
  /\ GlobalMarkerElapsed
=============================================================================
