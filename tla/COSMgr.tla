------------------------------- MODULE COSMgr -------------------------------
(***************************************************************************)
(* The clustered object manager (COSMgrObject) and the roots it manages    *)
(* (CObjRootSingleRep, CObjRootMultiRep).  A reference is an index into a  *)
(* global and, per virtual processor, a local translation table.  A call   *)
(* goes through the local entry; while that still names the default object *)
(* the call is a miss and the object's root, found in the global entry,    *)
(* installs a representative.  A destroyed object is cleaned up once the   *)
(* threads that may use it are gone, and its reference is allocated again  *)
(* once no thread of any processor can hold it.                            *)
(*                                                                         *)
(* Thread generations are those of module Generations; the ages of the     *)
(* delete sets' markers are counted as in ThreadMarkers.                   *)
(***************************************************************************)
EXTENDS Generations

CONSTANTS
  Refs,       \* references (CORef), all from the paged part of the table
  HomeOf,     \* HomeOf[r]: the processor whose partition of the table r is in
  Roots,      \* memory for root objects
  MultiRep    \* those of class CObjRootMultiRep; the others are single-rep

RootRecs == [ref : Refs, trans : SUBSET VPs, reps : SUBSET VPs, started : BOOLEAN]

ASSUME HomeOfAssumption == HomeOf \in [Refs -> VPs]
ASSUME NullAssumption == None \notin Refs \cup Roots \cup RootRecs

VARIABLES
  hold,       \* hold[t]: the reference t got hold of, or None
  miss,       \* miss[t]: t is in the miss handler of hold[t]
  using,      \* using[t]: the root whose representative t has called, or None
  lte,        \* lte[v][r]: the root v's local entry leads to, None: default object
  gte,        \* gte[r] = [mh, destroying]; mh = None: the entry is free
  root,       \* root[o] = [ref, trans, reps, started], None: not allocated
  stage1,     \* stage1[v] = [local, remote]: stage1LocalList, stage1RemoteList
  delSets,    \* delSets[v][a]: the local delete sets whose marker has age a
  tmpList,    \* tmpList[v]: objects of elapsed sets, about to be cleaned up
  remList,    \* remList[v]: remoteDeleteSet.list
  vpCleanup,  \* vpCleanup[v]: vpCleanupList
  refLists,   \* refLists[v] = [waitL, waitR, reclaim]: references to deallocate
  xfer,       \* xfer[v]: transferArray
  token, seen, age,     \* as in ThreadMarkers
  at          \* at[v]: where checkCleanup stands on v

threadVars == <<gen, hold, miss, using>>
tableVars == <<lte, gte, root>>
listVars == <<stage1, delSets, tmpList, remList, vpCleanup, refLists, xfer>>
ringVars == <<token, seen, age>>
vars == <<threadVars, tableVars, listVars, ringVars, at>>

FreeEntry == [mh |-> None, destroying |-> FALSE]

(* A root as its constructor leaves it; reps is repSet, which a single-rep *)
(* root does not have, and started stands for myRef = 0.                   *)
NewRoot(r) == [ref |-> r, trans |-> {}, reps |-> {}, started |-> FALSE]

Init ==
  /\ InitGen
  /\ hold = [t \in Threads |-> None]
  /\ miss = [t \in Threads |-> FALSE]
  /\ using = [t \in Threads |-> None]
  /\ lte = [v \in VPs |-> [r \in Refs |-> None]]
  /\ gte = [r \in Refs |-> FreeEntry]
  /\ root = [o \in Roots |-> None]
  /\ stage1 = [v \in VPs |-> [local |-> {}, remote |-> {}]]
  /\ delSets = [v \in VPs |-> [a \in 0 .. 2 |-> {}]]
  /\ tmpList = [v \in VPs |-> {}]
  /\ remList = [v \in VPs |-> {}]
  /\ vpCleanup = [v \in VPs |-> {}]
  /\ refLists = [v \in VPs |-> [waitL |-> {}, waitR |-> {}, reclaim |-> {}]]
  /\ xfer = [v \in VPs |-> {}]
  /\ token = [v \in VPs |-> IF v = 0 THEN 0 ELSE None]
  /\ seen = [v \in VPs |-> FALSE]
  /\ age = [v \in VPs |-> 0]
  /\ at = [v \in VPs |-> "idle"]

-----------------------------------------------------------------------------
(* Threads.                                                                *)

Activate(t) ==
  /\ activate(t)
  /\ UNCHANGED <<hold, miss, using, tableVars, listVars, ringVars, at>>

(* A thread that deactivates keeps neither references nor representatives. *)
Deactivate(t) ==
  /\ deactivate(t) /\ ~miss[t]
  /\ hold' = [hold EXCEPT ![t] = None]
  /\ using' = [using EXCEPT ![t] = None]
  /\ UNCHANGED <<miss, tableVars, listVars, ringVars, at>>

(* An active thread finds a reference in another object.  Objects give up  *)
(* their references to an object before they destroy it.                   *)
GetRef(t, r) ==
  /\ Active(t) /\ ~miss[t] /\ hold[t] # r
  /\ gte[r].mh # None /\ ~gte[r].destroying
  /\ hold' = [hold EXCEPT ![t] = r]
  /\ UNCHANGED <<gen, miss, using, tableVars, listVars, ringVars, at>>

(* The constructor of a root: alloc takes a free entry of the partition of *)
(* the caller's processor, initTransEntry fills it and clears its bits.    *)
Alloc(t, r, o) ==
  /\ Active(t) /\ ~miss[t]
  /\ HomeOf[r] = VPOf[t]
  /\ gte[r].mh = None /\ root[o] = None
  /\ gte' = [gte EXCEPT ![r] = [mh |-> o, destroying |-> FALSE]]
  /\ root' = [root EXCEPT ![o] = NewRoot(r)]
  /\ UNCHANGED <<threadVars, lte, listVars, ringVars, at>>

(* A call through the local entry.  The thread is taken to use the         *)
(* representative until it deactivates or calls another one.               *)
Call(t) ==
  /\ hold[t] # None /\ ~miss[t]
  /\ lte[VPOf[t]][hold[t]] \notin {None, using[t]}
  /\ using' = [using EXCEPT ![t] = lte[VPOf[t]][hold[t]]]
  /\ UNCHANGED <<gen, hold, miss, tableVars, listVars, ringVars, at>>

(* The default object's GenericDefaultFunc takes the read lock of the      *)
(* global entry; on a free or dying entry the call fails.                  *)
mhReadEntry(t) ==
  /\ hold[t] # None /\ ~miss[t]
  /\ lte[VPOf[t]][hold[t]] = None
  /\ gte[hold[t]].mh # None /\ ~gte[hold[t]].destroying
  /\ miss' = [miss EXCEPT ![t] = TRUE]
  /\ UNCHANGED <<gen, hold, using, tableVars, listVars, ringVars, at>>

(* handleMiss records the processor and installs the representative, then  *)
(* mhReadExit, then the call.                                              *)
HandleMiss(t) ==
  LET v == VPOf[t]
      o == gte[hold[t]].mh
  IN
  /\ miss[t]
  /\ root' = [root EXCEPT ![o].trans = @ \cup {v},
                          ![o].reps = IF o \in MultiRep THEN @ \cup {v} ELSE @]
  /\ lte' = [lte EXCEPT ![v][hold[t]] = o]
  /\ miss' = [miss EXCEPT ![t] = FALSE]
  /\ using' = [using EXCEPT ![t] = o]
  /\ UNCHANGED <<gen, hold, gte, listVars, ringVars, at>>

(* Mutant: mhDestroyEntry does not wait for the misses under way.           *)
NoMissAwaited(r) == r \in Refs

(* mhcount is zero: no thread of any processor is in the miss handler.     *)
NoMiss(r) == \A t \in Threads : ~(miss[t] /\ hold[t] = r)

(* destroyCO: mhDestroyEntry waits for the misses under way, then the      *)
(* object goes to the local or to the remote list of this processor.  A    *)
(* second destroyCO (DESTROYINPROGRESS) changes nothing.  Its one caller,  *)
(* BaseObj::destroyUnchecked, is a method of a representative, so that an  *)
(* object of many representatives has one by then.                         *)
DestroyCO(t) ==
  LET v == VPOf[t]
      o == gte[hold[t]].mh
  IN
  /\ hold[t] # None /\ ~miss[t]
  /\ o # None /\ ~gte[hold[t]].destroying
  /\ o \in MultiRep => root[o].trans # {}
  /\ NoMiss(hold[t])
  /\ gte' = [gte EXCEPT ![hold[t]].destroying = TRUE]
  /\ stage1' = IF root[o].trans \subseteq {v}
               THEN [stage1 EXCEPT ![v].local = @ \cup {o}]
               ELSE [stage1 EXCEPT ![v].remote = @ \cup {o}]
  /\ UNCHANGED <<threadVars, lte, root, delSets, tmpList, remList, vpCleanup,
                 refLists, xfer, ringVars, at>>

-----------------------------------------------------------------------------
(* checkCleanup on processor v, under the lock of its manager rep.  The    *)
(* daemon's steps are cut where another actor can come between; an         *)
(* updateTheGen is one step with the code that follows it, which touches   *)
(* nothing the other threads of v use.                                     *)

Older(n, a) == IF a + n > 2 THEN 2 ELSE a + n

(* Mutant: the age of the marker counts checks, not advances. *)
AgeOfChecks(v) == IF seen[v] THEN Older(1, age[v]) ELSE age[v]

AgeAfter(v) == IF seen[v] THEN Older(Advances(v), age[v]) ELSE age[v]

SetsAfter(v) ==
  LET d == delSets[v] IN
  CASE Advances(v) = 0 -> d
    [] Advances(v) = 1 -> [a \in 0 .. 2 |-> IF a = 0 THEN {} ELSE IF a = 1 THEN d[0]
                                            ELSE d[1] \cup d[2]]
    [] Advances(v) = 2 -> [a \in 0 .. 2 |-> IF a < 2 THEN {} ELSE UNION {d[b] : b \in 0 .. 2}]

UpdateTheGen(v) == \E late \in SUBSET On(v) : updateTheGen(v, late)

(* updateAndCheckVPThreadMarker, called by whoever waits for a marker.     *)
UpdateAndCheckVPThreadMarker(v) ==
  /\ at[v] = "idle"
  /\ UpdateTheGen(v)
  /\ delSets' = [delSets EXCEPT ![v] = SetsAfter(v)]
  /\ age' = [age EXCEPT ![v] = AgeAfter(v)]
  /\ UNCHANGED <<hold, miss, using, tableVars, stage1, tmpList, remList, vpCleanup,
                 refLists, xfer, token, seen, at>>

CreateNewLocalDeleteSet(v) ==
  /\ at[v] = "idle"
  /\ UpdateTheGen(v)
  /\ delSets' = [delSets EXCEPT ![v] = [SetsAfter(v) EXCEPT ![0] = @ \cup stage1[v].local]]
  /\ stage1' = [stage1 EXCEPT ![v].local = {}]
  /\ age' = [age EXCEPT ![v] = AgeAfter(v)]
  /\ at' = [at EXCEPT ![v] = "local"]
  /\ UNCHANGED <<hold, miss, using, tableVars, tmpList, remList, vpCleanup, refLists,
                 xfer, token, seen>>

(* One round of processLocalDeleteSets; it goes on while sets elapse.      *)
ProcessLocalDeleteSets(v) ==
  LET elapsed == SetsAfter(v)[2] IN
  /\ at[v] = "local"
  /\ UpdateTheGen(v)
  /\ delSets' = [delSets EXCEPT ![v] = [SetsAfter(v) EXCEPT ![2] = {}]]
  /\ tmpList' = [tmpList EXCEPT ![v] = @ \cup elapsed]
  /\ age' = [age EXCEPT ![v] = AgeAfter(v)]
  /\ at' = [at EXCEPT ![v] = IF elapsed # {} THEN "local"
                             ELSE IF tmpList[v] # {} THEN "clean"
                             ELSE IF vpCleanup[v] = {} /\ token[v] = None THEN "idle"
                             ELSE "vpclean"]
  /\ UNCHANGED <<hold, miss, using, tableVars, stage1, remList, vpCleanup, refLists,
                 xfer, token, seen>>

(* cleanup on v: a root is deleted with its last representative.           *)
Cleanup(o, v) ==
  IF root[o].reps \subseteq {v} THEN None
  ELSE [root[o] EXCEPT !.reps = @ \ {v}, !.started = TRUE]

(* STARTCLEANUP of the objects that were only ever called on v.            *)
CleanLocal(v) ==
  LET dead == {root[o].ref : o \in tmpList[v]} IN
  /\ at[v] = "clean"
  /\ refLists' = [refLists EXCEPT ![v].waitL = @ \cup {r \in dead : HomeOf[r] = v},
                                  ![v].waitR = @ \cup {r \in dead : HomeOf[r] # v}]
  /\ lte' = [lte EXCEPT ![v] = [r \in Refs |-> IF r \in dead THEN None ELSE @[r]]]
  /\ root' = [o \in Roots |-> IF o \in tmpList[v] THEN Cleanup(o, v) ELSE root[o]]
  /\ tmpList' = [tmpList EXCEPT ![v] = {}]
  /\ at' = [at EXCEPT ![v] = "vpclean"]
  /\ UNCHANGED <<threadVars, gte, stage1, delSets, remList, vpCleanup, xfer, ringVars>>

(* DOVPCLEANUP of the objects on vpCleanupList whose cleanup has started.  *)
DoVPCleanup(v) ==
  LET ready == {o \in vpCleanup[v] : root[o].started} IN
  /\ at[v] = "vpclean" /\ vpCleanup[v] # {}
  /\ root' = [o \in Roots |-> IF o \in ready THEN Cleanup(o, v) ELSE root[o]]
  /\ vpCleanup' = [vpCleanup EXCEPT ![v] = @ \ ready]
  /\ at' = [at EXCEPT ![v] = "token"]
  /\ UNCHANGED <<threadVars, lte, gte, stage1, delSets, tmpList, remList, refLists, xfer,
                 ringVars>>

(* Mutant: the token is looked for only after a DOVPCLEANUP.               *)
AtTokenIfCleaned(v) == at[v] = "token"

AtToken(v) == at[v] = "token" \/ (at[v] = "vpclean" /\ vpCleanup[v] = {})

HaveToken(v) ==
  /\ AtToken(v)
  /\ token[v] = None \/ seen[v]
  /\ at' = [at EXCEPT ![v] = IF token[v] = None THEN "idle" ELSE "remote"]
  /\ UNCHANGED <<threadVars, tableVars, listVars, ringVars>>

(* Mutant: references of this partition are deallocated without the second *)
(* round of the token.                                                     *)
NoteTokenOneRound(v) ==
  /\ AtToken(v) /\ token[v] # None /\ ~seen[v]
  /\ gte' = [r \in Refs |-> IF r \in refLists[v].reclaim \cup refLists[v].waitL
                            THEN FreeEntry ELSE gte[r]]
  /\ refLists' = [refLists EXCEPT ![v] = [waitL |-> {}, waitR |-> {}, reclaim |-> {}]]
  /\ xfer' = [xfer EXCEPT ![v] = {[root |-> None, ref |-> r, trans |-> {}, reps |-> {}]
                                    : r \in refLists[v].waitR}]
  /\ remList' = [remList EXCEPT ![v] = stage1[v].remote]
  /\ stage1' = [stage1 EXCEPT ![v].remote = {}]
  /\ age' = [age EXCEPT ![v] = 0]
  /\ seen' = [seen EXCEPT ![v] = TRUE]
  /\ at' = [at EXCEPT ![v] = "remote"]
  /\ UNCHANGED <<threadVars, lte, root, delSets, tmpList, vpCleanup, token>>

(* The token has arrived: deallocate the references that have waited for a *)
(* full round, start the wait of the others, and set the marker that must  *)
(* elapse before the token goes on.                                        *)
NoteToken(v) ==
  /\ AtToken(v) /\ token[v] # None /\ ~seen[v]
  /\ gte' = [r \in Refs |-> IF r \in refLists[v].reclaim THEN FreeEntry ELSE gte[r]]
  /\ refLists' = [refLists EXCEPT ![v] =
                    [waitL |-> {}, waitR |-> {}, reclaim |-> refLists[v].waitL]]
  /\ xfer' = [xfer EXCEPT ![v] = {[root |-> None, ref |-> r, trans |-> {}, reps |-> {}]
                                    : r \in refLists[v].waitR}]
  /\ remList' = [remList EXCEPT ![v] = stage1[v].remote]
  /\ stage1' = [stage1 EXCEPT ![v].remote = {}]
  /\ age' = [age EXCEPT ![v] = 0]
  /\ seen' = [seen EXCEPT ![v] = TRUE]
  /\ at' = [at EXCEPT ![v] = "remote"]
  /\ UNCHANGED <<threadVars, lte, root, delSets, tmpList, vpCleanup, token>>

(* processRemoteDeleteSet finds the marker still active.                   *)
KeepToken(v) ==
  /\ at[v] = "remote" /\ AgeAfter(v) < 2
  /\ UpdateTheGen(v)
  /\ delSets' = [delSets EXCEPT ![v] = SetsAfter(v)]
  /\ age' = [age EXCEPT ![v] = AgeAfter(v)]
  /\ at' = [at EXCEPT ![v] = "idle"]
  /\ UNCHANGED <<hold, miss, using, tableVars, stage1, tmpList, remList, vpCleanup,
                 refLists, xfer, token, seen>>

(* The TransferRecs to be handled on v: those of the objects destroyed     *)
(* here and those in the transferArray of the previous holder.             *)
Transferred(v) ==
  {[root |-> o, ref |-> root[o].ref, trans |-> root[o].trans, reps |-> root[o].reps]
     : o \in remList[v]}
  \cup (IF token[v] = v THEN {} ELSE xfer[token[v]])

(* Mutant: checkCleanupObj leaves the record of an object it has cleaned   *)
(* up for the next processor.                                              *)
PassedOnWithRoot(rec, v) ==
  [root  |-> rec.root,
   ref   |-> IF rec.ref # None /\ HomeOf[rec.ref] = v THEN None ELSE rec.ref,
   trans |-> rec.trans \ {v},
   reps  |-> IF v \in rec.trans THEN rec.reps \ {v} ELSE rec.reps]

(* A record after checkCleanupObj and the claiming of v's own references.  *)
PassedOn(rec, v) ==
  [root  |-> IF rec.trans \subseteq {v} THEN None ELSE rec.root,
   ref   |-> IF rec.ref # None /\ HomeOf[rec.ref] = v THEN None ELSE rec.ref,
   trans |-> rec.trans \ {v},
   reps  |-> IF v \in rec.trans THEN rec.reps \ {v} ELSE rec.reps]

(* The marker has elapsed: checkCleanupObj for every record with a         *)
(* translation on v, STARTCLEANUP for those with no other one left, and    *)
(* the token goes to the next processor.                                   *)
PassToken(v) ==
  LET recs == Transferred(v)
      here == {rec \in recs : v \in rec.trans}
      last == {rec.root : rec \in {x \in here : x.trans = {v}}}
      more == {rec.root : rec \in {x \in here : x.trans # {v} /\ v \in x.reps}}
      dead == {root[rec.root].ref : rec \in here}
  IN
  /\ at[v] = "remote" /\ AgeAfter(v) = 2
  /\ UpdateTheGen(v)
  /\ delSets' = [delSets EXCEPT ![v] = SetsAfter(v)]
  /\ refLists' = [refLists EXCEPT ![v].reclaim = @ \cup {r \in {rec.ref : rec \in recs} \ {None} :
                                                           HomeOf[r] = v}]
  /\ lte' = [lte EXCEPT ![v] = [r \in Refs |-> IF r \in dead THEN None ELSE @[r]]]
  /\ root' = [o \in Roots |-> IF o \in last THEN Cleanup(o, v) ELSE root[o]]
  /\ vpCleanup' = [vpCleanup EXCEPT ![v] = @ \cup more]
  /\ xfer' = [xfer EXCEPT ![v] = @ \cup {rec \in {PassedOn(x, v) : x \in recs} :
                                           rec.root # None \/ rec.ref # None}]
  /\ remList' = [remList EXCEPT ![v] = {}]
  /\ seen' = [seen EXCEPT ![v] = FALSE]
  /\ age' = [age EXCEPT ![v] = 0]
  /\ token' = [token EXCEPT ![v] = None, ![(v + 1) % N] = v]
  /\ at' = [at EXCEPT ![v] = "idle"]
  /\ UNCHANGED <<hold, miss, using, gte, stage1, tmpList>>

CheckCleanup(v) ==
  \/ CreateNewLocalDeleteSet(v) \/ ProcessLocalDeleteSets(v) \/ CleanLocal(v)
  \/ DoVPCleanup(v) \/ HaveToken(v) \/ NoteToken(v) \/ KeepToken(v) \/ PassToken(v)

ThreadStep(t) ==
  \/ Activate(t) \/ Deactivate(t) \/ Call(t) \/ mhReadEntry(t) \/ HandleMiss(t)
  \/ DestroyCO(t)
  \/ \E r \in Refs : GetRef(t, r) \/ \E o \in Roots : Alloc(t, r, o)

Next ==
  \/ \E t \in Threads : ThreadStep(t)
  \/ \E v \in VPs : CheckCleanup(v) \/ UpdateAndCheckVPThreadMarker(v)

(* The cleanup daemon of every processor runs again and again, and every   *)
(* activation of a thread comes to an end.  Each of these steps changes    *)
(* the variables of its subscript, so that it leaves no step out.          *)
Fairness ==
  /\ \A v \in VPs : WF_<<at, tmpList>>(CheckCleanup(v))
  /\ \A t \in Threads : WF_<<gen, miss>>(HandleMiss(t) \/ Deactivate(t))

Spec == Init /\ [][Next]_vars /\ Fairness

-----------------------------------------------------------------------------
(* No thread is left in a representative, or in the miss handler of a      *)
(* root, that cleanup has deleted: cleanup waits for two generations of    *)
(* the processors where the object was called, and destroyCO for misses.   *)
NoUseAfterCleanup ==
  \A t \in Threads :
    /\ using[t] # None =>
         /\ root[using[t]] # None
         /\ using[t] \in MultiRep => VPOf[t] \in root[using[t]].reps
    /\ miss[t] => root[gte[hold[t]].mh] # None

(* An entry goes back to the free list only when no processor's local      *)
(* entry leads to the old object ("allocating unfree lte" in               *)
(* initTransEntry) and no thread on any processor still holds the          *)
(* reference: two rounds of the token separate the two.                    *)
FreeRefUnused ==
  \A r \in Refs : gte[r].mh = None =>
    /\ \A v \in VPs : lte[v][r] = None
    /\ \A t \in Threads : hold[t] # r

(* The lists on which a destroyed object waits for its cleanup to start.   *)
Waiting(v) ==
  <<stage1[v].local, stage1[v].remote, UNION {delSets[v][a] : a \in 0 .. 2}, tmpList[v],
    remList[v],
    IF token[v] \in {None, v} THEN {} ELSE {rec.root : rec \in xfer[token[v]]} \ {None}>>

(* The manager itself never follows a pointer to a deleted root: whatever  *)
(* its lists and the transfer records still in circulation name is there,  *)
(* and an object waits in one list only, except that processors with a     *)
(* representative each keep it on their vpCleanupList.                     *)
ListedRootsAlive ==
  /\ \A v \in VPs : \A o \in vpCleanup[v] : root[o] # None /\ v \in root[o].reps
  /\ \A v \in VPs, i \in 1 .. 6 : \A o \in Waiting(v)[i] :
       /\ root[o] # None /\ ~root[o].started
       /\ \A u \in VPs, j \in 1 .. 6 : o \in Waiting(u)[j] => u = v /\ j = i

(* Every destroyed object's reference is given back in the end, however    *)
(* the token and the generations of the processors interleave.             *)
DestroyedIsReclaimed == \A r \in Refs : gte[r].destroying ~> ~gte[r].destroying

(* Seen from the markers alone, checkCleanup does what ThreadMarkers says: *)
(* token, seenToken, local markers and generations.  Here nobody sets a    *)
(* global marker; the users of one are in ThreadMarkers, where it only     *)
(* observes the token and changes nothing else.                            *)
Markers == INSTANCE ThreadMarkers WITH mark <- None, marked <- {}
ImplementsThreadMarkers == Markers!Init /\ [][Markers!Next]_Markers!vars
=============================================================================
