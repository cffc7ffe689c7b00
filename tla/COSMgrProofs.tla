---------------------------- MODULE COSMgrProofs ----------------------------
(***************************************************************************)
(* The clustered object manager deletes no representative a thread uses    *)
(* and reuses no reference a thread holds, for any number of processors,   *)
(* threads, references and objects; and it moves its markers as            *)
(* ThreadMarkers says.                                                     *)
(***************************************************************************)
EXTENDS COSMgr, TLAPS

Recs == [root : Roots \cup {None}, ref : Refs \cup {None}, trans : SUBSET VPs,
         reps : SUBSET VPs]
Places == {"idle", "local", "clean", "vpclean", "token", "remote"}

TypeOK ==
  /\ gen \in [Threads -> Gen]
  /\ hold \in [Threads -> Refs \cup {None}]
  /\ miss \in [Threads -> BOOLEAN]
  /\ using \in [Threads -> Roots \cup {None}]
  /\ lte \in [VPs -> [Refs -> Roots \cup {None}]]
  /\ gte \in [Refs -> [mh : Roots \cup {None}, destroying : BOOLEAN]]
  /\ root \in [Roots -> RootRecs \cup {None}]
  /\ stage1 \in [VPs -> [local : SUBSET Roots, remote : SUBSET Roots]]
  /\ delSets \in [VPs -> [0 .. 2 -> SUBSET Roots]]
  /\ tmpList \in [VPs -> SUBSET Roots]
  /\ remList \in [VPs -> SUBSET Roots]
  /\ vpCleanup \in [VPs -> SUBSET Roots]
  /\ refLists \in [VPs -> [waitL : SUBSET Refs, waitR : SUBSET Refs, reclaim : SUBSET Refs]]
  /\ xfer \in [VPs -> SUBSET Recs]
  /\ token \in [VPs -> VPs \cup {None}]
  /\ seen \in [VPs -> BOOLEAN]
  /\ age \in [VPs -> 0 .. 2]
  /\ at \in [VPs -> Places]

(* There is one token; what depends on it happens where it is.  The local  *)
(* delete sets of a processor have no object in common.                    *)
Shape ==
  /\ \A v, u \in VPs : token[v] # None /\ token[u] # None => u = v
  /\ \A v \in VPs : seen[v] => token[v] # None
  /\ \A v \in VPs : at[v] = "remote" => seen[v]
  /\ \A v \in VPs : remList[v] # {} => seen[v]
  /\ \A v \in VPs, a, b \in 0 .. 2 : a # b => delSets[v][a] \cap delSets[v][b] = {}

(* The records on their way with the token: the transferArray of the       *)
(* previous holder.                                                        *)
Arrived(h) == IF token[h] \in {None, h} THEN {} ELSE xfer[token[h]]
Circ == UNION {Arrived(h) : h \in VPs}

(* Where objects and references are on their way. *)
placeVars == <<stage1, delSets, tmpList, remList, refLists, xfer, token, seen>>

(* The cleanup of the object has not started. *)
Live(o) == root[o] # None /\ ~root[o].started

(* The places of a destroyed object, numbered as in Waiting, and the       *)
(* places of a reference on its way back to the free list.                 *)
In(o, k, v) ==
  \/ k = 1 /\ o \in stage1[v].local
  \/ k = 2 /\ o \in stage1[v].remote
  \/ k = 3 /\ \E a \in 0 .. 2 : o \in delSets[v][a]
  \/ k = 4 /\ o \in tmpList[v]
  \/ k = 5 /\ o \in remList[v]
  \/ k = 6 /\ \E rec \in Arrived(v) : rec.root = o

RefIn(r, k, v) ==
  \/ k = 1 /\ r \in refLists[v].waitL
  \/ k = 2 /\ r \in refLists[v].waitR
  \/ k = 3 /\ \E rec \in Arrived(v) : rec.ref = r
  \/ k = 4 /\ seen[v] /\ \E rec \in xfer[v] : rec.ref = r
  \/ k = 5 /\ r \in refLists[v].reclaim

(* The token, now on h, has been on w and left it since it left u. *)
Passed(u, w, h) ==
  IF u = h THEN ~seen[h]
  ELSE IF u < h THEN u =< w /\ w < h
  ELSE u =< w \/ w < h

(* Thread t is as far through its generations as the marker of its         *)
(* processor's token (and of its processor's delete sets) is old.          *)
Aged(t) ==
  seen[VPOf[t]] => /\ age[VPOf[t]] = 1 => gen[t] = "prev"
                   /\ age[VPOf[t]] # 2
SetAged(t, o) ==
  /\ o \in delSets[VPOf[t]][1] => gen[t] = "prev"
  /\ o \notin delSets[VPOf[t]][2]
  /\ o \notin tmpList[VPOf[t]]

MarkedObj(o) == \E v \in VPs : In(o, 5, v) \/ In(o, 6, v)
MarkedRef(r) == \E v \in VPs : RefIn(r, 3, v) \/ RefIn(r, 4, v) \/ RefIn(r, 5, v)

Refers(t, o) == using[t] = o \/ (Live(o) /\ hold[t] = root[o].ref)

-----------------------------------------------------------------------------
(* The inductive invariant. *)

GteInv ==
  \A r \in Refs :
    /\ gte[r].mh = None => ~gte[r].destroying
    /\ gte[r].mh # None /\ ~gte[r].destroying =>
         Live(gte[r].mh) /\ root[gte[r].mh].ref = r

RootInv ==
  \A o \in Roots : root[o] # None =>
    /\ root[o].reps \subseteq root[o].trans
    /\ o \in MultiRep /\ ~root[o].started => root[o].reps = root[o].trans
    /\ o \notin MultiRep => root[o].reps = {}
    /\ ~root[o].started =>
         /\ gte[root[o].ref].mh = o
         /\ gte[root[o].ref].destroying => \E k \in 1 .. 6, v \in VPs : In(o, k, v)

PlaceInv ==
  \A o \in Roots, k \in 1 .. 6, v \in VPs : In(o, k, v) =>
    /\ Live(o) /\ gte[root[o].ref].destroying
    /\ k \in {1, 3, 4} => root[o].trans \subseteq {v}
    /\ k \in {2, 5} => ~(root[o].trans \subseteq {v})
    /\ \A j \in 1 .. 6, u \in VPs : In(o, j, u) => j = k /\ u = v

VpInv ==
  \A v \in VPs : \A o \in vpCleanup[v] :
    /\ root[o] # None /\ v \in root[o].reps
    /\ ~root[o].started => \E rec \in Circ : rec.root = o /\ v \notin rec.trans

LteInv ==
  \A v \in VPs, r \in Refs : lte[v][r] # None =>
    /\ Live(lte[v][r]) /\ root[lte[v][r]].ref = r /\ v \in root[lte[v][r]].trans
    /\ \A rec \in Circ : rec.root = lte[v][r] => v \in rec.trans

(* A record in circulation: where its object may still be called, and that *)
(* its reference, once claimed, waits on the processor it belongs to.      *)
RecInv ==
  /\ \A rec \in Circ :
       /\ rec.root = None => rec.trans = {}
       /\ rec.root # None =>
            /\ rec.trans # {}
            /\ rec.trans \subseteq root[rec.root].trans
            /\ rec.reps = rec.trans \cap root[rec.root].reps
            /\ rec.ref # None => rec.ref = root[rec.root].ref
            /\ rec.ref = None => RefIn(root[rec.root].ref, 5, HomeOf[root[rec.root].ref])
       /\ \A x \in Circ : \/ x.root = rec.root /\ rec.root # None
                          \/ x.ref = rec.ref /\ rec.ref # None
                          => x = rec
  /\ \A v \in VPs : seen[v] =>
       \A rec \in xfer[v] : rec.root = None /\ rec.trans = {} /\ rec.reps = {}

RefInv ==
  \A r \in Refs, k \in 1 .. 5, v \in VPs : RefIn(r, k, v) =>
    /\ gte[r].destroying
    /\ k \in {1, 5} => HomeOf[r] = v
    /\ \A j \in 1 .. 5, u \in VPs : RefIn(r, j, u) => j = k /\ u = v
    /\ \A o \in Roots : Live(o) /\ root[o].ref = r =>
         k \in {3, 5} /\ \E u \in VPs : In(o, 6, u)

(* What has been claimed is left behind by the token. *)
ClaimInv ==
  \A u \in VPs, h \in VPs : token[h] # None =>
    \A r \in refLists[u].reclaim :
      /\ \A t \in Threads : hold[t] = r => ~Passed(u, VPOf[t], h)
      /\ \A rec \in Circ : rec.root # None /\ root[rec.root].ref = r =>
           \A w \in rec.trans : ~Passed(u, w, h)

ThreadOK(t) ==
  /\ hold[t] # None => Active(t) /\ gte[hold[t]].mh # None
  /\ hold[t] # None => (MarkedRef(hold[t]) => Aged(t))
  /\ using[t] # None =>
       /\ Active(t) /\ Live(using[t]) /\ VPOf[t] \in root[using[t]].trans
       /\ \A rec \in Circ : rec.root = using[t] => VPOf[t] \in rec.trans
  /\ miss[t] => hold[t] # None /\ gte[hold[t]].mh # None /\ ~gte[hold[t]].destroying
ThreadInv == \A t \in Threads : ThreadOK(t)

AgeInv ==
  \A t \in Threads, o \in Roots : Refers(t, o) =>
    SetAged(t, o) /\ (MarkedObj(o) => Aged(t))

IInv ==
  /\ TypeOK /\ Shape /\ GteInv /\ RootInv /\ PlaceInv /\ VpInv /\ LteInv /\ RecInv
  /\ RefInv /\ ClaimInv /\ ThreadInv /\ AgeInv

-----------------------------------------------------------------------------
(* The numbers that name the places and the ages of the delete sets. *)
LEMMA Kinds ==
  /\ 0 .. 2 = {0, 1, 2} /\ 1 .. 5 = {1, 2, 3, 4, 5} /\ 1 .. 6 = {1, 2, 3, 4, 5, 6}
  /\ 0 # 1 /\ 0 # 2 /\ 1 # 2 /\ 1 # 3 /\ 1 # 4 /\ 1 # 5 /\ 1 # 6 /\ 2 # 3 /\ 2 # 4 /\ 2 # 5
  /\ 2 # 6 /\ 3 # 4 /\ 3 # 5 /\ 3 # 6 /\ 4 # 5 /\ 4 # 6 /\ 5 # 6
  BY SMTT(30), Z3

(* What it is for an object to be in each of the places of In, before a    *)
(* step and after it.                                                      *)
LEMMA InAt ==
  \A o, v :
    /\ In(o, 1, v) <=> o \in stage1[v].local
    /\ In(o, 2, v) <=> o \in stage1[v].remote
    /\ In(o, 3, v) <=> o \in delSets[v][0] \/ o \in delSets[v][1] \/ o \in delSets[v][2]
    /\ In(o, 4, v) <=> o \in tmpList[v]
    /\ In(o, 5, v) <=> o \in remList[v]
    /\ In(o, 6, v) <=> \E rec \in Arrived(v) : rec.root = o
  BY SMTT(30), Z3 DEF In

LEMMA InAtNext ==
  \A o, v :
    /\ In(o, 1, v)' <=> o \in stage1'[v].local
    /\ In(o, 2, v)' <=> o \in stage1'[v].remote
    /\ In(o, 3, v)' <=> o \in delSets'[v][0] \/ o \in delSets'[v][1] \/ o \in delSets'[v][2]
    /\ In(o, 4, v)' <=> o \in tmpList'[v]
    /\ In(o, 5, v)' <=> o \in remList'[v]
    /\ In(o, 6, v)' <=> \E rec \in Arrived(v)' : rec.root = o
  BY SMTT(30), Z3 DEF In

(* The same for the places of a reference. *)
LEMMA RefInAt ==
  \A r, v :
    /\ RefIn(r, 1, v) <=> r \in refLists[v].waitL
    /\ RefIn(r, 2, v) <=> r \in refLists[v].waitR
    /\ RefIn(r, 3, v) <=> \E rec \in Arrived(v) : rec.ref = r
    /\ RefIn(r, 4, v) <=> seen[v] /\ \E rec \in xfer[v] : rec.ref = r
    /\ RefIn(r, 5, v) <=> r \in refLists[v].reclaim
  BY SMTT(30), Z3 DEF RefIn

LEMMA RefInAtNext ==
  \A r, v :
    /\ RefIn(r, 1, v)' <=> r \in refLists'[v].waitL
    /\ RefIn(r, 2, v)' <=> r \in refLists'[v].waitR
    /\ RefIn(r, 3, v)' <=> \E rec \in Arrived(v)' : rec.ref = r
    /\ RefIn(r, 4, v)' <=> seen'[v] /\ \E rec \in xfer'[v] : rec.ref = r
    /\ RefIn(r, 5, v)' <=> r \in refLists'[v].reclaim
  BY SMTT(30), Z3 DEF RefIn

(* Numbers of processors and None do not get confused. *)
LEMMA Facts ==
  /\ N \in Nat \ {0}
  /\ VPs \subseteq Nat
  /\ 0 \in VPs
  /\ None \notin VPs
  /\ \A v \in VPs : (v + 1) % N \in VPs
  /\ \A v \in VPs : (v + 1) % N = IF v = N - 1 THEN 0 ELSE v + 1
  /\ \A t \in Threads : VPOf[t] \in VPs
  /\ None \notin Refs /\ None \notin Roots /\ None \notin RootRecs
  /\ \A r \in Refs : HomeOf[r] \in VPs
  <1>1. N \in Nat \ {0} /\ VPs \subseteq Nat /\ 0 \in VPs /\ None \notin VPs
        /\ \A t \in Threads : VPOf[t] \in VPs
    BY NAssumption, VPOfAssumption, NoneAssumption, SMTT(30), Z3 DEF VPs
  <1>2. ASSUME NEW v \in VPs PROVE (v + 1) % N = IF v = N - 1 THEN 0 ELSE v + 1
    <2>1. v \in Nat /\ v < N
      BY NAssumption, SMTT(30), Z3 DEF VPs
    <2>2. CASE v = N - 1
      BY <2>1, <2>2, NAssumption, SMTT(30), Z3
    <2>3. CASE v # N - 1
      BY <2>1, <2>3, NAssumption, SMTT(30), Z3
    <2> QED BY <2>2, <2>3, Zenon
  <1>3. ASSUME NEW v \in VPs PROVE (v + 1) % N \in VPs
    BY <1>2, NAssumption, SMTT(30), Z3 DEF VPs
  <1>4. None \notin Refs /\ None \notin Roots /\ None \notin RootRecs
        /\ \A r \in Refs : HomeOf[r] \in VPs
    BY NullAssumption, HomeOfAssumption, Zenon
  <1> QED BY <1>1, <1>2, <1>3, <1>4, Zenon

(* updateTheGen leaves active threads active, and moves the threads of its *)
(* processor out of the current generation when it advances.               *)
LEMMA GenStep ==
  ASSUME gen \in [Threads -> Gen], NEW v \in VPs, UpdateTheGen(v)
  PROVE  /\ gen' \in [Threads -> Gen]
         /\ \A t \in Threads : gen[t] # "none" => gen'[t] # "none"
         /\ \A t \in Threads : VPOf[t] # v => gen'[t] = gen[t]
         /\ \A t \in Threads : VPOf[t] = v /\ gen[t] = "prev" => Advances(v) = 0 /\ gen'[t] = "prev"
         /\ \A t \in Threads : VPOf[t] = v /\ gen[t] = "cur" => Advances(v) \in {0, 1}
         /\ Advances(v) = 1 => \A t \in Threads : VPOf[t] = v /\ gen[t] # "none" => gen'[t] = "prev"
         /\ Advances(v) \in {0, 1, 2}
  <1>1. PICK late \in SUBSET On(v) : updateTheGen(v, late)
    BY Zenon DEF UpdateTheGen
  <1> QED BY <1>1, SMTT(30), Z3 DEF updateTheGen, On, Active, Gen, Advances

(* The age of the marker stays in its range. *)
LEMMA AgeType ==
  ASSUME NEW v \in VPs, age \in [VPs -> 0 .. 2]
  PROVE  AgeAfter(v) \in 0 .. 2
  <1>1. Advances(v) \in {0, 1, 2} /\ age[v] \in 0 .. 2
    BY Zenon DEF Advances
  <1> QED BY <1>1, SMTT(30), Z3 DEF AgeAfter, Older

-----------------------------------------------------------------------------
(* The markers. *)

RingTypes ==
  /\ gen \in [Threads -> Gen]
  /\ token \in [VPs -> VPs \cup {None}]
  /\ seen \in [VPs -> BOOLEAN]
  /\ age \in [VPs -> 0 .. 2]
  /\ at \in [VPs -> Places]

(* The token's deed is done only where the token has been noticed. *)
RemoteHasToken ==
  /\ RingTypes
  /\ \A v \in VPs : seen[v] => token[v] # None
  /\ \A v \in VPs : at[v] = "remote" => seen[v]

LEMMA RemoteInit == Init => RemoteHasToken
  BY Facts, SMTT(30), Z3 DEF Init, InitGen, RemoteHasToken, RingTypes, Gen, Places

LEMMA RemoteStep ==
  ASSUME RemoteHasToken, [Next]_vars PROVE RemoteHasToken'
  <1> USE DEF RemoteHasToken, RingTypes
  <1>1. ASSUME NEW t \in Threads, ThreadStep(t) PROVE RemoteHasToken'
    <2>1. ringVars' = ringVars /\ at' = at
      BY <1>1, Zenon DEF ThreadStep, Activate, Deactivate, Call, mhReadEntry, HandleMiss, DestroyCO,
                  GetRef, Alloc
    <2>2. gen' \in [Threads -> Gen]
      BY <1>1, Zenon DEF ThreadStep, Activate, Deactivate, Call, mhReadEntry, HandleMiss, DestroyCO,
                  GetRef, Alloc, activate, deactivate, Gen, threadVars
    <2> QED BY <2>1, <2>2, Zenon DEF ringVars
  <1>2. ASSUME NEW v \in VPs, CreateNewLocalDeleteSet(v) PROVE RemoteHasToken'
    BY <1>2, GenStep, AgeType, Zenon DEF CreateNewLocalDeleteSet, Places
  <1>3. ASSUME NEW v \in VPs, ProcessLocalDeleteSets(v) PROVE RemoteHasToken'
    BY <1>3, GenStep, AgeType, Zenon DEF ProcessLocalDeleteSets, Places
  <1>4. ASSUME NEW v \in VPs, CleanLocal(v) PROVE RemoteHasToken'
    BY <1>4, Zenon DEF CleanLocal, Places, ringVars, threadVars
  <1>5. ASSUME NEW v \in VPs, DoVPCleanup(v) PROVE RemoteHasToken'
    BY <1>5, Zenon DEF DoVPCleanup, Places, ringVars, threadVars
  <1>6. ASSUME NEW v \in VPs, HaveToken(v) PROVE RemoteHasToken'
    BY <1>6, Zenon DEF HaveToken, Places, ringVars, threadVars
  <1>7. ASSUME NEW v \in VPs, NoteToken(v) PROVE RemoteHasToken'
    BY <1>7, SMTT(30), Z3 DEF NoteToken, Places, threadVars
  <1>8. ASSUME NEW v \in VPs, KeepToken(v) PROVE RemoteHasToken'
    BY <1>8, GenStep, AgeType, Zenon DEF KeepToken, Places
  <1>9. ASSUME NEW v \in VPs, PassToken(v) PROVE RemoteHasToken'
    <2>1. UpdateTheGen(v) /\ seen' = [seen EXCEPT ![v] = FALSE]
          /\ age' = [age EXCEPT ![v] = 0] /\ at' = [at EXCEPT ![v] = "idle"]
          /\ token' = [token EXCEPT ![v] = None, ![(v + 1) % N] = v]
      BY <1>9, Zenon DEF PassToken
    <2>2. (v + 1) % N \in VPs /\ None \notin VPs
      BY Facts, Zenon
    <2> HIDE DEF RemoteHasToken
    <2>3. RingTypes'
      BY <2>1, <2>2, GenStep, SMTT(30), Z3 DEF Places, RemoteHasToken
    <2>4. \A u \in VPs : seen'[u] => token'[u] # None
      BY <2>1, <2>2, Zenon DEF RemoteHasToken
    <2>5. \A u \in VPs : at'[u] = "remote" => seen'[u]
      BY <2>1, Zenon DEF RemoteHasToken
    <2> QED BY <2>3, <2>4, <2>5, Zenon DEF RemoteHasToken
  <1>10. ASSUME NEW v \in VPs, UpdateAndCheckVPThreadMarker(v) PROVE RemoteHasToken'
    BY <1>10, GenStep, AgeType, Zenon DEF UpdateAndCheckVPThreadMarker
  <1>11. CASE UNCHANGED vars
    BY <1>11, Zenon DEF vars, threadVars, ringVars
  <1> HIDE DEF RemoteHasToken
  <1> QED BY <1>1, <1>2, <1>3, <1>4, <1>5, <1>6, <1>7, <1>8, <1>9, <1>10, <1>11, Zenon
          DEF Next, CheckCleanup

(* Every step of the object manager is a step of the markers or leaves     *)
(* them alone.                                                             *)
LEMMA MarkerStep ==
  ASSUME RemoteHasToken, [Next]_vars PROVE [Markers!Next]_(Markers!vars)
  <1> USE DEF Markers!vars
  <1>0. ASSUME UNCHANGED <<gen, token, seen, age>> PROVE [Markers!Next]_(Markers!vars)
    BY <1>0, Zenon
  <1>1. ASSUME NEW t \in Threads, ThreadStep(t) PROVE [Markers!Next]_(Markers!vars)
    <2>1. CASE Activate(t)
      <3>1. Markers!Activate(t)
        BY <2>1, Zenon DEF Activate, Markers!Activate, activate, Markers!activate, Active, Markers!Active,
                    ringVars
      <3> QED BY <3>1, Zenon DEF Markers!Next
    <2>2. CASE Deactivate(t)
      <3>1. Markers!Deactivate(t)
        BY <2>2, Zenon DEF Deactivate, Markers!Deactivate, deactivate, Markers!deactivate, Active,
                    Markers!Active, ringVars
      <3> QED BY <3>1, Zenon DEF Markers!Next
    <2>3. CASE ~Activate(t) /\ ~Deactivate(t)
      <3>1. UNCHANGED <<gen, token, seen, age>>
        BY <1>1, <2>3, Zenon DEF ThreadStep, Call, mhReadEntry, HandleMiss, DestroyCO, GetRef, Alloc,
                          ringVars, threadVars
      <3> QED BY <3>1, <1>0, Zenon
    <2> QED BY <2>1, <2>2, <2>3, Zenon
  <1>2. ASSUME NEW v \in VPs, UpdateTheGen(v), age' = [age EXCEPT ![v] = AgeAfter(v)],
               UNCHANGED <<token, seen>>
        PROVE  [Markers!Next]_(Markers!vars)
    <2>1. Markers!UpdateTheGen(v)
      BY <1>2, Zenon DEF Markers!UpdateTheGen, UpdateTheGen, updateTheGen, Markers!updateTheGen,
                  AgeAfter, Markers!AgeAfter, Older, Markers!Older, Advances, Markers!Advances,
                  On, Markers!On, Active, Markers!Active
    <2> QED BY <2>1, Zenon DEF Markers!Next, VPs, Markers!VPs
  <1>3. ASSUME NEW v \in VPs, NoteToken(v) PROVE [Markers!Next]_(Markers!vars)
    <2>1. Markers!NoteToken(v)
      BY <1>3, Zenon DEF NoteToken, Markers!NoteToken, threadVars
    <2> QED BY <2>1, Zenon DEF Markers!Next, VPs, Markers!VPs
  <1>4. ASSUME NEW v \in VPs, PassToken(v) PROVE [Markers!Next]_(Markers!vars)
    <2>1. UpdateTheGen(v) /\ AgeAfter(v) = 2 /\ seen' = [seen EXCEPT ![v] = FALSE]
          /\ age' = [age EXCEPT ![v] = 0]
          /\ token' = [token EXCEPT ![v] = None, ![(v + 1) % N] = v]
      BY <1>4, Zenon DEF PassToken
    <2>2. token[v] # None /\ seen[v]
      BY <1>4, Zenon DEF PassToken, RemoteHasToken
    <2>3. token' = [u \in Markers!VPs |-> IF u = (v + 1) % N THEN v
                                          ELSE IF u = v THEN None ELSE token[u]]
      BY <2>1, Facts, Zenon DEF RemoteHasToken, RingTypes, VPs, Markers!VPs
    <2>4. Markers!PassToken(v)
      BY <2>1, <2>2, <2>3, Zenon
         DEF Markers!PassToken, UpdateTheGen, updateTheGen, Markers!updateTheGen,
             AgeAfter, Markers!AgeAfter, Older, Markers!Older, Advances, Markers!Advances,
             On, Markers!On, Active, Markers!Active
    <2> QED BY <2>4, Zenon DEF Markers!Next, VPs, Markers!VPs
  <1>5. ASSUME NEW v \in VPs,
               \/ CreateNewLocalDeleteSet(v) \/ ProcessLocalDeleteSets(v) \/ KeepToken(v)
               \/ UpdateAndCheckVPThreadMarker(v)
        PROVE  [Markers!Next]_(Markers!vars)
    BY <1>2, <1>5, Zenon DEF CreateNewLocalDeleteSet, ProcessLocalDeleteSets, KeepToken,
                      UpdateAndCheckVPThreadMarker
  <1>6. ASSUME NEW v \in VPs, CleanLocal(v) \/ DoVPCleanup(v) \/ HaveToken(v)
        PROVE  [Markers!Next]_(Markers!vars)
    BY <1>0, <1>6, Zenon DEF CleanLocal, DoVPCleanup, HaveToken, ringVars, threadVars
  <1>7. CASE UNCHANGED vars
    BY <1>0, <1>7, Zenon DEF vars, threadVars, ringVars
  <1> QED BY <1>1, <1>3, <1>4, <1>5, <1>6, <1>7, Zenon DEF Next, CheckCleanup

(* Seen from the thread markers alone, the cleanup of objects does what    *)
(* ThreadMarkers specifies: every updateTheGen of checkCleanup counts in   *)
(* the age of the marker, and the token leaves a processor only when the   *)
(* marker set on its arrival has elapsed.                                  *)
THEOREM MarkersImplemented == Spec => ImplementsThreadMarkers
  <1>1. Init => Markers!Init
    BY Zenon DEF Init, InitGen, Markers!Init, Markers!InitGen, VPs, Markers!VPs
  <1>2. Init => RemoteHasToken
    BY RemoteInit, Zenon
  <1>3. RemoteHasToken /\ [Next]_vars => RemoteHasToken'
    BY RemoteStep, Zenon
  <1>4. RemoteHasToken /\ [Next]_vars => [Markers!Next]_(Markers!vars)
    BY MarkerStep, Zenon
  <1> QED BY <1>1, <1>2, <1>3, <1>4, PTL, Zenon DEF Spec, ImplementsThreadMarkers

-----------------------------------------------------------------------------
(* Cleanup.  What is where. *)

LEMMA RootType ==
  ASSUME TypeOK, NEW o \in Roots, root[o] # None
  PROVE  /\ root[o] \in RootRecs
         /\ root[o].ref \in Refs
         /\ root[o].trans \subseteq VPs /\ root[o].reps \subseteq VPs
         /\ root[o].started \in BOOLEAN
  <1>1. root[o] \in RootRecs
    BY Zenon DEF TypeOK
  <1> QED BY <1>1, Zenon DEF RootRecs

LEMMA CircType ==
  ASSUME TypeOK
  PROVE  /\ \A v \in VPs : Arrived(v) \subseteq Recs /\ Arrived(v) \subseteq Circ
         /\ Circ \subseteq Recs
         /\ \A rec \in Circ : \E v \in VPs : rec \in Arrived(v)
  <1>1. \A v \in VPs : Arrived(v) \subseteq Recs
    BY Zenon DEF TypeOK, Arrived
  <1> QED BY <1>1, Zenon DEF Circ

(* The steps that leave the lists alone leave everything where it is. *)
LEMMA SameLists ==
  ASSUME UNCHANGED placeVars
  PROVE  /\ \A o \in Roots, k \in 1 .. 6, v \in VPs : In(o, k, v)' <=> In(o, k, v)
         /\ \A r \in Refs, k \in 1 .. 5, v \in VPs : RefIn(r, k, v)' <=> RefIn(r, k, v)
         /\ \A r \in Refs : MarkedRef(r)' <=> MarkedRef(r)
         /\ \A o \in Roots : MarkedObj(o)' <=> MarkedObj(o)
         /\ \A u, w, h : Passed(u, w, h)' <=> Passed(u, w, h)
         /\ Circ' = Circ
  BY SMTT(30), Z3 DEF placeVars, In, RefIn, Arrived, Passed, MarkedRef, MarkedObj, Circ

(* What is said of the lists holds of the same lists when the tables keep  *)
(* what it says of the objects in them.                                    *)
LEMMA PlaceKept ==
  ASSUME PlaceInv, UNCHANGED placeVars,
         \A o \in Roots, k \in 1 .. 6, v \in VPs : In(o, k, v) =>
           Live(o)' /\ root'[o] = root[o] /\ gte'[root[o].ref].destroying
  PROVE  PlaceInv'
  <1> SUFFICES ASSUME NEW o \in Roots, NEW k \in 1 .. 6, NEW v \in VPs, In(o, k, v)'
               PROVE  /\ Live(o)' /\ gte'[root'[o].ref].destroying
                      /\ k \in {1, 3, 4} => root'[o].trans \subseteq {v}
                      /\ k \in {2, 5} => ~(root'[o].trans \subseteq {v})
                      /\ \A j \in 1 .. 6, u \in VPs : In(o, j, u)' => j = k /\ u = v
    BY Zenon DEF PlaceInv
  <1>1. \A j \in 1 .. 6, u \in VPs : In(o, j, u)' <=> In(o, j, u)
    BY SameLists, Zenon
  <1>2. Live(o)' /\ root'[o] = root[o] /\ gte'[root[o].ref].destroying
    BY <1>1, Zenon
  <1>3. /\ k \in {1, 3, 4} => root[o].trans \subseteq {v}
        /\ k \in {2, 5} => ~(root[o].trans \subseteq {v})
        /\ \A j \in 1 .. 6, u \in VPs : In(o, j, u) => j = k /\ u = v
    BY <1>1, Zenon DEF PlaceInv
  <1> QED BY <1>1, <1>2, <1>3, Zenon

LEMMA VpKept ==
  ASSUME VpInv, UNCHANGED placeVars, vpCleanup' = vpCleanup,
         \A v \in VPs : \A o \in vpCleanup[v] :
           root'[o] # None /\ root'[o].started = root[o].started /\ root[o].reps \subseteq root'[o].reps
  PROVE  VpInv'
  <1>1. UNCHANGED <<vpCleanup, Circ>>
    BY SameLists, Zenon
  <1> QED BY <1>1, SMTT(30), Z3 DEF VpInv

LEMMA LteSame ==
  ASSUME LteInv, Circ' = Circ, lte' = lte,
         \A v \in VPs, r \in Refs : lte[v][r] # None =>
           /\ Live(lte[v][r]) => Live(lte[v][r])'
           /\ root'[lte[v][r]].ref = root[lte[v][r]].ref
           /\ root[lte[v][r]].trans \subseteq root'[lte[v][r]].trans
  PROVE  LteInv'
  <1>2. ASSUME NEW v \in VPs, NEW r \in Refs, lte'[v][r] # None
        PROVE  /\ Live(lte[v][r])' /\ root'[lte'[v][r]].ref = r
               /\ v \in root'[lte'[v][r]].trans
               /\ \A rec \in Circ' : rec.root = lte'[v][r] => v \in rec.trans
    <2>1. /\ Live(lte[v][r]) /\ root[lte[v][r]].ref = r /\ v \in root[lte[v][r]].trans
          /\ \A rec \in Circ : rec.root = lte[v][r] => v \in rec.trans
      BY <1>2, Zenon DEF LteInv
    <2> QED BY <1>2, <2>1, Zenon
  <1> QED BY <1>2, Kinds, ZenonT(40) DEF LteInv

LEMMA LteKept ==
  ASSUME LteInv, UNCHANGED placeVars, lte' = lte,
         \A v \in VPs, r \in Refs : lte[v][r] # None =>
           /\ Live(lte[v][r]) => Live(lte[v][r])'
           /\ root'[lte[v][r]].ref = root[lte[v][r]].ref
           /\ root[lte[v][r]].trans \subseteq root'[lte[v][r]].trans
  PROVE  LteInv'
  <1>1. Circ' = Circ
    BY SameLists, Zenon
  <1> QED BY <1>1, LteSame, Zenon

LEMMA RecSame ==
  ASSUME RecInv, Circ' = Circ, xfer' = xfer, seen' = seen,
         \A rec \in Circ : rec.root # None =>
           /\ root'[rec.root] = root[rec.root]
           /\ RefIn(root[rec.root].ref, 5, HomeOf[root[rec.root].ref]) =>
                RefIn(root[rec.root].ref, 5, HomeOf[root[rec.root].ref])'
  PROVE  RecInv'
  <1>1. ASSUME NEW rec \in Circ, rec.root # None
        PROVE  /\ rec.trans # {}
               /\ rec.trans \subseteq root'[rec.root].trans
               /\ rec.reps = rec.trans \cap root'[rec.root].reps
               /\ rec.ref # None => rec.ref = root'[rec.root].ref
               /\ rec.ref = None => RefIn(root[rec.root].ref, 5, HomeOf[root[rec.root].ref])'
    <2>1. /\ rec.trans # {}
          /\ rec.trans \subseteq root[rec.root].trans
          /\ rec.reps = rec.trans \cap root[rec.root].reps
          /\ rec.ref # None => rec.ref = root[rec.root].ref
          /\ rec.ref = None => RefIn(root[rec.root].ref, 5, HomeOf[root[rec.root].ref])
      BY <1>1, Zenon DEF RecInv
    <2> QED BY <1>1, <2>1, Zenon
  <1> QED BY <1>1, Zenon DEF RecInv

LEMMA RecKept ==
  ASSUME RecInv, UNCHANGED placeVars,
         \A rec \in Circ : rec.root # None => root'[rec.root] = root[rec.root]
  PROVE  RecInv'
  <1>1. Circ' = Circ /\ xfer' = xfer /\ seen' = seen
    BY SameLists, Zenon DEF placeVars
  <1>2. \A rec \in Circ : rec.root # None =>
          (RefIn(root[rec.root].ref, 5, HomeOf[root[rec.root].ref]) =>
             RefIn(root[rec.root].ref, 5, HomeOf[root[rec.root].ref])')
    BY Kinds, Zenon DEF RefIn, placeVars
  <1> QED BY <1>1, <1>2, RecSame, Zenon

LEMMA ClaimKept ==
  ASSUME ClaimInv, UNCHANGED placeVars,
         \A rec \in Circ : rec.root # None => root'[rec.root].ref = root[rec.root].ref,
         \A u \in VPs : \A r \in refLists[u].reclaim : \A t \in Threads :
           hold'[t] = r => hold[t] = r
  PROVE  ClaimInv'
  <1>1. UNCHANGED <<Circ, refLists, token>>
    BY SameLists, Zenon DEF placeVars
  <1>2. \A u, w, h : Passed(u, w, h)' <=> Passed(u, w, h)
    BY SameLists, Zenon
  <1> QED BY <1>1, <1>2, SMTT(30), Z3 DEF ClaimInv

LEMMA RefSame ==
  ASSUME RefInv, gte' = gte,
         \A r \in Refs, k \in 1 .. 5, v \in VPs : RefIn(r, k, v)' <=> RefIn(r, k, v),
         \A o \in Roots, v \in VPs : In(o, 6, v)' <=> In(o, 6, v),
         \A o \in Roots : Live(o)' => Live(o) /\ root'[o] = root[o]
  PROVE  RefInv'
  <1> SUFFICES ASSUME NEW r \in Refs, NEW k \in 1 .. 5, NEW v \in VPs, RefIn(r, k, v)'
               PROVE  /\ gte'[r].destroying
                      /\ k \in {1, 5} => HomeOf[r] = v
                      /\ \A j \in 1 .. 5, u \in VPs : RefIn(r, j, u)' => j = k /\ u = v
                      /\ \A o \in Roots : Live(o)' /\ root'[o].ref = r =>
                           k \in {3, 5} /\ \E u \in VPs : In(o, 6, u)'
    BY Zenon DEF RefInv
  <1>1. \A j \in 1 .. 5, u \in VPs : RefIn(r, j, u)' <=> RefIn(r, j, u)
    BY Zenon
  <1>2. /\ gte[r].destroying
        /\ k \in {1, 5} => HomeOf[r] = v
        /\ \A j \in 1 .. 5, u \in VPs : RefIn(r, j, u) => j = k /\ u = v
        /\ \A o \in Roots : Live(o) /\ root[o].ref = r =>
             k \in {3, 5} /\ \E u \in VPs : In(o, 6, u)
    BY <1>1, Zenon DEF RefInv
  <1>4. ASSUME NEW o \in Roots, Live(o)', root'[o].ref = r
        PROVE  k \in {3, 5} /\ \E u \in VPs : In(o, 6, u)'
    <2>1. k \in {3, 5} /\ \E u \in VPs : In(o, 6, u)
      BY <1>2, <1>4, Zenon
    <2> QED BY <2>1, Zenon
  <1> QED BY <1>1, <1>2, <1>4, Zenon

LEMMA RefKept ==
  ASSUME RefInv, UNCHANGED placeVars, gte' = gte,
         \A o \in Roots : Live(o)' => Live(o) /\ root'[o] = root[o]
  PROVE  RefInv'
  <1>1. 6 \in 1 .. 6
    BY Kinds, Zenon
  <1> QED BY <1>1, SameLists, RefSame, Zenon

(* A thread in the miss handler, and a thread that holds a reference. *)
LEMMA HeldType ==
  ASSUME TypeOK, NEW t \in Threads
  PROVE  /\ hold[t] # None => hold[t] \in Refs
         /\ using[t] # None => using[t] \in Roots
         /\ VPOf[t] \in VPs
         /\ \A r \in Refs : gte[r].mh # None => gte[r].mh \in Roots
  BY Facts, Zenon DEF TypeOK

LEMMA InitInv == Init => IInv
  <1> SUFFICES ASSUME Init PROVE IInv
    BY Zenon
  <1>1. TypeOK
    BY Facts, Kinds, Zenon DEF Init, InitGen, TypeOK, Gen, Places, FreeEntry
  <1>2. Circ = {} /\ \A v \in VPs : Arrived(v) = {}
    BY Zenon DEF Init, Circ, Arrived
  <1>3. /\ \A o \in Roots, k \in 1 .. 6, v \in VPs : ~In(o, k, v)
        /\ \A r \in Refs, k \in 1 .. 5, v \in VPs : ~RefIn(r, k, v)
    BY <1>2, Zenon DEF Init, In, RefIn
  <1>4. Shape
    BY Zenon DEF Init, Shape
  <1>5. GteInv /\ RootInv /\ VpInv /\ LteInv /\ ClaimInv
    BY Zenon DEF Init, GteInv, RootInv, VpInv, LteInv, ClaimInv, FreeEntry
  <1>6. PlaceInv /\ RefInv
    BY <1>3, Zenon DEF PlaceInv, RefInv
  <1>7. RecInv
    BY <1>2, Zenon DEF Init, RecInv
  <1>8. ThreadInv
    BY Zenon DEF Init, ThreadInv, ThreadOK
  <1>9. AgeInv
    BY Facts, <1>1, Zenon DEF Init, AgeInv, Refers, Live
  <1> QED BY <1>1, <1>4, <1>5, <1>6, <1>7, <1>8, <1>9, Zenon DEF IInv

(* A step that changes neither tables nor lists keeps what is said of them. *)
LEMMA TablesKept ==
  ASSUME IInv, UNCHANGED <<tableVars, listVars, ringVars>>
  PROVE  /\ at' = at => Shape'
         /\ GteInv' /\ RootInv' /\ PlaceInv' /\ VpInv' /\ LteInv' /\ RecInv' /\ RefInv'
         /\ \A o \in Roots : Live(o)' <=> Live(o)
  <1>0. UNCHANGED placeVars
    BY Zenon DEF listVars, ringVars, placeVars
  <1>1. \A o \in Roots : Live(o)' <=> Live(o)
    BY Zenon DEF Live, tableVars
  <1>2. (at' = at => Shape') /\ VpInv' /\ LteInv'
    <2>1. at' = at => Shape'
      BY Zenon DEF IInv, Shape, listVars, ringVars
    <2>2. UNCHANGED <<lte, root, vpCleanup>>
      BY Zenon DEF tableVars, listVars
    <2>a. \A v \in VPs : \A o \in vpCleanup[v] : root[o] # None
      BY Zenon DEF IInv, VpInv
    <2>3. VpInv'
      BY <1>0, <2>2, <2>a, VpKept, Zenon DEF IInv
    <2>4. LteInv'
      BY <1>0, <2>2, LteKept, Zenon DEF IInv, Live
    <2> QED BY <2>1, <2>3, <2>4, Zenon
  <1>3. GteInv'
    BY Zenon DEF IInv, GteInv, tableVars, Live
  <1>4. RootInv'
    BY SameLists, <1>0, Kinds, Zenon DEF IInv, RootInv, tableVars
  <1>5. PlaceInv'
    BY PlaceKept, <1>0, <1>1, Zenon DEF IInv, PlaceInv, tableVars
  <1>6. RecInv'
    BY RecKept, <1>0, Zenon DEF IInv, tableVars
  <1>7. RefInv'
    BY SameLists, <1>0, SMTT(30), Z3 DEF IInv, RefInv, tableVars, Live
  <1> QED BY <1>1, <1>2, <1>3, <1>4, <1>5, <1>6, <1>7, Zenon

-----------------------------------------------------------------------------
(* The steps of threads. *)

(* What the marker's age says of a thread depends on its generation only. *)
LEMMA SameAge ==
  ASSUME UNCHANGED <<listVars, ringVars>>, NEW t \in Threads, gen'[t] = gen[t]
  PROVE  /\ Aged(t)' <=> Aged(t)
         /\ \A o \in Roots : SetAged(t, o)' <=> SetAged(t, o)
  BY Zenon DEF Aged, SetAged, listVars, ringVars

(* A thread that is not active has no references; one that becomes active  *)
(* is in no one's way.                                                     *)
LEMMA ActivateInv == ASSUME IInv, NEW t \in Threads, Activate(t) PROVE IInv'
  <1>0. /\ UNCHANGED <<tableVars, listVars, ringVars, at>> /\ UNCHANGED placeVars
        /\ UNCHANGED <<hold, miss, using>>
        /\ gen' = [gen EXCEPT ![t] = "cur"] /\ ~Active(t)
    BY Zenon DEF Activate, activate, listVars, ringVars, placeVars
  <1>1. TypeOK'
    BY <1>0, Zenon DEF IInv, TypeOK, Gen, tableVars, listVars, ringVars
  <1>2. hold[t] = None /\ using[t] = None
    BY <1>0, Zenon DEF IInv, ThreadInv, ThreadOK
  <1>3. \A s \in Threads : s # t => gen'[s] = gen[s]
    BY <1>0, Zenon DEF IInv, TypeOK
  <1>4. ClaimInv'
    BY <1>0, ClaimKept, Zenon DEF IInv, tableVars
  <1>5. ThreadInv'
    <2> SUFFICES ASSUME NEW s \in Threads PROVE ThreadOK(s)'
      BY Zenon DEF ThreadInv
    <2>1. CASE s = t
      BY <2>1, <1>2, <1>0, Zenon DEF IInv, ThreadInv, ThreadOK
    <2>2. CASE s # t
      <3>1. Aged(s)' <=> Aged(s)
        BY <1>0, <1>3, <2>2, SameAge, Zenon
      <3>2. Active(s)' <=> Active(s)
        BY <1>3, <2>2, Zenon DEF Active
      <3> QED BY <1>0, <3>1, <3>2, SameLists, TablesKept, HeldType, Zenon DEF IInv, ThreadInv, ThreadOK, tableVars
    <2> QED BY <2>1, <2>2, Zenon
  <1>6. AgeInv'
    <2> SUFFICES ASSUME NEW s \in Threads, NEW o \in Roots, Refers(s, o)'
                 PROVE  SetAged(s, o)' /\ (MarkedObj(o)' => Aged(s)')
      BY Zenon DEF AgeInv
    <2>1. Refers(s, o)
      BY <1>0, Zenon DEF Refers, Live, tableVars
    <2>2. s # t
      BY <2>1, <1>2, Facts, RootType, Zenon DEF IInv, Refers, Live
    <2> QED BY <1>0, <2>1, <2>2, <1>3, SameAge, SameLists, Zenon DEF IInv, AgeInv
  <1> QED BY <1>0, <1>1, <1>4, <1>5, <1>6, TablesKept, Zenon DEF IInv

(* An object that is not being destroyed is in no list, and its reference  *)
(* in none of those of dead references.                                    *)
LEMMA NotDestroyed ==
  ASSUME IInv, NEW r \in Refs, ~gte[r].destroying
  PROVE  /\ ~MarkedRef(r) /\ \A k \in 1 .. 5, v \in VPs : ~RefIn(r, k, v)
         /\ \A v \in VPs : r \notin refLists[v].reclaim
         /\ \A o \in Roots : Live(o) /\ root[o].ref = r =>
              /\ ~MarkedObj(o)
              /\ \A k \in 1 .. 6, v \in VPs : ~In(o, k, v)
              /\ \A rec \in Circ : rec.root # o
              /\ \A t \in Threads : SetAged(t, o)
  <1>1. \A k \in 1 .. 5, v \in VPs : ~RefIn(r, k, v)
    BY Zenon DEF IInv, RefInv
  <1>2. \A v \in VPs : r \notin refLists[v].reclaim
    BY <1>1, Kinds, Zenon DEF RefIn
  <1>3. ASSUME NEW o \in Roots, Live(o), root[o].ref = r
        PROVE  \A k \in 1 .. 6, v \in VPs : ~In(o, k, v)
    BY <1>3, Zenon DEF IInv, PlaceInv
  <1>4. ASSUME NEW o \in Roots, \A k \in 1 .. 6, v \in VPs : ~In(o, k, v)
        PROVE  /\ ~MarkedObj(o) /\ \A rec \in Circ : rec.root # o
               /\ \A t \in Threads : SetAged(t, o)
    <2>1. ~MarkedObj(o)
      BY <1>4, Kinds, Zenon DEF MarkedObj
    <2>2. \A v \in VPs : ~In(o, 3, v) /\ ~In(o, 4, v) /\ ~In(o, 6, v)
      BY <1>4, Kinds, Zenon
    <2>3. \A rec \in Circ : rec.root # o
      BY <2>2, CircType, Zenon DEF IInv, In
    <2>4. \A t \in Threads : SetAged(t, o)
      <3>1. 1 \in 0 .. 2 /\ 2 \in 0 .. 2
        BY Kinds, Zenon
      <3> QED BY <2>2, <3>1, Facts, Zenon DEF In, SetAged
    <2> QED BY <2>1, <2>3, <2>4, Zenon
  <1> QED BY <1>1, <1>2, <1>3, <1>4, Kinds, Zenon DEF MarkedRef

LEMMA DeactivateInv == ASSUME IInv, NEW t \in Threads, Deactivate(t) PROVE IInv'
  <1>0. /\ UNCHANGED <<tableVars, listVars, ringVars, at>> /\ UNCHANGED placeVars
        /\ miss' = miss /\ ~miss[t] /\ hold' = [hold EXCEPT ![t] = None]
        /\ using' = [using EXCEPT ![t] = None]
        /\ gen' = [gen EXCEPT ![t] = "none"]
    BY Zenon DEF Deactivate, deactivate, listVars, ringVars, placeVars
  <1>1. TypeOK'
    BY <1>0, Zenon DEF IInv, TypeOK, Gen, tableVars, listVars, ringVars
  <1>2. hold'[t] = None /\ using'[t] = None /\ ~miss'[t]
    BY <1>0, Zenon DEF IInv, TypeOK
  <1>3. \A s \in Threads : s # t => gen'[s] = gen[s] /\ hold'[s] = hold[s] /\ using'[s] = using[s]
    BY <1>0, Zenon DEF IInv, TypeOK
  <1>4. ClaimInv'
    <2>1. \A s \in Threads : \A r \in Refs : hold'[s] = r => hold[s] = r
      BY <1>2, <1>3, Facts, Zenon
    <2>2. \A u \in VPs : refLists[u].reclaim \subseteq Refs
      BY Zenon DEF IInv, TypeOK
    <2> QED BY <1>0, <2>1, <2>2, ClaimKept, Zenon DEF IInv, tableVars
  <1>5. ThreadInv'
    <2> SUFFICES ASSUME NEW s \in Threads PROVE ThreadOK(s)'
      BY Zenon DEF ThreadInv
    <2>1. CASE s = t
      BY <2>1, <1>2, Zenon DEF ThreadOK
    <2>2. CASE s # t
      <3>1. Aged(s)' <=> Aged(s)
        BY <1>0, <1>3, <2>2, SameAge, Zenon
      <3>2. Active(s)' <=> Active(s)
        BY <1>3, <2>2, Zenon DEF Active
      <3> QED BY <1>0, <1>3, <2>2, <3>1, <3>2, SameLists, TablesKept, HeldType, ZenonT(40)
              DEF IInv, ThreadInv, ThreadOK, tableVars
    <2> QED BY <2>1, <2>2, Zenon
  <1>6. AgeInv'
    <2> SUFFICES ASSUME NEW s \in Threads, NEW o \in Roots, Refers(s, o)'
                 PROVE  SetAged(s, o)' /\ (MarkedObj(o)' => Aged(s)')
      BY Zenon DEF AgeInv
    <2>1. s # t
      BY <1>0, <1>1, <1>2, Facts, RootType, ZenonT(40) DEF IInv, Refers, Live, tableVars
    <2>2. Refers(s, o)
      BY <1>0, <1>3, <2>1, Zenon DEF Refers, Live, tableVars
    <2> QED BY <1>0, <2>1, <2>2, <1>3, SameAge, SameLists, Zenon DEF IInv, AgeInv
  <1> QED BY <1>0, <1>1, <1>4, <1>5, <1>6, TablesKept, Zenon DEF IInv

(* A reference that can be found belongs to an object in use. *)
LEMMA GetRefInv ==
  ASSUME IInv, NEW t \in Threads, NEW r \in Refs, GetRef(t, r) PROVE IInv'
  <1>0. /\ UNCHANGED <<tableVars, listVars, ringVars, at>> /\ UNCHANGED placeVars
        /\ UNCHANGED <<gen, miss, using>> /\ Active(t) /\ ~miss[t]
        /\ gte[r].mh # None /\ ~gte[r].destroying
        /\ hold' = [hold EXCEPT ![t] = r]
    BY Zenon DEF GetRef, listVars, ringVars, placeVars
  <1>1. TypeOK'
    BY <1>0, Zenon DEF IInv, TypeOK, tableVars, listVars, ringVars
  <1>2. hold'[t] = r /\ \A s \in Threads : s # t => hold'[s] = hold[s]
    BY <1>0, Zenon DEF IInv, TypeOK
  <1>3. \A s \in Threads : Aged(s)' <=> Aged(s)
    BY <1>0, SameAge, Zenon
  <1>4. ClaimInv'
    <2>1. \A u \in VPs : \A x \in refLists[u].reclaim : \A s \in Threads :
            hold'[s] = x => hold[s] = x
      BY <1>0, <1>2, NotDestroyed, Zenon
    <2> QED BY <1>0, <2>1, ClaimKept, Zenon DEF IInv, tableVars
  <1>5. ThreadInv'
    <2> SUFFICES ASSUME NEW s \in Threads PROVE ThreadOK(s)'
      BY Zenon DEF ThreadInv
    <2>0. Active(s)' <=> Active(s)
      BY <1>0, Zenon DEF Active
    <2>1. CASE s = t
      <3>1. ~MarkedRef(hold[t])'
        BY <1>0, <1>2, NotDestroyed, SameLists, ZenonT(40)
      <3> QED BY <1>0, <1>2, <2>0, <2>1, <3>1, SameLists, TablesKept, HeldType, Zenon
              DEF IInv, ThreadInv, ThreadOK, tableVars
    <2>2. CASE s # t
      BY <1>0, <1>2, <1>3, <2>0, <2>2, SameLists, TablesKept, HeldType, Zenon
         DEF IInv, ThreadInv, ThreadOK, tableVars
    <2> QED BY <2>1, <2>2, Zenon
  <1>6. AgeInv'
    <2> SUFFICES ASSUME NEW s \in Threads, NEW o \in Roots, Refers(s, o)'
                 PROVE  SetAged(s, o)' /\ (MarkedObj(o)' => Aged(s)')
      BY Zenon DEF AgeInv
    <2>0. (SetAged(s, o)' <=> SetAged(s, o)) /\ (MarkedObj(o)' <=> MarkedObj(o))
      BY <1>0, SameAge, SameLists, Zenon
    <2>1. CASE Refers(s, o)
      BY <1>3, <2>0, <2>1, Zenon DEF IInv, AgeInv
    <2>2. CASE ~Refers(s, o)
      <3>1. Live(o) /\ root[o].ref = r
        BY <1>0, <1>2, <2>2, Zenon DEF Refers, Live, tableVars
      <3> QED BY <1>0, <2>0, <3>1, NotDestroyed, Zenon
    <2> QED BY <2>1, <2>2, Zenon
  <1> QED BY <1>0, <1>1, <1>4, <1>5, <1>6, TablesKept, Zenon DEF IInv

(* A call reaches an object through the reference the thread holds. *)
LEMMA CallInv == ASSUME IInv, NEW t \in Threads, Call(t) PROVE IInv'
  <1> DEFINE o == lte[VPOf[t]][hold[t]]
  <1>0. /\ UNCHANGED <<tableVars, listVars, ringVars, at>> /\ UNCHANGED placeVars
        /\ UNCHANGED <<gen, hold, miss>> /\ hold[t] # None /\ o # None
        /\ using' = [using EXCEPT ![t] = o]
    BY Zenon DEF Call, listVars, ringVars, placeVars
  <1>1. hold[t] \in Refs /\ VPOf[t] \in VPs /\ o \in Roots
    BY <1>0, HeldType, SMTT(30), Z3 DEF IInv, TypeOK
  <1>2. TypeOK'
    BY <1>0, <1>1, Zenon DEF IInv, TypeOK, tableVars, listVars, ringVars
  <1>3. using'[t] = o /\ \A s \in Threads : s # t => using'[s] = using[s]
    BY <1>0, Zenon DEF IInv, TypeOK
  <1>4. \A s \in Threads : Aged(s)' <=> Aged(s)
    BY <1>0, SameAge, Zenon
  <1>5. ClaimInv'
    BY <1>0, ClaimKept, Zenon DEF IInv, tableVars
  <1>6. /\ Live(o) /\ root[o].ref = hold[t] /\ VPOf[t] \in root[o].trans
        /\ \A rec \in Circ : rec.root = o => VPOf[t] \in rec.trans
    BY <1>0, <1>1, Zenon DEF IInv, LteInv
  <1>7. ThreadInv'
    <2> SUFFICES ASSUME NEW s \in Threads PROVE ThreadOK(s)'
      BY Zenon DEF ThreadInv
    <2>0. Active(s)' <=> Active(s)
      BY <1>0, Zenon DEF Active
    <2>1. CASE s = t
      <3>1. using'[t] \in Roots /\ Live(using[t])' /\ VPOf[t] \in root'[using'[t]].trans
            /\ \A rec \in Circ' : rec.root = using'[t] => VPOf[t] \in rec.trans
        BY <1>0, <1>1, <1>3, <1>6, SameLists, Zenon DEF Live, tableVars
      <3> QED BY <1>0, <1>1, <1>4, <2>0, <2>1, <3>1, SameLists, Zenon
              DEF IInv, ThreadInv, ThreadOK, tableVars
    <2>2. CASE s # t
      BY <1>0, <1>3, <1>4, <2>0, <2>2, SameLists, TablesKept, HeldType, Zenon
         DEF IInv, ThreadInv, ThreadOK, tableVars
    <2> QED BY <2>1, <2>2, Zenon
  <1>8. AgeInv'
    <2> SUFFICES ASSUME NEW s \in Threads, NEW x \in Roots, Refers(s, x)'
                 PROVE  SetAged(s, x)' /\ (MarkedObj(x)' => Aged(s)')
      BY Zenon DEF AgeInv
    <2>0. (SetAged(s, x)' <=> SetAged(s, x)) /\ (MarkedObj(x)' <=> MarkedObj(x))
      BY <1>0, SameAge, SameLists, Zenon
    <2>1. Refers(s, x)
      BY <1>0, <1>3, <1>6, Zenon DEF Refers, Live, tableVars
    <2> QED BY <1>4, <2>0, <2>1, Zenon DEF IInv, AgeInv
  <1> QED BY <1>0, <1>2, <1>5, <1>7, <1>8, TablesKept, Zenon DEF IInv

(* A miss that is let in finds the entry of a living object. *)
LEMMA mhReadEntryInv == ASSUME IInv, NEW t \in Threads, mhReadEntry(t) PROVE IInv'
  <1>0. /\ UNCHANGED <<tableVars, listVars, ringVars, at>> /\ UNCHANGED placeVars
        /\ UNCHANGED <<gen, hold, using>> /\ hold[t] # None
        /\ gte[hold[t]].mh # None /\ ~gte[hold[t]].destroying
        /\ miss' = [miss EXCEPT ![t] = TRUE]
    BY Zenon DEF mhReadEntry, listVars, ringVars, placeVars
  <1>1. TypeOK'
    BY <1>0, Zenon DEF IInv, TypeOK, tableVars, listVars, ringVars
  <1>2. \A s \in Threads : Aged(s)' <=> Aged(s)
    BY <1>0, SameAge, Zenon
  <1>3. ClaimInv'
    BY <1>0, ClaimKept, Zenon DEF IInv, tableVars
  <1>4. ThreadInv'
    <2> SUFFICES ASSUME NEW s \in Threads PROVE ThreadOK(s)'
      BY Zenon DEF ThreadInv
    <2>0. (Active(s)' <=> Active(s)) /\ (miss'[s] => s = t \/ miss[s])
      BY <1>0, Zenon DEF Active, IInv, TypeOK
    <2> QED BY <1>0, <1>2, <2>0, SameLists, TablesKept, HeldType, Zenon
            DEF IInv, ThreadInv, ThreadOK, tableVars
  <1>5. AgeInv'
    BY <1>0, <1>2, SameAge, SameLists, TablesKept, Zenon DEF IInv, AgeInv, Refers, tableVars
  <1> QED BY <1>0, <1>1, <1>3, <1>4, <1>5, TablesKept, Zenon DEF IInv

(* A free entry and a free root are mentioned nowhere. *)
LEMMA AllocInv ==
  ASSUME IInv, NEW t \in Threads, NEW r \in Refs, NEW o \in Roots, Alloc(t, r, o) PROVE IInv'
  <1>0. /\ UNCHANGED <<listVars, ringVars, at>> /\ UNCHANGED placeVars
        /\ UNCHANGED <<gen, hold, miss, using, lte>>
        /\ gte[r].mh = None /\ root[o] = None
        /\ gte' = [gte EXCEPT ![r] = [mh |-> o, destroying |-> FALSE]]
        /\ root' = [root EXCEPT ![o] = NewRoot(r)]
    BY Zenon DEF Alloc, listVars, ringVars, threadVars, placeVars
  <1> USE <1>0
  <1>t. TypeOK
    BY Zenon DEF IInv
  <1>1. NewRoot(r) \in RootRecs
    BY Zenon DEF NewRoot, RootRecs
  <1>2. /\ gte'[r] = [mh |-> o, destroying |-> FALSE] /\ \A q \in Refs : q # r => gte'[q] = gte[q]
        /\ root'[o] = NewRoot(r) /\ \A x \in Roots : x # o => root'[x] = root[x]
    BY <1>t, Zenon DEF TypeOK
  <1>3. TypeOK'
    <2>1. gte' \in [Refs -> [mh : Roots \cup {None}, destroying : BOOLEAN]]
      BY <1>t, Zenon DEF TypeOK
    <2>2. root' \in [Roots -> RootRecs \cup {None}]
      BY <1>t, <1>1, Zenon DEF TypeOK
    <2> QED BY <1>t, <2>1, <2>2, Zenon DEF TypeOK, listVars, ringVars
  <1>4. ~gte[r].destroying
    BY Zenon DEF IInv, GteInv
  <1>5. /\ ~Live(o)
        /\ \A x \in Roots : Live(x) => x # o /\ root[x].ref \in Refs /\ root[x].ref # r
    BY <1>t, RootType, Facts, SMTT(30), Z3 DEF IInv, RootInv, Live
  <1>6. /\ Live(o)' /\ root'[o].ref = r /\ root'[o].trans = {} /\ root'[o].reps = {}
        /\ ~root'[o].started /\ root'[o] # None
        /\ \A x \in Roots : x # o => (Live(x)' <=> Live(x))
    <2>1. root'[o] # None
      BY <1>1, <1>2, Facts, Zenon
    <2>2. root'[o].ref = r /\ root'[o].trans = {} /\ root'[o].reps = {} /\ ~root'[o].started
      BY <1>2, SMTT(30), Z3 DEF NewRoot
    <2> QED BY <1>2, <2>1, <2>2, Zenon DEF Live
  <1>7. /\ \A k \in 1 .. 6, v \in VPs : ~In(o, k, v)
        /\ \A v \in VPs : o \notin vpCleanup[v]
        /\ \A v \in VPs, q \in Refs : lte[v][q] # o
        /\ \A s \in Threads : using[s] # o
    <2>1. \A k \in 1 .. 6, v \in VPs : ~In(o, k, v)
      BY <1>5, Zenon DEF IInv, PlaceInv
    <2>2. \A v \in VPs, q \in Refs : lte[v][q] # o
      BY <1>5, Facts, Kinds, Zenon DEF IInv, LteInv
    <2>3. \A s \in Threads : using[s] # o
      BY <1>5, Facts, Zenon DEF IInv, ThreadInv, ThreadOK
    <2>4. \A v \in VPs : o \notin vpCleanup[v]
      BY Zenon DEF IInv, VpInv
    <2> QED BY <2>1, <2>2, <2>3, <2>4, Zenon
  <1>8. \A rec \in Circ : rec.root # o
    BY <1>t, <1>7, CircType, Kinds, Zenon DEF In
  <1>9. Shape'
    BY Zenon DEF IInv, Shape, listVars, ringVars
  <1>10. GteInv'
    <2> SUFFICES ASSUME NEW q \in Refs
                 PROVE  /\ gte'[q].mh = None => ~gte'[q].destroying
                        /\ gte'[q].mh # None /\ ~gte'[q].destroying =>
                             Live(gte[q].mh)' /\ root'[gte'[q].mh].ref = q
      BY Zenon DEF GteInv
    <2>1. CASE q = r
      BY <2>1, <1>2, <1>6, SMTT(30), Z3
    <2>2. CASE q # r
      <3>1. gte'[q] = gte[q]
        BY <2>2, <1>2, Zenon
      <3>2. gte[q].mh # None => gte[q].mh \in Roots
        BY <1>t, HeldType, Zenon
      <3>3. gte[q].mh = None => ~gte[q].destroying
        BY Zenon DEF IInv, GteInv
      <3>4. gte[q].mh # None /\ ~gte[q].destroying => Live(gte[q].mh) /\ root[gte[q].mh].ref = q
        BY Zenon DEF IInv, GteInv
      <3> QED BY <1>2, <1>5, <1>6, <3>1, <3>2, <3>3, <3>4, Zenon
    <2> QED BY <2>1, <2>2, Zenon
  <1>11. RootInv'
    <2> SUFFICES ASSUME NEW x \in Roots, root'[x] # None
                 PROVE  /\ root'[x].reps \subseteq root'[x].trans
                        /\ x \in MultiRep /\ ~root'[x].started => root'[x].reps = root'[x].trans
                        /\ x \notin MultiRep => root'[x].reps = {}
                        /\ ~root'[x].started =>
                             /\ gte'[root'[x].ref].mh = x
                             /\ gte'[root'[x].ref].destroying =>
                                  \E k \in 1 .. 6, v \in VPs : In(x, k, v)'
      BY Zenon DEF RootInv
    <2>1. CASE x = o
      BY <2>1, <1>2, <1>6, SMTT(30), Z3
    <2>2. CASE x # o
      <3>1. root'[x] = root[x]
        BY <2>2, <1>2, Zenon
      <3>2. ~root[x].started => gte'[root[x].ref] = gte[root[x].ref]
        BY <1>2, <1>5, <3>1, Zenon DEF Live
      <3> QED BY <3>1, <3>2, SameLists, SMTT(30), Z3 DEF IInv, RootInv
    <2> QED BY <2>1, <2>2, Zenon
  <1>12. PlaceInv'
    <2>1. ASSUME NEW x \in Roots, NEW k \in 1 .. 6, NEW v \in VPs, In(x, k, v)
          PROVE  Live(x)' /\ root'[x] = root[x] /\ gte'[root[x].ref].destroying
      <3>1. x # o
        BY <2>1, <1>7, Zenon
      <3>2. Live(x) /\ gte[root[x].ref].destroying
        BY <2>1, Zenon DEF IInv, PlaceInv
      <3> QED BY <3>1, <3>2, <1>2, <1>5, <1>6, Zenon
    <2>2. PlaceInv
      BY Zenon DEF IInv
    <2> QED BY <2>1, <2>2, PlaceKept, Zenon
  <1>13. VpInv'
    <2>1. \A v \in VPs : \A x \in vpCleanup[v] : x \in Roots /\ x # o /\ root[x] # None
      BY <1>t, <1>7, ZenonT(40) DEF IInv, VpInv, TypeOK
    <2>2. VpInv
      BY Zenon DEF IInv
    <2>3. vpCleanup' = vpCleanup
      BY Zenon DEF listVars
    <2> QED BY <1>2, <2>1, <2>2, <2>3, VpKept, Zenon
  <1>14. LteInv'
    <2>1. \A v \in VPs, q \in Refs : lte[v][q] # None =>
            root'[lte[v][q]] = root[lte[v][q]] /\ (Live(lte[v][q])' <=> Live(lte[v][q]))
      <3>1. \A v \in VPs, q \in Refs : lte[v][q] # None => lte[v][q] \in Roots
        BY <1>t, SMTT(30), Z3 DEF TypeOK
      <3> QED BY <3>1, <1>2, <1>6, <1>7, Zenon
    <2>2. LteInv /\ lte' = lte
      BY Zenon DEF IInv
    <2> QED BY <2>1, <2>2, LteKept, Zenon
  <1>15. \A rec \in Circ : rec.root # None => rec.root \in Roots /\ root'[rec.root] = root[rec.root]
    BY <1>t, <1>2, <1>8, CircType, Zenon DEF Recs
  <1>16. RecInv'
    BY <1>15, RecKept, Zenon DEF IInv
  <1>17. RefInv'
    <2>1. \A q \in Refs, k \in 1 .. 5, v \in VPs : RefIn(q, k, v) => q # r
      BY <1>4, Zenon DEF IInv, RefInv
    <2>2. \A x \in Roots, q \in Refs : q # r /\ Live(x)' /\ root'[x].ref = q =>
            Live(x) /\ root[x].ref = q
      BY <1>2, <1>6, Zenon
    <2>3. \A x \in Roots, u \in VPs : In(x, 6, u)' <=> In(x, 6, u)
      BY SameLists, Kinds, Zenon
    <2> SUFFICES ASSUME NEW q \in Refs, NEW k \in 1 .. 5, NEW v \in VPs, RefIn(q, k, v)'
                 PROVE  /\ gte'[q].destroying
                        /\ k \in {1, 5} => HomeOf[q] = v
                        /\ \A j \in 1 .. 5, u \in VPs : RefIn(q, j, u)' => j = k /\ u = v
                        /\ \A x \in Roots : Live(x)' /\ root'[x].ref = q =>
                             k \in {3, 5} /\ \E u \in VPs : In(x, 6, u)'
      BY Zenon DEF RefInv
    <2>4. RefIn(q, k, v) /\ q # r /\ gte'[q] = gte[q]
      BY <1>2, <2>1, SameLists, Zenon
    <2>5. /\ gte[q].destroying
          /\ k \in {1, 5} => HomeOf[q] = v
          /\ \A j \in 1 .. 5, u \in VPs : RefIn(q, j, u) => j = k /\ u = v
          /\ \A x \in Roots : Live(x) /\ root[x].ref = q =>
               k \in {3, 5} /\ \E u \in VPs : In(x, 6, u)
      BY <2>4, Zenon DEF IInv, RefInv
    <2>6. \A j \in 1 .. 5, u \in VPs : RefIn(q, j, u)' => j = k /\ u = v
      BY <2>5, SameLists, Zenon
    <2>7. \A x \in Roots : Live(x)' /\ root'[x].ref = q =>
            k \in {3, 5} /\ \E u \in VPs : In(x, 6, u)'
      BY <2>2, <2>3, <2>4, <2>5, Zenon
    <2> QED BY <2>4, <2>5, <2>6, <2>7, Zenon
  <1>18. ClaimInv'
    BY <1>15, ClaimKept, Zenon DEF IInv
  <1>19. ThreadInv'
    <2> SUFFICES ASSUME NEW s \in Threads PROVE ThreadOK(s)'
      BY Zenon DEF ThreadInv
    <2>1. (Active(s)' <=> Active(s)) /\ (Aged(s)' <=> Aged(s))
      BY SameAge, Zenon DEF Active
    <2>2. hold[s] # None => hold[s] \in Refs /\ hold[s] # r /\ gte'[hold[s]] = gte[hold[s]]
      BY <1>t, <1>2, HeldType, Zenon DEF IInv, ThreadInv, ThreadOK
    <2>3. using[s] # None => using[s] \in Roots /\ root'[using[s]] = root[using[s]]
                             /\ (Live(using[s])' <=> Live(using[s]))
      BY <1>t, <1>2, <1>6, <1>7, HeldType, Zenon
    <2> QED BY <2>1, <2>2, <2>3, SameLists, Zenon DEF IInv, ThreadInv, ThreadOK
  <1>20. AgeInv'
    <2> SUFFICES ASSUME NEW s \in Threads, NEW x \in Roots, Refers(s, x)'
                 PROVE  SetAged(s, x)' /\ (MarkedObj(x)' => Aged(s)')
      BY Zenon DEF AgeInv
    <2>0. (SetAged(s, x)' <=> SetAged(s, x)) /\ (MarkedObj(x)' <=> MarkedObj(x))
          /\ (Aged(s)' <=> Aged(s))
      BY SameAge, SameLists, Zenon
    <2>1. hold[s] # r
      BY Facts, Zenon DEF IInv, ThreadInv, ThreadOK
    <2>2. Refers(s, x)
      BY <1>2, <1>6, <1>7, <2>1, Zenon DEF Refers, Live
    <2> QED BY <2>0, <2>2, Zenon DEF IInv, AgeInv
  <1> QED BY <1>3, <1>9, <1>10, <1>11, <1>12, <1>13, <1>14, <1>16, <1>17, <1>18, <1>19, <1>20, Zenon
          DEF IInv

(* The miss handler installs a translation to an object that is in no      *)
(* list: destroyCO waits for the handler to finish.                        *)
LEMMA HandleMissInv == ASSUME IInv, NEW t \in Threads, HandleMiss(t) PROVE IInv'
  <1>t. TypeOK
    BY Zenon DEF IInv
  <1>p. PICK v \in VPs, r \in Refs, o \in Roots :
          /\ v = VPOf[t] /\ r = hold[t] /\ o = gte[hold[t]].mh
          /\ ~gte[r].destroying /\ Live(o) /\ root[o].ref = r
    <2>1. miss[t]
      BY Zenon DEF HandleMiss
    <2>2. hold[t] # None /\ gte[hold[t]].mh # None /\ ~gte[hold[t]].destroying
      BY <2>1, Zenon DEF IInv, ThreadInv, ThreadOK
    <2>3. hold[t] \in Refs /\ gte[hold[t]].mh \in Roots /\ VPOf[t] \in VPs
      BY <1>t, <2>2, HeldType, Zenon
    <2>4. Live(gte[hold[t]].mh) /\ root[gte[hold[t]].mh].ref = hold[t]
      BY <2>2, <2>3, Zenon DEF IInv, GteInv
    <2> QED BY <2>2, <2>3, <2>4, Zenon
  <1>0. /\ UNCHANGED <<listVars, ringVars, at>> /\ UNCHANGED placeVars
        /\ UNCHANGED <<gen, hold, gte>>
        /\ lte' = [lte EXCEPT ![v][r] = o]
        /\ miss' = [miss EXCEPT ![t] = FALSE]
        /\ using' = [using EXCEPT ![t] = o]
    BY <1>p, Zenon DEF HandleMiss, listVars, ringVars, placeVars
  <1>1. /\ r \in Refs /\ o \in Roots /\ v \in VPs /\ ~gte[r].destroying
        /\ Live(o) /\ root[o].ref = r
    BY <1>p, Zenon
  <1>2. /\ root'[o] \in RootRecs /\ root'[o] # None
        /\ root'[o].ref = root[o].ref /\ root'[o].started = root[o].started
        /\ root'[o].trans = root[o].trans \cup {v}
        /\ root'[o].reps = IF o \in MultiRep THEN root[o].reps \cup {v} ELSE root[o].reps
        /\ \A x \in Roots : x # o => root'[x] = root[x]
    <2>1. root[o] \in RootRecs /\ root \in [Roots -> RootRecs \cup {None}]
      BY <1>t, <1>1, RootType, Zenon DEF Live, TypeOK
    <2>2. root' = [root EXCEPT ![o].trans = @ \cup {v},
                               ![o].reps = IF o \in MultiRep THEN @ \cup {v} ELSE @]
      BY <1>p, Zenon DEF HandleMiss
    <2>3. \A x \in Roots : x # o => root'[x] = root[x]
      BY <2>1, <2>2, Zenon
    <2>4. root'[o] = [[root[o] EXCEPT !.trans = @ \cup {v}]
                        EXCEPT !.reps = IF o \in MultiRep THEN @ \cup {v} ELSE @]
      BY <2>1, <2>2, Zenon
    <2>5. root'[o] \in RootRecs
      <3>1. [root[o] EXCEPT !.trans = @ \cup {v}] \in RootRecs
        BY <1>1, <2>1, Zenon DEF RootRecs
      <3> DEFINE x == [root[o] EXCEPT !.trans = @ \cup {v}]
      <3> HIDE DEF x
      <3>2. [x EXCEPT !.reps = IF o \in MultiRep THEN @ \cup {v} ELSE @] \in RootRecs
        BY <1>1, <3>1, Zenon DEF RootRecs, x
      <3> QED BY <2>4, <3>2, Zenon DEF x
    <2>6. /\ root'[o].ref = root[o].ref /\ root'[o].started = root[o].started
          /\ root'[o].trans = root[o].trans \cup {v}
          /\ root'[o].reps = IF o \in MultiRep THEN root[o].reps \cup {v} ELSE root[o].reps
      BY <2>1, <2>4, Zenon DEF RootRecs
    <2> QED BY <2>3, <2>5, <2>6, Facts, Zenon
  <1>3. /\ lte'[v][r] = o /\ \A u \in VPs, q \in Refs : u # v \/ q # r => lte'[u][q] = lte[u][q]
        /\ using'[t] = o /\ ~miss'[t]
        /\ \A s \in Threads : s # t => using'[s] = using[s] /\ miss'[s] = miss[s]
    BY <1>0, <1>1, <1>t, Zenon DEF TypeOK
  <1>4. TypeOK'
    <2>1. root' \in [Roots -> RootRecs \cup {None}]
      <3>1. root' = [x \in Roots |-> root'[x]]
        <4>1. root' = [root EXCEPT ![o].trans = @ \cup {v},
                                   ![o].reps = IF o \in MultiRep THEN @ \cup {v} ELSE @]
          BY <1>p, Zenon DEF HandleMiss
        <4> QED BY <4>1, <1>1, <1>t, Zenon DEF TypeOK
      <3>2. \A x \in Roots : root'[x] \in RootRecs \cup {None}
        BY <1>2, <1>t, Zenon DEF TypeOK
      <3> QED BY <3>1, <3>2, Zenon
    <2>2. lte' \in [VPs -> [Refs -> Roots \cup {None}]]
      BY <1>0, <1>1, <1>t, Zenon DEF TypeOK
    <2>3. using' \in [Threads -> Roots \cup {None}] /\ miss' \in [Threads -> BOOLEAN]
      BY <1>0, <1>1, <1>t, Zenon DEF TypeOK
    <2> QED BY <1>t, <1>0, <2>1, <2>2, <2>3, Zenon DEF TypeOK, listVars, ringVars
  <1>5. /\ \A k \in 1 .. 6, u \in VPs : ~In(o, k, u)
        /\ \A rec \in Circ : rec.root # o
        /\ ~MarkedObj(o) /\ \A s \in Threads : SetAged(s, o)
        /\ ~MarkedRef(r)
    BY <1>1, NotDestroyed, Zenon
  <1>6. \A x \in Roots : /\ Live(x)' <=> Live(x)
                         /\ root[x] # None <=> root'[x] # None
                         /\ root'[x].ref = root[x].ref /\ root'[x].started = root[x].started
                         /\ root[x].trans \subseteq root'[x].trans
                         /\ root[x].reps \subseteq root'[x].reps
    <2> SUFFICES ASSUME NEW x \in Roots
                 PROVE  /\ Live(x)' <=> Live(x)
                        /\ root[x] # None <=> root'[x] # None
                        /\ root'[x].ref = root[x].ref /\ root'[x].started = root[x].started
                        /\ root[x].trans \subseteq root'[x].trans
                        /\ root[x].reps \subseteq root'[x].reps
      BY Zenon
    <2>1. CASE x = o
      BY <1>1, <1>2, <2>1, Zenon DEF Live
    <2>2. CASE x # o
      BY <1>2, <2>2, Zenon DEF Live
    <2> QED BY <2>1, <2>2, Zenon
  <1>7. \A s \in Threads : Aged(s)' <=> Aged(s)
    BY <1>0, SameAge, Zenon
  <1>9. Shape'
    BY <1>0, Zenon DEF IInv, Shape, listVars, ringVars
  <1>10. GteInv'
    BY <1>0, <1>6, <1>t, HeldType, ZenonT(40) DEF IInv, GteInv
  <1>11. RootInv'
    <2> SUFFICES ASSUME NEW x \in Roots, root'[x] # None
                 PROVE  /\ root'[x].reps \subseteq root'[x].trans
                        /\ x \in MultiRep /\ ~root'[x].started => root'[x].reps = root'[x].trans
                        /\ x \notin MultiRep => root'[x].reps = {}
                        /\ ~root'[x].started =>
                             /\ gte'[root'[x].ref].mh = x
                             /\ gte'[root'[x].ref].destroying =>
                                  \E k \in 1 .. 6, u \in VPs : In(x, k, u)'
      BY Zenon DEF RootInv
    <2>0. root[x] # None
      BY <1>6, Zenon
    <2>1. /\ root'[x].reps \subseteq root'[x].trans
          /\ x \in MultiRep /\ ~root'[x].started => root'[x].reps = root'[x].trans
          /\ x \notin MultiRep => root'[x].reps = {}
      <3>1. CASE x = o
        BY <3>1, <2>0, <1>2, SMTT(30), Z3 DEF IInv, RootInv
      <3>2. CASE x # o
        BY <3>2, <2>0, <1>2, Zenon DEF IInv, RootInv
      <3> QED BY <3>1, <3>2, ZenonT(40)
    <2> QED BY <2>0, <2>1, <1>0, <1>6, SameLists, SMTT(30), Z3 DEF IInv, RootInv
  <1>12. PlaceInv'
    <2>1. ASSUME NEW x \in Roots, NEW k \in 1 .. 6, NEW u \in VPs, In(x, k, u)
          PROVE  Live(x)' /\ root'[x] = root[x] /\ gte'[root[x].ref].destroying
      <3>1. x # o
        BY <2>1, <1>5, Zenon
      <3>2. Live(x) /\ gte[root[x].ref].destroying
        BY <2>1, Zenon DEF IInv, PlaceInv
      <3> QED BY <3>1, <3>2, <1>0, <1>2, <1>6, Zenon
    <2>2. PlaceInv
      BY Zenon DEF IInv
    <2> QED BY <1>0, <2>1, <2>2, PlaceKept, Zenon
  <1>13. VpInv'
    <2>1. \A u \in VPs : \A x \in vpCleanup[u] : x \in Roots /\ root[x] # None
      BY <1>t, Zenon DEF IInv, VpInv, TypeOK
    <2>2. VpInv
      BY Zenon DEF IInv
    <2>3. vpCleanup' = vpCleanup
      BY <1>0, Zenon DEF listVars
    <2> QED BY <1>0, <1>6, <2>1, <2>2, <2>3, VpKept, Zenon
  <1>14. LteInv'
    <2> SUFFICES ASSUME NEW u \in VPs, NEW q \in Refs, lte'[u][q] # None
                 PROVE  /\ Live(lte[u][q])' /\ root'[lte'[u][q]].ref = q
                        /\ u \in root'[lte'[u][q]].trans
                        /\ \A rec \in Circ' : rec.root = lte'[u][q] => u \in rec.trans
      BY Zenon DEF LteInv
    <2>1. CASE u = v /\ q = r
      BY <2>1, <1>0, <1>1, <1>2, <1>3, <1>5, <1>6, SameLists, SMTT(30), Z3
    <2>2. CASE u # v \/ q # r
      <3>1. lte'[u][q] = lte[u][q] /\ lte[u][q] \in Roots
        BY <2>2, <1>3, <1>t, SMTT(30), Z3 DEF TypeOK
      <3> QED BY <3>1, <1>0, <1>6, SameLists, SMTT(30), Z3 DEF IInv, LteInv
    <2> QED BY <2>1, <2>2, Zenon
  <1>15. \A rec \in Circ : rec.root # None => rec.root \in Roots /\ root'[rec.root] = root[rec.root]
    BY <1>t, <1>2, <1>5, CircType, Zenon DEF Recs
  <1>16. RecInv'
    BY <1>0, <1>15, RecKept, Zenon DEF IInv
  <1>17. RefInv'
    BY <1>0, <1>6, SameLists, SMTT(30), Z3 DEF IInv, RefInv
  <1>18. ClaimInv'
    BY <1>0, <1>15, ClaimKept, Zenon DEF IInv
  <1>19. ThreadInv'
    <2> SUFFICES ASSUME NEW s \in Threads PROVE ThreadOK(s)'
      BY Zenon DEF ThreadInv
    <2>1. Active(s)' <=> Active(s)
      BY <1>0, Zenon DEF Active
    <2>2. ThreadOK(s)
      BY Zenon DEF IInv, ThreadInv
    <2>3. CASE s = t
      <3>1. Live(using[t])' /\ v \in root'[using'[t]].trans
            /\ \A rec \in Circ' : rec.root # using'[t]
        BY <1>0, <1>1, <1>2, <1>3, <1>5, <1>6, SameLists, SMTT(30), Z3
      <3>2. hold[t] \in Refs /\ ~MarkedRef(hold[t])'
        BY <1>0, <1>1, <1>5, SameLists, <1>p, Zenon
      <3>3. Active(t)' /\ gte'[hold'[t]].mh # None
        BY <1>0, <1>p, <2>1, <2>2, <2>3, Facts, Zenon DEF ThreadOK
      <3> QED BY <1>0, <1>3, <2>3, <3>1, <3>2, <3>3, <1>p, ZenonT(40) DEF ThreadOK
    <2>4. CASE s # t
      <3>1. using'[s] = using[s] /\ miss'[s] = miss[s] /\ (using[s] # None => using[s] \in Roots)
            /\ (hold[s] # None => hold[s] \in Refs)
        BY <1>3, <1>t, <2>4, HeldType, Zenon
      <3> QED BY <1>0, <1>6, <1>7, <2>1, <2>2, <3>1, SameLists, Zenon DEF ThreadOK
    <2> QED BY <2>3, <2>4, Zenon
  <1>20. AgeInv'
    <2> SUFFICES ASSUME NEW s \in Threads, NEW x \in Roots, Refers(s, x)'
                 PROVE  SetAged(s, x)' /\ (MarkedObj(x)' => Aged(s)')
      BY Zenon DEF AgeInv
    <2>0. (SetAged(s, x)' <=> SetAged(s, x)) /\ (MarkedObj(x)' <=> MarkedObj(x))
      BY <1>0, SameAge, SameLists, Zenon
    <2>1. CASE x = o
      BY <1>5, <2>0, <2>1, Zenon
    <2>2. CASE x # o
      <3>1. Refers(s, x)
        BY <1>0, <1>3, <1>6, <2>2, Zenon DEF Refers
      <3> QED BY <1>7, <2>0, <3>1, Zenon DEF IInv, AgeInv
    <2> QED BY <2>1, <2>2, Zenon
  <1> QED BY <1>4, <1>9, <1>10, <1>11, <1>12, <1>13, <1>14, <1>16, <1>17, <1>18, <1>19, <1>20, Zenon
          DEF IInv

(* destroyCO puts the object into the first list of this processor. *)
LEMMA DestroyCOInv == ASSUME IInv, NEW t \in Threads, DestroyCO(t) PROVE IInv'
  <1>t. TypeOK
    BY Zenon DEF IInv
  <1>p. PICK v \in VPs, r \in Refs, o \in Roots :
          /\ v = VPOf[t] /\ r = hold[t] /\ o = gte[hold[t]].mh
          /\ ~gte[r].destroying /\ Live(o) /\ root[o].ref = r /\ gte[r].mh = o
    <2>1. hold[t] # None /\ gte[hold[t]].mh # None /\ ~gte[hold[t]].destroying
      BY Zenon DEF DestroyCO
    <2>3. hold[t] \in Refs /\ gte[hold[t]].mh \in Roots /\ VPOf[t] \in VPs
      BY <1>t, <2>1, HeldType, Zenon
    <2>4. Live(gte[hold[t]].mh) /\ root[gte[hold[t]].mh].ref = hold[t]
      BY <2>1, <2>3, Zenon DEF IInv, GteInv
    <2> QED BY <2>1, <2>3, <2>4, Zenon
  <1>0. /\ UNCHANGED <<gen, hold, miss, using, lte, root, delSets, tmpList, remList, vpCleanup,
                       refLists, xfer, token, seen, age, at>>
        /\ NoMiss(r)
    BY <1>p, Zenon DEF DestroyCO, ringVars, threadVars
  <1>1. PICK K \in {1, 2} : K = IF root[o].trans \subseteq {v} THEN 1 ELSE 2
    BY Zenon
  <1>2. /\ gte'[r].destroying = TRUE /\ gte'[r].mh = o
        /\ \A q \in Refs : q # r => gte'[q] = gte[q]
        /\ gte' \in [Refs -> [mh : Roots \cup {None}, destroying : BOOLEAN]]
    <2>1. gte' = [gte EXCEPT ![r].destroying = TRUE]
      BY <1>p, Zenon DEF DestroyCO
    <2>2. gte \in [Refs -> [mh : Roots \cup {None}, destroying : BOOLEAN]]
      BY <1>t, Zenon DEF TypeOK
    <2>3. gte' \in [Refs -> [mh : Roots \cup {None}, destroying : BOOLEAN]]
      BY <2>1, <2>2, Zenon
    <2>4. gte'[r].destroying = TRUE /\ gte'[r].mh = gte[r].mh
      BY <2>1, <2>2, Zenon
    <2> QED BY <1>p, <2>1, <2>2, <2>3, <2>4, Zenon
  <1>3. /\ stage1' \in [VPs -> [local : SUBSET Roots, remote : SUBSET Roots]]
        /\ \A u \in VPs :
             /\ stage1'[u].local = stage1[u].local \cup (IF K = 1 /\ u = v THEN {o} ELSE {})
             /\ stage1'[u].remote = stage1[u].remote \cup (IF K = 2 /\ u = v THEN {o} ELSE {})
    <2>0. stage1 \in [VPs -> [local : SUBSET Roots, remote : SUBSET Roots]]
      BY <1>t, Zenon DEF TypeOK
    <2>1. CASE root[o].trans \subseteq {v}
      <3>1. stage1' = [stage1 EXCEPT ![v].local = @ \cup {o}] /\ K = 1 /\ K # 2
        BY <1>p, <1>1, <2>1, Kinds, Zenon DEF DestroyCO
      <3> QED BY <2>0, <3>1, Zenon
    <2>2. CASE ~(root[o].trans \subseteq {v})
      <3>1. stage1' = [stage1 EXCEPT ![v].remote = @ \cup {o}] /\ K = 2 /\ K # 1
        BY <1>p, <1>1, <2>2, Kinds, Zenon DEF DestroyCO
      <3> QED BY <2>0, <3>1, Zenon
    <2> QED BY <2>1, <2>2, Zenon
  <1>4. TypeOK'
    BY <1>t, <1>0, <1>2, <1>3, Zenon DEF TypeOK
  <1>5. \A x \in Roots, k \in 1 .. 6, u \in VPs :
          In(x, k, u)' <=> In(x, k, u) \/ (x = o /\ k = K /\ u = v)
    <2> SUFFICES ASSUME NEW x \in Roots, NEW k \in 1 .. 6, NEW u \in VPs
                 PROVE  In(x, k, u)' <=> In(x, k, u) \/ (x = o /\ k = K /\ u = v)
      BY Zenon
    <2>1. /\ x \in stage1'[u].local <=> x \in stage1[u].local \/ (K = 1 /\ u = v /\ x = o)
          /\ x \in stage1'[u].remote <=> x \in stage1[u].remote \/ (K = 2 /\ u = v /\ x = o)
      BY <1>3, Zenon
    <2>2. Arrived(u)' = Arrived(u) /\ UNCHANGED <<delSets, tmpList, remList>>
      BY <1>0, ZenonT(40) DEF Arrived
    <2> QED BY <1>1, <2>1, <2>2, Kinds, ZenonT(40) DEF In
  <1>6. /\ \A q \in Refs, k \in 1 .. 5, u \in VPs : RefIn(q, k, u)' <=> RefIn(q, k, u)
        /\ \A q \in Refs : MarkedRef(q)' <=> MarkedRef(q)
        /\ \A u, w, h : Passed(u, w, h)' <=> Passed(u, w, h)
        /\ Circ' = Circ
        /\ \A x \in Roots : MarkedObj(x)' <=> MarkedObj(x)
        /\ \A x \in Roots, u \in VPs : In(x, 6, u)' <=> In(x, 6, u)
    BY <1>0, SMTT(30), Z3 DEF RefIn, Arrived, Passed, MarkedRef, Circ, MarkedObj, In
  <1>7. /\ \A x \in Roots : Live(x)' <=> Live(x)
        /\ \A s \in Threads : (Aged(s)' <=> Aged(s)) /\ (Active(s)' <=> Active(s))
        /\ \A s \in Threads, x \in Roots : SetAged(s, x)' <=> SetAged(s, x)
    BY <1>0, Zenon DEF Live, Aged, SetAged, Active
  <1>8. /\ \A k \in 1 .. 6, u \in VPs : ~In(o, k, u)
        /\ \A k \in 1 .. 5, u \in VPs : ~RefIn(r, k, u)
    BY <1>p, NotDestroyed, Zenon
  <1>9. \A x \in Roots : Live(x) /\ root[x].ref = r => x = o
    BY <1>p, Zenon DEF IInv, RootInv, Live
  <1>10. Shape'
    BY <1>0, ZenonT(40) DEF IInv, Shape
  <1>11. GteInv'
    <2> SUFFICES ASSUME NEW q \in Refs
                 PROVE  /\ gte'[q].mh = None => ~gte'[q].destroying
                        /\ gte'[q].mh # None /\ ~gte'[q].destroying =>
                             Live(gte[q].mh)' /\ root'[gte'[q].mh].ref = q
      BY Zenon DEF GteInv
    <2>1. CASE q = r
      BY <2>1, <1>2, Facts, Zenon
    <2>2. CASE q # r
      <3>1. gte'[q] = gte[q] /\ (gte[q].mh # None => gte[q].mh \in Roots)
        BY <1>2, <1>t, <2>2, HeldType, Zenon
      <3>2. /\ gte[q].mh = None => ~gte[q].destroying
            /\ gte[q].mh # None /\ ~gte[q].destroying => Live(gte[q].mh) /\ root[gte[q].mh].ref = q
        BY Zenon DEF IInv, GteInv
      <3> QED BY <1>0, <1>7, <3>1, <3>2, Zenon
    <2> QED BY <2>1, <2>2, Zenon
  <1>12. RootInv'
    <2> SUFFICES ASSUME NEW x \in Roots, root'[x] # None
                 PROVE  /\ root'[x].reps \subseteq root'[x].trans
                        /\ x \in MultiRep /\ ~root'[x].started => root'[x].reps = root'[x].trans
                        /\ x \notin MultiRep => root'[x].reps = {}
                        /\ ~root'[x].started =>
                             /\ gte'[root'[x].ref].mh = x
                             /\ gte'[root'[x].ref].destroying =>
                                  \E k \in 1 .. 6, u \in VPs : In(x, k, u)'
      BY Zenon DEF RootInv
    <2>0. root'[x] = root[x] /\ root[x].ref \in Refs
      BY <1>0, <1>t, RootType, Zenon
    <2>1. CASE x = o
      <3>1. In(o, K, v)' /\ K \in 1 .. 6
        BY <1>5, Kinds, Zenon
      <3>2. /\ root[x].reps \subseteq root[x].trans
            /\ x \in MultiRep /\ ~root[x].started => root[x].reps = root[x].trans
            /\ x \notin MultiRep => root[x].reps = {}
        BY <2>0, Zenon DEF IInv, RootInv
      <3>3. gte'[root'[x].ref].mh = x
        BY <2>0, <2>1, <1>2, <1>p, ZenonT(40)
      <3> QED BY <2>0, <2>1, <3>1, <3>2, <3>3, Zenon
    <2>2. CASE x # o
      <3>1. ~root[x].started => gte'[root[x].ref] = gte[root[x].ref]
        BY <1>2, <1>9, <2>0, <2>2, Zenon DEF Live
      <3> QED BY <2>0, <3>1, <1>5, SMTT(30), Z3 DEF IInv, RootInv
    <2> QED BY <2>1, <2>2, Zenon
  <1>13. PlaceInv'
    <2> SUFFICES ASSUME NEW x \in Roots, NEW k \in 1 .. 6, NEW u \in VPs, In(x, k, u)'
                 PROVE  /\ Live(x)' /\ gte'[root'[x].ref].destroying
                        /\ k \in {1, 3, 4} => root'[x].trans \subseteq {u}
                        /\ k \in {2, 5} => ~(root'[x].trans \subseteq {u})
                        /\ \A j \in 1 .. 6, w \in VPs : In(x, j, w)' => j = k /\ w = u
      BY Zenon DEF PlaceInv
    <2>1. CASE x = o
      <3>1. k = K /\ u = v
        BY <1>5, <1>8, <2>1, Zenon
      <3>2. Live(o)' /\ gte'[root'[o].ref].destroying
        BY <1>0, <1>2, <1>7, <1>p, Zenon
      <3>3. \A j \in 1 .. 6, w \in VPs : In(o, j, w)' => j = K /\ w = v
        BY <1>5, <1>8, Zenon
      <3>4. /\ K \in {1, 3, 4} => root'[o].trans \subseteq {v}
            /\ K \in {2, 5} => ~(root'[o].trans \subseteq {v})
        BY <1>0, <1>1, Kinds, Zenon
      <3> QED BY <2>1, <3>1, <3>2, <3>3, <3>4, Zenon
    <2>2. CASE x # o
      <3>1. In(x, k, u) /\ \A j \in 1 .. 6, w \in VPs : In(x, j, w)' => In(x, j, w)
        BY <1>5, <2>2, Zenon
      <3>2. Live(x) /\ gte[root[x].ref].destroying
        BY <3>1, Zenon DEF IInv, PlaceInv
      <3>3. gte'[root[x].ref] = gte[root[x].ref]
        BY <1>2, <1>t, <1>p, <3>2, RootType, Zenon DEF Live
      <3> QED BY <1>0, <1>7, <3>1, <3>2, <3>3, Kinds, ZenonT(40) DEF IInv, PlaceInv
    <2> QED BY <2>1, <2>2, Zenon
  <1>14. VpInv' /\ LteInv'
    <2>1. UNCHANGED <<lte, root, vpCleanup, Circ>>
      BY <1>0, <1>6, Zenon
    <2>2. VpInv'
      BY <2>1, Kinds, Zenon DEF IInv, VpInv
    <2>3. LteInv'
      BY <2>1, Zenon DEF IInv, LteInv, Live
    <2> QED BY <2>2, <2>3, Zenon
  <1>15. RecInv'
    <2>1. \A q, u : RefIn(q, 5, u)' <=> RefIn(q, 5, u)
      BY <1>0, Kinds, Zenon DEF RefIn
    <2> QED BY <1>0, <1>6, <2>1, Zenon DEF IInv, RecInv
  <1>16. RefInv'
    <2>1. \A q \in Refs, k \in 1 .. 5, u \in VPs : RefIn(q, k, u) => q # r
      BY <1>8, Zenon
    <2>2. UNCHANGED root
      BY <1>0, Zenon
    <2> SUFFICES ASSUME NEW q \in Refs, NEW k \in 1 .. 5, NEW u \in VPs, RefIn(q, k, u)'
                 PROVE  /\ gte'[q].destroying
                        /\ k \in {1, 5} => HomeOf[q] = u
                        /\ \A j \in 1 .. 5, w \in VPs : RefIn(q, j, w)' => j = k /\ w = u
                        /\ \A x \in Roots : Live(x)' /\ root'[x].ref = q =>
                             k \in {3, 5} /\ \E w \in VPs : In(x, 6, w)'
      BY Zenon DEF RefInv
    <2>3. RefIn(q, k, u) /\ gte'[q] = gte[q]
      BY <1>2, <1>6, <2>1, Zenon
    <2>4. /\ gte[q].destroying
          /\ k \in {1, 5} => HomeOf[q] = u
          /\ \A j \in 1 .. 5, w \in VPs : RefIn(q, j, w) => j = k /\ w = u
          /\ \A x \in Roots : Live(x) /\ root[x].ref = q =>
               k \in {3, 5} /\ \E w \in VPs : In(x, 6, w)
      BY <2>3, ZenonT(40) DEF IInv, RefInv
    <2> QED BY <1>6, <1>7, <2>2, <2>3, <2>4, Zenon
  <1>17. ClaimInv'
    <2>1. UNCHANGED <<token, refLists, hold, root, Circ>>
      BY <1>0, <1>6, Zenon
    <2> QED BY <1>6, <2>1, SMTT(30), Z3 DEF IInv, ClaimInv
  <1>18. ThreadInv'
    <2> SUFFICES ASSUME NEW s \in Threads PROVE ThreadOK(s)'
      BY Zenon DEF ThreadInv
    <2>1. ThreadOK(s) /\ (hold[s] # None => hold[s] \in Refs)
          /\ (using[s] # None => using[s] \in Roots)
      BY <1>t, HeldType, Zenon DEF IInv, ThreadInv
    <2>2. hold[s] # None => gte'[hold[s]].mh # None
      BY <2>1, <1>2, <1>p, Facts, ZenonT(40) DEF ThreadOK
    <2>3. miss[s] => hold[s] # None /\ hold[s] # r /\ ~gte'[hold[s]].destroying
      BY <1>0, <1>2, <2>1, Zenon DEF ThreadOK, NoMiss
    <2> QED BY <1>0, <1>6, <1>7, <2>1, <2>2, <2>3, Zenon DEF ThreadOK
  <1>19. AgeInv'
    BY <1>0, <1>6, <1>7, Zenon DEF IInv, AgeInv, Refers
  <1> QED BY <1>4, <1>10, <1>11, <1>12, <1>13, <1>14, <1>15, <1>16, <1>17, <1>18, <1>19, Zenon DEF IInv

-----------------------------------------------------------------------------
(***************************************************************************)
(* The steps by which checkCleanup counts generations and works through    *)
(* its lists keep the invariant.                                           *)
(***************************************************************************)

(* The steps of checkCleanup that count generations. *)

(* A thread keeps pace with the marker of the token's processor ... *)
LEMMA AgedStep ==
  ASSUME TypeOK, NEW v \in VPs, UpdateTheGen(v), NEW t \in Threads, Active(t), Aged(t)
  PROVE  /\ age' = [age EXCEPT ![v] = AgeAfter(v)] /\ seen' = seen => Aged(t)'
         /\ seen[v] /\ AgeAfter(v) = 2 => VPOf[t] # v
  <1>1. gen \in [Threads -> Gen] /\ gen[t] # "none" /\ age \in [VPs -> 0 .. 2] /\ VPOf[t] \in VPs
        /\ seen \in [VPs -> BOOLEAN]
    BY Facts, Zenon DEF TypeOK, Active
  <1>2. gen[t] = "cur" \/ gen[t] = "prev"
    BY <1>1, Zenon DEF Gen
  <1>3. CASE VPOf[t] # v
    <2>1. gen'[t] = gen[t]
      BY <1>1, <1>3, GenStep, Zenon
    <2> QED BY <1>1, <1>3, <2>1, Zenon DEF Aged
  <1>4. CASE VPOf[t] = v
    <2>1. ASSUME seen[v] PROVE AgeAfter(v) # 2 /\ (AgeAfter(v) = 1 => gen'[t] = "prev")
      <3>0. AgeAfter(v) = Older(Advances(v), age[v]) /\ age[v] \in 0 .. 2
            /\ (age[v] = 1 => gen[t] = "prev") /\ age[v] # 2
        BY <1>1, <1>4, <2>1, Zenon DEF AgeAfter, Aged
      <3>1. CASE gen[t] = "prev"
        <4>1. Advances(v) = 0 /\ gen'[t] = "prev"
          BY <1>1, <1>4, <3>1, GenStep, Zenon
        <4> QED BY <3>0, <4>1, SMTT(30), Z3 DEF Older
      <3>2. CASE gen[t] = "cur"
        <4>1. Advances(v) \in {0, 1} /\ (Advances(v) = 1 => gen'[t] = "prev") /\ age[v] = 0
          BY <1>1, <1>4, <3>0, <3>2, GenStep, Kinds, Zenon
        <4>2. CASE Advances(v) = 0
          BY <3>0, <4>1, <4>2, SMTT(30), Z3 DEF Older
        <4>3. CASE Advances(v) = 1
          BY <3>0, <4>1, <4>3, SMTT(30), Z3 DEF Older
        <4> QED BY <4>1, <4>2, <4>3, Zenon
      <3> QED BY <1>2, <3>1, <3>2, Zenon
    <2> QED BY <1>1, <1>4, <2>1, Zenon DEF Aged
  <1> QED BY <1>3, <1>4, Zenon

(* ... and of the delete sets. *)
LEMMA SetsStep ==
  ASSUME TypeOK, NEW v \in VPs, UpdateTheGen(v)
  PROVE  /\ SetsAfter(v) \in [0 .. 2 -> SUBSET Roots]
         /\ \A o \in Roots : (\E a \in 0 .. 2 : o \in SetsAfter(v)[a])
                               <=> (\E a \in 0 .. 2 : o \in delSets[v][a])
         /\ \A t \in Threads, o \in Roots : Active(t) /\ SetAged(t, o) /\ VPOf[t] = v =>
              (o \in SetsAfter(v)[1] => gen'[t] = "prev") /\ o \notin SetsAfter(v)[2]
         /\ Shape => \A a, b \in 0 .. 2 : a # b => SetsAfter(v)[a] \cap SetsAfter(v)[b] = {}
  <1>1. gen \in [Threads -> Gen] /\ delSets[v] \in [0 .. 2 -> SUBSET Roots]
    BY Zenon DEF TypeOK
  <1>2. Advances(v) \in {0, 1, 2}
    BY <1>1, GenStep, Zenon
  <1>3. 0 .. 2 = {0, 1, 2}
    BY Kinds, Zenon
  <1>4. CASE Advances(v) = 0
    <2>1. SetsAfter(v) = delSets[v]
      BY <1>4, Kinds, Zenon DEF SetsAfter
    <2>2. \A t \in Threads : VPOf[t] = v /\ gen[t] = "prev" => gen'[t] = "prev"
      BY <1>1, GenStep, Zenon
    <2> QED BY <1>1, <2>1, <2>2, Zenon DEF SetAged, Shape
  <1>5. CASE Advances(v) = 1
    <2>1. /\ SetsAfter(v) \in [0 .. 2 -> SUBSET Roots]
          /\ SetsAfter(v)[0] = {} /\ SetsAfter(v)[1] = delSets[v][0]
          /\ SetsAfter(v)[2] = delSets[v][1] \cup delSets[v][2]
      BY <1>1, <1>5, Kinds, Zenon DEF SetsAfter
    <2>2. \A t \in Threads : VPOf[t] = v /\ Active(t) => gen'[t] = "prev" /\ gen[t] # "prev"
      BY <1>1, <1>5, GenStep, Kinds, Zenon DEF Active
    <2>3. \A o \in Roots : (\E a \in 0 .. 2 : o \in SetsAfter(v)[a])
                             <=> (\E a \in 0 .. 2 : o \in delSets[v][a])
      BY <1>3, <2>1, Zenon
    <2>4. Shape => \A a, b \in 0 .. 2 : a # b => SetsAfter(v)[a] \cap SetsAfter(v)[b] = {}
      BY <1>3, <2>1, SMTT(30), Z3 DEF Shape
    <2> QED BY <2>1, <2>2, <2>3, <2>4, Zenon DEF SetAged
  <1>6. CASE Advances(v) = 2
    <2>1. /\ SetsAfter(v) \in [0 .. 2 -> SUBSET Roots]
          /\ SetsAfter(v)[0] = {} /\ SetsAfter(v)[1] = {}
          /\ SetsAfter(v)[2] = UNION {delSets[v][b] : b \in 0 .. 2}
      BY <1>1, <1>6, SMTT(30), Z3 DEF SetsAfter
    <2>2. \A t \in Threads : VPOf[t] = v => ~Active(t)
      BY <1>1, <1>6, GenStep, Kinds, Zenon DEF Active, Gen
    <2>3. \A o \in Roots : (\E a \in 0 .. 2 : o \in SetsAfter(v)[a])
                             <=> (\E a \in 0 .. 2 : o \in delSets[v][a])
      BY <1>3, <2>1, SMTT(30), Z3
    <2>4. \A a, b \in 0 .. 2 : a # b => SetsAfter(v)[a] \cap SetsAfter(v)[b] = {}
      BY <1>3, <2>1, Zenon
    <2> QED BY <2>1, <2>2, <2>3, <2>4, Zenon
  <1> QED BY <1>2, <1>4, <1>5, <1>6, Zenon

(* What a step on the lists of one processor leaves alone. *)
LEMMA TransferSame ==
  ASSUME UNCHANGED <<remList, refLists, xfer, token, seen>>
  PROVE  /\ \A q \in Refs, k \in 1 .. 5, u \in VPs : RefIn(q, k, u)' <=> RefIn(q, k, u)
         /\ \A q, u : RefIn(q, 5, u)' <=> RefIn(q, 5, u)
         /\ \A q \in Refs : MarkedRef(q)' <=> MarkedRef(q)
         /\ \A u, w, h : Passed(u, w, h)' <=> Passed(u, w, h)
         /\ Circ' = Circ
         /\ \A x \in Roots : MarkedObj(x)' <=> MarkedObj(x)
         /\ \A x \in Roots, u \in VPs : In(x, 6, u)' <=> In(x, 6, u)
  <1>1. \A u : Arrived(u)' = Arrived(u)
    BY Zenon DEF Arrived
  <1>2. \A q, k, u : RefIn(q, k, u)' <=> RefIn(q, k, u)
    BY <1>1, SMTT(30), Z3 DEF RefIn
  <1>3. \A q \in Refs : MarkedRef(q)' <=> MarkedRef(q)
    BY <1>2, Zenon DEF MarkedRef
  <1>4. \A u, w, h : Passed(u, w, h)' <=> Passed(u, w, h)
    BY Zenon DEF Passed
  <1>5. Circ' = Circ
    BY <1>1, Zenon DEF Circ
  <1>6. \A x, u : (In(x, 6, u)' <=> In(x, 6, u)) /\ (In(x, 5, u)' <=> In(x, 5, u))
    BY <1>1, Kinds, ZenonT(40) DEF In
  <1>7. \A x \in Roots : MarkedObj(x)' <=> MarkedObj(x)
    BY <1>6, Zenon DEF MarkedObj
  <1> QED BY <1>2, <1>3, <1>4, <1>5, <1>6, <1>7, Zenon

LEMMA VpSame ==
  ASSUME VpInv, Circ' = Circ, UNCHANGED <<root, vpCleanup>>
  PROVE  VpInv'
  BY Zenon DEF VpInv

LEMMA ClaimSame ==
  ASSUME ClaimInv, Circ' = Circ, UNCHANGED <<hold, root, refLists, token>>,
         \A u, w, h : Passed(u, w, h)' <=> Passed(u, w, h)
  PROVE  ClaimInv'
  BY Zenon DEF ClaimInv

LEMMA RefersActive ==
  ASSUME TypeOK, ThreadInv, NEW s \in Threads, NEW x \in Roots, Refers(s, x)
  PROVE  Active(s)
  <1>1. ThreadOK(s)
    BY Zenon DEF ThreadInv
  <1>2. using[s] = x \/ (root[x] # None /\ hold[s] = root[x].ref)
    BY Zenon DEF Refers, Live
  <1>3. CASE using[s] = x
    BY <1>1, <1>3, Facts, Zenon DEF ThreadOK
  <1>4. CASE root[x] # None /\ hold[s] = root[x].ref
    BY <1>1, <1>4, RootType, Facts, Zenon DEF ThreadOK
  <1> QED BY <1>2, <1>3, <1>4, Zenon

(* A step that counts generations and moves objects along the lists of one *)
(* processor.                                                              *)
LEMMA LocalStep ==
  ASSUME IInv, NEW v \in VPs, UpdateTheGen(v), age' = [age EXCEPT ![v] = AgeAfter(v)],
         UNCHANGED <<hold, miss, using, tableVars, remList, vpCleanup, refLists, xfer, token, seen>>,
         TypeOK', Shape',
         \A x \in Roots, k \in 1 .. 6, u \in VPs : In(x, k, u)' =>
           \E j \in 1 .. 6 : In(x, j, u) /\ (j = k \/ (j \in {1, 3, 4} /\ k \in {1, 3, 4})),
         \A x \in Roots, k \in 1 .. 6, u \in VPs : In(x, k, u) => \E j \in 1 .. 6 : In(x, j, u)',
         \A x \in Roots, j, k \in 1 .. 6, u \in VPs : In(x, j, u)' /\ In(x, k, u)' => j = k,
         \A t \in Threads, x \in Roots : Active(t) /\ SetAged(t, x) => SetAged(t, x)'
  PROVE  IInv'
  <1>t. TypeOK
    BY Zenon DEF IInv
  <1>1. /\ \A q \in Refs, k \in 1 .. 5, u \in VPs : RefIn(q, k, u)' <=> RefIn(q, k, u)
        /\ \A q, u : RefIn(q, 5, u)' <=> RefIn(q, 5, u)
        /\ \A q \in Refs : MarkedRef(q)' <=> MarkedRef(q)
        /\ \A u, w, h : Passed(u, w, h)' <=> Passed(u, w, h)
        /\ Circ' = Circ
        /\ \A x \in Roots : MarkedObj(x)' <=> MarkedObj(x)
        /\ \A x \in Roots, u \in VPs : In(x, 6, u)' <=> In(x, 6, u)
    BY TransferSame, Zenon
  <1>2. /\ \A x \in Roots : Live(x)' <=> Live(x)
        /\ \A s \in Threads, x \in Roots : Refers(s, x)' <=> Refers(s, x)
    BY Zenon DEF Live, Refers, tableVars
  <1>3. /\ \A s \in Threads : Active(s) => Active(s)'
        /\ \A s \in Threads : Active(s) /\ Aged(s) => Aged(s)'
    BY <1>t, AgedStep, GenStep, Zenon DEF Active, TypeOK
  <1>4. GteInv' /\ VpInv' /\ LteInv' /\ RecInv'
    <2>1. UNCHANGED <<gte, root, lte>>
      BY Zenon DEF tableVars
    <2>2. GteInv'
      BY <2>1, Zenon DEF IInv, GteInv, Live
    <2>a. \A u \in VPs, r \in Refs : lte[u][r] # None => (Live(lte[u][r])' <=> Live(lte[u][r]))
      BY <2>1, Zenon DEF Live
    <2>3. LteInv'
      BY <1>1, <2>1, <2>a, LteSame, Zenon DEF IInv
    <2>4. VpInv'
      BY <1>1, <2>1, VpSame, Zenon DEF IInv
    <2>5. RecInv'
      BY <1>1, <2>1, Zenon DEF IInv, RecInv
    <2> QED BY <2>2, <2>3, <2>4, <2>5, Zenon
  <1>5. RootInv'
    <2>1. \A x \in Roots : (\E k \in 1 .. 6, u \in VPs : In(x, k, u)) =>
                             \E k \in 1 .. 6, u \in VPs : In(x, k, u)'
      BY Zenon
    <2> QED BY <2>1, Zenon DEF IInv, RootInv, tableVars
  <1>6. PlaceInv'
    <2> SUFFICES ASSUME NEW x \in Roots, NEW k \in 1 .. 6, NEW u \in VPs, In(x, k, u)'
                 PROVE  /\ Live(x)' /\ gte'[root'[x].ref].destroying
                        /\ k \in {1, 3, 4} => root'[x].trans \subseteq {u}
                        /\ k \in {2, 5} => ~(root'[x].trans \subseteq {u})
                        /\ \A j \in 1 .. 6, w \in VPs : In(x, j, w)' => j = k /\ w = u
      BY Zenon DEF PlaceInv
    <2>1. PICK i \in 1 .. 6 : In(x, i, u) /\ (i = k \/ (i \in {1, 3, 4} /\ k \in {1, 3, 4}))
      BY Zenon
    <2>2. /\ Live(x) /\ gte[root[x].ref].destroying
          /\ i \in {1, 3, 4} => root[x].trans \subseteq {u}
          /\ i \in {2, 5} => ~(root[x].trans \subseteq {u})
          /\ \A j \in 1 .. 6, w \in VPs : In(x, j, w) => w = u
      BY <2>1, Kinds, ZenonT(40) DEF IInv, PlaceInv
    <2>3. \A j \in 1 .. 6, w \in VPs : In(x, j, w)' => w = u /\ j = k
      BY <2>2, SMTT(30), Z3
    <2> QED BY <1>2, <2>1, <2>2, <2>3, Kinds, Zenon DEF tableVars
  <1>7. RefInv'
    <2>1. gte' = gte /\ root' = root
      BY Zenon DEF tableVars
    <2> QED BY <1>1, <1>2, <2>1, RefSame, Zenon DEF IInv
  <1>8. ClaimInv'
    BY <1>1, ClaimSame, Zenon DEF IInv, tableVars
  <1>9. ThreadInv'
    <2> SUFFICES ASSUME NEW s \in Threads PROVE ThreadOK(s)'
      BY Zenon DEF ThreadInv
    <2>1. ThreadOK(s) /\ (hold[s] # None => hold[s] \in Refs)
          /\ (using[s] # None => using[s] \in Roots)
      BY <1>t, HeldType, Zenon DEF IInv, ThreadInv
    <2> QED BY <1>1, <1>2, <1>3, <2>1, Zenon DEF ThreadOK, tableVars
  <1>10. AgeInv'
    <2> SUFFICES ASSUME NEW s \in Threads, NEW x \in Roots, Refers(s, x)'
                 PROVE  SetAged(s, x)' /\ (MarkedObj(x)' => Aged(s)')
      BY Zenon DEF AgeInv
    <2>1. Refers(s, x)
      BY <1>2, Zenon
    <2>2. Active(s)
      BY <1>t, <2>1, RefersActive, Zenon DEF IInv
    <2> QED BY <1>1, <1>3, <2>1, <2>2, Zenon DEF IInv, AgeInv
  <1> QED BY <1>4, <1>5, <1>6, <1>7, <1>8, <1>9, <1>10, Zenon DEF IInv

(* The delete sets grow older where they are. *)
LEMMA SetsKept ==
  ASSUME IInv, NEW v \in VPs, UpdateTheGen(v), age' = [age EXCEPT ![v] = AgeAfter(v)],
         delSets' = [delSets EXCEPT ![v] = SetsAfter(v)],
         UNCHANGED <<hold, miss, using, tableVars, stage1, tmpList, remList, vpCleanup, refLists,
                     xfer, token, seen>>,
         at' \in [VPs -> Places], \A u \in VPs : at'[u] = "remote" => at[u] = "remote"
  PROVE  IInv'
  <1>t. TypeOK /\ Shape
    BY Zenon DEF IInv
  <1>1. TypeOK'
    BY <1>t, GenStep, AgeType, SetsStep, Zenon DEF TypeOK, tableVars
  <1>3. /\ delSets'[v] = SetsAfter(v) /\ \A u \in VPs : u # v => delSets'[u] = delSets[u]
    BY <1>t, Zenon DEF TypeOK
  <1>2. Shape'
    <2>1. \A a, b \in 0 .. 2 : a # b => SetsAfter(v)[a] \cap SetsAfter(v)[b] = {}
      BY <1>t, SetsStep, Zenon
    <2> QED BY <1>t, <1>3, <2>1, ZenonT(40) DEF Shape
  <1>4. \A x \in Roots, u \in VPs : (\E a \in 0 .. 2 : x \in delSets'[u][a])
                                      <=> (\E a \in 0 .. 2 : x \in delSets[u][a])
    <2>1. \A x \in Roots : (\E a \in 0 .. 2 : x \in SetsAfter(v)[a])
                           <=> (\E a \in 0 .. 2 : x \in delSets[v][a])
      BY <1>t, SetsStep, Zenon
    <2> QED BY <1>3, <2>1, Zenon
  <1>5. \A x \in Roots, k \in 1 .. 6, u \in VPs : In(x, k, u)' <=> In(x, k, u)
    <2> SUFFICES ASSUME NEW x \in Roots, NEW k \in 1 .. 6, NEW u \in VPs
                 PROVE  In(x, k, u)' <=> In(x, k, u)
      BY Zenon
    <2>1. Arrived(u)' = Arrived(u)
      BY Zenon DEF Arrived
    <2>2. (\E a \in 0 .. 2 : x \in delSets'[u][a]) <=> (\E a \in 0 .. 2 : x \in delSets[u][a])
      BY <1>4, ZenonT(40)
    <2> QED BY <2>1, <2>2, Zenon DEF In
  <1>6. \A x \in Roots, j, k \in 1 .. 6, u \in VPs : In(x, j, u)' /\ In(x, k, u)' => j = k
    BY <1>5, SMTT(30), Z3 DEF IInv, PlaceInv
  <1>7. ASSUME NEW t \in Threads, NEW x \in Roots, Active(t), SetAged(t, x)
        PROVE  SetAged(t, x)'
    <2>1. CASE VPOf[t] = v
      BY <1>t, <1>3, <1>7, <2>1, SetsStep, SMTT(30), Z3 DEF SetAged
    <2>2. CASE VPOf[t] # v
      <3>0. gen \in [Threads -> Gen]
        BY <1>t, Zenon DEF TypeOK
      <3>1. gen'[t] = gen[t] /\ VPOf[t] \in VPs
        BY <3>0, <2>2, GenStep, Facts, SMTT(30), Z3
      <3> QED BY <1>3, <1>7, <2>2, <3>1, Zenon DEF SetAged
    <2> QED BY <2>1, <2>2, Zenon
  <1>8. /\ \A x \in Roots, k \in 1 .. 6, u \in VPs : In(x, k, u)' =>
             \E j \in 1 .. 6 : In(x, j, u) /\ (j = k \/ (j \in {1, 3, 4} /\ k \in {1, 3, 4}))
        /\ \A x \in Roots, k \in 1 .. 6, u \in VPs : In(x, k, u) => \E j \in 1 .. 6 : In(x, j, u)'
    BY <1>5, Zenon
  <1> QED BY <1>1, <1>2, <1>6, <1>7, <1>8, LocalStep, Zenon

LEMMA UpdateAndCheckInv ==
  ASSUME IInv, NEW v \in VPs, UpdateAndCheckVPThreadMarker(v) PROVE IInv'
  <1>1. at' \in [VPs -> Places] /\ at' = at
    BY Zenon DEF IInv, TypeOK, UpdateAndCheckVPThreadMarker
  <1> QED BY <1>1, SetsKept, Zenon DEF UpdateAndCheckVPThreadMarker

LEMMA KeepTokenInv == ASSUME IInv, NEW v \in VPs, KeepToken(v) PROVE IInv'
  <1>1. at' \in [VPs -> Places] /\ \A u \in VPs : at'[u] = "remote" => at[u] = "remote"
    BY Zenon DEF IInv, TypeOK, KeepToken, Places
  <1> QED BY <1>1, SetsKept, Zenon DEF KeepToken

(* The objects of the local list start to age. *)
LEMMA CreateNewLocalDeleteSetInv ==
  ASSUME IInv, NEW v \in VPs, CreateNewLocalDeleteSet(v) PROVE IInv'
  <1>t. TypeOK /\ Shape
    BY Zenon DEF IInv
  <1>0. /\ UpdateTheGen(v) /\ age' = [age EXCEPT ![v] = AgeAfter(v)]
        /\ delSets' = [delSets EXCEPT ![v] = [SetsAfter(v) EXCEPT ![0] = @ \cup stage1[v].local]]
        /\ at' = [at EXCEPT ![v] = "local"]
        /\ UNCHANGED <<hold, miss, using, tableVars, tmpList, remList, vpCleanup, refLists, xfer,
                       token, seen>>
    BY Zenon DEF CreateNewLocalDeleteSet
  <1>1. /\ stage1' \in [VPs -> [local : SUBSET Roots, remote : SUBSET Roots]]
        /\ stage1'[v].local = {} /\ stage1'[v].remote = stage1[v].remote
        /\ \A u \in VPs : u # v => stage1'[u] = stage1[u]
    <2>1. stage1' = [stage1 EXCEPT ![v].local = {}]
      BY Zenon DEF CreateNewLocalDeleteSet
    <2>2. stage1 \in [VPs -> [local : SUBSET Roots, remote : SUBSET Roots]]
      BY <1>t, Zenon DEF TypeOK
    <2> QED BY <2>1, <2>2, Zenon
  <1>2. stage1[v].local \subseteq Roots /\ SetsAfter(v) \in [0 .. 2 -> SUBSET Roots]
    BY <1>0, <1>t, SetsStep, Zenon DEF TypeOK
  <1>3. /\ delSets' \in [VPs -> [0 .. 2 -> SUBSET Roots]]
        /\ delSets'[v][0] = SetsAfter(v)[0] \cup stage1[v].local
        /\ delSets'[v][1] = SetsAfter(v)[1] /\ delSets'[v][2] = SetsAfter(v)[2]
        /\ \A u \in VPs : u # v => delSets'[u] = delSets[u]
    <2>1. delSets \in [VPs -> [0 .. 2 -> SUBSET Roots]]
      BY <1>t, Zenon DEF TypeOK
    <2> QED BY <1>0, <1>2, <2>1, Kinds, Zenon
  <1>4. TypeOK'
    BY <1>0, <1>t, <1>1, <1>3, GenStep, AgeType, Zenon DEF TypeOK, tableVars, Places
  <1>5. Shape'
    <2>1. \A a, b \in 0 .. 2 : a # b => SetsAfter(v)[a] \cap SetsAfter(v)[b] = {}
      BY <1>0, <1>t, SetsStep, Zenon
    <2>2. ASSUME NEW x \in stage1[v].local, NEW a \in 0 .. 2 PROVE x \notin SetsAfter(v)[a]
      <3>1. In(x, 1, v) /\ ~In(x, 3, v)
        <4>1. In(x, 1, v) /\ 1 \in 1 .. 6 /\ 3 \in 1 .. 6
          BY <2>2, Kinds, Zenon DEF In
        <4> QED BY <4>1, <1>2, ZenonT(40) DEF IInv, PlaceInv
      <3>2. ~\E b \in 0 .. 2 : x \in delSets[v][b]
        BY <3>1, Zenon DEF In
      <3> QED BY <1>0, <1>2, <1>t, <3>2, SetsStep, Zenon
    <2>3. \A a, b \in 0 .. 2 : a # b => delSets'[v][a] \cap delSets'[v][b] = {}
      <3>1. 0 .. 2 = {0, 1, 2}
        BY Kinds, Zenon
      <3> QED BY <1>3, <2>1, <2>2, <3>1, SMTT(30), Z3
    <2>4. \A u \in VPs, a, b \in 0 .. 2 : a # b => delSets'[u][a] \cap delSets'[u][b] = {}
      BY <1>3, <1>t, <2>3, Kinds, ZenonT(40) DEF Shape
    <2>5. \A u \in VPs : at'[u] = "remote" => at[u] = "remote"
      BY <1>0, <1>t, Zenon DEF TypeOK
    <2> QED BY <1>0, <1>t, <2>4, <2>5, Zenon DEF Shape
  <1>6. \A x \in Roots, u \in VPs : (\E a \in 0 .. 2 : x \in delSets'[u][a])
          <=> (\E a \in 0 .. 2 : x \in delSets[u][a]) \/ (u = v /\ x \in stage1[v].local)
    <2> SUFFICES ASSUME NEW x \in Roots
                 PROVE  (\E a \in 0 .. 2 : x \in delSets'[v][a])
                          <=> (\E a \in 0 .. 2 : x \in delSets[v][a]) \/ x \in stage1[v].local
      BY <1>3, Zenon
    <2>1. (\E a \in 0 .. 2 : x \in SetsAfter(v)[a]) <=> (\E a \in 0 .. 2 : x \in delSets[v][a])
      BY <1>0, <1>t, SetsStep, Zenon
    <2>2. 0 .. 2 = {0, 1, 2}
      BY Kinds, Zenon
    <2> QED BY <1>3, <2>1, <2>2, Zenon
  <1>7. \A x \in Roots, k \in 1 .. 6, u \in VPs :
          In(x, k, u)' <=> \/ u # v /\ In(x, k, u)
                           \/ u = v /\ k \notin {1, 3} /\ In(x, k, u)
                           \/ u = v /\ k = 3 /\ (In(x, 3, u) \/ In(x, 1, u))
    <2> SUFFICES ASSUME NEW x \in Roots, NEW k \in 1 .. 6, NEW u \in VPs
                 PROVE  In(x, k, u)' <=> \/ u # v /\ In(x, k, u)
                                         \/ u = v /\ k \notin {1, 3} /\ In(x, k, u)
                                         \/ u = v /\ k = 3 /\ (In(x, 3, u) \/ In(x, 1, u))
      BY Zenon
    <2>1. Arrived(u)' = Arrived(u)
      BY <1>0, Zenon DEF Arrived
    <2>2. CASE u # v
      BY <1>0, <1>1, <1>3, <2>1, <2>2, ZenonT(40) DEF In
    <2>3. CASE u = v
      <3>1. In(x, 3, v)' <=> In(x, 3, v) \/ In(x, 1, v)
        BY <1>6, Kinds, Zenon DEF In
      <3>2. ~In(x, 1, v)'
        BY <1>1, Kinds, Zenon DEF In
      <3>3. k \notin {1, 3} => (In(x, k, v)' <=> In(x, k, v))
        BY <1>0, <1>1, <2>1, <2>3, Zenon DEF In
      <3> QED BY <2>3, <3>1, <3>2, <3>3, Zenon
    <2> QED BY <2>2, <2>3, Zenon
  <1>8. \A x \in Roots, j, k \in 1 .. 6, u \in VPs : In(x, j, u)' /\ In(x, k, u)' => j = k
    <2>1. \A x \in Roots, j, k \in 1 .. 6, u \in VPs : In(x, j, u) /\ In(x, k, u) => j = k
      BY ZenonT(40) DEF IInv, PlaceInv
    <2> QED BY <1>7, <2>1, SMTT(30), Z3
  <1>9. ASSUME NEW t \in Threads, NEW x \in Roots, Active(t), SetAged(t, x)
        PROVE  SetAged(t, x)'
    <2>1. CASE VPOf[t] = v
      BY <1>0, <1>t, <1>3, <1>9, <2>1, SetsStep, SMTT(30), Z3 DEF SetAged
    <2>2. CASE VPOf[t] # v
      <3>1. gen'[t] = gen[t] /\ VPOf[t] \in VPs
        BY <1>0, <1>t, <2>2, GenStep, Facts, Zenon DEF TypeOK
      <3> QED BY <1>0, <1>3, <1>9, <2>2, <3>1, Zenon DEF SetAged
    <2> QED BY <2>1, <2>2, Zenon
  <1>10. /\ \A x \in Roots, k \in 1 .. 6, u \in VPs : In(x, k, u)' =>
              \E j \in 1 .. 6 : In(x, j, u) /\ (j = k \/ (j \in {1, 3, 4} /\ k \in {1, 3, 4}))
         /\ \A x \in Roots, k \in 1 .. 6, u \in VPs : In(x, k, u) => \E j \in 1 .. 6 : In(x, j, u)'
    <2>1. 1 \in 1 .. 6 /\ 3 \in 1 .. 6
      BY Kinds, Zenon
    <2> QED BY <1>7, <2>1, Zenon
  <1> QED BY <1>0, <1>4, <1>5, <1>8, <1>9, <1>10, LocalStep, Zenon

(* An elapsed set goes to tmpList. *)
LEMMA ProcessLocalDeleteSetsInv ==
  ASSUME IInv, NEW v \in VPs, ProcessLocalDeleteSets(v) PROVE IInv'
  <1>t. TypeOK /\ Shape
    BY Zenon DEF IInv
  <1>0. /\ UpdateTheGen(v) /\ age' = [age EXCEPT ![v] = AgeAfter(v)]
        /\ delSets' = [delSets EXCEPT ![v] = [SetsAfter(v) EXCEPT ![2] = {}]]
        /\ tmpList' = [tmpList EXCEPT ![v] = @ \cup SetsAfter(v)[2]]
        /\ UNCHANGED <<hold, miss, using, tableVars, stage1, remList, vpCleanup, refLists, xfer,
                       token, seen>>
    BY Zenon DEF ProcessLocalDeleteSets
  <1>1. at' \in [VPs -> Places] /\ \A u \in VPs : at'[u] = "remote" => at[u] = "remote"
    BY <1>t, Zenon DEF ProcessLocalDeleteSets, TypeOK, Places
  <1>2. SetsAfter(v) \in [0 .. 2 -> SUBSET Roots] /\ SetsAfter(v)[2] \subseteq Roots
    BY <1>0, <1>t, SetsStep, SMTT(30), Z3
  <1>3. /\ delSets' \in [VPs -> [0 .. 2 -> SUBSET Roots]]
        /\ delSets'[v][0] = SetsAfter(v)[0]
        /\ delSets'[v][1] = SetsAfter(v)[1] /\ delSets'[v][2] = {}
        /\ \A u \in VPs : u # v => delSets'[u] = delSets[u] /\ tmpList'[u] = tmpList[u]
        /\ tmpList' \in [VPs -> SUBSET Roots] /\ tmpList'[v] = tmpList[v] \cup SetsAfter(v)[2]
    <2>1. delSets \in [VPs -> [0 .. 2 -> SUBSET Roots]] /\ tmpList \in [VPs -> SUBSET Roots]
      BY <1>t, Zenon DEF TypeOK
    <2> QED BY <1>0, <1>2, <2>1, Kinds, ZenonT(40)
  <1>4. TypeOK'
    BY <1>0, <1>t, <1>1, <1>3, GenStep, AgeType, Zenon DEF TypeOK, tableVars
  <1>5. \A a, b \in 0 .. 2 : a # b => SetsAfter(v)[a] \cap SetsAfter(v)[b] = {}
    BY <1>0, <1>t, SetsStep, Zenon
  <1>6. Shape'
    <2>1. \A a, b \in 0 .. 2 : a # b => delSets'[v][a] \cap delSets'[v][b] = {}
      <3>1. 0 .. 2 = {0, 1, 2}
        BY Kinds, Zenon
      <3> QED BY <1>3, <1>5, <3>1, SMTT(30), Z3
    <2>2. \A u \in VPs, a, b \in 0 .. 2 : a # b => delSets'[u][a] \cap delSets'[u][b] = {}
      BY <1>3, <1>t, <2>1, Kinds, Zenon DEF Shape
    <2> QED BY <1>0, <1>1, <1>t, <2>2, Zenon DEF Shape
  <1>7. \A x \in Roots :
          /\ In(x, 3, v)' <=> In(x, 3, v) /\ x \notin SetsAfter(v)[2]
          /\ x \in SetsAfter(v)[2] => In(x, 3, v)
          /\ In(x, 4, v)' <=> In(x, 4, v) \/ x \in SetsAfter(v)[2]
    <2> SUFFICES ASSUME NEW x \in Roots
                 PROVE  /\ In(x, 3, v)' <=> In(x, 3, v) /\ x \notin SetsAfter(v)[2]
                        /\ x \in SetsAfter(v)[2] => In(x, 3, v)
                        /\ In(x, 4, v)' <=> In(x, 4, v) \/ x \in SetsAfter(v)[2]
      BY Zenon
    <2>1. (\E a \in 0 .. 2 : x \in SetsAfter(v)[a]) <=> \E a \in 0 .. 2 : x \in delSets[v][a]
      BY <1>0, <1>t, SetsStep, Zenon
    <2>2. In(x, 3, v) <=> \/ x \in SetsAfter(v)[0] \/ x \in SetsAfter(v)[1]
                          \/ x \in SetsAfter(v)[2]
      BY <2>1, InAt, Kinds, Zenon
    <2>3. In(x, 3, v)' <=> x \in SetsAfter(v)[0] \/ x \in SetsAfter(v)[1]
      BY <1>3, InAtNext, Zenon
    <2>4. x \in SetsAfter(v)[2] => x \notin SetsAfter(v)[0] /\ x \notin SetsAfter(v)[1]
      BY <1>5, Kinds, Zenon
    <2>5. In(x, 4, v)' <=> In(x, 4, v) \/ x \in SetsAfter(v)[2]
      BY <1>3, InAt, InAtNext, ZenonT(40)
    <2> QED BY <2>2, <2>3, <2>4, <2>5, Zenon
  <1>8. \A x \in Roots, k \in 1 .. 6, u \in VPs :
          u # v \/ k \notin {3, 4} => (In(x, k, u)' <=> In(x, k, u))
    BY <1>0, <1>3, SMTT(30), Z3 DEF In, Arrived
  <1>9. \A x \in Roots, j, k \in 1 .. 6, u \in VPs : In(x, j, u)' /\ In(x, k, u)' => j = k
    <2>1. \A x \in Roots, j, k \in 1 .. 6, u \in VPs : In(x, j, u) /\ In(x, k, u) => j = k
      BY Zenon DEF IInv, PlaceInv
    <2> SUFFICES ASSUME NEW x \in Roots, NEW j \in 1 .. 6, NEW k \in 1 .. 6, NEW u \in VPs,
                        In(x, j, u)', In(x, k, u)'
                 PROVE  j = k
      BY Zenon
    <2>2. 3 \in 1 .. 6 /\ 4 \in 1 .. 6
      BY Kinds, Zenon
    <2>3. CASE u = v /\ x \in SetsAfter(v)[2]
      <3>1. In(x, 3, v) /\ ~In(x, 3, v)'
        BY <1>7, <2>3, Zenon
      <3>2. \A i \in 1 .. 6 : In(x, i, v)' => i = 4
        BY <1>8, <2>1, <2>2, <3>1, Zenon
      <3> QED BY <2>3, <3>2, Zenon
    <2>4. CASE u # v \/ x \notin SetsAfter(v)[2]
      BY <1>7, <1>8, <2>1, <2>4, SMTT(30), Z3
    <2> QED BY <2>3, <2>4, Zenon
  <1>10. ASSUME NEW t \in Threads, NEW x \in Roots, Active(t), SetAged(t, x)
         PROVE  SetAged(t, x)'
    <2>1. CASE VPOf[t] = v
      <3>1. (x \in SetsAfter(v)[1] => gen'[t] = "prev") /\ x \notin SetsAfter(v)[2]
        BY <1>0, <1>t, <1>10, <2>1, SetsStep, Zenon
      <3> QED BY <1>3, <1>10, <2>1, <3>1, Zenon DEF SetAged
    <2>2. CASE VPOf[t] # v
      <3>1. gen'[t] = gen[t] /\ VPOf[t] \in VPs
        BY <1>0, <1>t, <2>2, GenStep, Facts, Zenon DEF TypeOK
      <3> QED BY <1>3, <1>10, <2>2, <3>1, Zenon DEF SetAged
    <2> QED BY <2>1, <2>2, Zenon
  <1>11. /\ \A x \in Roots, k \in 1 .. 6, u \in VPs : In(x, k, u)' =>
              \E j \in 1 .. 6 : In(x, j, u) /\ (j = k \/ (j \in {1, 3, 4} /\ k \in {1, 3, 4}))
         /\ \A x \in Roots, k \in 1 .. 6, u \in VPs : In(x, k, u) => \E j \in 1 .. 6 : In(x, j, u)'
    <2>1. 4 \in 1 .. 6 /\ 3 \in 1 .. 6
      BY Kinds, Zenon
    <2> QED BY <1>7, <1>8, <2>1, Zenon
  <1> QED BY <1>0, <1>4, <1>6, <1>9, <1>10, <1>11, LocalStep, Zenon

-----------------------------------------------------------------------------
(* The steps of checkCleanup that clean up. *)

LEMMA HaveTokenInv == ASSUME IInv, NEW v \in VPs, HaveToken(v) PROVE IInv'
  <1>t. TypeOK /\ Shape
    BY Zenon DEF IInv
  <1>0. /\ UNCHANGED <<tableVars, listVars, ringVars>> /\ UNCHANGED placeVars
        /\ UNCHANGED <<gen, hold, miss, using>>
        /\ at' = [at EXCEPT ![v] = IF token[v] = None THEN "idle" ELSE "remote"]
        /\ token[v] = None \/ seen[v]
    BY Zenon DEF HaveToken, listVars, ringVars, threadVars, placeVars
  <1>1. TypeOK'
    BY <1>0, <1>t, Zenon DEF TypeOK, tableVars, listVars, ringVars, Places
  <1>2. Shape'
    <2>1. \A u \in VPs : at'[u] = "remote" => seen[u]
      BY <1>0, <1>t, Zenon DEF TypeOK, Shape
    <2> QED BY <1>0, <1>t, <2>1, Zenon DEF Shape, placeVars
  <1>3. \A s \in Threads : (Aged(s)' <=> Aged(s)) /\ (Active(s)' <=> Active(s))
    BY <1>0, SameAge, Zenon DEF Active
  <1>4. ClaimInv'
    BY <1>0, ClaimKept, Zenon DEF IInv, tableVars
  <1>5. ThreadInv'
    <2> SUFFICES ASSUME NEW s \in Threads PROVE ThreadOK(s)'
      BY Zenon DEF ThreadInv
    <2> QED BY <1>0, <1>3, SameLists, TablesKept, HeldType, Zenon
            DEF IInv, ThreadInv, ThreadOK, tableVars
  <1>6. AgeInv'
    BY <1>0, <1>3, SameAge, SameLists, TablesKept, Zenon DEF IInv, AgeInv, Refers, tableVars
  <1> QED BY <1>0, <1>1, <1>2, <1>4, <1>5, <1>6, TablesKept, Zenon DEF IInv

(* What cleanup makes of a root. *)
LEMMA CleanedRoot ==
  ASSUME NEW o \in Roots, NEW v \in VPs, root[o] \in RootRecs
  PROVE  /\ root[o].reps \subseteq {v} => Cleanup(o, v) = None
         /\ ~(root[o].reps \subseteq {v}) =>
              /\ Cleanup(o, v) \in RootRecs /\ Cleanup(o, v) # None
              /\ Cleanup(o, v).ref = root[o].ref /\ Cleanup(o, v).trans = root[o].trans
              /\ Cleanup(o, v).reps = root[o].reps \ {v} /\ Cleanup(o, v).started
  <1>1. CASE root[o].reps \subseteq {v}
    BY <1>1, Zenon DEF Cleanup
  <1>2. CASE ~(root[o].reps \subseteq {v})
    <2>1. PICK x \in RootRecs : x = root[o]
      BY Zenon
    <2>2. Cleanup(o, v) = [[x EXCEPT !.reps = @ \ {v}] EXCEPT !.started = TRUE]
      BY <1>2, <2>1, Zenon DEF Cleanup
    <2>3. [x EXCEPT !.reps = @ \ {v}] \in RootRecs
      BY Zenon DEF RootRecs
    <2>4. PICK y \in RootRecs : y = [x EXCEPT !.reps = @ \ {v}]
      BY <2>3, Zenon
    <2>5. [y EXCEPT !.started = TRUE] \in RootRecs
      BY Zenon DEF RootRecs
    <2>6. y.ref = x.ref /\ y.trans = x.trans /\ y.reps = x.reps \ {v}
      BY <2>4, Zenon DEF RootRecs
    <2>7. PICK z \in RootRecs : z = [y EXCEPT !.started = TRUE]
      BY <2>5, Zenon
    <2>8. z.ref = y.ref /\ z.trans = y.trans /\ z.reps = y.reps /\ z.started
      BY <2>7, Zenon DEF RootRecs
    <2>9. Cleanup(o, v) = z
      BY <2>2, <2>4, <2>7, Zenon
    <2> QED BY <1>2, <2>1, <2>6, <2>8, <2>9, Facts, Zenon
  <1> QED BY <1>1, <1>2, Zenon

(* An object whose cleanup has started is on the vpCleanupLists only. *)
LEMMA DoVPCleanupInv == ASSUME IInv, NEW v \in VPs, DoVPCleanup(v) PROVE IInv'
  <1>t. TypeOK
    BY Zenon DEF IInv
  <1>p. PICK ready \in SUBSET Roots : ready = {o \in vpCleanup[v] : root[o].started}
    BY <1>t, Zenon DEF TypeOK
  <1>0. /\ UNCHANGED <<gen, hold, miss, using, lte, gte, stage1, delSets, tmpList, remList,
                       refLists, xfer, token, seen, age>>
        /\ UNCHANGED placeVars
    BY Zenon DEF DoVPCleanup, threadVars, ringVars, placeVars
  <1>r. /\ root' = [o \in Roots |-> IF o \in ready THEN Cleanup(o, v) ELSE root[o]]
        /\ vpCleanup' = [vpCleanup EXCEPT ![v] = @ \ ready]
        /\ at' = [at EXCEPT ![v] = "token"]
    BY <1>p, Zenon DEF DoVPCleanup
  <1>1. \A o \in ready : /\ root[o] # None /\ v \in root[o].reps /\ root[o].started
                         /\ root[o] \in RootRecs
    BY <1>p, <1>t, RootType, ZenonT(40) DEF IInv, VpInv
  <1>2. /\ \A o \in Roots : o \notin ready => root'[o] = root[o]
        /\ \A o \in ready : root[o].reps \subseteq {v} => root'[o] = None
        /\ \A o \in ready : ~(root[o].reps \subseteq {v}) =>
             /\ root'[o] \in RootRecs /\ root'[o] # None
             /\ root'[o].ref = root[o].ref /\ root'[o].trans = root[o].trans
             /\ root'[o].reps = root[o].reps \ {v} /\ root'[o].started
    <2>1. \A o \in ready : root'[o] = Cleanup(o, v)
      BY <1>r, Zenon
    <2> QED BY <1>r, <1>1, <2>1, CleanedRoot, Zenon
  <1>3. \A x \in Roots : (Live(x)' <=> Live(x)) /\ (Live(x) => root'[x] = root[x] /\ x \notin ready)
    BY <1>1, <1>2, Zenon DEF Live
  <1>4. TypeOK'
    <2>1. root' \in [Roots -> RootRecs \cup {None}]
      BY <1>r, <1>1, <1>t, CleanedRoot, ZenonT(40) DEF TypeOK
    <2>2. vpCleanup' \in [VPs -> SUBSET Roots] /\ at' \in [VPs -> Places]
      BY <1>r, <1>t, Zenon DEF TypeOK, Places
    <2> QED BY <1>0, <1>t, <2>1, <2>2, Zenon DEF TypeOK
  <1>5. /\ \A o \in Roots, k \in 1 .. 6, u \in VPs : In(o, k, u)' <=> In(o, k, u)
        /\ \A r \in Refs, k \in 1 .. 5, u \in VPs : RefIn(r, k, u)' <=> RefIn(r, k, u)
        /\ \A r \in Refs : MarkedRef(r)' <=> MarkedRef(r)
        /\ \A o \in Roots : MarkedObj(o)' <=> MarkedObj(o)
        /\ Circ' = Circ
        /\ \A s \in Threads : (Aged(s)' <=> Aged(s)) /\ (Active(s)' <=> Active(s))
        /\ \A s \in Threads, o \in Roots : SetAged(s, o)' <=> SetAged(s, o)
    <2>1. \A s \in Threads : (Aged(s)' <=> Aged(s)) /\ (Active(s)' <=> Active(s))
      BY <1>0, Zenon DEF Aged, Active
    <2>2. \A s \in Threads, o \in Roots : SetAged(s, o)' <=> SetAged(s, o)
      BY <1>0, Zenon DEF SetAged
    <2> QED BY <1>0, <2>1, <2>2, SameLists, Zenon
  <1>6. Shape'
    <2>1. \A u \in VPs : at'[u] = "remote" => at[u] = "remote"
      BY <1>r, <1>t, Zenon DEF TypeOK
    <2> QED BY <1>0, <2>1, Zenon DEF IInv, Shape
  <1>7. GteInv'
    <2>1. \A r \in Refs : gte[r].mh # None => gte[r].mh \in Roots
      BY <1>t, Zenon DEF TypeOK
    <2> QED BY <1>0, <1>3, <2>1, Zenon DEF IInv, GteInv
  <1>8. RootInv'
    <2> SUFFICES ASSUME NEW x \in Roots, root'[x] # None
                 PROVE  /\ root'[x].reps \subseteq root'[x].trans
                        /\ x \in MultiRep /\ ~root'[x].started => root'[x].reps = root'[x].trans
                        /\ x \notin MultiRep => root'[x].reps = {}
                        /\ ~root'[x].started =>
                             /\ gte'[root'[x].ref].mh = x
                             /\ gte'[root'[x].ref].destroying =>
                                  \E k \in 1 .. 6, u \in VPs : In(x, k, u)'
      BY Zenon DEF RootInv
    <2>0. root[x] # None
      BY <1>1, <1>2, Zenon
    <2>a. /\ root[x].reps \subseteq root[x].trans
          /\ x \in MultiRep /\ ~root[x].started => root[x].reps = root[x].trans
          /\ x \notin MultiRep => root[x].reps = {}
          /\ ~root[x].started =>
               /\ gte[root[x].ref].mh = x
               /\ gte[root[x].ref].destroying => \E k \in 1 .. 6, u \in VPs : In(x, k, u)
      BY <2>0, Zenon DEF IInv, RootInv
    <2>1. CASE x \in ready
      <3>1. /\ root'[x].trans = root[x].trans /\ root'[x].started
            /\ root'[x].reps = root[x].reps \ {v}
        BY <2>1, <1>2, Zenon
      <3> QED BY <2>a, <3>1, Zenon
    <2>2. CASE x \notin ready
      <3>1. root'[x] = root[x] /\ gte' = gte
        BY <2>2, <1>0, <1>2, Zenon
      <3>2. (\E k \in 1 .. 6, u \in VPs : In(x, k, u)) => \E k \in 1 .. 6, u \in VPs : In(x, k, u)'
        BY <1>5, Zenon
      <3> QED BY <2>a, <3>1, <3>2, Zenon
    <2> QED BY <2>1, <2>2, Zenon
  <1>9. PlaceInv'
    <2>1. \A x \in Roots, k \in 1 .. 6, u \in VPs : In(x, k, u) =>
            Live(x)' /\ root'[x] = root[x] /\ gte'[root[x].ref].destroying
      BY <1>0, <1>3, Zenon DEF IInv, PlaceInv
    <2> QED BY <1>0, <2>1, PlaceKept, Zenon DEF IInv
  <1>10. VpInv'
    <2> SUFFICES ASSUME NEW u \in VPs, NEW x \in vpCleanup'[u]
                 PROVE  /\ root'[x] # None /\ u \in root'[x].reps
                        /\ ~root'[x].started => \E rec \in Circ' : rec.root = x /\ u \notin rec.trans
      BY Zenon DEF VpInv
    <2>1. x \in vpCleanup[u] /\ x \in Roots /\ (u = v => x \notin ready)
      BY <1>r, <1>t, Zenon DEF TypeOK
    <2>2. root[x] # None /\ u \in root[x].reps
          /\ (~root[x].started => \E rec \in Circ : rec.root = x /\ u \notin rec.trans)
      BY <2>1, Zenon DEF IInv, VpInv
    <2>3. CASE x \in ready
      BY <1>2, <2>1, <2>2, <2>3, Zenon
    <2>4. CASE x \notin ready
      BY <1>2, <1>5, <2>1, <2>2, <2>4, Zenon
    <2> QED BY <2>3, <2>4, Zenon
  <1>11. LteInv'
    <2>2. ASSUME NEW u \in VPs, NEW q \in Refs, lte[u][q] # None
          PROVE  Live(lte[u][q])' /\ root'[lte[u][q]] = root[lte[u][q]]
      <3>1. PICK x : x = lte[u][q]
        BY Zenon
      <3>2. x \in Roots
        BY <1>t, <2>2, <3>1, SMTT(30), Z3 DEF TypeOK
      <3>3. Live(x)
        BY <2>2, <3>1, Zenon DEF IInv, LteInv
      <3>4. Live(x)' /\ root'[x] = root[x]
        BY <1>3, <3>2, <3>3, Zenon
      <3> QED BY <3>1, <3>4, <1>0, Zenon DEF Live
    <2>3. LteInv /\ UNCHANGED placeVars /\ lte' = lte
      BY <1>0, Zenon DEF IInv
    <2> QED BY <2>2, <2>3, LteKept, Zenon
  <1>12. \A rec \in Circ : rec.root # None => rec.root \in Roots /\ root'[rec.root] = root[rec.root]
    <2> SUFFICES ASSUME NEW rec \in Circ, rec.root # None
                 PROVE  rec.root \in Roots /\ root'[rec.root] = root[rec.root]
      BY Zenon
    <2>1. PICK u \in VPs : rec \in Arrived(u)
      BY <1>t, CircType, Zenon
    <2>2. rec.root \in Roots
      BY <1>t, CircType, Zenon DEF Recs
    <2>3. In(rec.root, 6, u) /\ 6 \in 1 .. 6
      BY <2>1, Kinds, Zenon DEF In
    <2>4. Live(rec.root)
      BY <2>2, <2>3, Zenon DEF IInv, PlaceInv
    <2> QED BY <1>3, <2>2, <2>4, Zenon
  <1>13. RecInv'
    BY <1>0, <1>12, RecKept, Zenon DEF IInv
  <1>14. RefInv'
    BY <1>0, <1>3, RefKept, Zenon DEF IInv
  <1>15. ClaimInv'
    BY <1>0, <1>12, ClaimKept, Zenon DEF IInv
  <1>16. ThreadInv'
    <2> SUFFICES ASSUME NEW s \in Threads PROVE ThreadOK(s)'
      BY Zenon DEF ThreadInv
    <2>1. ThreadOK(s) /\ (hold[s] # None => hold[s] \in Refs)
          /\ (using[s] # None => using[s] \in Roots)
      BY <1>t, HeldType, Zenon DEF IInv, ThreadInv
    <2> QED BY <1>0, <1>3, <1>5, <2>1, Zenon DEF ThreadOK
  <1>17. AgeInv'
    <2>1. \A s \in Threads, x \in Roots : Refers(s, x)' => Refers(s, x)
      BY <1>0, <1>3, Zenon DEF Refers
    <2> QED BY <1>5, <2>1, Zenon DEF IInv, AgeInv
  <1> QED BY <1>4, <1>6, <1>7, <1>8, <1>9, <1>10, <1>11, <1>13, <1>14, <1>15, <1>16, <1>17, Zenon DEF IInv

(* Objects that only one processor called are deleted there, and their     *)
(* references wait for the token.                                          *)
LEMMA CleanLocalInv == ASSUME IInv, NEW v \in VPs, CleanLocal(v) PROVE IInv'
  <1>t. TypeOK
    BY Zenon DEF IInv
  <1>p. PICK objs \in SUBSET Roots, dead \in SUBSET Refs :
          objs = tmpList[v] /\ dead = {root[o].ref : o \in tmpList[v]}
    <2>1. tmpList[v] \subseteq Roots
      BY <1>t, Zenon DEF TypeOK
    <2>2. \A o \in tmpList[v] : In(o, 4, v) /\ 4 \in 1 .. 6
      BY Kinds, Zenon DEF In
    <2>3. \A o \in tmpList[v] : root[o] # None
      BY <2>1, <2>2, Zenon DEF IInv, PlaceInv, Live
    <2> QED BY <1>t, <2>1, <2>3, RootType, Zenon
  <1>0. UNCHANGED <<gen, hold, miss, using, gte, stage1, delSets, remList, vpCleanup, xfer, token,
                    seen, age>>
    BY Zenon DEF CleanLocal, threadVars, ringVars
  <1>1. \A o \in objs :
          /\ Live(o) /\ root[o] \in RootRecs /\ root[o].ref \in dead
          /\ root[o].trans \subseteq {v} /\ root[o].reps \subseteq {v}
          /\ gte[root[o].ref].mh = o /\ gte[root[o].ref].destroying
          /\ \A k \in 1 .. 6, u \in VPs : In(o, k, u) => k = 4 /\ u = v
    <2> SUFFICES ASSUME NEW o \in objs
                 PROVE  /\ Live(o) /\ root[o] \in RootRecs /\ root[o].ref \in dead
                        /\ root[o].trans \subseteq {v} /\ root[o].reps \subseteq {v}
                        /\ gte[root[o].ref].mh = o /\ gte[root[o].ref].destroying
                        /\ \A k \in 1 .. 6, u \in VPs : In(o, k, u) => k = 4 /\ u = v
      BY Zenon
    <2>1. In(o, 4, v) /\ 4 \in 1 .. 6
      BY <1>p, Kinds, ZenonT(40) DEF In
    <2>2. /\ Live(o) /\ gte[root[o].ref].destroying /\ root[o].trans \subseteq {v}
          /\ \A k \in 1 .. 6, u \in VPs : In(o, k, u) => k = 4 /\ u = v
      BY <2>1, SMTT(30), Z3 DEF IInv, PlaceInv
    <2>3. root[o].reps \subseteq root[o].trans /\ gte[root[o].ref].mh = o
      BY <2>2, Zenon DEF IInv, RootInv, Live
    <2> QED BY <1>p, <1>t, <2>2, <2>3, RootType, Zenon DEF Live
  <1>2. \A r \in dead : /\ gte[r].destroying /\ gte[r].mh \in objs /\ root[gte[r].mh].ref = r
    BY <1>1, <1>p, SMTT(30), Z3
  <1>3. /\ \A o \in objs : root'[o] = None
        /\ \A o \in Roots : o \notin objs => root'[o] = root[o]
        /\ root' \in [Roots -> RootRecs \cup {None}]
    <2>1. root' = [o \in Roots |-> IF o \in objs THEN Cleanup(o, v) ELSE root[o]]
      BY <1>p, Zenon DEF CleanLocal
    <2>2. \A o \in objs : Cleanup(o, v) = None
      BY <1>1, CleanedRoot, Zenon
    <2> QED BY <1>t, <2>1, <2>2, Zenon DEF TypeOK
  <1>4. /\ \A r \in Refs : lte'[v][r] = IF r \in dead THEN None ELSE lte[v][r]
        /\ \A u \in VPs : u # v => lte'[u] = lte[u]
        /\ lte' \in [VPs -> [Refs -> Roots \cup {None}]]
    <2>1. lte' = [lte EXCEPT ![v] = [r \in Refs |-> IF r \in dead THEN None ELSE @[r]]]
      BY <1>p, Zenon DEF CleanLocal
    <2>2. lte \in [VPs -> [Refs -> Roots \cup {None}]]
      BY <1>t, Zenon DEF TypeOK
    <2> QED BY <2>1, <2>2, Zenon
  <1>5. /\ tmpList' \in [VPs -> SUBSET Roots] /\ tmpList'[v] = {}
        /\ \A u \in VPs : u # v => tmpList'[u] = tmpList[u]
        /\ at' \in [VPs -> Places] /\ \A u \in VPs : at'[u] = "remote" => at[u] = "remote"
    <2>1. tmpList' = [tmpList EXCEPT ![v] = {}] /\ at' = [at EXCEPT ![v] = "vpclean"]
      BY Zenon DEF CleanLocal
    <2> QED BY <1>t, <2>1, Zenon DEF TypeOK, Places
  <1>6. /\ refLists' \in [VPs -> [waitL : SUBSET Refs, waitR : SUBSET Refs, reclaim : SUBSET Refs]]
        /\ refLists'[v].waitL = refLists[v].waitL \cup {r \in dead : HomeOf[r] = v}
        /\ refLists'[v].waitR = refLists[v].waitR \cup {r \in dead : HomeOf[r] # v}
        /\ refLists'[v].reclaim = refLists[v].reclaim
        /\ \A u \in VPs : u # v => refLists'[u] = refLists[u]
    <2>1. refLists' = [refLists EXCEPT ![v].waitL = @ \cup {r \in dead : HomeOf[r] = v},
                                       ![v].waitR = @ \cup {r \in dead : HomeOf[r] # v}]
      BY <1>p, Zenon DEF CleanLocal
    <2>2. refLists \in [VPs -> [waitL : SUBSET Refs, waitR : SUBSET Refs, reclaim : SUBSET Refs]]
      BY <1>t, Zenon DEF TypeOK
    <2> QED BY <2>1, <2>2, Zenon
  <1>7. TypeOK'
    BY <1>0, <1>t, <1>3, <1>4, <1>5, <1>6, Zenon DEF TypeOK
  <1>8. \A x \in Roots, k \in 1 .. 6, u \in VPs : In(x, k, u)' <=> In(x, k, u) /\ x \notin objs
    <2> SUFFICES ASSUME NEW x \in Roots, NEW k \in 1 .. 6, NEW u \in VPs
                 PROVE  In(x, k, u)' <=> In(x, k, u) /\ x \notin objs
      BY Zenon
    <2>1. k # 4 \/ u # v => (In(x, k, u)' <=> In(x, k, u))
      BY <1>0, <1>5, Zenon DEF In, Arrived
    <2>2. ~In(x, 4, v)' /\ (In(x, 4, v) => x \in objs)
      BY <1>5, <1>p, Kinds, Zenon DEF In
    <2> QED BY <1>1, <2>1, <2>2, Zenon
  <1>9. \A r \in Refs, k \in 1 .. 5, u \in VPs :
          RefIn(r, k, u)' <=> \/ RefIn(r, k, u)
                              \/ r \in dead /\ u = v /\ k = IF HomeOf[r] = v THEN 1 ELSE 2
    <2> SUFFICES ASSUME NEW r \in Refs, NEW k \in 1 .. 5, NEW u \in VPs
                 PROVE  RefIn(r, k, u)' <=>
                          \/ RefIn(r, k, u)
                          \/ r \in dead /\ u = v /\ k = IF HomeOf[r] = v THEN 1 ELSE 2
      BY Zenon
    <2>1. Arrived(u)' = Arrived(u)
      BY <1>0, Zenon DEF Arrived
    <2>2. CASE u # v
      BY <1>0, <1>6, <2>1, <2>2, Zenon DEF RefIn
    <2>3. CASE u = v
      BY <1>0, <1>6, <2>1, <2>3, ZenonT(40) DEF RefIn
    <2> QED BY <2>2, <2>3, Zenon
  <1>10. /\ Circ' = Circ
         /\ \A u, w, h : Passed(u, w, h)' <=> Passed(u, w, h)
         /\ \A x \in Roots : MarkedObj(x)' <=> MarkedObj(x)
         /\ \A x \in Roots, u \in VPs : In(x, 6, u)' <=> In(x, 6, u)
         /\ \A u \in VPs : refLists'[u].reclaim = refLists[u].reclaim
         /\ \A s \in Threads : (Aged(s)' <=> Aged(s)) /\ (Active(s)' <=> Active(s))
    <2>1. \A u \in VPs : refLists'[u].reclaim = refLists[u].reclaim
      BY <1>6, Zenon
    <2> QED BY <1>0, <2>1, SMTT(30), Z3 DEF Arrived, Circ, Passed, In, MarkedObj, Aged, Active
  <1>11. \A r \in Refs : MarkedRef(r)' <=> MarkedRef(r)
    <2>1. \A r \in Refs, u \in VPs : /\ RefIn(r, 3, u)' <=> RefIn(r, 3, u)
                                     /\ RefIn(r, 4, u)' <=> RefIn(r, 4, u)
                                     /\ RefIn(r, 5, u)' <=> RefIn(r, 5, u)
      BY <1>9, Kinds, Zenon
    <2> QED BY <2>1, Zenon DEF MarkedRef
  <1>12. /\ \A x \in Roots : Live(x)' <=> Live(x) /\ x \notin objs
         /\ \A x \in Roots : Live(x)' => root'[x] = root[x]
    BY <1>3, Zenon DEF Live
  <1>13. \A r \in dead, k \in 1 .. 5, u \in VPs : ~RefIn(r, k, u)
    <2> SUFFICES ASSUME NEW r \in dead, NEW k \in 1 .. 5, NEW u \in VPs, RefIn(r, k, u)
                 PROVE  FALSE
      BY Zenon
    <2>1. Live(gte[r].mh) /\ gte[r].mh \in Roots /\ gte[r].mh \in objs /\ root[gte[r].mh].ref = r
      BY <1>1, <1>2, Zenon
    <2>2. \E w \in VPs : In(gte[r].mh, 6, w)
      BY <2>1, Zenon DEF IInv, RefInv
    <2>3. 6 \in 1 .. 6 /\ 6 # 4
      BY Kinds, Zenon
    <2> QED BY <1>1, <2>1, <2>2, <2>3, Zenon
  <1>14. \A rec \in Circ : rec.root \notin objs
    <2> SUFFICES ASSUME NEW rec \in Circ, rec.root \in objs PROVE FALSE
      BY Zenon
    <2>1. PICK u \in VPs : rec \in Arrived(u)
      BY <1>t, CircType, Zenon
    <2>2. In(rec.root, 6, u) /\ 6 \in 1 .. 6
      BY <2>1, Kinds, Zenon DEF In
    <2> QED BY <1>1, <2>2, Kinds, Zenon
  <1>15. \A rec \in Circ : rec.root # None => rec.root \in Roots /\ root'[rec.root] = root[rec.root]
    BY <1>3, <1>14, <1>t, CircType, Zenon DEF Recs
  <1>16. /\ \A s \in Threads : using[s] \notin objs
         /\ \A s \in Threads, x \in Roots : Refers(s, x)' => Refers(s, x)
         /\ \A s \in Threads, x \in Roots : SetAged(s, x) => SetAged(s, x)'
    <2>1. ASSUME NEW s \in Threads, using[s] \in objs PROVE FALSE
      <3>1. VPOf[s] = v /\ Refers(s, using[s]) /\ using[s] \in Roots
        <4>1. using[s] \in Roots /\ using[s] # None
          BY <1>p, <2>1, Facts, Zenon
        <4>2. VPOf[s] \in root[using[s]].trans
          BY <4>1, Zenon DEF IInv, ThreadInv, ThreadOK
        <4>3. VPOf[s] \in {v}
          BY <1>1, <2>1, <4>2, Zenon
        <4> QED BY <4>1, <4>3, Zenon DEF Refers
      <3>2. using[s] \notin tmpList[v]
        BY <3>1, Zenon DEF IInv, AgeInv, SetAged
      <3> QED BY <1>p, <2>1, <3>2, ZenonT(40)
    <2>2. \A s \in Threads, x \in Roots : Refers(s, x)' => Refers(s, x)
      BY <1>0, <1>12, Zenon DEF Refers
    <2>3. \A u \in VPs : tmpList'[u] \subseteq tmpList[u]
      BY <1>5, Zenon
    <2>4. \A s \in Threads, x \in Roots : SetAged(s, x) => SetAged(s, x)'
      BY <1>0, <2>3, Facts, Zenon DEF SetAged
    <2> QED BY <2>1, <2>2, <2>4, Zenon
  <1>17. Shape'
    BY <1>0, <1>5, Zenon DEF IInv, Shape
  <1>18. GteInv'
    <2>1. \A r \in Refs : ~gte[r].destroying /\ gte[r].mh # None =>
            gte[r].mh \in Roots /\ gte[r].mh \notin objs
      <3>1. \A r \in Refs : gte[r].mh # None => gte[r].mh \in Roots
        BY <1>t, Zenon DEF TypeOK
      <3>2. \A r \in Refs : ~gte[r].destroying /\ gte[r].mh # None => root[gte[r].mh].ref = r
        BY Zenon DEF IInv, GteInv
      <3> QED BY <1>1, <3>1, <3>2, Zenon
    <2> QED BY <1>0, <1>3, <1>12, <2>1, Zenon DEF IInv, GteInv
  <1>19. RootInv'
    <2>1. \A x \in Roots : root'[x] # None => root'[x] = root[x] /\ x \notin objs
      BY <1>3, Zenon
    <2>2. ASSUME NEW x \in Roots, x \notin objs, \E k \in 1 .. 6, u \in VPs : In(x, k, u)
          PROVE  \E k \in 1 .. 6, u \in VPs : In(x, k, u)'
      BY <1>8, <2>2, Zenon
    <2>3. gte' = gte
      BY <1>0, Zenon
    <2>4. ASSUME NEW x \in Roots, root'[x] # None
          PROVE  /\ root'[x].reps \subseteq root'[x].trans
                 /\ x \in MultiRep /\ ~root'[x].started => root'[x].reps = root'[x].trans
                 /\ x \notin MultiRep => root'[x].reps = {}
                 /\ ~root'[x].started =>
                      /\ gte'[root'[x].ref].mh = x
                      /\ gte'[root'[x].ref].destroying =>
                           \E k \in 1 .. 6, u \in VPs : In(x, k, u)'
      <3>1. root'[x] = root[x] /\ root[x] # None /\ x \notin objs
        BY <2>1, <2>4, Zenon
      <3>2. /\ root[x].reps \subseteq root[x].trans
            /\ x \in MultiRep /\ ~root[x].started => root[x].reps = root[x].trans
            /\ x \notin MultiRep => root[x].reps = {}
            /\ ~root[x].started =>
                 /\ gte[root[x].ref].mh = x
                 /\ gte[root[x].ref].destroying => \E k \in 1 .. 6, u \in VPs : In(x, k, u)
        BY <3>1, Zenon DEF IInv, RootInv
      <3> QED BY <2>2, <2>3, <3>1, <3>2, Zenon
    <2> QED BY <2>4, Zenon DEF RootInv
  <1>20. PlaceInv'
    <2>1. \A x \in Roots, k \in 1 .. 6, u \in VPs : In(x, k, u)' =>
            In(x, k, u) /\ x \notin objs /\ root'[x] = root[x]
      BY <1>3, <1>8, Zenon
    <2>2. gte' = gte
      BY <1>0, Zenon
    <2>3. ASSUME NEW x \in Roots, NEW k \in 1 .. 6, NEW u \in VPs, In(x, k, u)'
          PROVE  /\ Live(x)' /\ gte'[root'[x].ref].destroying
                 /\ k \in {1, 3, 4} => root'[x].trans \subseteq {u}
                 /\ k \in {2, 5} => ~(root'[x].trans \subseteq {u})
                 /\ \A j \in 1 .. 6, w \in VPs : In(x, j, w)' => j = k /\ w = u
      <3>1. In(x, k, u) /\ x \notin objs /\ root'[x] = root[x]
        BY <2>1, <2>3, Zenon
      <3>2. /\ Live(x) /\ gte[root[x].ref].destroying
            /\ k \in {1, 3, 4} => root[x].trans \subseteq {u}
            /\ k \in {2, 5} => ~(root[x].trans \subseteq {u})
            /\ \A j \in 1 .. 6, w \in VPs : In(x, j, w) => j = k /\ w = u
        BY <3>1, Zenon DEF IInv, PlaceInv
      <3>3. Live(x)'
        BY <1>12, <3>1, <3>2, Zenon
      <3>4. \A j \in 1 .. 6, w \in VPs : In(x, j, w)' => j = k /\ w = u
        BY <2>1, <3>2, ZenonT(40)
      <3> QED BY <2>2, <3>1, <3>2, <3>3, <3>4, Zenon
    <2> QED BY <2>3, Zenon DEF PlaceInv
  <1>21. VpInv'
    <2> SUFFICES ASSUME NEW u \in VPs, NEW x \in vpCleanup'[u]
                 PROVE  /\ root'[x] # None /\ u \in root'[x].reps
                        /\ ~root'[x].started => \E rec \in Circ' : rec.root = x /\ u \notin rec.trans
      BY Zenon DEF VpInv
    <2>1. x \in vpCleanup[u] /\ x \in Roots
      BY <1>0, <1>t, Zenon DEF TypeOK
    <2>2. root[x] # None /\ u \in root[x].reps
          /\ (~root[x].started => \E rec \in Circ : rec.root = x /\ u \notin rec.trans)
      BY <2>1, Zenon DEF IInv, VpInv
    <2>3. x \notin objs
      BY <1>1, <1>14, <2>2, Zenon DEF Live
    <2> QED BY <1>3, <1>10, <2>1, <2>2, <2>3, Zenon
  <1>22. LteInv'
    <2> SUFFICES ASSUME NEW u \in VPs, NEW q \in Refs, lte'[u][q] # None
                 PROVE  /\ Live(lte[u][q])' /\ root'[lte'[u][q]].ref = q
                        /\ u \in root'[lte'[u][q]].trans
                        /\ \A rec \in Circ' : rec.root = lte'[u][q] => u \in rec.trans
      BY Zenon DEF LteInv
    <2>1. lte'[u][q] = lte[u][q] /\ lte[u][q] \in Roots /\ (u = v => q \notin dead)
      BY <1>4, <1>t, SMTT(30), Z3 DEF TypeOK
    <2>2. /\ Live(lte[u][q]) /\ root[lte[u][q]].ref = q
          /\ u \in root[lte[u][q]].trans
          /\ \A rec \in Circ : rec.root = lte[u][q] => u \in rec.trans
      BY <2>1, Zenon DEF IInv, LteInv
    <2>3. lte[u][q] \notin objs
      BY <1>1, <2>1, <2>2, Zenon
    <2> QED BY <1>3, <1>10, <1>12, <2>1, <2>2, <2>3, Zenon
  <1>23. RecInv'
    <2>1. \A q, u : u \in VPs => (RefIn(q, 5, u)' <=> RefIn(q, 5, u))
      <3>1. \A q, u : RefIn(q, 5, u) <=> q \in refLists[u].reclaim
        BY Kinds, Zenon DEF RefIn
      <3>2. \A q, u : RefIn(q, 5, u)' <=> q \in refLists'[u].reclaim
        BY Kinds, Zenon DEF RefIn
      <3> QED BY <1>10, <3>1, <3>2, Zenon
    <2>2. \A rec \in Circ : rec.root # None => HomeOf[root[rec.root].ref] \in VPs
      <3>1. \A rec \in Circ : rec.root # None => root[rec.root] # None
        <4> SUFFICES ASSUME NEW rec \in Circ, rec.root # None PROVE root[rec.root] # None
          BY Zenon
        <4>1. PICK u \in VPs : rec \in Arrived(u)
          BY <1>t, CircType, Zenon
        <4>2. 6 \in 1 .. 6
          BY Kinds, Zenon
        <4>3. In(rec.root, 6, u)
          BY <4>1, Zenon DEF In
        <4> QED BY <1>15, <4>2, <4>3, ZenonT(40) DEF IInv, PlaceInv, Live
      <3> QED BY <3>1, <1>15, <1>t, RootType, Facts, Zenon
    <2>3. RecInv /\ Circ' = Circ /\ xfer' = xfer /\ seen' = seen
      BY <1>0, <1>10, Zenon DEF IInv
    <2> QED BY <1>15, <2>1, <2>2, <2>3, RecSame, Zenon
  <1>24. RefInv'
    <2> SUFFICES ASSUME NEW r \in Refs, NEW k \in 1 .. 5, NEW u \in VPs, RefIn(r, k, u)'
                 PROVE  /\ gte'[r].destroying
                        /\ k \in {1, 5} => HomeOf[r] = u
                        /\ \A j \in 1 .. 5, w \in VPs : RefIn(r, j, w)' => j = k /\ w = u
                        /\ \A o \in Roots : Live(o)' /\ root'[o].ref = r =>
                             k \in {3, 5} /\ \E w \in VPs : In(o, 6, w)'
      BY Zenon DEF RefInv
    <2>1. CASE r \in dead
      <3>1. u = v /\ k = (IF HomeOf[r] = v THEN 1 ELSE 2)
        BY <1>9, <1>13, <2>1, Zenon
      <3>2. \A j \in 1 .. 5, w \in VPs : RefIn(r, j, w)' =>
              w = v /\ j = (IF HomeOf[r] = v THEN 1 ELSE 2)
        BY <1>9, <1>13, <2>1, Zenon
      <3>3. \A o \in Roots : ~(Live(o)' /\ root'[o].ref = r)
        <4> SUFFICES ASSUME NEW o \in Roots, Live(o)', root'[o].ref = r PROVE FALSE
          BY Zenon
        <4>1. Live(o) /\ root[o].ref = r /\ o \notin objs
          BY <1>12, Zenon
        <4>2. gte[r].mh = o
          BY <4>1, Zenon DEF IInv, RootInv, Live
        <4> QED BY <1>2, <2>1, <4>1, <4>2, Zenon
      <3> QED BY <1>0, <1>2, <2>1, <3>1, <3>2, <3>3, Kinds, Zenon
    <2>2. CASE r \notin dead
      <3>1. RefIn(r, k, u) /\ \A j \in 1 .. 5, w \in VPs : RefIn(r, j, w)' => RefIn(r, j, w)
        BY <1>9, <2>2, Zenon
      <3>2. /\ gte[r].destroying
            /\ k \in {1, 5} => HomeOf[r] = u
            /\ \A j \in 1 .. 5, w \in VPs : RefIn(r, j, w) => j = k /\ w = u
            /\ \A o \in Roots : Live(o) /\ root[o].ref = r =>
                 k \in {3, 5} /\ \E w \in VPs : In(o, 6, w)
        BY <3>1, Zenon DEF IInv, RefInv
      <3>3. \A o \in Roots : Live(o)' /\ root'[o].ref = r =>
              k \in {3, 5} /\ \E w \in VPs : In(o, 6, w)'
        BY <1>10, <1>12, <3>2, Zenon
      <3> QED BY <1>0, <3>1, <3>2, <3>3, Zenon
    <2> QED BY <2>1, <2>2, Zenon
  <1>25. ClaimInv'
    <2> SUFFICES ASSUME NEW u \in VPs, NEW h \in VPs, token[h] # None,
                        NEW r \in refLists[u].reclaim
                 PROVE  /\ \A s \in Threads : hold'[s] = r => ~Passed(u, VPOf[s], h)'
                        /\ \A rec \in Circ : rec.root # None /\ root'[rec.root].ref = r =>
                             \A w \in rec.trans : ~Passed(u, w, h)'
      BY <1>0, <1>10, Zenon DEF ClaimInv
    <2>1. /\ \A s \in Threads : hold[s] = r => ~Passed(u, VPOf[s], h)
          /\ \A rec \in Circ : rec.root # None /\ root[rec.root].ref = r =>
               \A w \in rec.trans : ~Passed(u, w, h)
      BY Zenon DEF IInv, ClaimInv
    <2> QED BY <1>0, <1>10, <1>15, <2>1, Zenon
  <1>26. ThreadInv'
    <2> SUFFICES ASSUME NEW s \in Threads PROVE ThreadOK(s)'
      BY Zenon DEF ThreadInv
    <2>1. ThreadOK(s) /\ (hold[s] # None => hold[s] \in Refs)
          /\ (using[s] # None => using[s] \in Roots)
      BY <1>t, HeldType, Zenon DEF IInv, ThreadInv
    <2>2. using[s] # None => (Live(using[s])' <=> Live(using[s])) /\ root'[using[s]] = root[using[s]]
      BY <1>0, <1>3, <1>16, <2>1, Zenon DEF Live
    <2> QED BY <1>0, <1>10, <1>11, <2>1, <2>2, Zenon DEF ThreadOK
  <1>27. AgeInv'
    BY <1>10, <1>16, Zenon DEF IInv, AgeInv
  <1> QED BY <1>7, <1>17, <1>18, <1>19, <1>20, <1>21, <1>22, <1>23, <1>24, <1>25, <1>26, <1>27, ZenonT(40)
          DEF IInv

(* A record in circulation names an object that is not cleaned up yet. *)
LEMMA CircLive ==
  ASSUME IInv, NEW rec \in Circ, rec.root # None
  PROVE  /\ rec.root \in Roots /\ Live(rec.root) /\ root[rec.root].ref \in Refs
         /\ HomeOf[root[rec.root].ref] \in VPs
         /\ \E u \in VPs : In(rec.root, 6, u)
  <1>t. TypeOK
    BY Zenon DEF IInv
  <1>1. PICK u \in VPs : rec \in Arrived(u)
    BY <1>t, CircType, Zenon
  <1>2. rec.root \in Roots
    BY <1>t, CircType, Zenon DEF Recs
  <1>3. In(rec.root, 6, u) /\ 6 \in 1 .. 6
    BY <1>1, Kinds, Zenon DEF In
  <1>4. Live(rec.root)
    BY <1>2, <1>3, Zenon DEF IInv, PlaceInv
  <1> QED BY <1>t, <1>2, <1>3, <1>4, RootType, Facts, Zenon DEF Live

(* The holder frees what has waited for a full round of the token, and     *)
(* hands on what has not.                                                  *)
LEMMA NoteTokenInv == ASSUME IInv, NEW v \in VPs, NoteToken(v) PROVE IInv'
  <1>t. TypeOK /\ Shape
    BY Zenon DEF IInv
  <1>0. /\ UNCHANGED <<gen, hold, miss, using, lte, root, delSets, tmpList, vpCleanup, token>>
        /\ token[v] # None /\ ~seen[v]
    BY Zenon DEF NoteToken, threadVars
  <1>1. /\ \A u \in VPs : token[u] # None => u = v
        /\ \A u \in VPs : ~seen[u] /\ remList[u] = {}
    BY <1>0, <1>t, Zenon DEF Shape
  <1>p. PICK F \in SUBSET Refs : F = refLists[v].reclaim
    BY <1>t, Zenon DEF TypeOK
  <1>2. /\ gte' \in [Refs -> [mh : Roots \cup {None}, destroying : BOOLEAN]]
        /\ \A r \in F : gte'[r].mh = None /\ gte'[r].destroying = FALSE
        /\ \A r \in Refs : r \notin F => gte'[r] = gte[r]
    <2>1. gte' = [r \in Refs |-> IF r \in F THEN FreeEntry ELSE gte[r]]
      BY <1>p, Zenon DEF NoteToken
    <2> QED BY <1>t, <2>1, Zenon DEF TypeOK, FreeEntry
  <1>3. /\ refLists' \in [VPs -> [waitL : SUBSET Refs, waitR : SUBSET Refs, reclaim : SUBSET Refs]]
        /\ refLists'[v].waitL = {} /\ refLists'[v].waitR = {}
        /\ refLists'[v].reclaim = refLists[v].waitL
        /\ \A u \in VPs : u # v => refLists'[u] = refLists[u]
    <2>1. refLists' = [refLists EXCEPT ![v] =
                         [waitL |-> {}, waitR |-> {}, reclaim |-> refLists[v].waitL]]
      BY Zenon DEF NoteToken
    <2>2. refLists \in [VPs -> [waitL : SUBSET Refs, waitR : SUBSET Refs, reclaim : SUBSET Refs]]
      BY <1>t, ZenonT(40) DEF TypeOK
    <2> QED BY <2>1, <2>2, Zenon
  <1>4. /\ xfer' \in [VPs -> SUBSET Recs]
        /\ \A rec \in xfer'[v] : /\ rec.root = None /\ rec.trans = {} /\ rec.reps = {}
                                 /\ rec.ref \in refLists[v].waitR
        /\ \A r \in refLists[v].waitR : \E rec \in xfer'[v] : rec.ref = r
        /\ \A u \in VPs : u # v => xfer'[u] = xfer[u]
    <2>1. xfer' = [xfer EXCEPT ![v] = {[root |-> None, ref |-> r, trans |-> {}, reps |-> {}]
                                         : r \in refLists[v].waitR}]
      BY Zenon DEF NoteToken
    <2>2. xfer \in [VPs -> SUBSET Recs] /\ refLists[v].waitR \subseteq Refs
      BY <1>t, Zenon DEF TypeOK
    <2>3. xfer'[v] = {[root |-> None, ref |-> r, trans |-> {}, reps |-> {}]
                                         : r \in refLists[v].waitR}
      BY <2>1, <2>2, Zenon
    <2>4. \A r \in Refs : [root |-> None, ref |-> r, trans |-> {}, reps |-> {}] \in Recs
      BY Zenon DEF Recs
    <2>5. xfer'[v] \subseteq Recs
      BY <2>2, <2>3, <2>4, Zenon
    <2>6. xfer' \in [VPs -> SUBSET Recs]
      <3>1. \A u \in VPs : u # v => xfer'[u] = xfer[u]
        BY <2>1, <2>2, Zenon
      <3>2. xfer' = [u \in VPs |-> xfer'[u]]
        BY <2>1, <2>2, Zenon
      <3> QED BY <2>2, <2>5, <3>1, <3>2, Zenon
    <2>7. \A r \in refLists[v].waitR : \E rec \in xfer'[v] : rec.ref = r
      <3> SUFFICES ASSUME NEW r \in refLists[v].waitR PROVE \E rec \in xfer'[v] : rec.ref = r
        BY Zenon
      <3>1. [root |-> None, ref |-> r, trans |-> {}, reps |-> {}] \in xfer'[v]
        BY <2>3, Zenon
      <3> QED BY <3>1, Zenon
    <2>8. ASSUME NEW rec \in xfer'[v]
          PROVE  rec.root = None /\ rec.trans = {} /\ rec.reps = {} /\ rec.ref \in refLists[v].waitR
      <3>1. PICK r \in refLists[v].waitR :
                   rec = [root |-> None, ref |-> r, trans |-> {}, reps |-> {}]
        BY <2>3, <2>8, Zenon
      <3> QED BY <3>1, Zenon
    <2>9. \A u \in VPs : u # v => xfer'[u] = xfer[u]
      BY <2>1, <2>2, Zenon
    <2> QED BY <2>6, <2>7, <2>8, <2>9, Zenon
  <1>5. /\ remList' \in [VPs -> SUBSET Roots] /\ remList'[v] = stage1[v].remote
        /\ \A u \in VPs : u # v => remList'[u] = remList[u]
        /\ stage1' \in [VPs -> [local : SUBSET Roots, remote : SUBSET Roots]]
        /\ stage1'[v].local = stage1[v].local /\ stage1'[v].remote = {}
        /\ \A u \in VPs : u # v => stage1'[u] = stage1[u]
    <2>1. remList' = [remList EXCEPT ![v] = stage1[v].remote]
          /\ stage1' = [stage1 EXCEPT ![v].remote = {}]
      BY Zenon DEF NoteToken
    <2>2. remList \in [VPs -> SUBSET Roots]
          /\ stage1 \in [VPs -> [local : SUBSET Roots, remote : SUBSET Roots]]
      BY <1>t, Zenon DEF TypeOK
    <2> QED BY <2>1, <2>2, Zenon
  <1>6. /\ seen' \in [VPs -> BOOLEAN] /\ seen'[v] /\ \A u \in VPs : u # v => ~seen'[u]
        /\ age' \in [VPs -> 0 .. 2] /\ age'[v] = 0
        /\ at' \in [VPs -> Places] /\ \A u \in VPs : u # v => at'[u] = at[u]
    <2>1. seen' = [seen EXCEPT ![v] = TRUE] /\ age' = [age EXCEPT ![v] = 0]
          /\ at' = [at EXCEPT ![v] = "remote"]
      BY Zenon DEF NoteToken
    <2>2. seen \in [VPs -> BOOLEAN] /\ age \in [VPs -> 0 .. 2] /\ at \in [VPs -> Places]
      BY <1>t, Zenon DEF TypeOK
    <2>3. 0 \in 0 .. 2 /\ "remote" \in Places
      BY Kinds, Zenon DEF Places
    <2> QED BY <1>1, <2>1, <2>2, <2>3, Zenon
  <1>7. TypeOK'
    BY <1>0, <1>t, <1>2, <1>3, <1>4, <1>5, <1>6, Zenon DEF TypeOK
  <1>8. Shape'
    <2>1. \A u \in VPs : seen'[u] => u = v
      BY <1>6, Zenon
    <2>2. \A u \in VPs : remList'[u] # {} => u = v
      BY <1>1, <1>5, Zenon
    <2>3. \A u \in VPs : at'[u] = "remote" => u = v
      BY <1>1, <1>6, <1>t, Zenon DEF Shape
    <2>4. UNCHANGED <<token, delSets>>
      BY <1>0, Zenon
    <2>5. seen'[v] /\ token[v] # None
      BY <1>0, <1>6, Zenon
    <2> QED BY <1>t, <2>1, <2>2, <2>3, <2>4, <2>5, Zenon DEF Shape
  <1>9. (\A u \in VPs : Arrived(u)' = Arrived(u)) /\ Circ' = Circ
    <2>0. /\ token' = token /\ \A u \in VPs : token[u] # None => u = v /\ token[u] \in VPs
          /\ \A u \in VPs : u # v => xfer'[u] = xfer[u]
      <3>1. token \in [VPs -> VPs \cup {None}]
        BY <1>t, Zenon DEF TypeOK
      <3>2. \A u \in VPs : token[u] # None => token[u] \in VPs
        BY <3>1, Zenon
      <3> QED BY <1>0, <1>1, <1>4, <3>2, Zenon
    <2>1. \A u \in VPs : Arrived(u)' = Arrived(u)
      BY <2>0, Zenon DEF Arrived
    <2> QED BY <2>1, ZenonT(40) DEF Circ
  <1>10. \A x \in Roots, k \in 1 .. 6, u \in VPs :
           In(x, k, u)' <=> \/ u # v /\ In(x, k, u)
                            \/ u = v /\ k \notin {2, 5} /\ In(x, k, u)
                            \/ u = v /\ k = 5 /\ In(x, 2, u)
    <2> SUFFICES ASSUME NEW x \in Roots, NEW k \in 1 .. 6, NEW u \in VPs
                 PROVE  In(x, k, u)' <=> \/ u # v /\ In(x, k, u)
                                         \/ u = v /\ k \notin {2, 5} /\ In(x, k, u)
                                         \/ u = v /\ k = 5 /\ In(x, 2, u)
      BY Zenon
    <2>1. CASE u # v
      BY <1>0, <1>5, <1>9, <2>1, Zenon DEF In
    <2>2. CASE u = v
      <3>1. UNCHANGED <<delSets, tmpList>> /\ Arrived(u)' = Arrived(u)
        BY <1>0, <1>9, Zenon
      <3>2. /\ stage1'[u].local = stage1[u].local /\ stage1'[u].remote = {}
            /\ remList'[u] = stage1[u].remote
        BY <1>5, <2>2, Zenon
      <3> QED BY <2>2, <3>1, <3>2, Kinds, Zenon DEF In
    <2> QED BY <2>1, <2>2, Zenon
  <1>11. \A r \in Refs, k \in 1 .. 5, u \in VPs :
           RefIn(r, k, u)' <=> \/ u # v /\ RefIn(r, k, u)
                               \/ u = v /\ k = 3 /\ RefIn(r, 3, u)
                               \/ u = v /\ k = 4 /\ RefIn(r, 2, u)
                               \/ u = v /\ k = 5 /\ RefIn(r, 1, u)
    <2> SUFFICES ASSUME NEW r \in Refs, NEW k \in 1 .. 5, NEW u \in VPs
                 PROVE  RefIn(r, k, u)' <=> \/ u # v /\ RefIn(r, k, u)
                                            \/ u = v /\ k = 3 /\ RefIn(r, 3, u)
                                            \/ u = v /\ k = 4 /\ RefIn(r, 2, u)
                                            \/ u = v /\ k = 5 /\ RefIn(r, 1, u)
      BY Zenon
    <2>1. CASE u # v
      BY <1>1, <1>3, <1>6, <1>9, <2>1, ZenonT(40) DEF RefIn
    <2>2. CASE u = v
      <3>1. RefIn(r, 4, v)' <=> RefIn(r, 2, v)
        <4>1. (\E rec \in xfer'[v] : rec.ref = r) <=> r \in refLists[v].waitR
          BY <1>4, Zenon
        <4>2. RefIn(r, 2, v) <=> r \in refLists[v].waitR
          BY RefInAt, Zenon
        <4>3. RefIn(r, 4, v)' <=> seen'[v] /\ \E rec \in xfer'[v] : rec.ref = r
          BY RefInAtNext, Zenon
        <4> QED BY <1>6, <4>1, <4>2, <4>3, Zenon
      <3>2. ~RefIn(r, 1, v)' /\ ~RefIn(r, 2, v)' /\ (RefIn(r, 5, v)' <=> RefIn(r, 1, v))
        <4>1. RefIn(r, 1, v) <=> r \in refLists[v].waitL
          BY RefInAt, Zenon
        <4>2. /\ RefIn(r, 1, v)' <=> r \in refLists'[v].waitL
              /\ RefIn(r, 2, v)' <=> r \in refLists'[v].waitR
              /\ RefIn(r, 5, v)' <=> r \in refLists'[v].reclaim
          BY RefInAtNext, Zenon
        <4> QED BY <1>3, <4>1, <4>2, Zenon
      <3>3. RefIn(r, 3, v)' <=> RefIn(r, 3, v)
        <4>1. RefIn(r, 3, v) <=> \E rec \in Arrived(v) : rec.ref = r
          BY RefInAt, Zenon
        <4>2. RefIn(r, 3, v)' <=> \E rec \in Arrived(v)' : rec.ref = r
          BY RefInAtNext, Zenon
        <4>3. Arrived(v)' = Arrived(v)
          BY <1>9, Zenon
        <4> QED BY <4>1, <4>2, <4>3, Zenon
      <3>4. k = 1 \/ k = 2 \/ k = 3 \/ k = 4 \/ k = 5
        BY Kinds, Zenon
      <3> QED BY <2>2, <3>1, <3>2, <3>3, <3>4, Kinds, Zenon
    <2> QED BY <2>1, <2>2, Zenon
  <1>12. \A r \in F :
           /\ RefIn(r, 5, v)
           /\ \A s \in Threads : hold[s] # r
           /\ \A x \in Roots : Live(x) => root[x].ref # r
    <2> SUFFICES ASSUME NEW r \in F
                 PROVE  /\ RefIn(r, 5, v)
                        /\ \A s \in Threads : hold[s] # r
                        /\ \A x \in Roots : Live(x) => root[x].ref # r
      BY Zenon
    <2>1. RefIn(r, 5, v) /\ 5 \in 1 .. 5
      BY <1>p, Kinds, Zenon DEF RefIn
    <2>2. \A w : Passed(v, w, v)
      BY <1>0, Zenon DEF Passed
    <2>3. \A s \in Threads : hold[s] # r
      BY <1>0, <1>p, <2>2, Zenon DEF IInv, ClaimInv
    <2>4. ASSUME NEW x \in Roots, Live(x), root[x].ref = r PROVE FALSE
      <3>1. PICK u \in VPs : In(x, 6, u)
        BY <2>1, <2>4, Zenon DEF IInv, RefInv
      <3>2. PICK rec \in Circ : rec.root = x
        BY <3>1, Kinds, Zenon DEF In, Circ
      <3>3. x # None
        BY NullAssumption, Zenon
      <3>a. token[v] # None /\ r \in refLists[v].reclaim /\ rec.root # None /\ root[rec.root].ref = r
        BY <1>0, <1>p, <2>4, <3>2, <3>3, Zenon
      <3>4. \A w \in rec.trans : ~Passed(v, w, v)
        BY <3>a, Zenon DEF IInv, ClaimInv
      <3>5. rec.trans # {}
        BY <3>2, <3>3, Zenon DEF IInv, RecInv
      <3> QED BY <2>2, <3>4, <3>5, Zenon
    <2> QED BY <2>1, <2>3, <2>4, Zenon
  <1>13. /\ \A x \in Roots : Live(x)' <=> Live(x)
         /\ \A x \in Roots : Live(x) => gte'[root[x].ref] = gte[root[x].ref]
         /\ \A s \in Threads : hold[s] # None => gte'[hold[s]] = gte[hold[s]]
         /\ \A r \in Refs, k \in 1 .. 5, u \in VPs : RefIn(r, k, u)' => gte'[r] = gte[r]
    <2>1. \A x \in Roots : Live(x)' <=> Live(x)
      BY <1>0, Zenon DEF Live
    <2>2. \A x \in Roots : Live(x) => gte'[root[x].ref] = gte[root[x].ref]
      BY <1>2, <1>12, <1>t, RootType, Zenon DEF Live
    <2>3. \A s \in Threads : hold[s] # None => gte'[hold[s]] = gte[hold[s]]
      BY <1>2, <1>12, <1>t, HeldType, Zenon
    <2>4. ASSUME NEW r \in F, NEW k \in 1 .. 5, NEW u \in VPs, RefIn(r, k, u)' PROVE FALSE
      <3>1. \A j \in 1 .. 5, w \in VPs : RefIn(r, j, w) => j = 5 /\ w = v
        <4>1. RefIn(r, 5, v) /\ 5 \in 1 .. 5
          BY <1>p, <2>4, RefInAt, Kinds, Zenon
        <4> QED BY <4>1, ZenonT(40) DEF IInv, RefInv
      <3> QED BY <1>11, <2>4, <3>1, Kinds, Zenon
    <2> QED BY <1>2, <2>1, <2>2, <2>3, <2>4, Zenon
  <1>14. /\ \A s \in Threads : Aged(s)' /\ (Active(s)' <=> Active(s))
         /\ \A s \in Threads, x \in Roots : (Refers(s, x)' <=> Refers(s, x))
                                             /\ (SetAged(s, x)' <=> SetAged(s, x))
    <2>1. \A s \in Threads : Aged(s)'
      <3>1. \A s \in Threads : VPOf[s] \in VPs
        BY Facts, Zenon
      <3>2. \A s \in Threads : VPOf[s] # v => ~seen'[VPOf[s]]
        BY <1>6, <3>1, Zenon
      <3>3. \A s \in Threads : VPOf[s] = v => age'[VPOf[s]] = 0
        BY <1>6, Zenon
      <3> QED BY <3>2, <3>3, Kinds, Zenon DEF Aged
    <2> QED BY <1>0, <2>1, Zenon DEF Active, Refers, SetAged, Live
  <1>15. GteInv'
    <2>1. \A r \in Refs : gte'[r].mh # None => gte'[r] = gte[r]
      BY <1>2, Zenon
    <2>2. \A r \in Refs : gte[r].mh # None => gte[r].mh \in Roots
      BY <1>t, Zenon DEF TypeOK
    <2>3. \A r \in Refs : gte'[r].mh # None \/ ~gte'[r].destroying
      BY <1>2, <2>1, Zenon DEF IInv, GteInv, FreeEntry
    <2>4. ASSUME NEW r \in Refs, gte'[r].mh # None, ~gte'[r].destroying
          PROVE  Live(gte[r].mh)' /\ root'[gte'[r].mh].ref = r
      <3>1. PICK x \in Roots : x = gte[r].mh /\ x = gte'[r].mh
        BY <2>1, <2>2, <2>4, Zenon
      <3>2. Live(x) /\ root[x].ref = r
        BY <2>1, <2>4, <3>1, Zenon DEF IInv, GteInv
      <3>3. Live(x)' /\ root'[x].ref = r
        BY <1>0, <1>13, <3>2, Zenon
      <3> QED BY <3>1, <3>3, Zenon DEF Live
    <2> QED BY <2>3, <2>4, Zenon DEF GteInv
  <1>16. RootInv'
    <2>1. ASSUME NEW x \in Roots, \E k \in 1 .. 6, u \in VPs : In(x, k, u)
          PROVE  \E k \in 1 .. 6, u \in VPs : In(x, k, u)'
      <3>1. PICK k \in 1 .. 6, u \in VPs : In(x, k, u)
        BY <2>1, Zenon
      <3>2. CASE u = v /\ k = 2
        <4>1. In(x, 2, v) /\ 5 \in 1 .. 6
          BY <3>1, <3>2, Kinds, Zenon
        <4>2. In(x, 5, v)'
          BY <1>10, <4>1, Zenon
        <4> QED BY <4>1, <4>2, Zenon
      <3>3. CASE u = v /\ k = 5
        <4>1. In(x, 5, v) <=> x \in remList[v]
          BY InAt, Zenon
        <4> QED BY <1>1, <3>1, <3>3, <4>1, Zenon
      <3> QED BY <1>10, <3>1, <3>2, <3>3, Zenon
    <2>2. \A x \in Roots : root[x] # None /\ ~root[x].started => Live(x)
      BY Zenon DEF Live
    <2>3. root' = root
      BY <1>0, Zenon
    <2>4. ASSUME NEW x \in Roots, root'[x] # None, ~root'[x].started
          PROVE  /\ gte'[root'[x].ref].mh = x
                 /\ gte'[root'[x].ref].destroying => \E k \in 1 .. 6, u \in VPs : In(x, k, u)'
      <3>1. Live(x) /\ gte'[root[x].ref] = gte[root[x].ref]
        BY <1>13, <2>2, <2>3, <2>4, Zenon
      <3>2. /\ gte[root[x].ref].mh = x
            /\ gte[root[x].ref].destroying => \E k \in 1 .. 6, u \in VPs : In(x, k, u)
        BY <3>1, Zenon DEF IInv, RootInv, Live
      <3> QED BY <2>1, <2>3, <3>1, <3>2, Zenon
    <2> QED BY <2>3, <2>4, Zenon DEF IInv, RootInv
  <1>17. PlaceInv'
    <2> SUFFICES ASSUME NEW x \in Roots, NEW k \in 1 .. 6, NEW u \in VPs, In(x, k, u)'
                 PROVE  /\ Live(x)' /\ gte'[root'[x].ref].destroying
                        /\ k \in {1, 3, 4} => root'[x].trans \subseteq {u}
                        /\ k \in {2, 5} => ~(root'[x].trans \subseteq {u})
                        /\ \A j \in 1 .. 6, w \in VPs : In(x, j, w)' => j = k /\ w = u
      BY Zenon DEF PlaceInv
    <2>1. PICK i \in 1 .. 6 : In(x, i, u) /\ i = (IF u = v /\ k = 5 THEN 2 ELSE k)
                              /\ ~(u = v /\ k = 2)
      BY <1>10, Kinds, Zenon
    <2>a. In(x, i, u)
      BY <2>1, Zenon
    <2>2. \A j \in 1 .. 6, w \in VPs : In(x, j, w) => j = i /\ w = u
      BY <2>a, Zenon DEF IInv, PlaceInv
    <2>3. \A j \in 1 .. 6, w \in VPs : In(x, j, w)' => j = k /\ w = u
      <3> SUFFICES ASSUME NEW j \in 1 .. 6, NEW w \in VPs, In(x, j, w)' PROVE j = k /\ w = u
        BY Zenon
      <3>1. /\ In(x, IF w = v /\ j = 5 THEN 2 ELSE j, w)
            /\ ~(w = v /\ j = 2) /\ 2 \in 1 .. 6
        BY <1>10, Kinds, Zenon
      <3>2. (IF w = v /\ j = 5 THEN 2 ELSE j) = i /\ w = u
        BY <2>2, <3>1, Zenon
      <3> QED BY <2>1, <3>1, <3>2, Zenon
    <2>4. /\ Live(x) /\ gte[root[x].ref].destroying
          /\ i \in {1, 3, 4} => root[x].trans \subseteq {u}
          /\ i \in {2, 5} => ~(root[x].trans \subseteq {u})
      BY <2>a, Zenon DEF IInv, PlaceInv
    <2>5. Live(x)' /\ gte'[root[x].ref].destroying /\ root' = root
      BY <1>0, <1>13, <2>4, Zenon
    <2>6. (k \in {1, 3, 4} => i \in {1, 3, 4}) /\ (k \in {2, 5} => i \in {2, 5})
      BY <2>1, Kinds, Zenon
    <2> QED BY <2>3, <2>4, <2>5, <2>6, Zenon
  <1>18. VpInv' /\ LteInv'
    <2>0. UNCHANGED <<vpCleanup, root>> /\ Circ' = Circ
      BY <1>0, <1>9, Zenon
    <2>1. VpInv'
      BY <2>0, ZenonT(40) DEF IInv, VpInv
    <2>2. \A u \in VPs, r \in Refs : lte[u][r] # None => (Live(lte[u][r])' <=> Live(lte[u][r]))
      BY <1>0, Zenon DEF Live
    <2>3. LteInv'
      BY <1>0, <2>0, <2>2, LteSame, Zenon DEF IInv
    <2> QED BY <2>1, <2>3, Zenon
  <1>19. RecInv'
    <2>1. ASSUME NEW rec \in Circ, rec.root # None, rec.ref = None
          PROVE  RefIn(root[rec.root].ref, 5, HomeOf[root[rec.root].ref])'
      <3>1. /\ rec.root \in Roots /\ Live(rec.root) /\ root[rec.root].ref \in Refs
            /\ HomeOf[root[rec.root].ref] \in VPs
        BY <2>1, CircLive, Zenon
      <3>2. RefIn(root[rec.root].ref, 5, HomeOf[root[rec.root].ref])
        BY <2>1, Zenon DEF IInv, RecInv
      <3>3. root[rec.root].ref \notin F
        BY <1>12, <3>1, Zenon
      <3>4. HomeOf[root[rec.root].ref] # v
        BY <1>p, <3>2, <3>3, Kinds, Zenon DEF RefIn
      <3>5. 5 \in 1 .. 5
        BY Kinds, Zenon
      <3>6. \A q \in Refs, u \in VPs : u # v /\ RefIn(q, 5, u) => RefIn(q, 5, u)'
        BY <1>11, <3>5, Zenon
      <3>7. PICK q \in Refs : q = root[rec.root].ref
        BY <3>1, Zenon
      <3>8. RefIn(q, 5, HomeOf[q])'
        BY <3>1, <3>2, <3>4, <3>6, <3>7, Zenon
      <3>9. q = root'[rec.root].ref
        BY <1>0, <3>7, Zenon
      <3> QED BY <3>8, <3>9, Zenon
    <2>2. \A u \in VPs : seen'[u] =>
            \A rec \in xfer'[u] : rec.root = None /\ rec.trans = {} /\ rec.reps = {}
      BY <1>4, <1>6, Zenon
    <2> QED BY <1>0, <1>9, <2>1, <2>2, ZenonT(40) DEF IInv, RecInv
  <1>20. RefInv'
    <2> SUFFICES ASSUME NEW r \in Refs, NEW k \in 1 .. 5, NEW u \in VPs, RefIn(r, k, u)'
                 PROVE  /\ gte'[r].destroying
                        /\ k \in {1, 5} => HomeOf[r] = u
                        /\ \A j \in 1 .. 5, w \in VPs : RefIn(r, j, w)' => j = k /\ w = u
                        /\ \A o \in Roots : Live(o)' /\ root'[o].ref = r =>
                             k \in {3, 5} /\ \E w \in VPs : In(o, 6, w)'
      BY Zenon DEF RefInv
    <2>1. PICK i \in 1 .. 5 : /\ RefIn(r, i, u)
                              /\ u = v => i = (IF k = 5 THEN 1 ELSE IF k = 4 THEN 2 ELSE 3)
                                           /\ k \in {3, 4, 5}
                              /\ u # v => i = k
      BY <1>11, Kinds, Zenon
    <2>a. RefIn(r, i, u)
      BY <2>1, Zenon
    <2>2. /\ gte[r].destroying
          /\ i \in {1, 5} => HomeOf[r] = u
          /\ \A j \in 1 .. 5, w \in VPs : RefIn(r, j, w) => j = i /\ w = u
      BY <2>a, ZenonT(40) DEF IInv, RefInv
    <2>3. \A j \in 1 .. 5, w \in VPs : RefIn(r, j, w)' => j = k /\ w = u
      <3> SUFFICES ASSUME NEW j \in 1 .. 5, NEW w \in VPs, RefIn(r, j, w)'
                   PROVE  j = k /\ w = u
        BY Zenon
      <3>1. /\ w = v => /\ j \in {3, 4, 5}
                        /\ RefIn(r, IF j = 5 THEN 1 ELSE IF j = 4 THEN 2 ELSE 3, w)
            /\ w # v => RefIn(r, j, w)
        BY <1>11, Kinds, Zenon
      <3>2. 1 \in 1 .. 5 /\ 2 \in 1 .. 5 /\ 3 \in 1 .. 5
        BY Kinds, Zenon
      <3>3. w = u
        BY <2>2, <3>1, <3>2, Zenon
      <3>4. CASE w # v
        BY <2>1, <2>2, <3>1, <3>3, <3>4, Zenon
      <3>5. CASE w = v
        BY <2>1, <2>2, <3>1, <3>2, <3>3, <3>5, Kinds, Zenon
      <3> QED BY <3>4, <3>5, Zenon
    <2>4. \A o \in Roots : Live(o)' /\ root'[o].ref = r =>
                             k \in {3, 5} /\ \E w \in VPs : In(o, 6, w)'
      <3>1. \A o \in Roots : Live(o) /\ root[o].ref = r => i \in {3, 5} /\ \E w \in VPs : In(o, 6, w)
        BY <2>a, Zenon DEF IInv, RefInv
      <3>2. \A o \in Roots, w \in VPs : In(o, 6, w) => In(o, 6, w)'
        BY <1>10, Kinds, Zenon
      <3>3. i \in {3, 5} => k \in {3, 5}
        BY <2>1, Kinds, Zenon
      <3>4. root' = root /\ \A o \in Roots : Live(o)' => Live(o)
        BY <1>0, <1>13, Zenon
      <3> QED BY <3>1, <3>2, <3>3, <3>4, Zenon
    <2>5. gte'[r].destroying
      BY <1>13, <2>2, Zenon
    <2>6. k \in {1, 5} => HomeOf[r] = u
      BY <2>1, <2>2, Zenon
    <2> QED BY <2>3, <2>4, <2>5, <2>6, Zenon
  <1>21. ClaimInv'
    <2> SUFFICES ASSUME NEW u \in VPs, NEW h \in VPs, token'[h] # None,
                        NEW r \in refLists'[u].reclaim
                 PROVE  /\ \A s \in Threads : hold'[s] = r => ~Passed(u, VPOf[s], h)'
                        /\ \A rec \in Circ' : rec.root # None /\ root'[rec.root].ref = r =>
                             \A w \in rec.trans : ~Passed(u, w, h)'
      BY Zenon DEF ClaimInv
    <2>1. h = v
      BY <1>0, <1>1, Zenon
    <2>2. CASE u = v
      BY <1>6, <2>1, <2>2, Zenon DEF Passed
    <2>3. CASE u # v
      <3>1. \A w : Passed(u, w, h)' <=> Passed(u, w, h)
        BY <2>1, <2>3, Zenon DEF Passed
      <3>2. /\ token[h] # None /\ r \in refLists[u].reclaim
            /\ Circ' = Circ /\ root' = root /\ hold' = hold
        BY <1>0, <1>3, <1>9, <2>3, Zenon
      <3>3. /\ \A s \in Threads : hold[s] = r => ~Passed(u, VPOf[s], h)
            /\ \A rec \in Circ : rec.root # None /\ root[rec.root].ref = r =>
                 \A w \in rec.trans : ~Passed(u, w, h)
        BY <3>2, Zenon DEF IInv, ClaimInv
      <3> QED BY <3>1, <3>2, <3>3, Zenon
    <2> QED BY <2>2, <2>3, Zenon
  <1>22. ThreadInv'
    BY <1>0, <1>9, <1>13, <1>14, <1>t, ZenonT(40) DEF IInv, ThreadInv, ThreadOK, Live
  <1>23. AgeInv'
    BY <1>14, Zenon DEF IInv, AgeInv
  <1> QED BY <1>7, <1>8, <1>15, <1>16, <1>17, <1>18, <1>19, <1>20, <1>21, <1>22, <1>23, ZenonT(40) DEF IInv

=============================================================================
