------------------------- MODULE COSMgrTokenProofs --------------------------
(***************************************************************************)
(* Passing the token on keeps the invariant of COSMgrProofs, and so do all *)
(* the steps of the object manager.                                        *)
(***************************************************************************)
EXTENDS COSMgrProofs

(* The token moves past no processor but the one that passes it on. *)
LEMMA PassedStep ==
  ASSUME NEW v \in VPs, seen[v], \A u \in VPs : ~seen'[u],
         NEW u \in VPs, NEW w \in VPs, Passed(u, w, (v + 1) % N)'
  PROVE  Passed(u, w, v) \/ w = v
  <1>1. /\ u \in 0 .. N - 1 /\ w \in 0 .. N - 1 /\ v \in 0 .. N - 1 /\ N \in Nat \ {0}
        /\ (v + 1) % N = IF v = N - 1 THEN 0 ELSE v + 1
    BY Facts, Zenon DEF VPs
  <1>2. PICK n \in 0 .. N - 1 : n = (v + 1) % N
    BY <1>1, SMTT(30), Z3
  <1>3. IF u = n THEN TRUE ELSE IF u < n THEN u =< w /\ w < n ELSE u =< w \/ w < n
    BY <1>2, Zenon DEF Passed
  <1>4. Passed(u, w, v) <=> IF u = v THEN FALSE
                            ELSE IF u < v THEN u =< w /\ w < v ELSE u =< w \/ w < v
    BY Zenon DEF Passed
  <1> QED BY <1>1, <1>2, <1>3, <1>4, SMTT(30), Z3

(* The fields of a record that is passed on. *)
LEMMA PassedOnRec ==
  ASSUME NEW x \in Recs, NEW v \in VPs
  PROVE  /\ PassedOn(x, v) \in Recs
         /\ PassedOn(x, v).root = IF x.trans \subseteq {v} THEN None ELSE x.root
         /\ PassedOn(x, v).ref = IF x.ref # None /\ HomeOf[x.ref] = v THEN None ELSE x.ref
         /\ \A w : w \in PassedOn(x, v).trans <=> w \in x.trans /\ w # v
         /\ PassedOn(x, v).reps = IF v \in x.trans THEN x.reps \ {v} ELSE x.reps
  BY Zenon DEF PassedOn, Recs

(* What the holder of the token has to work on: each object and each       *)
(* reference once, the objects in the remote places only.                  *)
LEMMA TransferredRecs ==
  ASSUME IInv, NEW v \in VPs, seen[v], NEW x \in Transferred(v)
  PROVE  /\ x \in Recs
         /\ x.root = None => x.trans = {}
         /\ x.root # None =>
              /\ x.root \in Roots /\ Live(x.root) /\ MarkedObj(x.root)
              /\ gte[root[x.root].ref].destroying /\ gte[root[x.root].ref].mh = x.root
              /\ x.trans # {} /\ x.trans \subseteq root[x.root].trans
              /\ x.reps = x.trans \cap root[x.root].reps
              /\ x.ref # None => x.ref = root[x.root].ref
              /\ x.ref = None => RefIn(root[x.root].ref, 5, HomeOf[root[x.root].ref])
         /\ x \notin Circ => /\ x.root # None /\ In(x.root, 5, v) /\ ~(x.trans \subseteq {v})
                             /\ x.trans = root[x.root].trans /\ x.ref = root[x.root].ref
         /\ x.ref # None => (x \in Circ <=> RefIn(x.ref, 3, v))
  <1>t. TypeOK /\ Shape
    BY Zenon DEF IInv
  <1>1. token[v] # None /\ \A u \in VPs : token[u] # None => u = v
    BY <1>t, Zenon DEF Shape
  <1>2. Circ = Arrived(v)
    BY <1>1, Zenon DEF Circ, Arrived
  <1>3. Arrived(v) = IF token[v] = v THEN {} ELSE xfer[token[v]]
    BY <1>1, Zenon DEF Arrived
  <1>4. CASE x \in Circ
    <2>1. x \in Recs
      BY <1>4, <1>t, CircType, Zenon
    <2>2. CASE x.root = None
      BY <1>2, <1>4, <2>1, <2>2, Zenon DEF IInv, RecInv, RefIn
    <2>3. CASE x.root # None
      <3>1. x.root \in Roots /\ Live(x.root)
        BY <1>4, <2>3, CircLive, Zenon
      <3>2. In(x.root, 6, v) /\ 6 \in 1 .. 6
        BY <1>2, <1>4, SMTT(30), Z3 DEF In
      <3>3. MarkedObj(x.root)
        BY <3>2, Zenon DEF MarkedObj
      <3>4. gte[root[x.root].ref].destroying /\ gte[root[x.root].ref].mh = x.root
        BY <3>1, <3>2, SMTT(30), Z3 DEF IInv, PlaceInv, RootInv, Live
      <3>5. /\ x.trans # {} /\ x.trans \subseteq root[x.root].trans
            /\ x.reps = x.trans \cap root[x.root].reps
            /\ x.ref # None => x.ref = root[x.root].ref
            /\ x.ref = None => RefIn(root[x.root].ref, 5, HomeOf[root[x.root].ref])
        BY <1>4, <2>3, Zenon DEF IInv, RecInv
      <3>6. x.ref # None => RefIn(x.ref, 3, v)
        BY <1>2, <1>4, Zenon DEF RefIn
      <3> QED BY <1>4, <2>1, <2>3, <3>1, <3>3, <3>4, <3>5, <3>6, Zenon
    <2> QED BY <2>2, <2>3, Zenon
  <1>5. CASE x \notin Circ
    <2>1. PICK o \in remList[v] :
            x = [root |-> o, ref |-> root[o].ref, trans |-> root[o].trans, reps |-> root[o].reps]
      BY <1>2, <1>3, <1>5, Zenon DEF Transferred
    <2>2. In(o, 5, v) /\ 5 \in 1 .. 6 /\ 6 \in 1 .. 6 /\ o \in Roots /\ o # None
      BY <1>t, Facts, SMTT(30), Z3 DEF In, TypeOK
    <2>3. Live(o) /\ gte[root[o].ref].destroying /\ ~(root[o].trans \subseteq {v})
          /\ \A u \in VPs : ~In(o, 6, u)
      BY <2>2, SMTT(30), Z3 DEF IInv, PlaceInv
    <2>4. gte[root[o].ref].mh = o /\ root[o].reps \subseteq root[o].trans /\ root[o] # None
      BY <2>2, <2>3, Zenon DEF IInv, RootInv, Live
    <2>5. /\ root[o].ref \in Refs /\ root[o].ref # None
          /\ root[o].trans \subseteq VPs /\ root[o].reps \subseteq VPs
      BY <1>t, <2>2, <2>4, RootType, Facts, Zenon
    <2>6. x.root = o /\ x.ref = root[o].ref /\ x.trans = root[o].trans /\ x.reps = root[o].reps
      BY <2>1, Zenon
    <2>7. x \in Recs
      BY <2>1, <2>2, <2>5, Zenon DEF Recs
    <2>8. ~RefIn(root[o].ref, 3, v)
      <3>1. 3 \in 1 .. 5
        BY SMTT(30), Z3
      <3> QED BY <2>2, <2>3, <2>5, <3>1, Zenon DEF IInv, RefInv
    <2>9. MarkedObj(o)
      BY <2>2, Zenon DEF MarkedObj
    <2>10. x.reps = x.trans \cap root[o].reps /\ x.trans # {}
      BY <2>3, <2>4, <2>6, Zenon
    <2> QED BY <1>5, <2>2, <2>3, <2>4, <2>5, <2>6, <2>7, <2>8, <2>9, <2>10, Zenon
  <1> QED BY <1>4, <1>5, Zenon

LEMMA TransferredOnce ==
  ASSUME IInv, NEW v \in VPs, seen[v], NEW x \in Transferred(v)
  PROVE  /\ \A y \in Transferred(v) : (x.root = y.root /\ x.root # None)
                                      \/ (x.ref = y.ref /\ x.ref # None) => x = y
         /\ x.ref # None => \A o \in Roots : Live(o) /\ root[o].ref = x.ref => x.root = o
         /\ x.ref # None => \A k \in 1 .. 5, u \in VPs : RefIn(x.ref, k, u) => k = 3 /\ u = v
  <1>t. TypeOK
    BY Zenon DEF IInv
  <1>1. x.ref # None => x.ref \in Refs
    BY TransferredRecs, Zenon DEF Recs
  <1>2. ASSUME x.ref # None, x \notin Circ
        PROVE  \A k \in 1 .. 5, u \in VPs : ~RefIn(x.ref, k, u)
    <2>1. x.root \in Roots /\ Live(x.root) /\ In(x.root, 5, v) /\ root[x.root].ref = x.ref
          /\ 5 \in 1 .. 6 /\ 6 \in 1 .. 6
      BY <1>2, TransferredRecs, SMTT(30), Z3
    <2>2. \A u \in VPs : ~In(x.root, 6, u)
      BY <2>1, SMTT(30), Z3 DEF IInv, PlaceInv
    <2> QED BY <1>1, <1>2, <2>1, <2>2, Zenon DEF IInv, RefInv
  <1>3. ASSUME x.ref # None, x \in Circ
        PROVE  \A k \in 1 .. 5, u \in VPs : RefIn(x.ref, k, u) => k = 3 /\ u = v
    <2>1. RefIn(x.ref, 3, v) /\ 3 \in 1 .. 5
      BY <1>3, TransferredRecs, SMTT(30), Z3
    <2> QED BY <1>1, <1>3, <2>1, SMTT(30), Z3 DEF IInv, RefInv
  <1>4. x.ref # None => \A k \in 1 .. 5, u \in VPs : RefIn(x.ref, k, u) => k = 3 /\ u = v
    BY <1>2, <1>3, Zenon
  <1>5. ASSUME x.ref # None, NEW o \in Roots, Live(o), root[o].ref = x.ref PROVE x.root = o
    <2>1. CASE x \in Circ
      <3>1. RefIn(x.ref, 3, v) /\ 3 \in 1 .. 5 /\ 5 \in 1 .. 5
        BY <1>5, <2>1, TransferredRecs, SMTT(30), Z3
      <3>2. PICK u \in VPs : In(o, 6, u)
        BY <1>1, <1>5, <3>1, Zenon DEF IInv, RefInv
      <3>3. PICK y \in Circ : y.root = o
        BY <3>2, SMTT(30), Z3 DEF In, Circ
      <3>4. o # None /\ HomeOf[root[o].ref] \in VPs
        BY <1>1, <1>5, Facts, Zenon
      <3>5. y.ref = None => RefIn(root[o].ref, 5, HomeOf[root[o].ref])
        BY <3>3, <3>4, Zenon DEF IInv, RecInv
      <3>6. y.ref # None
        BY <1>4, <1>5, <3>1, <3>4, <3>5, SMTT(30), Z3
      <3>7. y.ref = x.ref
        BY <1>5, <3>3, <3>4, <3>6, Zenon DEF IInv, RecInv
      <3>8. y = x
        BY <1>5, <2>1, <3>7, Zenon DEF IInv, RecInv
      <3> QED BY <3>3, <3>8, Zenon
    <2>2. CASE x \notin Circ
      <3>1. x.root \in Roots /\ x.ref = root[x.root].ref /\ gte[root[x.root].ref].mh = x.root
        BY <2>2, TransferredRecs, Zenon
      <3>2. gte[root[o].ref].mh = o
        BY <1>5, Zenon DEF IInv, RootInv, Live
      <3> QED BY <1>5, <3>1, <3>2, Zenon
    <2> QED BY <2>1, <2>2, Zenon
  <1>6. ASSUME NEW y \in Transferred(v), x.root = y.root, x.root # None PROVE x = y
    <2>1. CASE x \in Circ /\ y \in Circ
      BY <1>6, <2>1, Zenon DEF IInv, RecInv
    <2>2. ASSUME NEW a \in Transferred(v), NEW b \in Transferred(v), a.root = b.root,
                 a \in Circ, b \notin Circ
          PROVE  FALSE
      <3>1. b.root # None /\ In(b.root, 5, v) /\ 5 \in 1 .. 6 /\ 6 \in 1 .. 6 /\ b.root \in Roots
        BY <2>2, TransferredRecs, SMTT(30), Z3
      <3>2. \E u \in VPs : In(a.root, 6, u)
        BY <2>2, <3>1, CircLive, Zenon
      <3> QED BY <2>2, <3>1, <3>2, SMTT(30), Z3 DEF IInv, PlaceInv
    <2>3. CASE x \notin Circ /\ y \notin Circ
      BY <1>6, <2>3, SMTT(30), Z3 DEF Transferred, Circ, Arrived, IInv, Shape
    <2> QED BY <1>6, <2>1, <2>2, <2>3, Zenon
  <1>7. ASSUME NEW y \in Transferred(v), x.ref = y.ref, x.ref # None PROVE x = y
    <2>1. CASE x \in Circ /\ y \in Circ
      BY <1>7, <2>1, Zenon DEF IInv, RecInv
    <2>2. CASE x \notin Circ \/ y \notin Circ
      <3>1. x \in Circ <=> y \in Circ
        BY <1>7, TransferredRecs, SMTT(30), Z3
      <3>2. x \notin Circ /\ y \notin Circ
        BY <2>2, <3>1, Zenon
      <3>3. y.root # None /\ y.root \in Roots /\ Live(y.root) /\ y.ref = root[y.root].ref
        BY <3>2, TransferredRecs, Zenon
      <3>4. x.root = y.root
        BY <1>5, <1>7, <3>3, Zenon
      <3> QED BY <1>6, <3>3, <3>4, Zenon
    <2> QED BY <2>1, <2>2, Zenon
  <1> QED BY <1>4, <1>5, <1>6, <1>7, Zenon

(* The token goes on: the records lose the translations of its holder, and *)
(* the objects that had no other one are cleaned up.                       *)
LEMMA PassTokenInv == ASSUME IInv, NEW v \in VPs, PassToken(v) PROVE IInv'
  <1>t. TypeOK /\ Shape
    BY Zenon DEF IInv
  <1>0. /\ UpdateTheGen(v) /\ AgeAfter(v) = 2 /\ seen[v]
        /\ UNCHANGED <<hold, miss, using, gte, stage1, tmpList>>
    BY <1>t, Zenon DEF PassToken, Shape
  <1>p. PICK recs : recs = Transferred(v)
    BY Zenon
  <1>R. recs \subseteq Recs /\ \A x \in recs : x \in Transferred(v)
    BY <1>0, <1>p, TransferredRecs, Zenon
  <1>pl. PICK last :
           last = {rec.root : rec \in {x \in {rec \in recs : v \in rec.trans} : x.trans = {v}}}
    BY Zenon
  <1>l. last \subseteq Roots /\ \A o : o \in last <=> \E x \in recs : x.root = o /\ x.trans = {v}
    <2>1. \A x \in recs : x.trans = {v} => x.root \in Roots
      BY <1>0, <1>R, TransferredRecs, Zenon
    <2>2. \A o : o \in last <=> \E x \in recs : x.root = o /\ x.trans = {v}
      BY <1>pl, Zenon
    <2> QED BY <2>1, <2>2, Zenon
  <1>pm. PICK more : more = {rec.root : rec \in {x \in {rec \in recs : v \in rec.trans} :
                                                  x.trans # {v} /\ v \in x.reps}}
    BY Zenon
  <1>m. /\ more \subseteq Roots
        /\ \A o \in more : \E x \in recs : /\ x.root = o /\ v \in x.trans
                                           /\ x.trans # {v} /\ v \in x.reps
    <2>1. \A x \in recs : v \in x.trans => x.root \in Roots
      BY <1>0, <1>R, TransferredRecs, Zenon
    <2>2. \A o \in more : \E x \in recs : /\ x.root = o /\ v \in x.trans
                                          /\ x.trans # {v} /\ v \in x.reps
      BY <1>pm, Zenon
    <2> QED BY <2>1, <2>2, Zenon
  <1>pd. PICK dead : dead = {root[rec.root].ref : rec \in {rec \in recs : v \in rec.trans}}
    BY Zenon
  <1>d. \A x \in recs : v \in x.trans => root[x.root].ref \in dead
    BY <1>pd, Zenon
  <1>pq. PICK P :
           P = {rec \in {PassedOn(x, v) : x \in recs} : rec.root # None \/ rec.ref # None}
    BY Zenon
  <1>q. /\ P \subseteq Recs
        /\ \A y \in P : \E x \in recs : y = PassedOn(x, v)
        /\ \A x \in recs : PassedOn(x, v).root # None \/ PassedOn(x, v).ref # None
                             => PassedOn(x, v) \in P
    <2>1. \A y \in P : \E x \in recs : y = PassedOn(x, v)
      BY <1>pq, Zenon
    <2>2. \A x \in recs : PassedOn(x, v).root # None \/ PassedOn(x, v).ref # None
                             => PassedOn(x, v) \in P
      BY <1>pq, Zenon
    <2>3. \A x \in recs : PassedOn(x, v) \in Recs
      BY <1>R, PassedOnRec, Zenon
    <2> QED BY <2>1, <2>2, <2>3, Zenon
  <1>n. PICK n \in VPs : n = (v + 1) % N
    BY Facts, Zenon
  <1>1. /\ token[v] # None /\ \A u \in VPs : token[u] # None => u = v
        /\ \A u \in VPs : u # v => ~seen[u] /\ remList[u] = {}
        /\ Circ = Arrived(v) /\ Circ \subseteq recs
    <2>1. token[v] # None /\ \A u \in VPs : token[u] # None => u = v
      BY <1>0, <1>t, Zenon DEF Shape
    <2>2. Circ = Arrived(v)
      BY <2>1, Zenon DEF Circ, Arrived
    <2>3. Arrived(v) \subseteq recs
      BY <1>p, Zenon DEF Arrived, Transferred
    <2> QED BY <1>t, <2>1, <2>2, <2>3, Zenon DEF Shape
  <1>2. /\ root' \in [Roots -> RootRecs \cup {None}]
        /\ \A o \in Roots : o \notin last => root'[o] = root[o]
        /\ \A o \in last : /\ Live(o) /\ gte[root[o].ref].destroying /\ MarkedObj(o)
                           /\ root[o].reps \subseteq {v} => root'[o] = None
                           /\ ~(root[o].reps \subseteq {v}) =>
                                /\ root'[o] # None /\ root'[o].started
                                /\ root'[o].trans = root[o].trans
                                /\ root'[o].reps = root[o].reps \ {v}
    <2>1. root' = [o \in Roots |-> IF o \in last THEN Cleanup(o, v) ELSE root[o]]
      BY <1>p, <1>pl, Zenon DEF PassToken
    <2>2. \A o \in last : Live(o) /\ gte[root[o].ref].destroying /\ MarkedObj(o)
      BY <1>0, <1>l, <1>R, TransferredRecs, Facts, SMTT(30), Z3
    <2>3. \A o \in last : root[o] \in RootRecs
      BY <1>l, <1>t, <2>2, RootType, Zenon DEF Live
    <2>4. \A o \in Roots : root'[o] = IF o \in last THEN Cleanup(o, v) ELSE root[o]
      BY <2>1, Zenon
    <2>5. \A o \in Roots : root'[o] \in RootRecs \cup {None}
      <3> SUFFICES ASSUME NEW o \in Roots PROVE root'[o] \in RootRecs \cup {None}
        BY Zenon
      <3>1. CASE o \in last
        <4>1. root[o] \in RootRecs /\ root'[o] = Cleanup(o, v)
          BY <2>3, <2>4, <3>1, Zenon
        <4> QED BY <4>1, CleanedRoot, SMTT(30), Z3
      <3>2. CASE o \notin last
        BY <1>t, <2>4, <3>2, Zenon DEF TypeOK
      <3> QED BY <3>1, <3>2, Zenon
    <2>6. root' \in [Roots -> RootRecs \cup {None}]
      BY <2>1, <2>5, Zenon
    <2>7. \A o \in last : root'[o] = Cleanup(o, v)
      BY <1>l, <2>4, Zenon
    <2> QED BY <1>l, <2>2, <2>3, <2>4, <2>6, <2>7, CleanedRoot, SMTT(30), Z3
  <1>3. /\ lte' \in [VPs -> [Refs -> Roots \cup {None}]]
        /\ \A r \in Refs : lte'[v][r] # None => r \notin dead /\ lte'[v][r] = lte[v][r]
        /\ \A u \in VPs : u # v => lte'[u] = lte[u]
    <2>1. lte' = [lte EXCEPT ![v] = [r \in Refs |-> IF r \in dead THEN None ELSE @[r]]]
      BY <1>p, <1>pd, Zenon DEF PassToken
    <2>2. lte \in [VPs -> [Refs -> Roots \cup {None}]]
      BY <1>t, Zenon DEF TypeOK
    <2> QED BY <2>1, <2>2, Zenon
  <1>4. /\ refLists' \in [VPs -> [waitL : SUBSET Refs, waitR : SUBSET Refs, reclaim : SUBSET Refs]]
        /\ refLists'[v].waitL = refLists[v].waitL /\ refLists'[v].waitR = refLists[v].waitR
        /\ \A r \in Refs : r \in refLists'[v].reclaim <=>
             r \in refLists[v].reclaim \/ (HomeOf[r] = v /\ \E x \in recs : x.ref = r)
        /\ \A u \in VPs : u # v => refLists'[u] = refLists[u]
    <2>0. PICK cl \in SUBSET Refs : cl = {r \in {rec.ref : rec \in recs} \ {None} : HomeOf[r] = v}
      BY <1>R, Zenon DEF Recs
    <2>1. refLists' = [refLists EXCEPT ![v].reclaim = @ \cup cl]
      BY <1>p, <2>0, Zenon DEF PassToken
    <2>2. refLists \in [VPs -> [waitL : SUBSET Refs, waitR : SUBSET Refs, reclaim : SUBSET Refs]]
      BY <1>t, Zenon DEF TypeOK
    <2>3. \A r \in Refs : r \in cl <=> HomeOf[r] = v /\ \E x \in recs : x.ref = r
      BY <2>0, Facts, Zenon
    <2>4. refLists'[v].reclaim = refLists[v].reclaim \cup cl
      BY <2>1, <2>2, Zenon
    <2>5. /\ refLists' \in [VPs -> [waitL : SUBSET Refs, waitR : SUBSET Refs, reclaim : SUBSET Refs]]
          /\ refLists'[v].waitL = refLists[v].waitL /\ refLists'[v].waitR = refLists[v].waitR
          /\ \A u \in VPs : u # v => refLists'[u] = refLists[u]
      BY <2>1, <2>2, Zenon
    <2> QED BY <2>3, <2>4, <2>5, Zenon
  <1>5. /\ vpCleanup' \in [VPs -> SUBSET Roots] /\ vpCleanup'[v] = vpCleanup[v] \cup more
        /\ \A u \in VPs : u # v => vpCleanup'[u] = vpCleanup[u]
        /\ xfer' \in [VPs -> SUBSET Recs] /\ xfer'[v] = xfer[v] \cup P
        /\ \A u \in VPs : u # v => xfer'[u] = xfer[u]
    <2>1. vpCleanup' = [vpCleanup EXCEPT ![v] = @ \cup more]
          /\ xfer' = [xfer EXCEPT ![v] = @ \cup P]
      BY <1>p, <1>pm, <1>pq, Zenon DEF PassToken
    <2> QED BY <1>t, <1>m, <1>q, <2>1, Zenon DEF TypeOK
  <1>6. /\ remList' \in [VPs -> SUBSET Roots] /\ \A u \in VPs : remList'[u] = {}
        /\ seen' \in [VPs -> BOOLEAN] /\ \A u \in VPs : ~seen'[u]
        /\ token' \in [VPs -> VPs \cup {None}] /\ token'[n] = v
        /\ \A u \in VPs : u # n => token'[u] = None
        /\ age' \in [VPs -> 0 .. 2]
        /\ at' \in [VPs -> Places] /\ \A u \in VPs : at'[u] # "remote"
    <2>1. /\ remList' = [remList EXCEPT ![v] = {}] /\ seen' = [seen EXCEPT ![v] = FALSE]
          /\ token' = [token EXCEPT ![v] = None, ![n] = v]
          /\ age' = [age EXCEPT ![v] = 0] /\ at' = [at EXCEPT ![v] = "idle"]
      BY <1>n, Zenon DEF PassToken
    <2>2. \A u \in VPs : at[u] = "remote" => u = v
      BY <1>1, <1>t, Zenon DEF Shape
    <2>3. remList' \in [VPs -> SUBSET Roots] /\ \A u \in VPs : remList'[u] = {}
      BY <1>t, <1>1, <2>1, Zenon DEF TypeOK
    <2>4. seen' \in [VPs -> BOOLEAN] /\ \A u \in VPs : ~seen'[u]
      BY <1>t, <1>1, <2>1, Zenon DEF TypeOK
    <2>5. /\ token' \in [VPs -> VPs \cup {None}] /\ token'[n] = v
          /\ \A u \in VPs : u # n => token'[u] = None
      BY <1>t, <1>1, <2>1, Zenon DEF TypeOK
    <2>6. at' \in [VPs -> Places] /\ \A u \in VPs : at'[u] # "remote"
      BY <1>t, <2>1, <2>2, Zenon DEF TypeOK, Places
    <2>7. age' \in [VPs -> 0 .. 2]
      BY <1>t, <2>1, SMTT(30), Z3 DEF TypeOK
    <2> QED BY <2>3, <2>4, <2>5, <2>6, <2>7, Zenon
  <1>7. /\ delSets' \in [VPs -> [0 .. 2 -> SUBSET Roots]] /\ delSets'[v] = SetsAfter(v)
        /\ \A u \in VPs : u # v => delSets'[u] = delSets[u]
    <2>1. delSets' = [delSets EXCEPT ![v] = SetsAfter(v)]
      BY Zenon DEF PassToken
    <2> QED BY <1>0, <1>t, <2>1, SetsStep, SMTT(30), Z3 DEF TypeOK
  <1>8. TypeOK'
    <2>1. gen' \in [Threads -> Gen]
      BY <1>0, <1>t, GenStep, Zenon DEF TypeOK
    <2> QED BY <1>0, <1>t, <1>2, <1>3, <1>4, <1>5, <1>6, <1>7, <2>1, Zenon DEF TypeOK
  <1>9. Shape'
    <2>1. \A a, b \in 0 .. 2 : a # b => SetsAfter(v)[a] \cap SetsAfter(v)[b] = {}
      BY <1>0, <1>t, SetsStep, Zenon
    <2>2. \A u \in VPs, a, b \in 0 .. 2 : a # b => delSets'[u][a] \cap delSets'[u][b] = {}
      BY <1>t, <1>7, <2>1, Zenon DEF Shape
    <2>3. \A u, w \in VPs : token'[u] # None /\ token'[w] # None => w = u
      BY <1>6, Zenon
    <2> QED BY <1>6, <2>2, <2>3, Zenon DEF Shape
  <1>10. \A x \in recs : x.root # None /\ x.root \notin last =>
            PassedOn(x, v) \in P /\ PassedOn(x, v).root = x.root /\ ~(x.trans \subseteq {v})
    <2> SUFFICES ASSUME NEW x \in recs, x.root # None, x.root \notin last
                 PROVE  PassedOn(x, v) \in P /\ PassedOn(x, v).root = x.root
                        /\ ~(x.trans \subseteq {v})
      BY Zenon
    <2>1. x.trans # {} /\ x.trans # {v}
      BY <1>0, <1>l, <1>R, TransferredRecs, Zenon
    <2>2. ~(x.trans \subseteq {v})
      BY <2>1, Zenon
    <2>3. PassedOn(x, v).root = x.root
      BY <1>R, <2>2, PassedOnRec, Zenon
    <2> QED BY <1>q, <2>2, <2>3, Zenon
  <1>11. /\ n = v => P = {}
         /\ \A u \in VPs : u # n => Arrived(u)' = {}
         /\ n # v => Arrived(n)' = xfer[v] \cup P
         /\ n = v => Arrived(n)' = {}
         /\ Circ' \subseteq xfer[v] \cup P /\ P \subseteq Circ'
    <2>1. n = v => recs = {}
      <3> SUFFICES ASSUME n = v, NEW x \in recs PROVE FALSE
        BY Zenon
      <3>1. VPs = {v}
        <4>1. v \in Nat /\ N \in Nat \ {0} /\ v = IF v = N - 1 THEN 0 ELSE v + 1
          BY <1>n, Facts, Zenon
        <4>2. N = 1 /\ v = 0
          BY <4>1, SMTT(30), Z3
        <4> QED BY <4>2, SMTT(30), Z3 DEF VPs
      <3>2. token[v] = v
        BY <1>1, <1>t, <3>1, Zenon DEF TypeOK
      <3>3. x \notin Circ
        BY <1>1, <3>2, Zenon DEF Arrived
      <3>4. x.trans \subseteq VPs
        BY <1>R, Zenon DEF Recs
      <3> QED BY <1>0, <1>R, <3>1, <3>3, <3>4, TransferredRecs, Zenon
    <2>2. n = v => P = {}
      BY <1>q, <2>1, Zenon
    <2>3. \A u \in VPs : u # n => Arrived(u)' = {}
      BY <1>6, Zenon DEF Arrived
    <2>4. /\ n # v => Arrived(n)' = xfer[v] \cup P
          /\ n = v => Arrived(n)' = {}
      BY <1>5, <1>6, Facts, Zenon DEF Arrived
    <2>5. Circ' = Arrived(n)'
      BY <2>3, Zenon DEF Circ
    <2> QED BY <2>2, <2>3, <2>4, <2>5, Zenon
  <1>12. \A rec \in xfer[v] : rec.root = None /\ rec.trans = {} /\ rec.reps = {}
    BY <1>0, Zenon DEF IInv, RecInv
  <1>13. \A x \in recs, y \in recs : x.root = y.root /\ x.root # None => x = y
    BY <1>0, <1>R, TransferredOnce, Zenon
  <1>14. \A o \in Roots : /\ MarkedObj(o) <=> \E x \in recs : x.root = o
                          /\ o \in last => \A k \in 1 .. 6, u \in VPs : In(o, k, u) => k \in {5, 6}
    <2>1. ASSUME NEW o \in Roots, NEW x \in recs, x.root = o PROVE MarkedObj(o)
      BY <1>0, <1>R, <2>1, TransferredRecs, Facts, Zenon
    <2>2. ASSUME NEW o \in Roots, MarkedObj(o) PROVE \E x \in recs : x.root = o
      <3>1. PICK u \in VPs : In(o, 5, u) \/ In(o, 6, u)
        BY <2>2, Zenon DEF MarkedObj
      <3>2. CASE In(o, 6, u)
        BY <1>1, <3>2, SMTT(30), Z3 DEF In, Circ
      <3>3. CASE In(o, 5, u)
        <4>1. o \in remList[v]
          BY <1>1, <3>3, SMTT(30), Z3 DEF In
        <4>2. [root |-> o, ref |-> root[o].ref, trans |-> root[o].trans, reps |-> root[o].reps]
                \in recs
          BY <1>p, <4>1, Zenon DEF Transferred
        <4> QED BY <4>2, Zenon
      <3> QED BY <3>1, <3>2, <3>3, Zenon
    <2>3. ASSUME NEW o \in Roots, MarkedObj(o), NEW k \in 1 .. 6, NEW u \in VPs, In(o, k, u)
          PROVE  k \in {5, 6}
      <3>1. PICK w \in VPs : In(o, 5, w) \/ In(o, 6, w)
        BY <2>3, Zenon DEF MarkedObj
      <3>2. 5 \in 1 .. 6 /\ 6 \in 1 .. 6
        BY SMTT(30), Z3
      <3> QED BY <2>3, <3>1, <3>2, SMTT(30), Z3 DEF IInv, PlaceInv
    <2> QED BY <1>2, <2>1, <2>2, <2>3, Zenon
  <1>15. \A o \in Roots, k \in 1 .. 6, u \in VPs :
           In(o, k, u)' <=> \/ k \in 1 .. 4 /\ In(o, k, u)
                            \/ k = 6 /\ u = n /\ MarkedObj(o) /\ o \notin last
    <2> SUFFICES ASSUME NEW o \in Roots, NEW k \in 1 .. 6, NEW u \in VPs
                 PROVE  In(o, k, u)' <=> \/ k \in 1 .. 4 /\ In(o, k, u)
                                         \/ k = 6 /\ u = n /\ MarkedObj(o) /\ o \notin last
      BY Zenon
    <2>1. (\E a \in 0 .. 2 : o \in delSets'[u][a]) <=> (\E a \in 0 .. 2 : o \in delSets[u][a])
      BY <1>0, <1>t, <1>7, SetsStep, SMTT(30), Z3
    <2>2. CASE k \in 1 .. 4
      BY <1>0, <2>1, <2>2, SMTT(30), Z3 DEF In
    <2>3. CASE k = 5
      BY <1>6, <2>3, SMTT(30), Z3 DEF In
    <2>4. CASE k = 6
      <3>1. In(o, 6, u)' <=> \E rec \in Arrived(u)' : rec.root = o
        BY SMTT(30), Z3 DEF In
      <3>2. (\E rec \in Arrived(u)' : rec.root = o) <=> u = n /\ \E rec \in P : rec.root = o
        BY <1>11, <1>12, Facts, Zenon
      <3>3. ASSUME NEW y \in P, y.root = o PROVE MarkedObj(o) /\ o \notin last
        <4>1. PICK x \in recs : y = PassedOn(x, v)
          BY <1>q, Zenon
        <4>2. x.root = o /\ ~(x.trans \subseteq {v}) /\ o # None
          BY <1>R, <3>3, <4>1, PassedOnRec, Facts, Zenon
        <4>3. o \notin last
          BY <1>l, <1>13, <4>2, Zenon
        <4> QED BY <1>14, <4>2, <4>3, Zenon
      <3>4. ASSUME MarkedObj(o), o \notin last PROVE \E rec \in P : rec.root = o
        BY <1>10, <1>14, <3>4, Facts, SMTT(30), Z3
      <3> QED BY <2>4, <3>1, <3>2, <3>3, <3>4, SMTT(30), Z3
    <2> QED BY <2>2, <2>3, <2>4, SMTT(30), Z3
  <1>16. \A r \in Refs, x \in recs : x.ref = r =>
           /\ gte[r].destroying
           /\ \A k \in 1 .. 5, u \in VPs : RefIn(r, k, u) => k = 3 /\ u = v
           /\ \A o \in Roots : Live(o) /\ root[o].ref = r => x.root = o
    <2> SUFFICES ASSUME NEW r \in Refs, NEW x \in recs, x.ref = r
                 PROVE  /\ gte[r].destroying
                        /\ \A k \in 1 .. 5, u \in VPs : RefIn(r, k, u) => k = 3 /\ u = v
                        /\ \A o \in Roots : Live(o) /\ root[o].ref = r => x.root = o
      BY Zenon
    <2>1. x.ref # None /\ x \in Transferred(v)
      BY <1>R, Facts, Zenon
    <2>2. gte[r].destroying
      <3>1. CASE x \in Circ
        <4>1. RefIn(r, 3, v) /\ 3 \in 1 .. 5
          BY <1>0, <2>1, <3>1, TransferredRecs, SMTT(30), Z3
        <4> QED BY <4>1, Zenon DEF IInv, RefInv
      <3>2. CASE x \notin Circ
        BY <1>0, <2>1, <3>2, TransferredRecs, Zenon
      <3> QED BY <3>1, <3>2, Zenon
    <2> QED BY <1>0, <2>1, <2>2, TransferredOnce, SMTT(30), Z3
  <1>17. \A r \in Refs, k \in 1 .. 5, u \in VPs :
           RefIn(r, k, u)' =>
             \/ k \in {1, 2, 5} /\ RefIn(r, k, u)
             \/ k = 3 /\ u = n /\ RefIn(r, 4, v)
             \/ k = 3 /\ u = n /\ HomeOf[r] # v /\ \E x \in recs : x.ref = r
             \/ k = 5 /\ u = v /\ HomeOf[r] = v /\ \E x \in recs : x.ref = r
    <2> SUFFICES ASSUME NEW r \in Refs, NEW k \in 1 .. 5, NEW u \in VPs, RefIn(r, k, u)'
                 PROVE  \/ k \in {1, 2, 5} /\ RefIn(r, k, u)
                        \/ k = 3 /\ u = n /\ RefIn(r, 4, v)
                        \/ k = 3 /\ u = n /\ HomeOf[r] # v /\ \E x \in recs : x.ref = r
                        \/ k = 5 /\ u = v /\ HomeOf[r] = v /\ \E x \in recs : x.ref = r
      BY Zenon
    <2>1. CASE k \in {1, 2}
      BY <1>4, <2>1, SMTT(30), Z3 DEF RefIn
    <2>2. CASE k = 5
      BY <1>4, <2>2, SMTT(30), Z3 DEF RefIn
    <2>3. CASE k = 4
      BY <1>6, <2>3, SMTT(30), Z3 DEF RefIn
    <2>4. CASE k = 3
      <3>1. PICK y \in Arrived(u)' : y.ref = r
        BY <2>4, SMTT(30), Z3 DEF RefIn
      <3>2. u = n /\ y \in xfer[v] \cup P
        BY <1>11, <3>1, Zenon
      <3>3. CASE y \in xfer[v]
        BY <1>0, <2>4, <3>1, <3>2, <3>3, Zenon DEF RefIn
      <3>4. CASE y \in P
        <4>1. PICK x \in recs : y = PassedOn(x, v)
          BY <1>q, <3>4, Zenon
        <4>2. x.ref = r /\ HomeOf[r] # v
          <5>1. x \in Recs /\ r # None
            BY <1>R, Facts, Zenon
          <5>2. r = IF x.ref # None /\ HomeOf[x.ref] = v THEN None ELSE x.ref
            BY <3>1, <4>1, <5>1, PassedOnRec, Zenon
          <5> QED BY <5>1, <5>2, Zenon
        <4> QED BY <2>4, <3>2, <4>2, Zenon
      <3> QED BY <3>2, <3>3, <3>4, Zenon
    <2> QED BY <2>1, <2>2, <2>3, <2>4, SMTT(30), Z3
  <1>18. \A r \in Refs, u \in VPs :
           /\ RefIn(r, 5, u) => RefIn(r, 5, u)'
           /\ HomeOf[r] = v /\ (\E x \in recs : x.ref = r) => RefIn(r, 5, v)'
    BY <1>4, SMTT(30), Z3 DEF RefIn
  <1>19. /\ \A o \in Roots : Live(o)' <=> Live(o) /\ o \notin last
         /\ \A o \in Roots : Live(o)' => root'[o] = root[o]
    BY <1>2, <1>l, Zenon DEF Live
  <1>20. /\ \A s \in Threads : Aged(s)'
         /\ \A s \in Threads : Active(s) => Active(s)'
         /\ \A s \in Threads : Active(s) /\ Aged(s) => VPOf[s] # v
    <2>1. \A s \in Threads : Aged(s)'
      BY <1>6, Facts, Zenon DEF Aged
    <2>2. \A s \in Threads : Active(s) => Active(s)'
      BY <1>0, <1>t, GenStep, Zenon DEF Active, TypeOK
    <2>3. \A s \in Threads : Active(s) /\ Aged(s) => VPOf[s] # v
      BY <1>0, <1>t, AgedStep, Zenon
    <2> QED BY <2>1, <2>2, <2>3, Zenon
  <1>21. \A s \in Threads : VPOf[s] = v =>
           /\ using[s] # None => ~MarkedObj(using[s])
           /\ hold[s] # None => ~MarkedRef(hold[s]) /\ \A x \in recs : x.ref # hold[s]
    <2> SUFFICES ASSUME NEW s \in Threads, VPOf[s] = v
                 PROVE  /\ using[s] # None => ~MarkedObj(using[s])
                        /\ hold[s] # None =>
                             ~MarkedRef(hold[s]) /\ \A x \in recs : x.ref # hold[s]
      BY Zenon
    <2>1. using[s] # None => ~MarkedObj(using[s])
      <3>1. using[s] # None => Active(s) /\ using[s] \in Roots /\ Refers(s, using[s])
        BY <1>t, HeldType, Zenon DEF IInv, ThreadInv, ThreadOK, Refers
      <3> QED BY <1>20, <3>1, Zenon DEF IInv, AgeInv
    <2>2. hold[s] # None => Active(s) /\ hold[s] \in Refs /\ ~MarkedRef(hold[s])
      BY <1>20, <1>t, HeldType, Zenon DEF IInv, ThreadInv, ThreadOK
    <2>3. ASSUME hold[s] # None, NEW x \in recs, x.ref = hold[s] PROVE FALSE
      <3>1. CASE x \in Circ
        <4>1. RefIn(x.ref, 3, v)
          BY <1>0, <1>R, <2>3, <3>1, TransferredRecs, Zenon
        <4> QED BY <2>2, <2>3, <4>1, Zenon DEF MarkedRef
      <3>2. CASE x \notin Circ
        <4>1. /\ x.root \in Roots /\ Live(x.root) /\ MarkedObj(x.root)
              /\ x.ref = root[x.root].ref
          BY <1>0, <1>R, <3>2, TransferredRecs, Zenon
        <4>2. Refers(s, x.root)
          BY <2>3, <4>1, Zenon DEF Refers
        <4> QED BY <1>20, <2>2, <2>3, <4>1, <4>2, Zenon DEF IInv, AgeInv
      <3> QED BY <3>1, <3>2, Zenon
    <2> QED BY <2>1, <2>2, <2>3, Zenon
  <1>22. GteInv'
    <2>1. \A r \in Refs : gte[r].mh # None => gte[r].mh \in Roots
      BY <1>t, Zenon DEF TypeOK
    <2>2. \A r \in Refs : gte[r].mh # None /\ ~gte[r].destroying =>
            gte[r].mh \notin last /\ Live(gte[r].mh) /\ root[gte[r].mh].ref = r
      BY <1>2, Zenon DEF IInv, GteInv
    <2> QED BY <1>0, <1>2, <1>19, <2>1, <2>2, SMTT(30), Z3 DEF IInv, GteInv
  <1>23. RootInv'
    <2> SUFFICES ASSUME NEW o \in Roots, root'[o] # None
                 PROVE  /\ root'[o].reps \subseteq root'[o].trans
                        /\ o \in MultiRep /\ ~root'[o].started => root'[o].reps = root'[o].trans
                        /\ o \notin MultiRep => root'[o].reps = {}
                        /\ ~root'[o].started =>
                             /\ gte'[root'[o].ref].mh = o
                             /\ gte'[root'[o].ref].destroying =>
                                  \E k \in 1 .. 6, u \in VPs : In(o, k, u)'
      BY Zenon DEF RootInv
    <2>1. CASE o \in last
      BY <1>2, <2>1, SMTT(30), Z3 DEF IInv, RootInv, Live
    <2>2. CASE o \notin last
      <3>1. (\E k \in 1 .. 6, u \in VPs : In(o, k, u)) => \E k \in 1 .. 6, u \in VPs : In(o, k, u)'
        <4> SUFFICES ASSUME NEW k \in 1 .. 6, NEW u \in VPs, In(o, k, u)
                     PROVE  \E j \in 1 .. 6, w \in VPs : In(o, j, w)'
          BY Zenon
        <4>1. CASE k \in 1 .. 4
          BY <1>15, <4>1, Zenon
        <4>2. CASE k \in {5, 6}
          <5>1. MarkedObj(o) /\ 6 \in 1 .. 6
            BY <4>2, SMTT(30), Z3 DEF MarkedObj
          <5> QED BY <1>15, <2>2, <5>1, Zenon
        <4> QED BY <4>1, <4>2, SMTT(30), Z3
      <3> QED BY <1>0, <1>2, <2>2, <3>1, SMTT(30), Z3 DEF IInv, RootInv
    <2> QED BY <2>1, <2>2, Zenon
  <1>24. PlaceInv'
    <2> SUFFICES ASSUME NEW o \in Roots, NEW k \in 1 .. 6, NEW u \in VPs, In(o, k, u)'
                 PROVE  /\ Live(o)' /\ gte'[root'[o].ref].destroying
                        /\ k \in {1, 3, 4} => root'[o].trans \subseteq {u}
                        /\ k \in {2, 5} => ~(root'[o].trans \subseteq {u})
                        /\ \A j \in 1 .. 6, w \in VPs : In(o, j, w)' => j = k /\ w = u
      BY Zenon DEF PlaceInv
    <2>0. 5 \in 1 .. 6 /\ 6 \in 1 .. 6
      BY SMTT(30), Z3
    <2>1. CASE k \in 1 .. 4
      <3>1. In(o, k, u)
        BY <1>15, <2>1, SMTT(30), Z3
      <3>2. /\ Live(o) /\ gte[root[o].ref].destroying
            /\ k \in {1, 3, 4} => root[o].trans \subseteq {u}
            /\ k \in {2, 5} => ~(root[o].trans \subseteq {u})
            /\ \A j \in 1 .. 6, w \in VPs : In(o, j, w) => j = k /\ w = u
        BY <3>1, Zenon DEF IInv, PlaceInv
      <3>3. ~MarkedObj(o)
        BY <2>0, <2>1, <3>2, SMTT(30), Z3 DEF MarkedObj
      <3>4. o \notin last
        BY <1>2, <3>3, Zenon
      <3> QED BY <1>0, <1>2, <1>15, <1>19, <3>2, <3>3, <3>4, SMTT(30), Z3
    <2>2. CASE k \notin 1 .. 4
      <3>1. k = 6 /\ u = n /\ MarkedObj(o) /\ o \notin last
        BY <1>15, <2>2, Zenon
      <3>2. PICK i \in {5, 6}, w \in VPs : In(o, i, w)
        BY <3>1, Zenon DEF MarkedObj
      <3>3. /\ Live(o) /\ gte[root[o].ref].destroying
            /\ \A j \in 1 .. 6, z \in VPs : In(o, j, z) => j = i /\ z = w
        BY <2>0, <3>2, SMTT(30), Z3 DEF IInv, PlaceInv
      <3>4. \A j \in 1 .. 6, z \in VPs : In(o, j, z)' => j = k /\ z = u
        BY <1>15, <3>1, <3>3, SMTT(30), Z3
      <3> QED BY <1>0, <1>2, <1>19, <3>1, <3>3, <3>4, SMTT(30), Z3
    <2> QED BY <2>1, <2>2, Zenon
  <1>25. \A y \in Circ' : y.root # None =>
           \E x \in recs : /\ x.root = y.root /\ y = PassedOn(x, v) /\ y \in P
                          /\ y.root \in Roots /\ y.root \notin last
                          /\ ~(x.trans \subseteq {v}) /\ y.trans = x.trans \ {v}
    <2> SUFFICES ASSUME NEW y \in Circ', y.root # None
                 PROVE  \E x \in recs : /\ x.root = y.root /\ y = PassedOn(x, v) /\ y \in P
                                        /\ y.root \in Roots /\ y.root \notin last
                                        /\ ~(x.trans \subseteq {v}) /\ y.trans = x.trans \ {v}
      BY Zenon
    <2>1. y \in P
      BY <1>11, <1>12, Zenon
    <2>2. PICK x \in recs : y = PassedOn(x, v)
      BY <1>q, <2>1, Zenon
    <2>3. /\ x.root = y.root /\ ~(x.trans \subseteq {v}) /\ y.trans = x.trans \ {v}
          /\ x \in Recs
      <3>1. x \in Recs
        BY <1>R, Zenon
      <3>2. /\ y.root = (IF x.trans \subseteq {v} THEN None ELSE x.root)
            /\ \A w : w \in y.trans <=> w \in x.trans /\ w # v
        <4>1. /\ PassedOn(x, v).root = (IF x.trans \subseteq {v} THEN None ELSE x.root)
              /\ \A w : w \in PassedOn(x, v).trans <=> w \in x.trans /\ w # v
          BY <3>1, PassedOnRec, Zenon
        <4> QED BY <2>2, <4>1, Zenon
      <3> QED BY <3>1, <3>2, Zenon
    <2>4. y.root \in Roots
      BY <2>3, Zenon DEF Recs
    <2>5. y.root \notin last
      BY <1>l, <1>13, <2>3, Zenon
    <2> QED BY <2>1, <2>2, <2>3, <2>4, <2>5, Zenon
  <1>26. VpInv'
    <2> SUFFICES ASSUME NEW u \in VPs, NEW o \in vpCleanup'[u]
                 PROVE  /\ root'[o] # None /\ u \in root'[o].reps
                        /\ ~root'[o].started => \E rec \in Circ' : rec.root = o /\ u \notin rec.trans
      BY Zenon DEF VpInv
    <2>0. o \in Roots /\ o # None
      BY <1>8, Facts, SMTT(30), Z3 DEF TypeOK
    <2>1. CASE o \in vpCleanup[u]
      <3>1. /\ root[o] # None /\ u \in root[o].reps
            /\ ~root[o].started => \E rec \in Circ : rec.root = o /\ u \notin rec.trans
        BY <2>1, Zenon DEF IInv, VpInv
      <3>2. CASE o \notin last
        <4>1. ASSUME ~root[o].started
              PROVE  \E rec \in Circ' : rec.root = o /\ u \notin rec.trans
          <5>1. PICK x \in Circ : x.root = o /\ u \notin x.trans
            BY <3>1, <4>1, Zenon
          <5>2. x \in recs /\ PassedOn(x, v) \in P /\ PassedOn(x, v).root = o
            BY <1>1, <1>10, <2>0, <3>2, <5>1, Zenon
          <5>3. u \notin PassedOn(x, v).trans
            <6>1. x \in Recs
              BY <1>R, <5>2, Zenon
            <6>2. \A w : w \in PassedOn(x, v).trans <=> w \in x.trans /\ w # v
              BY <6>1, PassedOnRec, Zenon
            <6> QED BY <5>1, <6>2, Zenon
          <5> QED BY <1>11, <5>2, <5>3, Zenon
        <4> QED BY <1>2, <2>0, <3>1, <3>2, <4>1, Zenon
      <3>3. CASE o \in last
        <4>1. PICK x \in recs : x.root = o /\ x.trans = {v}
          BY <1>l, <3>3, Zenon
        <4>2. PICK y \in Circ : y.root = o /\ u \notin y.trans
          BY <1>2, <3>1, <3>3, Zenon DEF Live
        <4>3. x = y
          BY <1>1, <1>13, <2>0, <4>1, <4>2, Zenon
        <4>4. u # v
          BY <4>1, <4>2, <4>3, Zenon
        <4>5. ~(root[o].reps \subseteq {v})
          BY <3>1, <4>4, Zenon
        <4> QED BY <1>2, <3>1, <3>3, <4>4, <4>5, Zenon
      <3> QED BY <3>2, <3>3, Zenon
    <2>2. CASE o \notin vpCleanup[u]
      <3>1. u = v /\ o \in more
        BY <1>5, <2>2, Zenon
      <3>2. PICK x \in recs : x.root = o /\ v \in x.trans /\ x.trans # {v} /\ v \in x.reps
        BY <1>m, <3>1, Zenon
      <3>3. o \notin last
        BY <1>l, <1>13, <2>0, <3>2, Zenon
      <3>4. root[o] # None /\ v \in root[o].reps
        BY <1>0, <1>R, <2>0, <3>2, TransferredRecs, SMTT(30), Z3 DEF Live
      <3>5. PassedOn(x, v) \in P /\ PassedOn(x, v).root = o /\ v \notin PassedOn(x, v).trans
        <4>1. x \in Recs
          BY <1>R, Zenon
        <4>2. \A w : w \in PassedOn(x, v).trans <=> w \in x.trans /\ w # v
          BY <4>1, PassedOnRec, Zenon
        <4> QED BY <1>10, <2>0, <3>2, <3>3, <4>2, Zenon
      <3> QED BY <1>2, <1>11, <2>0, <3>1, <3>3, <3>4, <3>5, Zenon
    <2> QED BY <2>1, <2>2, Zenon
  <1>27. LteInv'
    <2> SUFFICES ASSUME NEW u \in VPs, NEW r \in Refs, lte'[u][r] # None
                 PROVE  /\ Live(lte[u][r])' /\ root'[lte'[u][r]].ref = r
                        /\ u \in root'[lte'[u][r]].trans
                        /\ \A rec \in Circ' : rec.root = lte'[u][r] => u \in rec.trans
      BY Zenon DEF LteInv
    <2>1. PICK o \in Roots : o = lte'[u][r] /\ o = lte[u][r] /\ (u = v => r \notin dead)
      <3>1. lte'[u][r] = lte[u][r] /\ (u = v => r \notin dead)
        BY <1>3, Zenon
      <3>2. lte'[u][r] \in Roots
        BY <1>3, SMTT(30), Z3
      <3> QED BY <3>1, <3>2, Zenon
    <2>2. /\ Live(o) /\ root[o].ref = r /\ u \in root[o].trans
          /\ \A rec \in Circ : rec.root = o => u \in rec.trans
      BY <2>1, Facts, SMTT(30), Z3 DEF IInv, LteInv
    <2>3. \A x \in recs : x.root = o => u \in x.trans /\ u # v
      <3> SUFFICES ASSUME NEW x \in recs, x.root = o PROVE u \in x.trans /\ u # v
        BY Zenon
      <3>1. u \in x.trans
        BY <1>0, <1>R, <2>2, TransferredRecs, Zenon
      <3> QED BY <1>d, <2>1, <2>2, <3>1, Zenon
    <2>4. o \notin last
      BY <1>l, <2>3, Zenon
    <2>5. \A rec \in Circ' : rec.root = o => u \in rec.trans
      BY <1>25, <2>3, Facts, SMTT(30), Z3
    <2>6. Live(o)' /\ root'[o] = root[o]
      BY <1>19, <2>2, <2>4, Zenon
    <2> QED BY <2>1, <2>2, <2>5, <2>6, Zenon
  <1>28. RecInv'
    <2>1. ASSUME NEW y \in Circ', y.root = None PROVE y.trans = {}
      <3>1. CASE y \in xfer[v]
        BY <1>12, <3>1, Zenon
      <3>2. CASE y \in P
        <4>1. PICK x \in recs : y = PassedOn(x, v)
          BY <1>q, <3>2, Zenon
        <4>2. x \in Recs /\ (x.root = None => x.trans = {})
          BY <1>0, <1>R, TransferredRecs, Zenon
        <4>3. /\ y.root = (IF x.trans \subseteq {v} THEN None ELSE x.root)
              /\ \A w : w \in y.trans <=> w \in x.trans /\ w # v
          BY <4>1, <4>2, PassedOnRec, Zenon
        <4> QED BY <2>1, <4>2, <4>3, Zenon
      <3> QED BY <1>11, <3>1, <3>2, Zenon
    <2>2. ASSUME NEW y \in Circ', y.root # None
          PROVE  /\ y.trans # {}
                 /\ y.trans \subseteq root'[y.root].trans
                 /\ y.reps = y.trans \cap root'[y.root].reps
                 /\ y.ref # None => y.ref = root'[y.root].ref
                 /\ y.ref = None => RefIn(root[y.root].ref, 5, HomeOf[root[y.root].ref])'
      <3>1. PICK x \in recs : /\ x.root = y.root /\ y = PassedOn(x, v) /\ y \in P
                              /\ y.root \in Roots /\ y.root \notin last
                              /\ ~(x.trans \subseteq {v}) /\ y.trans = x.trans \ {v}
        BY <1>25, <2>2, Zenon
      <3>2. /\ x \in Recs /\ Live(x.root) /\ x.trans \subseteq root[x.root].trans
            /\ x.reps = x.trans \cap root[x.root].reps
            /\ x.ref # None => x.ref = root[x.root].ref
            /\ x.ref = None => RefIn(root[x.root].ref, 5, HomeOf[root[x.root].ref])
        BY <1>0, <1>R, <2>2, <3>1, TransferredRecs, Zenon
      <3>3. /\ y.ref = IF x.ref # None /\ HomeOf[x.ref] = v THEN None ELSE x.ref
            /\ y.reps = IF v \in x.trans THEN x.reps \ {v} ELSE x.reps
        BY <3>1, <3>2, PassedOnRec, Zenon
      <3>4. root'[y.root] = root[y.root] /\ root[y.root].ref \in Refs
            /\ HomeOf[root[y.root].ref] \in VPs
        BY <1>2, <1>t, <3>1, <3>2, RootType, Facts, Zenon DEF Live
      <3>5. y.reps = y.trans \cap root[y.root].reps
        BY <3>1, <3>2, <3>3, Zenon
      <3>6. y.ref = None => RefIn(root[y.root].ref, 5, HomeOf[root[y.root].ref])'
        BY <1>18, <3>1, <3>2, <3>3, <3>4, Zenon
      <3>7. y.trans # {} /\ y.trans \subseteq root[y.root].trans
        BY <3>1, <3>2, Zenon
      <3>8. y.ref # None => y.ref = root[y.root].ref
        BY <3>1, <3>2, <3>3, Zenon
      <3> QED BY <3>4, <3>5, <3>6, <3>7, <3>8, Zenon
    <2>3. ASSUME NEW y \in Circ', NEW z \in Circ', y.root = z.root, y.root # None PROVE y = z
      <3>1. PICK x \in recs : x.root = y.root /\ y = PassedOn(x, v)
        BY <1>25, <2>3, Zenon
      <3>2. PICK w \in recs : w.root = z.root /\ z = PassedOn(w, v)
        BY <1>25, <2>3, Zenon
      <3>3. x = w
        BY <1>13, <2>3, <3>1, <3>2, Zenon
      <3> QED BY <3>1, <3>2, <3>3, Zenon
    <2>4. ASSUME NEW y \in Circ', NEW z \in Circ', y.ref = z.ref, y.ref # None PROVE y = z
      <3>0. y \in Recs /\ z \in Recs /\ y.ref \in Refs
        <4>1. Circ' \subseteq Recs
          BY <1>5, <1>11, <1>q, <1>t, Zenon DEF TypeOK
        <4> QED BY <2>4, <4>1, Zenon DEF Recs
      <3>1. \A a \in P : a.ref # None => \E x \in recs : a = PassedOn(x, v) /\ x.ref = a.ref
        <4> SUFFICES ASSUME NEW a \in P, a.ref # None
                     PROVE  \E x \in recs : a = PassedOn(x, v) /\ x.ref = a.ref
          BY Zenon
        <4>1. PICK x \in recs : a = PassedOn(x, v)
          BY <1>q, Zenon
        <4>2. x \in Recs
          BY <1>R, Zenon
        <4>3. a.ref = IF x.ref # None /\ HomeOf[x.ref] = v THEN None ELSE x.ref
          BY <4>1, <4>2, PassedOnRec, Zenon
        <4> QED BY <4>1, <4>3, Zenon
      <3>2. \A a \in xfer[v], b \in P : a.ref = y.ref => b.ref # y.ref
        <4> SUFFICES ASSUME NEW a \in xfer[v], NEW b \in P, a.ref = y.ref, b.ref = y.ref
                     PROVE  FALSE
          BY Zenon
        <4>1. RefIn(y.ref, 4, v) /\ 4 \in 1 .. 5
          BY <1>0, SMTT(30), Z3 DEF RefIn
        <4>2. \E x \in recs : x.ref = y.ref
          BY <2>4, <3>1, Zenon
        <4> QED BY <1>16, <3>0, <4>1, <4>2, SMTT(30), Z3
      <3>3. CASE y \in P /\ z \in P
        <4>1. PICK x \in recs : y = PassedOn(x, v) /\ x.ref = y.ref
          BY <2>4, <3>1, <3>3, Zenon
        <4>2. PICK w \in recs : z = PassedOn(w, v) /\ w.ref = z.ref
          BY <2>4, <3>1, <3>3, Zenon
        <4>3. x = w
          BY <1>0, <1>R, <2>4, <4>1, <4>2, TransferredOnce, Zenon
        <4> QED BY <4>1, <4>2, <4>3, Zenon
      <3>4. CASE y \in xfer[v] /\ z \in xfer[v]
        <4>1. /\ y.root = None /\ y.trans = {} /\ y.reps = {}
              /\ z.root = None /\ z.trans = {} /\ z.reps = {}
          BY <1>12, <3>4, Zenon
        <4>2. /\ y = [root |-> y.root, ref |-> y.ref, trans |-> y.trans, reps |-> y.reps]
              /\ z = [root |-> z.root, ref |-> z.ref, trans |-> z.trans, reps |-> z.reps]
          BY <3>0, Zenon DEF Recs
        <4> QED BY <2>4, <4>1, <4>2, Zenon
      <3> QED BY <1>11, <2>4, <3>2, <3>3, <3>4, Zenon
    <2>5. \A u \in VPs : ~seen'[u]
      BY <1>6, Zenon
    <2> QED BY <2>1, <2>2, <2>3, <2>4, <2>5, Zenon DEF RecInv
  <1>29. RefInv'
    <2> SUFFICES ASSUME NEW r \in Refs, NEW k \in 1 .. 5, NEW u \in VPs, RefIn(r, k, u)'
                 PROVE  /\ gte'[r].destroying
                        /\ k \in {1, 5} => HomeOf[r] = u
                        /\ \A j \in 1 .. 5, w \in VPs : RefIn(r, j, w)' => j = k /\ w = u
                        /\ \A o \in Roots : Live(o)' /\ root'[o].ref = r =>
                             k \in {3, 5} /\ \E w \in VPs : In(o, 6, w)'
      BY Zenon DEF RefInv
    <2>0. 4 \in 1 .. 5 /\ 6 \in 1 .. 6
      BY SMTT(30), Z3
    <2>1. CASE \E x \in recs : x.ref = r
      <3>1. PICK x \in recs : x.ref = r
        BY <2>1, Zenon
      <3>2. /\ gte[r].destroying
            /\ \A j \in 1 .. 5, w \in VPs : RefIn(r, j, w) => j = 3 /\ w = v
            /\ \A o \in Roots : Live(o) /\ root[o].ref = r => x.root = o
        BY <1>16, <3>1, Zenon
      <3>3. \A j \in 1 .. 5, w \in VPs : RefIn(r, j, w)' =>
              IF HomeOf[r] = v THEN j = 5 /\ w = v ELSE j = 3 /\ w = n
        BY <1>17, <2>0, <3>2, SMTT(30), Z3
      <3>4. k \in {3, 5} /\ (k = 5 => u = v /\ HomeOf[r] = v) /\ k # 1
        BY <3>3, SMTT(30), Z3
      <3>5. \A j \in 1 .. 5, w \in VPs : RefIn(r, j, w)' => j = k /\ w = u
        BY <3>3, Zenon
      <3>6. ASSUME NEW o \in Roots, Live(o)', root'[o].ref = r PROVE In(o, 6, n)'
        <4>1. Live(o) /\ root[o].ref = r /\ o \notin last
          BY <1>19, <3>6, Zenon
        <4>2. MarkedObj(o)
          BY <1>14, <3>1, <3>2, <4>1, Zenon
        <4> QED BY <1>15, <2>0, <4>1, <4>2, Zenon
      <3> QED BY <1>0, <3>2, <3>4, <3>5, <3>6, Zenon
    <2>2. CASE ~\E x \in recs : x.ref = r
      <3>1. \A j \in 1 .. 5, w \in VPs : RefIn(r, j, w)' =>
              \/ j \in {1, 2, 5} /\ RefIn(r, j, w)
              \/ j = 3 /\ w = n /\ RefIn(r, 4, v)
        BY <1>17, <2>2, Zenon
      <3>2. PICK i \in 1 .. 5, z \in VPs :
              /\ RefIn(r, i, z)
              /\ \/ i = k /\ z = u /\ k \in {1, 2, 5}
                 \/ i = 4 /\ k = 3 /\ u = n /\ z = v
        BY <2>0, <3>1, Zenon
      <3>3. /\ gte[r].destroying
            /\ i \in {1, 5} => HomeOf[r] = z
            /\ \A j \in 1 .. 5, w \in VPs : RefIn(r, j, w) => j = i /\ w = z
            /\ \A o \in Roots : Live(o) /\ root[o].ref = r =>
                 i \in {3, 5} /\ \E w \in VPs : In(o, 6, w)
        BY <3>2, Zenon DEF IInv, RefInv
      <3>4. \A j \in 1 .. 5, w \in VPs : RefIn(r, j, w)' => j = k /\ w = u
        BY <2>0, <3>1, <3>2, <3>3, SMTT(30), Z3
      <3>5. ASSUME NEW o \in Roots, Live(o)', root'[o].ref = r PROVE k = 5 /\ In(o, 6, n)'
        <4>1. Live(o) /\ root[o].ref = r /\ o \notin last
          BY <1>19, <3>5, Zenon
        <4>2. i \in {3, 5} /\ \E w \in VPs : In(o, 6, w)
          BY <3>3, <4>1, Zenon
        <4>3. MarkedObj(o)
          BY <4>2, Zenon DEF MarkedObj
        <4>4. In(o, 6, n)'
          BY <1>15, <2>0, <4>1, <4>3, Zenon
        <4> QED BY <3>2, <4>2, <4>4, SMTT(30), Z3
      <3>6. k \in {1, 5} => HomeOf[r] = u
        BY <3>2, <3>3, SMTT(30), Z3
      <3> QED BY <1>0, <3>3, <3>4, <3>5, <3>6, Zenon
    <2> QED BY <2>1, <2>2, Zenon
  <1>30. ClaimInv'
    <2> SUFFICES ASSUME NEW u \in VPs, NEW h \in VPs, token'[h] # None,
                        NEW r \in refLists'[u].reclaim
                 PROVE  /\ \A s \in Threads : hold'[s] = r => ~Passed(u, VPOf[s], h)'
                        /\ \A rec \in Circ' : rec.root # None /\ root'[rec.root].ref = r =>
                             \A w \in rec.trans : ~Passed(u, w, h)'
      BY Zenon DEF ClaimInv
    <2>0. r \in Refs /\ r # None
      BY <1>4, Facts, SMTT(30), Z3
    <2>1. \A w \in VPs : Passed(u, w, h)' => Passed(u, w, v) \/ w = v
      <3>1. h = (v + 1) % N
        BY <1>6, <1>n, Zenon
      <3> QED BY <1>0, <1>6, <3>1, PassedStep, Zenon
    <2>2. r \in refLists[u].reclaim \/ (u = v /\ \E x \in recs : x.ref = r)
      BY <1>4, <2>0, Zenon
    <2>3. u = v => \A w : ~Passed(u, w, v)
      BY <1>0, Zenon DEF Passed
    <2>4. ASSUME NEW s \in Threads, hold[s] = r, Passed(u, VPOf[s], h)' PROVE FALSE
      <3>1. Passed(u, VPOf[s], v) \/ VPOf[s] = v
        BY <2>1, <2>4, Facts, Zenon
      <3>2. CASE r \in refLists[u].reclaim
        <4>1. ~Passed(u, VPOf[s], v)
          BY <1>1, <2>4, <3>2, Zenon DEF IInv, ClaimInv
        <4>2. MarkedRef(r)
          BY <3>2, Zenon DEF MarkedRef, RefIn
        <4> QED BY <1>21, <2>0, <2>4, <3>1, <4>1, <4>2, Zenon
      <3>3. CASE u = v /\ \E x \in recs : x.ref = r
        BY <1>21, <2>0, <2>3, <2>4, <3>1, <3>3, Zenon
      <3> QED BY <2>2, <3>2, <3>3, Zenon
    <2>5. ASSUME NEW y \in Circ', y.root # None, root'[y.root].ref = r, NEW w \in y.trans,
                 Passed(u, w, h)'
          PROVE  FALSE
      <3>1. PICK x \in recs : /\ x.root = y.root /\ y.root \in Roots /\ y.root \notin last
                              /\ y.trans = x.trans \ {v}
        BY <1>25, <2>5, Zenon
      <3>2. w # v /\ w \in x.trans /\ w \in VPs /\ root[x.root].ref = r
        BY <1>2, <1>R, <2>5, <3>1, Zenon DEF Recs
      <3>3. Passed(u, w, v)
        BY <2>1, <2>5, <3>2, Zenon
      <3>4. r \in refLists[u].reclaim
        BY <2>2, <2>3, <3>3, Zenon
      <3>5. x \notin Circ
        BY <1>1, <2>5, <3>1, <3>2, <3>3, <3>4, Zenon DEF IInv, ClaimInv
      <3>6. Live(x.root) /\ In(x.root, 5, v)
        BY <1>0, <1>R, <2>5, <3>1, <3>5, TransferredRecs, Zenon
      <3>7. RefIn(r, 5, u) /\ 5 \in 1 .. 5 /\ 5 \in 1 .. 6 /\ 6 \in 1 .. 6
        BY <3>4, SMTT(30), Z3 DEF RefIn
      <3>8. \E z \in VPs : In(x.root, 6, z)
        BY <2>0, <3>1, <3>2, <3>6, <3>7, SMTT(30), Z3 DEF IInv, RefInv
      <3> QED BY <3>1, <3>6, <3>7, <3>8, SMTT(30), Z3 DEF IInv, PlaceInv
    <2> QED BY <1>0, <2>4, <2>5, Zenon
  <1>31. ThreadInv'
    <2> SUFFICES ASSUME NEW s \in Threads PROVE ThreadOK(s)'
      BY Zenon DEF ThreadInv
    <2>0. ThreadOK(s) /\ VPOf[s] \in VPs /\ (using[s] # None => using[s] \in Roots)
      BY <1>t, HeldType, Zenon DEF IInv, ThreadInv
    <2>1. ASSUME using[s] # None
          PROVE  /\ Live(using[s])' /\ VPOf[s] \in root'[using[s]].trans
                 /\ \A rec \in Circ' : rec.root = using[s] => VPOf[s] \in rec.trans
      <3>1. Live(using[s]) /\ VPOf[s] \in root[using[s]].trans /\ using[s] \in Roots
            /\ \A rec \in Circ : rec.root = using[s] => VPOf[s] \in rec.trans
        BY <2>0, <2>1, Zenon DEF ThreadOK
      <3>2. \A x \in recs : x.root = using[s] => VPOf[s] \in x.trans /\ VPOf[s] # v
        <4> SUFFICES ASSUME NEW x \in recs, x.root = using[s]
                     PROVE  VPOf[s] \in x.trans /\ VPOf[s] # v
          BY Zenon
        <4>1. VPOf[s] \in x.trans
          BY <1>0, <1>R, <3>1, TransferredRecs, Zenon
        <4>2. MarkedObj(using[s])
          BY <1>14, <3>1, Zenon
        <4> QED BY <1>21, <2>1, <4>1, <4>2, Zenon
      <3>3. ASSUME using[s] \in last PROVE FALSE
        <4>1. PICK x \in recs : x.root = using[s] /\ x.trans = {v}
          BY <1>l, <3>3, Zenon
        <4>2. VPOf[s] \in x.trans /\ VPOf[s] # v
          BY <3>2, <4>1, Zenon
        <4> QED BY <4>1, <4>2, Zenon
      <3>4. \A rec \in Circ' : rec.root = using[s] => VPOf[s] \in rec.trans
        BY <1>25, <2>1, <3>2, Zenon
      <3>5. root'[using[s]] = root[using[s]]
        BY <1>2, <3>1, <3>3, Zenon
      <3> QED BY <1>0, <3>1, <3>4, <3>5, Zenon DEF Live
    <2> QED BY <1>0, <1>20, <2>0, <2>1, Zenon DEF ThreadOK
  <1>32. AgeInv'
    <2> SUFFICES ASSUME NEW s \in Threads, NEW o \in Roots, Refers(s, o)'
                 PROVE  SetAged(s, o)'
      BY <1>20, Zenon DEF AgeInv
    <2>1. Refers(s, o)
      BY <1>0, <1>19, Zenon DEF Refers
    <2>2. Active(s) /\ SetAged(s, o)
      BY <1>t, <2>1, RootType, Facts, Zenon DEF IInv, AgeInv, ThreadInv, ThreadOK, Refers, Live
    <2>3. CASE VPOf[s] = v
      BY <1>0, <1>t, <1>7, <2>2, <2>3, SetsStep, Zenon DEF SetAged
    <2>4. CASE VPOf[s] # v
      <3>1. gen'[s] = gen[s] /\ VPOf[s] \in VPs
        BY <1>0, <1>t, <2>4, GenStep, Facts, Zenon DEF TypeOK
      <3> QED BY <1>0, <1>7, <2>2, <2>4, <3>1, Zenon DEF SetAged
    <2> QED BY <2>3, <2>4, Zenon
  <1> QED BY <1>8, <1>9, <1>22, <1>23, <1>24, <1>26, <1>27, <1>28, <1>29, <1>30, <1>31, <1>32, Zenon
          DEF IInv

-----------------------------------------------------------------------------
LEMMA Inductive == ASSUME IInv, [Next]_vars PROVE IInv'
  <1>1. ASSUME NEW t \in Threads, ThreadStep(t) PROVE IInv'
    BY <1>1, ActivateInv, DeactivateInv, CallInv, mhReadEntryInv, HandleMissInv, DestroyCOInv,
       GetRefInv, AllocInv, Zenon DEF ThreadStep
  <1>2. ASSUME NEW v \in VPs, CheckCleanup(v) PROVE IInv'
    BY <1>2, CreateNewLocalDeleteSetInv, ProcessLocalDeleteSetsInv, CleanLocalInv, DoVPCleanupInv,
       HaveTokenInv, NoteTokenInv, KeepTokenInv, PassTokenInv, Zenon DEF CheckCleanup
  <1>3. ASSUME NEW v \in VPs, UpdateAndCheckVPThreadMarker(v) PROVE IInv'
    BY <1>3, UpdateAndCheckInv, Zenon
  <1>4. CASE UNCHANGED vars
    <2>1. /\ UNCHANGED <<tableVars, listVars, ringVars>> /\ UNCHANGED placeVars
          /\ UNCHANGED <<gen, hold, miss, using, at>>
      BY <1>4, Zenon DEF vars, threadVars, listVars, ringVars, placeVars
    <2>2. TypeOK'
      BY <2>1, Zenon DEF IInv, TypeOK, tableVars, listVars, ringVars
    <2>3. ClaimInv'
      BY <2>1, ClaimKept, Zenon DEF IInv, tableVars
    <2>4. \A s \in Threads : (Aged(s)' <=> Aged(s)) /\ (Active(s)' <=> Active(s))
      BY <2>1, SameAge, Zenon DEF Active
    <2>5. ThreadInv'
      BY <2>1, <2>4, SameLists, TablesKept, HeldType, Zenon
         DEF IInv, ThreadInv, ThreadOK, tableVars
    <2>6. AgeInv'
      BY <2>1, <2>4, SameAge, SameLists, TablesKept, Zenon DEF IInv, AgeInv, Refers, tableVars
    <2> QED BY <2>1, <2>2, <2>3, <2>5, <2>6, TablesKept, Zenon DEF IInv
  <1> QED BY <1>1, <1>2, <1>3, <1>4, Zenon DEF Next

(* The lists of ListedRootsAlive are the places of the invariant. *)
LEMMA WaitingIn ==
  ASSUME TypeOK, NEW v \in VPs, NEW i \in 1 .. 6, NEW o \in Waiting(v)[i]
  PROVE  o \in Roots /\ In(o, i, v)
  <1>1. CASE i = 1
    BY <1>1, Zenon DEF Waiting, In, TypeOK
  <1>2. CASE i = 2
    BY <1>2, Zenon DEF Waiting, In, TypeOK
  <1>3. CASE i = 3
    <2>1. o \in UNION {delSets[v][a] : a \in 0 .. 2}
      BY <1>3, Zenon DEF Waiting
    <2> QED BY <1>3, <2>1, SMTT(30), Z3 DEF In, TypeOK
  <1>4. CASE i = 4
    BY <1>4, Zenon DEF Waiting, In, TypeOK
  <1>5. CASE i = 5
    BY <1>5, Zenon DEF Waiting, In, TypeOK
  <1>6. CASE i = 6
    <2>1. o \in IF token[v] \in {None, v} THEN {} ELSE {rec.root : rec \in xfer[token[v]]} \ {None}
      BY <1>6, Zenon DEF Waiting
    <2>2. PICK rec \in Arrived(v) : rec.root = o
      BY <2>1, Zenon DEF Arrived
    <2>3. o \in Roots
      BY <2>1, <2>2, CircType, Zenon DEF Recs
    <2> QED BY <1>6, <2>2, <2>3, Zenon DEF In
  <1> QED BY <1>1, <1>2, <1>3, <1>4, <1>5, <1>6, SMTT(30), Z3

LEMMA InvSafe == ASSUME IInv PROVE NoUseAfterCleanup /\ FreeRefUnused /\ ListedRootsAlive
  <1>t. TypeOK
    BY Zenon DEF IInv
  <1>1. NoUseAfterCleanup
    <2>1. ASSUME NEW t \in Threads, using[t] # None
          PROVE  root[using[t]] # None /\ (using[t] \in MultiRep => VPOf[t] \in root[using[t]].reps)
      <3>1. PICK o \in Roots : o = using[t]
        BY <1>t, <2>1, HeldType, Zenon
      <3>2. root[o] # None /\ ~root[o].started /\ VPOf[t] \in root[o].trans
        BY <2>1, <3>1, Zenon DEF IInv, ThreadInv, ThreadOK, Live
      <3>3. o \in MultiRep => root[o].reps = root[o].trans
        BY <3>2, Zenon DEF IInv, RootInv
      <3> QED BY <3>1, <3>2, <3>3, Zenon
    <2>2. ASSUME NEW t \in Threads, miss[t] PROVE root[gte[hold[t]].mh] # None
      <3>1. hold[t] \in Refs /\ gte[hold[t]].mh # None /\ ~gte[hold[t]].destroying
        BY <1>t, <2>2, HeldType, Zenon DEF IInv, ThreadInv, ThreadOK
      <3> QED BY <3>1, Zenon DEF IInv, GteInv, Live
    <2> QED BY <2>1, <2>2, Zenon DEF NoUseAfterCleanup
  <1>2. FreeRefUnused
    <2>1. ASSUME NEW r \in Refs, gte[r].mh = None, NEW v \in VPs, lte[v][r] # None PROVE FALSE
      <3>1. PICK o \in Roots : o = lte[v][r]
        BY <1>t, <2>1, SMTT(30), Z3 DEF TypeOK
      <3>2. root[o] # None /\ ~root[o].started /\ root[o].ref = r
        BY <2>1, <3>1, Zenon DEF IInv, LteInv, Live
      <3>3. gte[r].mh = o
        BY <3>2, Zenon DEF IInv, RootInv
      <3> QED BY <2>1, <3>3, NullAssumption, Zenon
    <2>2. ASSUME NEW r \in Refs, gte[r].mh = None, NEW t \in Threads, hold[t] = r PROVE FALSE
      <3>1. r # None
        BY NullAssumption, Zenon
      <3> QED BY <2>2, <3>1, Zenon DEF IInv, ThreadInv, ThreadOK
    <2> QED BY <2>1, <2>2, Zenon DEF FreeRefUnused
  <1>3. ListedRootsAlive
    <2>1. \A v \in VPs : \A o \in vpCleanup[v] : root[o] # None /\ v \in root[o].reps
      BY Zenon DEF IInv, VpInv
    <2>2. ASSUME NEW v \in VPs, NEW i \in 1 .. 6, NEW o \in Waiting(v)[i]
          PROVE  /\ root[o] # None /\ ~root[o].started
                 /\ \A u \in VPs, j \in 1 .. 6 : o \in Waiting(u)[j] => u = v /\ j = i
      <3>1. o \in Roots /\ In(o, i, v)
        BY <1>t, WaitingIn, Zenon
      <3>2. \A u \in VPs, j \in 1 .. 6 : o \in Waiting(u)[j] => In(o, j, u)
        BY <1>t, WaitingIn, Zenon
      <3> QED BY <3>1, <3>2, Zenon DEF IInv, PlaceInv, Live
    <2> QED BY <2>1, <2>2, Zenon DEF ListedRootsAlive
  <1> QED BY <1>1, <1>2, <1>3, Zenon

(* Whatever the number of processors, threads, references and objects, and *)
(* however activations, calls, misses, destroyCO, the local and the remote *)
(* deletions and the token interleave.                                     *)
LEMMA CleanupInvariance == Spec => [](NoUseAfterCleanup /\ FreeRefUnused /\ ListedRootsAlive)
  <1>1. Init => IInv
    BY InitInv, Zenon
  <1>2. IInv /\ [Next]_vars => IInv'
    BY Inductive, Zenon
  <1>3. IInv => NoUseAfterCleanup /\ FreeRefUnused /\ ListedRootsAlive
    BY InvSafe, Zenon
  <1> QED BY <1>1, <1>2, <1>3, PTL DEF Spec

(* The cleanup deletes no root or representative that a thread is in. *)
THEOREM CleanupIsSafe == Spec => []NoUseAfterCleanup
  BY CleanupInvariance, PTL

(* A reference is free, to be allocated again, only when no translation,   *)
(* no list and no thread refers to it any more.                            *)
THEOREM FreeMeansUnused == Spec => []FreeRefUnused
  BY CleanupInvariance, PTL

(* The manager's own lists name live objects, each once. *)
THEOREM ListsNameLiveRoots == Spec => []ListedRootsAlive
  BY CleanupInvariance, PTL

-----------------------------------------------------------------------------
(***************************************************************************)
(* A global thread marker elapses only when every thread that was active   *)
(* when it was set is gone, for any number of processors and threads.      *)
(***************************************************************************)

VARIABLES mark, marked

Glob == INSTANCE ThreadMarkers

(* What one step can disturb besides the types. *)
OneToken == \A v \in Glob!VPs : token[v] # None => \A u \in Glob!VPs : token[u] # None => u = v
MarkedActive == \A t \in marked : Glob!Active(t)
SeenHasToken == \A v \in Glob!VPs : seen[v] => token[v] # None

Behind(v) ==
  /\ \A t \in marked : VPOf[t] >= v
  /\ v = 0 /\ ~seen[v] => marked = {}
  /\ seen[v] /\ age[v] = 1 => \A t \in marked \cap Glob!On(v) : gen[t] = "prev"
  /\ seen[v] /\ age[v] = 2 => marked \cap Glob!On(v) = {}

TokenRound == mark = 1 => \A v \in Glob!VPs : token[v] # None => Behind(v)

(* The invariant of ThreadMarkers, conjunct by conjunct. *)
LEMMA Parts == Glob!IInv <=> /\ Glob!TypeOK /\ OneToken /\ MarkedActive /\ SeenHasToken
                             /\ TokenRound /\ Glob!GlobalMarkerElapsed
  BY Zenon DEF Glob!IInv, OneToken, MarkedActive, SeenHasToken, TokenRound, Behind

(* Numbers of processors, ages and None do not get confused. *)
LEMMA GlobFacts ==
  /\ N \in Nat \ {0}
  /\ Glob!VPs \subseteq Nat
  /\ 0 \in Glob!VPs
  /\ None \notin Int
  /\ \A v \in Glob!VPs : (v + 1) % N \in Glob!VPs
  /\ \A v \in Glob!VPs : (v + 1) % N = IF v = N - 1 THEN 0 ELSE v + 1
  /\ \A t \in Threads : VPOf[t] \in Glob!VPs
  <1>1. N \in Nat \ {0} /\ Glob!VPs \subseteq Nat /\ 0 \in Glob!VPs /\ None \notin Int
        /\ \A t \in Threads : VPOf[t] \in Glob!VPs
    BY NAssumption, VPOfAssumption, NoneAssumption, SMTT(30), Z3 DEF Glob!VPs
  <1>2. ASSUME NEW v \in Glob!VPs PROVE (v + 1) % N = IF v = N - 1 THEN 0 ELSE v + 1
    <2>1. v \in Nat /\ v < N
      BY NAssumption, SMTT(30), Z3 DEF Glob!VPs
    <2>2. CASE v = N - 1
      BY <2>1, <2>2, NAssumption, SMTT(30), Z3
    <2>3. CASE v # N - 1
      BY <2>1, <2>3, NAssumption, SMTT(30), Z3
    <2> QED BY <2>2, <2>3, Zenon
  <1>3. ASSUME NEW v \in Glob!VPs PROVE (v + 1) % N \in Glob!VPs
    BY <1>2, NAssumption, SMTT(30), Z3 DEF Glob!VPs
  <1> QED BY <1>1, <1>2, <1>3, Zenon

(* updateTheGen leaves active threads active, and moves the threads of its *)
(* processor out of the current generation when it advances.               *)
LEMMA GlobGenStep ==
  ASSUME Glob!TypeOK, NEW v \in Glob!VPs, NEW late \in SUBSET Glob!On(v), Glob!updateTheGen(v, late)
  PROVE  /\ gen' \in [Threads -> Glob!Gen]
         /\ \A t \in Threads : gen[t] # "none" => gen'[t] # "none"
         /\ \A t \in Threads : t \notin Glob!On(v) => gen'[t] = gen[t]
         /\ \A t \in Glob!On(v) : gen[t] = "prev" => Glob!Advances(v) = 0 /\ gen'[t] = "prev"
         /\ \A t \in Glob!On(v) : gen[t] = "cur" => Glob!Advances(v) \in {0, 1}
         /\ Glob!Advances(v) = 1 => \A t \in Glob!On(v) : gen[t] # "none" => gen'[t] = "prev"
         /\ Glob!Advances(v) \in {0, 1, 2}
  BY SMTT(30), Z3 DEF Glob!TypeOK, Glob!updateTheGen, Glob!On, Glob!Active, Glob!Gen, Glob!Advances

(* The marker's age grows by the number of advances and stops at 2. *)
LEMMA AgeStep ==
  ASSUME Glob!TypeOK, NEW v \in Glob!VPs
  PROVE  /\ Glob!AgeAfter(v) \in 0 .. 2
         /\ Glob!Advances(v) \in {0, 1, 2}
         /\ seen[v] /\ Glob!Advances(v) = 0 => Glob!AgeAfter(v) = age[v]
         /\ seen[v] /\ Glob!AgeAfter(v) = 1 => \/ Glob!Advances(v) = 0 /\ age[v] = 1
                                               \/ Glob!Advances(v) = 1 /\ age[v] = 0
         /\ seen[v] /\ Glob!AgeAfter(v) = 2 => \/ age[v] = 2
                                               \/ Glob!Advances(v) = 1 /\ age[v] = 1
                                               \/ Glob!Advances(v) = 2
  <1>1. Glob!Advances(v) \in {0, 1, 2}
    BY Zenon DEF Glob!Advances
  <1>2. age[v] \in 0 .. 2 /\ seen[v] \in BOOLEAN
    BY Zenon DEF Glob!TypeOK
  <1> QED BY <1>1, <1>2, SMTT(30), Z3 DEF Glob!AgeAfter, Glob!Older

(* When the holder's marker has elapsed no marked thread is left there. *)
LEMMA ElapsedHere ==
  ASSUME Glob!IInv, mark = 1, NEW v \in Glob!VPs, token[v] # None, seen[v], Glob!AgeAfter(v) = 2,
         NEW late \in SUBSET Glob!On(v), Glob!updateTheGen(v, late)
  PROVE  marked \cap Glob!On(v) = {}
  <1>1. Glob!TypeOK /\ MarkedActive /\ Behind(v)
    BY Parts, Zenon DEF TokenRound
  <1>2. CASE age[v] = 2
    BY <1>1, <1>2, Zenon DEF Behind
  <1>3. CASE Glob!Advances(v) = 1 /\ age[v] = 1
    <2>1. \A t \in marked \cap Glob!On(v) : gen[t] = "prev"
      BY <1>1, <1>3, Zenon DEF Behind
    <2> QED BY <2>1, <1>1, <1>3, GlobGenStep, SMTT(30), Z3
  <1>4. CASE Glob!Advances(v) = 2
    <2>1. \A t \in Glob!On(v) : gen[t] = "none"
      BY <1>1, <1>4, GlobGenStep, SMTT(30), Z3 DEF Glob!TypeOK, Glob!Gen, Glob!On
    <2> QED BY <2>1, <1>1, Zenon DEF MarkedActive, Glob!Active
  <1> QED BY <1>1, <1>2, <1>3, <1>4, AgeStep, Zenon

(* The initial state satisfies the invariant. *)
LEMMA InitIInv == Glob!Init => Glob!IInv
  <1> SUFFICES ASSUME Glob!Init PROVE Glob!IInv
    BY Zenon
  <1>1. Glob!TypeOK /\ mark = None /\ marked = {}
    BY GlobFacts, SMTT(30), Z3 DEF Glob!Init, Glob!InitGen, Glob!TypeOK, Glob!Gen
  <1>2. \A v \in Glob!VPs : (token[v] # None => v = 0) /\ ~seen[v]
    BY Zenon DEF Glob!Init
  <1>3. None # 1 /\ None # 2
    BY NoneAssumption, SMTT(30), Z3
  <1> QED
    BY <1>1, <1>2, <1>3, Zenon DEF Glob!IInv, Glob!GlobalMarkerElapsed

(* A thread that becomes active is not marked. *)
LEMMA ActivateStep ==
  ASSUME Glob!IInv, NEW t \in Threads, Glob!Activate(t) PROVE Glob!IInv'
  <1> USE DEF Glob!Activate, Glob!activate
  <1>1. Glob!TypeOK'
    BY Zenon DEF Glob!IInv, Glob!TypeOK, Glob!Gen
  <1>2. \A s \in marked : s # t /\ gen'[s] = gen[s] /\ s \in Threads
    BY Zenon DEF Glob!IInv, Glob!TypeOK, Glob!Active
  <1>3. OneToken' /\ MarkedActive' /\ SeenHasToken' /\ Glob!GlobalMarkerElapsed'
    BY <1>2, Parts, Zenon DEF OneToken, MarkedActive, SeenHasToken, Glob!GlobalMarkerElapsed, Glob!Active
  <1>4. TokenRound'
    BY <1>2, Parts, SMTT(30), Z3 DEF TokenRound, Behind, Glob!On
  <1> QED BY <1>1, <1>3, <1>4, Parts, PTL

(* A thread that becomes inactive is no longer marked. *)
LEMMA DeactivateStep ==
  ASSUME Glob!IInv, NEW t \in Threads, Glob!Deactivate(t) PROVE Glob!IInv'
  <1> USE DEF Glob!Deactivate, Glob!deactivate
  <1>1. Glob!TypeOK'
    BY Zenon DEF Glob!IInv, Glob!TypeOK, Glob!Gen
  <1>2. \A s \in marked' : s # t /\ gen'[s] = gen[s] /\ s \in marked
    BY Zenon DEF Glob!IInv, Glob!TypeOK, Glob!Active
  <1>3. OneToken' /\ MarkedActive' /\ SeenHasToken' /\ Glob!GlobalMarkerElapsed'
    BY <1>2, Parts, Zenon
       DEF OneToken, MarkedActive, SeenHasToken, Glob!GlobalMarkerElapsed, Glob!Active
  <1>4. TokenRound'
    BY <1>2, Parts, SMTT(30), Z3 DEF TokenRound, Behind, Glob!On
  <1> QED BY <1>1, <1>3, <1>4, Parts, PTL

(* A fresh marker has age 0, of which nothing is claimed. *)
LEMMA SetStep ==
  ASSUME Glob!IInv, Glob!SetGlobalThreadMarker PROVE Glob!IInv'
  <1> USE DEF Glob!SetGlobalThreadMarker
  <1>1. Glob!TypeOK'
    BY SMTT(30), Z3 DEF Glob!IInv, Glob!TypeOK
  <1>2. OneToken' /\ MarkedActive' /\ SeenHasToken' /\ Glob!GlobalMarkerElapsed' /\ TokenRound'
    BY Parts, SMTT(30), Z3
       DEF OneToken, MarkedActive, SeenHasToken, Glob!GlobalMarkerElapsed, TokenRound, Glob!Active
  <1> QED BY <1>1, <1>2, Parts, PTL

(* An advance on the holder pushes its marked threads one generation on. *)
LEMMA UpdateStep ==
  ASSUME Glob!IInv, NEW v \in Glob!VPs, Glob!UpdateTheGen(v) PROVE Glob!IInv'
  <1>0. PICK late \in SUBSET Glob!On(v) : Glob!updateTheGen(v, late)
    BY Zenon DEF Glob!UpdateTheGen
  <1>1. Glob!TypeOK'
    BY <1>0, GlobGenStep, AgeStep, Zenon DEF Glob!IInv, Glob!TypeOK, Glob!UpdateTheGen
  <1>2. OneToken' /\ MarkedActive' /\ SeenHasToken' /\ Glob!GlobalMarkerElapsed'
    BY <1>0, GlobGenStep, Parts, Zenon
       DEF Glob!TypeOK, OneToken, MarkedActive, SeenHasToken, Glob!GlobalMarkerElapsed, Glob!Active, Glob!UpdateTheGen
  <1>3. ASSUME mark' = 1, NEW w \in Glob!VPs, token'[w] # None
        PROVE  Behind(w)'
    <2>1. mark = 1 /\ token[w] # None /\ seen' = seen /\ marked' = marked /\ token' = token
      BY <1>3, Zenon DEF Glob!UpdateTheGen
    <2>2. Behind(w) /\ Glob!TypeOK /\ MarkedActive
      BY <2>1, Parts, Zenon DEF TokenRound
    <2>3. (\A t \in marked : VPOf[t] >= w)' /\ (w = 0 /\ ~seen[w] => marked = {})'
      BY <2>1, <2>2, Zenon DEF Behind
    <2>4. CASE w # v
      <3>1. age'[w] = age[w]
        BY <2>2, <2>4, Zenon DEF Glob!UpdateTheGen, Glob!TypeOK
      <3>2. \A t \in Glob!On(w) : gen'[t] = gen[t]
        BY <1>0, <2>2, <2>4, GlobGenStep, Zenon DEF Glob!On
      <3> QED BY <2>1, <2>2, <2>3, <3>1, <3>2, Zenon DEF Behind, Glob!On
    <2>5. CASE w = v
      <3>1. age'[v] = Glob!AgeAfter(v)
        BY <2>2, Zenon DEF Glob!UpdateTheGen, Glob!TypeOK
      <3>2. seen[v] /\ Glob!AgeAfter(v) = 1 => \A t \in marked \cap Glob!On(v) : gen'[t] = "prev"
        <4> SUFFICES ASSUME seen[v], Glob!AgeAfter(v) = 1, NEW t \in marked \cap Glob!On(v)
                     PROVE  gen'[t] = "prev"
          BY Zenon
        <4>1. t \in Threads /\ gen[t] # "none"
          BY <2>2, Zenon DEF Glob!TypeOK, MarkedActive, Glob!Active
        <4>2. CASE Glob!Advances(v) = 0 /\ age[v] = 1
          BY <4>2, <2>2, <2>5, <1>0, GlobGenStep, Zenon DEF Behind
        <4>3. CASE Glob!Advances(v) = 1
          BY <4>1, <4>3, <2>2, <1>0, GlobGenStep, Zenon
        <4> QED BY <4>2, <4>3, <2>2, AgeStep, Zenon
      <3>3. seen[v] /\ Glob!AgeAfter(v) = 2 => marked \cap Glob!On(v) = {}
        BY <1>0, <2>1, <2>5, ElapsedHere, Zenon
      <3> QED BY <2>1, <2>3, <2>5, <3>1, <3>2, <3>3, Zenon DEF Behind, Glob!On
    <2> QED BY <2>4, <2>5, Zenon
  <1>4. TokenRound'
    BY <1>3, Zenon DEF TokenRound
  <1> QED BY <1>1, <1>2, <1>4, Parts, PTL

(* The first notice by processor 0 starts the round; the second ends it,   *)
(* and by then every processor has had the token after the first.          *)
LEMMA NoteStep ==
  ASSUME Glob!IInv, NEW v \in Glob!VPs, Glob!NoteToken(v) PROVE Glob!IInv'
  <1>1. Glob!TypeOK /\ OneToken /\ MarkedActive /\ SeenHasToken /\ TokenRound /\ Glob!GlobalMarkerElapsed
    BY Parts, Zenon
  <1>2. Glob!TypeOK'
    BY <1>1, NoneAssumption, SMTT(30), Z3 DEF Glob!TypeOK, Glob!NoteToken, Glob!Older
  <1>3. OneToken' /\ MarkedActive' /\ SeenHasToken'
    BY <1>1, Zenon DEF Glob!TypeOK, OneToken, MarkedActive, SeenHasToken, Glob!Active, Glob!NoteToken
  <1>4. Glob!GlobalMarkerElapsed'
    <2>1. CASE v = 0 /\ mark = 1
      BY <1>1, <2>1, Zenon DEF TokenRound, Behind, Glob!GlobalMarkerElapsed, Glob!NoteToken
    <2>2. CASE ~(v = 0 /\ mark = 1)
      BY <1>1, <2>2, NoneAssumption, SMTT(30), Z3
         DEF Glob!TypeOK, Glob!GlobalMarkerElapsed, Glob!NoteToken, Glob!Older
    <2> QED BY <2>1, <2>2, Zenon
  <1>5. ASSUME mark' = 1, NEW w \in Glob!VPs, token'[w] # None
        PROVE  Behind(w)'
    <2>1. w = v /\ seen'[v] /\ age'[v] = 0 /\ gen' = gen /\ marked' = marked
      BY <1>1, <1>5, Zenon DEF OneToken, Glob!TypeOK, Glob!NoteToken
    <2>2. \A t \in marked : VPOf[t] >= v
      <3>1. CASE mark = 1
        BY <1>1, <3>1, Zenon DEF TokenRound, Behind, Glob!NoteToken
      <3>2. CASE mark # 1
        <4>1. v = 0
          BY <1>5, <3>2, Zenon DEF Glob!NoteToken
        <4> QED BY <4>1, <1>1, GlobFacts, SMTT(30), Z3 DEF Glob!TypeOK, Glob!VPs
      <3> QED BY <3>1, <3>2, Zenon
    <2> QED BY <2>1, <2>2, SMTT(30), Z3 DEF Behind
  <1>6. TokenRound'
    BY <1>5, Zenon DEF TokenRound
  <1> QED BY <1>2, <1>3, <1>4, <1>6, Parts, PTL

(* The token leaves a processor that is rid of the marked threads. *)
LEMMA PassStep ==
  ASSUME Glob!IInv, NEW v \in Glob!VPs, Glob!PassToken(v) PROVE Glob!IInv'
  <1>0. PICK late \in SUBSET Glob!On(v) : Glob!updateTheGen(v, late)
    BY Zenon DEF Glob!PassToken
  <1>1. Glob!TypeOK /\ OneToken /\ MarkedActive /\ SeenHasToken /\ TokenRound /\ Glob!GlobalMarkerElapsed
    BY Parts, Zenon
  <1>2. Glob!TypeOK'
    BY <1>0, <1>1, GlobGenStep, GlobFacts, SMTT(30), Z3 DEF Glob!TypeOK, Glob!PassToken
  <1>3. \A u \in Glob!VPs : token'[u] # None => u = (v + 1) % N
    BY <1>1, GlobFacts, Zenon DEF Glob!TypeOK, OneToken, Glob!PassToken
  <1>4. OneToken' /\ MarkedActive' /\ Glob!GlobalMarkerElapsed'
    BY <1>0, <1>1, <1>3, GlobGenStep, Zenon
       DEF Glob!TypeOK, OneToken, MarkedActive, Glob!GlobalMarkerElapsed, Glob!Active, Glob!PassToken
  <1>5. \A u \in Glob!VPs : ~seen'[u]
    BY <1>1, Zenon DEF Glob!TypeOK, OneToken, SeenHasToken, Glob!PassToken
  <1>6. ASSUME mark' = 1, NEW w \in Glob!VPs, token'[w] # None
        PROVE  Behind(w)'
    <2>1. mark = 1 /\ marked' = marked /\ w = (v + 1) % N
      BY <1>3, <1>6, Zenon DEF Glob!PassToken
    <2>2. marked \cap Glob!On(v) = {}
      BY <1>0, <2>1, ElapsedHere, Zenon DEF Glob!PassToken
    <2>3. \A t \in marked : VPOf[t] \in Glob!VPs /\ VPOf[t] >= v /\ VPOf[t] # v
      BY <1>1, <2>1, <2>2, GlobFacts, Zenon
         DEF Glob!TypeOK, Glob!On, TokenRound, Behind, Glob!PassToken
    <2>4. CASE v = N - 1
      <3>1. w = 0 /\ marked = {}
        BY <2>1, <2>3, <2>4, GlobFacts, SMTT(30), Z3 DEF Glob!VPs
      <3> QED BY <3>1, <2>1, Zenon DEF Behind
    <2>5. CASE v # N - 1
      <3>1. w = v + 1 /\ w # 0
        BY <2>1, <2>5, GlobFacts, SMTT(30), Z3
      <3>2. \A t \in marked : VPOf[t] >= w
        BY <2>3, <3>1, GlobFacts, SMTT(30), Z3 DEF Glob!VPs
      <3> QED BY <3>1, <3>2, <2>1, <1>5, Zenon DEF Behind
    <2> QED BY <2>4, <2>5, Zenon
  <1>7. TokenRound'
    BY <1>6, Zenon DEF TokenRound
  <1>8. SeenHasToken'
    BY <1>5, Zenon DEF SeenHasToken
  <1> QED BY <1>2, <1>4, <1>7, <1>8, Parts, PTL

(* checkGlobalThreadMarker says ELAPSED only when every thread that was    *)
(* active on any processor when the marker was set has been deactivated    *)
(* since, for every number of processors and threads.                      *)
THEOREM GlobalMarkersCorrect == Glob!Spec => []Glob!GlobalMarkerElapsed
  <1>1. Glob!Init => Glob!IInv
    BY InitIInv, Zenon
  <1>2. Glob!IInv /\ [Glob!Next]_(Glob!vars) => Glob!IInv'
    <2> SUFFICES ASSUME Glob!IInv, [Glob!Next]_(Glob!vars) PROVE Glob!IInv'
      BY Zenon
    <2>1. CASE Glob!Next
      BY <2>1, ActivateStep, DeactivateStep, SetStep, UpdateStep, NoteStep, PassStep, Zenon
         DEF Glob!Next
    <2>2. CASE UNCHANGED Glob!vars
      BY <2>2, Zenon DEF Glob!vars, Glob!IInv, Glob!TypeOK, Glob!GlobalMarkerElapsed, Glob!Active
    <2> QED BY <2>1, <2>2, Zenon
  <1>3. Glob!IInv => Glob!GlobalMarkerElapsed
    BY Zenon DEF Glob!IInv
  <1> HIDE DEF Glob!IInv, Glob!GlobalMarkerElapsed
  <1> QED BY <1>1, <1>2, <1>3, PTL DEF Glob!Spec
=============================================================================
