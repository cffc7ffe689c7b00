---------------------------- MODULE MPMsgMgrProofs ---------------------------
(***************************************************************************)
(* Proofs about MPMsgMgr, for every set of dispatchers, threads and        *)
(* message holders.                                                        *)
(*                                                                         *)
(* The headers of all messages share one next field, so the argument is    *)
(* about pointers: the queue heads, the lists being walked, the links of   *)
(* the headers on them and the headers in hand.  A message that has yet to *)
(* be handled or answered has exactly one pointer leading to it, any other *)
(* header has none (LinkInv), and the two kinds of list never meet         *)
(* (LabelInv).                                                             *)
(***************************************************************************)
EXTENDS MPMsgMgr, TLAPS

Labels == {"idle", "lookup", "push", "cas", "interrupt", "wait", "next", "walk", "handle",
           "release", "follow", "stopped"}

TypeOK ==
  /\ enabled \in BOOLEAN /\ manager \subseteq VPs
  /\ head \in [Queues -> Hdrs \cup {NULL}] /\ next \in [Hdrs -> Hdrs \cup {NULL}]
  /\ busy \in [Holders -> BOOLEAN] /\ sender \in [Clients -> BOOLEAN]
  /\ intr \in [VPs -> SUBSET {"send", "reply"}] /\ todo \in [VPs -> SUBSET {"send", "reply"}]
  /\ pc \in [Actors -> Labels]
  /\ hdr \in [Actors -> Hdrs \cup {NULL}] /\ list \in [Actors -> Hdrs \cup {NULL}]
  /\ old \in [Actors -> Hdrs \cup {NULL}] /\ dest \in [Actors -> Queues \cup {NULL}]
  /\ owed \subseteq Hdrs

(* The locals that belong to each program counter. *)
PcOK(a) ==
  /\ pc[a] \in {"lookup", "push", "cas", "interrupt", "handle"} <=> hdr[a] # NULL
  /\ pc[a] \in {"lookup", "push", "cas", "interrupt"} => dest[a] \in Queues
  /\ pc[a] \in {"lookup", "wait"} => a \in Clients
  /\ pc[a] \in {"walk", "handle", "next", "release", "follow", "stopped"} => a \notin Clients
  /\ pc[a] \in {"next", "release", "follow"} => a \in VPs
  /\ pc[a] \in {"walk", "release", "follow", "stopped"} => list[a] # NULL
  /\ list[a] # NULL =>
       /\ a \notin Clients
       /\ pc[a] \in {"walk", "handle", "push", "cas", "interrupt", "release", "follow", "stopped"}
  /\ pc[a] = "cas" => next[hdr[a]] = old[a]
PcInv == \A a \in Actors : PcOK(a)

(* A message that has yet to be handled or answered, and one that is on a  *)
(* queue or list rather than in hand.                                      *)
Alive(x)  == x \in owed \/ (x \in Clients /\ sender[x])
Held(x)   == \E a \in Actors : pc[a] # "interrupt" /\ hdr[a] = x
OnSome(x) == Alive(x) /\ ~Held(x)

Kinds == {"head", "list", "next", "follow", "hdr"}
Cells == Queues \cup Actors \cup Hdrs

(* The pointers through which a header is reached.  In processReplyQueue,  *)
(* between the release of a sender and the following of the link, that     *)
(* link is the pointer to the rest.                                        *)
Leads(k, i, x) ==
  \/ k = "head" /\ i \in Queues /\ head[i] = x
  \/ k = "list" /\ i \in Actors /\ pc[i] # "follow" /\ list[i] = x
  \/ k = "next" /\ i \in Hdrs /\ OnSome(i) /\ next[i] = x
  \/ k = "follow" /\ i \in VPs /\ pc[i] = "follow" /\ next[list[i]] = x
  \/ k = "hdr" /\ i \in Actors /\ pc[i] # "interrupt" /\ hdr[i] = x

Sole(x, k, i) ==
  /\ Leads(k, i, x)
  /\ \A j \in Kinds, u \in Cells : Leads(j, u, x) => j = k /\ u = i

LinkOK(x) ==
  /\ Alive(x) => \E k \in Kinds, i \in Cells : Sole(x, k, i)
  /\ ~Alive(x) => \A k \in Kinds, i \in Cells : ~Leads(k, i, x)
LinkInv == \A x \in Hdrs : LinkOK(x)

(* On its way to the reply queue of v, or on it. *)
Replied(x, v) == x \in Clients /\ x \notin owed /\ Home[x] = v

LabelInv ==
  /\ \A v \in VPs, x \in Hdrs :
       /\ head[<<v, "send">>] = x => x \in owed
       /\ head[<<v, "reply">>] = x => Replied(x, v)
       /\ pc[v] = "release" /\ list[v] = x => Replied(x, v)
       /\ pc[v] = "follow" /\ list[v] = x =>
            /\ x \in Clients /\ Home[x] = v /\ ~Alive(x)
            /\ \A y \in Hdrs : next[x] = y => Replied(y, v)
  /\ \A a \in Actors, x \in Hdrs : list[a] = x /\ pc[a] \notin {"release", "follow"} => x \in owed
  /\ \A x, y \in Hdrs : OnSome(x) /\ next[x] = y =>
       /\ x \in owed => y \in owed
       /\ x \notin owed => Replied(y, Home[x])

(* Clients in SendSyncUval and SendAsyncUval, and the messages in hand. *)
ClientOK(c) ==
  /\ pc[c] = "idle" => ~Alive(c)
  /\ hdr[c] # NULL /\ hdr[c] # c => hdr[c] \in Holders /\ ~Alive(c)
  /\ pc[c] # "lookup" /\ c \in owed => sender[c]
  /\ pc[c] \in {"lookup", "push", "cas", "interrupt"} => dest[c][2] = "send"
  /\ pc[c] \in {"lookup", "push", "cas"} => hdr[c] \in owed
ClientInv == \A c \in Clients : ClientOK(c)

HandOK(a) ==
  /\ pc[a] = "handle" => hdr[a] \in owed
  /\ a \notin Clients /\ pc[a] \in {"push", "cas"} =>
       /\ hdr[a] \in Clients /\ hdr[a] \notin owed /\ sender[hdr[a]]
       /\ dest[a] = <<Home[hdr[a]], "reply">>
HandInv ==
  /\ \A a \in Actors : HandOK(a)
  /\ \A h \in Holders : busy[h] <=> h \in owed

(* The interrupts of the queues. *)
AnnounceInv ==
  /\ QueueAnnounced
  /\ \A v \in VPs : pc[v] = "idle" => todo[v] = {}

IInv == TypeOK /\ PcInv /\ LinkInv /\ LabelInv /\ ClientInv /\ HandInv /\ AnnounceInv

-----------------------------------------------------------------------------
LEMMA Facts ==
  /\ \A c \in Clients : /\ c \in Hdrs /\ c \in Actors /\ c # NULL
                        /\ c \notin VPs /\ c \notin Workers /\ c \notin Holders
  /\ \A h \in Holders : h \in Hdrs /\ h \notin Clients /\ h # NULL
  /\ \A v \in VPs : v \in Actors /\ v \notin Clients /\ v \notin Workers
  /\ \A w \in Workers : w \in Actors /\ w \notin Clients /\ w \notin VPs /\ Home[w] \in VPs
  /\ \A x \in Hdrs : x # NULL /\ Home[x] \in VPs /\ (x \in Clients \/ x \in Holders)
  /\ \A a \in Actors : a \in Cells
  /\ \A x \in Hdrs : x \in Cells
  /\ \A q \in Queues : q \in Cells
  <1>1. /\ \A c \in Clients : /\ c \in Hdrs /\ c \in Actors /\ c # NULL
                              /\ c \notin VPs /\ c \notin Workers /\ c \notin Holders
        /\ \A h \in Holders : h \in Hdrs /\ h \notin Clients /\ h # NULL
        /\ \A v \in VPs : v \in Actors /\ v \notin Clients /\ v \notin Workers
        /\ \A w \in Workers : w \in Actors /\ w \notin Clients /\ w \notin VPs
    BY ObjectsDiffer, Zenon DEF Hdrs, Actors
  <1>2. /\ \A w \in Workers : Home[w] \in VPs
        /\ \A x \in Hdrs : Home[x] \in VPs
    BY HomesAreVPs, Zenon DEF Hdrs
  <1>3. \A x \in Hdrs : x # NULL /\ (x \in Clients \/ x \in Holders)
    BY ObjectsDiffer, Zenon DEF Hdrs
  <1> QED BY <1>1, <1>2, <1>3, Zenon DEF Cells

LEMMA QueueFacts ==
  /\ \A v \in VPs : <<v, "send">> \in Queues /\ <<v, "reply">> \in Queues
  /\ \A v, w : <<v, "send">> # <<w, "reply">>
  /\ \A v, w, k, j : <<v, k>> = <<w, j>> => v = w /\ k = j
  /\ \A v, k : <<v, k>>[1] = v /\ <<v, k>>[2] = k
  /\ \A q \in Queues : /\ q[1] \in VPs /\ q[2] \in {"send", "reply"}
                       /\ q = <<q[1], q[2]>>
  BY SMTT(30), Z3 DEF Queues

LEMMA KindFacts ==
  /\ "head" \in Kinds /\ "list" \in Kinds /\ "next" \in Kinds /\ "follow" \in Kinds
  /\ "hdr" \in Kinds
  BY Zenon DEF Kinds

(* A header whose pointers and state stay is linked as before. *)
LEMMA LinkSame ==
  ASSUME NEW x \in Hdrs, LinkOK(x), Alive(x)' <=> Alive(x),
         \A k \in Kinds, i \in Cells : Leads(k, i, x)' <=> Leads(k, i, x)
  PROVE  LinkOK(x)'
  <1>1. ASSUME Alive(x)' PROVE \E k \in Kinds, i \in Cells : Sole(x, k, i)'
    <2>1. PICK k \in Kinds, i \in Cells : Sole(x, k, i)
      BY <1>1, Zenon DEF LinkOK
    <2>2. Sole(x, k, i)'
      BY <2>1, Zenon DEF Sole
    <2> QED BY <2>2, Zenon
  <1>2. ASSUME ~Alive(x)' PROVE \A k \in Kinds, i \in Cells : ~Leads(k, i, x)'
    BY <1>2, Zenon DEF LinkOK
  <1> QED BY <1>1, <1>2, Zenon DEF LinkOK

(* A step that moves no pointer and finishes no message. *)
LEMMA Undisturbed ==
  ASSUME LinkInv, UNCHANGED <<head, next, list>>,
         \A x \in Hdrs : Alive(x)' <=> Alive(x),
         \A a \in Actors : pc'[a] = "follow" <=> pc[a] = "follow",
         \A a \in Actors, x \in Hdrs : pc'[a] # "interrupt" /\ hdr'[a] = x
                                         <=> pc[a] # "interrupt" /\ hdr[a] = x
  PROVE  /\ LinkInv'
         /\ \A x \in Hdrs : OnSome(x)' <=> OnSome(x)
  <1>1. \A x \in Hdrs : OnSome(x)' <=> OnSome(x)
    BY Zenon DEF OnSome, Held
  <1>2. ASSUME NEW x \in Hdrs, NEW k \in Kinds, NEW i \in Cells
        PROVE  Leads(k, i, x)' <=> Leads(k, i, x)
    BY <1>1, Facts, Zenon DEF Leads
  <1>3. ASSUME NEW x \in Hdrs PROVE LinkOK(x)'
    <2>1. LinkOK(x) /\ (Alive(x)' <=> Alive(x))
      BY Zenon DEF LinkInv
    <2> QED BY <1>2, <2>1, LinkSame, Zenon
  <1> QED BY <1>1, <1>3, Zenon DEF LinkInv

LEMMA LabelsKept ==
  ASSUME LabelInv, UNCHANGED <<head, next, list, owed>>,
         \A x \in Hdrs : (Alive(x)' <=> Alive(x)) /\ (OnSome(x)' <=> OnSome(x)),
         \A a \in Actors : /\ pc'[a] = "follow" <=> pc[a] = "follow"
                           /\ pc'[a] = "release" <=> pc[a] = "release"
  PROVE  LabelInv'
  BY Facts, SMTT(30), Z3 DEF LabelInv, Replied

(* A step that keeps the announcements that are pending. *)
LEMMA AnnounceKept ==
  ASSUME AnnounceInv, UNCHANGED <<head, intr, todo>>,
         \A v \in VPs : pc'[v] = "idle" => pc[v] = "idle",
         \A a \in Actors : pc[a] = "interrupt" => pc'[a] = "interrupt" /\ dest'[a] = dest[a]
  PROVE  AnnounceInv'
  <1> SUFFICES ASSUME NEW v \in VPs, NEW k \in {"send", "reply"}, head'[<<v, k>>] # NULL
               PROVE  \/ k \in intr'[v] \cup todo'[v]
                      \/ \E a \in Actors : pc'[a] = "interrupt" /\ dest'[a] = <<v, k>>
    BY Zenon DEF AnnounceInv, QueueAnnounced
  <1>1. \/ k \in intr[v] \cup todo[v]
        \/ \E a \in Actors : pc[a] = "interrupt" /\ dest[a] = <<v, k>>
    BY Zenon DEF AnnounceInv, QueueAnnounced
  <1> QED BY <1>1, Zenon

LEMMA InitInv == Init => IInv
  <1> SUFFICES ASSUME Init PROVE IInv
    BY Zenon
  <1>1. TypeOK
    BY Zenon DEF Init, TypeOK, Labels
  <1>2. \A a \in Actors : /\ pc[a] = "idle" /\ hdr[a] = NULL /\ list[a] = NULL
    BY Zenon DEF Init
  <1>3. (\A q \in Queues : head[q] = NULL) /\ owed = {} /\ (\A c \in Clients : ~sender[c])
        /\ \A v \in VPs : todo[v] = {}
    BY Zenon DEF Init
  <1>4. PcInv
    BY <1>2, Zenon DEF PcInv, PcOK
  <1>5. \A x \in Hdrs : ~Alive(x)
    BY <1>3, Zenon DEF Alive
  <1>6. LinkInv
    BY <1>2, <1>3, <1>5, Facts, Zenon DEF LinkInv, LinkOK, Leads, OnSome
  <1>7. LabelInv
    BY <1>2, <1>3, <1>5, Facts, QueueFacts, SMTT(30), Z3 DEF LabelInv, OnSome
  <1>8. ClientInv
    BY <1>2, <1>3, <1>5, Facts, Zenon DEF ClientInv, ClientOK
  <1>9. HandInv
    BY <1>2, <1>3, Facts, Zenon DEF HandInv, HandOK, Init
  <1>10. AnnounceInv
    BY <1>3, QueueFacts, Zenon DEF AnnounceInv, QueueAnnounced
  <1> QED BY <1>1, <1>4, <1>6, <1>7, <1>8, <1>9, <1>10, Zenon DEF IInv

LEMMA SoleNow ==
  ASSUME NEW x \in Hdrs, Alive(x)', NEW k \in Kinds, NEW i \in Cells,
         \A j \in Kinds, u \in Cells : Leads(j, u, x)' <=> j = k /\ u = i
  PROVE  LinkOK(x)'
  <1>1. Sole(x, k, i)'
    BY Zenon DEF Sole
  <1> QED BY <1>1, Zenon DEF LinkOK

(* What a pointer leads to is alive, and no other pointer leads to it. *)
LEMMA Led ==
  ASSUME LinkInv, NEW x \in Hdrs, NEW k \in Kinds, NEW i \in Cells, Leads(k, i, x)
  PROVE  /\ Alive(x)
         /\ \A j \in Kinds, u \in Cells : Leads(j, u, x) => j = k /\ u = i
  <1>1. LinkOK(x)
    BY Zenon DEF LinkInv
  <1>2. Alive(x)
    BY <1>1, Zenon DEF LinkOK
  <1>3. PICK l \in Kinds, w \in Cells : Sole(x, l, w)
    BY <1>1, <1>2, Zenon DEF LinkOK
  <1>4. k = l /\ i = w
    BY <1>3, Zenon DEF Sole
  <1> QED BY <1>2, <1>3, <1>4, Zenon DEF Sole

(* The pointers of Led by name. *)
LEMMA LedAlive ==
  ASSUME LinkInv
  PROVE  /\ \A q \in Queues, x \in Hdrs : head[q] = x => Alive(x)
         /\ \A a \in Actors, x \in Hdrs : pc[a] # "follow" /\ list[a] = x => Alive(x)
         /\ \A y, x \in Hdrs : OnSome(y) /\ next[y] = x => Alive(x)
         /\ \A v \in VPs, x \in Hdrs : pc[v] = "follow" /\ next[list[v]] = x => Alive(x)
         /\ \A a \in Actors, x \in Hdrs : pc[a] # "interrupt" /\ hdr[a] = x => Alive(x)
  <1>1. \A q \in Queues, x \in Hdrs : head[q] = x => Leads("head", q, x)
    BY Zenon DEF Leads
  <1>2. \A a \in Actors, x \in Hdrs : pc[a] # "follow" /\ list[a] = x => Leads("list", a, x)
    BY Zenon DEF Leads
  <1>3. \A y, x \in Hdrs : OnSome(y) /\ next[y] = x => Leads("next", y, x)
    BY Zenon DEF Leads
  <1>4. \A v \in VPs, x \in Hdrs : pc[v] = "follow" /\ next[list[v]] = x => Leads("follow", v, x)
    BY Zenon DEF Leads
  <1>5. \A a \in Actors, x \in Hdrs : pc[a] # "interrupt" /\ hdr[a] = x => Leads("hdr", a, x)
    BY Zenon DEF Leads
  <1> QED BY <1>1, <1>2, <1>3, <1>4, <1>5, Led, Facts, KindFacts, Zenon

-----------------------------------------------------------------------------
(* SendAsyncUval and SendSyncUval take a header that nothing leads to. *)
LEMMA AllocStep ==
  ASSUME IInv, NEW c \in Clients, NEW x \in Hdrs, NEW v \in Targets,
         pc[c] = "idle", Enabled(c), ~Alive(x), x = c \/ x \in Holders,
         busy' \in [Holders -> BOOLEAN], \A h \in Holders : busy'[h] <=> (busy[h] \/ h = x),
         hdr' = [hdr EXCEPT ![c] = x], dest' = [dest EXCEPT ![c] = <<v, "send">>],
         owed' = owed \cup {x}, pc' = [pc EXCEPT ![c] = "lookup"],
         UNCHANGED <<enabled, manager, head, next, sender, intr, todo, list, old>>
  PROVE  IInv'
  <1>t. TypeOK /\ PcInv /\ LinkInv /\ LabelInv /\ ClientInv /\ HandInv /\ AnnounceInv
    BY Zenon DEF IInv
  <1>c. c \in Actors /\ v \in VPs /\ <<v, "send">> \in Queues
    BY Facts, QueueFacts, HomesAreVPs, Zenon
  <1>1. /\ pc'[c] = "lookup" /\ hdr'[c] = x /\ dest'[c] = <<v, "send">>
        /\ \A a \in Actors : a # c => pc'[a] = pc[a] /\ hdr'[a] = hdr[a] /\ dest'[a] = dest[a]
    BY <1>c, <1>t, Zenon DEF TypeOK
  <1>2. TypeOK'
    BY <1>c, <1>t, Zenon DEF TypeOK, Labels
  <1>3. hdr[c] = NULL /\ list[c] = NULL
    BY <1>c, <1>t, Zenon DEF PcInv, PcOK
  <1>4. \A y \in Hdrs : Alive(y)' <=> Alive(y) \/ y = x
    BY Zenon DEF Alive
  <1>5. \A y \in Hdrs : Held(y)' <=> Held(y) \/ y = x
    BY <1>1, <1>3, <1>c, Facts, SMTT(30), Z3 DEF Held
  <1>6. \A y \in Hdrs : OnSome(y)' <=> OnSome(y)
    BY <1>4, <1>5, Zenon DEF OnSome
  <1>7. ASSUME NEW y \in Hdrs, NEW k \in Kinds, NEW i \in Cells
        PROVE  Leads(k, i, y)' <=> Leads(k, i, y) \/ (y = x /\ k = "hdr" /\ i = c)
    <2>1. CASE i = c
      BY <1>1, <1>3, <1>6, <1>c, <2>1, Facts, SMTT(30), Z3 DEF Leads
    <2>2. CASE i # c
      <3>1. i \in VPs => i \in Actors
        BY Facts, Zenon
      <3> QED BY <1>1, <1>6, <2>2, <3>1, Zenon DEF Leads
    <2> QED BY <2>1, <2>2, Zenon
  <1>8. LinkInv'
    <2> SUFFICES ASSUME NEW y \in Hdrs PROVE LinkOK(y)'
      BY Zenon DEF LinkInv
    <2>1. LinkOK(y)
      BY <1>t, Zenon DEF LinkInv
    <2>2. CASE y # x
      BY <1>4, <1>7, <2>1, <2>2, LinkSame, Zenon
    <2>3. CASE y = x
      <3>1. Alive(y)' /\ c \in Cells
        BY <1>4, <1>c, <2>3, Facts, Zenon
      <3>2. \A k \in Kinds, i \in Cells : Leads(k, i, y)' <=> k = "hdr" /\ i = c
        BY <1>7, <2>1, <2>3, Zenon DEF LinkOK
      <3> QED BY <3>1, <3>2, KindFacts, SoleNow, Zenon
    <2> QED BY <2>2, <2>3, Zenon
  <1>9. LabelInv'
    <2>1. \A y \in Hdrs, w \in VPs : Alive(y) /\ Replied(y, w) => Replied(y, w)'
      BY Zenon DEF Replied
    <2>2. \A w \in VPs : pc'[w] = pc[w]
      BY <1>1, Facts, SMTT(30), Z3
    <2>3. \A a \in Actors : list[a] # NULL => pc'[a] = pc[a]
      BY <1>1, <1>3, Zenon
    <2>4. ASSUME NEW w \in VPs, NEW y \in Hdrs
          PROVE  /\ head'[<<w, "send">>] = y => y \in owed'
                 /\ head'[<<w, "reply">>] = y => Replied(y, w)'
                 /\ pc'[w] = "release" /\ list'[w] = y => Replied(y, w)'
      <3>1. /\ head[<<w, "send">>] = y => y \in owed
            /\ head[<<w, "reply">>] = y => Replied(y, w)
            /\ pc[w] = "release" /\ list[w] = y => Replied(y, w)
        BY <1>t, Zenon DEF LabelInv
      <3>2. /\ head[<<w, "reply">>] = y => Alive(y)
            /\ pc[w] = "release" /\ list[w] = y => Alive(y)
        BY <1>t, LedAlive, Facts, QueueFacts, Zenon
      <3> QED BY <2>1, <2>2, <3>1, <3>2, Zenon
    <2>5. ASSUME NEW w \in VPs, NEW y \in Hdrs, pc'[w] = "follow", list'[w] = y
          PROVE  /\ y \in Clients /\ Home[y] = w /\ ~Alive(y)'
                 /\ \A z \in Hdrs : next'[y] = z => Replied(z, w)'
      <3>0. pc[w] = "follow" /\ list[w] = y
        BY <2>2, <2>5, Zenon
      <3>1. /\ y \in Clients /\ Home[y] = w /\ ~Alive(y)
            /\ \A z \in Hdrs : next[y] = z => Replied(z, w)
        BY <1>t, <3>0, Zenon DEF LabelInv
      <3>2. y # x
        BY <2>2, <2>5, <3>1, Facts, SMTT(30), Z3 DEF Enabled
      <3>3. \A z \in Hdrs : next[y] = z => Alive(z)
        BY <1>t, <2>2, <2>5, LedAlive, Zenon
      <3> QED BY <1>4, <2>1, <3>1, <3>2, <3>3, Zenon
    <2>6. \A a \in Actors, y \in Hdrs :
            list'[a] = y /\ pc'[a] \notin {"release", "follow"} => y \in owed'
      BY <1>t, <2>3, Facts, Zenon DEF LabelInv
    <2>7. ASSUME NEW y \in Hdrs, NEW z \in Hdrs, OnSome(y)', next'[y] = z
          PROVE  /\ y \in owed' => z \in owed'
                 /\ y \notin owed' => Replied(z, Home[y])'
      <3>1. OnSome(y) /\ y # x /\ next[y] = z
        BY <1>6, <2>7, Zenon DEF OnSome
      <3>2. /\ y \in owed => z \in owed
            /\ y \notin owed => Replied(z, Home[y])
        BY <1>t, <3>1, Zenon DEF LabelInv
      <3>3. Alive(z)
        BY <1>t, <3>1, LedAlive, Zenon
      <3> QED BY <2>1, <3>1, <3>2, <3>3, Facts, Zenon
    <2> QED BY <2>4, <2>5, <2>6, <2>7, Zenon DEF LabelInv
  <1>10. ClientInv'
    <2> SUFFICES ASSUME NEW d \in Clients PROVE ClientOK(d)'
      BY Zenon DEF ClientInv
    <2>1. ClientOK(d) /\ d \in Hdrs /\ d \in Actors
      BY <1>t, Facts, Zenon DEF ClientInv
    <2>2. CASE d = c
      BY <1>1, <1>4, <2>1, <2>2, QueueFacts, SMTT(30), Z3 DEF ClientOK
    <2>3. CASE d # c
      <3>1. d # x
        BY <2>3, Facts, Zenon
      <3> QED BY <1>1, <1>4, <2>1, <2>3, <3>1, SMTT(30), Z3 DEF ClientOK
    <2> QED BY <2>2, <2>3, Zenon
  <1>11. HandInv'
    <2>1. \A a \in Actors : pc'[a] = "handle" => hdr'[a] \in owed'
      BY <1>t, <1>1, SMTT(30), Z3 DEF HandInv, HandOK
    <2>2. ASSUME NEW a \in Actors, a \notin Clients, pc'[a] \in {"push", "cas"}
          PROVE  /\ hdr'[a] \in Clients /\ hdr'[a] \notin owed' /\ sender'[hdr'[a]]
                 /\ dest'[a] = <<Home[hdr'[a]], "reply">>
      <3>1. pc[a] \in {"push", "cas"} /\ hdr'[a] = hdr[a] /\ dest'[a] = dest[a]
        BY <1>1, <2>2, Zenon
      <3>2. /\ hdr[a] \in Clients /\ hdr[a] \notin owed /\ sender[hdr[a]]
            /\ dest[a] = <<Home[hdr[a]], "reply">>
        BY <1>t, <2>2, <3>1, Zenon DEF HandInv, HandOK
      <3>3. hdr[a] # x
        BY <3>2, Zenon DEF Alive
      <3> QED BY <3>1, <3>2, <3>3, SMTT(30), Z3
    <2>3. \A h \in Holders : busy'[h] <=> h \in owed'
      BY <1>t, Zenon DEF HandInv
    <2> QED BY <2>1, <2>2, <2>3, Zenon DEF HandInv, HandOK
  <1>12. PcInv'
    <2> SUFFICES ASSUME NEW a \in Actors PROVE PcOK(a)'
      BY Zenon DEF PcInv
    <2>1. PcOK(a)
      BY <1>t, Zenon DEF PcInv
    <2>2. CASE a = c
      BY <1>1, <1>3, <1>c, <2>2, Facts, SMTT(30), Z3 DEF PcOK
    <2>3. CASE a # c
      BY <1>1, <2>1, <2>3, Zenon DEF PcOK
    <2> QED BY <2>2, <2>3, Zenon
  <1>13. AnnounceInv'
    <2>1. \A w \in VPs : pc'[w] = pc[w]
      BY <1>1, Facts, SMTT(30), Z3
    <2>2. \A a \in Actors : pc[a] = "interrupt" => pc'[a] = "interrupt" /\ dest'[a] = dest[a]
      BY <1>1, Zenon
    <2> QED BY <1>t, <2>1, <2>2, AnnounceKept, Zenon
  <1> QED BY <1>2, <1>8, <1>9, <1>10, <1>11, <1>12, <1>13, Zenon DEF IInv

LEMMA AllocInv == ASSUME IInv, NEW c \in Clients, Alloc(c) PROVE IInv'
  <1>t. ClientOK(c) /\ HandInv /\ TypeOK
    BY Zenon DEF IInv, ClientInv
  <1>1. ASSUME NEW v \in Targets, AllocSync(c, v) PROVE IInv'
    <2>1. ~Alive(c) /\ c \in Hdrs
      BY <1>1, <1>t, Facts, Zenon DEF AllocSync, ClientOK
    <2>2. busy' \in [Holders -> BOOLEAN] /\ \A h \in Holders : busy'[h] <=> (busy[h] \/ h = c)
      BY <1>1, <1>t, Facts, SMTT(30), Z3 DEF AllocSync, TypeOK
    <2>3. /\ pc[c] = "idle" /\ Enabled(c)
          /\ hdr' = [hdr EXCEPT ![c] = c] /\ dest' = [dest EXCEPT ![c] = <<v, "send">>]
          /\ owed' = owed \cup {c} /\ pc' = [pc EXCEPT ![c] = "lookup"]
          /\ UNCHANGED <<enabled, manager, head, next, sender, intr, todo, list, old>>
      BY <1>1, Zenon DEF AllocSync, Goto
    <2> QED BY <2>1, <2>2, <2>3, AllocStep, Zenon
  <1>2. ASSUME NEW v \in Targets, NEW h \in Holders, AllocAsync(c, h, v) PROVE IInv'
    <2>1. ~Alive(h) /\ h \in Hdrs
      BY <1>2, <1>t, Facts, Zenon DEF AllocAsync, HandInv, Alive
    <2>2. busy' \in [Holders -> BOOLEAN] /\ \A g \in Holders : busy'[g] <=> (busy[g] \/ g = h)
      BY <1>2, <1>t, Zenon DEF AllocAsync, TypeOK
    <2>3. /\ pc[c] = "idle" /\ Enabled(c)
          /\ hdr' = [hdr EXCEPT ![c] = h] /\ dest' = [dest EXCEPT ![c] = <<v, "send">>]
          /\ owed' = owed \cup {h} /\ pc' = [pc EXCEPT ![c] = "lookup"]
          /\ UNCHANGED <<enabled, manager, head, next, sender, intr, todo, list, old>>
      BY <1>2, Zenon DEF AllocAsync, Goto
    <2> QED BY <2>1, <2>2, <2>3, AllocStep, Zenon
  <1> QED BY <1>1, <1>2, Zenon DEF Alloc

-----------------------------------------------------------------------------
(* The steps of send and addPendingMsg that move no pointer. *)

LEMMA LookupInv == ASSUME IInv, NEW c \in Clients, Lookup(c) PROVE IInv'
  <1>t. TypeOK /\ PcInv /\ LinkInv /\ LabelInv /\ ClientInv /\ HandInv /\ AnnounceInv
    BY Zenon DEF IInv
  <1>c. c \in Actors /\ c \in Hdrs /\ ClientOK(c) /\ PcOK(c)
    BY <1>t, Facts, Zenon DEF ClientInv, PcInv
  <1>0. /\ pc[c] = "lookup" /\ sender' = [sender EXCEPT ![c] = hdr[c] = c]
        /\ pc' = [pc EXCEPT ![c] = "push"]
        /\ UNCHANGED <<enabled, manager, head, next, busy, intr, todo, hdr, list, old, dest, owed>>
    BY Zenon DEF Lookup, Goto
  <1>1. /\ pc'[c] = "push" /\ \A a \in Actors : a # c => pc'[a] = pc[a]
        /\ sender'[c] = (hdr[c] = c) /\ \A d \in Clients : d # c => sender'[d] = sender[d]
    BY <1>0, <1>c, <1>t, Zenon DEF TypeOK
  <1>2. TypeOK'
    BY <1>0, <1>t, Zenon DEF TypeOK, Labels
  <1>3. \A y \in Hdrs : Alive(y)' <=> Alive(y)
    <2>1. ASSUME NEW y \in Hdrs, y # c PROVE Alive(y)' <=> Alive(y)
      BY <1>0, <1>1, <2>1, Zenon DEF Alive
    <2>2. CASE hdr[c] = c
      <3>1. c \in owed
        BY <1>0, <1>c, <2>2, Zenon DEF ClientOK
      <3> QED BY <1>0, <2>1, <3>1, Zenon DEF Alive
    <2>3. CASE hdr[c] # c
      <3>1. ~Alive(c)
        BY <1>0, <1>c, <2>3, Zenon DEF ClientOK, PcOK
      <3>2. ~Alive(c)'
        BY <1>0, <1>1, <2>3, <3>1, Zenon DEF Alive
      <3> QED BY <2>1, <3>1, <3>2, Zenon
    <2> QED BY <2>2, <2>3, Zenon
  <1>4. /\ \A a \in Actors : /\ pc'[a] = "follow" <=> pc[a] = "follow"
                             /\ pc'[a] = "release" <=> pc[a] = "release"
                             /\ pc'[a] = "interrupt" <=> pc[a] = "interrupt"
                             /\ pc'[a] = "idle" <=> pc[a] = "idle"
    BY <1>0, <1>1, Zenon
  <1>5. LinkInv' /\ \A x \in Hdrs : OnSome(x)' <=> OnSome(x)
    BY <1>0, <1>t, <1>3, <1>4, Undisturbed, Zenon
  <1>6. LabelInv'
    BY <1>0, <1>t, <1>3, <1>4, <1>5, LabelsKept, Zenon
  <1>7. ClientInv'
    <2> SUFFICES ASSUME NEW d \in Clients PROVE ClientOK(d)'
      BY Zenon DEF ClientInv
    <2>1. ClientOK(d) /\ d \in Hdrs /\ d \in Actors
      BY <1>t, Facts, Zenon DEF ClientInv
    <2>2. CASE d = c
      <3>1. c \in owed => sender'[c]
        BY <1>0, <1>1, <1>c, Zenon DEF ClientOK, PcOK, Alive
      <3> QED BY <1>0, <1>1, <1>3, <2>1, <2>2, <3>1, Zenon DEF ClientOK
    <2>3. CASE d # c
      BY <1>0, <1>1, <1>3, <2>1, <2>3, Zenon DEF ClientOK
    <2> QED BY <2>2, <2>3, Zenon
  <1>8. HandInv'
    <2>1. ASSUME NEW a \in Actors, a \notin Clients, pc'[a] \in {"push", "cas"}
          PROVE  /\ hdr'[a] \in Clients /\ hdr'[a] \notin owed' /\ sender'[hdr'[a]]
                 /\ dest'[a] = <<Home[hdr'[a]], "reply">>
      <3>1. pc[a] \in {"push", "cas"}
        BY <1>1, <2>1, Zenon
      <3>2. /\ hdr[a] \in Clients /\ hdr[a] \notin owed /\ sender[hdr[a]]
            /\ dest[a] = <<Home[hdr[a]], "reply">>
        BY <1>t, <2>1, <3>1, Zenon DEF HandInv, HandOK
      <3>3. PICK y \in Clients : y = hdr[a] /\ y \in Hdrs
        BY <3>2, Facts, Zenon
      <3>4. Alive(y)'
        BY <1>3, <3>2, <3>3, Zenon DEF Alive
      <3>5. sender'[y]
        BY <1>0, <3>2, <3>3, <3>4, Zenon DEF Alive
      <3> QED BY <1>0, <3>2, <3>3, <3>5, Zenon
    <2>2. \A a \in Actors : pc'[a] = "handle" => hdr'[a] \in owed'
      BY <1>0, <1>1, <1>t, Zenon DEF HandInv, HandOK
    <2> QED BY <1>0, <1>t, <2>1, <2>2, Zenon DEF HandInv, HandOK
  <1>9. PcInv'
    <2> SUFFICES ASSUME NEW a \in Actors PROVE PcOK(a)'
      BY Zenon DEF PcInv
    <2>1. PcOK(a)
      BY <1>t, Zenon DEF PcInv
    <2>2. CASE a = c
      BY <1>0, <1>1, <1>c, <2>2, Zenon DEF PcOK
    <2>3. CASE a # c
      BY <1>0, <1>1, <2>1, <2>3, Zenon DEF PcOK
    <2> QED BY <2>2, <2>3, Zenon
  <1>10. AnnounceInv'
    BY <1>0, <1>t, <1>4, Facts, AnnounceKept, Zenon
  <1> QED BY <1>2, <1>5, <1>6, <1>7, <1>8, <1>9, <1>10, Zenon DEF IInv

(* One actor moves, with the same header in hand if any. *)
LEMMA OneActor ==
  ASSUME IInv, NEW a \in Actors, UNCHANGED <<head, next, list, busy, sender, owed>>,
         \A b \in Actors : b # a =>
           pc'[b] = pc[b] /\ hdr'[b] = hdr[b] /\ dest'[b] = dest[b] /\ old'[b] = old[b],
         pc'[a] = "follow" <=> pc[a] = "follow", pc'[a] = "release" <=> pc[a] = "release",
         \A x \in Hdrs : pc'[a] # "interrupt" /\ hdr'[a] = x <=> pc[a] # "interrupt" /\ hdr[a] = x,
         a \in Clients => ClientOK(a)', PcOK(a)', HandOK(a)'
  PROVE  LinkInv' /\ LabelInv' /\ ClientInv' /\ HandInv' /\ PcInv'
  <1>t. PcInv /\ LinkInv /\ LabelInv /\ ClientInv /\ HandInv
    BY Zenon DEF IInv
  <1>1. \A y \in Hdrs : Alive(y)' <=> Alive(y)
    BY Zenon DEF Alive
  <1>2. /\ \A b \in Actors : /\ pc'[b] = "follow" <=> pc[b] = "follow"
                             /\ pc'[b] = "release" <=> pc[b] = "release"
        /\ \A b \in Actors, x \in Hdrs : pc'[b] # "interrupt" /\ hdr'[b] = x
                                           <=> pc[b] # "interrupt" /\ hdr[b] = x
    <2>1. ASSUME NEW b \in Actors, b # a
          PROVE  /\ pc'[b] = "follow" <=> pc[b] = "follow"
                 /\ pc'[b] = "release" <=> pc[b] = "release"
                 /\ \A x \in Hdrs : pc'[b] # "interrupt" /\ hdr'[b] = x
                                     <=> pc[b] # "interrupt" /\ hdr[b] = x
      BY <2>1, Zenon
    <2> QED BY <2>1, Zenon
  <1>3. LinkInv' /\ \A x \in Hdrs : OnSome(x)' <=> OnSome(x)
    BY <1>t, <1>1, <1>2, Undisturbed, Zenon
  <1>4. LabelInv'
    BY <1>t, <1>1, <1>2, <1>3, LabelsKept, Zenon
  <1>5. ClientInv'
    <2>1. ASSUME NEW d \in Clients, d # a PROVE ClientOK(d)'
      <3>1. ClientOK(d) /\ d \in Hdrs /\ d \in Actors
        BY <1>t, Facts, Zenon DEF ClientInv
      <3> QED BY <1>1, <2>1, <3>1, Zenon DEF ClientOK
    <2> QED BY <2>1, Zenon DEF ClientInv
  <1>6. HandInv'
    <2>1. ASSUME NEW b \in Actors, b # a PROVE HandOK(b)'
      <3>1. HandOK(b)
        BY <1>t, Zenon DEF HandInv
      <3> QED BY <2>1, <3>1, Zenon DEF HandOK
    <2> QED BY <1>t, <2>1, Zenon DEF HandInv
  <1>7. PcInv'
    <2>1. ASSUME NEW b \in Actors, b # a PROVE PcOK(b)'
      <3>1. PcOK(b)
        BY <1>t, Zenon DEF PcInv
      <3> QED BY <2>1, <3>1, Zenon DEF PcOK
    <2> QED BY <2>1, Zenon DEF PcInv
  <1> QED BY <1>3, <1>4, <1>5, <1>6, <1>7, Zenon

LEMMA RegisterInv == ASSUME IInv, NEW v \in VPs, Register(v) PROVE IInv'
  <1>0. /\ manager' = manager \cup {v}
        /\ UNCHANGED <<enabled, head, next, busy, sender, intr, todo, pc, hdr, list, old, dest, owed>>
    BY Zenon DEF Register
  <1>t. TypeOK /\ PcInv /\ LinkInv /\ LabelInv /\ ClientInv /\ HandInv /\ AnnounceInv /\ v \in Actors
    BY Facts, Zenon DEF IInv
  <1>1. TypeOK'
    BY <1>0, <1>t, Zenon DEF TypeOK
  <1>2. PcOK(v) /\ HandOK(v)
    BY <1>t, Zenon DEF PcInv, HandInv
  <1>3. PcOK(v)' /\ HandOK(v)'
    BY <1>0, <1>2, Zenon DEF PcOK, HandOK
  <1>4. LinkInv' /\ LabelInv' /\ ClientInv' /\ HandInv' /\ PcInv'
    BY <1>0, <1>t, <1>3, Facts, OneActor, Zenon
  <1>5. AnnounceInv'
    BY <1>0, <1>t, AnnounceKept, Zenon
  <1> QED BY <1>1, <1>4, <1>5, Zenon DEF IInv

LEMMA SyncReturnInv == ASSUME IInv, NEW c \in Clients, SyncReturn(c) PROVE IInv'
  <1>0. /\ pc[c] = "wait" /\ ~sender[c] /\ pc' = [pc EXCEPT ![c] = "idle"]
        /\ UNCHANGED <<enabled, manager, head, next, busy, sender, intr, todo, hdr, list, old, dest,
                       owed>>
    BY Zenon DEF SyncReturn, Goto
  <1>t. TypeOK /\ PcInv /\ LinkInv /\ LabelInv /\ ClientInv /\ HandInv /\ AnnounceInv /\ c \in Actors
    BY Facts, Zenon DEF IInv
  <1>1. TypeOK'
    BY <1>0, <1>t, Zenon DEF TypeOK, Labels
  <1>2. pc'[c] = "idle" /\ \A b \in Actors : b # c => pc'[b] = pc[b]
    BY <1>0, <1>t, Zenon DEF TypeOK
  <1>3. ClientOK(c) /\ PcOK(c)
    BY <1>t, Zenon DEF ClientInv, PcInv
  <1>4. ~Alive(c)'
    BY <1>0, <1>3, Zenon DEF Alive, ClientOK
  <1>5. ClientOK(c)'
    BY <1>0, <1>2, <1>3, <1>4, Zenon DEF ClientOK, PcOK
  <1>6. PcOK(c)' /\ HandOK(c)'
    BY <1>0, <1>2, <1>3, Zenon DEF PcOK, HandOK
  <1>7. LinkInv' /\ LabelInv' /\ ClientInv' /\ HandInv' /\ PcInv'
    BY <1>0, <1>t, <1>2, <1>5, <1>6, OneActor, Zenon
  <1>8. AnnounceInv'
    BY <1>0, <1>t, <1>2, Facts, AnnounceKept, SMTT(30), Z3
  <1> QED BY <1>1, <1>7, <1>8, Zenon DEF IInv

(* PushRead writes the link of a header that is in hand. *)
LEMMA PushReadInv == ASSUME IInv, NEW a \in Actors, PushRead(a) PROVE IInv'
  <1>t. TypeOK /\ PcInv /\ LinkInv /\ LabelInv /\ ClientInv /\ HandInv /\ AnnounceInv
    BY Zenon DEF IInv
  <1>a. PcOK(a) /\ HandOK(a) /\ pc[a] = "push"
    BY <1>t, Zenon DEF PcInv, HandInv, PushRead
  <1>p. PICK x \in Hdrs, q \in Queues : hdr[a] = x /\ dest[a] = q
    BY <1>t, <1>a, Zenon DEF PcOK, TypeOK
  <1>0. /\ old' = [old EXCEPT ![a] = head[q]] /\ next' = [next EXCEPT ![x] = head[q]]
        /\ pc' = [pc EXCEPT ![a] = "cas"]
        /\ UNCHANGED <<enabled, manager, head, busy, sender, intr, todo, hdr, list, dest, owed>>
    BY <1>p, Zenon DEF PushRead, Goto
  <1>1. /\ pc'[a] = "cas" /\ old'[a] = head[q] /\ next'[x] = head[q]
        /\ \A b \in Actors : b # a => pc'[b] = pc[b] /\ old'[b] = old[b]
        /\ \A y \in Hdrs : y # x => next'[y] = next[y]
    BY <1>0, <1>t, Zenon DEF TypeOK
  <1>2. TypeOK'
    BY <1>0, <1>t, Zenon DEF TypeOK, Labels
  <1>3. Leads("hdr", a, x)
    BY <1>a, <1>p, Zenon DEF Leads
  <1>4. Alive(x) /\ Held(x) /\ \A b \in Actors : hdr[b] = x /\ pc[b] # "interrupt" => b = a
    <2>1. Alive(x) /\ \A j \in Kinds, u \in Cells : Leads(j, u, x) => j = "hdr" /\ u = a
      BY <1>t, <1>3, Led, Facts, KindFacts, Zenon
    <2>2. \A b \in Actors : hdr[b] = x /\ pc[b] # "interrupt" => Leads("hdr", b, x)
      BY Zenon DEF Leads
    <2> QED BY <1>a, <1>p, <2>1, <2>2, Facts, KindFacts, SMTT(30), Z3 DEF Held
  <1>5. \A y \in Hdrs : Alive(y)' <=> Alive(y)
    BY <1>0, Zenon DEF Alive
  <1>6. \A y \in Hdrs : (Held(y)' <=> Held(y)) /\ (OnSome(y)' <=> OnSome(y))
    <2>1. \A b \in Actors : pc'[b] # "interrupt" <=> pc[b] # "interrupt"
      BY <1>1, <1>a, Zenon
    <2>2. \A y \in Hdrs : Held(y)' <=> Held(y)
      BY <1>0, <2>1, Zenon DEF Held
    <2> QED BY <1>5, <2>2, Zenon DEF OnSome
  <1>7. \A y \in Hdrs : OnSome(y) => next'[y] = next[y]
    BY <1>1, <1>4, Zenon DEF OnSome
  <1>8. \A v \in VPs : pc[v] = "follow" => list[v] \in Hdrs /\ next'[list[v]] = next[list[v]]
    <2> SUFFICES ASSUME NEW v \in VPs, pc[v] = "follow"
                 PROVE  list[v] \in Hdrs /\ next'[list[v]] = next[list[v]]
      BY Zenon
    <2>1. list[v] \in Hdrs
      BY <1>t, Facts, SMTT(30), Z3 DEF TypeOK, PcInv, PcOK
    <2>2. ~Alive(list[v])
      BY <1>t, <2>1, Zenon DEF LabelInv
    <2> QED BY <1>1, <1>4, <2>1, <2>2, Zenon
  <1>9. \A b \in Actors : /\ pc'[b] = "follow" <=> pc[b] = "follow"
                          /\ pc'[b] = "release" <=> pc[b] = "release"
                          /\ pc'[b] # "interrupt" <=> pc[b] # "interrupt"
    BY <1>1, <1>a, Zenon
  <1>10. LinkInv'
    <2> SUFFICES ASSUME NEW y \in Hdrs PROVE LinkOK(y)'
      BY Zenon DEF LinkInv
    <2>1. ASSUME NEW k \in Kinds, NEW i \in Cells PROVE Leads(k, i, y)' <=> Leads(k, i, y)
      BY <1>0, <1>6, <1>7, <1>8, <1>9, Facts, SMTT(30), Z3 DEF Leads
    <2> QED BY <1>t, <1>5, <2>1, LinkSame, Zenon DEF LinkInv
  <1>11. LabelInv'
    <2>0. \A y, w : Replied(y, w)' <=> Replied(y, w)
      BY <1>0, Zenon DEF Replied
    <2>1. ASSUME NEW w \in VPs, NEW y \in Hdrs
          PROVE  /\ head'[<<w, "send">>] = y => y \in owed'
                 /\ head'[<<w, "reply">>] = y => Replied(y, w)'
                 /\ pc'[w] = "release" /\ list'[w] = y => Replied(y, w)'
      <3>1. /\ head[<<w, "send">>] = y => y \in owed
            /\ head[<<w, "reply">>] = y => Replied(y, w)
            /\ pc[w] = "release" /\ list[w] = y => Replied(y, w)
        BY <1>t, Zenon DEF LabelInv
      <3> QED BY <1>0, <1>9, <2>0, <3>1, Facts, Zenon
    <2>2. ASSUME NEW w \in VPs, NEW y \in Hdrs, pc'[w] = "follow", list'[w] = y
          PROVE  /\ y \in Clients /\ Home[y] = w /\ ~Alive(y)'
                 /\ \A z \in Hdrs : next'[y] = z => Replied(z, w)'
      <3>0. pc[w] = "follow" /\ list[w] = y
        BY <1>0, <1>9, <2>2, Facts, Zenon
      <3>1. /\ y \in Clients /\ Home[y] = w /\ ~Alive(y)
            /\ \A z \in Hdrs : next[y] = z => Replied(z, w)
        BY <1>t, <3>0, Zenon DEF LabelInv
      <3> QED BY <1>5, <1>8, <2>0, <3>0, <3>1, Zenon
    <2>3. \A b \in Actors, y \in Hdrs :
            list'[b] = y /\ pc'[b] \notin {"release", "follow"} => y \in owed'
      BY <1>0, <1>9, <1>t, Zenon DEF LabelInv
    <2>4. ASSUME NEW y \in Hdrs, NEW z \in Hdrs, OnSome(y)', next'[y] = z
          PROVE  /\ y \in owed' => z \in owed'
                 /\ y \notin owed' => Replied(z, Home[y])'
      <3>1. OnSome(y) /\ next[y] = z
        BY <1>6, <1>7, <2>4, Zenon
      <3>2. /\ y \in owed => z \in owed
            /\ y \notin owed => Replied(z, Home[y])
        BY <1>t, <3>1, Zenon DEF LabelInv
      <3> QED BY <1>0, <2>0, <3>2, Zenon
    <2> QED BY <2>1, <2>2, <2>3, <2>4, Zenon DEF LabelInv
  <1>12. ClientInv'
    <2> SUFFICES ASSUME NEW d \in Clients PROVE ClientOK(d)'
      BY Zenon DEF ClientInv
    <2>1. ClientOK(d) /\ d \in Hdrs /\ d \in Actors
      BY <1>t, Facts, Zenon DEF ClientInv
    <2>2. \/ d # a /\ pc'[d] = pc[d]
          \/ d = a /\ pc[d] = "push" /\ pc'[d] = "cas"
      BY <1>1, <1>a, <2>1, Zenon
    <2> QED BY <1>0, <1>5, <2>1, <2>2, Zenon DEF ClientOK
  <1>13. HandInv'
    <2>1. ASSUME NEW b \in Actors PROVE HandOK(b)'
      <3>1. HandOK(b) /\ (pc'[b] = pc[b] \/ (pc[b] = "push" /\ pc'[b] = "cas"))
        BY <1>t, <1>1, <1>a, Zenon DEF HandInv
      <3> QED BY <1>0, <3>1, Zenon DEF HandOK
    <2> QED BY <1>0, <1>t, <2>1, Zenon DEF HandInv
  <1>14. PcInv'
    <2>1. ASSUME NEW b \in Actors, b # a PROVE PcOK(b)'
      <3>1. PcOK(b) /\ pc'[b] = pc[b] /\ old'[b] = old[b]
        BY <1>t, <1>1, <2>1, Zenon DEF PcInv
      <3>2. pc[b] = "cas" => next'[hdr[b]] = next[hdr[b]]
        BY <1>t, <1>1, <1>4, <2>1, <3>1, Zenon DEF TypeOK, PcOK
      <3> QED BY <1>0, <3>1, <3>2, Zenon DEF PcOK
    <2>2. PcOK(a)'
      BY <1>0, <1>1, <1>a, <1>p, Zenon DEF PcOK
    <2> QED BY <2>1, <2>2, Zenon DEF PcInv
  <1>15. AnnounceInv'
    <2>1. \A b \in Actors : (pc'[b] = "idle" => pc[b] = "idle")
                            /\ (pc[b] = "interrupt" => pc'[b] = "interrupt")
      BY <1>1, <1>a, Zenon
    <2> QED BY <1>0, <1>t, <2>1, Facts, AnnounceKept, Zenon
  <1> QED BY <1>2, <1>10, <1>11, <1>12, <1>13, <1>14, <1>15, Zenon DEF IInv

(* Led by the names of the pointers. *)
LEMMA OnlyLed ==
  ASSUME LinkInv, NEW x \in Hdrs, NEW k \in Kinds, NEW i \in Cells, Leads(k, i, x)
  PROVE  /\ Alive(x)
         /\ \A q \in Queues : head[q] = x => k = "head" /\ i = q
         /\ \A b \in Actors : pc[b] # "follow" /\ list[b] = x => k = "list" /\ i = b
         /\ \A y \in Hdrs : OnSome(y) /\ next[y] = x => k = "next" /\ i = y
         /\ \A v \in VPs : pc[v] = "follow" /\ next[list[v]] = x => k = "follow" /\ i = v
         /\ \A b \in Actors : pc[b] # "interrupt" /\ hdr[b] = x => k = "hdr" /\ i = b
  <1>1. /\ \A q \in Queues : head[q] = x => Leads("head", q, x)
        /\ \A b \in Actors : pc[b] # "follow" /\ list[b] = x => Leads("list", b, x)
        /\ \A y \in Hdrs : OnSome(y) /\ next[y] = x => Leads("next", y, x)
        /\ \A v \in VPs : pc[v] = "follow" /\ next[list[v]] = x => Leads("follow", v, x)
        /\ \A b \in Actors : pc[b] # "interrupt" /\ hdr[b] = x => Leads("hdr", b, x)
    BY Zenon DEF Leads
  <1>2. /\ Alive(x)
        /\ \A j \in Kinds, u \in Cells : Leads(j, u, x) => k = j /\ i = u
    BY Led, Zenon
  <1> QED BY <1>1, <1>2, Facts, KindFacts, Zenon

(* The same for a pointer of each kind. *)
LEMMA HeadLeads ==
  ASSUME LinkInv, NEW x \in Hdrs, NEW q \in Queues, Leads("head", q, x)
  PROVE  /\ Alive(x)
         /\ \A u \in Queues : head[u] = x => u = q
         /\ \A c \in Actors : pc[c] # "follow" => list[c] # x
         /\ \A y \in Hdrs : OnSome(y) => next[y] # x
         /\ \A u \in VPs : pc[u] = "follow" => next[list[u]] # x
         /\ \A c \in Actors : pc[c] # "interrupt" => hdr[c] # x
  BY OnlyLed, Facts, KindFacts, SMTT(30), Z3

LEMMA ListLeads ==
  ASSUME LinkInv, NEW x \in Hdrs, NEW a \in Actors, Leads("list", a, x)
  PROVE  /\ Alive(x)
         /\ \A u \in Queues : head[u] # x
         /\ \A c \in Actors : pc[c] # "follow" /\ list[c] = x => c = a
         /\ \A y \in Hdrs : OnSome(y) => next[y] # x
         /\ \A u \in VPs : pc[u] = "follow" => next[list[u]] # x
         /\ \A c \in Actors : pc[c] # "interrupt" => hdr[c] # x
  BY OnlyLed, Facts, KindFacts, SMTT(30), Z3

LEMMA LinkLeads ==
  ASSUME LinkInv, NEW x \in Hdrs, NEW w \in Hdrs, Leads("next", w, x)
  PROVE  /\ Alive(x)
         /\ \A u \in Queues : head[u] # x
         /\ \A c \in Actors : pc[c] # "follow" => list[c] # x
         /\ \A y \in Hdrs : OnSome(y) /\ next[y] = x => y = w
         /\ \A u \in VPs : pc[u] = "follow" => next[list[u]] # x
         /\ \A c \in Actors : pc[c] # "interrupt" => hdr[c] # x
  BY OnlyLed, Facts, KindFacts, SMTT(30), Z3

LEMMA FollowLeads ==
  ASSUME LinkInv, NEW x \in Hdrs, NEW v \in VPs, Leads("follow", v, x)
  PROVE  /\ Alive(x)
         /\ \A u \in Queues : head[u] # x
         /\ \A c \in Actors : pc[c] # "follow" => list[c] # x
         /\ \A y \in Hdrs : OnSome(y) => next[y] # x
         /\ \A u \in VPs : pc[u] = "follow" /\ next[list[u]] = x => u = v
         /\ \A c \in Actors : pc[c] # "interrupt" => hdr[c] # x
  BY OnlyLed, Facts, KindFacts, SMTT(30), Z3

LEMMA HandLeads ==
  ASSUME LinkInv, NEW x \in Hdrs, NEW a \in Actors, Leads("hdr", a, x)
  PROVE  /\ Alive(x)
         /\ \A u \in Queues : head[u] # x
         /\ \A c \in Actors : pc[c] # "follow" => list[c] # x
         /\ \A y \in Hdrs : OnSome(y) => next[y] # x
         /\ \A u \in VPs : pc[u] = "follow" => next[list[u]] # x
         /\ \A c \in Actors : pc[c] # "interrupt" /\ hdr[c] = x => c = a
  BY OnlyLed, Facts, KindFacts, SMTT(30), Z3

(* The link that processReplyQueue is about to follow. *)
LEMMA FollowType ==
  ASSUME TypeOK, PcInv, LabelInv, NEW v \in VPs, pc[v] = "follow"
  PROVE  list[v] \in Hdrs /\ ~Alive(list[v])
  <1>1. list[v] \in Hdrs
    BY Facts, SMTT(30), Z3 DEF TypeOK, PcInv, PcOK
  <1> QED BY <1>1, Zenon DEF LabelInv

LEMMA PushCASInv == ASSUME IInv, NEW a \in Actors, PushCAS(a) PROVE IInv'
  <1>t. TypeOK /\ PcInv /\ LinkInv /\ LabelInv /\ ClientInv /\ HandInv /\ AnnounceInv
    BY Zenon DEF IInv
  <1>a. PcOK(a) /\ HandOK(a) /\ pc[a] = "cas" /\ (a \in Clients => ClientOK(a))
    BY <1>t, Zenon DEF PcInv, HandInv, ClientInv, PushCAS
  <1>p. PICK x \in Hdrs, q \in Queues : hdr[a] = x /\ dest[a] = q
    BY <1>t, <1>a, Zenon DEF PcOK, TypeOK
  <1>0. /\ old' = [old EXCEPT ![a] = NULL]
        /\ UNCHANGED <<enabled, manager, next, busy, sender, intr, todo, list, owed>>
    BY Zenon DEF PushCAS
  <1>1. CASE head[q] # old[a]
    <2>0. pc' = [pc EXCEPT ![a] = "push"] /\ UNCHANGED <<head, hdr, dest>>
      BY <1>p, <1>1, Zenon DEF PushCAS, Goto
    <2>1. TypeOK'
      BY <1>0, <1>t, <2>0, Zenon DEF TypeOK, Labels
    <2>2. /\ pc'[a] = "push"
          /\ \A b \in Actors : b # a => pc'[b] = pc[b] /\ old'[b] = old[b]
      BY <1>0, <1>t, <2>0, Zenon DEF TypeOK
    <2>3. PcOK(a)' /\ HandOK(a)'
      BY <1>0, <1>a, <1>p, <2>0, <2>2, Zenon DEF PcOK, HandOK
    <2>4. a \in Clients => ClientOK(a)'
      BY <1>0, <1>a, <2>0, <2>2, Zenon DEF ClientOK, Alive
    <2>5. LinkInv' /\ LabelInv' /\ ClientInv' /\ HandInv' /\ PcInv'
      BY <1>0, <1>a, <2>0, <2>2, <2>3, <2>4, OneActor, Zenon
    <2>6. AnnounceInv'
      BY <1>0, <1>t, <1>a, <2>0, <2>2, Facts, AnnounceKept, Zenon
    <2> QED BY <2>1, <2>5, <2>6, Zenon DEF IInv
  <1>2. CASE head[q] = old[a]
    <2>p. PICK z \in Hdrs \cup {NULL} : head[q] = z /\ next[x] = z /\ old[a] = z
      BY <1>t, <1>a, <1>p, <1>2, Zenon DEF TypeOK, PcOK
    <2>0. /\ head' = [head EXCEPT ![q] = x]
          /\ IF z = NULL THEN pc' = [pc EXCEPT ![a] = "interrupt"] /\ UNCHANGED <<hdr, dest>>
             ELSE /\ pc' = [pc EXCEPT ![a] = AfterPush(a)]
                  /\ hdr' = [hdr EXCEPT ![a] = NULL] /\ dest' = [dest EXCEPT ![a] = NULL]
      BY <1>p, <1>2, <2>p, Zenon DEF PushCAS, Goto, Finish
    <2>1. /\ a \in Clients => AfterPush(a) \in {"wait", "idle"} /\ (AfterPush(a) = "wait" <=> x = a)
          /\ a \notin Clients => /\ AfterPush(a) \in {"walk", "idle", "next"}
                                 /\ AfterPush(a) = "walk" <=> list[a] # NULL
                                 /\ AfterPush(a) = "next" => a \in VPs
                                 /\ AfterPush(a) = "idle" => a \in Workers
      BY <1>p, Facts, Zenon DEF AfterPush, Actors
    <2>2. /\ head'[q] = x /\ \A u \in Queues : u # q => head'[u] = head[u]
          /\ \A b \in Actors : b # a =>
               pc'[b] = pc[b] /\ old'[b] = old[b] /\ hdr'[b] = hdr[b] /\ dest'[b] = dest[b]
          /\ z = NULL => pc'[a] = "interrupt" /\ hdr'[a] = x /\ dest'[a] = q
          /\ z # NULL => pc'[a] = AfterPush(a) /\ hdr'[a] = NULL
      BY <1>0, <1>p, <1>t, <2>0, Zenon DEF TypeOK
    <2>3. TypeOK'
      <3>1. AfterPush(a) \in Labels
        BY <2>1, Zenon DEF Labels
      <3>2. /\ head' \in [Queues -> Hdrs \cup {NULL}] /\ pc' \in [Actors -> Labels]
            /\ hdr' \in [Actors -> Hdrs \cup {NULL}] /\ old' \in [Actors -> Hdrs \cup {NULL}]
            /\ dest' \in [Actors -> Queues \cup {NULL}]
        BY <1>0, <1>t, <2>0, <3>1, SMTT(30), Z3 DEF TypeOK, Labels
      <3> QED BY <1>0, <1>t, <3>2, Zenon DEF TypeOK
    <2>4. /\ Alive(x) /\ x # z /\ Held(x) /\ ~Held(x)'
          /\ \A b \in Actors : pc[b] # "interrupt" /\ hdr[b] = x => b = a
      <3>1. Leads("hdr", a, x)
        BY <1>a, <1>p, Zenon DEF Leads
      <3>2. /\ Alive(x) /\ \A u \in Queues : head[u] # x
            /\ \A b \in Actors : pc[b] # "interrupt" /\ hdr[b] = x => b = a
        BY <1>t, <3>1, HandLeads, Zenon
      <3>3. ~Held(x)'
        BY <2>2, <3>2, Facts, SMTT(30), Z3 DEF Held
      <3>4. Held(x)
        BY <1>a, <1>p, Zenon DEF Held
      <3> QED BY <2>p, <3>2, <3>3, <3>4, Zenon
    <2>5. \A y \in Hdrs : Alive(y)' <=> Alive(y)
      BY <1>0, Zenon DEF Alive
    <2>6. \A y \in Hdrs : y # x => (Held(y)' <=> Held(y))
      <3> SUFFICES ASSUME NEW y \in Hdrs, y # x, NEW b \in Actors
                   PROVE  pc'[b] # "interrupt" /\ hdr'[b] = y <=> pc[b] # "interrupt" /\ hdr[b] = y
        BY Zenon DEF Held
      <3> QED BY <1>p, <2>2, Facts, SMTT(30), Z3
    <2>7. OnSome(x)' /\ ~OnSome(x) /\ \A y \in Hdrs : y # x => (OnSome(y)' <=> OnSome(y))
      BY <2>4, <2>5, <2>6, Zenon DEF OnSome
    <2>8. \A b \in Actors : /\ pc'[b] = "follow" <=> pc[b] = "follow"
                            /\ pc'[b] = "release" <=> pc[b] = "release"
      <3>1. pc'[a] \notin {"follow", "release"}
        BY <2>1, <2>2, Zenon
      <3> QED BY <1>a, <2>2, <3>1, Zenon
    <2>h. \A b \in Actors, y \in Hdrs : pc'[b] # "interrupt" /\ hdr'[b] = y
                                          <=> pc[b] # "interrupt" /\ hdr[b] = y /\ b # a
      BY <2>2, Facts, SMTT(30), Z3
    <2>9. LinkInv'
      <3> SUFFICES ASSUME NEW y \in Hdrs PROVE LinkOK(y)'
        BY Zenon DEF LinkInv
      <3>0. LinkOK(y)
        BY <1>t, Zenon DEF LinkInv
      <3>1. CASE y # x /\ y # z
        <4>1. ASSUME NEW k \in Kinds, NEW i \in Cells PROVE Leads(k, i, y)' <=> Leads(k, i, y)
          BY <1>0, <1>p, <2>2, <2>p, <2>7, <2>8, <2>h, <3>1, Facts, SMTT(30), Z3 DEF Leads
        <4> QED BY <2>5, <3>0, <4>1, LinkSame, Zenon
      <3>2. CASE y = x
        <4>1. Leads("hdr", a, y)
          BY <1>a, <1>p, <3>2, Zenon DEF Leads
        <4>2. /\ \A u \in Queues : head[u] # y
              /\ \A b \in Actors : pc[b] # "follow" => list[b] # y
              /\ \A w \in Hdrs : OnSome(w) => next[w] # y
              /\ \A w \in VPs : pc[w] = "follow" => next[list[w]] # y
              /\ \A b \in Actors : pc[b] # "interrupt" /\ hdr[b] = y => b = a
          BY <1>t, <4>1, HandLeads, Zenon
        <4>3. ASSUME NEW k \in Kinds, NEW i \in Cells
              PROVE  Leads(k, i, y)' <=> k = "head" /\ i = q
          BY <1>0, <2>2, <2>4, <2>p, <2>7, <2>8, <2>h, <3>2, <4>2, Facts, SMTT(30), Z3 DEF Leads
        <4>4. Alive(y)' /\ q \in Cells
          BY <2>4, <2>5, <3>2, Facts, Zenon
        <4> QED BY <4>3, <4>4, SoleNow, KindFacts, Zenon
      <3>3. CASE y = z
        <4>1. Leads("head", q, y)
          BY <2>p, <3>3, Zenon DEF Leads
        <4>2. /\ Alive(y) /\ \A u \in Queues : head[u] = y => u = q
              /\ \A b \in Actors : pc[b] # "follow" => list[b] # y
              /\ \A w \in Hdrs : OnSome(w) => next[w] # y
              /\ \A w \in VPs : pc[w] = "follow" => next[list[w]] # y
              /\ \A b \in Actors : pc[b] # "interrupt" => hdr[b] # y
          BY <1>t, <4>1, HeadLeads, Zenon
        <4>3. ASSUME NEW k \in Kinds, NEW i \in Cells
              PROVE  Leads(k, i, y)' <=> k = "next" /\ i = x
          BY <1>0, <2>2, <2>4, <2>p, <2>7, <2>8, <2>h, <3>3, <4>2, Facts, SMTT(30), Z3 DEF Leads
        <4> QED BY <2>5, <4>2, <4>3, SoleNow, Facts, KindFacts, Zenon
      <3> QED BY <3>1, <3>2, <3>3, Zenon
    <2>k. /\ x \in owed => q[2] = "send"
          /\ x \notin owed => x \in Clients /\ q = <<Home[x], "reply">>
      BY <1>a, <1>p, QueueFacts, Zenon DEF ClientOK, HandOK
    <2>10. LabelInv'
      <3>0. \A y, w : Replied(y, w)' <=> Replied(y, w)
        BY <1>0, Zenon DEF Replied
      <3>1. ASSUME NEW w \in VPs, NEW y \in Hdrs
            PROVE  /\ head'[<<w, "send">>] = y => y \in owed'
                   /\ head'[<<w, "reply">>] = y => Replied(y, w)'
                   /\ pc'[w] = "release" /\ list'[w] = y => Replied(y, w)'
        <4>1. /\ head[<<w, "send">>] = y => y \in owed
              /\ head[<<w, "reply">>] = y => Replied(y, w)
              /\ pc[w] = "release" /\ list[w] = y => Replied(y, w)
          BY <1>t, Zenon DEF LabelInv
        <4>2. head'[<<w, "send">>] = y => y \in owed
          <5>1. CASE <<w, "send">> = q
            BY <2>2, <2>k, <5>1, QueueFacts, Zenon
          <5>2. CASE <<w, "send">> # q
            BY <2>2, <4>1, <5>2, QueueFacts, Zenon
          <5> QED BY <5>1, <5>2, Zenon
        <4>3. head'[<<w, "reply">>] = y => Replied(y, w)
          <5>1. CASE <<w, "reply">> = q
            BY <2>2, <2>k, <5>1, QueueFacts, Zenon DEF Replied
          <5>2. CASE <<w, "reply">> # q
            BY <2>2, <4>1, <5>2, QueueFacts, Zenon
          <5> QED BY <5>1, <5>2, Zenon
        <4> QED BY <1>0, <2>8, <3>0, <4>1, <4>2, <4>3, Facts, Zenon
      <3>2. ASSUME NEW w \in VPs, NEW y \in Hdrs, pc'[w] = "follow", list'[w] = y
            PROVE  /\ y \in Clients /\ Home[y] = w /\ ~Alive(y)'
                   /\ \A u \in Hdrs : next'[y] = u => Replied(u, w)'
        <4>0. pc[w] = "follow" /\ list[w] = y
          BY <1>0, <2>8, <3>2, Facts, Zenon
        <4>1. /\ y \in Clients /\ Home[y] = w /\ ~Alive(y)
              /\ \A u \in Hdrs : next[y] = u => Replied(u, w)
          BY <1>t, <4>0, Zenon DEF LabelInv
        <4> QED BY <1>0, <2>5, <3>0, <4>1, Zenon
      <3>3. \A b \in Actors, y \in Hdrs :
              list'[b] = y /\ pc'[b] \notin {"release", "follow"} => y \in owed'
        BY <1>0, <2>8, <1>t, Zenon DEF LabelInv
      <3>4. ASSUME NEW y \in Hdrs, NEW u \in Hdrs, OnSome(y)', next'[y] = u
            PROVE  /\ y \in owed' => u \in owed'
                   /\ y \notin owed' => Replied(u, Home[y])'
        <4>1. CASE y # x
          <5>1. OnSome(y) /\ next[y] = u
            BY <1>0, <2>7, <3>4, <4>1, Zenon
          <5>2. /\ y \in owed => u \in owed
                /\ y \notin owed => Replied(u, Home[y])
            BY <1>t, <5>1, Zenon DEF LabelInv
          <5> QED BY <1>0, <3>0, <5>2, Zenon
        <4>2. CASE y = x
          <5>1. head[q] = u
            BY <1>0, <2>p, <3>4, <4>2, Zenon
          <5>2. x \in owed => u \in owed
            <6>1. x \in owed => q[1] \in VPs /\ q = <<q[1], "send">>
              BY <2>k, QueueFacts, Zenon
            <6> QED BY <1>t, <5>1, <6>1, Zenon DEF LabelInv
          <5>3. x \notin owed => Replied(u, Home[x])
            BY <1>t, <2>k, <5>1, Facts, Zenon DEF LabelInv
          <5> QED BY <1>0, <3>0, <4>2, <5>2, <5>3, Zenon
        <4> QED BY <4>1, <4>2, Zenon
      <3> QED BY <3>1, <3>2, <3>3, <3>4, Zenon DEF LabelInv
    <2>11. ClientInv'
      <3> SUFFICES ASSUME NEW d \in Clients PROVE ClientOK(d)'
        BY Zenon DEF ClientInv
      <3>1. ClientOK(d) /\ d \in Hdrs /\ d \in Actors
        BY <1>t, Facts, Zenon DEF ClientInv
      <3>2. CASE d # a
        BY <1>0, <2>2, <2>5, <3>1, <3>2, Zenon DEF ClientOK
      <3>3. CASE d = a
        <4>1. pc'[d] = "idle" => ~Alive(d)'
          BY <1>a, <1>p, <2>1, <2>2, <2>5, <3>1, <3>3, Facts, SMTT(30), Z3 DEF ClientOK
        <4> QED BY <1>0, <1>a, <1>p, <2>1, <2>2, <2>5, <3>1, <3>3, <4>1, QueueFacts, SMTT(30), Z3
                   DEF ClientOK
      <3> QED BY <3>2, <3>3, Zenon
    <2>12. HandInv'
      <3>1. ASSUME NEW b \in Actors PROVE HandOK(b)'
        <4>1. HandOK(b)
          BY <1>t, Zenon DEF HandInv
        <4> QED BY <1>0, <2>1, <2>2, <4>1, Zenon DEF HandOK
      <3> QED BY <1>0, <1>t, <3>1, Zenon DEF HandInv
    <2>13. PcInv'
      <3>1. ASSUME NEW b \in Actors, b # a PROVE PcOK(b)'
        <4>1. PcOK(b)
          BY <1>t, Zenon DEF PcInv
        <4> QED BY <1>0, <2>2, <3>1, <4>1, Zenon DEF PcOK
      <3>2. PcOK(a)'
        BY <1>0, <1>a, <1>p, <2>1, <2>2, Facts, Zenon DEF PcOK
      <3> QED BY <3>1, <3>2, Zenon DEF PcInv
    <2>14. AnnounceInv'
      <3>1. ASSUME NEW v \in VPs, NEW k \in {"send", "reply"}, head'[<<v, k>>] # NULL
            PROVE  \/ k \in intr'[v] \cup todo'[v]
                   \/ \E b \in Actors : pc'[b] = "interrupt" /\ dest'[b] = <<v, k>>
        <4>1. CASE head[<<v, k>>] # NULL
          <5>1. \/ k \in intr[v] \cup todo[v]
                \/ \E b \in Actors : pc[b] = "interrupt" /\ dest[b] = <<v, k>>
            BY <1>t, <4>1, Zenon DEF AnnounceInv, QueueAnnounced
          <5>2. \A b \in Actors : pc[b] = "interrupt" => pc'[b] = "interrupt" /\ dest'[b] = dest[b]
            BY <1>a, <2>2, Zenon
          <5> QED BY <1>0, <5>1, <5>2, Zenon
        <4>2. CASE head[<<v, k>>] = NULL
          <5>1. <<v, k>> \in Queues
            BY Zenon DEF Queues
          <5>2. <<v, k>> = q
            BY <2>2, <3>1, <4>2, <5>1, Zenon
          <5> QED BY <2>2, <2>p, <4>2, <5>2, Zenon
        <4> QED BY <4>1, <4>2, Zenon
      <3>2. \A v \in VPs : pc'[v] = "idle" => todo'[v] = {}
        BY <1>0, <1>t, <2>1, <2>2, Facts, SMTT(30), Z3 DEF AnnounceInv
      <3> QED BY <3>1, <3>2, Zenon DEF AnnounceInv, QueueAnnounced
    <2> QED BY <2>3, <2>9, <2>10, <2>11, <2>12, <2>13, <2>14, Zenon DEF IInv
  <1> QED BY <1>1, <1>2, Zenon

LEMMA PushInterruptInv == ASSUME IInv, NEW a \in Actors, PushInterrupt(a) PROVE IInv'
  <1>t. TypeOK /\ PcInv /\ LinkInv /\ LabelInv /\ ClientInv /\ HandInv /\ AnnounceInv
    BY Zenon DEF IInv
  <1>a. PcOK(a) /\ HandOK(a) /\ pc[a] = "interrupt" /\ (a \in Clients => ClientOK(a))
    BY <1>t, Zenon DEF PcInv, HandInv, ClientInv, PushInterrupt
  <1>p. PICK u \in VPs, j \in {"send", "reply"} : dest[a] = <<u, j>>
    BY <1>a, QueueFacts, Zenon DEF PcOK
  <1>0. /\ intr' = [intr EXCEPT ![u] = @ \cup {j}]
        /\ pc' = [pc EXCEPT ![a] = AfterPush(a)]
        /\ hdr' = [hdr EXCEPT ![a] = NULL] /\ dest' = [dest EXCEPT ![a] = NULL]
        /\ UNCHANGED <<enabled, manager, head, next, busy, sender, todo, list, old, owed>>
    BY <1>p, QueueFacts, SMTT(30), Z3 DEF PushInterrupt, Finish, Goto
  <1>1. /\ a \in Clients => AfterPush(a) \in {"wait", "idle"} /\ (AfterPush(a) = "wait" <=> hdr[a] = a)
        /\ a \notin Clients => /\ AfterPush(a) \in {"walk", "idle", "next"}
                               /\ AfterPush(a) = "walk" <=> list[a] # NULL
                               /\ AfterPush(a) = "next" => a \in VPs
                               /\ AfterPush(a) = "idle" => a \in Workers
    BY Facts, Zenon DEF AfterPush, Actors
  <1>2. TypeOK'
    <2>1. AfterPush(a) \in Labels
      BY <1>1, Zenon DEF Labels
    <2>2. intr' \in [VPs -> SUBSET {"send", "reply"}]
      BY <1>0, <1>t, <1>p, Zenon DEF TypeOK
    <2> QED BY <1>0, <1>t, <2>1, <2>2, Zenon DEF TypeOK
  <1>3. /\ pc'[a] = AfterPush(a) /\ hdr'[a] = NULL
        /\ \A b \in Actors : b # a => pc'[b] = pc[b] /\ hdr'[b] = hdr[b] /\ dest'[b] = dest[b]
        /\ j \in intr'[u] /\ \A v \in VPs : intr[v] \subseteq intr'[v]
    BY <1>0, <1>t, <1>p, Zenon DEF TypeOK
  <1>4. PcOK(a)' /\ HandOK(a)'
    BY <1>0, <1>1, <1>3, <1>a, Facts, Zenon DEF PcOK, HandOK
  <1>5. a \in Clients => ClientOK(a)'
    <2>1. \A y : Alive(y)' <=> Alive(y)
      BY <1>0, Zenon DEF Alive
    <2>2. hdr[a] # NULL
      BY <1>a, Zenon DEF PcOK
    <2> QED BY <1>0, <1>1, <1>3, <1>a, <2>1, <2>2, Zenon DEF ClientOK
  <1>6. LinkInv' /\ LabelInv' /\ ClientInv' /\ HandInv' /\ PcInv'
    <2>1. /\ pc'[a] # "follow" /\ pc'[a] # "release"
          /\ \A x \in Hdrs : pc'[a] # "interrupt" /\ hdr'[a] = x <=> pc[a] # "interrupt" /\ hdr[a] = x
      BY <1>1, <1>3, <1>a, Facts, Zenon
    <2>2. \A b \in Actors : b # a =>
            pc'[b] = pc[b] /\ hdr'[b] = hdr[b] /\ dest'[b] = dest[b] /\ old'[b] = old[b]
      BY <1>0, <1>3, Zenon
    <2>3. UNCHANGED <<head, next, list, busy, sender, owed>>
      BY <1>0, Zenon
    <2> QED BY <1>4, <1>5, <1>a, <2>1, <2>2, <2>3, OneActor, Zenon
  <1>7. AnnounceInv'
    <2>1. ASSUME NEW v \in VPs, NEW k \in {"send", "reply"}, head'[<<v, k>>] # NULL
          PROVE  \/ k \in intr'[v] \cup todo'[v]
                 \/ \E b \in Actors : pc'[b] = "interrupt" /\ dest'[b] = <<v, k>>
      <3>1. \/ k \in intr[v] \cup todo[v]
            \/ \E b \in Actors : pc[b] = "interrupt" /\ dest[b] = <<v, k>>
        BY <1>0, <1>t, <2>1, Zenon DEF AnnounceInv, QueueAnnounced
      <3>2. CASE k \in intr[v] \cup todo[v]
        BY <1>0, <1>3, <3>2, Zenon
      <3>3. ASSUME NEW b \in Actors, pc[b] = "interrupt", dest[b] = <<v, k>>
            PROVE  \/ k \in intr'[v] \cup todo'[v]
                   \/ \E d \in Actors : pc'[d] = "interrupt" /\ dest'[d] = <<v, k>>
        <4>1. CASE b = a
          BY <1>3, <1>p, <3>3, <4>1, QueueFacts, SMTT(30), Z3
        <4>2. CASE b # a
          BY <1>3, <3>3, <4>2, Zenon
        <4> QED BY <4>1, <4>2, Zenon
      <3> QED BY <3>1, <3>2, <3>3, Zenon
    <2>2. \A v \in VPs : pc'[v] = "idle" => todo'[v] = {}
      BY <1>0, <1>t, <1>1, <1>3, Facts, SMTT(30), Z3 DEF AnnounceInv
    <2> QED BY <2>1, <2>2, Zenon DEF AnnounceInv, QueueAnnounced
  <1> QED BY <1>2, <1>6, <1>7, Zenon DEF IInv

-----------------------------------------------------------------------------
(* The interrupt handlers of a dispatcher. *)

LEMMA FetchInterruptsInv == ASSUME IInv, NEW v \in VPs, FetchInterrupts(v) PROVE IInv'
  <1>t. TypeOK /\ PcInv /\ LinkInv /\ LabelInv /\ ClientInv /\ HandInv /\ AnnounceInv
    BY Zenon DEF IInv
  <1>a. v \in Actors /\ v \notin Clients /\ PcOK(v) /\ HandOK(v) /\ pc[v] = "idle"
    BY <1>t, Facts, Zenon DEF PcInv, HandInv, FetchInterrupts
  <1>0. /\ todo' = [todo EXCEPT ![v] = intr[v]] /\ intr' = [intr EXCEPT ![v] = {}]
        /\ pc' = [pc EXCEPT ![v] = "next"]
        /\ UNCHANGED <<enabled, manager, head, next, busy, sender, hdr, list, old, dest, owed>>
    BY Zenon DEF FetchInterrupts, Goto
  <1>1. /\ pc'[v] = "next" /\ \A b \in Actors : b # v => pc'[b] = pc[b]
        /\ todo'[v] = intr[v]
        /\ \A w \in VPs : w # v => todo'[w] = todo[w] /\ intr'[w] = intr[w]
    BY <1>0, <1>a, <1>t, Zenon DEF TypeOK
  <1>2. TypeOK'
    BY <1>0, <1>t, Zenon DEF TypeOK, Labels
  <1>3. PcOK(v)' /\ HandOK(v)'
    BY <1>0, <1>1, <1>a, Zenon DEF PcOK, HandOK
  <1>4. LinkInv' /\ LabelInv' /\ ClientInv' /\ HandInv' /\ PcInv'
    BY <1>0, <1>1, <1>3, <1>a, OneActor, Zenon
  <1>5. AnnounceInv'
    <2>1. ASSUME NEW w \in VPs, NEW k \in {"send", "reply"}, head'[<<w, k>>] # NULL
          PROVE  \/ k \in intr'[w] \cup todo'[w]
                 \/ \E b \in Actors : pc'[b] = "interrupt" /\ dest'[b] = <<w, k>>
      <3>1. \/ k \in intr[w] \cup todo[w]
            \/ \E b \in Actors : pc[b] = "interrupt" /\ dest[b] = <<w, k>>
        BY <1>0, <1>t, <2>1, Zenon DEF AnnounceInv, QueueAnnounced
      <3>2. k \in intr[w] \cup todo[w] => k \in intr'[w] \cup todo'[w]
        <4>1. todo[v] = {}
          BY <1>a, <1>t, Zenon DEF AnnounceInv
        <4> QED BY <1>1, <4>1, Zenon
      <3>3. \A b \in Actors : pc[b] = "interrupt" => pc'[b] = "interrupt"
        BY <1>1, <1>a, Zenon
      <3> QED BY <1>0, <3>1, <3>2, <3>3, Zenon
    <2>2. \A w \in VPs : pc'[w] = "idle" => todo'[w] = {}
      BY <1>t, <1>1, Facts, Zenon DEF AnnounceInv
    <2> QED BY <2>1, <2>2, Zenon DEF AnnounceInv, QueueAnnounced
  <1> QED BY <1>2, <1>4, <1>5, Zenon DEF IInv

LEMMA InterruptsDoneInv == ASSUME IInv, NEW v \in VPs, InterruptsDone(v) PROVE IInv'
  <1>t. TypeOK /\ PcInv /\ LinkInv /\ LabelInv /\ ClientInv /\ HandInv /\ AnnounceInv
    BY Zenon DEF IInv
  <1>a. v \in Actors /\ v \notin Clients /\ PcOK(v) /\ HandOK(v) /\ pc[v] = "next" /\ todo[v] = {}
    BY <1>t, Facts, Zenon DEF PcInv, HandInv, InterruptsDone
  <1>0. /\ pc' = [pc EXCEPT ![v] = "idle"]
        /\ UNCHANGED <<enabled, manager, head, next, busy, sender, intr, todo, hdr, list, old,
                       dest, owed>>
    BY Zenon DEF InterruptsDone, Goto
  <1>1. pc'[v] = "idle" /\ \A b \in Actors : b # v => pc'[b] = pc[b]
    BY <1>0, <1>a, <1>t, Zenon DEF TypeOK
  <1>2. TypeOK'
    BY <1>0, <1>t, Zenon DEF TypeOK, Labels
  <1>3. PcOK(v)' /\ HandOK(v)'
    BY <1>0, <1>1, <1>a, Zenon DEF PcOK, HandOK
  <1>4. LinkInv' /\ LabelInv' /\ ClientInv' /\ HandInv' /\ PcInv'
    BY <1>0, <1>1, <1>3, <1>a, OneActor, Zenon
  <1>5. AnnounceInv'
    <2>1. QueueAnnounced'
      <3>1. \A b \in Actors : pc[b] = "interrupt" => pc'[b] = "interrupt"
        BY <1>1, <1>a, Zenon
      <3> QED BY <1>0, <1>t, <3>1, Zenon DEF AnnounceInv, QueueAnnounced
    <2>2. \A w \in VPs : pc'[w] = "idle" => todo'[w] = {}
      BY <1>0, <1>t, <1>1, <1>a, Facts, Zenon DEF AnnounceInv
    <2> QED BY <2>1, <2>2, Zenon DEF AnnounceInv
  <1> QED BY <1>2, <1>4, <1>5, Zenon DEF IInv

(* A whole queue becomes the list of a handler that has none. *)
LEMMA TakeList ==
  ASSUME IInv, NEW q \in Queues, NEW b \in Actors, NEW x \in Hdrs,
         head[q] = x, b \notin Clients, list[b] = NULL, pc[b] \in {"idle", "next"},
         \/ q[2] = "send" /\ pc'[b] \in {"walk", "stopped"}
         \/ b \in VPs /\ q = <<b, "reply">> /\ pc'[b] = "release",
         head' = [head EXCEPT ![q] = NULL], list' = [list EXCEPT ![b] = x],
         \A c \in Actors : c # b => pc'[c] = pc[c],
         UNCHANGED <<next, busy, sender, hdr, old, dest, owed>>
  PROVE  LinkInv' /\ LabelInv' /\ ClientInv' /\ HandInv' /\ PcInv'
  <1>t. TypeOK /\ PcInv /\ LinkInv /\ LabelInv /\ ClientInv /\ HandInv
    BY Zenon DEF IInv
  <1>1. /\ head'[q] = NULL /\ \A u \in Queues : u # q => head'[u] = head[u]
        /\ list'[b] = x /\ \A c \in Actors : c # b => list'[c] = list[c]
    BY <1>t, Zenon DEF TypeOK
  <1>2. \A y \in Hdrs : Alive(y)' <=> Alive(y)
    BY Zenon DEF Alive
  <1>3. \A c \in Actors : /\ pc'[c] = "follow" <=> pc[c] = "follow"
                          /\ pc'[c] # "interrupt" <=> pc[c] # "interrupt"
    <2>1. pc'[b] \in {"walk", "stopped", "release"}
      BY Zenon
    <2> QED BY <2>1, Zenon
  <1>4. \A y \in Hdrs : OnSome(y)' <=> OnSome(y)
    BY <1>2, <1>3, Zenon DEF OnSome, Held
  <1>5. /\ Alive(x) /\ \A u \in Queues : head[u] = x => u = q
        /\ \A c \in Actors : pc[c] # "follow" => list[c] # x
        /\ \A w \in Hdrs : OnSome(w) => next[w] # x
        /\ \A w \in VPs : pc[w] = "follow" => next[list[w]] # x
        /\ \A c \in Actors : pc[c] # "interrupt" => hdr[c] # x
    <2>1. Leads("head", q, x)
      BY Zenon DEF Leads
    <2> QED BY <1>t, <2>1, HeadLeads, Zenon
  <1>6. \A w \in VPs : pc[w] = "follow" => list'[w] = list[w]
    BY <1>1, Facts, Zenon
  <1>7. LinkInv'
    <2> SUFFICES ASSUME NEW y \in Hdrs PROVE LinkOK(y)'
      BY Zenon DEF LinkInv
    <2>0. LinkOK(y)
      BY <1>t, Zenon DEF LinkInv
    <2>1. CASE y # x
      <3>1. ASSUME NEW k \in Kinds, NEW i \in Cells PROVE Leads(k, i, y)' <=> Leads(k, i, y)
        BY <1>1, <1>3, <1>4, <1>6, <2>1, Facts, SMTT(30), Z3 DEF Leads
      <3> QED BY <1>2, <2>0, <3>1, LinkSame, Zenon
    <2>2. CASE y = x
      <3>1. ASSUME NEW k \in Kinds, NEW i \in Cells PROVE Leads(k, i, y)' <=> k = "list" /\ i = b
        BY <1>1, <1>3, <1>4, <1>5, <1>6, <2>2, Facts, SMTT(30), Z3 DEF Leads
      <3> QED BY <1>2, <1>5, <2>2, <3>1, SoleNow, Facts, KindFacts, SMTT(30), Z3
    <2> QED BY <2>1, <2>2, Zenon
  <1>8. LabelInv'
    <2>0. \A y, w : Replied(y, w)' <=> Replied(y, w)
      BY Zenon DEF Replied
    <2>a. q[2] = "send" => x \in owed
      <3>1. q[2] = "send" => q[1] \in VPs /\ q = <<q[1], "send">>
        BY QueueFacts, Zenon
      <3> QED BY <1>t, <3>1, Zenon DEF LabelInv
    <2>b. q = <<b, "reply">> /\ b \in VPs => Replied(x, b)
      BY <1>t, Zenon DEF LabelInv
    <2>1. ASSUME NEW w \in VPs, NEW y \in Hdrs
          PROVE  /\ head'[<<w, "send">>] = y => y \in owed'
                 /\ head'[<<w, "reply">>] = y => Replied(y, w)'
                 /\ pc'[w] = "release" /\ list'[w] = y => Replied(y, w)'
      <3>1. /\ head[<<w, "send">>] = y => y \in owed
            /\ head[<<w, "reply">>] = y => Replied(y, w)
            /\ pc[w] = "release" /\ list[w] = y => Replied(y, w)
        BY <1>t, Zenon DEF LabelInv
      <3>2. \A u \in Queues : head'[u] = y => head[u] = y
        BY <1>1, Facts, SMTT(30), Z3
      <3>3. CASE w # b
        BY <1>1, <2>0, <3>1, <3>2, <3>3, Facts, QueueFacts, Zenon
      <3>4. CASE w = b
        <4>1. pc'[w] = "release" /\ list'[w] = y => Replied(y, w)
          BY <1>1, <2>b, <3>4, SMTT(30), Z3
        <4> QED BY <2>0, <3>1, <3>2, <4>1, QueueFacts, Zenon
      <3> QED BY <3>3, <3>4, Zenon
    <2>2. ASSUME NEW w \in VPs, NEW y \in Hdrs, pc'[w] = "follow", list'[w] = y
          PROVE  /\ y \in Clients /\ Home[y] = w /\ ~Alive(y)'
                 /\ \A u \in Hdrs : next'[y] = u => Replied(u, w)'
      <3>0. pc[w] = "follow" /\ list[w] = y
        BY <1>3, <1>6, <2>2, Facts, Zenon
      <3>1. /\ y \in Clients /\ Home[y] = w /\ ~Alive(y)
            /\ \A u \in Hdrs : next[y] = u => Replied(u, w)
        BY <1>t, <3>0, Zenon DEF LabelInv
      <3> QED BY <1>2, <2>0, <3>1, Zenon
    <2>3. ASSUME NEW c \in Actors, NEW y \in Hdrs, list'[c] = y, pc'[c] \notin {"release", "follow"}
          PROVE  y \in owed'
      <3>1. CASE c = b
        BY <1>1, <2>3, <2>a, <3>1, SMTT(30), Z3
      <3>2. CASE c # b
        BY <1>1, <1>t, <2>3, <3>2, SMTT(30), Z3 DEF LabelInv
      <3> QED BY <3>1, <3>2, Zenon
    <2>4. ASSUME NEW y \in Hdrs, NEW u \in Hdrs, OnSome(y)', next'[y] = u
          PROVE  /\ y \in owed' => u \in owed'
                 /\ y \notin owed' => Replied(u, Home[y])'
      <3>1. OnSome(y) /\ next[y] = u
        BY <1>4, <2>4, Zenon
      <3>2. /\ y \in owed => u \in owed
            /\ y \notin owed => Replied(u, Home[y])
        BY <1>t, <3>1, Zenon DEF LabelInv
      <3> QED BY <2>0, <3>2, Zenon
    <2> QED BY <2>1, <2>2, <2>3, <2>4, Zenon DEF LabelInv
  <1>9. ClientInv'
    <2> SUFFICES ASSUME NEW d \in Clients PROVE ClientOK(d)'
      BY Zenon DEF ClientInv
    <2>1. ClientOK(d) /\ d \in Hdrs /\ d \in Actors /\ d # b
      BY <1>t, Facts, Zenon DEF ClientInv
    <2> QED BY <1>2, <2>1, Zenon DEF ClientOK
  <1>10. HandInv'
    <2>1. ASSUME NEW c \in Actors PROVE HandOK(c)'
      <3>1. HandOK(c)
        BY <1>t, Zenon DEF HandInv
      <3> QED BY <3>1, Zenon DEF HandOK
    <2> QED BY <1>t, <2>1, Zenon DEF HandInv
  <1>11. PcInv'
    <2>1. ASSUME NEW c \in Actors PROVE PcOK(c)'
      <3>1. PcOK(c)
        BY <1>t, Zenon DEF PcInv
      <3>2. CASE c # b
        BY <1>1, <3>1, <3>2, Zenon DEF PcOK
      <3>3. CASE c = b
        BY <1>1, <3>1, <3>3, Facts, Zenon DEF PcOK
      <3> QED BY <3>2, <3>3, Zenon
    <2> QED BY <2>1, Zenon DEF PcInv
  <1> QED BY <1>7, <1>8, <1>9, <1>10, <1>11, Zenon

(* A handler takes a queue of its dispatcher off the interrupts to handle. *)
LEMMA TakenAnnounced ==
  ASSUME AnnounceInv, NEW v \in VPs, NEW k \in {"send", "reply"}, pc[v] = "next",
         head'[<<v, k>>] = NULL, \A u \in Queues : u # <<v, k>> => head'[u] = head[u],
         todo \in [VPs -> SUBSET {"send", "reply"}], todo' = [todo EXCEPT ![v] = @ \ {k}],
         UNCHANGED <<intr, dest>>,
         \A a \in Actors : pc[a] = "interrupt" => pc'[a] = "interrupt",
         \A w \in VPs : pc'[w] = "idle" => pc[w] = "idle" /\ w # v
  PROVE  AnnounceInv'
  <1>1. ASSUME NEW w \in VPs, NEW j \in {"send", "reply"}, head'[<<w, j>>] # NULL
        PROVE  \/ j \in intr'[w] \cup todo'[w]
               \/ \E b \in Actors : pc'[b] = "interrupt" /\ dest'[b] = <<w, j>>
    <2>1. <<w, j>> \in Queues /\ <<w, j>> # <<v, k>>
      BY <1>1, Zenon DEF Queues
    <2>2. head[<<w, j>>] # NULL
      BY <1>1, <2>1, Zenon
    <2>3. \/ j \in intr[w] \cup todo[w]
          \/ \E b \in Actors : pc[b] = "interrupt" /\ dest[b] = <<w, j>>
      BY <2>2, Zenon DEF AnnounceInv, QueueAnnounced
    <2>4. j \in todo[w] => j \in todo'[w]
      BY <2>1, Zenon
    <2> QED BY <2>3, <2>4, Zenon
  <1>2. \A w \in VPs : pc'[w] = "idle" => todo'[w] = {}
    BY Zenon DEF AnnounceInv
  <1> QED BY <1>1, <1>2, Zenon DEF AnnounceInv, QueueAnnounced

LEMMA ProcessSendQueueInv == ASSUME IInv, NEW v \in VPs, ProcessSendQueue(v) PROVE IInv'
  <1>t. TypeOK /\ PcInv /\ LinkInv /\ LabelInv /\ ClientInv /\ HandInv /\ AnnounceInv
    BY Zenon DEF IInv
  <1>a. v \in Actors /\ v \notin Clients /\ PcOK(v) /\ HandOK(v) /\ pc[v] = "next"
    BY <1>t, Facts, Zenon DEF PcInv, HandInv, ProcessSendQueue
  <1>p. PICK q \in Queues : q = <<v, "send">> /\ q[2] = "send"
    <2>1. <<v, "send">> \in Queues
      BY QueueFacts, Zenon
    <2>2. <<v, "send">>[2] = "send"
      BY Zenon
    <2> QED BY <2>1, <2>2, Zenon
  <1>0. /\ todo' = [todo EXCEPT ![v] = @ \ {"send"}]
        /\ head' = [head EXCEPT ![q] = NULL]
        /\ UNCHANGED <<enabled, manager, next, busy, sender, intr, hdr, old, dest, owed>>
    BY <1>p, Zenon DEF ProcessSendQueue
  <1>1. /\ head'[q] = NULL /\ \A u \in Queues : u # q => head'[u] = head[u]
        /\ todo' \in [VPs -> SUBSET {"send", "reply"}]
    BY <1>0, <1>t, Zenon DEF TypeOK
  <1>2. \/ head[q] = NULL /\ UNCHANGED <<pc, list>>
        \/ \E b \in Actors, l \in {"walk", "stopped"} :
             /\ head[q] \in Hdrs /\ b \notin Clients /\ pc[b] \in {"idle", "next"}
             /\ list' = [list EXCEPT ![b] = head[q]]
             /\ pc' = [pc EXCEPT ![b] = l]
    <2>1. \A w \in NewWorker(v) : w \in Workers /\ pc[w] = "idle"
      BY Zenon DEF NewWorker
    <2>2. head[q] = NULL \/ head[q] \in Hdrs
      BY <1>t, Zenon DEF TypeOK
    <2>3. CASE head[q] = NULL /\ UNCHANGED <<pc, list>>
      BY <2>3, Zenon
    <2>4. ASSUME NEW l \in {"walk", "stopped"}, head[q] # NULL,
                 list' = [list EXCEPT ![v] = head[q]], pc' = [pc EXCEPT ![v] = l]
          PROVE  \E b \in Actors : /\ head[q] \in Hdrs /\ b \notin Clients /\ pc[b] \in {"idle", "next"}
                                   /\ list' = [list EXCEPT ![b] = head[q]]
                                   /\ pc' = [pc EXCEPT ![b] = l]
      <3>1. pc[v] \in {"idle", "next"}
        BY <1>a, Zenon
      <3> QED BY <1>a, <2>2, <2>4, <3>1, Zenon
    <2>5. ASSUME head[q] # NULL, NEW w \in NewWorker(v), list' = [list EXCEPT ![w] = head[q]],
                 pc' = [pc EXCEPT ![w] = "walk"]
          PROVE  \E b \in Actors : /\ head[q] \in Hdrs /\ b \notin Clients /\ pc[b] \in {"idle", "next"}
                                   /\ list' = [list EXCEPT ![b] = head[q]]
                                   /\ pc' = [pc EXCEPT ![b] = "walk"]
      <3>1. w \in Actors /\ w \notin Clients /\ pc[w] \in {"idle", "next"}
        BY <2>1, Facts, Zenon
      <3> QED BY <2>2, <2>5, <3>1, Zenon
    <2>6. \/ head[q] = NULL /\ UNCHANGED <<pc, list>>
          \/ /\ head[q] # NULL /\ list' = [list EXCEPT ![v] = head[q]]
             /\ pc' = [pc EXCEPT ![v] = "walk"] \/ pc' = [pc EXCEPT ![v] = "stopped"]
          \/ \E w \in NewWorker(v) : /\ head[q] # NULL /\ list' = [list EXCEPT ![w] = head[q]]
                                     /\ pc' = [pc EXCEPT ![w] = "walk"]
      BY <1>p, Zenon DEF ProcessSendQueue, Goto
    <2>7. "walk" \in {"walk", "stopped"} /\ "stopped" \in {"walk", "stopped"}
      BY Zenon
    <2> QED BY <2>3, <2>4, <2>5, <2>6, <2>7, Zenon
  <1>3. CASE head[q] = NULL /\ UNCHANGED <<pc, list>>
    <2>1. head' = head
      BY <1>0, <1>3, <1>t, Zenon DEF TypeOK
    <2>2. TypeOK'
      BY <1>0, <1>1, <1>3, <1>t, <2>1, Zenon DEF TypeOK
    <2>3. PcOK(v)' /\ HandOK(v)'
      BY <1>0, <1>3, <1>a, Zenon DEF PcOK, HandOK
    <2>4. LinkInv' /\ LabelInv' /\ ClientInv' /\ HandInv' /\ PcInv'
      BY <1>0, <1>3, <1>a, <2>1, <2>3, OneActor, Zenon
    <2>5. AnnounceInv'
      <3>1. /\ head'[<<v, "send">>] = NULL /\ \A u \in Queues : u # <<v, "send">> => head'[u] = head[u]
            /\ todo \in [VPs -> SUBSET {"send", "reply"}] /\ UNCHANGED <<intr, dest>>
        BY <1>0, <1>1, <1>p, <1>t, Zenon DEF TypeOK
      <3>2. /\ \A a \in Actors : pc[a] = "interrupt" => pc'[a] = "interrupt"
            /\ \A w \in VPs : pc'[w] = "idle" => pc[w] = "idle" /\ w # v
        BY <1>3, <1>a, Zenon
      <3>3. "send" \in {"send", "reply"}
        BY Zenon
      <3> QED BY <1>0, <1>a, <1>t, <3>1, <3>2, <3>3, TakenAnnounced, Zenon
    <2> QED BY <2>2, <2>4, <2>5, Zenon DEF IInv
  <1>4. ASSUME NEW b \in Actors, NEW l \in {"walk", "stopped"},
               head[q] \in Hdrs, b \notin Clients, pc[b] \in {"idle", "next"},
               list' = [list EXCEPT ![b] = head[q]], pc' = [pc EXCEPT ![b] = l]
        PROVE  IInv'
    <2>0. l \in Labels
      BY DEF Labels
    <2>1. /\ pc'[b] = l /\ \A c \in Actors : c # b => pc'[c] = pc[c]
          /\ list[b] = NULL
      <3>1. PcOK(b)
        BY <1>t, Zenon DEF PcInv
      <3>2. list[b] = NULL
        BY <1>4, <3>1, Zenon DEF PcOK
      <3> QED BY <1>4, <1>t, <3>2, Zenon DEF TypeOK
    <2>2. TypeOK'
      BY <1>0, <1>1, <1>4, <1>t, <2>0, Zenon DEF TypeOK
    <2>3. PICK x \in Hdrs : head[q] = x
      BY <1>4, Zenon
    <2>4. LinkInv' /\ LabelInv' /\ ClientInv' /\ HandInv' /\ PcInv'
      BY <1>0, <1>p, <1>4, <2>1, <2>3, TakeList, Zenon
    <2>5. AnnounceInv'
      <3>1. /\ head'[<<v, "send">>] = NULL /\ \A u \in Queues : u # <<v, "send">> => head'[u] = head[u]
            /\ todo \in [VPs -> SUBSET {"send", "reply"}] /\ UNCHANGED <<intr, dest>>
        BY <1>0, <1>1, <1>p, <1>t, Zenon DEF TypeOK
      <3>2. /\ \A a \in Actors : pc[a] = "interrupt" => pc'[a] = "interrupt"
            /\ \A w \in VPs : pc'[w] = "idle" => pc[w] = "idle" /\ w # v
        BY <1>4, <1>a, <2>1, Facts, Zenon
      <3>3. "send" \in {"send", "reply"}
        BY Zenon
      <3> QED BY <1>0, <1>a, <1>t, <3>1, <3>2, <3>3, TakenAnnounced, Zenon
    <2> QED BY <2>2, <2>4, <2>5, Zenon DEF IInv
  <1> QED BY <1>2, <1>3, <1>4, Zenon

LEMMA ProcessReplyQueueInv == ASSUME IInv, NEW v \in VPs, ProcessReplyQueue(v) PROVE IInv'
  <1>t. TypeOK /\ PcInv /\ LinkInv /\ LabelInv /\ ClientInv /\ HandInv /\ AnnounceInv
    BY Zenon DEF IInv
  <1>a. /\ v \in Actors /\ v \notin Clients /\ PcOK(v) /\ HandOK(v)
        /\ pc[v] = "next" /\ todo[v] = {"reply"}
    BY <1>t, Facts, Zenon DEF PcInv, HandInv, ProcessReplyQueue
  <1>p. PICK q \in Queues : q = <<v, "reply">>
    BY QueueFacts, Zenon
  <1>0. /\ todo' = [todo EXCEPT ![v] = {}] /\ head' = [head EXCEPT ![q] = NULL]
        /\ list' = [list EXCEPT ![v] = head[q]]
        /\ pc' = [pc EXCEPT ![v] = IF head[q] = NULL THEN "next" ELSE "release"]
        /\ UNCHANGED <<enabled, manager, next, busy, sender, intr, hdr, old, dest, owed>>
    BY <1>p, Zenon DEF ProcessReplyQueue, Goto
  <1>1. /\ head'[q] = NULL /\ \A u \in Queues : u # q => head'[u] = head[u]
        /\ list'[v] = head[q] /\ list[v] = NULL
        /\ pc'[v] = IF head[q] = NULL THEN "next" ELSE "release"
        /\ \A c \in Actors : c # v => pc'[c] = pc[c]
    BY <1>0, <1>a, <1>t, Zenon DEF TypeOK, PcOK
  <1>2. TypeOK'
    <2>1. (IF head[q] = NULL THEN "next" ELSE "release") \in Labels
      BY Zenon DEF Labels
    <2>2. todo' \in [VPs -> SUBSET {"send", "reply"}] /\ list' \in [Actors -> Hdrs \cup {NULL}]
      BY <1>0, <1>t, Zenon DEF TypeOK
    <2> QED BY <1>0, <1>t, <2>1, <2>2, Zenon DEF TypeOK
  <1>3. AnnounceInv'
    <2>1. todo' = [todo EXCEPT ![v] = @ \ {"reply"}] /\ todo \in [VPs -> SUBSET {"send", "reply"}]
      <3>1. todo[v] \ {"reply"} = {}
        BY <1>a, Zenon
      <3> QED BY <1>0, <1>t, <3>1, Zenon DEF TypeOK
    <2>2. /\ \A a \in Actors : pc[a] = "interrupt" => pc'[a] = "interrupt"
          /\ \A w \in VPs : pc'[w] = "idle" => pc[w] = "idle" /\ w # v
      BY <1>1, <1>a, Facts, Zenon
    <2>3. /\ head'[<<v, "reply">>] = NULL /\ \A u \in Queues : u # <<v, "reply">> => head'[u] = head[u]
          /\ UNCHANGED <<intr, dest>>
      BY <1>0, <1>1, <1>p, Zenon
    <2>4. "reply" \in {"send", "reply"}
      BY Zenon
    <2> QED BY <1>a, <1>t, <2>1, <2>2, <2>3, <2>4, TakenAnnounced, Zenon
  <1>4. CASE head[q] = NULL
    <2>1. UNCHANGED <<head, list, pc>>
      BY <1>0, <1>1, <1>4, <1>a, <1>t, Zenon DEF TypeOK
    <2>2. PcOK(v)' /\ HandOK(v)'
      BY <1>0, <1>a, <2>1, Zenon DEF PcOK, HandOK
    <2>3. LinkInv' /\ LabelInv' /\ ClientInv' /\ HandInv' /\ PcInv'
      BY <1>0, <1>a, <2>1, <2>2, OneActor, Zenon
    <2> QED BY <1>2, <1>3, <2>3, Zenon DEF IInv
  <1>5. CASE head[q] # NULL
    <2>1. PICK x \in Hdrs : head[q] = x
      BY <1>5, <1>t, Zenon DEF TypeOK
    <2>2. LinkInv' /\ LabelInv' /\ ClientInv' /\ HandInv' /\ PcInv'
      <3>1. pc'[v] = "release" /\ pc[v] \in {"idle", "next"}
        BY <1>1, <1>5, <1>a, Zenon
      <3> QED BY <1>0, <1>1, <1>a, <1>p, <2>1, <3>1, TakeList, Zenon
    <2> QED BY <1>2, <1>3, <2>2, Zenon DEF IInv
  <1> QED BY <1>4, <1>5, Zenon

(* processReplyQueue lets a sender go, and has its link to follow. *)
LEMMA ReplyReleaseInv == ASSUME IInv, NEW v \in VPs, ReplyRelease(v) PROVE IInv'
  <1>t. TypeOK /\ PcInv /\ LinkInv /\ LabelInv /\ ClientInv /\ HandInv /\ AnnounceInv
    BY Zenon DEF IInv
  <1>a. v \in Actors /\ v \notin Clients /\ PcOK(v) /\ HandOK(v) /\ pc[v] = "release"
    BY <1>t, Facts, Zenon DEF PcInv, HandInv, ReplyRelease
  <1>p. PICK x \in Hdrs : list[v] = x
    BY <1>t, <1>a, Zenon DEF PcOK, TypeOK
  <1>0. /\ sender' = [sender EXCEPT ![x] = FALSE] /\ pc' = [pc EXCEPT ![v] = "follow"]
        /\ UNCHANGED <<enabled, manager, head, next, busy, intr, todo, hdr, list, old, dest, owed>>
    BY <1>p, Zenon DEF ReplyRelease, Goto
  <1>1. x \in Clients /\ x \notin owed /\ Home[x] = v
    BY <1>t, <1>a, <1>p, Zenon DEF LabelInv, Replied
  <1>2. /\ pc'[v] = "follow" /\ \A b \in Actors : b # v => pc'[b] = pc[b]
        /\ ~sender'[x] /\ \A c \in Clients : c # x => sender'[c] = sender[c]
    BY <1>0, <1>1, <1>a, <1>t, Zenon DEF TypeOK
  <1>3. TypeOK'
    BY <1>0, <1>t, Zenon DEF TypeOK, Labels
  <1>4. /\ Alive(x) /\ \A u \in Queues : head[u] # x
        /\ \A c \in Actors : pc[c] # "follow" /\ list[c] = x => c = v
        /\ \A w \in Hdrs : OnSome(w) => next[w] # x
        /\ \A w \in VPs : pc[w] = "follow" => next[list[w]] # x
        /\ \A c \in Actors : pc[c] # "interrupt" => hdr[c] # x
    <2>1. Leads("list", v, x)
      BY <1>a, <1>p, Zenon DEF Leads
    <2> QED BY <1>a, <1>t, <2>1, ListLeads, Zenon
  <1>5. ~Alive(x)' /\ \A y \in Hdrs : y # x => (Alive(y)' <=> Alive(y))
    BY <1>0, <1>1, <1>2, Zenon DEF Alive
  <1>6. /\ OnSome(x) /\ ~OnSome(x)'
        /\ \A y \in Hdrs : y # x => (OnSome(y)' <=> OnSome(y))
    <2>1. \A y : Held(y)' <=> Held(y)
      BY <1>0, <1>2, <1>a, Zenon DEF Held
    <2>2. ~Held(x)
      BY <1>4, Zenon DEF Held
    <2> QED BY <1>4, <1>5, <2>1, <2>2, Zenon DEF OnSome
  <1>7. next[x] # x
    BY <1>4, <1>6, Zenon
  <1>8. LinkInv'
    <2> SUFFICES ASSUME NEW y \in Hdrs PROVE LinkOK(y)'
      BY Zenon DEF LinkInv
    <2>0. LinkOK(y)
      BY <1>t, Zenon DEF LinkInv
    <2>1. CASE y = x
      <3>1. ASSUME NEW k \in Kinds, NEW i \in Cells PROVE ~Leads(k, i, y)'
        BY <1>0, <1>2, <1>4, <1>6, <1>7, <1>a, <1>p, <2>1, Facts, Zenon DEF Leads
      <3> QED BY <1>5, <2>1, <3>1, Zenon DEF LinkOK
    <2>2. CASE y # x /\ y # next[x]
      <3>1. ASSUME NEW k \in Kinds, NEW i \in Cells PROVE Leads(k, i, y)' <=> Leads(k, i, y)
        <4>1. OnSome(i)' /\ i \in Hdrs /\ next[i] = y <=> OnSome(i) /\ i \in Hdrs /\ next[i] = y
          BY <1>6, <2>2, Zenon
        <4>2. CASE i = v
          BY <1>0, <1>2, <1>a, <1>p, <2>2, <4>1, <4>2, Facts, Zenon DEF Leads
        <4>3. CASE i # v
          <5>1. i \in VPs => i \in Actors
            BY Facts, Zenon
          <5> QED BY <1>0, <1>2, <4>1, <4>3, <5>1, Zenon DEF Leads
        <4> QED BY <4>2, <4>3, Zenon
      <3> QED BY <1>5, <2>0, <2>2, <3>1, LinkSame, Zenon
    <2>3. CASE y = next[x]
      <3>1. Leads("next", x, y)
        BY <1>6, <2>3, Zenon DEF Leads
      <3>2. /\ Alive(y) /\ \A u \in Queues : head[u] # y
            /\ \A c \in Actors : pc[c] # "follow" => list[c] # y
            /\ \A w \in Hdrs : OnSome(w) /\ next[w] = y => w = x
            /\ \A w \in VPs : pc[w] = "follow" => next[list[w]] # y
            /\ \A c \in Actors : pc[c] # "interrupt" => hdr[c] # y
        BY <1>t, <3>1, LinkLeads, Zenon
      <3>3. ASSUME NEW k \in Kinds, NEW i \in Cells PROVE Leads(k, i, y)' <=> k = "follow" /\ i = v
        BY <1>0, <1>2, <1>a, <1>6, <1>7, <1>p, <2>3, <3>2, Facts, SMTT(30), Z3 DEF Leads
      <3>4. Alive(y)' /\ v \in Cells
        BY <1>5, <1>7, <1>a, <2>3, <3>2, Facts, Zenon
      <3> QED BY <3>3, <3>4, SoleNow, KindFacts, Zenon
    <2> QED BY <2>1, <2>2, <2>3, Zenon
  <1>9. LabelInv'
    <2>0. \A y, w : Replied(y, w)' <=> Replied(y, w)
      BY <1>0, Zenon DEF Replied
    <2>1. ASSUME NEW w \in VPs, NEW y \in Hdrs
          PROVE  /\ head'[<<w, "send">>] = y => y \in owed'
                 /\ head'[<<w, "reply">>] = y => Replied(y, w)'
                 /\ pc'[w] = "release" /\ list'[w] = y => Replied(y, w)'
      <3>1. /\ head[<<w, "send">>] = y => y \in owed
            /\ head[<<w, "reply">>] = y => Replied(y, w)
            /\ pc[w] = "release" /\ list[w] = y => Replied(y, w)
        BY <1>t, Zenon DEF LabelInv
      <3>2. pc'[w] = "release" => pc[w] = "release"
        BY <1>2, Facts, Zenon
      <3> QED BY <1>0, <2>0, <3>1, <3>2, Zenon
    <2>2. ASSUME NEW w \in VPs, NEW y \in Hdrs, pc'[w] = "follow", list'[w] = y
          PROVE  /\ y \in Clients /\ Home[y] = w /\ ~Alive(y)'
                 /\ \A u \in Hdrs : next'[y] = u => Replied(u, w)'
      <3>1. CASE w = v
        <4>1. y = x
          BY <1>0, <1>p, <2>2, <3>1, Zenon
        <4>2. \A u \in Hdrs : next[x] = u => Replied(u, v)
          BY <1>1, <1>6, <1>t, Zenon DEF LabelInv
        <4> QED BY <1>0, <1>1, <1>5, <2>0, <3>1, <4>1, <4>2, Zenon
      <3>2. CASE w # v
        <4>0. pc[w] = "follow" /\ list[w] = y
          BY <1>0, <1>2, <2>2, <3>2, Facts, Zenon
        <4>1. /\ y \in Clients /\ Home[y] = w /\ ~Alive(y)
              /\ \A u \in Hdrs : next[y] = u => Replied(u, w)
          BY <1>t, <4>0, Zenon DEF LabelInv
        <4> QED BY <1>0, <1>5, <2>0, <4>1, Zenon
      <3> QED BY <3>1, <3>2, Zenon
    <2>3. \A b \in Actors, y \in Hdrs :
            list'[b] = y /\ pc'[b] \notin {"release", "follow"} => y \in owed'
      BY <1>0, <1>2, <1>t, Zenon DEF LabelInv
    <2>4. ASSUME NEW y \in Hdrs, NEW u \in Hdrs, OnSome(y)', next'[y] = u
          PROVE  /\ y \in owed' => u \in owed'
                 /\ y \notin owed' => Replied(u, Home[y])'
      <3>1. OnSome(y) /\ next[y] = u
        BY <1>0, <1>6, <2>4, Zenon
      <3>2. /\ y \in owed => u \in owed
            /\ y \notin owed => Replied(u, Home[y])
        BY <1>t, <3>1, Zenon DEF LabelInv
      <3> QED BY <1>0, <2>0, <3>2, Zenon
    <2> QED BY <2>1, <2>2, <2>3, <2>4, Zenon DEF LabelInv
  <1>10. ClientInv'
    <2> SUFFICES ASSUME NEW d \in Clients PROVE ClientOK(d)'
      BY Zenon DEF ClientInv
    <2>1. ClientOK(d) /\ d \in Hdrs /\ d \in Actors /\ pc'[d] = pc[d]
      BY <1>t, <1>2, <1>a, Facts, Zenon DEF ClientInv
    <2>2. (d = x => d \notin owed) /\ (d # x => sender'[d] = sender[d])
          /\ (Alive(d)' => Alive(d))
      BY <1>1, <1>2, <1>5, <2>1, Zenon
    <2> QED BY <1>0, <2>1, <2>2, Zenon DEF ClientOK
  <1>11. HandInv'
    <2>1. ASSUME NEW b \in Actors PROVE HandOK(b)'
      <3>1. HandOK(b) /\ (pc'[b] \in {"push", "cas"} => hdr[b] # x)
            /\ (pc'[b] \in {"push", "cas", "handle"} => pc'[b] = pc[b])
        BY <1>t, <1>2, <1>4, Zenon DEF HandInv
      <3> QED BY <1>0, <1>2, <3>1, Zenon DEF HandOK
    <2> QED BY <1>0, <1>t, <2>1, Zenon DEF HandInv
  <1>12. PcInv'
    <2>1. ASSUME NEW b \in Actors PROVE PcOK(b)'
      <3>1. PcOK(b)
        BY <1>t, Zenon DEF PcInv
      <3> QED BY <1>0, <1>2, <1>a, <3>1, Zenon DEF PcOK
    <2> QED BY <2>1, Zenon DEF PcInv
  <1>13. AnnounceInv'
    BY <1>0, <1>2, <1>a, <1>t, Facts, AnnounceKept, Zenon
  <1> QED BY <1>3, <1>8, <1>9, <1>10, <1>11, <1>12, <1>13, Zenon DEF IInv

LEMMA ReplyFollowInv == ASSUME IInv, NEW v \in VPs, ReplyFollow(v) PROVE IInv'
  <1>t. TypeOK /\ PcInv /\ LinkInv /\ LabelInv /\ ClientInv /\ HandInv /\ AnnounceInv
    BY Zenon DEF IInv
  <1>a. v \in Actors /\ v \notin Clients /\ PcOK(v) /\ HandOK(v) /\ pc[v] = "follow"
    BY <1>t, Facts, Zenon DEF PcInv, HandInv, ReplyFollow
  <1>p. PICK x \in Hdrs, z \in Hdrs \cup {NULL} : list[v] = x /\ next[x] = z
    BY <1>t, <1>a, Zenon DEF PcOK, TypeOK
  <1>0. /\ list' = [list EXCEPT ![v] = z]
        /\ pc' = [pc EXCEPT ![v] = IF z = NULL THEN "next" ELSE "release"]
        /\ UNCHANGED <<enabled, manager, head, next, busy, sender, intr, todo, hdr, old, dest, owed>>
    BY <1>p, Zenon DEF ReplyFollow, Goto
  <1>1. /\ list'[v] = z /\ pc'[v] = IF z = NULL THEN "next" ELSE "release"
        /\ \A b \in Actors : b # v => pc'[b] = pc[b] /\ list'[b] = list[b]
    BY <1>0, <1>a, <1>t, Zenon DEF TypeOK
  <1>2. TypeOK'
    <2>1. (IF z = NULL THEN "next" ELSE "release") \in Labels
      BY Zenon DEF Labels
    <2> QED BY <1>0, <1>t, <2>1, Zenon DEF TypeOK
  <1>3. \A y \in Hdrs : (Alive(y)' <=> Alive(y)) /\ (OnSome(y)' <=> OnSome(y))
    <2>1. \A y \in Hdrs : Alive(y)' <=> Alive(y)
      BY <1>0, Zenon DEF Alive
    <2>2. \A b \in Actors : pc'[b] # "interrupt" <=> pc[b] # "interrupt"
      BY <1>1, <1>a, Zenon
    <2> QED BY <1>0, <2>1, <2>2, Zenon DEF OnSome, Held
  <1>4. ~Alive(x)
    BY <1>t, <1>a, <1>p, Zenon DEF LabelInv
  <1>5. LinkInv'
    <2> SUFFICES ASSUME NEW y \in Hdrs PROVE LinkOK(y)'
      BY Zenon DEF LinkInv
    <2>0. LinkOK(y)
      BY <1>t, Zenon DEF LinkInv
    <2>1. CASE y # z
      <3>1. ASSUME NEW k \in Kinds, NEW i \in Cells PROVE Leads(k, i, y)' <=> Leads(k, i, y)
        <4>1. CASE i = v
          BY <1>0, <1>1, <1>3, <1>a, <1>p, <2>1, <4>1, Facts, SMTT(30), Z3 DEF Leads
        <4>2. CASE i # v
          <5>1. i \in VPs => i \in Actors
            BY Facts, Zenon
          <5> QED BY <1>0, <1>1, <1>3, <4>2, <5>1, Zenon DEF Leads
        <4> QED BY <4>1, <4>2, Zenon
      <3> QED BY <1>3, <2>0, <3>1, LinkSame, Zenon
    <2>2. CASE y = z
      <3>1. Leads("follow", v, y)
        BY <1>a, <1>p, <2>2, Zenon DEF Leads
      <3>2. /\ Alive(y) /\ \A u \in Queues : head[u] # y
            /\ \A c \in Actors : pc[c] # "follow" => list[c] # y
            /\ \A w \in Hdrs : OnSome(w) => next[w] # y
            /\ \A w \in VPs : pc[w] = "follow" /\ next[list[w]] = y => w = v
            /\ \A c \in Actors : pc[c] # "interrupt" => hdr[c] # y
        BY <1>a, <1>t, <3>1, FollowLeads, Zenon
      <3>3. ASSUME NEW k \in Kinds, NEW i \in Cells PROVE Leads(k, i, y)' <=> k = "list" /\ i = v
        BY <1>0, <1>1, <1>a, <1>3, <2>2, <3>2, Facts, SMTT(30), Z3 DEF Leads
      <3>4. Alive(y)' /\ v \in Cells
        BY <1>3, <1>a, <3>2, Facts, Zenon
      <3> QED BY <3>3, <3>4, SoleNow, KindFacts, Zenon
    <2> QED BY <2>1, <2>2, Zenon
  <1>6. LabelInv'
    <2>0. \A y, w : Replied(y, w)' <=> Replied(y, w)
      BY <1>0, Zenon DEF Replied
    <2>1. ASSUME NEW w \in VPs, NEW y \in Hdrs
          PROVE  /\ head'[<<w, "send">>] = y => y \in owed'
                 /\ head'[<<w, "reply">>] = y => Replied(y, w)'
                 /\ pc'[w] = "release" /\ list'[w] = y => Replied(y, w)'
      <3>1. /\ head[<<w, "send">>] = y => y \in owed
            /\ head[<<w, "reply">>] = y => Replied(y, w)
            /\ pc[w] = "release" /\ list[w] = y => Replied(y, w)
        BY <1>t, Zenon DEF LabelInv
      <3>2. CASE w = v
        <4>1. z = y => Replied(y, v)
          BY <1>t, <1>a, <1>p, Zenon DEF LabelInv
        <4> QED BY <1>0, <1>1, <2>0, <3>1, <3>2, <4>1, Zenon
      <3>3. CASE w # v
        BY <1>0, <1>1, <2>0, <3>1, <3>3, Facts, Zenon
      <3> QED BY <3>2, <3>3, Zenon
    <2>2. ASSUME NEW w \in VPs, NEW y \in Hdrs, pc'[w] = "follow", list'[w] = y
          PROVE  /\ y \in Clients /\ Home[y] = w /\ ~Alive(y)'
                 /\ \A u \in Hdrs : next'[y] = u => Replied(u, w)'
      <3>0. pc[w] = "follow" /\ list[w] = y
        BY <1>1, <2>2, Facts, Zenon
      <3>1. /\ y \in Clients /\ Home[y] = w /\ ~Alive(y)
            /\ \A u \in Hdrs : next[y] = u => Replied(u, w)
        BY <1>t, <3>0, Zenon DEF LabelInv
      <3> QED BY <1>0, <1>3, <2>0, <3>1, Zenon
    <2>3. ASSUME NEW b \in Actors, NEW y \in Hdrs, list'[b] = y, pc'[b] \notin {"release", "follow"}
          PROVE  y \in owed'
      <3>1. b # v
        BY <1>1, <2>3, Facts, Zenon
      <3>2. list[b] = y /\ pc[b] \notin {"release", "follow"}
        BY <1>1, <2>3, <3>1, Zenon
      <3> QED BY <1>0, <1>t, <3>2, Zenon DEF LabelInv
    <2>4. ASSUME NEW y \in Hdrs, NEW u \in Hdrs, OnSome(y)', next'[y] = u
          PROVE  /\ y \in owed' => u \in owed'
                 /\ y \notin owed' => Replied(u, Home[y])'
      <3>1. OnSome(y) /\ next[y] = u
        BY <1>0, <1>3, <2>4, Zenon
      <3>2. /\ y \in owed => u \in owed
            /\ y \notin owed => Replied(u, Home[y])
        BY <1>t, <3>1, Zenon DEF LabelInv
      <3> QED BY <1>0, <2>0, <3>2, Zenon
    <2> QED BY <2>1, <2>2, <2>3, <2>4, Zenon DEF LabelInv
  <1>7. ClientInv'
    <2> SUFFICES ASSUME NEW d \in Clients PROVE ClientOK(d)'
      BY Zenon DEF ClientInv
    <2>1. ClientOK(d) /\ d \in Hdrs /\ d \in Actors /\ pc'[d] = pc[d]
      BY <1>t, <1>1, <1>a, Facts, Zenon DEF ClientInv
    <2> QED BY <1>0, <1>3, <2>1, Zenon DEF ClientOK
  <1>8. HandInv'
    <2>1. ASSUME NEW b \in Actors PROVE HandOK(b)'
      <3>1. HandOK(b)
        BY <1>t, Zenon DEF HandInv
      <3> QED BY <1>0, <1>1, <3>1, SMTT(30), Z3 DEF HandOK
    <2> QED BY <1>0, <1>t, <2>1, Zenon DEF HandInv
  <1>9. PcInv'
    <2>1. ASSUME NEW b \in Actors PROVE PcOK(b)'
      <3>1. PcOK(b)
        BY <1>t, Zenon DEF PcInv
      <3> QED BY <1>0, <1>1, <1>a, <3>1, SMTT(30), Z3 DEF PcOK
    <2> QED BY <2>1, Zenon DEF PcInv
  <1>10. AnnounceInv'
    BY <1>0, <1>1, <1>a, <1>t, Facts, AnnounceKept, SMTT(30), Z3
  <1> QED BY <1>2, <1>5, <1>6, <1>7, <1>8, <1>9, <1>10, Zenon DEF IInv

-----------------------------------------------------------------------------
(* The first message of a list is taken in hand, and b has the rest. *)
LEMMA WalkStep ==
  ASSUME IInv, NEW a \in Actors, NEW b \in Actors, NEW x \in Hdrs, NEW z \in Hdrs \cup {NULL},
         pc[a] = "walk", list[a] = x, next[x] = z,
         b # a => b \in Workers /\ pc[b] = "idle" /\ z # NULL,
         hdr' = [hdr EXCEPT ![a] = x], list' \in [Actors -> Hdrs \cup {NULL}], list'[b] = z,
         b # a => list'[a] = NULL,
         \A c \in Actors : c # a /\ c # b => list'[c] = list[c] /\ pc'[c] = pc[c],
         pc' \in [Actors -> Labels], pc'[a] = "handle", b # a => pc'[b] = "walk",
         UNCHANGED <<enabled, manager, head, next, busy, sender, intr, todo, old, dest, owed>>
  PROVE  IInv'
  <1>t. TypeOK /\ PcInv /\ LinkInv /\ LabelInv /\ ClientInv /\ HandInv /\ AnnounceInv
    BY Zenon DEF IInv
  <1>a. a \notin Clients /\ b \notin Clients /\ hdr[a] = NULL /\ PcOK(a) /\ PcOK(b)
        /\ (b # a => list[b] = NULL /\ hdr[b] = NULL)
    <2>1. PcOK(a) /\ PcOK(b)
      BY <1>t, Zenon DEF PcInv
    <2>2. a \notin Clients /\ hdr[a] = NULL
      BY <2>1, Zenon DEF PcOK
    <2>3. b # a => b \notin Clients /\ list[b] = NULL /\ hdr[b] = NULL
      BY <2>1, Facts, Zenon DEF PcOK
    <2> QED BY <2>1, <2>2, <2>3, Zenon
  <1>1. hdr'[a] = x /\ \A c \in Actors : c # a => hdr'[c] = hdr[c]
    BY <1>t, Zenon DEF TypeOK
  <1>2. TypeOK'
    BY <1>t, Zenon DEF TypeOK
  <1>3. x \in owed /\ Alive(x) /\ \A y \in Hdrs : Alive(y)' <=> Alive(y)
    <2>1. x \in owed
      <3>1. pc[a] \notin {"release", "follow"}
        BY Zenon
      <3> QED BY <1>t, <3>1, Zenon DEF LabelInv
    <2> QED BY <2>1, Zenon DEF Alive
  <1>4. /\ \A u \in Queues : head[u] # x
        /\ \A c \in Actors : pc[c] # "follow" /\ list[c] = x => c = a
        /\ \A w \in Hdrs : OnSome(w) => next[w] # x
        /\ \A w \in VPs : pc[w] = "follow" => next[list[w]] # x
        /\ \A c \in Actors : pc[c] # "interrupt" => hdr[c] # x
    <2>1. Leads("list", a, x)
      BY Zenon DEF Leads
    <2> QED BY <1>t, <2>1, ListLeads, Zenon
  <1>5. /\ OnSome(x) /\ ~OnSome(x)' /\ x # z
        /\ \A y \in Hdrs : y # x => (OnSome(y)' <=> OnSome(y))
    <2>1. ~Held(x)
      BY <1>4, Zenon DEF Held
    <2>2. Held(x)'
      BY <1>1, Zenon DEF Held
    <2>3. ASSUME NEW y \in Hdrs, y # x PROVE Held(y)' <=> Held(y)
      <3> SUFFICES ASSUME NEW c \in Actors
                   PROVE  pc'[c] # "interrupt" /\ hdr'[c] = y <=> pc[c] # "interrupt" /\ hdr[c] = y
        BY Zenon DEF Held
      <3> QED BY <1>1, <1>a, <2>3, Facts, Zenon
    <2> QED BY <1>3, <1>4, <2>1, <2>2, <2>3, Zenon DEF OnSome
  <1>6. \A w \in VPs : /\ pc'[w] = "follow" <=> pc[w] = "follow"
                       /\ pc'[w] = "release" <=> pc[w] = "release"
                       /\ pc[w] \in {"follow", "release"} => list'[w] = list[w]
                       /\ pc'[w] = "idle" => pc[w] = "idle"
    <2> SUFFICES ASSUME NEW w \in VPs
                 PROVE  /\ pc'[w] = "follow" <=> pc[w] = "follow"
                        /\ pc'[w] = "release" <=> pc[w] = "release"
                        /\ pc[w] \in {"follow", "release"} => list'[w] = list[w]
                        /\ pc'[w] = "idle" => pc[w] = "idle"
      BY Zenon
    <2>1. CASE w = a
      <3>1. pc[w] = "walk" /\ pc'[w] = "handle"
        BY <2>1, Zenon
      <3> QED BY <3>1, Zenon
    <2>2. CASE w # a
      <3>1. w \in Actors /\ w \notin Workers
        BY Facts, Zenon
      <3>2. w # b
        BY <2>2, <3>1, Zenon
      <3> QED BY <2>2, <3>1, <3>2, Zenon
    <2> QED BY <2>1, <2>2, Zenon
  <1>7. \A c \in Actors, y \in Hdrs :
          /\ pc'[c] # "follow" /\ list'[c] = y <=>
               (pc[c] # "follow" /\ list[c] = y /\ c # a) \/ (c = b /\ y = z)
          /\ pc'[c] # "interrupt" /\ hdr'[c] = y <=>
               (pc[c] # "interrupt" /\ hdr[c] = y) \/ (c = a /\ y = x)
    <2> SUFFICES ASSUME NEW c \in Actors, NEW y \in Hdrs
                 PROVE  /\ pc'[c] # "follow" /\ list'[c] = y <=>
                             (pc[c] # "follow" /\ list[c] = y /\ c # a) \/ (c = b /\ y = z)
                        /\ pc'[c] # "interrupt" /\ hdr'[c] = y <=>
                             (pc[c] # "interrupt" /\ hdr[c] = y) \/ (c = a /\ y = x)
      BY Zenon
    <2>0. y # NULL
      BY Facts, Zenon
    <2>1. CASE c = a
      <3>1. /\ pc[c] = "walk" /\ pc'[c] = "handle" /\ hdr[c] = NULL /\ hdr'[c] = x
            /\ c = b => list'[c] = z
            /\ c # b => list'[c] = NULL
        BY <1>1, <1>a, <2>1, Zenon
      <3> QED BY <2>0, <2>1, <3>1, Zenon
    <2>2. CASE c # a /\ c = b
      <3>1. /\ pc[c] = "idle" /\ pc'[c] = "walk" /\ list[c] = NULL /\ list'[c] = z
            /\ hdr[c] = NULL /\ hdr'[c] = NULL
        BY <1>1, <1>a, <2>2, Zenon
      <3> QED BY <2>0, <2>2, <3>1, Zenon
    <2>3. CASE c # a /\ c # b
      <3>1. pc'[c] = pc[c] /\ list'[c] = list[c] /\ hdr'[c] = hdr[c]
        BY <1>1, <2>3, Zenon
      <3> QED BY <2>3, <3>1, Zenon
    <2> QED BY <2>1, <2>2, <2>3, Zenon
  <1>8. LinkInv'
    <2> SUFFICES ASSUME NEW y \in Hdrs PROVE LinkOK(y)'
      BY Zenon DEF LinkInv
    <2>0. LinkOK(y)
      BY <1>t, Zenon DEF LinkInv
    <2>1. CASE y # x /\ y # z
      <3>1. ASSUME NEW k \in Kinds, NEW i \in Cells PROVE Leads(k, i, y)' <=> Leads(k, i, y)
        <4>1. i \in Hdrs => (OnSome(i)' /\ next[i] = y <=> OnSome(i) /\ next[i] = y)
          BY <1>5, <2>1, Zenon
        <4> QED BY <1>6, <1>7, <2>1, <4>1, Facts, SMTT(30), Z3 DEF Leads
      <3> QED BY <1>3, <2>0, <3>1, LinkSame, Zenon
    <2>2. CASE y = x
      <3>1. ASSUME NEW k \in Kinds, NEW i \in Cells PROVE Leads(k, i, y)' <=> k = "hdr" /\ i = a
        BY <1>4, <1>5, <1>6, <1>7, <2>2, Facts, SMTT(30), Z3 DEF Leads
      <3>2. Alive(y)' /\ a \in Cells
        BY <1>3, <2>2, Facts, Zenon
      <3> QED BY <3>1, <3>2, SoleNow, KindFacts, SMTT(30), Z3
    <2>3. CASE y = z
      <3>1. Leads("next", x, y)
        BY <1>5, <2>3, Zenon DEF Leads
      <3>2. /\ Alive(y) /\ \A u \in Queues : head[u] # y
            /\ \A c \in Actors : pc[c] # "follow" => list[c] # y
            /\ \A w \in Hdrs : OnSome(w) /\ next[w] = y => w = x
            /\ \A w \in VPs : pc[w] = "follow" => next[list[w]] # y
            /\ \A c \in Actors : pc[c] # "interrupt" => hdr[c] # y
        BY <1>t, <3>1, LinkLeads, Zenon
      <3>3. ASSUME NEW k \in Kinds, NEW i \in Cells PROVE Leads(k, i, y)' <=> k = "list" /\ i = b
        BY <1>5, <1>6, <1>7, <2>3, <3>2, Facts, SMTT(30), Z3 DEF Leads
      <3>4. Alive(y)' /\ b \in Cells
        BY <1>3, <3>2, Facts, Zenon
      <3> QED BY <3>3, <3>4, SoleNow, KindFacts, Zenon
    <2> QED BY <2>1, <2>2, <2>3, Zenon
  <1>9. LabelInv'
    <2>0. \A y, w : Replied(y, w)' <=> Replied(y, w)
      BY Zenon DEF Replied
    <2>1. ASSUME NEW w \in VPs, NEW y \in Hdrs
          PROVE  /\ head'[<<w, "send">>] = y => y \in owed'
                 /\ head'[<<w, "reply">>] = y => Replied(y, w)'
                 /\ pc'[w] = "release" /\ list'[w] = y => Replied(y, w)'
      <3>1. /\ head[<<w, "send">>] = y => y \in owed
            /\ head[<<w, "reply">>] = y => Replied(y, w)
            /\ pc[w] = "release" /\ list[w] = y => Replied(y, w)
        BY <1>t, Zenon DEF LabelInv
      <3>2. pc'[w] = "release" => pc[w] = "release" /\ list'[w] = list[w]
        BY <1>6, Zenon
      <3> QED BY <2>0, <3>1, <3>2, Zenon
    <2>2. ASSUME NEW w \in VPs, NEW y \in Hdrs, pc'[w] = "follow", list'[w] = y
          PROVE  /\ y \in Clients /\ Home[y] = w /\ ~Alive(y)'
                 /\ \A u \in Hdrs : next'[y] = u => Replied(u, w)'
      <3>0. pc[w] = "follow" /\ list[w] = y
        BY <1>6, <2>2, Zenon
      <3>1. /\ y \in Clients /\ Home[y] = w /\ ~Alive(y)
            /\ \A u \in Hdrs : next[y] = u => Replied(u, w)
        BY <1>t, <3>0, Zenon DEF LabelInv
      <3> QED BY <1>3, <2>0, <3>1, Zenon
    <2>z. z \in Hdrs => z \in owed
      BY <1>3, <1>5, <1>t, Zenon DEF LabelInv
    <2>3. ASSUME NEW c \in Actors, NEW y \in Hdrs, list'[c] = y, pc'[c] \notin {"release", "follow"}
          PROVE  y \in owed'
      <3>1. CASE c = b
        BY <2>3, <2>z, <3>1, Zenon
      <3>2. CASE c # b
        <4>1. c # a
          BY <2>3, <3>2, Facts, Zenon
        <4> QED BY <1>t, <2>3, <3>2, <4>1, Zenon DEF LabelInv
      <3> QED BY <3>1, <3>2, Zenon
    <2>4. ASSUME NEW y \in Hdrs, NEW u \in Hdrs, OnSome(y)', next'[y] = u
          PROVE  /\ y \in owed' => u \in owed'
                 /\ y \notin owed' => Replied(u, Home[y])'
      <3>1. OnSome(y) /\ next[y] = u
        BY <1>5, <2>4, Zenon
      <3>2. /\ y \in owed => u \in owed
            /\ y \notin owed => Replied(u, Home[y])
        BY <1>t, <3>1, Zenon DEF LabelInv
      <3> QED BY <2>0, <3>2, Zenon
    <2> QED BY <2>1, <2>2, <2>3, <2>4, Zenon DEF LabelInv
  <1>10. ClientInv'
    <2> SUFFICES ASSUME NEW d \in Clients PROVE ClientOK(d)'
      BY Zenon DEF ClientInv
    <2>1. ClientOK(d) /\ d \in Hdrs /\ d \in Actors /\ pc'[d] = pc[d] /\ hdr'[d] = hdr[d]
      BY <1>t, <1>1, <1>a, Facts, Zenon DEF ClientInv
    <2> QED BY <1>3, <2>1, SMTT(30), Z3 DEF ClientOK
  <1>11. HandInv'
    <2>1. ASSUME NEW c \in Actors PROVE HandOK(c)'
      <3>1. HandOK(c)
        BY <1>t, Zenon DEF HandInv
      <3> QED BY <1>1, <1>3, <3>1, SMTT(30), Z3 DEF HandOK
    <2> QED BY <1>t, <2>1, Zenon DEF HandInv
  <1>12. PcInv'
    <2>1. ASSUME NEW c \in Actors PROVE PcOK(c)'
      <3>1. PcOK(c)
        BY <1>t, Zenon DEF PcInv
      <3>2. CASE c = a
        <4>1. pc'[c] = "handle" /\ hdr'[c] # NULL /\ c \notin Clients
          BY <1>1, <1>a, <3>2, Facts, Zenon
        <4> QED BY <4>1, Zenon DEF PcOK
      <3>3. CASE c # a /\ c = b
        <4>1. pc'[c] = "walk" /\ hdr'[c] = NULL /\ c \notin Clients /\ list'[c] # NULL
          BY <1>1, <1>a, <3>3, Zenon
        <4> QED BY <4>1, Zenon DEF PcOK
      <3>4. CASE c # a /\ c # b
        BY <1>1, <3>1, <3>4, Zenon DEF PcOK
      <3> QED BY <3>2, <3>3, <3>4, Zenon
    <2> QED BY <2>1, Zenon DEF PcInv
  <1>13. AnnounceInv'
    <2>1. \A c \in Actors : pc[c] = "interrupt" => pc'[c] = "interrupt" /\ dest'[c] = dest[c]
      BY Zenon
    <2> QED BY <1>6, <1>t, <2>1, AnnounceKept, Zenon
  <1> QED BY <1>2, <1>8, <1>9, <1>10, <1>11, <1>12, <1>13, Zenon DEF IInv

LEMMA WalkInv == ASSUME IInv, NEW a \in Actors, Walk(a) PROVE IInv'
  <1>t. TypeOK /\ PcInv
    BY Zenon DEF IInv
  <1>a. PcOK(a) /\ pc[a] = "walk"
    BY <1>t, Zenon DEF PcInv, Walk
  <1>p. PICK x \in Hdrs, z \in Hdrs \cup {NULL} : list[a] = x /\ next[x] = z
    BY <1>t, <1>a, Zenon DEF PcOK, TypeOK
  <1>0. /\ hdr' = [hdr EXCEPT ![a] = x]
        /\ UNCHANGED <<enabled, manager, head, next, busy, sender, intr, todo, old, dest, owed>>
    BY <1>p, Zenon DEF Walk
  <1>1. CASE list' = [list EXCEPT ![a] = z] /\ pc' = [pc EXCEPT ![a] = "handle"]
    <2>1. list' \in [Actors -> Hdrs \cup {NULL}] /\ pc' \in [Actors -> Labels]
      BY <1>1, <1>t, Zenon DEF TypeOK, Labels
    <2>2. /\ list'[a] = z /\ pc'[a] = "handle"
          /\ \A c \in Actors : c # a => list'[c] = list[c] /\ pc'[c] = pc[c]
      BY <1>1, <1>t, Zenon DEF TypeOK
    <2> QED BY <1>0, <1>a, <1>p, <2>1, <2>2, WalkStep, Zenon
  <1>2. ASSUME z # NULL, NEW w \in NewWorker(Home[a]),
               list' = [list EXCEPT ![a] = NULL, ![w] = z],
               pc' = [pc EXCEPT ![a] = "handle", ![w] = "walk"]
        PROVE  IInv'
    <2>1. w \in Workers /\ pc[w] = "idle"
      BY Zenon DEF NewWorker
    <2>2. w \in Actors /\ w # a
      BY <1>a, <2>1, Facts, Zenon
    <2>3. list' \in [Actors -> Hdrs \cup {NULL}] /\ pc' \in [Actors -> Labels]
      BY <1>2, <1>t, Zenon DEF TypeOK, Labels
    <2>4. /\ list'[w] = z /\ list'[a] = NULL /\ pc'[a] = "handle" /\ pc'[w] = "walk"
          /\ \A c \in Actors : c # a /\ c # w => list'[c] = list[c] /\ pc'[c] = pc[c]
      BY <1>2, <1>t, <2>2, Zenon DEF TypeOK
    <2>5. /\ w # a => w \in Workers /\ pc[w] = "idle" /\ z # NULL
          /\ w # a => list'[a] = NULL
          /\ w # a => pc'[w] = "walk"
      BY <1>2, <2>1, <2>4, Zenon
    <2> QED BY <1>0, <1>a, <1>p, <2>2, <2>3, <2>4, <2>5, WalkStep, Zenon
  <1> QED BY <1>1, <1>2, <1>p, Zenon DEF Walk, Goto

(* The handler of x is called: x was in hand, and on no list. *)
LEMMA HandledLabels ==
  ASSUME IInv, NEW a \in Actors, NEW x \in Hdrs, Leads("hdr", a, x),
         UNCHANGED <<head, next, list>>, owed' = owed \ {x},
         \A y \in Hdrs : /\ OnSome(y)' <=> OnSome(y)
                         /\ Alive(y)' => Alive(y),
         \A b \in Actors : /\ pc'[b] = "follow" <=> pc[b] = "follow"
                           /\ pc'[b] = "release" <=> pc[b] = "release"
  PROVE  LabelInv'
  <1>t. LinkInv /\ LabelInv
    BY Zenon DEF IInv
  <1>0. \A y, w : Replied(y, w) => Replied(y, w)'
    BY Zenon DEF Replied
  <1>x. /\ \A q \in Queues : head[q] # x
        /\ \A b \in Actors : pc[b] # "follow" => list[b] # x
        /\ \A y \in Hdrs : OnSome(y) => next[y] # x
        /\ ~OnSome(x)
    <2>1. Held(x)
      BY Zenon DEF Held, Leads
    <2>2. ~OnSome(x)
      BY <2>1, Zenon DEF OnSome
    <2> QED BY <1>t, <2>2, HandLeads, Zenon
  <1>1. ASSUME NEW w \in VPs, NEW y \in Hdrs
        PROVE  /\ head'[<<w, "send">>] = y => y \in owed'
               /\ head'[<<w, "reply">>] = y => Replied(y, w)'
               /\ pc'[w] = "release" /\ list'[w] = y => Replied(y, w)'
    <2>1. /\ head[<<w, "send">>] = y => y \in owed /\ y # x
          /\ head[<<w, "reply">>] = y => Replied(y, w)
          /\ pc[w] = "release" /\ list[w] = y => Replied(y, w)
      BY <1>t, <1>x, QueueFacts, Zenon DEF LabelInv
    <2>2. pc'[w] = "release" => pc[w] = "release"
      BY Facts, Zenon
    <2> QED BY <1>0, <2>1, <2>2, Zenon
  <1>2. ASSUME NEW w \in VPs, NEW y \in Hdrs, pc'[w] = "follow", list'[w] = y
        PROVE  /\ y \in Clients /\ Home[y] = w /\ ~Alive(y)'
               /\ \A u \in Hdrs : next'[y] = u => Replied(u, w)'
    <2>0. pc[w] = "follow" /\ list[w] = y
      BY <1>2, Facts, Zenon
    <2>1. /\ y \in Clients /\ Home[y] = w /\ ~Alive(y)
          /\ \A u \in Hdrs : next[y] = u => Replied(u, w)
      BY <1>t, <2>0, Zenon DEF LabelInv
    <2> QED BY <1>0, <2>1, Zenon
  <1>3. ASSUME NEW c \in Actors, NEW y \in Hdrs, list'[c] = y, pc'[c] \notin {"release", "follow"}
        PROVE  y \in owed'
    <2>1. pc[c] # "release" /\ pc[c] # "follow" /\ list[c] = y
      BY <1>3, Zenon
    <2> QED BY <1>t, <1>x, <2>1, Zenon DEF LabelInv
  <1>4. ASSUME NEW y \in Hdrs, NEW u \in Hdrs, OnSome(y)', next'[y] = u
        PROVE  /\ y \in owed' => u \in owed'
               /\ y \notin owed' => Replied(u, Home[y])'
    <2>1. OnSome(y) /\ next[y] = u /\ y # x /\ u # x
      BY <1>4, <1>x, Zenon
    <2>2. /\ y \in owed => u \in owed
          /\ y \notin owed => Replied(u, Home[y])
      BY <1>t, <2>1, Zenon DEF LabelInv
    <2> QED BY <1>0, <2>1, <2>2, Zenon
  <1> QED BY <1>1, <1>2, <1>3, <1>4, Zenon DEF LabelInv

LEMMA HandleInv == ASSUME IInv, NEW a \in Actors, Handle(a) PROVE IInv'
  <1>t. TypeOK /\ PcInv /\ LinkInv /\ LabelInv /\ ClientInv /\ HandInv /\ AnnounceInv
    BY Zenon DEF IInv
  <1>a. PcOK(a) /\ HandOK(a) /\ pc[a] = "handle" /\ a \notin Clients
    BY <1>t, Zenon DEF PcInv, PcOK, HandInv, Handle
  <1>p. PICK x \in Hdrs : hdr[a] = x /\ x \in owed
    BY <1>a, <1>t, Zenon DEF HandOK, TypeOK
  <1>0. /\ owed' = owed \ {x}
        /\ UNCHANGED <<enabled, manager, head, next, sender, intr, todo, list, old>>
    BY <1>p, Zenon DEF Handle
  <1>1. Leads("hdr", a, x)
    BY <1>a, <1>p, Zenon DEF Leads
  <1>2. /\ Alive(x) /\ \A u \in Queues : head[u] # x
        /\ \A c \in Actors : pc[c] # "follow" => list[c] # x
        /\ \A w \in Hdrs : OnSome(w) => next[w] # x
        /\ \A w \in VPs : pc[w] = "follow" => next[list[w]] # x
        /\ \A c \in Actors : pc[c] # "interrupt" /\ hdr[c] = x => c = a
    BY <1>t, <1>1, HandLeads, Zenon
  <1>3. Held(x) /\ ~OnSome(x)
    BY <1>a, <1>p, Zenon DEF Held, OnSome
  <1>4. CASE x \in Holders
    <2>0. /\ busy' = [busy EXCEPT ![x] = FALSE] /\ pc' = [pc EXCEPT ![a] = AfterPush(a)]
          /\ hdr' = [hdr EXCEPT ![a] = NULL] /\ dest' = [dest EXCEPT ![a] = NULL]
      BY <1>p, <1>4, Zenon DEF Handle, Finish, Goto
    <2>1. /\ AfterPush(a) \in {"walk", "idle", "next"}
          /\ AfterPush(a) = "walk" <=> list[a] # NULL
          /\ AfterPush(a) = "next" => a \in VPs
          /\ AfterPush(a) = "idle" => a \in Workers
      BY <1>a, Facts, Zenon DEF AfterPush, Actors
    <2>2. /\ pc'[a] = AfterPush(a) /\ hdr'[a] = NULL
          /\ \A b \in Actors : b # a => pc'[b] = pc[b] /\ hdr'[b] = hdr[b] /\ dest'[b] = dest[b]
      BY <1>t, <2>0, Zenon DEF TypeOK
    <2>3. TypeOK'
      <3>1. AfterPush(a) \in Labels
        BY <2>1, Zenon DEF Labels
      <3>2. owed' \subseteq Hdrs
        BY <1>0, <1>t, Zenon DEF TypeOK
      <3> QED BY <1>0, <1>t, <2>0, <3>1, <3>2, Zenon DEF TypeOK
    <2>4. ~Alive(x)' /\ \A y \in Hdrs : y # x => (Alive(y)' <=> Alive(y))
      BY <1>0, <1>4, Facts, Zenon DEF Alive
    <2>5. /\ ~Held(x)'
          /\ \A c \in Actors, y \in Hdrs : pc'[c] # "interrupt" /\ hdr'[c] = y <=>
               pc[c] # "interrupt" /\ hdr[c] = y /\ y # x
      <3>1. \A c \in Actors, y \in Hdrs : pc'[c] # "interrupt" /\ hdr'[c] = y <=>
               pc[c] # "interrupt" /\ hdr[c] = y /\ y # x
        BY <1>2, <1>a, <1>p, <2>1, <2>2, Facts, SMTT(30), Z3
      <3> QED BY <3>1, Zenon DEF Held
    <2>6. \A y \in Hdrs : OnSome(y)' <=> OnSome(y)
      BY <1>3, <2>4, <2>5, Zenon DEF OnSome, Held
    <2>7. \A b \in Actors : /\ pc'[b] = "follow" <=> pc[b] = "follow"
                            /\ pc'[b] = "release" <=> pc[b] = "release"
      BY <1>a, <2>1, <2>2, Zenon
    <2>8. LinkInv'
      <3> SUFFICES ASSUME NEW y \in Hdrs PROVE LinkOK(y)'
        BY Zenon DEF LinkInv
      <3>0. LinkOK(y)
        BY <1>t, Zenon DEF LinkInv
      <3>1. CASE y = x
        <4>1. ASSUME NEW k \in Kinds, NEW i \in Cells PROVE ~Leads(k, i, y)'
          BY <1>0, <1>2, <2>5, <2>6, <2>7, <3>1, Facts, Zenon DEF Leads
        <4> QED BY <2>4, <3>1, <4>1, Zenon DEF LinkOK
      <3>2. CASE y # x
        <4>1. ASSUME NEW k \in Kinds, NEW i \in Cells PROVE Leads(k, i, y)' <=> Leads(k, i, y)
          BY <1>0, <2>5, <2>6, <2>7, <3>2, Facts, Zenon DEF Leads
        <4> QED BY <2>4, <3>0, <3>2, <4>1, LinkSame, Zenon
      <3> QED BY <3>1, <3>2, Zenon
    <2>9. LabelInv'
      BY <1>0, <1>1, <2>4, <2>6, <2>7, HandledLabels, Zenon
    <2>10. ClientInv'
      <3> SUFFICES ASSUME NEW d \in Clients PROVE ClientOK(d)'
        BY Zenon DEF ClientInv
      <3>1. /\ ClientOK(d) /\ d \in Hdrs /\ d \in Actors /\ d # a /\ d # x
            /\ pc[d] # "interrupt" => hdr[d] # x
        BY <1>t, <1>2, <1>4, <1>a, Facts, Zenon DEF ClientInv
      <3> QED BY <1>0, <2>2, <2>4, <3>1, Zenon DEF ClientOK
    <2>11. HandInv'
      <3>1. ASSUME NEW b \in Actors PROVE HandOK(b)'
        <4>1. HandOK(b)
          BY <1>t, Zenon DEF HandInv
        <4>2. CASE b = a
          BY <2>1, <2>2, <4>2, Zenon DEF HandOK
        <4>3. CASE b # a
          BY <1>0, <1>2, <2>2, <4>1, <4>3, Zenon DEF HandOK
        <4> QED BY <4>2, <4>3, Zenon
      <3>2. \A h \in Holders : busy'[h] <=> h \in owed'
        BY <1>0, <1>4, <1>t, <2>0, Zenon DEF HandInv, TypeOK
      <3> QED BY <3>1, <3>2, Zenon DEF HandInv
    <2>12. PcInv'
      <3>1. ASSUME NEW b \in Actors PROVE PcOK(b)'
        <4>1. PcOK(b)
          BY <1>t, Zenon DEF PcInv
        <4>2. CASE b = a
          BY <1>0, <1>a, <2>1, <2>2, <4>2, Facts, Zenon DEF PcOK
        <4>3. CASE b # a
          BY <1>0, <2>2, <4>1, <4>3, Zenon DEF PcOK
        <4> QED BY <4>2, <4>3, Zenon
      <3> QED BY <3>1, Zenon DEF PcInv
    <2>13. AnnounceInv'
      <3>1. \A w \in VPs : pc'[w] = "idle" => pc[w] = "idle"
        BY <2>1, <2>2, Facts, Zenon
      <3>2. \A c \in Actors : pc[c] = "interrupt" => pc'[c] = "interrupt" /\ dest'[c] = dest[c]
        BY <1>a, <2>2, Zenon
      <3> QED BY <1>0, <1>t, <3>1, <3>2, AnnounceKept, Zenon
    <2> QED BY <2>3, <2>8, <2>9, <2>10, <2>11, <2>12, <2>13, Zenon DEF IInv
  <1>5. CASE x \notin Holders
    <2>c. x \in Clients /\ x \in Actors /\ x # a /\ ClientOK(x)
      BY <1>5, <1>a, <1>t, Facts, Zenon DEF ClientInv
    <2>s. sender[x]
      <3>1. pc[x] # "interrupt" => hdr[x] # x
        BY <1>2, <2>c, Zenon
      <3>2. pc[x] # "lookup"
        <4>1. PcOK(x)
          BY <1>t, <2>c, Zenon DEF PcInv
        <4>2. pc[x] = "lookup" => hdr[x] # NULL
          BY <4>1, Zenon DEF PcOK
        <4> QED BY <1>2, <2>c, <3>1, <4>2, Zenon DEF ClientOK
      <3> QED BY <1>p, <2>c, <3>1, <3>2, Zenon DEF ClientOK
    <2>0. /\ dest' = [dest EXCEPT ![a] = <<Home[x], "reply">>] /\ pc' = [pc EXCEPT ![a] = "push"]
          /\ UNCHANGED <<busy, hdr>>
      BY <1>p, <1>5, Zenon DEF Handle, Goto
    <2>q. Home[x] \in VPs /\ <<Home[x], "reply">> \in Queues
      BY Facts, QueueFacts, Zenon
    <2>2. /\ pc'[a] = "push" /\ dest'[a] = <<Home[x], "reply">>
          /\ \A b \in Actors : b # a => pc'[b] = pc[b] /\ dest'[b] = dest[b]
      BY <1>t, <2>0, Zenon DEF TypeOK
    <2>3. TypeOK'
      <3>1. owed' \subseteq Hdrs
        BY <1>0, <1>t, Zenon DEF TypeOK
      <3> QED BY <1>0, <1>t, <2>0, <2>q, <3>1, Zenon DEF TypeOK, Labels
    <2>4. \A y \in Hdrs : Alive(y)' <=> Alive(y)
      BY <1>0, <2>c, <2>s, Zenon DEF Alive
    <2>5. \A b \in Actors : /\ pc'[b] = "follow" <=> pc[b] = "follow"
                            /\ pc'[b] = "release" <=> pc[b] = "release"
                            /\ pc'[b] # "interrupt" <=> pc[b] # "interrupt"
      BY <1>a, <2>2, Zenon
    <2>6. LinkInv' /\ \A y \in Hdrs : OnSome(y)' <=> OnSome(y)
      BY <1>0, <1>t, <2>0, <2>4, <2>5, Undisturbed, Zenon
    <2>7. LabelInv'
      BY <1>0, <1>1, <2>4, <2>5, <2>6, HandledLabels, Zenon
    <2>8. ClientInv'
      <3> SUFFICES ASSUME NEW d \in Clients PROVE ClientOK(d)'
        BY Zenon DEF ClientInv
      <3>1. /\ ClientOK(d) /\ d \in Hdrs /\ d \in Actors /\ d # a
            /\ pc[d] # "interrupt" => hdr[d] # x
        BY <1>t, <1>2, <1>a, Facts, Zenon DEF ClientInv
      <3> QED BY <1>0, <2>0, <2>2, <2>4, <3>1, Zenon DEF ClientOK
    <2>9. HandInv'
      <3>1. ASSUME NEW b \in Actors PROVE HandOK(b)'
        <4>1. HandOK(b)
          BY <1>t, Zenon DEF HandInv
        <4>2. CASE b = a
          BY <1>0, <1>p, <2>0, <2>2, <2>c, <2>s, <4>2, Zenon DEF HandOK
        <4>3. CASE b # a
          BY <1>0, <1>2, <2>0, <2>2, <4>1, <4>3, Zenon DEF HandOK
        <4> QED BY <4>2, <4>3, Zenon
      <3>2. \A h \in Holders : busy'[h] <=> h \in owed'
        BY <1>0, <1>5, <1>t, <2>0, Zenon DEF HandInv
      <3> QED BY <3>1, <3>2, Zenon DEF HandInv
    <2>10. PcInv'
      <3>1. ASSUME NEW b \in Actors PROVE PcOK(b)'
        <4>1. PcOK(b)
          BY <1>t, Zenon DEF PcInv
        <4>2. CASE b = a
          BY <1>0, <1>a, <2>0, <2>2, <2>q, <4>2, Zenon DEF PcOK
        <4>3. CASE b # a
          BY <1>0, <2>0, <2>2, <4>1, <4>3, Zenon DEF PcOK
        <4> QED BY <4>2, <4>3, Zenon
      <3> QED BY <3>1, Zenon DEF PcInv
    <2>11. AnnounceInv'
      <3>1. \A w \in VPs : pc'[w] = "idle" => pc[w] = "idle"
        BY <2>2, Facts, Zenon
      <3>2. \A c \in Actors : pc[c] = "interrupt" => pc'[c] = "interrupt" /\ dest'[c] = dest[c]
        BY <1>a, <2>2, Zenon
      <3> QED BY <1>0, <1>t, <3>1, <3>2, AnnounceKept, Zenon
    <2> QED BY <2>3, <2>6, <2>7, <2>8, <2>9, <2>10, <2>11, Zenon DEF IInv
  <1> QED BY <1>4, <1>5, Zenon

-----------------------------------------------------------------------------
LEMMA StutterInv == ASSUME IInv, UNCHANGED vars PROVE IInv'
  <1>t. TypeOK /\ PcInv /\ LinkInv /\ LabelInv /\ ClientInv /\ HandInv /\ AnnounceInv
    BY Zenon DEF IInv
  <1>0. UNCHANGED <<enabled, manager, head, next, busy, sender, intr, todo, pc, hdr, list, old,
                    dest, owed>>
    BY Zenon DEF vars
  <1>1. TypeOK'
    BY <1>0, <1>t, Zenon DEF TypeOK
  <1>2. \A y \in Hdrs : Alive(y)' <=> Alive(y)
    BY <1>0, Zenon DEF Alive
  <1>3. LinkInv' /\ \A y \in Hdrs : OnSome(y)' <=> OnSome(y)
    BY <1>0, <1>t, <1>2, Undisturbed, Zenon
  <1>4. LabelInv'
    BY <1>0, <1>t, <1>2, <1>3, LabelsKept, Zenon
  <1>5. ClientInv' /\ HandInv' /\ PcInv'
    BY <1>0, <1>t, Zenon DEF ClientInv, ClientOK, Alive, HandInv, HandOK, PcInv, PcOK
  <1>6. AnnounceInv'
    BY <1>0, <1>t, AnnounceKept, Zenon
  <1> QED BY <1>1, <1>3, <1>4, <1>5, <1>6, Zenon DEF IInv

LEMMA NextInv == IInv /\ [Next]_vars => IInv'
  <1> SUFFICES ASSUME IInv, [Next]_vars PROVE IInv'
    BY Zenon
  <1>1. ASSUME NEW a \in Actors, Push(a) PROVE IInv'
    BY <1>1, PushReadInv, PushCASInv, PushInterruptInv, Zenon DEF Push
  <1>2. ASSUME NEW c \in Clients, Alloc(c) \/ Send(c) PROVE IInv'
    <2>1. c \in Actors
      BY Facts, Zenon
    <2> QED BY <1>1, <1>2, <2>1, AllocInv, LookupInv, SyncReturnInv, Zenon DEF Send
  <1>3. ASSUME NEW v \in VPs, Register(v) \/ Interrupt(v) PROVE IInv'
    BY <1>3, RegisterInv, FetchInterruptsInv, ProcessSendQueueInv, ProcessReplyQueueInv,
       ReplyReleaseInv, ReplyFollowInv, InterruptsDoneInv, Zenon DEF Interrupt
  <1>4. ASSUME NEW a \in Workers \cup VPs, Process(a) PROVE IInv'
    <2>1. a \in Actors
      BY Facts, Zenon
    <2> QED BY <1>1, <1>4, <2>1, WalkInv, HandleInv, Zenon DEF Process
  <1>5. CASE UNCHANGED vars
    BY <1>5, StutterInv, Zenon
  <1> QED BY <1>2, <1>3, <1>4, <1>5, Zenon DEF Next

LEMMA Inductive == Spec => []IInv
  BY InitInv, NextInv, PTL DEF Spec

(* addPendingMsg interrupts the receiver only when it finds the queue      *)
(* empty; still, a queue with messages always has its interrupt pending,   *)
(* fetched or about to be sent, so none waits for a push that never comes. *)
THEOREM QueuesAreAnnounced == Spec => []QueueAnnounced
  <1>1. IInv => QueueAnnounced
    BY Zenon DEF IInv, AnnounceInv
  <1> QED BY <1>1, Inductive, PTL

(* MsgSync::send returns only after the function of its message has been   *)
(* called on the other processor.                                          *)
THEOREM CallsReturnServed == Spec => []ReturnsServed
  <1>1. IInv => ReturnsServed
    <2> SUFFICES ASSUME IInv, NEW c \in Clients, pc[c] = "wait", ~sender[c] PROVE c \notin owed
      BY Zenon DEF ReturnsServed
    <2>1. ClientOK(c)
      BY Zenon DEF IInv, ClientInv
    <2> QED BY <2>1, Zenon DEF ClientOK
  <1> QED BY <1>1, Inductive, PTL

(* MPMsgMgrDisabled.C:26-30, pointer by pointer: one pointer, of a queue,  *)
(* a list, a link or a hand, leads to a message that has yet to be handled *)
(* or answered, and none to one whose memory may be used again.            *)
THEOREM OnePointerEach == Spec => []LinkInv
  <1>1. IInv => LinkInv
    BY Zenon DEF IInv
  <1> QED BY <1>1, Inductive, PTL
=============================================================================
