---------------------------- MODULE TimerProofs -----------------------------
(***************************************************************************)
(* Proofs about the timers: SchedulerTimer of a dispatcher, and            *)
(* KernelTimer of a processor, an instance (Kern) that shares the clock    *)
(* with it.                                                                *)
(***************************************************************************)
EXTENDS SchedulerTimer, WellFoundedInduction, TLAPS

(***************************************************************************)
(* The timer of a dispatcher never wakes a thread early, keeps its         *)
(* settings consistent, leaves no event behind and finds the next event,   *)
(* for any number of events, any width of the buckets and any size of the  *)
(* table.                                                                  *)
(***************************************************************************)

(* Division with remainder, and that it is the only one.                   *)
LEMMA DivMod ==
  ASSUME NEW a \in Nat, NEW b \in Nat \ {0}
  PROVE  a = b * (a \div b) + (a % b) /\ a \div b \in Nat /\ a % b \in 0..(b - 1)
  OBVIOUS

LEMMA Multiples ==
  ASSUME NEW p \in Int, NEW q \in Int, NEW c \in Nat \ {0}, q >= p + 1
  PROVE  c * q >= c * p + c
  OBVIOUS

LEMMA DivUnique ==
  ASSUME NEW a \in Nat, NEW b \in Nat \ {0}, NEW q \in Nat, NEW r \in 0..(b - 1), a = b * q + r
  PROVE  a \div b = q /\ a % b = r
<1> DEFINE p == a \div b
           m == a % b
           x == b * p
           y == b * q
<1>1. a = x + m /\ p \in Nat /\ m \in 0..(b - 1) /\ a = y + r
  BY DivMod, Zenon
<1>2. x \in Int /\ y \in Int
  BY <1>1
<1>3. q >= p + 1 => y >= x + b
  BY <1>1, Multiples
<1>4. p >= q + 1 => x >= y + b
  BY <1>1, Multiples
<1> HIDE DEF p, m, x, y
<1>5. p = q
  BY <1>1, <1>2, <1>3, <1>4
<1>6. x = y
  BY <1>5 DEF x, y
<1>7. m = r
  BY <1>1, <1>2, <1>6
<1> QED
  BY <1>5, <1>7 DEF p, m

LEMMA DivShift ==
  ASSUME NEW a \in Nat, NEW b \in Nat \ {0}, NEW j \in Nat
  PROVE  (a + j * b) \div b = (a \div b) + j /\ (a + j * b) % b = a % b
<1> DEFINE p == a \div b
           m == a % b
<1>1. a = b * p + m /\ p \in Nat /\ m \in 0..(b - 1)
  BY DivMod, Zenon
<1> HIDE DEF p, m
<1>2. b * (p + j) = b * p + j * b
  BY <1>1
<1>3. a + j * b = b * (p + j) + m /\ a + j * b \in Nat /\ p + j \in Nat
  BY <1>1, <1>2
<1>4. (a + j * b) \div b = p + j /\ (a + j * b) % b = m
  BY <1>1, <1>3, DivUnique
<1> QED
  BY <1>4 DEF p, m

(* Among the T numbers that follow x there is one with the remainder of y, *)
(* and it is not beyond y.                                                 *)
LEMMA Congruent ==
  ASSUME NEW x \in Nat, NEW y \in Nat, NEW T \in Nat \ {0}, x < y
  PROVE  \E j \in 1..T : (x + j) % T = y % T /\ x + j <= y
<1> DEFINE d == y - x - 1
           q == d \div T
           r == d % T
<1>1. d \in Nat
  OBVIOUS
<1>2. d = T * q + r /\ q \in Nat /\ r \in 0..(T - 1)
  BY <1>1, DivMod, Zenon
<1>3. y = x + 1 + d
  OBVIOUS
<1> HIDE DEF d, q, r
<1>4. T * q = q * T /\ q * T \in Nat
  BY <1>2
<1>5. y = (x + (r + 1)) + q * T /\ x + (r + 1) \in Nat /\ r + 1 \in 1..T
  BY <1>2, <1>3, <1>4
<1>6. y % T = (x + (r + 1)) % T
  BY <1>2, <1>5, DivShift, Zenon
<1>7. x + (r + 1) <= y
  BY <1>4, <1>5
<1> QED
  BY <1>5, <1>6, <1>7

\* Without y being beyond x, there still is one.
LEMMA SomeCongruent ==
  ASSUME NEW x \in Nat, NEW y \in Nat, NEW T \in Nat \ {0}
  PROVE  \E j \in 1..T : (x + j) % T = y % T
<1> DEFINE n == x + 1
           m == n * T
           z == y + m
<1>1. m \in Nat /\ m >= x + 1 /\ n \in Nat
  OBVIOUS
<1>2. z % T = y % T
  <2> HIDE DEF n
  <2> QED
    BY <1>1, DivShift, ZenonT(40)
<1> HIDE DEF m
<1>3. z \in Nat /\ x < z
  BY <1>1
<1> HIDE DEF z
<1>4. \E j \in 1..T : (x + j) % T = z % T
  BY <1>3, Congruent, ZenonT(40)
<1> QED
  BY <1>2, <1>4

(* Fewer than T steps on the remainder is another one.                     *)
LEMMA Incongruent ==
  ASSUME NEW x \in Nat, NEW T \in Nat \ {0}, NEW k \in 1..(T - 1)
  PROVE  (x + k) % T # x % T
<1> SUFFICES ASSUME (x + k) % T = x % T PROVE FALSE
  OBVIOUS
<1> DEFINE p == x \div T
           q == (x + k) \div T
           m == x % T
           u == T * p
           v == T * q
<1>1. x = u + m /\ p \in Nat /\ m \in 0..(T - 1)
  BY DivMod, Zenon
<1>2. x + k = v + m /\ q \in Nat
  <2> DEFINE z == x + k
  <2>1. z \in Nat
    OBVIOUS
  <2>2. z = T * (z \div T) + (z % T) /\ z \div T \in Nat
    BY <2>1, DivMod, Zenon
  <2> QED
    BY <2>2
<1>3. u \in Int /\ v \in Int
  BY <1>1, <1>2
<1>4. q >= p + 1 => v >= u + T
  BY <1>1, <1>2, Multiples
<1>5. p >= q + 1 => u >= v + T
  BY <1>1, <1>2, Multiples
<1>6. p = q => u = v
  OBVIOUS
<1> HIDE DEF p, q, m, u, v
<1> QED
  BY <1>1, <1>2, <1>3, <1>4, <1>5, <1>6

-----------------------------------------------------------------------------
\* The number of the bucket of t.
bucket(t) == t \div BUCKET_TICKS

LEMMA Constant ==
  /\ BUCKET_TICKS \in Nat \ {0} /\ TABLE_SIZE \in Nat \ {0}
  /\ MaxClock \in Nat /\ MaxDelay \in Nat /\ Never \in Nat
  BY Ticks

(* bucketStart, bucketEnd and timeIndex in terms of the bucket.            *)
LEMMA BucketIs ==
  ASSUME NEW t \in Nat
  PROVE  /\ bucket(t) \in Nat
         /\ bucketStart(t) = BUCKET_TICKS * bucket(t) /\ bucketStart(t) \in Nat
         /\ bucketEnd(t) = bucketStart(t) + BUCKET_TICKS - 1 /\ bucketEnd(t) \in Nat
         /\ bucketStart(t) <= t /\ t <= bucketEnd(t)
         /\ timeIndex(t) = bucket(t) % TABLE_SIZE
<1> DEFINE x == BUCKET_TICKS * bucket(t)
           m == t % BUCKET_TICKS
<1>1. t = x + m /\ bucket(t) \in Nat /\ m \in 0..(BUCKET_TICKS - 1)
  BY Constant, DivMod DEF bucket
<1>2. x \in Nat /\ BUCKET_TICKS \in Nat \ {0}
  BY <1>1, Constant
<1>3. bucketStart(t) = t - m /\ bucketEnd(t) = bucketStart(t) + BUCKET_TICKS - 1
  BY DEF bucketStart, bucketEnd
<1> HIDE DEF x, m
<1>4. bucketStart(t) = x
  BY <1>1, <1>2, <1>3
<1>5. /\ bucketStart(t) = x /\ bucketEnd(t) = x + BUCKET_TICKS - 1
      /\ x <= t /\ t <= x + BUCKET_TICKS - 1 /\ x + BUCKET_TICKS - 1 \in Nat
  BY <1>1, <1>2, <1>3, <1>4
<1> QED
  BY <1>1, <1>2, <1>5 DEF x, timeIndex, bucket

(* The buckets are in the order of the times.                              *)
LEMMA BucketOrder ==
  ASSUME NEW n \in Nat, NEW m \in Nat
  PROVE  /\ n <= m => BUCKET_TICKS * n <= BUCKET_TICKS * m
         /\ n < m => BUCKET_TICKS * n + BUCKET_TICKS <= BUCKET_TICKS * m
         /\ BUCKET_TICKS * n \in Nat
<1>1. BUCKET_TICKS \in Nat \ {0} /\ BUCKET_TICKS * n \in Nat /\ BUCKET_TICKS * m \in Nat
  BY Constant
<1>2. CASE n < m
  <2>1. BUCKET_TICKS * m >= BUCKET_TICKS * n + BUCKET_TICKS
    BY <1>1, <1>2, Multiples
  <2> QED
    BY <1>1, <1>2, <2>1
<1>3. CASE ~(n < m)
  BY <1>1, <1>3
<1> QED
  BY <1>2, <1>3

LEMMA LaterBucket ==
  ASSUME NEW s \in Nat, NEW t \in Nat
  PROVE  /\ s <= t => bucketEnd(s) <= bucketEnd(t)
         /\ t > bucketEnd(s) => bucket(s) < bucket(t)
<1> DEFINE u == BUCKET_TICKS * bucket(s)
           v == BUCKET_TICKS * bucket(t)
<1>1. /\ bucket(s) \in Nat /\ bucket(t) \in Nat /\ u \in Nat /\ v \in Nat /\ BUCKET_TICKS \in Nat
      /\ u <= s /\ bucketEnd(s) = u + BUCKET_TICKS - 1 /\ s <= bucketEnd(s)
      /\ v <= t /\ bucketEnd(t) = v + BUCKET_TICKS - 1 /\ t <= bucketEnd(t)
  BY BucketIs, Constant, BucketOrder, SMTT(30), Z3
<1>2. bucket(s) <= bucket(t) => u <= v
  BY <1>1, BucketOrder
<1>3. bucket(t) <= bucket(s) => v <= u
  BY <1>1, BucketOrder
<1>4. bucket(t) < bucket(s) => v + BUCKET_TICKS <= u
  BY <1>1, BucketOrder
<1> HIDE DEF u, v
<1> QED
  BY <1>1, <1>2, <1>3, <1>4

(* The start of a bucket is its own start.                                 *)
LEMMA BucketStartIs ==
  ASSUME NEW n \in Nat
  PROVE  /\ BUCKET_TICKS * n \in Nat
         /\ bucket(BUCKET_TICKS * n) = n
         /\ bucketStart(BUCKET_TICKS * n) = BUCKET_TICKS * n
         /\ timeIndex(BUCKET_TICKS * n) = n % TABLE_SIZE
<1>1. BUCKET_TICKS * n \in Nat /\ BUCKET_TICKS \in Nat \ {0} /\ 0 \in 0..(BUCKET_TICKS - 1)
  BY Constant
<1>2. BUCKET_TICKS * n = BUCKET_TICKS * n + 0
  BY <1>1
<1>3. bucket(BUCKET_TICKS * n) = n
  BY <1>1, <1>2, DivUnique DEF bucket
<1> QED
  BY <1>1, <1>3, BucketIs

LEMMA BucketAhead ==
  ASSUME NEW t \in Nat, NEW j \in Nat
  PROVE  /\ t + j * BUCKET_TICKS \in Nat
         /\ bucket(t + j * BUCKET_TICKS) = bucket(t) + j
         /\ bucketStart(t + j * BUCKET_TICKS) = BUCKET_TICKS * (bucket(t) + j)
         /\ timeIndex(t + j * BUCKET_TICKS) = (bucket(t) + j) % TABLE_SIZE
<1>1. t + j * BUCKET_TICKS \in Nat
  BY Constant
<1>2. bucket(t + j * BUCKET_TICKS) = bucket(t) + j
  BY Constant, DivShift, Zenon DEF bucket
<1> QED
  BY <1>1, <1>2, BucketIs

-----------------------------------------------------------------------------
(* What the search for the next bucket finds.                              *)
LEMMA FirstIs ==
  ASSUME NEW S \in SUBSET Nat, S # {}
  PROVE  First(S) \in S /\ \A y \in S : First(S) <= y
<1>1. \E x \in S : \A y \in S : ~(<<y, x>> \in OpToRel(<, Nat))
  BY WFMin, NatLessThanWellFounded, Zenon
<1>2. PICK x \in S : \A y \in S : ~(<<y, x>> \in OpToRel(<, Nat))
  BY <1>1, Zenon
<1>3. \A y \in S : ~(y < x)
  BY <1>2, Zenon DEF OpToRel
<1>4. \A y \in S : x <= y
  BY <1>3
<1> QED
  BY <1>4, Zenon DEF First

(* Ahead is the next k buckets, where the last one has the index asked     *)
(* for; there is one within the table.                                     *)
LEMMA AheadIs ==
  ASSUME NEW t \in Nat, NEW last \in 0..(TABLE_SIZE - 1)
  PROVE  \E k \in 1..TABLE_SIZE :
           /\ Ahead(t, last) = {BUCKET_TICKS * (bucket(t) + j) : j \in 1..k}
           /\ (bucket(t) + k) % TABLE_SIZE = last
<1> DEFINE P(j) == timeIndex(t + j * BUCKET_TICKS) = last
           k == CHOOSE j \in 1..TABLE_SIZE : P(j)
<1>1. bucket(t) \in Nat /\ TABLE_SIZE \in Nat \ {0}
  BY BucketIs, Constant
<1>2. \E j \in 1..TABLE_SIZE : P(j)
  <2> DEFINE y == last + (bucket(t) + 1) * TABLE_SIZE
  <2>1. last \in Nat /\ bucket(t) + 1 \in Nat
    BY <1>1
  <2>2. y % TABLE_SIZE = last % TABLE_SIZE
    BY <1>1, <2>1, DivShift, Zenon
  <2>3. last % TABLE_SIZE = last
    <3>1. last = TABLE_SIZE * 0 + last
      BY <1>1, <2>1
    <3> QED
      BY <1>1, <2>1, <3>1, DivUnique
  <2>4. y \in Nat /\ bucket(t) < y
    <3>1. TABLE_SIZE * (bucket(t) + 1) >= TABLE_SIZE * bucket(t) + TABLE_SIZE
      BY <1>1, Multiples
    <3>2. (bucket(t) + 1) * TABLE_SIZE >= bucket(t) + 1
      BY <1>1
    <3>3. (bucket(t) + 1) * TABLE_SIZE \in Nat
      BY <1>1
    <3> QED
      BY <1>1, <2>1, <3>2, <3>3
  <2> HIDE DEF y
  <2>5. PICK j \in 1..TABLE_SIZE : (bucket(t) + j) % TABLE_SIZE = y % TABLE_SIZE
    BY <1>1, <2>4, Congruent, ZenonT(40)
  <2>6. P(j)
    <3>1. j \in Nat
      BY <1>1
    <3> QED
      BY <2>2, <2>3, <2>5, <3>1, BucketAhead
  <2> QED
    BY <2>6
<1>3. k \in 1..TABLE_SIZE /\ P(k)
  BY <1>2
<1>4. Ahead(t, last) = {bucketStart(t + j * BUCKET_TICKS) : j \in 1..k}
  BY DEF Ahead
<1> HIDE DEF k
<1>5. \A j \in 1..k : j \in Nat
  BY <1>1, <1>3
<1>6. \A j \in 1..k : bucketStart(t + j * BUCKET_TICKS) = BUCKET_TICKS * (bucket(t) + j)
  BY <1>5, BucketAhead
<1>7. Ahead(t, last) = {BUCKET_TICKS * (bucket(t) + j) : j \in 1..k}
  BY <1>4, <1>6
<1>8. (bucket(t) + k) % TABLE_SIZE = last
  <2>1. k \in Nat
    BY <1>1, <1>3
  <2> QED
    BY <1>3, <2>1, BucketAhead
<1> QED
  BY <1>3, <1>7, <1>8

\* The starts of the k buckets after bucket x.
Buckets(x, k) == {BUCKET_TICKS * (x + j) : j \in 1..k}

LEMMA BucketsAre ==
  ASSUME NEW x \in Nat, NEW k \in Nat \ {0}
  PROVE  /\ Buckets(x, k) \subseteq Nat
         /\ \A s \in Buckets(x, k) : s = bucketStart(s) /\ s <= BUCKET_TICKS * (x + k)
         /\ Last(Buckets(x, k)) = BUCKET_TICKS * (x + k)
<1>1. ASSUME NEW s \in Buckets(x, k)
      PROVE  s \in Nat /\ s = bucketStart(s) /\ s <= BUCKET_TICKS * (x + k)
  <2>1. PICK j \in 1..k : s = BUCKET_TICKS * (x + j)
    BY DEF Buckets
  <2>2. x + j \in Nat /\ x + k \in Nat /\ x + j <= x + k
    OBVIOUS
  <2> QED
    BY <2>1, <2>2, BucketStartIs, BucketOrder
<1>2. BUCKET_TICKS * (x + k) \in Buckets(x, k) /\ BUCKET_TICKS * (x + k) \in Nat
  BY Constant DEF Buckets
<1>3. Last(Buckets(x, k)) \in Buckets(x, k) /\ \A y \in Buckets(x, k) : Last(Buckets(x, k)) >= y
  <2>1. \E m \in Buckets(x, k) : \A y \in Buckets(x, k) : m >= y
    BY <1>1, <1>2
  <2> QED
    BY <2>1 DEF Last
<1>4. Last(Buckets(x, k)) = BUCKET_TICKS * (x + k)
  BY <1>1, <1>2, <1>3
<1> QED
  BY <1>1, <1>4

LEMMA IndexType ==
  ASSUME NEW t \in Nat
  PROVE  timeIndex(t) \in 0..(TABLE_SIZE - 1)
<1>1. timeIndex(t) = bucket(t) % TABLE_SIZE /\ bucket(t) \in Nat /\ TABLE_SIZE \in Nat \ {0}
  BY BucketIs, Constant
<1> QED
  BY <1>1, DivMod

LEMMA AheadBuckets ==
  ASSUME NEW t \in Nat, NEW last \in 0..(TABLE_SIZE - 1)
  PROVE  \E k \in 1..TABLE_SIZE :
           k \in Nat \ {0} /\ Ahead(t, last) = Buckets(bucket(t), k) /\ (bucket(t) + k) % TABLE_SIZE = last
<1>1. PICK k \in 1..TABLE_SIZE : /\ Ahead(t, last) = {BUCKET_TICKS * (bucket(t) + j) : j \in 1..k}
                                 /\ (bucket(t) + k) % TABLE_SIZE = last
  BY AheadIs
<1>2. k \in Nat \ {0}
  BY Constant
<1> QED
  BY <1>1, <1>2 DEF Buckets

(* disabledScheduleEvent, kind reset, turns the timer off or sets it for   *)
(* the start of a bucket.                                                  *)
LEMMA BucketAfterIs ==
  ASSUME NEW e, ewhen[e] \in Nat
  PROVE  BucketAfter(e) \in Nat /\ (BucketAfter(e) = Never \/ BucketAfter(e) = bucketStart(BucketAfter(e)))
<1> DEFINE slots == Ahead(ewhen[e], timeIndex(ewhen[e]))
           full == {s \in slots \ {Last(slots)} : Slot(timeIndex(s)) # {}}
<1>1. PICK k \in 1..TABLE_SIZE : k \in Nat \ {0} /\ slots = Buckets(bucket(ewhen[e]), k)
  <2>1. timeIndex(ewhen[e]) \in 0..(TABLE_SIZE - 1)
    BY IndexType
  <2> QED
    BY <2>1, AheadBuckets
<1>2. slots \subseteq Nat /\ \A s \in slots : s = bucketStart(s)
  <2>1. bucket(ewhen[e]) \in Nat
    BY BucketIs
  <2> QED
    BY <1>1, <2>1, BucketsAre
<1>3. BucketAfter(e) = IF full = {} THEN Never ELSE First(full)
  BY DEF BucketAfter
<1>4. full \subseteq slots
  OBVIOUS
<1> HIDE DEF full, slots
<1>5. CASE full = {}
  BY <1>3, <1>5, Constant
<1>6. CASE full # {}
  <2>1. First(full) \in full
    BY <1>2, <1>4, <1>6, FirstIs
  <2> QED
    BY <1>2, <1>3, <1>4, <1>6, <2>1, Zenon
<1> QED
  BY <1>5, <1>6

(* So does timerInterrupt; with an event in the table it is a bucket to    *)
(* come, and no later than the next one that has the slot of the event.    *)
LEMMA NextBucketIs ==
  ASSUME NEW S, now \in Nat, old \in Nat, \A e \in S : ewhen[e] \in Nat
  PROVE  /\ NextBucket(S) \in Nat
         /\ NextBucket(S) = Never \/ NextBucket(S) = bucketStart(NextBucket(S))
         /\ \A e \in S : \A j \in 1..TABLE_SIZE :
              (bucket(now) + j) % TABLE_SIZE = timeIndex(ewhen[e])
                => NextBucket(S) > now /\ NextBucket(S) <= BUCKET_TICKS * (bucket(now) + j)
<1> DEFINE slots == Ahead(now, timeIndex(old))
           full == {s \in slots : \E e \in S : timeIndex(ewhen[e]) = timeIndex(s)}
           next == IF full # {} THEN First(full) ELSE Last(slots)
           x == bucket(now)
<1>1. PICK k \in 1..TABLE_SIZE : k \in Nat \ {0} /\ slots = Buckets(x, k)
  <2>1. timeIndex(old) \in 0..(TABLE_SIZE - 1)
    BY IndexType
  <2> QED
    BY <2>1, AheadBuckets
<1>2. x \in Nat /\ timeIndex(now) = x % TABLE_SIZE
  BY BucketIs
<1>3. NextBucket(S) = IF timeIndex(now) = timeIndex(next) /\ full = {} THEN Never ELSE next
  BY DEF NextBucket
<1>4. \A s \in Buckets(x, k) : s > now
  <2> SUFFICES ASSUME NEW j \in 1..k PROVE BUCKET_TICKS * (x + j) > now
    BY DEF Buckets
  <2>1. x + j \in Nat /\ x < x + j
    BY <1>1, <1>2
  <2>2. BUCKET_TICKS * x + BUCKET_TICKS <= BUCKET_TICKS * (x + j) /\ BUCKET_TICKS * (x + j) \in Nat
    BY <1>2, <2>1, BucketOrder, Zenon
  <2>3. now <= BUCKET_TICKS * x + BUCKET_TICKS - 1 /\ BUCKET_TICKS * x \in Nat
    BY BucketIs, Zenon
  <2> HIDE DEF x
  <2> QED
    BY <2>2, <2>3, Constant
<1> HIDE DEF slots, x
<1>5. /\ slots \subseteq Nat /\ \A s \in slots : s = bucketStart(s) /\ s <= BUCKET_TICKS * (x + k)
      /\ Last(slots) = BUCKET_TICKS * (x + k)
  BY <1>1, <1>2, BucketsAre, Zenon
<1>6. x + k \in Nat
  BY <1>1, <1>2
<1>7. full \subseteq slots
  OBVIOUS
<1>8. /\ next \in Nat /\ next = bucketStart(next) /\ next <= BUCKET_TICKS * (x + k)
      /\ next \in slots
  <2>1. CASE full # {}
    <3>1. First(full) \in full
      BY <1>5, <1>7, <2>1, FirstIs, Zenon
    <3> QED
      BY <1>5, <1>7, <2>1, <3>1, Zenon
  <2>2. CASE full = {}
    <3>1. Last(slots) \in slots
      BY <1>1, <1>5 DEF Buckets
    <3> QED
      BY <1>5, <2>2, <3>1, Zenon
  <2> QED
    BY <2>1, <2>2
<1>9. ASSUME NEW e \in S, NEW j \in 1..TABLE_SIZE, (x + j) % TABLE_SIZE = timeIndex(ewhen[e])
      PROVE  NextBucket(S) = next /\ next <= BUCKET_TICKS * (x + j)
  <2>1. x + j \in Nat /\ j \in Nat /\ j >= 1 /\ j <= TABLE_SIZE /\ k <= TABLE_SIZE /\ TABLE_SIZE \in Nat \ {0}
    BY <1>2, Constant
  <2>2. CASE j <= k
    <3>1. BUCKET_TICKS * (x + j) \in slots
      BY <1>1, <2>1, <2>2 DEF Buckets
    <3>2. timeIndex(BUCKET_TICKS * (x + j)) = timeIndex(ewhen[e])
      BY <1>9, <2>1, BucketStartIs
    <3>3. BUCKET_TICKS * (x + j) \in full
      BY <3>1, <3>2
    <3>4. NextBucket(S) = First(full) /\ First(full) <= BUCKET_TICKS * (x + j)
      BY <1>3, <1>5, <1>7, <3>3, FirstIs, Zenon
    <3> QED
      BY <3>3, <3>4
  <2>3. CASE ~(j <= k)
    <3>1. ~(timeIndex(now) = timeIndex(next) /\ full = {})
      <4> SUFFICES ASSUME timeIndex(now) = timeIndex(next), full = {} PROVE FALSE
        OBVIOUS
      <4>1. timeIndex(next) = (x + k) % TABLE_SIZE
        BY <1>5, <1>6, BucketStartIs
      <4>2. k \in 1..(TABLE_SIZE - 1)
        BY <1>1, <2>1, <2>3
      <4> QED
        BY <1>2, <2>1, <4>1, <4>2, Incongruent, Zenon
    <3>2. NextBucket(S) = next
      BY <1>3, <3>1
    <3>3. BUCKET_TICKS * (x + k) <= BUCKET_TICKS * (x + j) /\ BUCKET_TICKS * (x + k) \in Nat
          /\ BUCKET_TICKS * (x + j) \in Nat
      <4>1. x + k <= x + j
        BY <1>1, <1>2, <2>1, <2>3
      <4> QED
        BY <1>6, <2>1, <4>1, BucketOrder
    <3> HIDE DEF next, full
    <3> QED
      BY <1>8, <3>2, <3>3
  <2> QED
    BY <2>2, <2>3
<1> HIDE DEF next, full
<1>10. NextBucket(S) = Never \/ NextBucket(S) = next
  BY <1>3
<1>11. next > now
  BY <1>1, <1>8, <1>4, Zenon
<1>12. NextBucket(S) \in Nat /\ (NextBucket(S) = Never \/ NextBucket(S) = bucketStart(NextBucket(S)))
  BY <1>8, <1>10, Constant
<1>13. \A e \in S : \A j \in 1..TABLE_SIZE :
         (x + j) % TABLE_SIZE = timeIndex(ewhen[e])
           => NextBucket(S) > now /\ NextBucket(S) <= BUCKET_TICKS * (x + j)
  BY <1>9, <1>11, Zenon
<1> QED
  BY <1>12, <1>13, Zenon DEF x

-----------------------------------------------------------------------------
\* The numbers of the state.
LEMMA Numbers ==
  ASSUME TypeOK
  PROVE  /\ clock \in Nat /\ now \in Nat /\ when \in Nat /\ old \in Nat
         /\ \A e \in Events : ewhen[e] \in Nat
  BY Constant DEF TypeOK

\* Events is the domain of ewhen, waiter and th; the lists are of events.
LEMMA Lists ==
  ASSUME TypeOK
  PROVE  /\ imm \subseteq Events /\ table \subseteq Events /\ run \subseteq Events
         /\ imm \cap table = {} /\ run \cap (imm \cup table) = {}
         /\ anchor # None => anchor \in imm
  BY DEF TypeOK

LEMMA InitInv == Init => IInv
<1> SUFFICES ASSUME Init PROVE IInv
  OBVIOUS
<1>1. TypeOK
  <2>1. 0 \in 0..MaxClock /\ 0 \in 0..MaxClock + MaxDelay /\ Never \in Nat
    BY Constant
  <2> QED
    BY <2>1, Zenon DEF Init, TypeOK
<1>2. NotEarly /\ EventOnLiveStack
  BY DEF Init, NotEarly, EventOnLiveStack, Pending
<1> QED
  BY <1>1, <1>2 DEF Init, IInv

(* Steps that leave the timer and its events alone.                        *)
LEMMA FrameInv ==
  ASSUME IInv, UNCHANGED <<when, anchor, imm, table, ewhen, run, old, th, waiter>>,
         clock' \in 0..MaxClock, now' \in 0..MaxClock, req' \in Nat, intr' \in BOOLEAN,
         clock <= clock', now <= now', now' <= clock',
         \/ at' = at /\ now' = now
         \/ at \in {"request", "enable"} /\ at' \in {"enable", "idle"}
         \/ at \in {"adjust", "rearm"} /\ at' = "loop"
  PROVE  IInv'
<1>1. /\ clock \in Nat /\ now \in Nat /\ when \in Nat /\ old \in Nat
      /\ clock' \in Nat /\ now' \in Nat /\ \A e \in Events : ewhen[e] \in Nat
  BY Numbers, Constant DEF IInv
<1>2. TypeOK'
  BY DEF IInv, TypeOK
<1>3. NotEarly'
  BY <1>1 DEF IInv, NotEarly
<1>4. EventOnLiveStack'
  BY DEF IInv, EventOnLiveStack, Pending
<1>5. \A e \in imm' : ewhen'[e] <= bucketEnd(now')
  <2> SUFFICES ASSUME NEW e \in imm PROVE ewhen[e] <= bucketEnd(now')
    OBVIOUS
  <2>1. ewhen[e] \in Nat /\ ewhen[e] <= bucketEnd(now)
    BY <1>1, Lists DEF IInv
  <2>2. bucketEnd(now) <= bucketEnd(now') /\ bucketEnd(now) \in Nat /\ bucketEnd(now') \in Nat
    BY <1>1, LaterBucket, BucketIs, Zenon
  <2> QED
    BY <2>1, <2>2
<1>6. /\ (imm # {} => anchor \in Earliest(imm))'
      /\ (IF anchor # None THEN when = ewhen[anchor] ELSE when = Never \/ when = bucketStart(when))'
  BY DEF IInv, Earliest
<1>7. /\ (run # {} => at \in {"loop", "adjust"})'
      /\ (at = "loop" /\ now > when => old <= now)'
      /\ (at = "adjust" => old <= now)'
      /\ (at = "rearm" => old = when)'
  BY <1>1 DEF IInv
<1> QED
  BY <1>2, <1>3, <1>4, <1>5, <1>6, <1>7 DEF IInv

\* What is to be shown about the events when the timer itself stands still.
LEMMA ImmInBucket ==
  ASSUME IInv, NEW n \in Nat, now <= n
  PROVE  bucketEnd(n) \in Nat /\ \A e \in imm : ewhen[e] <= bucketEnd(n)
<1>1. bucketEnd(now) <= bucketEnd(n) /\ bucketEnd(now) \in Nat /\ bucketEnd(n) \in Nat
  BY Numbers, LaterBucket, BucketIs DEF IInv
<1>2. \A e \in imm : ewhen[e] \in Nat /\ ewhen[e] <= bucketEnd(now)
  BY Numbers, Lists DEF IInv
<1> QED
  BY <1>1, <1>2

(* An event that is due goes off at once.                                  *)
LEMMA FireNowInv ==
  ASSUME IInv, at = "idle", NEW e \in Events, th[e] = "out",
         th' = [th EXCEPT ![e] = "in"], FireNow(e), UNCHANGED <<clock, req, intr, run, old>>
  PROVE  IInv'
<1>1. /\ clock \in Nat /\ now \in Nat /\ clock \in 0..MaxClock /\ clock \in 0..MaxClock + MaxDelay
      /\ now <= clock /\ \A d \in Events : ewhen[d] \in Nat
  BY Numbers, Constant DEF IInv, TypeOK
<1>2. /\ e \notin imm /\ e \notin table /\ run = {}
      /\ imm \subseteq Events /\ table \subseteq Events
  BY Lists DEF IInv, EventOnLiveStack, Pending
<1>3. /\ now' = clock /\ UNCHANGED <<when, anchor, imm, table, clock, run, old>> /\ at' = "enable"
      /\ ewhen' = [ewhen EXCEPT ![e] = clock] /\ waiter' = [waiter EXCEPT ![e] = FALSE]
  BY DEF FireNow
<1>4. TypeOK'
  BY <1>1, <1>3, Zenon DEF IInv, TypeOK
<1>5. \A d \in Events : /\ ewhen'[d] = IF d = e THEN clock ELSE ewhen[d]
                        /\ waiter'[d] = IF d = e THEN FALSE ELSE waiter[d]
                        /\ th'[d] = IF d = e THEN "in" ELSE th[d]
  BY <1>3 DEF IInv, TypeOK
<1>6. NotEarly'
  <2>1. clock <= clock
    BY <1>1
  <2> QED
    BY <1>2, <1>3, <1>5, <2>1, Zenon DEF IInv, NotEarly
<1>7. EventOnLiveStack'
  BY <1>2, <1>3, <1>5, ZenonT(40) DEF IInv, EventOnLiveStack, Pending
<1>8. \A d \in imm : ewhen'[d] = ewhen[d]
  BY <1>2, <1>5, Zenon
<1>9. (\A d \in imm : ewhen[d] <= bucketEnd(now))'
  BY <1>1, <1>3, <1>8, ImmInBucket
<1>10. (imm # {} => anchor \in Earliest(imm))'
  BY <1>3, <1>8 DEF IInv, Earliest
<1>11. (IF anchor # None THEN when = ewhen[anchor] ELSE when = Never \/ when = bucketStart(when))'
  BY <1>3, <1>8, Lists DEF IInv
<1> QED
  BY <1>1, <1>2, <1>3, <1>4, <1>6, <1>7, <1>9, <1>10, <1>11 DEF IInv

(* An event for the immediate list becomes the anchor if it is the         *)
(* earliest; an event for the table is later than the whole immediate      *)
(* list, so that the timer is set for it only when that is empty.          *)
LEMMA InsertInv ==
  ASSUME IInv, at = "idle", NEW e \in Events, th[e] = "out",
         NEW w \in 0..MaxClock + MaxDelay, NEW n \in 0..MaxClock, now <= n, n <= clock,
         th' = [th EXCEPT ![e] = "in"], Insert(e, w, n), UNCHANGED <<clock, req, intr, run, old>>
  PROVE  IInv'
<1>1. /\ clock \in Nat /\ now \in Nat /\ when \in Nat /\ w \in Nat /\ n \in Nat
      /\ \A d \in Events : ewhen[d] \in Nat
  BY Numbers, Constant DEF IInv
<1>2. /\ e \notin imm /\ e \notin table /\ run = {}
      /\ imm \subseteq Events /\ table \subseteq Events /\ imm \cap table = {}
      /\ anchor # None => anchor \in imm
  BY Lists DEF IInv, EventOnLiveStack, Pending
<1>3. /\ now' = n /\ UNCHANGED <<clock, req, intr, run, old>> /\ at' \in {"request", "enable"}
      /\ ewhen' = [ewhen EXCEPT ![e] = w] /\ waiter' = [waiter EXCEPT ![e] = TRUE]
  BY DEF Insert
<1>4. \A d \in Events : /\ ewhen'[d] = IF d = e THEN w ELSE ewhen[d]
                        /\ waiter'[d] = IF d = e THEN TRUE ELSE waiter[d]
                        /\ th'[d] = IF d = e THEN "in" ELSE th[d]
  BY <1>3 DEF IInv, TypeOK
<1>5. \A d \in imm : ewhen'[d] = ewhen[d] /\ d # e /\ d \in Events /\ ewhen[d] \in Nat
  BY <1>1, <1>2, <1>4, Zenon
<1>6. bucketEnd(n) \in Nat /\ \A d \in imm : ewhen[d] <= bucketEnd(n)
  BY <1>1, ImmInBucket
<1>7. imm # {} => anchor \in imm /\ when = ewhen[anchor] /\ \A d \in imm : when <= ewhen[d]
  BY NoneIsNoEvent, <1>2 DEF IInv, Earliest
<1>8. imm = {} => anchor = None
  BY <1>2
<1>9. NotEarly'
  BY <1>2, <1>3, <1>4, ZenonT(40) DEF IInv, NotEarly
<1>10. CASE w <= bucketEnd(n)
  <2>1. /\ imm' = imm \cup {e} /\ table' = table
        /\ anchor' = IF Sooner(w) THEN e ELSE anchor
        /\ when' = IF Sooner(w) THEN w ELSE when
    BY <1>10 DEF Insert
  <2>2. when' \in Nat /\ anchor' \in imm'
    BY <1>1, <1>2, <2>1 DEF Sooner
  <2>3. TypeOK'
    <3>1. {req, when, old}' \subseteq Nat
      BY <1>3, <2>2 DEF IInv, TypeOK
    <3>2. ewhen' \in [Events -> 0..MaxClock + MaxDelay] /\ th' \in [Events -> {"out", "in", "reset"}]
          /\ waiter' \in [Events -> BOOLEAN]
      BY <1>3 DEF IInv, TypeOK
    <3>3. (imm \cap table = {} /\ run \cap (imm \cup table) = {} /\ imm \subseteq Events /\ table \subseteq Events)'
      BY <1>2, <1>3, <2>1
    <3> QED
      BY <1>2, <1>3, <2>2, <3>1, <3>2, <3>3, Zenon DEF IInv, TypeOK
  <2>4. EventOnLiveStack'
    <3> SUFFICES ASSUME NEW d \in Events
                 PROVE  (th'[d] # "out" /\ waiter'[d]) <=> d \in imm' \cup table' \cup run'
      BY DEF EventOnLiveStack, Pending
    <3>1. CASE d = e
      <4>1. th'[d] = "in" /\ waiter'[d]
        BY <1>4, <3>1, Zenon
      <4>2. d \in imm' \cup table' \cup run'
        BY <2>1, <3>1
      <4>3. th'[d] # "out"
        BY <4>1
      <4> QED
        BY <4>1, <4>2, <4>3, Zenon
    <3>2. CASE d # e
      <4>1. th'[d] = th[d] /\ waiter'[d] = waiter[d]
        BY <1>4, <3>2, Zenon
      <4>2. d \in imm' \cup table' \cup run' <=> d \in imm \cup table \cup run
        BY <1>3, <2>1, <3>2
      <4> QED
        BY <4>1, <4>2, Zenon DEF IInv, EventOnLiveStack, Pending
    <3> QED
      BY <3>1, <3>2
  <2>5. ewhen'[e] = w
    BY <1>4, Zenon
  <2>6. \A d \in imm' : ewhen'[d] <= bucketEnd(n)
    BY <1>5, <1>6, <1>10, <2>1, <2>5
  <2>7. when' = ewhen'[anchor'] /\ \A d \in imm' : ewhen'[anchor'] <= ewhen'[d]
    <3>1. CASE imm = {}
      BY <1>1, <1>8, <2>1, <2>5, <3>1 DEF Sooner
    <3>2. CASE imm # {} /\ ewhen[anchor] > w
      BY <1>1, <1>5, <1>7, <2>1, <2>5, <3>2 DEF Sooner
    <3>3. CASE imm # {} /\ ~(ewhen[anchor] > w)
      <4>1. ~Sooner(w)
        BY <1>2, <1>7, <3>3, NoneIsNoEvent DEF Sooner
      <4> QED
        BY <1>1, <1>5, <1>7, <2>1, <2>5, <3>3, <4>1
    <3> QED
      BY <3>1, <3>2, <3>3
  <2>8. anchor' # None
    BY <1>2, <2>1, <2>2, NoneIsNoEvent
  <2>9. anchor' \in Earliest(imm)'
    BY <2>2, <2>7 DEF Earliest
  <2> QED
    BY <1>2, <1>3, <1>9, <2>3, <2>4, <2>6, <2>7, <2>8, <2>9 DEF IInv
<1>11. CASE ~(w <= bucketEnd(n))
  <2>1. /\ table' = table \cup {e} /\ imm' = imm
        /\ anchor' = IF w < when THEN None ELSE anchor
        /\ when' = IF w < when THEN bucketStart(w) ELSE when
    BY <1>11 DEF Insert
  <2>2. w < when => imm = {}
    BY <1>1, <1>5, <1>6, <1>7, <1>11
  <2>3. when' \in Nat /\ anchor' \in imm' \cup {None}
    BY <1>1, <1>2, <2>1, BucketIs
  <2>4. TypeOK'
    <3>1. {req, when, old}' \subseteq Nat
      BY <1>3, <2>3 DEF IInv, TypeOK
    <3>2. ewhen' \in [Events -> 0..MaxClock + MaxDelay] /\ th' \in [Events -> {"out", "in", "reset"}]
          /\ waiter' \in [Events -> BOOLEAN]
      BY <1>3 DEF IInv, TypeOK
    <3>3. (imm \cap table = {} /\ run \cap (imm \cup table) = {} /\ imm \subseteq Events /\ table \subseteq Events)'
      BY <1>2, <1>3, <2>1
    <3> QED
      BY <1>2, <1>3, <2>3, <3>1, <3>2, <3>3, Zenon DEF IInv, TypeOK
  <2>5. EventOnLiveStack'
    <3> SUFFICES ASSUME NEW d \in Events
                 PROVE  (th'[d] # "out" /\ waiter'[d]) <=> d \in imm' \cup table' \cup run'
      BY DEF EventOnLiveStack, Pending
    <3>1. CASE d = e
      <4>1. th'[d] = "in" /\ waiter'[d]
        BY <1>4, <3>1, Zenon
      <4>2. d \in imm' \cup table' \cup run'
        BY <2>1, <3>1
      <4>3. th'[d] # "out"
        BY <4>1
      <4> QED
        BY <4>1, <4>2, <4>3, Zenon
    <3>2. CASE d # e
      <4>1. th'[d] = th[d] /\ waiter'[d] = waiter[d]
        BY <1>4, <3>2, Zenon
      <4>2. d \in imm' \cup table' \cup run' <=> d \in imm \cup table \cup run
        BY <1>3, <2>1, <3>2
      <4> QED
        BY <4>1, <4>2, Zenon DEF IInv, EventOnLiveStack, Pending
    <3> QED
      BY <3>1, <3>2
  <2>6. \A d \in imm' : ewhen'[d] <= bucketEnd(n)
    BY <1>5, <1>6, <2>1
  <2>7. (imm # {} => anchor \in Earliest(imm))'
    BY <1>5, <2>1, <2>2 DEF IInv, Earliest
  <2>8. (IF anchor # None THEN when = ewhen[anchor] ELSE when = Never \/ when = bucketStart(when))'
    <3>1. bucketStart(w) = bucketStart(bucketStart(w))
      BY <1>1, BucketIs, BucketStartIs
    <3> QED
      BY <1>2, <1>5, <2>1, <3>1 DEF IInv
  <2> QED
    BY <1>2, <1>3, <1>9, <2>4, <2>5, <2>6, <2>7, <2>8 DEF IInv
<1> QED
  BY <1>10, <1>11

(* The thread finds that the timer has gone off and its event ends, or     *)
(* goes on to cancel it.                                                   *)
LEMMA CheckInv ==
  ASSUME IInv, NEW e \in Events, Check(e)
  PROVE  IInv'
<1>1. /\ th[e] = "in" /\ at = "idle"
      /\ th' = [th EXCEPT ![e] = IF waiter[e] THEN "reset" ELSE "out"]
      /\ ewhen' = [ewhen EXCEPT ![e] = IF waiter[e] THEN @ ELSE 0]
      /\ UNCHANGED <<clock, req, intr, now, when, anchor, imm, table, run, old, at, waiter>>
  BY DEF Check
<1>2. CASE waiter[e]
  <2>1. ewhen' = ewhen
    BY <1>1, <1>2 DEF IInv, TypeOK
  <2>2. \A d \in Events : th'[d] # "out" <=> th[d] # "out"
    BY <1>1, <1>2 DEF IInv, TypeOK
  <2>3. TypeOK'
    BY <1>1, <2>1 DEF IInv, TypeOK
  <2>4. NotEarly' /\ EventOnLiveStack'
    BY <1>1, <2>1, <2>2, Zenon DEF IInv, NotEarly, EventOnLiveStack, Pending
  <2> QED
    BY <1>1, <2>1, <2>3, <2>4 DEF IInv, Earliest
<1>3. CASE ~waiter[e]
  <2>1. \A d \in Events : /\ th'[d] = IF d = e THEN "out" ELSE th[d]
                          /\ ewhen'[d] = IF d = e THEN 0 ELSE ewhen[d]
    BY <1>1, <1>3 DEF IInv, TypeOK
  <2>2. e \notin imm /\ e \notin table /\ e \notin run
    BY <1>3, Zenon DEF IInv, EventOnLiveStack, Pending
  <2>3. 0 \in 0..MaxClock + MaxDelay
    BY Constant
  <2>4. TypeOK'
    BY <1>1, <1>3, <2>3, Zenon DEF IInv, TypeOK
  <2>5. NotEarly'
    BY <1>1, <2>1, <2>2, Zenon DEF IInv, NotEarly
  <2>6. EventOnLiveStack'
    BY <1>1, <2>1, <2>2, Zenon DEF IInv, EventOnLiveStack, Pending
  <2>7. \A d \in imm : ewhen'[d] = ewhen[d]
    BY <2>1, <2>2, Lists DEF IInv
  <2>8. (imm # {} => anchor \in Earliest(imm))' /\ (\A d \in imm : ewhen[d] <= bucketEnd(now))'
    BY <1>1, <2>7 DEF IInv, Earliest
  <2>9. (IF anchor # None THEN when = ewhen[anchor] ELSE when = Never \/ when = bucketStart(when))'
    BY <1>1, <2>7, Lists DEF IInv
  <2> QED
    BY <1>1, <2>4, <2>5, <2>6, <2>8, <2>9 DEF IInv
<1> QED
  BY <1>2, <1>3

(* When the anchor is cancelled, the earliest of the rest of the immediate *)
(* list takes its place.                                                   *)
LEMMA ResetInv ==
  ASSUME IInv, NEW e \in Events, Reset(e)
  PROVE  IInv'
<1> DEFINE rest == imm \ {e}
<1>1. /\ at = "idle" /\ th[e] = "reset" /\ th' = [th EXCEPT ![e] = "out"]
      /\ waiter' = [waiter EXCEPT ![e] = FALSE] /\ ewhen' = [ewhen EXCEPT ![e] = 0]
      /\ imm' = rest /\ table' = table \ {e} /\ at' \in {"request", "enable"}
      /\ UNCHANGED <<clock, req, intr, now, run, old>>
  BY DEF Reset
<1>2. \/ e = anchor /\ rest = {} /\ anchor' = None /\ when' = BucketAfter(e)
      \/ e = anchor /\ \E a \in Earliest(rest) : anchor' = a /\ when' = ewhen[a]
      \/ e # anchor /\ anchor' = anchor /\ (when' = when \/ (anchor = None /\ when' = BucketAfter(e)))
  BY DEF Reset
<1>3. \A d \in Events : /\ th'[d] = IF d = e THEN "out" ELSE th[d]
                        /\ waiter'[d] = IF d = e THEN FALSE ELSE waiter[d]
                        /\ ewhen'[d] = IF d = e THEN 0 ELSE ewhen[d]
  BY <1>1 DEF IInv, TypeOK
<1>4. /\ run = {} /\ imm \subseteq Events /\ table \subseteq Events /\ imm \cap table = {}
      /\ anchor # None => anchor \in imm
  BY <1>1, Lists DEF IInv
<1>5. /\ BucketAfter(e) \in Nat
      /\ BucketAfter(e) = Never \/ BucketAfter(e) = bucketStart(BucketAfter(e))
  BY Numbers, BucketAfterIs DEF IInv
<1>6. \A d \in rest : d \in imm /\ d \in Events /\ ewhen'[d] = ewhen[d] /\ ewhen[d] \in Nat
  BY <1>3, <1>4, Numbers, Zenon DEF IInv
<1>7. when \in Nat /\ when' \in Nat /\ anchor' \in rest \cup {None}
  BY <1>2, <1>4, <1>5, <1>6, Numbers DEF IInv, Earliest
<1>8. TypeOK'
  <2>1. {req, when, old}' \subseteq Nat
    BY <1>1, <1>7 DEF IInv, TypeOK
  <2>2. 0 \in 0..MaxClock + MaxDelay
    BY Constant
  <2>3. ewhen' \in [Events -> 0..MaxClock + MaxDelay] /\ th' \in [Events -> {"out", "in", "reset"}]
        /\ waiter' \in [Events -> BOOLEAN]
    BY <1>1, <2>2 DEF IInv, TypeOK
  <2>4. (imm \cap table = {} /\ run \cap (imm \cup table) = {} /\ imm \subseteq Events /\ table \subseteq Events)'
    BY <1>1, <1>4
  <2> QED
    BY <1>1, <1>4, <1>7, <2>1, <2>3, <2>4, Zenon DEF IInv, TypeOK
<1>9. NotEarly'
  BY <1>1, <1>3, <1>4, Zenon DEF IInv, NotEarly
<1>10. EventOnLiveStack'
  <2> SUFFICES ASSUME NEW d \in Events
               PROVE  (th'[d] # "out" /\ waiter'[d]) <=> d \in imm' \cup table' \cup run'
    BY DEF EventOnLiveStack, Pending
  <2>1. CASE d = e
    BY <1>1, <1>3, <1>4, <2>1, Zenon
  <2>2. CASE d # e
    <3>1. th'[d] = th[d] /\ waiter'[d] = waiter[d]
      BY <1>3, <2>2, Zenon
    <3>2. d \in imm' \cup table' \cup run' <=> d \in imm \cup table \cup run
      BY <1>1, <2>2
    <3> QED
      BY <3>1, <3>2, Zenon DEF IInv, EventOnLiveStack, Pending
  <2> QED
    BY <2>1, <2>2
<1>11. (\A d \in imm : ewhen[d] <= bucketEnd(now))'
  BY <1>1, <1>6 DEF IInv
<1>12. (imm # {} => anchor \in Earliest(imm))'
  <2> SUFFICES ASSUME rest # {} PROVE anchor' \in rest /\ \A d \in rest : ewhen'[anchor'] <= ewhen'[d]
    BY <1>1 DEF Earliest
  <2>1. CASE e = anchor
    <3>1. anchor' \in Earliest(rest)
      BY <1>2, <2>1
    <3> QED
      BY <1>6, <3>1 DEF Earliest
  <2>2. CASE e # anchor
    <3>1. anchor' = anchor /\ anchor \in Earliest(imm)
      BY <1>2, <2>2 DEF IInv
    <3> QED
      BY <1>6, <2>2, <3>1 DEF Earliest
  <2> QED
    BY <2>1, <2>2
<1>13. (IF anchor # None THEN when = ewhen[anchor] ELSE when = Never \/ when = bucketStart(when))'
  <2>1. CASE e = anchor
    <3>1. \A a \in Earliest(rest) : a \in rest /\ a # None
      BY <1>6, NoneIsNoEvent DEF Earliest
    <3> QED
      BY <1>2, <1>5, <1>6, <2>1, <3>1, SMTT(30), Z3
  <2>2. CASE e # anchor /\ anchor # None
    <3>1. anchor' = anchor /\ when' = when /\ anchor \in rest
      BY <1>2, <1>4, <2>2
    <3> QED
      BY <1>6, <2>2, <3>1 DEF IInv
  <2>3. CASE anchor = None
    <3>1. anchor' = None /\ (when' = when \/ when' = BucketAfter(e))
      BY <1>2, <2>3, NoneIsNoEvent
    <3> QED
      BY <1>5, <2>3, <3>1 DEF IInv
  <2> QED
    BY <2>1, <2>2, <2>3
<1> QED
  BY <1>1, <1>4, <1>8, <1>9, <1>10, <1>11, <1>12, <1>13 DEF IInv

LEMMA InterruptInv ==
  ASSUME IInv, TimerInterrupt
  PROVE  IInv'
<1>1. /\ at \in {"idle", "enable"} /\ intr' = FALSE /\ now' = clock /\ old' = when
      /\ at' = IF clock < when THEN "rearm" ELSE "loop"
      /\ UNCHANGED <<clock, req, when, anchor, imm, table, ewhen, run, th, waiter>>
  BY DEF TimerInterrupt
<1>2. clock \in Nat /\ now \in Nat /\ when \in Nat /\ now <= clock
  BY Numbers DEF IInv
<1>3. TypeOK'
  BY <1>1, Zenon DEF IInv, TypeOK
<1>4. NotEarly' /\ EventOnLiveStack'
  BY <1>1, Zenon DEF IInv, NotEarly, EventOnLiveStack, Pending
<1>5. (\A e \in imm : ewhen[e] <= bucketEnd(now))'
  BY <1>1, <1>2, ImmInBucket
<1>6. /\ (imm # {} => anchor \in Earliest(imm))'
      /\ (IF anchor # None THEN when = ewhen[anchor] ELSE when = Never \/ when = bucketStart(when))'
      /\ run = {}
  BY <1>1 DEF IInv, Earliest
<1>7. /\ (at = "loop" /\ now > when => old <= now)'
      /\ (at = "rearm" => old = when)' /\ at' # "adjust"
  BY <1>1, <1>2
<1> QED
  BY <1>1, <1>2, <1>3, <1>4, <1>5, <1>6, <1>7 DEF IInv

\* The immediate list and the table once timerInterrupt has gone through
\* the slots.
Soon == (imm \ Due) \cup {e \in Swept \ Due : ewhen[e] <= bucketEnd(now)}
Left == table \ (Due \cup Soon)

(* The events that timerInterrupt runs are due: the anchor, because the    *)
(* timer was set for it, and the others, because it looks.                 *)
LEMMA DueIsDue ==
  ASSUME IInv, at = "loop", now > when, NEW e \in Due
  PROVE  ewhen[e] <= clock
<1>1. clock \in Nat /\ now \in Nat /\ when \in Nat /\ now <= clock /\ ewhen[e] \in Nat
  BY Numbers, Lists DEF IInv, Due, Swept
<1>2. CASE e = anchor /\ e \in imm
  BY <1>1, <1>2, Lists, NoneIsNoEvent DEF IInv
<1>3. CASE ewhen[e] <= now
  BY <1>1, <1>3, SMTT(30), Z3
<1> QED
  BY <1>2, <1>3 DEF Due

(* No event is lost between the lists, none is on two.                     *)
LEMMA Sorted ==
  ASSUME IInv
  PROVE  /\ Due \subseteq imm \cup table /\ Soon \subseteq imm \cup table /\ Left \subseteq table
         /\ Due \cup Soon \cup Left = imm \cup table
         /\ Due \cap Soon = {} /\ Due \cap Left = {} /\ Soon \cap Left = {}
  BY DEF Due, Soon, Left, Swept

LEMMA LoopInv ==
  ASSUME IInv, Loop
  PROVE  IInv'
<1>1. /\ at = "loop" /\ now > when /\ run' = run \cup Due /\ imm' = Soon /\ table' = Left
      /\ at' \in {"adjust", "loop"}
      /\ UNCHANGED <<clock, req, intr, now, ewhen, old, th, waiter>>
      /\ \/ Soon = {} /\ anchor' = None /\ when' = NextBucket(Left)
         \/ \E a \in Earliest(Soon) : anchor' = a /\ when' = ewhen[a]
  BY DEF Loop, Soon, Left
<1>2. /\ clock \in Nat /\ now \in Nat /\ when \in Nat /\ old \in Nat /\ old <= now
      /\ \A e \in Events : ewhen[e] \in Nat
  BY <1>1, Numbers DEF IInv
<1>3. /\ imm \subseteq Events /\ table \subseteq Events /\ run \subseteq Events
      /\ run \cap (imm \cup table) = {}
  BY Lists DEF IInv
<1>4. /\ Due \subseteq imm \cup table /\ Soon \subseteq imm \cup table /\ Left \subseteq table
      /\ Due \cup Soon \cup Left = imm \cup table
      /\ Due \cap Soon = {} /\ Due \cap Left = {} /\ Soon \cap Left = {}
  BY Sorted
<1>5. /\ NextBucket(Left) \in Nat
      /\ NextBucket(Left) = Never \/ NextBucket(Left) = bucketStart(NextBucket(Left))
  <2>1. \A e \in Left : ewhen[e] \in Nat
    BY <1>2, <1>3, <1>4
  <2> QED
    BY <1>2, <2>1, NextBucketIs
<1>6. \A a \in Earliest(Soon) : a \in Soon /\ a \in Events /\ a # None /\ ewhen[a] \in Nat
  BY <1>2, <1>3, <1>4, NoneIsNoEvent DEF Earliest
<1>7. when' \in Nat /\ anchor' \in Soon \cup {None}
  BY <1>1, <1>5, <1>6
<1>8. TypeOK'
  <2>1. {req, when, old}' \subseteq Nat
    BY <1>1, <1>7 DEF IInv, TypeOK
  <2>2. (/\ imm \cap table = {} /\ run \cap (imm \cup table) = {}
         /\ imm \subseteq Events /\ table \subseteq Events /\ run \subseteq Events)'
    BY <1>1, <1>3, <1>4
  <2> QED
    BY <1>1, <1>7, <2>1, <2>2, Zenon DEF IInv, TypeOK
<1>9. NotEarly'
  BY <1>1, DueIsDue, Zenon DEF IInv, NotEarly
<1>10. EventOnLiveStack'
  <2>1. imm' \cup table' \cup run' = imm \cup table \cup run
    BY <1>1, <1>4
  <2> QED
    BY <1>1, <2>1, Zenon DEF IInv, EventOnLiveStack, Pending
<1>11. (\A e \in imm : ewhen[e] <= bucketEnd(now))'
  BY <1>1 DEF IInv, Soon
<1>12. (imm # {} => anchor \in Earliest(imm))'
  BY <1>1 DEF Earliest
<1>13. (IF anchor # None THEN when = ewhen[anchor] ELSE when = Never \/ when = bucketStart(when))'
  BY <1>1, <1>5, <1>6
<1> QED
  BY <1>1, <1>2, <1>8, <1>9, <1>10, <1>11, <1>12, <1>13 DEF IInv

LEMMA RunExpiredInv ==
  ASSUME IInv, RunExpired
  PROVE  IInv'
<1>1. /\ waiter' = [e \in Events |-> waiter[e] /\ e \notin run] /\ run' = {} /\ at' = "enable"
      /\ UNCHANGED <<clock, req, intr, now, when, anchor, imm, table, ewhen, old, th>>
  BY DEF RunExpired
<1>2. run \subseteq Events /\ run \cap (imm \cup table) = {}
  BY Lists DEF IInv
<1>3. TypeOK'
  <2>1. waiter' \in [Events -> BOOLEAN]
    BY <1>1 DEF IInv, TypeOK
  <2> QED
    BY <1>1, <2>1 DEF IInv, TypeOK
<1>4. \A e \in Events : waiter'[e] <=> (waiter[e] /\ e \notin run)
  BY <1>1, Zenon
<1>5. NotEarly'
  BY <1>1, <1>4, Zenon DEF IInv, NotEarly
<1>6. EventOnLiveStack'
  <2> SUFFICES ASSUME NEW d \in Events
               PROVE  (th'[d] # "out" /\ waiter'[d]) <=> d \in imm' \cup table' \cup run'
    BY DEF EventOnLiveStack, Pending
  <2>1. d \in imm' \cup table' \cup run' <=> (d \in imm \cup table \cup run /\ d \notin run)
    BY <1>1, <1>2
  <2> QED
    BY <1>1, <1>4, <2>1, Zenon DEF IInv, EventOnLiveStack, Pending
<1>7. /\ (imm # {} => anchor \in Earliest(imm))' /\ (\A e \in imm : ewhen[e] <= bucketEnd(now))'
      /\ (IF anchor # None THEN when = ewhen[anchor] ELSE when = Never \/ when = bucketStart(when))'
  BY <1>1 DEF IInv, Earliest
<1> QED
  BY <1>1, <1>3, <1>5, <1>6, <1>7 DEF IInv

-----------------------------------------------------------------------------
LEMMA Inductive == IInv /\ [Next]_vars => IInv'
<1> SUFFICES ASSUME IInv, [Next]_vars PROVE IInv'
  OBVIOUS
<1>1. /\ clock \in Nat /\ now \in Nat /\ when \in Nat /\ now <= clock /\ clock \in 0..MaxClock /\ now \in 0..MaxClock
      /\ req \in Nat /\ intr \in BOOLEAN /\ MaxClock \in Nat /\ MaxDelay \in Nat /\ Never \in Nat
  BY Numbers, Constant DEF IInv, TypeOK
<1>2. CASE Tick
  <2>1. clock' = clock + 1 /\ clock' \in 0..MaxClock /\ UNCHANGED <<req, intr, timerVars, at, th, waiter>>
    BY <1>1, <1>2 DEF Tick
  <2> QED
    BY <1>1, <2>1, FrameInv DEF timerVars
<1>3. CASE TimerPop
  BY <1>1, <1>3, FrameInv DEF TimerPop, Pop, timerVars
<1>4. CASE Detach
  BY <1>1, <1>4, FrameInv DEF Detach, GiveUp, timerVars
<1>5. CASE Request
  BY <1>1, <1>5, FrameInv DEF Request, TimerRequest
<1>6. CASE Enable
  BY <1>1, <1>6, FrameInv DEF Enable, timerVars
<1>7. CASE Adjust
  BY <1>1, <1>7, FrameInv DEF Adjust, TimerRequest
<1>8. CASE UNCHANGED vars
  BY <1>1, <1>8, FrameInv DEF vars, timerVars
<1>9. ASSUME NEW e \in Events, NEW d \in 0..MaxDelay, ScheduleRelative(e, d) PROVE IInv'
  <2>1. CASE d = 0
    BY <1>9, <2>1, FireNowInv, Zenon DEF ScheduleRelative
  <2>2. CASE d # 0
    <3>1. clock + d \in 0..MaxClock + MaxDelay /\ clock <= clock
      BY <1>1
    <3> QED
      BY <1>1, <1>9, <2>2, <3>1, InsertInv, Zenon DEF ScheduleRelative
  <2> QED
    BY <2>1, <2>2
<1>10. ASSUME NEW e \in Events, NEW d \in 0..MaxDelay, ScheduleAbsolute(e, clock + d) PROVE IInv'
  <2>1. CASE clock + d <= now
    BY <1>10, <2>1, FireNowInv, Zenon DEF ScheduleAbsolute
  <2>2. CASE ~(clock + d <= now)
    <3>1. clock + d \in 0..MaxClock + MaxDelay /\ now <= now
      BY <1>1
    <3> QED
      BY <1>1, <1>10, <2>2, <3>1, InsertInv, Zenon DEF ScheduleAbsolute
  <2> QED
    BY <2>1, <2>2
<1> QED
  BY <1>2, <1>3, <1>4, <1>5, <1>6, <1>7, <1>8, <1>9, <1>10,
     InterruptInv, LoopInv, RunExpiredInv, CheckInv, ResetInv DEF Next

(* The invariant, for any number of events, width of the buckets and size  *)
(* of the table.                                                           *)
LEMMA TimerInvariance == Spec => [](NotEarly /\ TimerSetting /\ EventOnLiveStack)
<1>1. IInv => NotEarly /\ TimerSetting /\ EventOnLiveStack
  BY DEF IInv, TimerSetting
<1> QED
  BY <1>1, InitInv, Inductive, PTL DEF Spec

(* SchedulerTimer wakes no thread before its time. *)
THEOREM NoneWokenEarly == Spec => []NotEarly
  BY TimerInvariance, PTL

(* The settings of the timer pass the assertions "bad timer setting". *)
THEOREM TimerSettingsHold == Spec => []TimerSetting
  BY TimerInvariance, PTL

(* The lists hold the events of the threads that wait, and no event of a   *)
(* function that has returned.                                             *)
THEOREM ListsHoldLiveEvents == Spec => []EventOnLiveStack
  BY TimerInvariance, PTL

(* A round of timerInterrupt's loop leaves when after now, no later than   *)
(* any event still to come, and before the turn of the table is over for   *)
(* an overdue one: an event of the current bucket is on the immediate      *)
(* list, the slot of now is empty but for later turns, and the search of   *)
(* the table passes over no slot that holds an event.                      *)
THEOREM InterruptFindsNextEvent == Spec => InterruptFindsNext
<1> DEFINE Finds == Loop => \A e \in Pending' :
                      /\ now < when'
                      /\ when' <= IF ewhen[e] > now THEN ewhen[e]
                                  ELSE bucketStart(now + (TABLE_SIZE - 1) * BUCKET_TICKS)
<1>1. IInv /\ [Next]_vars => [Finds]_vars
  <2> DEFINE Soonest(e) == IF ewhen[e] > now THEN ewhen[e]
                           ELSE bucketStart(now + (TABLE_SIZE - 1) * BUCKET_TICKS)
  <2> SUFFICES ASSUME IInv, Loop, NEW e \in Pending'
               PROVE  now < when' /\ when' <= Soonest(e)
    BY Zenon
  <2> HIDE DEF Soonest
  <2>1. /\ now > when /\ at = "loop" /\ Pending' = Soon \cup Left
        /\ \/ Soon = {} /\ when' = NextBucket(Left)
           \/ \E a \in Earliest(Soon) : when' = ewhen[a]
    BY Zenon DEF Loop, Soon, Left, Pending
  <2>2. /\ now \in Nat /\ old \in Nat /\ old <= now /\ \A d \in Events : ewhen[d] \in Nat
        /\ imm \subseteq Events /\ table \subseteq Events
    BY <2>1, Numbers, Lists DEF IInv
  <2>3. Soon \subseteq imm \cup table /\ Left \subseteq table
    BY Sorted
  <2>4. bucketEnd(now) \in Nat /\ now <= bucketEnd(now) /\ \A d \in Soon : ewhen[d] <= bucketEnd(now)
    BY <2>2, BucketIs DEF IInv, Soon
  <2>5. e \in Left => ewhen[e] > bucketEnd(now) \/ timeIndex(ewhen[e]) # timeIndex(now)
    <3> SUFFICES ASSUME e \in Left, ewhen[e] <= bucketEnd(now), timeIndex(ewhen[e]) = timeIndex(now)
                 PROVE  FALSE
      BY <2>2, <2>3, <2>4
    <3>1. e \in table /\ now \in old..bucketEnd(now)
      BY <2>2, <2>3, <2>4
    <3>2. e \in Swept
      BY <3>1, Zenon DEF Swept
    <3> QED
      BY <3>2 DEF Left, Soon
  <2>6. e \in Left => ewhen[e] <= now \/ ewhen[e] > bucketEnd(now)
    <3> SUFFICES ASSUME e \in Left, ewhen[e] > now, ewhen[e] <= bucketEnd(now) PROVE FALSE
      BY <2>2, <2>3, <2>4
    <3>1. e \in table /\ ewhen[e] \in old..bucketEnd(now)
      BY <2>2, <2>3, <2>4
    <3>2. e \in Swept
      BY <3>1 DEF Swept
    <3> QED
      BY <3>2 DEF Left, Soon
  <2>7. \A d \in Soon : ewhen[d] > now
    BY <2>2, <2>3 DEF Soon, Due
  <2> DEFINE x == bucket(now)
             y == bucket(ewhen[e])
  <2>8. /\ x \in Nat /\ TABLE_SIZE \in Nat \ {0} /\ timeIndex(now) = x % TABLE_SIZE
        /\ bucketEnd(now) = BUCKET_TICKS * x + BUCKET_TICKS - 1
        /\ ewhen[e] \in Nat /\ y \in Nat /\ BUCKET_TICKS * y <= ewhen[e]
        /\ timeIndex(ewhen[e]) = y % TABLE_SIZE
    <3>1. ewhen[e] \in Nat
      BY <2>1, <2>2, <2>3
    <3> QED
      BY <2>2, <3>1, BucketIs, Constant, Zenon
  <2>9. ewhen[e] > bucketEnd(now) => x < y
    BY <2>2, <2>8, LaterBucket, Zenon
  <2>10. bucketStart(now + (TABLE_SIZE - 1) * BUCKET_TICKS) = BUCKET_TICKS * (x + (TABLE_SIZE - 1))
    <3>1. TABLE_SIZE - 1 \in Nat
      BY <2>8
    <3> QED
      BY <2>2, <3>1, BucketAhead, Zenon
  <2> HIDE DEF x, y
  \* An overdue event is not in the slot of now, so there are other slots.
  <2>11. ASSUME e \in Left, ~(ewhen[e] > now)
         PROVE  \E j \in 1..TABLE_SIZE : /\ (x + j) % TABLE_SIZE = y % TABLE_SIZE
                                         /\ BUCKET_TICKS * (x + j) <= Soonest(e)
                                         /\ BUCKET_TICKS * (x + j) \in Nat /\ Soonest(e) \in Nat
    <3>1. x % TABLE_SIZE # y % TABLE_SIZE
      BY <2>2, <2>4, <2>5, <2>8, <2>11
    <3>2. PICK j \in 1..TABLE_SIZE : (x + j) % TABLE_SIZE = y % TABLE_SIZE
      BY <2>8, SomeCongruent, Zenon
    <3>3. j # TABLE_SIZE
      <4> SUFFICES ASSUME j = TABLE_SIZE PROVE FALSE
        OBVIOUS
      <4>1. (x + 1 * TABLE_SIZE) % TABLE_SIZE = x % TABLE_SIZE
        BY <2>8, DivShift, ZenonT(40)
      <4>2. x + 1 * TABLE_SIZE = x + j
        BY <2>8
      <4> QED
        BY <3>1, <3>2, <4>1, <4>2
    <3>4. x + j \in Nat /\ x + (TABLE_SIZE - 1) \in Nat /\ x + j <= x + (TABLE_SIZE - 1)
      BY <2>8, <3>3
    <3>5. /\ BUCKET_TICKS * (x + j) <= BUCKET_TICKS * (x + (TABLE_SIZE - 1))
          /\ BUCKET_TICKS * (x + j) \in Nat /\ BUCKET_TICKS * (x + (TABLE_SIZE - 1)) \in Nat
      BY <3>4, BucketOrder
    <3>6. Soonest(e) = BUCKET_TICKS * (x + (TABLE_SIZE - 1))
      BY <2>10, <2>11, Zenon DEF Soonest
    <3> QED
      BY <3>2, <3>5, <3>6
  <2>12. CASE Soon = {}
    <3>1. /\ e \in Left /\ ewhen[e] \in Nat /\ when' = NextBucket(Left)
          /\ \A d \in Left : ewhen[d] \in Nat
      BY <2>1, <2>2, <2>3, <2>12 DEF Earliest
    <3>2. \A j \in 1..TABLE_SIZE : (x + j) % TABLE_SIZE = y % TABLE_SIZE
             => when' > now /\ when' <= BUCKET_TICKS * (x + j) /\ when' \in Nat
      BY <2>2, <2>8, <3>1, NextBucketIs, Zenon DEF x
    <3>3. CASE ewhen[e] > now
      <4>1. x < y
        BY <2>2, <2>6, <2>8, <2>9, <3>1, <3>3
      <4>2. PICK j \in 1..TABLE_SIZE : (x + j) % TABLE_SIZE = y % TABLE_SIZE /\ x + j <= y
        BY <2>8, <4>1, Congruent, Zenon
      <4>3. x + j \in Nat
        BY <2>8
      <4>4. BUCKET_TICKS * (x + j) <= BUCKET_TICKS * y /\ BUCKET_TICKS * (x + j) \in Nat /\ BUCKET_TICKS * y \in Nat
        BY <2>8, <4>2, <4>3, BucketOrder
      <4>5. when' > now /\ when' <= BUCKET_TICKS * (x + j) /\ when' \in Nat
        BY <3>2, <4>2, Zenon
      <4>6. when' <= ewhen[e]
        BY <2>8, <4>4, <4>5
      <4> QED
        BY <2>2, <3>3, <4>5, <4>6 DEF Soonest
    <3>4. CASE ~(ewhen[e] > now)
      BY <2>2, <2>11, <3>1, <3>2, <3>4
    <3> QED
      BY <3>3, <3>4
  <2>13. CASE Soon # {}
    <3>1. PICK a \in Earliest(Soon) : when' = ewhen[a]
      BY <2>1, <2>13
    <3>2. a \in Soon /\ \A d \in Soon : ewhen[a] <= ewhen[d]
      BY DEF Earliest
    <3>3. ewhen[a] \in Nat /\ ewhen[e] \in Nat /\ ewhen[a] <= bucketEnd(now) /\ ewhen[a] > now
      BY <2>1, <2>2, <2>3, <2>4, <2>7, <3>2
    <3>4. CASE ewhen[e] > now
      BY <2>1, <2>2, <2>4, <2>6, <3>1, <3>2, <3>3, <3>4 DEF Soonest
    <3>5. CASE ~(ewhen[e] > now)
      <4>1. e \in Left
        BY <2>1, <2>7, <3>5
      <4>2. PICK j \in 1..TABLE_SIZE : /\ BUCKET_TICKS * (x + j) <= Soonest(e)
                                      /\ BUCKET_TICKS * (x + j) \in Nat /\ Soonest(e) \in Nat
        BY <2>11, <3>5, <4>1
      <4>3. x + j \in Nat /\ x < x + j
        BY <2>8
      <4>4. BUCKET_TICKS * x + BUCKET_TICKS <= BUCKET_TICKS * (x + j) /\ BUCKET_TICKS * x \in Nat
        BY <2>8, <4>3, BucketOrder, Zenon
      <4> QED
        BY <2>2, <2>8, <3>1, <3>3, <4>2, <4>4, Constant
    <3> QED
      BY <3>4, <3>5
  <2> QED
    BY <2>12, <2>13
<1> QED
  BY <1>1, InitInv, Inductive, PTL DEF Spec, InterruptFindsNext

-----------------------------------------------------------------------------
(***************************************************************************)
(* The timer of a processor forgets no request and no quantum, for any     *)
(* number of annexes, any times and any range of the decrementer.          *)
(***************************************************************************)

CONSTANTS Annexes, MaxDec
VARIABLES hw, kernelWhen, dispatchTime, reqWhen, annexIntr

Kern == INSTANCE KernelTimer WITH when <- kernelWhen, intr <- annexIntr

(* The facts about the constants: times are naturals and the decrementer    *)
(* can be set at least one tick ahead.                                      *)
Constants == Never \in Nat /\ MaxDec \in Nat \ {0}

(* The decrementer never goes off after the time it is set for, except that *)
(* it cannot be set to 0.                                                   *)
LEMMA IntervalInTime ==
  ASSUME Constants, clock \in Nat, NEW t \in Nat, t >= clock
  PROVE  /\ Kern!setInterval(t - clock) \in Nat
         /\ Kern!setInterval(t - clock) <= t \/ Kern!setInterval(t - clock) <= clock + 1
BY DEF Constants, Kern!setInterval

(* The earlier of the anchor and dispatchTime is a time before both.        *)
LEMMA EarliestIs ==
  ASSUME Constants, NEW r \in [Annexes -> Kern!Times \cup {Never}],
         NEW d \in Kern!Times \cup {Never}, NEW t \in Kern!Earliest(r, d)
  PROVE  /\ t \in Kern!Times \cup {Never} /\ t <= d
         /\ \A p \in Annexes : t <= r[p]
         /\ t = d \/ \E p \in Annexes : t = r[p]
<1>1. t \in {r[p] : p \in Annexes} \cup {d}
  BY DEF Kern!Earliest
<1>2. \A s \in {r[p] : p \in Annexes} \cup {d} : t <= s
  BY DEF Kern!Earliest
<1> QED
  BY <1>1, <1>2 DEF Kern!Times, Constants

(* What removing a request leaves is right for the requests that remain.    *)
LEMMA RemovalRight ==
  ASSUME Constants, Kern!IInv, NEW p \in Annexes, NEW s \in Kern!Removal(p)
  PROVE  /\ s[1] \in Nat /\ s[2] \in Nat
         /\ \/ s[1] <= clock
            \/ s[1] <= dispatchTime /\ \A q \in Annexes : s[1] <= Kern!Without(p)[q]
         /\ s[1] # Never => s[2] <= s[1] \/ s[2] <= clock + 1
<1> Kern!Without(p) \in [Annexes -> Kern!Times \cup {Never}]
  BY DEF Kern!IInv, Kern!TypeOK, Kern!Without
<1> \A q \in Annexes : reqWhen[q] <= Kern!Without(p)[q]
  BY DEF Kern!IInv, Kern!TypeOK, Kern!Without, Kern!Times, Constants
<1> clock \in Nat /\ kernelWhen \in Nat /\ hw \in Nat /\ dispatchTime \in Nat
  BY DEF Kern!IInv, Kern!TypeOK, Kern!Times, Constants
<1> \A q \in Annexes : reqWhen[q] \in Nat /\ Kern!Without(p)[q] \in Nat
  BY Zenon DEF Kern!IInv, Kern!TypeOK, Kern!Times, Constants
<1>1. CASE s = <<kernelWhen, hw>>
  BY <1>1 DEF Kern!IInv
<1>2. CASE \E t \in Kern!Earliest(Kern!Without(p), dispatchTime) :
             kernelWhen < t /\ s = <<t, IF t > clock THEN Kern!setInterval(t - clock) ELSE hw>>
  <2>1. PICK t \in Kern!Earliest(Kern!Without(p), dispatchTime) :
             kernelWhen < t /\ s = <<t, IF t > clock THEN Kern!setInterval(t - clock) ELSE hw>>
    BY <1>2
  <2>2. t \in Nat /\ t <= dispatchTime /\ \A q \in Annexes : t <= Kern!Without(p)[q]
    BY EarliestIs DEF Kern!IInv, Kern!TypeOK, Kern!Times, Constants
  <2>3. CASE t > clock
    BY <2>1, <2>2, <2>3, IntervalInTime, SMTT(30), Z3
  <2>4. CASE ~(t > clock)
    <3>1. s[1] = t /\ s[2] = hw
      BY <2>1, <2>4
    <3>2. kernelWhen < clock /\ kernelWhen # Never
      BY <2>1, <2>2, <2>4 DEF Kern!IInv, Kern!TypeOK, Kern!Times
    <3>3. hw <= clock + 1
      BY <3>2 DEF Kern!IInv
    <3> QED
      BY <2>2, <2>4, <3>1, <3>3
  <2> QED
    BY <2>3, <2>4
<1> QED
  BY <1>1, <1>2 DEF Kern!Removal

-----------------------------------------------------------------------------
LEMMA InitIInv ==
  ASSUME Constants, Never > 0, Kern!Init
  PROVE  Kern!IInv
BY DEF Kern!Init, Kern!IInv, Kern!TypeOK, Kern!Times, Constants

LEMMA TickIInv ==
  ASSUME Constants, Kern!IInv, NEW t \in Nat, Kern!Tick(t)
  PROVE  Kern!IInv'
BY DEF Kern!Tick, Kern!IInv, Kern!TypeOK, Kern!Times, Constants

(* Reset and Detach: the request of p is gone.                              *)
LEMMA WithoutIInv ==
  ASSUME Constants, Kern!IInv, NEW p \in Annexes,
         reqWhen' = Kern!Without(p),
         \E s \in Kern!Removal(p) : kernelWhen' = s[1] /\ hw' = s[2],
         annexIntr' \in [Annexes -> BOOLEAN],
         UNCHANGED <<clock, dispatchTime>>
  PROVE  Kern!IInv'
<1>1. PICK s \in Kern!Removal(p) : kernelWhen' = s[1] /\ hw' = s[2]
  OBVIOUS
<1>2. Kern!TypeOK'
  BY <1>1, RemovalRight, Zenon DEF Kern!IInv, Kern!TypeOK, Kern!Without
<1> QED
  BY <1>1, <1>2, RemovalRight DEF Kern!IInv

(* A request is first and the decrementer set for it, or something else is  *)
(* to be done before it.                                                    *)
LEMMA AbsoluteIInv ==
  ASSUME Constants, Kern!IInv, NEW p \in Annexes, NEW w \in Nat, Kern!Absolute(p, w)
  PROVE  Kern!IInv'
<1> clock \in Nat /\ dispatchTime \in Nat /\ w < Never /\ clock < Never
  BY DEF Kern!IInv, Kern!TypeOK, Kern!Times, Constants, Kern!Absolute
<1> /\ reqWhen' = [reqWhen EXCEPT ![p] = w]
    /\ UNCHANGED <<clock, dispatchTime, annexIntr>>
  BY DEF Kern!Absolute
<1>1. reqWhen' \in [Annexes -> Kern!Times \cup {Never}]
  BY DEF Kern!IInv, Kern!TypeOK, Kern!Times
<1>2. \A q \in Annexes : reqWhen'[q] = IF q = p THEN w ELSE reqWhen[q]
  BY DEF Kern!IInv, Kern!TypeOK
<1>3. \A q \in Annexes : reqWhen[q] \in Nat
  BY DEF Kern!IInv, Kern!TypeOK, Kern!Times, Constants
<1>4. CASE w < dispatchTime /\ \A q \in Annexes \ {p} : w < reqWhen[q]
  <2>1. kernelWhen' = Kern!Later(w, clock) /\ hw' = Kern!setInterval(Kern!Later(w, clock) - clock)
    BY <1>4 DEF Kern!Absolute
  <2>2. Kern!Later(w, clock) \in Nat /\ Kern!Later(w, clock) >= clock
    BY DEF Kern!Later
  <2>3. hw' \in Nat /\ (hw' <= kernelWhen' \/ hw' <= clock + 1)
    BY <2>1, <2>2, IntervalInTime
  <2>4. kernelWhen' <= clock \/ (kernelWhen' <= dispatchTime /\ \A q \in Annexes : kernelWhen' <= reqWhen'[q])
    BY <1>2, <1>3, <1>4, <2>1 DEF Kern!Later
  <2> QED
    BY <1>1, <2>1, <2>2, <2>3, <2>4 DEF Kern!IInv, Kern!TypeOK
<1>5. CASE ~(w < dispatchTime /\ \A q \in Annexes \ {p} : w < reqWhen[q])
  <2>1. PICK s \in Kern!Removal(p) : kernelWhen' = s[1] /\ hw' = s[2]
    BY <1>5 DEF Kern!Absolute
  <2>2. /\ kernelWhen' \in Nat /\ hw' \in Nat
        /\ \/ kernelWhen' <= clock
           \/ kernelWhen' <= dispatchTime /\ \A q \in Annexes : kernelWhen' <= Kern!Without(p)[q]
        /\ kernelWhen' # Never => hw' <= kernelWhen' \/ hw' <= clock + 1
    BY <2>1, RemovalRight
  <2>3. \A q \in Annexes : Kern!Without(p)[q] = IF q = p THEN Never ELSE reqWhen[q]
    BY DEF Kern!Without, Kern!IInv, Kern!TypeOK
  <2>4. kernelWhen' <= clock \/ (kernelWhen' <= dispatchTime /\ \A q \in Annexes : kernelWhen' <= reqWhen'[q])
    <3> SUFFICES ASSUME ~(kernelWhen' <= clock)
                 PROVE  kernelWhen' <= dispatchTime /\ \A q \in Annexes : kernelWhen' <= reqWhen'[q]
      OBVIOUS
    <3>1. kernelWhen' <= dispatchTime /\ \A q \in Annexes \ {p} : kernelWhen' <= reqWhen[q]
      BY <2>2, <2>3
    <3>2. kernelWhen' <= w
      BY <1>3, <1>5, <2>2, <3>1
    <3> QED
      BY <1>2, <3>1, <3>2
  <2> QED
    BY <1>1, <2>2, <2>4 DEF Kern!IInv, Kern!TypeOK
<1> QED
  BY <1>4, <1>5

(* The decrementer is left alone only when it is set for the anchor.        *)
LEMMA DispatchIInv ==
  ASSUME Constants, Kern!IInv, NEW quantum \in Nat, Kern!SetDispatchTime(quantum)
  PROVE  Kern!IInv'
<1> clock \in Nat /\ kernelWhen \in Nat /\ hw \in Nat
  BY DEF Kern!IInv, Kern!TypeOK, Kern!Times
<1>1. /\ dispatchTime' = clock + quantum /\ dispatchTime' \in Kern!Times
      /\ UNCHANGED <<clock, reqWhen, annexIntr>>
  BY DEF Kern!SetDispatchTime, Kern!Times
<1>2. PICK t \in Kern!Earliest(reqWhen, dispatchTime') :
       IF t < dispatchTime'
       THEN /\ kernelWhen' = IF kernelWhen # t THEN Kern!Later(t, clock) ELSE kernelWhen
            /\ hw' = IF kernelWhen # t THEN Kern!setInterval(Kern!Later(t, clock) - clock) ELSE hw
       ELSE /\ kernelWhen' = dispatchTime'
            /\ hw' = Kern!setInterval(quantum)
  BY DEF Kern!SetDispatchTime
<1>3. t \in Nat /\ t <= dispatchTime' /\ \A q \in Annexes : t <= reqWhen[q]
  BY <1>1, EarliestIs DEF Kern!IInv, Kern!TypeOK, Kern!Times, Constants
<1>4. CASE t < dispatchTime' /\ kernelWhen # t
  <2>1. Kern!Later(t, clock) \in Nat /\ Kern!Later(t, clock) >= clock
    BY <1>3 DEF Kern!Later
  <2>2. kernelWhen' = Kern!Later(t, clock) /\ hw' = Kern!setInterval(Kern!Later(t, clock) - clock)
    BY <1>2, <1>4
  <2>3. hw' \in Nat /\ (hw' <= kernelWhen' \/ hw' <= clock + 1)
    BY <2>1, <2>2, IntervalInTime
  <2>4. kernelWhen' <= clock \/ (kernelWhen' <= dispatchTime' /\ \A q \in Annexes : kernelWhen' <= reqWhen[q])
    BY <1>3, <2>2 DEF Kern!Later
  <2> QED
    BY <1>1, <2>1, <2>2, <2>3, <2>4 DEF Kern!IInv, Kern!TypeOK
<1>5. CASE t < dispatchTime' /\ kernelWhen = t
  BY <1>1, <1>2, <1>3, <1>5 DEF Kern!IInv, Kern!TypeOK
<1>6. CASE ~(t < dispatchTime')
  <2>1. kernelWhen' = dispatchTime' /\ hw' = Kern!setInterval(dispatchTime' - clock)
    BY <1>1, <1>2, <1>6
  <2>2. dispatchTime' \in Nat /\ dispatchTime' >= clock /\ t = dispatchTime'
    BY <1>1, <1>3, <1>6
  <2>3. hw' \in Nat /\ (hw' <= kernelWhen' \/ hw' <= clock + 1)
    BY <2>1, <2>2, IntervalInTime
  <2> QED
    BY <1>1, <1>3, <2>1, <2>2, <2>3 DEF Kern!IInv, Kern!TypeOK
<1> QED
  BY <1>4, <1>5, <1>6

(* What is left after the interrupt is all still to come.                   *)
LEMMA InterruptIInv ==
  ASSUME Constants, Kern!IInv, Kern!TimerInterrupt
  PROVE  Kern!IInv'
<1> clock \in Nat /\ clock < Never
  BY DEF Kern!IInv, Kern!TypeOK, Kern!Times, Constants
<1>1. /\ dispatchTime' \in Kern!Times \cup {Never} /\ dispatchTime' > clock
      /\ reqWhen' \in [Annexes -> Kern!Times \cup {Never}]
      /\ \A p \in Annexes : reqWhen'[p] > clock
      /\ annexIntr' \in [Annexes -> BOOLEAN]
      /\ clock' = clock
  BY DEF Kern!TimerInterrupt, Kern!IInv, Kern!TypeOK, Kern!Times, Constants
<1>2. PICK t \in Kern!Earliest(reqWhen', dispatchTime') : kernelWhen' = t /\ hw' = Kern!setInterval(t - clock)
  BY DEF Kern!TimerInterrupt
<1>3. /\ t \in Nat /\ t <= dispatchTime' /\ \A p \in Annexes : t <= reqWhen'[p]
      /\ t > clock
  BY <1>1, EarliestIs DEF Kern!Times, Constants
<1>4. hw' \in Nat /\ (hw' <= t \/ hw' <= clock + 1)
  BY <1>2, <1>3, IntervalInTime
<1> QED
  BY <1>1, <1>2, <1>3, <1>4 DEF Kern!IInv, Kern!TypeOK

LEMMA NextIInv ==
  ASSUME Constants, Kern!IInv, [Kern!Next]_(Kern!vars)
  PROVE  Kern!IInv'
<1>1. CASE Kern!TimerInterrupt
  BY <1>1, InterruptIInv
<1>2. ASSUME NEW t \in Nat, Kern!Tick(t) PROVE Kern!IInv'
  BY <1>2, TickIInv
<1>3. ASSUME NEW t \in Nat, Kern!SetDispatchTime(t) PROVE Kern!IInv'
  BY <1>3, DispatchIInv
<1>4. ASSUME NEW p \in Annexes, Kern!Reset(p) PROVE Kern!IInv'
  BY <1>4, WithoutIInv DEF Kern!Reset, Kern!IInv, Kern!TypeOK
<1>5. ASSUME NEW p \in Annexes, Kern!Detach(p) PROVE Kern!IInv'
  <2>1. annexIntr' \in [Annexes -> BOOLEAN]
    BY <1>5 DEF Kern!Detach, Kern!IInv, Kern!TypeOK
  <2> QED
    BY <1>5, <2>1, WithoutIInv DEF Kern!Detach
<1>6. ASSUME NEW p \in Annexes, Kern!Take(p) PROVE Kern!IInv'
  BY <1>6 DEF Kern!Take, Kern!IInv, Kern!TypeOK
<1>7. ASSUME NEW p \in Annexes, NEW t \in Nat, Kern!Absolute(p, t) PROVE Kern!IInv'
  BY <1>7, AbsoluteIInv
<1>8. ASSUME NEW p \in Annexes, NEW t \in Nat, Kern!Relative(p, t) PROVE Kern!IInv'
  <2>1. clock + t \in Nat /\ Kern!Absolute(p, clock + t)
    BY <1>8 DEF Kern!Relative, Kern!IInv, Kern!TypeOK, Kern!Times
  <2> QED
    BY <2>1, AbsoluteIInv
<1>9. CASE UNCHANGED Kern!vars
  BY <1>9 DEF Kern!vars, Kern!IInv, Kern!TypeOK
<1> QED
  BY <1>1, <1>2, <1>3, <1>4, <1>5, <1>6, <1>7, <1>8, <1>9 DEF Kern!Next

-----------------------------------------------------------------------------
(* However requests, cancellations, quanta, migrations and interrupts       *)
(* follow each other, the decrementer of the processor goes off in time for *)
(* every request in the queue of timerRequest and for the quantum set by    *)
(* setDispatchTime.                                                         *)
THEOREM KernelTimerInTime ==
  ASSUME Constants, Never > 0
  PROVE  Kern!Spec => [](Kern!NoRequestForgotten /\ Kern!QuantumEnds)
<1>1. Kern!Init => Kern!IInv
  BY InitIInv
<1>2. Kern!IInv /\ [Kern!Next]_(Kern!vars) => Kern!IInv'
  BY NextIInv
<1>3. Kern!IInv => Kern!NoRequestForgotten /\ Kern!QuantumEnds
  <2> SUFFICES ASSUME Kern!IInv PROVE Kern!NoRequestForgotten /\ Kern!QuantumEnds
    OBVIOUS
  <2>1. clock \in Nat /\ kernelWhen \in Nat /\ hw \in Nat /\ dispatchTime \in Nat
    BY DEF Kern!IInv, Kern!TypeOK, Kern!Times, Constants
  <2>2. ASSUME NEW p \in Annexes PROVE reqWhen[p] \in Nat /\ reqWhen[p] <= Never
    <3>1. reqWhen[p] \in Kern!Times \cup {Never}
      BY DEF Kern!IInv, Kern!TypeOK
    <3> QED
      BY <3>1 DEF Kern!Times, Constants
  <2>3. dispatchTime <= Never /\ clock < Never
    BY DEF Kern!IInv, Kern!TypeOK, Kern!Times, Constants
  <2>4. Kern!NoRequestForgotten
    BY <2>1, <2>2, <2>3 DEF Kern!NoRequestForgotten, Kern!Later, Kern!IInv
  <2>5. Kern!QuantumEnds
    BY <2>1, <2>3 DEF Kern!QuantumEnds, Kern!Later, Kern!IInv
  <2> QED
    BY <2>4, <2>5
<1> QED
  BY <1>1, <1>2, <1>3, PTL DEF Kern!Spec

(* An annex is served as TimerRequest promises: its request is lost to no   *)
(* other annex, and timerInterrupt and detachDispatcher interrupt it only   *)
(* for a request of its own.                                                *)
THEOREM KernelTimerServesAnnex ==
  ASSUME Constants, Never > 0
  PROVE  Kern!Spec => Kern!AnnexServed
<1>1. Kern!Init => Kern!IInv
  BY InitIInv
<1>2. Kern!IInv /\ [Kern!Next]_(Kern!vars) => Kern!IInv'
  BY NextIInv
<1>3. Kern!IInv /\ [Kern!Next]_(Kern!vars) => [\A p \in Annexes : Kern!AnnexNext(p)]_(Kern!vars)
  <2> SUFFICES ASSUME Kern!IInv, Kern!Next, NEW p \in Annexes PROVE Kern!AnnexNext(p)
    OBVIOUS
  <2> USE DEF Kern!IInv, Kern!TypeOK
  <2>1. CASE Kern!TimerInterrupt
    <3>1. CASE reqWhen[p] <= clock
      BY <2>1, <3>1, Zenon DEF Kern!TimerInterrupt, Kern!AnnexNext, Kern!Annex!Pop
    <3>2. CASE ~(reqWhen[p] <= clock)
      BY <2>1, <3>2, Zenon DEF Kern!TimerInterrupt, Kern!AnnexNext
    <3> QED
      BY <3>1, <3>2
  <2>2. ASSUME NEW t \in Nat, Kern!Tick(t) \/ Kern!SetDispatchTime(t) PROVE Kern!AnnexNext(p)
    BY <2>2, Zenon DEF Kern!Tick, Kern!SetDispatchTime, Kern!AnnexNext
  <2>3. ASSUME NEW q \in Annexes, Kern!Reset(q) PROVE Kern!AnnexNext(p)
    BY <2>3, Zenon DEF Kern!Reset, Kern!AnnexNext, Kern!Without
  <2>4. ASSUME NEW q \in Annexes, Kern!Detach(q) PROVE Kern!AnnexNext(p)
    BY <2>4, Zenon DEF Kern!Detach, Kern!AnnexNext, Kern!Without, Kern!Annex!GiveUp
  <2>5. ASSUME NEW q \in Annexes, Kern!Take(q) PROVE Kern!AnnexNext(p)
    BY <2>5 DEF Kern!Take, Kern!AnnexNext
  <2>6. ASSUME NEW q \in Annexes, NEW t \in Nat, Kern!Absolute(q, t) PROVE Kern!AnnexNext(p)
    BY <2>6, Zenon DEF Kern!Absolute, Kern!AnnexNext
  <2>7. ASSUME NEW q \in Annexes, NEW t \in Nat, Kern!Relative(q, t) PROVE Kern!AnnexNext(p)
    <3>1. clock + t \in Nat /\ Kern!Absolute(q, clock + t)
      BY <2>7 DEF Kern!Relative, Kern!Times
    <3> QED
      BY <2>6, <3>1
  <2> QED
    BY <2>1, <2>2, <2>3, <2>4, <2>5, <2>6, <2>7 DEF Kern!Next
<1> QED
  BY <1>1, <1>2, <1>3, PTL DEF Kern!Spec, Kern!AnnexServed
=============================================================================
