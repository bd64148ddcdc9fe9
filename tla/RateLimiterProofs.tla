-------------------------- MODULE RateLimiterProofs --------------------------
(***************************************************************************)
(* Proofs about RateLimiter, for any requests, clients, rate and burst.    *)
(*                                                                         *)
(* A bucket and the admissions of its client tell the same story: the      *)
(* tokens that are left and those taken since any admission are at most a  *)
(* burst, what flowed in and the windfalls (Covered), and for some         *)
(* admission exactly a burst and what flowed in, unless the bucket is full *)
(* (Exact).  A client whose bucket was pruned has not been admitted for so *)
(* long (Idle) that a full bucket is covered by one windfall more.         *)
(***************************************************************************)
EXTENDS RateLimiter, TLAPS

BucketT == [tokens : 0..Cap, lastRef : Nat]
AdmitT == [ref : Nat, nth : Nat]

\* The record of an admission by bucket b, the m-th of its client.
Mark(b, m) == [ref |-> b.lastRef, nth |-> m]

\* Cost of the admissions from the i-th on.
Taken(p, i) == Cost * (Len(p) - i + 1)

Covered(p, b, m) == \A i \in DOMAIN p :
                      /\ Taken(p, i) + b.tokens
                           <= Cap + (Credit(Mark(b, m)) - Credit(p[i]))
                      /\ Pace(p[i]) <= Pace(Mark(b, m))

Exact(p, b) == \/ b.tokens = Cap
               \/ \E i \in DOMAIN p :
                    Taken(p, i) + b.tokens = Cap + (b.lastRef - p[i].ref)

\* The m-th bucket was last used more than IdleTTL ago.
Idle(p, m) == \A i \in DOMAIN p :
                /\ Taken(p, i) + Gap + Delay
                     <= Cap + ((clock + Windfall * m) - Credit(p[i]))
                /\ Pace(p[i]) <= (clock - Gap * m) - (Gap + Delay)

Windows(p) == \A i, j \in DOMAIN p :
                i <= j => /\ Cost * (j - i + 1)
                               <= Cap + (Credit(p[j]) - Credit(p[i]))
                          /\ Pace(p[i]) <= Pace(p[j])

LInv ==
  /\ LimiterTypeOK
  /\ WindowBound
  /\ \A r \in Requests : lpc[r] = "stamped" =>
       stamp[r] <= clock /\ clock <= stamp[r] + Delay
  /\ \A c \in DOMAIN buckets : /\ buckets[c].lastRef <= clock
                               /\ Covered(passed[c], buckets[c], made[c])
                               /\ Exact(passed[c], buckets[c])
  /\ \A c \in Clients \ DOMAIN buckets : Idle(passed[c], made[c])

------------------------------------------------------------------------------
LEMMA Constants == /\ Cap \in Nat /\ Cost \in Nat \ {0}
                   /\ IdleTTL \in Nat /\ Delay \in Nat /\ MaxTime \in Nat
                   /\ Gap \in Int /\ Gap + Delay = IdleTTL + 1
                   /\ Windfall \in Nat /\ Cap <= Gap + Windfall
<1>1. loadRateLimit \in Nat
  BY LimiterAssumption DEF loadRateLimit
<1>2. Cap \in Nat
  BY <1>1, LimiterAssumption DEF Cap
<1> QED
  BY <1>2, LimiterAssumption DEF Gap, Windfall

\* The burst is a number of whole tokens.
LEMMA CapWhole == Cap < Cost => Cap = 0
<1>1. loadRateLimit \in Nat /\ Cost \in Nat \ {0}
  BY LimiterAssumption DEF loadRateLimit
<1>2. \A n \in Nat : n * Cost < Cost => n = 0
  BY <1>1
<1>3. 0 * Cost = 0
  BY <1>1
<1> QED
  BY <1>1, <1>2, <1>3 DEF Cap

\* Credit and pace go with the time, and by as much per bucket.
LEMMA MarkInt ==
  ASSUME NEW a \in AdmitT
  PROVE  /\ Credit(a) \in Int /\ Pace(a) \in Int
         /\ Credit(a) = a.ref + Windfall * a.nth
         /\ Pace(a) = a.ref - Gap * a.nth
<1>1. a.ref \in Nat /\ a.nth \in Nat /\ Windfall \in Nat /\ Gap \in Int
  BY Constants DEF AdmitT
<1>2. Windfall * a.nth \in Int /\ Gap * a.nth \in Int
  BY <1>1
<1> QED
  BY <1>1, <1>2 DEF Credit, Pace

LEMMA MarkMoves ==
  ASSUME NEW b \in BucketT, NEW f \in BucketT, NEW m \in Nat
  PROVE  /\ Mark(b, m) \in AdmitT /\ Mark(f, m) \in AdmitT
         /\ Credit(Mark(f, m)) = Credit(Mark(b, m)) + (f.lastRef - b.lastRef)
         /\ Pace(Mark(f, m)) = Pace(Mark(b, m)) + (f.lastRef - b.lastRef)
<1>1. f.lastRef \in Nat /\ b.lastRef \in Nat
  BY DEF BucketT
<1>2. /\ Mark(b, m) \in AdmitT /\ Mark(f, m) \in AdmitT
      /\ Mark(b, m).ref = b.lastRef /\ Mark(b, m).nth = m
      /\ Mark(f, m).ref = f.lastRef /\ Mark(f, m).nth = m
  BY <1>1 DEF Mark, AdmitT
<1>3. Windfall * m \in Int /\ Gap * m \in Int
  BY Constants
<1>4. /\ Credit(Mark(b, m)) = b.lastRef + Windfall * m
      /\ Credit(Mark(f, m)) = f.lastRef + Windfall * m
      /\ Pace(Mark(b, m)) = b.lastRef - Gap * m
      /\ Pace(Mark(f, m)) = f.lastRef - Gap * m
  BY <1>2, MarkInt
<1> HIDE DEF Mark
<1>5. \A x, y, w \in Int : /\ y + w = (x + w) + (y - x)
                           /\ y - w = (x - w) + (y - x)
  OBVIOUS
<1> QED
  BY <1>1, <1>2, <1>3, <1>4, <1>5

LEMMA TakenInt ==
  ASSUME NEW p \in Seq(AdmitT), NEW i \in DOMAIN p
  PROVE  /\ Taken(p, i) \in Int /\ p[i] \in AdmitT /\ p[i].ref \in Nat
         /\ Credit(p[i]) \in Int /\ Pace(p[i]) \in Int
         /\ i \in 1..Len(p) /\ Len(p) \in Nat
<1>1. p[i] \in AdmitT /\ i \in 1..Len(p) /\ Len(p) \in Nat
  OBVIOUS
<1>2. Taken(p, i) \in Int
  BY <1>1, Constants DEF Taken
<1>3. p[i].ref \in Nat
  BY <1>1 DEF AdmitT
<1> QED
  BY <1>1, <1>2, <1>3, MarkInt

\* One more admission costs Cost more, counted from any earlier one.
LEMMA TakenAppend ==
  ASSUME NEW p \in Seq(AdmitT), NEW t \in AdmitT
  PROVE  /\ Append(p, t) \in Seq(AdmitT) /\ Len(Append(p, t)) = Len(p) + 1
         /\ DOMAIN Append(p, t) = DOMAIN p \union {Len(p) + 1}
         /\ \A i \in DOMAIN p : /\ Append(p, t)[i] = p[i]
                                /\ Taken(Append(p, t), i) = Taken(p, i) + Cost
         /\ Append(p, t)[Len(p) + 1] = t
         /\ Taken(Append(p, t), Len(p) + 1) = Cost
<1> DEFINE q == Append(p, t)
<1>1. q \in Seq(AdmitT) /\ Len(q) = Len(p) + 1 /\ Len(p) \in Nat
  OBVIOUS
<1>2. DOMAIN q = 1..(Len(p) + 1) /\ DOMAIN p = 1..Len(p)
  OBVIOUS
<1>3. /\ \A i \in DOMAIN p : q[i] = p[i]
      /\ q[Len(p) + 1] = t
  OBVIOUS
<1>4. ASSUME NEW i \in DOMAIN p PROVE Taken(q, i) = Taken(p, i) + Cost
  <2>1. Taken(q, i) = Cost * ((Len(p) - i + 1) + 1)
    BY <1>1, <1>2 DEF Taken
  <2>2. \A n \in Int : Cost * (n + 1) = Cost * n + Cost
    BY Constants
  <2> QED
    BY <2>1, <2>2, <1>1, <1>2 DEF Taken
<1>5. Taken(q, Len(p) + 1) = Cost
  BY <1>1, Constants DEF Taken
<1>6. DOMAIN q = DOMAIN p \union {Len(p) + 1}
  BY <1>1, <1>2
<1> QED
  BY <1>1, <1>3, <1>4, <1>5, <1>6

\* What flows into a bucket moves the balance of it by as much.
LEMMA Flow ==
  ASSUME NEW b \in BucketT, NEW f \in BucketT,
         f.tokens = b.tokens + (f.lastRef - b.lastRef)
  PROVE  \A t, x \in Int : t + b.tokens = Cap + (b.lastRef - x)
                             => t + f.tokens = Cap + (f.lastRef - x)
<1>1. /\ b.tokens \in Int /\ b.lastRef \in Int /\ Cap \in Int
      /\ f.tokens \in Int /\ f.lastRef \in Int
  BY Constants DEF BucketT
<1> QED
  BY <1>1

\* So it keeps the bucket in step with the admissions.
LEMMA FlowKeeps ==
  ASSUME NEW p \in Seq(AdmitT), NEW b \in BucketT, NEW f \in BucketT,
         NEW m \in Nat,
         b.lastRef <= f.lastRef,
         f.tokens <= b.tokens + (f.lastRef - b.lastRef),
         f.tokens = Cap \/ f.tokens = b.tokens + (f.lastRef - b.lastRef),
         Covered(p, b, m), Exact(p, b)
  PROVE  Covered(p, f, m) /\ Exact(p, f)
<1>1. /\ b.tokens \in 0..Cap /\ b.lastRef \in Int /\ Cap \in Int
      /\ f.tokens \in 0..Cap /\ f.lastRef \in Int
  BY Constants DEF BucketT
<1>2. \A i \in DOMAIN p : /\ Taken(p, i) \in Int /\ p[i].ref \in Int
                          /\ Credit(p[i]) \in Int /\ Pace(p[i]) \in Int
  BY TakenInt
<1>3. Covered(p, f, m)
  <2> DEFINE u == Credit(Mark(b, m))
             v == Pace(Mark(b, m))
             u1 == Credit(Mark(f, m))
             v1 == Pace(Mark(f, m))
  <2>1. u1 = u + (f.lastRef - b.lastRef) /\ v1 = v + (f.lastRef - b.lastRef)
    BY MarkMoves
  <2>2. u \in Int /\ v \in Int
    BY MarkMoves, MarkInt
  <2> HIDE DEF u, v, u1, v1
  <2>3. ASSUME NEW t \in Int, NEW x \in Int, NEW y \in Int,
               t + b.tokens <= Cap + (u - x), y <= v
        PROVE  t + f.tokens <= Cap + (u1 - x) /\ y <= v1
    <3> DEFINE k == f.lastRef - b.lastRef
    <3>1. k \in Int /\ k >= 0 /\ f.tokens <= b.tokens + k
      BY <1>1
    <3>2. u1 = u + k /\ v1 = v + k
      BY <2>1
    <3>3. b.tokens \in Int /\ f.tokens \in Int
      BY <1>1
    <3> HIDE DEF k
    <3>4. t + f.tokens <= Cap + ((u + k) - x)
      BY <1>1, <2>2, <2>3, <3>1, <3>3
    <3>5. y <= v + k
      BY <2>2, <2>3, <3>1
    <3> QED
      BY <3>2, <3>4, <3>5
  <2>4. ASSUME NEW i \in DOMAIN p
        PROVE  /\ Taken(p, i) + f.tokens <= Cap + (u1 - Credit(p[i]))
               /\ Pace(p[i]) <= v1
    <3>1. /\ Taken(p, i) + b.tokens <= Cap + (u - Credit(p[i]))
          /\ Pace(p[i]) <= v
      BY DEF Covered, u, v
    <3> QED
      BY <1>2, <2>3, <3>1, Zenon
  <2> QED
    BY <2>4 DEF Covered, u1, v1
<1>4. ASSUME f.tokens # Cap PROVE Exact(p, f)
  <2>1. f.tokens = b.tokens + (f.lastRef - b.lastRef) /\ b.tokens # Cap
    BY <1>1, <1>4
  <2> QED
    BY <1>2, <2>1, Flow, Zenon DEF Exact
<1> QED
  BY <1>3, <1>4 DEF Exact

\* So does refilling, which also keeps the bucket in its bounds.
LEMMA RefillKeeps ==
  ASSUME NEW p \in Seq(AdmitT), NEW b \in BucketT, NEW m \in Nat,
         NEW now \in Nat, Covered(p, b, m), Exact(p, b)
  PROVE  /\ Refill(b, now) \in BucketT
         /\ Refill(b, now).lastRef \in {b.lastRef, now}
         /\ Covered(p, Refill(b, now), m)
         /\ Exact(p, Refill(b, now))
<1>1. CASE ~(now > b.lastRef)
  BY <1>1 DEF Refill
<1>2. CASE now > b.lastRef
  <2>1. b.tokens \in 0..Cap /\ b.lastRef \in Nat /\ Cap \in Nat
    BY Constants DEF BucketT
  <2>2. /\ Refill(b, now).lastRef = now
        /\ Refill(b, now).tokens =
             IF b.tokens + (now - b.lastRef) > Cap THEN Cap
             ELSE b.tokens + (now - b.lastRef)
    BY <1>2 DEF Refill
  <2>3. Refill(b, now) \in BucketT
    BY <1>2, <2>1 DEF Refill, BucketT
  <2>4. /\ b.lastRef <= Refill(b, now).lastRef
        /\ Refill(b, now).tokens
             <= b.tokens + (Refill(b, now).lastRef - b.lastRef)
        /\ \/ Refill(b, now).tokens = Cap
           \/ Refill(b, now).tokens
                = b.tokens + (Refill(b, now).lastRef - b.lastRef)
    BY <1>2, <2>1, <2>2
  <2> QED
    BY <2>2, <2>3, <2>4, FlowKeeps
<1> QED
  BY <1>1, <1>2

\* Taking a token for an admission keeps the bucket in step.
LEMMA TakeKeeps ==
  ASSUME NEW p \in Seq(AdmitT), NEW b \in BucketT, NEW m \in Nat,
         b.tokens >= Cost, Covered(p, b, m), Exact(p, b), Windows(p)
  PROVE  LET d == [b EXCEPT !.tokens = @ - Cost]
             q == Append(p, Mark(b, m))
         IN  /\ d \in BucketT /\ d.lastRef = b.lastRef
             /\ q \in Seq(AdmitT)
             /\ Covered(q, d, m) /\ Exact(q, d) /\ Windows(q)
<1> DEFINE d == [b EXCEPT !.tokens = @ - Cost]
           a == Mark(b, m)
           q == Append(p, a)
           n == Len(p) + 1
<1>1. /\ b.tokens \in 0..Cap /\ b.lastRef \in Nat /\ Cap \in Nat
      /\ Cost \in Nat \ {0}
  BY Constants DEF BucketT
<1>2. d = [tokens |-> b.tokens - Cost, lastRef |-> b.lastRef]
  BY DEF BucketT
<1>3. d \in BucketT /\ d.tokens = b.tokens - Cost /\ d.lastRef = b.lastRef
  BY <1>1, <1>2 DEF BucketT
<1>4. /\ a \in AdmitT /\ a.ref = b.lastRef /\ Mark(d, m) = a
      /\ Credit(a) \in Int /\ Pace(a) \in Int
  <2>1. a \in AdmitT /\ a.ref = b.lastRef /\ Mark(d, m) = a
    BY <1>1, <1>3 DEF Mark, AdmitT
  <2> HIDE DEF a
  <2> QED
    BY <2>1, MarkInt
<1> HIDE DEF a, d
<1>5. /\ q \in Seq(AdmitT) /\ DOMAIN q = DOMAIN p \union {n} /\ Len(q) = n
      /\ \A i \in DOMAIN p : q[i] = p[i] /\ Taken(q, i) = Taken(p, i) + Cost
      /\ q[n] = a /\ Taken(q, n) = Cost
  BY <1>4, TakenAppend
<1>6. DOMAIN p = 1..Len(p) /\ Len(p) \in Nat
  OBVIOUS
<1> HIDE DEF q
<1>7. ASSUME NEW i \in DOMAIN q
      PROVE  /\ Taken(q, i) + d.tokens <= Cap + (Credit(a) - Credit(q[i]))
             /\ Pace(q[i]) <= Pace(a)
  <2>1. CASE i \in DOMAIN p
    <3>1. /\ Taken(p, i) + b.tokens <= Cap + (Credit(a) - Credit(p[i]))
          /\ Pace(p[i]) <= Pace(a)
      BY <2>1 DEF Covered, a
    <3>2. Taken(p, i) \in Int /\ Credit(p[i]) \in Int
      BY <2>1, TakenInt
    <3>3. q[i] = p[i] /\ Taken(q, i) = Taken(p, i) + Cost
      BY <1>5, <2>1
    <3> QED
      BY <1>1, <1>3, <1>4, <3>1, <3>2, <3>3
  <2>2. CASE i = n
    BY <1>1, <1>3, <1>4, <1>5, <2>2
  <2> QED
    BY <1>5, <2>1, <2>2
<1>8. Covered(q, d, m)
  BY <1>4, <1>7 DEF Covered
<1>9. Exact(q, d)
  <2>1. CASE b.tokens = Cap
    <3>1. Taken(q, n) + d.tokens = Cap + (d.lastRef - q[n].ref)
      BY <2>1, <1>1, <1>3, <1>4, <1>5
    <3> QED
      BY <3>1, <1>5 DEF Exact
  <2>2. ASSUME NEW i \in DOMAIN p,
               Taken(p, i) + b.tokens = Cap + (b.lastRef - p[i].ref)
        PROVE  Exact(q, d)
    <3>1. Taken(q, i) + d.tokens = Cap + (d.lastRef - q[i].ref)
      BY <2>2, <1>1, <1>3, <1>5, TakenInt
    <3> QED
      BY <3>1, <1>5 DEF Exact
  <2> QED
    BY <2>1, <2>2 DEF Exact
<1>10. Windows(q)
  <2> SUFFICES ASSUME NEW i \in DOMAIN q, NEW j \in DOMAIN q, i <= j
               PROVE  /\ Cost * (j - i + 1) <= Cap + (Credit(q[j]) - Credit(q[i]))
                      /\ Pace(q[i]) <= Pace(q[j])
    BY DEF Windows
  <2>1. CASE j = n
    <3>1. Cost * (j - i + 1) = Taken(q, i)
      BY <1>5, <2>1 DEF Taken
    <3>2. q[j] = a /\ d.tokens \in Nat
      BY <1>1, <1>3, <1>5, <2>1 DEF BucketT
    <3>3. Taken(q, i) \in Int /\ Credit(q[i]) \in Int
      BY <1>5, TakenInt
    <3>4. /\ Taken(q, i) + d.tokens <= Cap + (Credit(a) - Credit(q[i]))
          /\ Pace(q[i]) <= Pace(a)
      BY <1>7
    <3> QED
      BY <1>1, <1>4, <3>1, <3>2, <3>3, <3>4
  <2>2. CASE j \in DOMAIN p
    <3>1. i \in DOMAIN p
      BY <2>2, <1>5, <1>6
    <3> QED
      BY <2>2, <3>1, <1>5 DEF Windows
  <2> QED
    BY <2>1, <2>2, <1>5
<1> QED
  BY <1>3, <1>5, <1>8, <1>9, <1>10 DEF d, q, a
------------------------------------------------------------------------------
LEMMA InitInv == LimiterInit => LInv
<1> SUFFICES ASSUME LimiterInit PROVE LInv
  OBVIOUS
<1>1. DOMAIN buckets = {} /\ \A c \in Clients : passed[c] = <<>>
  BY DEF LimiterInit
<1>2. LimiterTypeOK
  BY <1>1 DEF LimiterInit, LimiterTypeOK
<1> QED
  BY <1>1, <1>2 DEF LimiterInit, LInv, WindowBound, Idle

\* A bucket that is pruned was idle.
LEMMA PrunedIdle ==
  ASSUME LInv, NEW c \in DOMAIN buckets, NEW now \in Nat, now <= clock,
         c \notin Unpruned(now)
  PROVE  Idle(passed[c], made[c])
<1> DEFINE p == passed[c]
           b == buckets[c]
           m == made[c]
           a == Mark(b, m)
<1>1. /\ clock \in Nat /\ p \in Seq(AdmitT) /\ m \in Nat
      /\ b \in BucketT /\ Covered(p, b, m)
  BY DEF LInv, LimiterTypeOK, BucketT, AdmitT
<1>2. b.lastRef \in Nat /\ b.tokens \in Nat
  BY <1>1, Constants DEF BucketT
<1>3. now > b.lastRef + IdleTTL
  BY <1>2, Constants DEF Unpruned
<1>4. /\ Windfall * m \in Int /\ Gap * m \in Int
      /\ Gap \in Int /\ Delay \in Nat /\ Cap \in Nat
      /\ b.lastRef + (Gap + Delay) <= clock
  BY <1>1, <1>2, <1>3, Constants
<1>5. Credit(a) = b.lastRef + Windfall * m /\ Pace(a) = b.lastRef - Gap * m
  BY DEF Credit, Pace, Mark
<1> HIDE DEF p, b, m, a
<1>6. ASSUME NEW i \in DOMAIN p
      PROVE  /\ Taken(p, i) + Gap + Delay
                  <= Cap + ((clock + Windfall * m) - Credit(p[i]))
             /\ Pace(p[i]) <= (clock - Gap * m) - (Gap + Delay)
  <2>1. Taken(p, i) \in Int /\ Credit(p[i]) \in Int /\ Pace(p[i]) \in Int
    BY <1>1, TakenInt
  <2>2. /\ Taken(p, i) + b.tokens <= Cap + (Credit(a) - Credit(p[i]))
        /\ Pace(p[i]) <= Pace(a)
    BY <1>1 DEF Covered, a
  <2>3. \A w, g, t, x, y, l, k \in Int :
          /\ l >= 0 /\ k + (Gap + Delay) <= clock
          /\ t + l <= Cap + ((k + w) - x) /\ y <= k - g
          => /\ t + Gap + Delay <= Cap + ((clock + w) - x)
             /\ y <= (clock - g) - (Gap + Delay)
    BY <1>1, <1>4
  <2>4. b.tokens \in Int /\ b.tokens >= 0 /\ b.lastRef \in Int
    BY <1>2
  <2>5. /\ Taken(p, i) + b.tokens
             <= Cap + ((b.lastRef + Windfall * m) - Credit(p[i]))
        /\ Pace(p[i]) <= b.lastRef - Gap * m
    BY <1>5, <2>2, Zenon
  <2> QED
    BY <1>4, <2>1, <2>3, <2>4, <2>5, Zenon
<1> QED
  BY <1>6 DEF Idle, p, m

\* After that a full bucket is covered by one windfall more.
LEMMA IdleCovers ==
  ASSUME NEW p \in Seq(AdmitT), NEW m \in Nat, Idle(p, m), clock \in Nat,
         NEW now \in Nat, clock <= now + Delay
  PROVE  Covered(p, [tokens |-> Cap, lastRef |-> now], m + 1)
<1> DEFINE b == [tokens |-> Cap, lastRef |-> now]
           a == Mark(b, m + 1)
<1>1. /\ Windfall * m \in Int /\ Gap * m \in Int
      /\ Gap \in Int /\ Delay \in Nat /\ Cap \in Nat /\ Windfall \in Nat
      /\ Cap <= Gap + Windfall
  BY Constants
<1>2. /\ Windfall * (m + 1) = Windfall * m + Windfall
      /\ Gap * (m + 1) = Gap * m + Gap
  BY Constants
<1>3. /\ Credit(a) = now + (Windfall * m + Windfall)
      /\ Pace(a) = now - (Gap * m + Gap)
  BY <1>2 DEF Credit, Pace, Mark
<1>4. b.tokens = Cap
  OBVIOUS
<1> HIDE DEF a, b
<1>5. ASSUME NEW i \in DOMAIN p
      PROVE  /\ Taken(p, i) + b.tokens <= Cap + (Credit(a) - Credit(p[i]))
             /\ Pace(p[i]) <= Pace(a)
  <2>1. Taken(p, i) \in Int /\ Credit(p[i]) \in Int /\ Pace(p[i]) \in Int
    BY TakenInt
  <2>2. /\ Taken(p, i) + Gap + Delay
             <= Cap + ((clock + Windfall * m) - Credit(p[i]))
        /\ Pace(p[i]) <= (clock - Gap * m) - (Gap + Delay)
    BY DEF Idle
  <2>3. \A w, g, t, x, y \in Int :
          /\ t + Gap + Delay <= Cap + ((clock + w) - x)
          /\ y <= (clock - g) - (Gap + Delay)
          => /\ t + Cap <= Cap + ((now + (w + Windfall)) - x)
             /\ y <= now - (g + Gap)
    BY <1>1
  <2>4. /\ Taken(p, i) + Cap
             <= Cap + ((now + (Windfall * m + Windfall)) - Credit(p[i]))
        /\ Pace(p[i]) <= now - (Gap * m + Gap)
    BY <1>1, <2>1, <2>2, <2>3, Zenon
  <2> QED
    BY <1>3, <1>4, <2>4, Zenon
<1> QED
  BY <1>5 DEF Covered, a, b

\* The bucket that allow works with covers the client's admissions, also if it
\* was made just now.
LEMMA BucketCovers ==
  ASSUME LInv, NEW r \in Requests, lpc[r] = "stamped"
  PROVE  LET b == Bucket(ip[r], stamp[r])
             m == Made(ip[r], stamp[r])
             p == passed[ip[r]]
         IN  /\ p \in Seq(AdmitT) /\ Windows(p) /\ m \in Nat
             /\ b \in BucketT /\ b.lastRef <= clock
             /\ Covered(p, b, m) /\ Exact(p, b)
<1> DEFINE c == ip[r]
           now == stamp[r]
           p == passed[c]
           b == Bucket(c, now)
           m == Made(c, now)
<1>1. /\ c \in Clients /\ now \in Nat /\ clock \in Nat
      /\ now <= clock /\ clock <= now + Delay
      /\ p \in Seq(AdmitT) /\ made[c] \in Nat /\ m \in Nat
  BY DEF LInv, LimiterTypeOK, AdmitT, Made
<1>2. Windows(p)
  BY <1>1 DEF LInv, WindowBound, Windows
<1>3. \A k \in DOMAIN buckets : buckets[k] \in BucketT
  BY DEF LInv, LimiterTypeOK, BucketT
<1>4. CASE c \in Unpruned(now)
  BY <1>1, <1>2, <1>3, <1>4 DEF Unpruned, Bucket, Made, LInv
<1>5. CASE c \notin Unpruned(now)
  <2>1. b = [tokens |-> Cap, lastRef |-> now] /\ m = made[c] + 1
    BY <1>5 DEF Bucket, Made
  <2>2. b \in BucketT /\ b.lastRef <= clock /\ Exact(p, b)
    BY <1>1, <2>1, Constants DEF BucketT, Exact
  <2>3. Idle(p, made[c])
    <3>1. CASE c \in DOMAIN buckets
      BY <1>1, <1>5, <3>1, PrunedIdle
    <3>2. CASE c \notin DOMAIN buckets
      BY <1>1, <3>2 DEF LInv
    <3> QED
      BY <3>1, <3>2
  <2>4. Covered(p, b, m)
    <3> HIDE DEF p, b, m, now
    <3> QED
      BY <1>1, <2>1, <2>3, IdleCovers
  <2> QED
    BY <1>1, <1>2, <2>2, <2>4
<1> QED
  BY <1>4, <1>5

\* The client of a request is left with bucket d, its m-th, and admissions q;
\* the others keep theirs or, pruned, have been idle.
LEMMA StoreKeeps ==
  ASSUME LInv, NEW r \in Requests, lpc[r] = "stamped",
         NEW d \in BucketT, d.lastRef <= clock, NEW m \in Nat,
         NEW q \in Seq(AdmitT), Covered(q, d, m), Exact(q, d), Windows(q),
         NEW to \in {"passed", "refused"},
         lpc' = [lpc EXCEPT ![r] = to],
         buckets' = Store(ip[r], d, stamp[r]),
         made' = [made EXCEPT ![ip[r]] = m],
         passed' = [passed EXCEPT ![ip[r]] = q],
         UNCHANGED <<clock, ip, stamp>>
  PROVE  LInv'
<1> DEFINE c == ip[r]
           now == stamp[r]
<1>1. /\ c \in Clients /\ now \in Nat /\ clock \in Nat /\ now <= clock
      /\ passed \in [Clients -> Seq(AdmitT)] /\ made \in [Clients -> Nat]
      /\ DOMAIN buckets \subseteq Clients
  BY DEF LInv, LimiterTypeOK, AdmitT
<1>2. /\ DOMAIN buckets' = Unpruned(now) \union {c}
      /\ Unpruned(now) \subseteq DOMAIN buckets
      /\ buckets'[c] = d
      /\ \A k \in Unpruned(now) \ {c} : buckets'[k] = buckets[k]
  BY DEF Store, Unpruned
<1>3. \A k \in DOMAIN buckets : buckets[k] \in BucketT
  BY DEF LInv, LimiterTypeOK, BucketT
<1>4. \A k \in DOMAIN buckets' : buckets'[k] \in BucketT
  BY <1>2, <1>3
<1>5. /\ passed'[c] = q /\ made'[c] = m
      /\ \A k \in Clients \ {c} : passed'[k] = passed[k] /\ made'[k] = made[k]
  BY <1>1
<1>6. LimiterTypeOK'
  <2>1. buckets' \in [DOMAIN buckets' -> BucketT]
    BY <1>4 DEF Store
  <2>2. passed' \in [Clients -> Seq(AdmitT)] /\ made' \in [Clients -> Nat]
    BY <1>1
  <2> QED
    BY <1>1, <1>2, <2>1, <2>2 DEF LInv, LimiterTypeOK, BucketT, AdmitT
<1>7. WindowBound'
  <2>1. \A k \in Clients : Windows(passed[k])
    BY DEF LInv, WindowBound, Windows
  <2>2. \A k \in Clients : Windows(passed'[k])
    BY <2>1, <1>5
  <2> QED
    BY <2>2 DEF WindowBound, Windows
<1>8. \A s \in Requests : lpc'[s] = "stamped" =>
        stamp'[s] <= clock' /\ clock' <= stamp'[s] + Delay
  BY DEF LInv, LimiterTypeOK
<1>9. ASSUME NEW k \in DOMAIN buckets'
      PROVE  /\ buckets'[k].lastRef <= clock'
             /\ Covered(passed'[k], buckets'[k], made'[k])
             /\ Exact(passed'[k], buckets'[k])
  <2>1. CASE k = c
    BY <2>1, <1>2, <1>5
  <2>2. CASE k # c
    <3>1. k \in DOMAIN buckets /\ k \in Clients /\ buckets'[k] = buckets[k]
          /\ passed'[k] = passed[k] /\ made'[k] = made[k]
      BY <1>1, <1>2, <1>5, <2>2
    <3> QED
      BY <3>1 DEF LInv
  <2> QED
    BY <2>1, <2>2
<1>10. ASSUME NEW k \in Clients \ DOMAIN buckets'
       PROVE  Idle(passed[k], made[k])'
  <2>1. /\ k # c /\ passed'[k] = passed[k] /\ made'[k] = made[k]
        /\ k \notin Unpruned(now) /\ clock' = clock
    BY <1>2, <1>5
  <2>2. Idle(passed[k], made[k])
    <3>1. CASE k \notin DOMAIN buckets
      BY <3>1 DEF LInv
    <3>2. CASE k \in DOMAIN buckets
      BY <1>1, <2>1, <3>2, PrunedIdle
    <3> QED
      BY <3>1, <3>2
  <2> QED
    BY <2>1, <2>2 DEF Idle
<1> QED
  BY <1>6, <1>7, <1>8, <1>9, <1>10, Zenon DEF LInv

\* What allow finds after it refilled the bucket.
LEMMA RefilledCovers ==
  ASSUME LInv, NEW r \in Requests, lpc[r] = "stamped"
  PROVE  LET f == Refill(Bucket(ip[r], stamp[r]), stamp[r])
             m == Made(ip[r], stamp[r])
             p == passed[ip[r]]
         IN  /\ p \in Seq(AdmitT) /\ Windows(p) /\ m \in Nat
             /\ f \in BucketT /\ f.lastRef <= clock
             /\ Covered(p, f, m) /\ Exact(p, f)
<1> DEFINE b == Bucket(ip[r], stamp[r])
           m == Made(ip[r], stamp[r])
           p == passed[ip[r]]
<1>1. /\ p \in Seq(AdmitT) /\ Windows(p) /\ m \in Nat
      /\ b \in BucketT /\ b.lastRef <= clock
      /\ Covered(p, b, m) /\ Exact(p, b)
  BY BucketCovers
<1>2. stamp[r] \in Nat /\ stamp[r] <= clock
  BY DEF LInv, LimiterTypeOK
<1> HIDE DEF b, m, p
<1>3. /\ Refill(b, stamp[r]) \in BucketT
      /\ Refill(b, stamp[r]).lastRef \in {b.lastRef, stamp[r]}
      /\ Covered(p, Refill(b, stamp[r]), m) /\ Exact(p, Refill(b, stamp[r]))
  BY <1>1, <1>2, RefillKeeps
<1> QED
  BY <1>1, <1>2, <1>3 DEF b, m, p

\* Every step keeps the invariant.
LEMMA NextInv == LInv /\ [LimiterNext]_limiterVars => LInv'
<1> SUFFICES ASSUME LInv, [LimiterNext]_limiterVars PROVE LInv'
  OBVIOUS
<1>1. ASSUME NEW r \in Requests, Stamp(r) PROVE LInv'
  <2>1. LimiterTypeOK' /\ WindowBound'
    BY <1>1 DEF Stamp, LInv, LimiterTypeOK, WindowBound
  <2>2. \A s \in Requests : lpc'[s] = "stamped" =>
          stamp'[s] <= clock' /\ clock' <= stamp'[s] + Delay
    BY <1>1, Constants DEF Stamp, LInv, LimiterTypeOK
  <2> QED
    BY <1>1, <2>1, <2>2, Zenon DEF Stamp, LInv, Idle
<1>2. ASSUME NEW r \in Requests, Allow(r) PROVE LInv'
  <2> DEFINE f == Refill(Bucket(ip[r], stamp[r]), stamp[r])
             p == passed[ip[r]]
             m == Made(ip[r], stamp[r])
             d == [f EXCEPT !.tokens = @ - Cost]
             q == Append(p, Mark(f, m))
  <2>1. lpc[r] = "stamped" /\ f.tokens >= Cost
    BY <1>2 DEF Allow
  <2>2. /\ p \in Seq(AdmitT) /\ Windows(p) /\ f \in BucketT
        /\ f.lastRef <= clock /\ m \in Nat
        /\ Covered(p, f, m) /\ Exact(p, f)
    BY <2>1, RefilledCovers
  <2>3. /\ d \in BucketT /\ d.lastRef = f.lastRef /\ q \in Seq(AdmitT)
        /\ Covered(q, d, m) /\ Exact(q, d) /\ Windows(q)
    <3> HIDE DEF f, p, m
    <3> QED
      BY <2>1, <2>2, TakeKeeps, Zenon
  <2>4. /\ lpc' = [lpc EXCEPT ![r] = "passed"]
        /\ buckets' = Store(ip[r], d, stamp[r])
        /\ made' = [made EXCEPT ![ip[r]] = m]
        /\ passed' = [passed EXCEPT ![ip[r]] = q]
        /\ UNCHANGED <<clock, ip, stamp>>
    BY <1>2, Zenon DEF Allow, Mark
  <2> HIDE DEF d, q, f, m
  <2> QED
    BY <2>1, <2>2, <2>3, <2>4, StoreKeeps
<1>3. ASSUME NEW r \in Requests, Refuse(r) PROVE LInv'
  <2> DEFINE f == Refill(Bucket(ip[r], stamp[r]), stamp[r])
             m == Made(ip[r], stamp[r])
             p == passed[ip[r]]
  <2>1. lpc[r] = "stamped"
    BY <1>3 DEF Refuse
  <2>2. /\ p \in Seq(AdmitT) /\ Windows(p) /\ f \in BucketT
        /\ f.lastRef <= clock /\ m \in Nat
        /\ Covered(p, f, m) /\ Exact(p, f)
    BY <2>1, RefilledCovers
  <2>3. passed' = [passed EXCEPT ![ip[r]] = p]
    BY <1>3 DEF Refuse, LInv, LimiterTypeOK
  <2>4. /\ lpc' = [lpc EXCEPT ![r] = "refused"]
        /\ buckets' = Store(ip[r], f, stamp[r])
        /\ made' = [made EXCEPT ![ip[r]] = m]
        /\ UNCHANGED <<clock, ip, stamp>>
    BY <1>3, Zenon DEF Refuse
  <2> HIDE DEF f, m, p
  <2> QED
    BY <2>1, <2>2, <2>3, <2>4, StoreKeeps
<1>4. ASSUME Tick PROVE LInv'
  <2>1. /\ clock' = clock + 1 /\ clock \in Nat
        /\ UNCHANGED <<lpc, ip, stamp, buckets, made, passed>>
    BY <1>4 DEF Tick, LInv, LimiterTypeOK
  <2>2. LimiterTypeOK' /\ WindowBound'
    BY <2>1 DEF LInv, LimiterTypeOK, WindowBound
  <2>3. \A s \in Requests : lpc'[s] = "stamped" =>
          stamp'[s] <= clock' /\ clock' <= stamp'[s] + Delay
    BY <1>4, <2>1, Constants DEF Tick, LInv, LimiterTypeOK
  <2>4. ASSUME NEW c \in DOMAIN buckets'
        PROVE  /\ buckets'[c].lastRef <= clock'
               /\ Covered(passed'[c], buckets'[c], made'[c])
               /\ Exact(passed'[c], buckets'[c])
    BY <2>1 DEF LInv, LimiterTypeOK
  <2>5. ASSUME NEW c \in Clients \ DOMAIN buckets'
        PROVE  Idle(passed[c], made[c])'
    <3> DEFINE p == passed[c]
               m == made[c]
    <3>1. p \in Seq(AdmitT) /\ m \in Nat /\ Idle(p, m)
      BY <2>1 DEF LInv, LimiterTypeOK, AdmitT
    <3>2. p' = p /\ m' = m
      BY <2>1
    <3> HIDE DEF p, m
    <3>3. /\ Windfall * m \in Int /\ Gap * m \in Int /\ Cap \in Int
          /\ Gap \in Int /\ Delay \in Int
      BY <3>1, Constants
    <3>4. ASSUME NEW i \in DOMAIN p
          PROVE  /\ Taken(p, i) + Gap + Delay
                      <= Cap + ((clock' + Windfall * m) - Credit(p[i]))
                 /\ Pace(p[i]) <= (clock' - Gap * m) - (Gap + Delay)
      <4>1. Taken(p, i) \in Int /\ Credit(p[i]) \in Int /\ Pace(p[i]) \in Int
        BY <3>1, TakenInt
      <4>2. /\ Taken(p, i) + Gap + Delay
                 <= Cap + ((clock + Windfall * m) - Credit(p[i]))
            /\ Pace(p[i]) <= (clock - Gap * m) - (Gap + Delay)
        BY <3>1 DEF Idle
      <4>3. \A w, g, t, x, y \in Int :
              /\ t + Gap + Delay <= Cap + ((clock + w) - x)
              /\ y <= (clock - g) - (Gap + Delay)
              => /\ t + Gap + Delay <= Cap + ((clock' + w) - x)
                 /\ y <= (clock' - g) - (Gap + Delay)
        BY <2>1, <3>3
      <4> QED
        BY <3>3, <4>1, <4>2, <4>3
    <3>5. (\A i \in DOMAIN p :
             /\ Taken(p, i) + Gap + Delay
                  <= Cap + ((clock + Windfall * m) - Credit(p[i]))
             /\ Pace(p[i]) <= (clock - Gap * m) - (Gap + Delay))'
      BY <3>2, <3>4
    <3> QED
      BY <3>5 DEF Idle, p, m
  <2> QED
    BY <2>2, <2>3, <2>4, <2>5, Zenon DEF LInv
<1>5. CASE UNCHANGED limiterVars
  BY <1>5, Zenon DEF limiterVars, LInv, LimiterTypeOK, WindowBound, Idle
<1> QED
  BY <1>1, <1>2, <1>3, <1>4, <1>5 DEF LimiterNext

------------------------------------------------------------------------------
(* Every variable has its type; in particular no refill takes a bucket over  *)
(* the burst and no admission below zero.                                    *)
THEOREM LimiterTypeCorrect == LimiterSpec => []LimiterTypeOK
<1>1. LInv => LimiterTypeOK
  BY DEF LInv
<1> QED
  BY <1>1, InitInv, NextInv, PTL DEF LimiterSpec

(* No client ever gets more than the burst and the rate allow and a windfall *)
(* per bucket that was thrown away and made anew, of which there is one in a *)
(* Gap of time, although the time stamps of its requests reach the bucket    *)
(* out of order: for every rate, burst and idle time.                        *)
THEOREM RateIsBounded == LimiterSpec => []WindowBound
<1>1. LInv => WindowBound
  BY DEF LInv
<1> QED
  BY <1>1, InitInv, NextInv, PTL DEF LimiterSpec

(* Where an idle bucket is full again before it can be pruned, the documented *)
(* rate and burst are kept to the letter.                                    *)
THEOREM RateIsKeptIfFullWhenPruned ==
  LimiterSpec => [](Cap + Delay <= IdleTTL => SustainedRate)
<1>1. LInv => (Cap + Delay <= IdleTTL => SustainedRate)
  <2> SUFFICES ASSUME LInv, Cap + Delay <= IdleTTL,
                      NEW c \in Clients, NEW i \in DOMAIN passed[c],
                      NEW j \in DOMAIN passed[c], i <= j
               PROVE  Cost * (j - i + 1)
                        <= Cap + (passed[c][j].ref - passed[c][i].ref)
    BY DEF SustainedRate
  <2>1. Windfall = 0
    BY Constants DEF Windfall, Gap
  <2>2. passed[c] \in Seq(AdmitT)
    BY DEF LInv, LimiterTypeOK, AdmitT
  <2>3. \A a \in AdmitT : Credit(a) = a.ref
    BY <2>1 DEF Credit, AdmitT
  <2>4. /\ Credit(passed[c][i]) = passed[c][i].ref
        /\ Credit(passed[c][j]) = passed[c][j].ref
    BY <2>2, <2>3, TakenInt
  <2>5. Cost * (j - i + 1)
          <= Cap + (Credit(passed[c][j]) - Credit(passed[c][i]))
    BY DEF LInv, WindowBound
  <2> QED
    BY <2>4, <2>5, Zenon
<1> QED
  BY <1>1, InitInv, NextInv, PTL DEF LimiterSpec

(* And no client gets less: a refused request would have been one too many   *)
(* since some earlier admission, unless the burst is 0.                      *)
THEOREM RefusalsAreDue == LimiterSpec => RefusedOnlyIfSpent
<1> DEFINE Due == \A r \in Requests :
                    lpc[r] = "stamped" /\ lpc'[r] = "refused" =>
                      Cap = 0 \/ OneTooMany(r, Cap)
<1>1. LInv /\ [LimiterNext]_limiterVars => [Due]_limiterVars
  <2> SUFFICES ASSUME LInv, LimiterNext, NEW r \in Requests,
                      lpc[r] = "stamped", lpc'[r] = "refused"
               PROVE  Cap = 0 \/ OneTooMany(r, Cap)
    BY Zenon
  <2>1. Refuse(r)
    <3>1. lpc \in [Requests -> {"new", "stamped", "refused", "passed"}]
      BY DEF LInv, LimiterTypeOK
    <3>2. ~Tick /\ \A s \in Requests : ~Stamp(s) /\ ~Allow(s)
                                       /\ (Refuse(s) => s = r)
      BY <3>1 DEF Tick, Stamp, Allow, Refuse
    <3> QED
      BY <3>2 DEF LimiterNext
  <2> DEFINE f == Refill(Bucket(ip[r], stamp[r]), stamp[r])
             p == passed[ip[r]]
  <2>2. buckets'[ip[r]] = f /\ f.tokens < Cost
    BY <2>1 DEF Refuse, Store
  <2>3. p \in Seq(AdmitT) /\ f \in BucketT /\ Exact(p, f)
    BY RefilledCovers
  <2>4. f.tokens \in Int /\ f.lastRef \in Int /\ Cap \in Int /\ Cost \in Int
    BY <2>3, Constants DEF BucketT
  <2> HIDE DEF f, p
  <2>5. CASE f.tokens = Cap
    BY <2>2, <2>5, CapWhole
  <2>6. ASSUME NEW i \in DOMAIN p,
               Taken(p, i) + f.tokens = Cap + (f.lastRef - p[i].ref)
        PROVE  Cost * (Len(p) - i + 2) > Cap + (f.lastRef - p[i].ref)
    <3>1. Taken(p, i) \in Int /\ p[i].ref \in Int /\ i \in Int /\ Len(p) \in Int
      BY <2>3, TakenInt
    <3>2. Cost * (Len(p) - i + 2) = Taken(p, i) + Cost
      <4>1. \A n \in Int : Cost * (n + 1) = Cost * n + Cost
        BY Constants
      <4>2. Len(p) - i + 2 = (Len(p) - i + 1) + 1 /\ Len(p) - i + 1 \in Int
        BY <3>1
      <4> QED
        BY <4>1, <4>2 DEF Taken
    <3>3. \A t, x \in Int : t + f.tokens = Cap + (f.lastRef - x)
                             => t + Cost > Cap + (f.lastRef - x)
      BY <2>2, <2>4
    <3> QED
      BY <2>6, <3>1, <3>2, <3>3, Zenon
  <2>7. ASSUME NEW i \in DOMAIN p,
               Taken(p, i) + f.tokens = Cap + (f.lastRef - p[i].ref)
        PROVE  OneTooMany(r, Cap)
    BY <2>2, <2>6, <2>7 DEF OneTooMany, p
  <2> QED
    BY <2>3, <2>5, <2>7 DEF Exact
<1> QED
  BY <1>1, InitInv, NextInv, PTL DEF LimiterSpec, RefusedOnlyIfSpent
=============================================================================
