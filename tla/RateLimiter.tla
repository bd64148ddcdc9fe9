----------------------------- MODULE RateLimiter -----------------------------
(***************************************************************************)
(* The per-client token buckets of internal/api/ratelimit.go.  allow runs  *)
(* under one mutex and is one step.  The time it works with is read by the *)
(* middleware before the lock, so requests take the lock in another order  *)
(* than that of their time stamps, and buckets see time go backwards.      *)
(*                                                                         *)
(* Tokens are counted in units that make one unit flow in per tick of the  *)
(* clock; a request costs Cost units, so rps is Second / Cost.  The code's *)
(* floating point numbers are exact here.  With rps <= 0 there is no       *)
(* limiter and nothing to model.                                           *)
(***************************************************************************)
EXTENDS Integers, Sequences

CONSTANTS Requests,  \* the POST /run requests
          Clients,   \* the addresses clientIP returns
          Second,    \* ticks per second
          Cost,      \* ticks in which one token flows in
          EnvBurst,  \* GOBOXD_RATE_BURST, 0 if it is not set or not positive
          IdleTTL,   \* bucketIdleTTL in ticks
          Delay,     \* bound: ticks between a request's time stamp and its lock
          MaxTime    \* bound: the last tick

\* burst
loadRateLimit == IF EnvBurst > 0 THEN EnvBurst ELSE (Second \div Cost) * 2

Cap == loadRateLimit * Cost

ASSUME LimiterAssumption ==
  /\ Second \in Nat \ {0} /\ Cost \in Nat \ {0} /\ EnvBurst \in Nat
  /\ IdleTTL \in Nat /\ Delay \in Nat /\ MaxTime \in Nat

VARIABLES
  clock,
  lpc,       \* where the middleware is with each request
  ip, stamp, \* the request's client, and its `now`
  buckets,   \* a function on the clients that have a bucket
  made,      \* history: how many buckets each client has had
  passed     \* history: per client, lastRef at each admission and which of
             \* its buckets admitted it

limiterVars == <<clock, lpc, ip, stamp, buckets, made, passed>>

LimiterInit ==
  /\ clock = 0
  /\ lpc = [r \in Requests |-> "new"]
  /\ ip \in [Requests -> Clients]
  /\ stamp = [r \in Requests |-> 0]
  /\ buckets = [c \in {} |-> [tokens |-> Cap, lastRef |-> 0]]
  /\ made = [c \in Clients |-> 0]
  /\ passed = [c \in Clients |-> <<>>]

\* clientIP(r) and time.Now(), before the lock
Stamp(r) ==
  /\ lpc[r] = "new"
  /\ lpc' = [lpc EXCEPT ![r] = "stamped"]
  /\ stamp' = [stamp EXCEPT ![r] = clock]
  /\ UNCHANGED <<clock, ip, buckets, made, passed>>

\* The buckets that are left after pruning at time now.
Unpruned(now) == {c \in DOMAIN buckets : now <= buckets[c].lastRef + IdleTTL}

Bucket(c, now) == IF c \in Unpruned(now)
                  THEN buckets[c]
                  ELSE [tokens |-> Cap, lastRef |-> now]

\* How many buckets client c has had after that.
Made(c, now) == IF c \in Unpruned(now) THEN made[c] ELSE made[c] + 1

\* lastRef is set whether or not time went forward.
RefillSetsBack(b, now) ==
  LET elapsed == IF now > b.lastRef THEN now - b.lastRef ELSE 0
      sum == b.tokens + elapsed
  IN  [tokens |-> IF sum > Cap THEN Cap ELSE sum, lastRef |-> now]

\* What flows in is lost unless it is a whole token.
RefillWhole(b, now) ==
  IF now > b.lastRef
  THEN LET sum == b.tokens + ((now - b.lastRef) \div Cost) * Cost
       IN  [tokens |-> IF sum > Cap THEN Cap ELSE sum, lastRef |-> now]
  ELSE b

\* A stamp that is not after lastRef neither refills nor sets the time back.
Refill(b, now) ==
  IF now > b.lastRef
  THEN LET sum == b.tokens + (now - b.lastRef)
       IN  [tokens |-> IF sum > Cap THEN Cap ELSE sum, lastRef |-> now]
  ELSE b

\* The new buckets: without the pruned ones, and b for client c.
Store(c, b, now) == [k \in Unpruned(now) \union {c} |->
                       IF k = c THEN b ELSE buckets[k]]

\* allow returns true
Allow(r) ==
  LET b == Refill(Bucket(ip[r], stamp[r]), stamp[r])
      m == Made(ip[r], stamp[r])
  IN  /\ lpc[r] = "stamped"
      /\ b.tokens >= Cost
      /\ buckets' = Store(ip[r], [b EXCEPT !.tokens = @ - Cost], stamp[r])
      /\ made' = [made EXCEPT ![ip[r]] = m]
      /\ passed' = [passed EXCEPT ![ip[r]] =
                      Append(@, [ref |-> b.lastRef, nth |-> m])]
      /\ lpc' = [lpc EXCEPT ![r] = "passed"]
      /\ UNCHANGED <<clock, ip, stamp>>

\* allow returns false, and the middleware answers 429
Refuse(r) ==
  LET b == Refill(Bucket(ip[r], stamp[r]), stamp[r])
  IN  /\ lpc[r] = "stamped"
      /\ b.tokens < Cost
      /\ buckets' = Store(ip[r], b, stamp[r])
      /\ made' = [made EXCEPT ![ip[r]] = Made(ip[r], stamp[r])]
      /\ lpc' = [lpc EXCEPT ![r] = "refused"]
      /\ UNCHANGED <<clock, ip, stamp, passed>>

\* External: time passes; no request waits for the mutex longer than Delay.
Tick == /\ clock < MaxTime
        /\ \A r \in Requests : lpc[r] = "stamped" => clock < stamp[r] + Delay
        /\ clock' = clock + 1
        /\ UNCHANGED <<lpc, ip, stamp, buckets, made, passed>>

LimiterNext == \/ \E r \in Requests : Stamp(r) \/ Allow(r) \/ Refuse(r)
               \/ Tick

LimiterSpec == LimiterInit /\ [][LimiterNext]_limiterVars

------------------------------------------------------------------------------
\* Every variable has its type; a bucket never holds more than the burst.
LimiterTypeOK ==
  /\ clock \in Nat
  /\ lpc \in [Requests -> {"new", "stamped", "refused", "passed"}]
  /\ ip \in [Requests -> Clients]
  /\ stamp \in [Requests -> Nat]
  /\ DOMAIN buckets \subseteq Clients
  /\ buckets \in [DOMAIN buckets -> [tokens : 0..Cap, lastRef : Nat]]
  /\ made \in [Clients -> Nat]
  /\ passed \in [Clients -> Seq([ref : Nat, nth : Nat])]

\* A bucket is made anew no earlier than Gap after the last use of the one that
\* was pruned, when that would have held Gap more, and is full.
Gap == IdleTTL - Delay + 1
Windfall == IF Cap > Gap THEN Cap - Gap ELSE 0

\* The time of an admission and what its bucket and earlier ones had for free;
\* that time without what the making of the buckets took at least.
Credit(a) == a.ref + Windfall * a.nth
Pace(a) == a.ref - Gap * a.nth

(* The sustained rate and the burst: in any stretch of a client's admitted   *)
(* requests there are at most as many as the burst and the rate allow for    *)
(* the time it spans, whatever order the requests take the lock in; where    *)
(* the client's bucket was pruned and made anew, a windfall more, but that   *)
(* happens no more than once in a Gap of time.  There is no windfall if an   *)
(* idle bucket is full again before it is pruned.                            *)
WindowBound ==
  \A c \in Clients : \A i, j \in DOMAIN passed[c] :
     i <= j => /\ Cost * (j - i + 1)
                    <= Cap + (Credit(passed[c][j]) - Credit(passed[c][i]))
               /\ Pace(passed[c][i]) <= Pace(passed[c][j])

\* r, whose bucket holds too little, would be one too many for a burst of cap
\* and the time since some admission.
OneTooMany(r, cap) ==
  LET p == passed[ip[r]]
      ref == buckets'[ip[r]].lastRef
  IN  \E i \in DOMAIN p : Cost * (Len(p) - i + 2) > cap + (ref - p[i].ref)

(* No client gets less than that: a request is refused only if it would have *)
(* been one too many for the time since some admitted request of its client, *)
(* measured to the latest time its bucket has seen, or if the burst is 0.    *)
RefusedOnlyIfSpent ==
  [][\A r \in Requests :
       lpc[r] = "stamped" /\ lpc'[r] = "refused" =>
         Cap = 0 \/ OneTooMany(r, Cap)]_limiterVars

(* What the environment variables are said to mean: at most the burst and    *)
(* the sustained rate per client, in any stretch of time.  A bucket that is  *)
(* pruned before it would be full again breaks it.                           *)
SustainedRate ==
  \A c \in Clients : \A i, j \in DOMAIN passed[c] :
     i <= j => Cost * (j - i + 1)
                 <= Cap + (passed[c][j].ref - passed[c][i].ref)
=============================================================================
