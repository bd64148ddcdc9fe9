\* One request per two ticks, the default burst of two, two clients: five
\* requests empty a bucket, refill it in part, come in any order and let an
\* idle bucket be pruned when it would not be full again.
CONSTANTS
  Requests = {r1, r2, r3, r4, r5}
  Clients = {a, b}
  Second = 2
  Cost = 2
  EnvBurst = 0
  IdleTTL = 3
  Delay = 1
  MaxTime = 9
SPECIFICATION LimiterSpec
SYMMETRY Symmetry
INVARIANT WindowBound
PROPERTY RefusedOnlyIfSpent
\* Nothing happens any more when every request is answered.
CHECK_DEADLOCK FALSE
