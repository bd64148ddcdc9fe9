\* Two waiters and a newcomer can race for the one slot, or the newcomer finds
\* the queue full.
CONSTANTS
  Reqs = {r1, r2, r3, r4}
  MaxJobs = 1
  MaxQueued = 2
SPECIFICATION FairSpec
INVARIANT CountsExact
INVARIANT NoLostWakeup
INVARIANT RecordedHonestly
PROPERTY ImplementsJobAdmission
PROPERTY EveryRequestEnds
\* Nothing happens any more when every request is answered and Stop was called.
CHECK_DEADLOCK FALSE
