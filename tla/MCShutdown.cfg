\* One running, one queued and one refused request; a second signal may come.
CONSTANTS
  Reqs = {r1, r2, r3}
  MaxJobs = 1
  MaxQueued = 1
  MaxSignals = 2
SPECIFICATION ShutdownFairSpec
INVARIANT ShutdownTypeOK
INVARIANT SweepMissesOnlyUncounted
PROPERTY ShutdownCompletes
