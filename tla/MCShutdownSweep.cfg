\* A second signal during the drain.
CONSTANTS
  Reqs = {r1, r2, r3}
  MaxJobs = 1
  MaxQueued = 1
  MaxSignals = 2
SPECIFICATION ShutdownSpec
INVARIANT
  SweepOnlyWhenDrained
SYMMETRY Symmetry
