\* One run with a template jail and a test jail, two crashes, so that the
\* second may come while the start still sweeps what the first one left, and
\* one failing call; a dir is an orphan after one unit of time.
CONSTANTS
  Reqs = {r1}
  NTests = 1
  Compiled = {FALSE}
  MaxParallels = {2}
  MaxJobs = 1
  NumCPU = 2
  Verdicts = {}
  MaxFaults = 1
  OrphanAge = 1
  MaxTime = 2
  MaxCrashes = 2
SPECIFICATION RestartSpec
INVARIANT OnlyRecentLeftovers
\* Nothing happens any more when every run is over.
CHECK_DEADLOCK FALSE
