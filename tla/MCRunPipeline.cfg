\* One run, sequential or parallel: three tests on two cpus, so that a test
\* waits for a semaphore token, a pool of three uids, and one failing call.
CONSTANTS
  Reqs = {r1}
  NTests = 3
  Compiled = {TRUE}
  MaxParallels = {1, 3}
  MaxJobs = 1
  NumCPU = 2
  Verdicts = {"runtime_error"}
  MaxFaults = 1
SPECIFICATION FairSpec
INVARIANT TypeOK
INVARIANT PoolNeverExhausted
INVARIANT JailsHaveOwnUid
INVARIANT TemplateOutlivesTests
INVARIANT ResponseFaithful
INVARIANT NothingLeftBehind
PROPERTY EveryRunEnds
\* Nothing happens any more when every run is over.
CHECK_DEADLOCK FALSE
