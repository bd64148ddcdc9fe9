\* Two tests in one jail; two units of output are one more than cap and reader take.
CONSTANTS
  Execs = 2
  CpuLimit = 1
  MaxCpu = 1
  OutputCap = 0
  PipeSize = 1
  MaxOutput = 2
  ExitCodes <- Codes
  Cgroups = {"none", "memory", "cpu"}
  ReadsMayFail = TRUE
SPECIFICATION FairSpec
INVARIANT TypeOK
INVARIANT VerdictTruthful
PROPERTY EveryExecEnds
