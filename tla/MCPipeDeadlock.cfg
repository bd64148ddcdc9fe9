\* One exec; three units of output are more than the cap and the pipe take.
CONSTANTS
  Execs = 1
  CpuLimit = 1
  MaxCpu = 2
  OutputCap = 0
  PipeSize = 1
  MaxOutput = 3
  ExitCodes <- OwnCodes
  Cgroups = {"none"}
  ReadsMayFail = FALSE
SPECIFICATION Spec
INVARIANT
  NoPipeDeadlock
