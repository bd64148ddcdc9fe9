------------------------------ MODULE ExecJail ------------------------------
(***************************************************************************)
(* The execution of the tests of a run in one jail, one after the other:   *)
(* execJail (internal/runner/exec.go), the goroutine of startJailPoller    *)
(* and the classification by runSingleTest and computeTestStatus           *)
(* (internal/runner/runner.go), with the counters of a jail's cgroup       *)
(* (internal/cgroupv2/cgroupv2.go).                                        *)
(*                                                                         *)
(* nsjail, the kernel and the program are external.  From the way the code *)
(* uses them: nsjail passes on the program's exit code, or 137 when a      *)
(* signal killed it; it removes its cgroup leaf when it exits by itself    *)
(* and leaves it when it is killed; the kernel counts OOM kills in the     *)
(* leaf; a pipe holds PipeSize units, and a program blocks on a full one.  *)
(*                                                                         *)
(* Three goroutines run at once: execJail, the poller and os/exec's        *)
(* watcher, which kills nsjail when the context is done.                   *)
(***************************************************************************)
EXTENDS Naturals, FiniteSets

CONSTANTS
  Execs,            \* bound: how many tests are executed in the jail
  CpuLimit,         \* the cpu limit, 0 for none
  MaxCpu,           \* bound: the cpu time a program may use
  OutputCap,        \* the output cap of readCapped
  PipeSize,         \* what the pipe holds
  MaxOutput,        \* bound: how much a program may want to write
  ExitCodes,        \* the codes a program may exit with
  Cgroups,          \* which jails there are: "none" (rlimits only), "memory"
                    \* and "cpu" (the cpu controller is active as well)
  ReadsMayFail      \* whether reading the counters of an exec may fail

ASSUME ExecAssumption ==
  /\ Execs \in Nat \ {0}
  /\ CpuLimit \in Nat /\ MaxCpu \in Nat
  /\ OutputCap \in Nat /\ PipeSize \in Nat \ {0} /\ MaxOutput \in Nat
  /\ ExitCodes \subseteq 0..255 /\ 0 \in ExitCodes
  /\ Cgroups \subseteq {"none", "memory", "cpu"}
  /\ ReadsMayFail \in BOOLEAN

VARIABLES
  cgroup,      \* jail.cg: one of Cgroups
  ctxErr,      \* ctx.Err(): "nil", "Canceled" or "DeadlineExceeded"
  n,           \* the number of the current exec
  epc,         \* where execJail and its caller are
  baselineOK, cpuBase, oomBase,   \* what execJail measured before Start
  readFailed,  \* a baseline or the cpu time of this exec could not be read
  oomKilled, cpuKilled,           \* execJail's outcome
  ppc,         \* the poller: "off", "oom" or "cpu", the check it does next
  isOOMKill, isCPUKill,           \* the flags the poller shares with execJail
  cpuUsage,    \* cpu.stat of the jail, cumulative
  leaves,      \* oom_kill of each NSJAIL leaf that exists, by exec
  prog,        \* the program: "none", "running" or "dead"
  nsjail,      \* nsjail: "none", "running", "exited" or "killed"
  code,        \* the exit code nsjail has or will have
  execCpu,     \* cpu time of this exec
  unwritten, written, readBytes,  \* the program's output
  wall,        \* the wall clock limit has been reached
  oomInExec,   \* the kernel killed for memory during this exec
  status       \* the status of each test, "none" before it has one

ctxVars == <<cgroup, ctxErr, wall>>
execVars == <<n, epc, baselineOK, cpuBase, oomBase, readFailed,
              oomKilled, cpuKilled>>
pollVars == <<ppc, isOOMKill, isCPUKill>>
progVars == <<cpuUsage, leaves, prog, nsjail, code, execCpu,
              unwritten, written, readBytes, oomInExec>>
vars == <<ctxVars, execVars, pollVars, progVars, status>>

Init == /\ cgroup \in Cgroups
        /\ ctxErr = "nil" /\ wall = FALSE
        /\ n = 1 /\ epc = "start"
        /\ baselineOK = FALSE /\ cpuBase = 0 /\ oomBase = 0 /\ readFailed = FALSE
        /\ oomKilled = FALSE /\ cpuKilled = FALSE
        /\ ppc = "off" /\ isOOMKill = FALSE /\ isCPUKill = FALSE
        /\ cpuUsage = 0 /\ leaves = [e \in {} |-> 0]
        /\ prog = "none" /\ nsjail = "none" /\ code = 0
        /\ execCpu = 0 /\ unwritten = 0 /\ written = 0 /\ readBytes = 0
        /\ oomInExec = FALSE
        /\ status = [e \in 1..Execs |-> "none"]

------------------------------------------------------------------------------
(* The counters of the jail's cgroup *)

\* The leaves a scan of the jail's directory reads: a directory or a leaf that
\* cannot be read, or parsed, counts for nothing.
ReadableLeaves == IF ReadsMayFail THEN SUBSET DOMAIN leaves ELSE {DOMAIN leaves}

\* The sum of oom_kill over the leaves that are read: as many kills as each of
\* them counts.
OOMKills(read) == Cardinality(UNION {{e} \X (1..leaves[e]) : e \in read})

OOMKillsSince(read, base) == OOMKills(read) > base

\* nsjailArgs passes --rlimit_cpu only when the cgroup cannot measure cpu time.
RlimitArmed == CpuLimit > 0 /\ cgroup # "cpu"

\* The poller compares cpu usage only with a limit and a baseline.
PollerArmed == CpuLimit > 0 /\ baselineOK

------------------------------------------------------------------------------
(* execJail *)

\* A test whose context is done does not execute.
SkipCancelled ==
  /\ epc = "start"
  /\ ctxErr = "Canceled"
  /\ status' = [status EXCEPT ![n] = "cancelled"]
  /\ epc' = "next"
  /\ UNCHANGED <<ctxVars, n, baselineOK, cpuBase, oomBase, readFailed,
                 oomKilled, cpuKilled, pollVars, progVars>>

\* The directory of the program cannot be made: no process, and yet no
\* infrastructure failure, so the test is classified.
AppDirFails ==
  /\ epc = "start"
  /\ status' = [status EXCEPT ![n] =
                  CASE ctxErr = "Canceled" -> "cancelled"
                    [] ctxErr = "DeadlineExceeded" -> "time_exceeded"
                    [] ctxErr = "nil" -> "runtime_error"]
  /\ epc' = "next"
  /\ UNCHANGED <<ctxVars, n, baselineOK, cpuBase, oomBase, readFailed,
                 oomKilled, cpuKilled, pollVars, progVars>>

\* nsjail's arguments, a pipe or the start fails; os/exec starts no process for
\* a context that is done.
StartFails ==
  /\ epc = "start"
  /\ status' = [status EXCEPT ![n] = "internal_error"]
  /\ epc' = "next"
  /\ UNCHANGED <<ctxVars, n, baselineOK, cpuBase, oomBase, readFailed,
                 oomKilled, cpuKilled, pollVars, progVars>>

\* Every OOM kill that ever happened in the jail counts.
oomBaselineZero(read) == 0

\* The OOM kills in the leaves that earlier execs left, as far as they are read.
oomBaseline(read) == IF cgroup = "none" THEN 0 ELSE OOMKills(read)

\* The baseline from before the reset.
cpuBaselineBeforeReset == IF baselineOK' THEN cpuUsage ELSE 0

\* What cpu.stat says once it has been reset, or not; 0 if it cannot be read.
cpuBaseline == IF baselineOK' THEN cpuUsage' ELSE 0

\* The baselines, Start, the poller.  Some kernels let cpu.stat be reset.
Start ==
  /\ epc = "start"
  /\ ctxErr = "nil"
  /\ cpuUsage' \in IF cgroup = "cpu" THEN {0, cpuUsage} ELSE {cpuUsage}
  /\ baselineOK' \in IF cgroup = "cpu" THEN {TRUE, ~ReadsMayFail} ELSE {FALSE}
  /\ cpuBase' = cpuBaseline
  /\ \E read \in ReadableLeaves :
       /\ oomBase' = oomBaseline(read)
       /\ readFailed' = (read # DOMAIN leaves \/ (cgroup = "cpu" /\ ~baselineOK'))
  /\ leaves' = IF cgroup = "none" THEN leaves
               ELSE [e \in DOMAIN leaves \union {n} |->
                       IF e = n THEN 0 ELSE leaves[e]]
  /\ prog' = "running" /\ nsjail' = "running" /\ code' = 0
  /\ execCpu' = 0 /\ written' = 0 /\ readBytes' = 0 /\ oomInExec' = FALSE
  /\ unwritten' \in 0..MaxOutput
  /\ isOOMKill' = FALSE /\ isCPUKill' = FALSE
  /\ ppc' = IF cgroup = "none" THEN "off" ELSE "oom"
  /\ epc' = "read"
  /\ UNCHANGED <<ctxVars, n, oomKilled, cpuKilled, status>>

\* readCapped takes at most one unit more than the cap.
Read ==
  /\ epc = "read"
  /\ readBytes < written
  /\ readBytes <= OutputCap
  /\ readBytes' = readBytes + 1
  /\ UNCHANGED <<ctxVars, execVars, pollVars, cpuUsage, leaves, prog, nsjail,
                 code, execCpu, unwritten, written, oomInExec, status>>

\* The readers stop at the cap but are expected to see the end of the stream.
WaitForEOF ==
  /\ epc = "read"
  /\ nsjail \in {"exited", "killed"}
  /\ readBytes = written
  /\ epc' = "checkOOM"
  /\ UNCHANGED <<ctxVars, n, baselineOK, cpuBase, oomBase, readFailed,
                 oomKilled, cpuKilled,
                 pollVars, progVars, status>>

\* Both streams end only with nsjail, so the readers and cmd.Wait return then.
Wait ==
  /\ epc = "read"
  /\ nsjail \in {"exited", "killed"}
  /\ readBytes = written \/ readBytes > OutputCap
  /\ epc' = "checkOOM"
  /\ UNCHANGED <<ctxVars, n, baselineOK, cpuBase, oomBase, readFailed,
                 oomKilled, cpuKilled,
                 pollVars, progVars, status>>

\* The poller's flag and, if it is not set, the leaves once more.
CheckOOM ==
  /\ epc = "checkOOM"
  /\ \E read \in ReadableLeaves :
       oomKilled' = \/ isOOMKill
                    \/ cgroup # "none" /\ OOMKillsSince(read, oomBase)
  /\ epc' = "checkCPU"
  /\ UNCHANGED <<ctxVars, n, baselineOK, cpuBase, oomBase, readFailed, cpuKilled,
                 pollVars, progVars, status>>

\* The flag is read and the poller is stopped: execJail returns.
CheckCPU ==
  /\ epc = "checkCPU"
  /\ cpuKilled' = isCPUKill
  /\ ppc' = "off"
  /\ epc' = "classify"
  /\ UNCHANGED <<ctxVars, n, baselineOK, cpuBase, oomBase, readFailed, oomKilled,
                 isOOMKill, isCPUKill, progVars, status>>

\* The cgroup's delta is exact; without it rusage, which may hold the cpu time
\* of other jails, and says 0 when it cannot be read either.
cpuTimes(readable) ==
  IF cgroup = "cpu" /\ baselineOK /\ readable /\ cpuUsage >= cpuBase
  THEN {cpuUsage - cpuBase}
  ELSE execCpu..(execCpu + CpuLimit) \union IF readable THEN {} ELSE {0}

\* The output is not compared here: accepted stands for the three statuses a
\* clean exit can have.
computeTestStatus(cpuTime) ==
  IF ctxErr = "Canceled" THEN "cancelled"
  ELSE IF oomKilled THEN "memory_exceeded"
  ELSE IF cpuKilled \/ (nsjail = "exited" /\ code = 152) THEN "cpu_time_exceeded"
  ELSE IF ctxErr = "DeadlineExceeded" \/ nsjail = "killed" THEN "time_exceeded"
  ELSE IF code = 137 THEN IF CpuLimit > 0 /\ cpuTime >= CpuLimit
                          THEN "cpu_time_exceeded" ELSE "time_exceeded"
  ELSE IF code # 0 THEN "runtime_error"
  ELSE "accepted"

Classify ==
  /\ epc = "classify"
  /\ \E readable \in {TRUE, ~ReadsMayFail} :
       /\ readFailed' = (readFailed \/ ~readable)
       /\ \E t \in cpuTimes(readable) :
            status' = [status EXCEPT ![n] = computeTestStatus(t)]
  /\ epc' = "next"
  /\ UNCHANGED <<ctxVars, n, baselineOK, cpuBase, oomBase,
                 oomKilled, cpuKilled, pollVars, progVars>>

\* The loop over the tests ends at the last one or on a cancelled context; the
\* next test has a deadline, an outcome and a process of its own.
NextTest ==
  /\ epc = "next"
  /\ IF n < Execs /\ ctxErr # "Canceled"
     THEN epc' = "start" /\ n' = n + 1 /\ ctxErr' = "nil" /\ wall' = FALSE
     ELSE epc' = "end" /\ UNCHANGED <<n, ctxErr, wall>>
  /\ baselineOK' = FALSE /\ cpuBase' = 0 /\ oomBase' = 0 /\ readFailed' = FALSE
  /\ oomKilled' = FALSE /\ cpuKilled' = FALSE
  /\ isOOMKill' = FALSE /\ isCPUKill' = FALSE
  /\ prog' = "none" /\ nsjail' = "none" /\ code' = 0 /\ oomInExec' = FALSE
  /\ execCpu' = 0 /\ unwritten' = 0 /\ written' = 0 /\ readBytes' = 0
  /\ UNCHANGED <<cgroup, ppc, cpuUsage, leaves, status>>

execJailStep == \/ SkipCancelled \/ AppDirFails \/ StartFails \/ Start
                \/ Read \/ Wait \/ CheckOOM \/ CheckCPU \/ Classify \/ NextTest

------------------------------------------------------------------------------
(* The poller *)

\* A tick reads the leaves first.
PollOOM ==
  /\ ppc = "oom"
  /\ \E read \in ReadableLeaves :
       isOOMKill' = (isOOMKill \/ OOMKillsSince(read, oomBase))
  /\ ppc' = "cpu"
  /\ UNCHANGED <<ctxVars, execVars, isCPUKill, progVars, status>>

\* SIGKILL of nsjail: the program dies with it and its leaf stays.
KillNsjail ==
  /\ nsjail' = IF nsjail = "running" THEN "killed" ELSE nsjail
  /\ prog' = IF nsjail = "running" THEN "dead" ELSE prog
  /\ UNCHANGED <<cpuUsage, leaves, code, execCpu, unwritten, written,
                 readBytes, oomInExec>>

\* Then the cpu time, if it can be read.  The kill may find that nsjail has already exited.
PollCPU ==
  /\ ppc = "cpu"
  /\ ppc' = "oom"
  /\ \E readable \in {TRUE, ~ReadsMayFail} :
       IF PollerArmed /\ readable /\ cpuUsage - cpuBase >= CpuLimit /\ ~isCPUKill
       THEN isCPUKill' = TRUE /\ KillNsjail
       ELSE UNCHANGED <<isCPUKill, progVars>>
  /\ UNCHANGED <<ctxVars, execVars, isOOMKill, status>>

PollerStep == PollOOM \/ PollCPU

------------------------------------------------------------------------------
(* The program, the kernel and nsjail: external *)

Spin ==
  /\ prog = "running" /\ execCpu < MaxCpu
  /\ execCpu' = execCpu + 1 /\ cpuUsage' = cpuUsage + 1
  /\ UNCHANGED <<ctxVars, execVars, pollVars, leaves, prog, nsjail, code,
                 unwritten, written, readBytes, oomInExec, status>>

Write ==
  /\ prog = "running" /\ unwritten > 0
  /\ written - readBytes < PipeSize
  /\ written' = written + 1 /\ unwritten' = unwritten - 1
  /\ UNCHANGED <<ctxVars, execVars, pollVars, cpuUsage, leaves, prog, nsjail,
                 code, execCpu, readBytes, oomInExec, status>>

\* The program is over: by itself, with its output written, ...
Exit ==
  /\ prog = "running" /\ unwritten = 0
  /\ prog' = "dead"
  /\ code' \in ExitCodes
  /\ UNCHANGED <<ctxVars, execVars, pollVars, cpuUsage, leaves, nsjail, execCpu,
                 unwritten, written, readBytes, oomInExec, status>>

\* ... by RLIMIT_CPU, at the limit, or by nsjail's --time_limit.
LimitKill ==
  /\ prog = "running"
  /\ (RlimitArmed /\ execCpu >= CpuLimit) \/ wall
  /\ prog' = "dead" /\ code' = 137
  /\ UNCHANGED <<ctxVars, execVars, pollVars, cpuUsage, leaves, nsjail, execCpu,
                 unwritten, written, readBytes, oomInExec, status>>

\* An OOM kill in the leaf: of the program, or of a descendant it survives.
OOMKill ==
  /\ prog = "running" /\ cgroup # "none" /\ ~oomInExec
  /\ leaves' = [leaves EXCEPT ![n] = @ + 1]
  /\ oomInExec' = TRUE
  /\ \/ prog' = "dead" /\ code' = 137
     \/ UNCHANGED <<prog, code>>
  /\ UNCHANGED <<ctxVars, execVars, pollVars, cpuUsage, nsjail, execCpu,
                 unwritten, written, readBytes, status>>

\* nsjail removes its leaf and passes on the code.
NsjailExit ==
  /\ prog = "dead" /\ nsjail = "running"
  /\ nsjail' = "exited"
  /\ leaves' = [e \in DOMAIN leaves \ {n} |-> leaves[e]]
  /\ UNCHANGED <<ctxVars, execVars, pollVars, cpuUsage, prog, code, execCpu,
                 unwritten, written, readBytes, oomInExec, status>>

ProgramStep == Spin \/ Write \/ Exit \/ LimitKill \/ OOMKill \/ NsjailExit

------------------------------------------------------------------------------
(* The context of the test *)

\* The wall clock limit, nsjail's and the context's alike.
WallClock ==
  /\ epc \notin {"next", "end"} /\ ~wall
  /\ wall' = TRUE
  /\ UNCHANGED <<cgroup, ctxErr, execVars, pollVars, progVars, status>>

Deadline ==
  /\ epc \notin {"next", "end"} /\ ctxErr = "nil" /\ wall
  /\ ctxErr' = "DeadlineExceeded"
  /\ UNCHANGED <<cgroup, wall, execVars, pollVars, progVars, status>>

\* The client goes away.
Cancel ==
  /\ epc # "end" /\ ctxErr = "nil"
  /\ ctxErr' = "Canceled"
  /\ UNCHANGED <<cgroup, wall, execVars, pollVars, progVars, status>>

\* os/exec kills nsjail when the context is done.
ContextKill ==
  /\ epc = "read" /\ ctxErr # "nil" /\ nsjail = "running"
  /\ KillNsjail
  /\ UNCHANGED <<ctxVars, execVars, pollVars, status>>

ContextStep == WallClock \/ Deadline \/ Cancel \/ ContextKill

Done == epc = "end" /\ UNCHANGED vars

Next == execJailStep \/ PollerStep \/ ProgramStep \/ ContextStep \/ Done

Spec == Init /\ [][Next]_vars

\* Goroutines run, nsjail ends with its program, and time passes.  Nothing is
\* assumed of the program, the poller or the client.
FairSpec == /\ Spec
            /\ WF_vars(execJailStep)
            /\ WF_vars(NsjailExit)
            /\ WF_vars(WallClock) /\ WF_vars(Deadline) /\ WF_vars(ContextKill)

------------------------------------------------------------------------------
(* Properties *)

Statuses == {"none", "accepted", "runtime_error", "time_exceeded",
             "cpu_time_exceeded", "memory_exceeded", "cancelled",
             "internal_error"}

\* Every variable has its type; no pipe holds more than its size, and no
\* reader takes more than one unit over the cap (readCapped).
TypeOK ==
  /\ cgroup \in Cgroups
  /\ ctxErr \in {"nil", "Canceled", "DeadlineExceeded"}
  /\ n \in 1..Execs
  /\ epc \in {"start", "read", "checkOOM", "checkCPU", "classify", "next", "end"}
  /\ {baselineOK, oomKilled, cpuKilled, isOOMKill, isCPUKill, wall,
      oomInExec, readFailed} \subseteq BOOLEAN
  /\ cpuBase \in 0..cpuUsage /\ cpuUsage \in 0..(Execs * MaxCpu)
  /\ DOMAIN leaves \subseteq 1..n /\ \A e \in DOMAIN leaves : leaves[e] \in 0..1
  /\ oomBase \in 0..Execs
  /\ ppc \in {"off", "oom", "cpu"}
  /\ prog \in {"none", "running", "dead"}
  /\ nsjail \in {"none", "running", "exited", "killed"}
  /\ code \in ExitCodes \union {137} /\ execCpu \in 0..MaxCpu
  /\ unwritten \in 0..MaxOutput /\ readBytes \in 0..(OutputCap + 1)
  /\ written - readBytes \in 0..PipeSize
  /\ status \in [1..Execs -> Statuses]

\* A leaf that an earlier exec left counts an OOM kill.
EarlierKill == \E e \in DOMAIN leaves \ {n} : leaves[e] > 0

\* A verdict is one the exec itself deserves, whatever the poller, the kernel
\* and the context raced to do and whatever earlier execs left in the jail
\* (computeTestStatus and the baselines of execJail), and where a counter could
\* not be read it errs in one way only: memory_exceeded only after an OOM kill
\* of this exec, or a baseline that missed an earlier one; cpu_time_exceeded
\* only with the limit used up, SIGXCPU, or an exit 137 whose cpu time is only
\* known from rusage; time_exceeded only at the wall clock limit or for an exit
\* 137 that the program chose, whose OOM kill went unseen or whose cpu time
\* could not be read; runtime_error only for an exit of its own or without a
\* directory to run in; accepted only for exit 0 after all its output.
VerdictTruthful ==
  epc = "next" =>
    LET v == status[n] IN
    /\ v = "memory_exceeded" => oomInExec \/ (readFailed /\ EarlierKill)
    /\ v = "cpu_time_exceeded" =>
         \/ CpuLimit > 0 /\ execCpu >= CpuLimit
         \/ nsjail = "exited" /\ code = 152
         \/ nsjail = "exited" /\ code = 137 /\ (cgroup # "cpu" \/ readFailed)
    /\ v = "time_exceeded" =>
         \/ wall
         \/ nsjail = "exited" /\ code = 137 /\ (137 \in ExitCodes \/ oomInExec \/ readFailed)
    /\ v = "runtime_error" => \/ nsjail = "none"
                              \/ nsjail = "exited" /\ code \in ExitCodes \ {0, 137}
    /\ v = "accepted" => /\ nsjail = "exited" /\ code = 0
                         /\ unwritten = 0

\* A kill in a leaf that an earlier exec of the jail left does not count
\* against this exec, as execJail's comment has it.  A baseline that missed the
\* leaf, and a later read that does not, break it.
OnlyOwnKillsCount == epc = "next" /\ status[n] = "memory_exceeded" => oomInExec

\* No program blocks for ever on a full pipe that nobody reads any more.
NoPipeDeadlock ==
  ~ (/\ prog = "running" /\ epc = "read" /\ unwritten > 0
     /\ written - readBytes = PipeSize /\ readBytes > OutputCap)

\* Every exec ends, whatever the program does: the readers, Wait and the kill
\* at the wall clock limit cannot wait for each other (execJail).
EveryExecEnds == <>(epc = "end")
=============================================================================
