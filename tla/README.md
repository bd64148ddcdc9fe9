# goboxd: models, checks and proofs

goboxd runs untrusted programs against test cases: one HTTP endpoint takes a
source file and a list of tests, an admission gate bounds the work, each run
gets jails with a uid, a directory and a cgroup of their own, nsjail executes
the build and the tests, and a status per test goes back. This project models
the parts of it whose correctness depends on the order of things: what
goroutines, handlers, the kernel, nsjail, clients, signals, crashes and the
user of the web playground do to each other.

## 1. Inventory

| component | state | operations | interacts with | what makes it correct |
|---|---|---|---|---|
| admission gate (`internal/api/admission.go`) | `inFlight`, `queued`, `stopped`, `broadcast` | `acquire`, `release`, `Stop` | `HandleRun`, metrics, main | bounds hold, no lost wakeup, nothing after Stop, nobody waits for ever |
| uid pool (`internal/uidpool`) | `inUse`, `next` | `Alloc`, `Release` | `newJail`, `teardown` | no uid shared, none leaked, a free one is found |
| run execution (`internal/runner/runner.go`, `jail.go`) | jails, results, semaphore | `ExecuteRun`, `newJail`, `seedFrom`, `teardown` | pool, cgroups, gate (its limit sizes the pool) | pool suffices, every path cleans up, template outlives tests, runs end |
| response (`HandleRun`, `models`) | `lastInternalErr`, metrics | `computeTopLevelStatus`, `MarshalJSON`, `recordRun` | `ExecuteRun`, client | status and tests agree with what happened |
| exec in a jail (`exec.go`, `runner.go`, `cgroupv2.go`) | kill flags, baselines, leaves, pipes | `execJail`, `startJailPoller`, `computeTestStatus` | nsjail, kernel, context | the verdict is the exec's own, also when a counter cannot be read; the exec ends |
| shutdown (`cmd/goboxd/main.go`) | `drained`, watcher | signal, drain, force, sweep | gate, server, handlers, jail dirs | no sweep under a running jail; the process ends |
| start-up (`main.go`, `runner.go`, `cgroupv2.go`) | what dead processes left on disk and in the cgroup tree | `SweepOrphans`, `Default`/`Sweep`, then listen | runs, jails | sweeps leave only what is recent |
| metrics (`metrics.go`) | counters, maps | `recordRun`, `Snapshot` | handlers, `/metrics` | counts agree, snapshots never overcount or shrink |
| rate limiter (`ratelimit.go`) | token buckets | `allow`, pruning | handlers | sustained rate and burst per address, nobody refused too early |
| registry (`config.go`) | atomic snapshot | `LoadRegistry` | SIGHUP, handlers, probes | requests see one complete registry, no reload is lost |
| probes (`probes.go`) | TTL cache under a mutex | `run`, `probeReadiness` | `/readyz`, `/info`, registry | answers were true recently; no request waits for ever |
| playground (`playground/src/App.tsx`) | page, editor, output, loading flags, test list | `run`, `runTestcase`, `switchLang`, `loadPreset`, render | `POST /run`, `GET /testcases`, auth | sends what it shows, shows the last answer, buttons come back |
| cgroup manager (`cgroupv2.go`) | active flags | probe, `NewJail`, `Sweep` | jails | limits never unenforced |
| validation (`handlers.go`) | none | `validateStageLimits`, `validateFlags` | registry | a request never exceeds its ceilings |
| seccomp (`seccomp.go`) | policy files, once | `CombinedWith` | nsjail arguments | merged policy denies what the base denies |
| auth, logging, routing, OpenAPI | none | middleware, static files | | |

Hard behaviours: waiters woken while newcomers and Stop race for the mutex;
deferred calls whose order decides whether the uid pool suffices; calls that
fail half way through `newJail`; three goroutines and the kernel racing over
the cause of a death; a drain that times out, or is forced, under handlers
that still run; a crash that leaves jails behind; time stamps that take a lock
out of order; a snapshot put together while it changes; a reload while a
request waits for a probe; an answer that finds the user on another page or at
another selection. `PROJECT.json` lists each hazard at its line with the
properties that watch it.

## 2. Modules

    JobAdmission     what bounded admission promises (abstract)
      ^ implemented by
    AdmissionGate    gate + the part of HandleRun around it
      ^ extended by
    Shutdown         main's shutdown, composed with gate and handlers
    UidPool          the pool
      ^ instantiated by
    RunPipeline      ExecuteRun, jails, response; several runs on one pool
      ^ extended by
    Restart          crashes, main's start and its sweeps, composed with runs
    ExecJail         one jail's execs: execJail, poller, kernel, nsjail, context
    RateLimiter      token buckets and the stamps taken before their lock
    Metrics          recordRun against Snapshot
    Readiness        registry, SIGHUP, probe cache, /readyz and /info
    Playground       the web page, its requests and what the server says

`*Proofs` modules hold the theorems, `MC*` modules and configurations the
instances for TLC.

**AdmissionGate.** One action per critical section of `g.mu`. Between them a
handler is at a value of `pc`: in the `select`, past it but without the lock
(`onDone`, `onBroadcast`), with a slot but not yet in the metrics
(`admitted`), out of the metrics but still with the slot (`leaving`). Of the
channel a handler holds the model keeps whether it is still open, that is
whether it still is `g.broadcast`.
`ExecuteRun` is the stay in `running`. `Stop` happens once, as in main.

**JobAdmission.** Requests are new, waiting, running or over; at most MaxJobs
run and MaxQueued wait; nothing starts after the close; a refusal for lack of
room happens only with all slots taken. `AdmissionGate` implements it with
`JobPhase` as the refinement mapping.

**UidPool.** A uid is its distance from the minimum; `Alloc`'s search from the
cursor is kept, because wrapping around is where it could go wrong.

**RunPipeline.** Run `r` has a template jail `<<r, 0>>` and, in parallel, a
jail and a goroutine `<<r, i>>` per test. `jpc` walks a jail through
`newJail` and `teardown` in the code's order, one step per call that another
goroutine can come between. Any system call may fail, up to `MaxFaults`. A
program is reduced to its verdict. `Admit` stands for the gate.
`Compiled` fixes whether the language has a build command: a build that is ok
and no build lead to the same tests, so `pipeline` takes compiled runs only.

**ExecJail.** `epc` is `execJail` and its caller, `ppc` the poller (first the
leaves, then the cpu time), the context has a watcher that kills. nsjail, the
kernel and the program are external, and modelled from what the code and its
comments rely on: nsjail passes on exit codes and 128+signal, and removes its
leaf when it exits but not when it is killed. Output is counted in units on
one stream; a verdict `accepted` stands for the three outcomes of a clean
exit, because the comparison of outputs is a pure function of two strings.
`rusage` is any value from the exec's own cpu time up, since it is global to
the process. Any read of a counter may fail (`ReadsMayFail`): a leaf that is not
read counts for nothing, in the baseline, in a tick and in the final check; a
baseline of `cpu.stat` that is not read turns the poller's limit off, a final
`cpu.stat` that is not read leaves rusage, or 0. An app dir that cannot be made
is no infrastructure failure in the code, unlike every later step before Start,
so `AppDirFails` and `StartFails` are two actions. nsjail itself never crashes.

**Shutdown.** main from the first signal: gate stopped, `Server.Shutdown`,
drain deadline, `Server.Close`, `waitForDrain` on the in-flight metric, sweep.
net/http is external: `Close` removes every connection from the server at
once, therefore a `Shutdown` in progress returns nil, and the requests'
contexts are cancelled later. The history variable `uncounted` remembers which
handlers were between `acquire` and the metric when `waitForDrain` read zero.

**Restart.** `Crash` may come between any two steps of a run or of the start.
What is on disk and in the cgroup tree stays, with the name of the dead
process; memory starts again and clients ask again. main then goes through
`SweepOrphans` (dirs older than `OrphanAge`, each removal may fail),
`Default` (`Sweep` removes every cgroup it finds) and only then serves.
`Default` is a sync.Once that `newJail` calls too, so a jail's cgroup can never
precede the sweep, in whatever order main calls things: there is no property
about it. The manager is active; without cgroups the second sweep does nothing.

**RateLimiter.** `Stamp` reads the client and the clock, `Allow` and `Refuse`
are the critical section of `allow` for its two results. Tokens are counted in
units of which one flows in per tick, so the code's floating point is exact.
Rate, burst and bucketIdleTTL are independent, as in `loadRateLimit`: a bucket
may be pruned before it would be full again, and the client's next one is full.
`Windfall` is what the client gains by that at most, `Gap` the least time
between two such gains; the history variables `made` and `passed` say which of
its buckets admitted a request.

**Metrics.** Each atomic operation and each critical section is a step.
`error_count` is loaded after `total_runs` and may therefore exceed it in one
snapshot, although the comment at `metrics.go:82` calls it consistent; the
property says how far it can be ahead.

**Readiness.** The cache's mutex is held during a probe, so a miss is `Miss` and
`ProbeEnd`, between which nobody looks anything up. A registry is named by the
edit of languages.yml it was loaded from; `ReadFile` and `Store` are the two
ends of `LoadRegistry`. Times are kept as ages that stop growing once they make
no difference, so time has no bound. A command works, hangs, is absent, or
lingers: it leaves a process that keeps its output open, so that the probe goes
on past the timeout that kills the command (`Tick`, `Overrun`), for any time and
possibly for ever. A file that cannot be parsed is one without languages.
During a shutdown `/readyz` answers without any probe,
which is no step here.

**Playground.** React applies a handler's updates in one render, so a click is a
step and an answer is a step. Elements that are visible and enabled are
operators (`RunButton`, `StdinField`, ...) and the guards of what they trigger.
Every step ends in `Render`, which on the tests page asks for the list while it
is empty and throws when the list is no array. `listLost` remembers that a
request for the list was lost since the last render. `moved` and `testMoved` remember
that the user changed the selection in flight. A source is its language and
whether it is empty; the tables keep every language and every preset's label
and stdin. The server's side is `AuthMiddleware` with the origin a browser
sends, and the answers of `HandleRun` and `HandleTestcasesList`.

## 3. Runs

Passing runs:

| run | instance | shows |
|---|---|---|
| `gate` | 4 requests, 1 slot, queue of 2 | exact counters, no lost wakeup, honest records, refinement of JobAdmission (with Stop final), every request ends |
| `uid_pool` | 5 jails, 4 uids | no sharing, no leak |
| `pipeline` | 1 run, 3 tests, 2 cpus, 1 fault | pool never exhausted, every jail has a uid of its own, template outlives tests, nothing removable left behind, response faithful, run ends |
| `recovery` | 1 run with a template and a test jail, 2 crashes, 1 fault | of dead processes only recent dirs and no cgroup stay, also after a crash during a start |
| `exec` | 2 tests in one jail, every cgroup kind, failing reads | verdicts deserved up to what an unread counter hides, every exec ends |
| `shutdown` | 3 requests, 1 slot, queue of 1, 2 signals | sweep meets only uncounted runs unless forced; the process ends |
| `playground` | 2 languages, 2 tests, 2 servers, 2 runs between reloads | sends what is shown, shows the last run, stale only if moved in flight, options find their presets, buttons come back, the list of tests arrives unless its last request was lost or the page has crashed or is left |
| `ratelimit` | 5 requests, 2 clients, 10 ticks, early pruning, symmetry | rate, burst and one windfall per pruned bucket hold in every stretch, no early refusal |
| `metrics` | 3 runs, 2 snapshots, symmetry | snapshots never overcount or shrink, counts agree at rest |
| `probes` | 2 requests, 3 files, 1 command that hangs or lingers | answers true within ttl + timeout but for the time a probe overran, about one registry, about its own commands once a reload has settled; no reload lost; every request answered unless a probe lingers for ever |

Why the bounds are enough. The safety properties are proved for all sizes
(section 4), so the bounds matter to liveness and to the mutants. Two waiters
and a newcomer are what a wakeup race needs, a fourth request finds the queue
full. Three tests on two cpus make one test wait for a token, and the pool has
exactly the template and two test jails. One fault at every call covers each
error path; two crashes with two units of time leave dirs on both sides of the
age limit and let a start be cut short between its sweeps. Two execs let one
exec's leftovers reach the next. The cap is 0 and the pipe 1 unit, so two units
of output already leave the reader behind; a cpu limit of one unit is reached
in one step. Five requests at a burst of two empty a bucket, refill it in part,
arrive out of order and outlive a pruning, which comes a tick before the bucket
would be full again. One duration lies on the bound of a
bucket, one beyond all. The second edit of languages.yml is invalid, the third
adds a language and moves another to a new binary. The playground has a
language with and one without stdin; the number of runs starts again with a
reload. `CHECK_DEADLOCK` is off where everything ends when all requests are
answered or recorded (`gate`, `pipeline`, `recovery`, `ratelimit`, `metrics`);
liveness of gate and pipeline shows that this is the only end.

Fairness. Handlers and test goroutines are weakly fair: Go schedules every
runnable goroutine and its mutexes do not starve callers. `ExecuteRun` comes
back because every exec has a wall clock limit, which `ExecJail` shows under
weak fairness of the clock, the context's watcher, nsjail's exit and execJail
alone: the program, the poller and the client owe nothing. `Shutdown` assumes
progress of main and its timers only, not of any handler. In `Readiness` a
request's walk is strongly fair, because others take and release the cache's
mutex again and again and sync.Mutex hands itself to a starving waiter; a probe
ages until it ends or its timeout kills it, unless it lingers: nothing makes
a process end that the command left behind, and no fairness says so. In `Playground` only answers are
fair: the server's runs end and a browser notices a lost connection. The user
owes nothing.

Runs that show a disagreement between the code and what the repository says
of it (`PROJECT.json`, findings):

* `pipe_deadlock`: a program with more output than cap and pipe hold is not
  truncated but blocks until its time limit.
* `shutdown_sweep`: a second signal makes `Shutdown` return nil and the sweep
  runs under handlers that still execute.

Met while modelling, without a run of their own:

* Runs. Teardown frees the uid before it removes the directory, so a new jail
  may for a moment have the uid that owns a directory still being removed. An
  infrastructure error is answered without the list of `not_executed` tests
  that `docs/architecture.md:64` describes. The internal_error branch of
  `HandleRun` (`handlers.go:496`) never sets `lastInternalErr`, which
  `handlers.go:28` says "records the last sandbox infrastructure failure for
  /info". A client that leaves just before the build starts is counted as an
  infrastructure failure, because `cmd.Start` returns the context's error and
  `execJail` marks every start error as Infra. The 500 of `HandleRun` cannot be
  reached, since every error of `ExecuteRun` comes with a build status of
  internal_error.
* Execs. A leaf that could not be read when the baseline was taken, and can be
  later, charges its old OOM kill to the present test: `oomBaseline` is then too
  low, although `exec.go:105` says "a kill in a leftover leaf from an earlier exec
  of this jail must not count against THIS exec." `VerdictTruthful` names this as
  the one case, and `OwnKillsCountIfRead` proves that it takes a failed read. An
  OOM kill between two ticks of the poller is gone with nsjail's leaf when nsjail
  exits before the final check that `exec.go:151` relies on; the exec ends as
  time_exceeded, or with the program's own code if only a descendant was killed.
  Without a readable `cpu.stat` baseline neither the poller nor RLIMIT_CPU
  enforces the cpu limit, although `cgroupv2.go:353` says "Exactly one of the two
  is armed per exec."; the wall clock limit still ends the exec.
* Rate limiter. A bucket pruned before it would be full again (burst / rps above
  ten minutes, as in `ratelimit_test.go:102`) gives its client more than
  "sustained /run requests per second per client IP" (`ratelimit.go:17`):
  `WindowBound` says how much more and how often,
  `RateIsKeptIfFullWhenPruned` when not. Below one request per second the
  default burst is 0, although `ratelimit.go:19` says "Defaults to 2 × RPS.", and
  every request is refused; `RefusedOnlyIfSpent` names this case.
* Probes. A probe whose command is a wrapper that leaves a process with its
  stdout open outlives its timeout: the context kills the command, and `Output`
  without a `WaitDelay` waits for the end of the pipe, with the cache mutex.
  Every `/readyz` and `/info` waits then, which `probes.go:218` says "must not"
  happen; `EveryProbeRequestEnds` shows that this is the only way. An entry is
  dated at the end of its probe, so an answer may be stale by the ttl and the
  duration of a probe, although `probes.go:19` says "The cache can go stale by at
  most one TTL"; `ReadyzTruthful` has the true bound. A request that
  still walks the old registry may store the old command's probe after a reload. A language whose binary hangs is reported ok,
  because LookPath finds it.
* Playground. The tests page runs entries of `GET /testcases`, which have
  neither `input` nor `want`, so running a test always ends in "request failed".
  A `null` or an error instead of the list makes the next render throw and
  unmounts the page, which `TestsPageLoads` sets apart from a loaded one. A lost
  request for the list leaves "loading testcases...".
  After a switch of language or a preset the raw view can stay on while its
  button is gone. With no allowed origins configured every run from a browser
  is refused, also without a token.

Every property of a passing run has a mutant in `PROJECT.json`: an operator
next to the definition it replaces, changed as a plausible mistake would, that
makes TLC report the property.

## 4. Proofs

Every safety property of a passing run, invariant or action property, is also a
theorem, for all values of the constants that satisfy the assumption named in
the module. Each proof has the same shape: an inductive invariant, one lemma
or step per action that it is kept, and a temporal step that draws the property
from it. TLC has checked each of those invariants on the instance of the
component's run.

`AdmissionGateProofs`, for any finite set of requests, any positive MaxJobs and
any MaxQueued (GateAssumption: what readMaxJobs and readMaxQueued return):

* `GateTypeCorrect`, `GateCountsExact`, `GateNoLostWakeup`: the inductive
  invariant is the conjunction `IInv` of the three. `NoLostWakeup` needs the
  exact counts (a release broadcasts only if `queued > 0`, so a sleeper must be
  counted), the counts need the types, and the bounds in the types need the
  counts (a decrement must not go below zero). Moves of one request between
  the counted sets are lemmas on cardinality.
* `GateStopIsFinal`: the action property, from the same step analysis.
* `GateRecordedHonestly`: strengthened by the reason for each error acquire
  returned (`ReasonsHold`).
* `GateImplementsJobAdmission`: initial states map to initial states and each
  step to a step or a stutter of JobAdmission.
* With the shutdown (`Shutdown` extends the gate): `ShutdownTypeCorrect`,
  `ShutdownSweepGap` and `ShutdownKeepsAdmission`. `ShutdownInv` adds `MainOK` to
  `IInv`: the gate is stopped before main drains, a request without a connection
  has no handler, a connection closed before main drops any was answered, and
  at the sweep every handler in or before `ExecuteRun` is one that
  `waitForDrain` could not count. The exact in-flight count of `IInv` makes the
  zero that `waitForDrain` reads mean something. Every step of `Shutdown` is one
  of `AdmissionGate` or leaves it alone, so the gate's theorems hold under it.

`RateLimiterProofs`, for any requests and clients, any positive rate, any burst,
idle time and delay (LimiterAssumption):

* `LimiterTypeCorrect`, `RateIsBounded`, `RateIsKeptIfFullWhenPruned`,
  `RefusalsAreDue`. The inductive
  invariant `LInv` ties a bucket to its client's admissions: the tokens left and
  those taken since any admission are at most a burst and what flowed in
  (`Covered`), and for some admission exactly so unless the bucket is full
  (`Exact`). The bound on a new stretch follows from `Covered`, a due refusal
  from `Exact`. A full bucket that is made anew is paid for by the Gap since the
  last use of the pruned one and by one windfall. Without a windfall, that is
  with `Cap + Delay <= IdleTTL`, the bound is the documented one.

`PlaygroundProofs`, for any languages of the table, test cases, filters,
configurations and numbers of runs: `TypeCorrect`, `PostsAreShown`,
`LastRunIsShown`, `StaleOnlyInFlight`, `OptionsFindTheirPresets`. The inductive
invariant `PInv` says that at most one run is in flight, that it is the last
one, that the loading flag knows of it, that its language is the selected one
unless the user moved, and that a stdin is kept only for a language that shows
it; for that every preset's stdin must be empty or unset (`PresetStdin`). The
options of the preset field are a recursive function; its lemmas
(`FreeNameIsFree`: among more numbers than names one is free; `LoopExists`,
`FlattenNames`, `ListFindsItsOwn`) hold for every list of labels, by taking the
least length for which they fail.

`UidPoolProofs`, for any jails and any positive pool size: `PoolNoSharedUid` and
`PoolInUseIsHeld` are inductive only together: a fresh uid is unheld because
in use means held, and a released one leaves the held set because nobody
shares it. `AllocFindsFree`: the search fails only on a full pool, from every
cursor. The proofs are used again in `PipelineProofs`, where the pool is an
instance.

`PipelineProofs`, for any finite set of requests, any numbers of tests, job
slots, cpus and failing calls (PipelineAssumption):

* `PipelineTypes`, `PoolAlwaysSuffices`, `UidsAreExclusive`, `TemplateStands`,
  `NoLeftovers`, `ResponsesAreFaithful`, from `PipelineCorrect`. `PipelineInv` says
  what a jail has at each place of its walk, where a run's jails are at each
  stage of the run, that a semaphore counts its living goroutines, which
  results are written by when, and that each leftover cost a fault. The pool
  suffices because the jails with a uid, and the one that asks, are mapped one
  to one into (runs in a slot) times (0..NumCPU): 0 for the template, a token
  for each test goroutine. The response is the one of the final results, so
  `computeTopLevelStatus` is only reasoned about where every test was executed
  (`TopLevelOfExecuted`).
* With crashes (`Restart`): `RestartCorrect`, `RunsSurviveCrashes`,
  `SweepsAreThorough`. `RestartInv` adds that before the listener is up no run has
  begun (`Fresh`), so that sweeping every cgroup leaves the invariant of the
  runs alone; a complete jail without a cgroup cost a fault (`BareOK`).

`ExecJailProofs`, for any number of execs, any limits, output, exit codes and
kinds of cgroup, with reads that may fail or never do (ExecAssumption):
`ExecTypes`, `VerdictsAreTruthful`, `OwnKillsCountIfRead`, from `ExecCorrect`. None
of a verdict's sources says to which exec it belongs. `ExecInv` ties each to the
exec at hand: the OOM baseline is at most what the leaves of earlier execs hold,
and exactly that unless a read failed (`LeavesOK`), the delta of cpu.stat is this
exec's cpu time (`CpuOK`), a flag of the poller was earned, a kill and an exit
code of 137 have a reason (`CausesOK`), and what execJail read is what the flags
say although the poller may tick in between (`OutcomeOK`).

`ReadinessProofs`, for any requests, any sequence of edits whose first is valid,
any ttl and timeout (ReadinessAssumption): `ReloadsAreNotLost`,
`AnswersKeepToOneRegistry`, `ReadyzIsTruthful`, `CacheForgetsOldRegistries`.
`ReadinessInv` dates what is cached: a result in the cache was possible at most
a timeout before its entry was made (the time a probe overran its timeout is
not counted, since nothing bounds it), a probe has seen only what was possible
since it began, and an entry about a command that the registry does not name
is at least as old as the last use of another registry.

`MetricsProofs`, for any finite set of runs, any durations and numbers of
snapshots (MetricsAssumption): `SnapshotsNeverOvercount`, `NoRunIsLost`,
`SnapshotsOnlyGrow`. In `MetricsInv` each counter is the number of runs that have
passed one point of `recordRun`, a snapshot lies between the last one shown and
the counters, and the total is not behind what was copied before it. A sum
over statuses is the cardinality of a set of pairs, so that sums can be
compared by inclusion.

Only model-checked: liveness (`EveryRequestEnds`, `EveryRunEnds`,
`EveryExecEnds`, `ShutdownCompletes`, `EveryRunSettles`, `TestsPageLoads`,
`EveryProbeRequestEnds`), which is out of the prover's reach: it rests on fairness
and on actions being enabled. The properties of the two violation runs are
false, as the findings say. The type invariants of gate, pool, limiter and
playground are proved and not repeated in their runs, and so is
`NothingAdmittedAfterStop`, which the refinement of JobAdmission contains.

## 5. Not modelled, and the plan

Left out for good: static content (OpenAPI, build information), the generated
and minified bundle `internal/api/playground/assets/index-2B7rEbjV.js` and the
settings that build it, logging and routing (no state), file contents and the
text of responses, reading the environment, request validation and the seccomp
merge (pure functions of one request or one file), caches and the masked hosts
file (written without a protocol).

Left out so far: the cgroup manager's start-up probe (`verifyEnforcement`,
`verifyCPU`) and an inactive manager in `Restart`; a crash of nsjail itself; `runBuild`'s own
classification and memory.peak in `ExecJail`; the walk of `copyTree`.

Next theorems: that `RunPipeline`'s use of the pool implements `UidPool`, and of
the gate `JobAdmission` (`Admit` stands for it); bounds on how long a verdict may
come late.
