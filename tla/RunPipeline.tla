----------------------------- MODULE RunPipeline -----------------------------
(***************************************************************************)
(* One admitted run from end to end: ExecuteRun (internal/runner/          *)
(* runner.go), the life of its jails (internal/runner/jail.go) on the uid  *)
(* pool, and the response HandleRun builds (internal/api/handlers.go).     *)
(*                                                                         *)
(* Several runs share the uid pool.  A run has a template jail <<r, 0>>,   *)
(* in which the build and the sequential tests execute, and with           *)
(* max_parallel > 1 one jail <<r, i>> and one goroutine per test i.  Each  *)
(* call that another goroutine can come between is a step of its own;      *)
(* newJail and teardown are the walk of a jail through `jpc`.              *)
(*                                                                         *)
(* What nsjail does with the program is one nondeterministic step here     *)
(* (its verdict) and a module of its own, ExecJail.                        *)
(***************************************************************************)
EXTENDS Naturals, FiniteSets

CONSTANTS Reqs,         \* the runs
          NTests,       \* len(req.Tests), the same for every run
          Compiled,     \* whether the language has a build command: BOOLEAN, or
                        \* {TRUE}, whose runs include those without a build
          MaxParallels, \* the values req.MaxParallel may have, 1 for "not set"
          MaxJobs,      \* the admission gate's limit
          NumCPU,       \* runtime.NumCPU()
          Verdicts,     \* the statuses other than accepted a test may end with
          MaxFaults     \* bound: how many system calls fail in a behaviour

ASSUME PipelineAssumption ==
  /\ IsFiniteSet(Reqs)
  /\ NTests \in Nat \ {0}
  /\ Compiled \subseteq BOOLEAN
  /\ MaxParallels \subseteq Nat \ {0}
  /\ MaxJobs \in Nat \ {0}
  /\ NumCPU \in Nat \ {0}
  /\ MaxFaults \in Nat
  /\ Verdicts \intersect {"zero", "absent", "accepted", "cancelled",
                          "internal_error", "not_executed"} = {}

VARIABLES
  want,     \* the request: [compiled |-> BOOLEAN, parallel |-> MaxParallel]
  gone,     \* the runs whose context is cancelled
  rpc,      \* where ExecuteRun and HandleRun are
  nextTest, \* the loop index over req.Tests
  sem,      \* how many tokens the semaphore channel holds
  build,    \* buildRes.Status
  err,      \* ExecuteRun's error: TRUE when it is not nil
  results,  \* the results slice: "absent" past its end, "zero" for a zero entry
  jpc,      \* where newJail, the test goroutine and teardown are
  inUse, next, uid,  \* the uid pool
  owner,    \* the owner of each jail dir that exists, a function on those jails
  cg,       \* the jails with a cgroup
  failed,   \* the jails whose newJail returned an error
  faults,   \* how many calls failed so far
  response, \* what the client got, NoResponse before or without one
  recorded  \* what the run was recorded as, status "none" before

jailVars == <<jpc, inUse, next, uid, owner, cg, failed>>
runVars == <<rpc, nextTest, sem, build, err, results, response, recorded>>
vars == <<want, gone, faults, jailVars, runVars>>

Tests == 1..NTests
Jails == Reqs \X (0..NTests)
Template(r) == <<r, 0>>

\* The pool without the uid of the template.
UidBudgetNoTemplate == MaxJobs * NumCPU

\* The product is below MaxInt for every instance, so it never saturates.
UidBudget == MaxJobs * (NumCPU + 1)

Pool == INSTANCE UidPool WITH PoolSize <- UidBudget
poolVars == <<inUse, next, uid>>

\* A response nobody sent; recordRun(status, error), and whether
\* lastInternalErr was set on the way to it.
NoResponse == [http |-> 0, status |-> "none", build |-> "none", tests |-> <<>>]
Record(st, isError, surfaced) ==
  [status |-> st, error |-> isError, surfaced |-> surfaced]

Root == UidBudget   \* the owner of a dir that is not chowned yet

Init == /\ want \in [Reqs -> [compiled : Compiled, parallel : MaxParallels]]
        /\ gone = {}
        /\ rpc = [r \in Reqs |-> "queued"]
        /\ nextTest = [r \in Reqs |-> 1]
        /\ sem = [r \in Reqs |-> 0]
        /\ build = [r \in Reqs |-> "ok"]
        /\ err = [r \in Reqs |-> FALSE]
        /\ results = [r \in Reqs |-> [i \in Tests |-> "absent"]]
        /\ jpc = [j \in Jails |-> "none"]
        /\ Pool!Init
        /\ owner = <<>>
        /\ cg = {}
        /\ failed = {}
        /\ faults = 0
        /\ response = [r \in Reqs |-> NoResponse]
        /\ recorded = [r \in Reqs |-> Record("none", FALSE, FALSE)]

\* External: a system call that newJail, seedFrom or teardown makes fails.
Fault == /\ faults < MaxFaults
         /\ faults' = faults + 1

NoFault == UNCHANGED faults

Without(f, j) == [k \in DOMAIN f \ {j} |-> f[k]]
With(f, j, v) == [k \in DOMAIN f \union {j} |-> IF k = j THEN v ELSE f[k]]

------------------------------------------------------------------------------
(* newJail *)

JailGoto(j, to) == jpc' = [jpc EXCEPT ![j] = to]

AllocUid(j) ==
  /\ jpc[j] = "alloc"
  /\ \/ /\ Pool!Alloc(j)
        /\ JailGoto(j, "mkdir")
        /\ UNCHANGED failed
     \/ /\ Pool!AllocFails(j)
        /\ JailGoto(j, "gone")
        /\ failed' = failed \union {j}
  /\ NoFault
  /\ UNCHANGED <<owner, cg>>

MkdirTemp(j) ==
  /\ jpc[j] = "mkdir"
  /\ \/ /\ JailGoto(j, "chown")
        /\ owner' = With(owner, j, Root)
        /\ NoFault
        /\ UNCHANGED failed
     \/ /\ Fault
        /\ JailGoto(j, "release")
        /\ failed' = failed \union {j}
        /\ UNCHANGED owner
  /\ UNCHANGED <<poolVars, cg>>

Chown(j) ==
  /\ jpc[j] = "chown"
  /\ \/ /\ JailGoto(j, "cgroup")
        /\ owner' = [owner EXCEPT ![j] = uid[j]]
        /\ NoFault
        /\ UNCHANGED failed
     \/ /\ Fault
        /\ JailGoto(j, "release")
        /\ failed' = failed \union {j}
        /\ UNCHANGED owner
  /\ UNCHANGED <<poolVars, cg>>

\* A failure is not an error: the jail runs without a cgroup, and RemoveJail
\* takes away what NewJail may have created.
NewCgroup(j) ==
  /\ jpc[j] = "cgroup"
  /\ JailGoto(j, "populate")
  /\ \/ NoFault /\ cg' = cg \union {j}
     \/ Fault /\ UNCHANGED cg
  /\ UNCHANGED <<poolVars, owner, failed>>

\* newJail returns the error without a teardown.
PopulateLeaks(j) ==
  /\ jpc[j] = "populate"
  /\ \/ /\ JailGoto(j, "ready")
        /\ NoFault
        /\ UNCHANGED failed
     \/ /\ Fault
        /\ JailGoto(j, "gone")
        /\ failed' = failed \union {j}
  /\ UNCHANGED <<poolVars, owner, cg>>

\* The app dir, the source and their owners; any failure tears the jail down.
Populate(j) ==
  /\ jpc[j] = "populate"
  /\ \/ /\ JailGoto(j, "ready")
        /\ NoFault
        /\ UNCHANGED failed
     \/ /\ Fault
        /\ JailGoto(j, "release")
        /\ failed' = failed \union {j}
  /\ UNCHANGED <<poolVars, owner, cg>>

------------------------------------------------------------------------------
(* teardown, and newJail's way out of an error: the uid first, then the      *)
(* cgroup, then the dir.  Neither removal stops the walk when it fails.      *)

ReleaseUid(j) ==
  /\ jpc[j] = "release"
  /\ Pool!Release(j)
  /\ JailGoto(j, "rmcg")
  /\ NoFault
  /\ UNCHANGED <<owner, cg, failed>>

TeardownCgroup(j) ==
  /\ jpc[j] = "rmcg"
  /\ JailGoto(j, "rmdir")
  /\ \/ NoFault /\ cg' = cg \ {j}
     \/ Fault /\ j \in cg /\ UNCHANGED cg
  /\ UNCHANGED <<poolVars, owner, failed>>

RemoveDir(j) ==
  /\ jpc[j] = "rmdir"
  /\ JailGoto(j, "gone")
  /\ \/ NoFault /\ owner' = Without(owner, j)
     \/ Fault /\ j \in DOMAIN owner /\ UNCHANGED owner
  /\ UNCHANGED <<poolVars, cg, failed>>

JailStep(j) == /\ \/ AllocUid(j) \/ MkdirTemp(j) \/ Chown(j) \/ NewCgroup(j)
                  \/ Populate(j)
                  \/ ReleaseUid(j) \/ TeardownCgroup(j) \/ RemoveDir(j)
               /\ UNCHANGED <<want, gone, runVars>>

------------------------------------------------------------------------------
(* ExecuteRun *)

RunGoto(r, to) == rpc' = [rpc EXCEPT ![r] = to]

\* The runs that hold a slot of the gate.
Active == {r \in Reqs : rpc[r] \notin {"queued", "over"}}

\* max_parallel is not capped at the number of cpus.
effectiveParallelUncapped(r) == want[r].parallel

effectiveParallel(r) == IF want[r].parallel > 1 /\ want[r].parallel > NumCPU
                        THEN NumCPU
                        ELSE want[r].parallel

\* What of a run only ExecuteRun's own steps change.
runRest == <<want, gone, faults, inUse, next, uid, owner, cg, failed>>

\* External to this module: AdmissionGate lets at most MaxJobs runs through.
Admit(r) ==
  /\ rpc[r] = "queued"
  /\ Cardinality(Active) < MaxJobs
  /\ RunGoto(r, "template")
  /\ JailGoto(Template(r), "alloc")
  /\ UNCHANGED <<runRest, nextTest, sem, build, err, results,
                 response, recorded>>

TemplateFailed(r) ==
  /\ rpc[r] = "template"
  /\ jpc[Template(r)] = "gone"
  /\ build' = [build EXCEPT ![r] = "internal_error"]
  /\ err' = [err EXCEPT ![r] = TRUE]
  /\ RunGoto(r, "respond")
  /\ UNCHANGED <<runRest, jpc, nextTest, sem, results, response, recorded>>

\* execJail could not start nsjail: a call failed, or the context was already
\* cancelled, in which case os/exec refuses to start the process.
InfraFailure(r) == Fault \/ (r \in gone /\ NoFault)

\* execJail ran nsjail, or could not even make the app dir, which is an error
\* of the program's and not of the infrastructure.
AppDirMayFail == Fault \/ NoFault

\* What runBuild makes of an outcome.  A build that exits with an error, that
\* is killed, that has no app dir, or whose wall clock ran out (an
\* infrastructure error included) has failed; only another infrastructure
\* error is an internal error.
runBuild(r, st) == \/ st = "ok" /\ NoFault
                   \/ st = "failed" /\ AppDirMayFail
                   \/ st = "internal_error" /\ InfraFailure(r)

\* The build of a compiled language, then the tests if it is ok; "return" is
\* the deferred teardown.
BuildStep(r) ==
  /\ rpc[r] = "template"
  /\ jpc[Template(r)] = "ready"
  /\ \E st \in {"ok", "failed", "internal_error"} :
       /\ runBuild(r, st)
       /\ st # "ok" => want[r].compiled
       /\ build' = [build EXCEPT ![r] = st]
       /\ err' = [err EXCEPT ![r] = st = "internal_error"]
       /\ RunGoto(r, IF st = "ok" THEN "tests" ELSE "return")
       /\ results' = IF st = "ok" /\ effectiveParallel(r) > 1
                     THEN [results EXCEPT ![r] = [i \in Tests |-> "zero"]]
                     ELSE results
  /\ UNCHANGED <<want, gone, jailVars, nextTest, sem, response, recorded>>

\* The head of either loop: it ends after the last test or when the context
\* is cancelled.
LoopHead(r) ==
  /\ rpc[r] = "tests"
  /\ RunGoto(r, CASE nextTest[r] <= NTests /\ r \notin gone
                        -> IF effectiveParallel(r) > 1 THEN "spawn" ELSE "exec"
                   [] OTHER
                        -> IF effectiveParallel(r) > 1 THEN "join" ELSE "return")
  /\ UNCHANGED <<runRest, jpc, nextTest, sem, build, err, results,
                 response, recorded>>

\* The verdicts of a test without an app dir and without a process.
AppDirVerdicts == Verdicts \intersect {"runtime_error", "time_exceeded"}

\* The status of a test that went through execJail: nsjail did not start, or
\* the cancelled context beats whatever happened, or its verdict.
TestStatus(r, st) == \/ st = "internal_error" /\ InfraFailure(r)
                     \/ st = "cancelled" /\ r \in gone /\ AppDirMayFail
                     \/ /\ st \in {"accepted"} \union Verdicts
                        /\ r \notin gone
                        /\ IF st \in AppDirVerdicts THEN AppDirMayFail ELSE NoFault

Statuses == {"accepted", "internal_error", "cancelled"} \union Verdicts

SequentialTest(r) ==
  /\ rpc[r] = "exec"
  /\ \E st \in Statuses :
       /\ TestStatus(r, st)
       /\ results' = [results EXCEPT ![r][nextTest[r]] = st]
  /\ nextTest' = [nextTest EXCEPT ![r] = @ + 1]
  /\ RunGoto(r, "tests")
  /\ UNCHANGED <<want, gone, jailVars, sem, build, err, response, recorded>>

\* The send on the semaphore blocks, whether or not the context is cancelled.
Spawn(r) ==
  /\ rpc[r] = "spawn"
  /\ sem[r] < effectiveParallel(r)
  /\ sem' = [sem EXCEPT ![r] = @ + 1]
  /\ JailGoto(<<r, nextTest[r]>>, "alloc")
  /\ nextTest' = [nextTest EXCEPT ![r] = @ + 1]
  /\ RunGoto(r, "tests")
  /\ UNCHANGED <<runRest, build, err, results, response, recorded>>

Seed(r, i) ==
  /\ jpc[<<r, i>>] = "ready"
  /\ \/ /\ NoFault
        /\ JailGoto(<<r, i>>, "exec")
        /\ UNCHANGED results
     \/ /\ Fault
        /\ JailGoto(<<r, i>>, "release")
        /\ results' = [results EXCEPT ![r][i] = "internal_error"]
  /\ UNCHANGED <<want, gone, inUse, next, uid, owner, cg, failed,
                 rpc, nextTest, sem, build, err, response, recorded>>

ParallelTest(r, i) ==
  /\ jpc[<<r, i>>] = "exec"
  /\ \E st \in Statuses :
       /\ TestStatus(r, st)
       /\ results' = [results EXCEPT ![r][i] = st]
  /\ JailGoto(<<r, i>>, "release")
  /\ UNCHANGED <<want, gone, inUse, next, uid, owner, cg, failed, rpc, nextTest,
                 sem, build, err, response, recorded>>

\* The goroutine ends with its semaphore token.
TestExitKeepsToken(r, i) ==
  /\ jpc[<<r, i>>] = "gone"
  /\ results' = IF <<r, i>> \in failed
                THEN [results EXCEPT ![r][i] = "internal_error"]
                ELSE results
  /\ JailGoto(<<r, i>>, "done")
  /\ UNCHANGED <<runRest, rpc, nextTest, sem, build, err, response, recorded>>

\* The goroutine ends, its deferred calls last to first: the teardown has
\* run, then the semaphore token, then wg.Done.
TestExit(r, i) ==
  /\ jpc[<<r, i>>] = "gone"
  /\ results' = IF <<r, i>> \in failed
                THEN [results EXCEPT ![r][i] = "internal_error"]
                ELSE results
  /\ sem' = [sem EXCEPT ![r] = @ - 1]
  /\ JailGoto(<<r, i>>, "done")
  /\ UNCHANGED <<runRest, rpc, nextTest, build, err, response, recorded>>

\* ExecuteRun returns without waiting for the test goroutines.
JoinEarly(r) ==
  /\ rpc[r] = "join"
  /\ RunGoto(r, "return")
  /\ UNCHANGED <<runRest, jpc, nextTest, sem, build, err, results,
                 response, recorded>>

\* wg.Wait
Join(r) ==
  /\ rpc[r] = "join"
  /\ \A i \in Tests : jpc[<<r, i>>] \in {"none", "done"}
  /\ RunGoto(r, "return")
  /\ UNCHANGED <<runRest, jpc, nextTest, sem, build, err, results,
                 response, recorded>>

\* The deferred teardown of the template jail.
Return(r) ==
  /\ rpc[r] = "return"
  /\ \/ /\ jpc[Template(r)] = "ready"
        /\ JailGoto(Template(r), "release")
        /\ UNCHANGED rpc
     \/ /\ jpc[Template(r)] = "gone"
        /\ RunGoto(r, "respond")
        /\ UNCHANGED jpc
  /\ UNCHANGED <<runRest, nextTest, sem, build, err, results,
                 response, recorded>>

------------------------------------------------------------------------------
(* HandleRun after ExecuteRun *)

Failing(ts) == {i \in Tests : ts[i] \notin {"accepted", "absent"}}

\* The status of the first failing test; a zero one counts as not executed.
FirstFailure(ts) ==
  LET t == ts[CHOOSE i \in Failing(ts) : \A k \in Failing(ts) : i <= k]
  IN  IF t = "zero" THEN "not_executed" ELSE t

\* The first failing test decides, also over an internal error.
TopLevelFirstFailure(b, ts) ==
  IF b = "internal_error" THEN "internal_error"
  ELSE IF b = "failed" THEN "build_failed"
  ELSE IF Failing(ts) = {} THEN "accepted"
  ELSE FirstFailure(ts)

computeTopLevelStatus(b, ts) ==
  IF b = "internal_error" THEN "internal_error"
  ELSE IF b = "failed" THEN "build_failed"
  ELSE IF \E i \in Tests : ts[i] = "internal_error" THEN "internal_error"
  ELSE IF Failing(ts) = {} THEN "accepted"
  ELSE FirstFailure(ts)

\* MarshalJSON: a zero status goes out as not_executed.
OnTheWire(ts) == [i \in Tests |-> IF ts[i] = "zero" THEN "not_executed" ELSE ts[i]]

\* The body of a run without an error; a failed build and an internal error
\* overwrite the status of every test.
RunResponse(b, ts) ==
  LET top == computeTopLevelStatus(b, ts)
  IN  [http |-> 200, status |-> top, build |-> b,
       tests |-> IF top \in {"build_failed", "internal_error"}
                 THEN [i \in Tests |-> "not_executed"]
                 ELSE OnTheWire(ts)]

\* ExecuteRun reports every error with a build status of internal_error, so
\* the 500 is never sent.
ErrorResponse(b) ==
  IF b = "internal_error"
  THEN [http |-> 200, status |-> "internal_error", build |-> b, tests |-> <<>>]
  ELSE [http |-> 500, status |-> "internal_error", build |-> b, tests |-> <<>>]

Respond(r) ==
  /\ rpc[r] = "respond"
  /\ RunGoto(r, "over")
  /\ \/ /\ r \in gone
        /\ recorded' = [recorded EXCEPT ![r] =
                          Record("cancelled", err[r], err[r])]
        /\ UNCHANGED response
     \/ /\ r \notin gone /\ err[r]
        /\ response' = [response EXCEPT ![r] = ErrorResponse(build[r])]
        /\ recorded' = [recorded EXCEPT ![r] =
                          Record("internal_error", TRUE,
                                 build[r] # "internal_error")]
     \/ /\ r \notin gone /\ ~err[r]
        /\ LET resp == RunResponse(build[r], results[r])
           IN  /\ response' = [response EXCEPT ![r] = resp]
               /\ recorded' = [recorded EXCEPT ![r] =
                    Record(resp.status, resp.status = "internal_error", FALSE)]
  /\ UNCHANGED <<want, gone, faults, jailVars, nextTest, sem, build, err,
                 results>>

\* External: the client disconnects and net/http cancels the context.
Disconnect(r) ==
  /\ r \in Active
  /\ gone' = gone \union {r}
  /\ UNCHANGED <<want, faults, jailVars, runVars>>

RunStep(r) == \/ TemplateFailed(r) \/ BuildStep(r) \/ LoopHead(r)
              \/ SequentialTest(r) \/ Spawn(r) \/ Join(r) \/ Return(r)
              \/ Respond(r)

TestStep(r, i) == Seed(r, i) \/ ParallelTest(r, i) \/ TestExit(r, i)

Next == \/ \E r \in Reqs : Admit(r) \/ RunStep(r) \/ Disconnect(r)
        \/ \E r \in Reqs, i \in Tests : TestStep(r, i)
        \/ \E j \in Jails : JailStep(j)

Spec == Init /\ [][Next]_vars

\* The handler's goroutine also makes and removes the template jail, a test's
\* goroutine its own.  Each runs while it can; execJail comes back because
\* nsjail has a wall clock limit.
Fairness == /\ \A r \in Reqs : WF_vars(RunStep(r) \/ JailStep(Template(r)))
            /\ \A r \in Reqs, i \in Tests :
                 WF_vars(TestStep(r, i) \/ JailStep(<<r, i>>))

FairSpec == Spec /\ Fairness

------------------------------------------------------------------------------
JailPlaces == {"none", "alloc", "mkdir", "chown", "cgroup", "populate", "ready",
               "exec", "release", "rmcg", "rmdir", "gone", "done"}

\* Every variable has its type; the semaphore holds at most NumCPU tokens.
TypeOK ==
  /\ gone \subseteq Reqs
  /\ rpc \in [Reqs -> {"queued", "template", "tests", "exec", "spawn", "join",
                       "return", "respond", "over"}]
  /\ nextTest \in [Reqs -> 1..(NTests + 1)]
  /\ sem \in [Reqs -> 0..NumCPU]
  /\ build \in [Reqs -> {"ok", "failed", "internal_error"}]
  /\ err \in [Reqs -> BOOLEAN]
  /\ results \in [Reqs -> [Tests -> {"absent", "zero"} \union Statuses]]
  /\ jpc \in [Jails -> JailPlaces]
  /\ Pool!TypeOK
  /\ DOMAIN owner \subseteq Jails
  /\ cg \subseteq Jails
  /\ failed \subseteq Jails
  /\ faults \in 0..MaxFaults

(* "The pool can never be exhausted while the API admission gate admits      *)
(* jobs": whenever newJail asks for a uid there is one.  It takes the size   *)
(* of the pool, the gate's limit, the semaphore and the order of the         *)
(* deferred calls (teardown before the token) to make it so.                 *)
PoolNeverExhausted ==
  \A j \in Jails : jpc[j] = "alloc" => inUse # Pool!Uids

(* "Never share a uid between jails": from the moment its directory is       *)
(* handed over until its teardown, a jail holds the uid that owns its        *)
(* directory, the pool knows it to be in use, and no other jail has it.      *)
JailsHaveOwnUid ==
  \A j \in Jails :
    jpc[j] \in {"cgroup", "populate", "ready", "exec"} =>
      /\ owner[j] = uid[j] /\ uid[j] \in inUse
      /\ \A k \in Jails \ {j} : uid[k] # uid[j]

(* A test jail is seeded from the template and executed only while the       *)
(* template jail stands: wg.Wait comes before the template's teardown.       *)
TemplateOutlivesTests ==
  \A r \in Reqs, i \in Tests :
     jpc[<<r, i>>] \in {"ready", "exec"} => jpc[Template(r)] = "ready"

(* "teardown releases all of it in one guaranteed path": a run that is over  *)
(* holds no uid, and each dir or cgroup it leaves behind is one whose        *)
(* removal failed, however the run ended.                                    *)
NothingLeftBehind ==
  LET over == {j \in Jails : rpc[j[1]] = "over"}
  IN  /\ \A j \in over : uid[j] = Pool!NoUid
      /\ Cardinality(over \intersect DOMAIN owner)
            + Cardinality(over \intersect cg) <= faults

(* A response means what it says.  A client that is still there gets one     *)
(* status per test, each the verdict of runSingleTest (never a zero, skipped *)
(* or cancelled one), unless the build failed or something internal did; and *)
(* it reads accepted exactly if the build and every test were.               *)
ResponseFaithful ==
  \A r \in Reqs :
    response[r] # NoResponse =>
      /\ response[r].status = "accepted"
           <=> build[r] = "ok" /\ \A i \in Tests : results[r][i] = "accepted"
      /\ response[r].status \notin {"build_failed", "internal_error"}
           => \A i \in Tests : /\ response[r].tests[i] = results[r][i]
                               /\ results[r][i] \in {"accepted"} \union Verdicts
      /\ response[r].status = "internal_error"
           <=> \/ build[r] = "internal_error"
               \/ \E i \in Tests : results[r][i] = "internal_error"

(* Every admitted run ends, however its calls fail and whenever its client   *)
(* leaves, also when that happens while the loop waits for a semaphore       *)
(* token.                                                                    *)
EveryRunEnds == \A r \in Reqs : rpc[r] # "queued" ~> rpc[r] = "over"
=============================================================================
