--------------------------- MODULE PipelineProofs ---------------------------
(***************************************************************************)
(* The safety of the runs (RunPipeline), alone and with crashes (Restart), *)
(* for every number of runs, tests, job slots, cpus and failing calls.     *)
(*                                                                         *)
(* None of the properties is inductive.  That the pool suffices needs that *)
(* each jail with a uid is a template of a run in a slot of the gate or    *)
(* belongs to a goroutine with a semaphore token, and so an injection of   *)
(* the jails into slots times (NumCPU + 1); that a token is one living     *)
(* goroutine; and where the jails of a run are at each of its stages.      *)
(* That a response is faithful needs which results are written by when.    *)
(* PipelineInv is the conjunction of these facts; RestartInv adds that no  *)
(* run begins before the sweeps are done.                                  *)
(***************************************************************************)
EXTENDS Restart, FunctionTheorems, FiniteSetTheorems, WellFoundedInduction, TLAPS

PoolProofs == INSTANCE UidPoolProofs WITH PoolSize <- UidBudget

------------------------------------------------------------------------------
(* The inductive invariant *)

\* The places of a jail that holds a uid, that has a dir of its own, that is
\* complete, and that is not torn down yet or never was.
HasUid == {"mkdir", "chown", "cgroup", "populate", "ready", "exec", "release"}
HasDir == {"chown", "cgroup", "populate", "ready", "exec"}
OwnsDir == {"cgroup", "populate", "ready", "exec"}

\* What a jail has at each place of its walk.
JailsOK ==
  \A j \in Jails :
    /\ uid[j] # Pool!NoUid <=> jpc[j] \in HasUid
    /\ jpc[j] \in {"none", "alloc", "mkdir"} => j \notin DOMAIN owner
    /\ jpc[j] \in HasDir => j \in DOMAIN owner
    /\ jpc[j] \in OwnsDir => owner[j] = uid[j]
    /\ jpc[j] \in {"none", "alloc", "mkdir", "chown", "cgroup"} => j \notin cg

\* The pool's own invariant.
PoolOK == Pool!TypeOK /\ Pool!NoSharedUid /\ Pool!InUseIsHeld

\* The test goroutines of a run that are alive: each holds a token.
Alive(r) == {i \in Tests : jpc[<<r, i>>] \notin {"none", "done"}}

\* The gate's slots and the semaphores count what they are meant to.
SlotsOK == /\ Cardinality(Active) <= MaxJobs
           /\ \A r \in Reqs : sem[r] = Cardinality(Alive(r))

\* Where a run's template jail and its test jails are, by where the run is.
StageOK(r) ==
  /\ rpc[r] = "queued" => jpc[Template(r)] = "none"
  /\ rpc[r] = "template" => jpc[Template(r)] # "none"
  /\ rpc[r] \in {"tests", "exec", "spawn", "join"} => jpc[Template(r)] = "ready"
  /\ rpc[r] = "return" => jpc[Template(r)] \in {"ready", "release", "rmcg",
                                               "rmdir", "gone"}
  /\ rpc[r] \in {"respond", "over"} => jpc[Template(r)] = "gone"
  /\ jpc[Template(r)] \notin {"exec", "done"}
  /\ rpc[r] \in {"exec", "spawn"} => nextTest[r] <= NTests
  /\ rpc[r] \in {"queued", "template"} => nextTest[r] = 1
  /\ rpc[r] = "exec" => effectiveParallel(r) <= 1
  /\ rpc[r] \in {"spawn", "join"} => effectiveParallel(r) > 1
  /\ \A i \in Tests :
       /\ jpc[<<r, i>>] \notin {"none", "done"} => rpc[r] \in {"tests", "spawn", "join"}
       /\ jpc[<<r, i>>] # "none" => i < nextTest[r] /\ effectiveParallel(r) > 1

\* What a run's results are, by where the run and its test jails are.
ResultsOK(r) ==
  /\ err[r] <=> build[r] = "internal_error"
  /\ rpc[r] \in {"queued", "template", "tests", "exec", "spawn", "join"}
       => build[r] = "ok"
  /\ build[r] # "ok" => nextTest[r] = 1
  /\ rpc[r] \in {"join", "return", "respond", "over"} /\ build[r] = "ok"
       => r \in gone \/ nextTest[r] = NTests + 1
  /\ \A i \in Tests :
       /\ i < nextTest[r] /\ effectiveParallel(r) <= 1
            => results[r][i] \in Statuses
       /\ i < nextTest[r] /\ effectiveParallel(r) > 1 => jpc[<<r, i>>] # "none"
       /\ jpc[<<r, i>>] = "done" => results[r][i] \in Statuses
       /\ jpc[<<r, i>>] \in {"release", "rmcg", "rmdir", "gone"}
            => results[r][i] \in Statuses \/ <<r, i>> \in failed
       /\ i >= nextTest[r] => results[r][i] \notin Statuses
       /\ results[r][i] = "cancelled" => r \in gone

\* The response that was sent is the one of the final state of the run.
ResponseOK(r) ==
  response[r] # NoResponse =>
    /\ rpc[r] = "over" /\ r \notin gone
    /\ response[r] = IF err[r] THEN ErrorResponse(build[r])
                               ELSE RunResponse(build[r], results[r])

\* The dirs and the cgroups whose removal failed, each of which cost a fault.
LeftDir == {j \in Jails : jpc[j] \in {"gone", "done"} /\ j \in DOMAIN owner}
LeftCg == {j \in Jails : jpc[j] \in {"rmdir", "gone", "done"} /\ j \in cg}
LeftoversOK == Cardinality(LeftDir) + Cardinality(LeftCg) <= faults

\* Each run has its request and room for a response.
WantOK == /\ want \in [Reqs -> [compiled : Compiled, parallel : MaxParallels]]
          /\ DOMAIN response = Reqs

PipelineInv == /\ WantOK /\ TypeOK
               /\ PoolOK /\ JailsOK /\ SlotsOK /\ LeftoversOK
               /\ \A r \in Reqs : StageOK(r) /\ ResultsOK(r) /\ ResponseOK(r)

------------------------------------------------------------------------------
(* Constants and sets *)

\* What the constants may be.
LEMMA PipelineConstants ==
  /\ IsFiniteSet(Reqs) /\ NTests \in Nat \ {0}
  /\ Compiled \subseteq BOOLEAN /\ MaxParallels \subseteq Nat \ {0}
  /\ MaxJobs \in Nat \ {0} /\ NumCPU \in Nat \ {0} /\ MaxFaults \in Nat
  /\ Verdicts \intersect {"zero", "absent", "accepted", "cancelled",
                          "internal_error", "not_executed"} = {}
BY PipelineAssumption DEF PipelineAssumption

\* Products of sizes.
LEMMA ProductPositive ==
  ASSUME NEW a \in Nat \ {0}, NEW b \in Nat \ {0}
  PROVE  a * b \in Nat \ {0}
<1>1. a \in Int /\ b \in Int /\ a >= 1 /\ b >= 1
  OBVIOUS
<1>2. a * b \in Int /\ a * b >= 1
  BY <1>1
<1> QED
  BY <1>2

\* A product grows with its first factor.
LEMMA ProductMonotone ==
  ASSUME NEW a \in Int, NEW b \in Int, NEW c \in Int, c >= 0, a <= b
  PROVE  a * c <= b * c
OBVIOUS

\* The pool has at least one uid.
LEMMA BudgetPositive == UidBudget \in Nat \ {0}
<1>1. NumCPU + 1 \in Nat \ {0} /\ MaxJobs \in Nat \ {0}
  BY PipelineConstants
<1> QED
  BY <1>1, ProductPositive DEF UidBudget

\* A jail is a run and a number.
LEMMA JailPairs ==
  /\ \A j \in Jails : /\ j = <<j[1], j[2]>>
                      /\ j[1] \in Reqs
                      /\ j[2] = 0 \/ j[2] \in Tests
  /\ \A r \in Reqs : Template(r) \in Jails
  /\ \A r \in Reqs, i \in Tests : <<r, i>> \in Jails /\ <<r, i>> # Template(r)
BY PipelineConstants DEF Jails, Tests, Template

\* There are finitely many jails and tests.
LEMMA JailsFinite == IsFiniteSet(Jails) /\ IsFiniteSet(Tests)
<1>1. IsFiniteSet(0..NTests) /\ IsFiniteSet(Tests)
  BY FS_Interval, PipelineConstants DEF Tests
<1> QED
  BY <1>1, FS_Product, PipelineConstants DEF Jails

\* A set of at most n elements fits into 1..n.
LEMMA FitsInto ==
  ASSUME NEW S, IsFiniteSet(S), NEW n \in Nat, Cardinality(S) <= n
  PROVE  \E f : f \in [S -> 1..n] /\ \A a, b \in S : f[a] = f[b] => a = b
<1> DEFINE c == Cardinality(S)
<1>1. c \in Nat /\ ExistsBijection(1..c, S)
  BY FS_CardinalityType
<1>2. PICK g : g \in Bijection(1..c, S)
  BY <1>1, Fun_ExistsBij
<1>3. g \in [1..c -> S] /\ \A t \in S : \E k \in 1..c : g[k] = t
  BY <1>2 DEF Bijection, Injection, Surjection
<1>4. 1..c \subseteq 1..n
  BY <1>1
<1> DEFINE f == [t \in S |-> CHOOSE k \in 1..c : g[k] = t]
<1>5. \A t \in S : f[t] \in 1..c /\ g[f[t]] = t
  BY <1>3
<1>6. f \in [S -> 1..n] /\ \A a, b \in S : f[a] = f[b] => a = b
  BY <1>4, <1>5
<1> QED
  BY <1>6

------------------------------------------------------------------------------
(* The pool suffices *)

\* effectiveParallel is at least one and at most the number of cpus.
LEMMA ParallelBound ==
  ASSUME WantOK, NEW r \in Reqs
  PROVE  effectiveParallel(r) \in 1..NumCPU
<1>1. want[r].parallel \in Nat /\ want[r].parallel >= 1
  <2>1. want[r].parallel \in MaxParallels
    BY DEF WantOK
  <2>2. want[r].parallel \in Nat \ {0}
    BY <2>1, PipelineConstants, Zenon
  <2> QED
    BY <2>2
<1>2. NumCPU \in Nat /\ NumCPU >= 1
  BY PipelineConstants
<1> QED
  BY <1>1, <1>2 DEF effectiveParallel

\* The jails that have a uid or ask for one fit into the slots of the gate
\* times a template and NumCPU tokens each.
LEMMA BusyFits ==
  ASSUME PipelineInv
  PROVE  LET Busy == {j \in Jails : jpc[j] \in HasUid \union {"alloc"}}
         IN  IsFiniteSet(Busy) /\ Cardinality(Busy) <= UidBudget
<1> DEFINE Busy == {j \in Jails : jpc[j] \in HasUid \union {"alloc"}}
           Slots == Active \X (0..NumCPU)
<1>1. IsFiniteSet(Busy)
  BY JailsFinite, FS_Subset
<1>2. ASSUME NEW r \in Reqs
      PROVE  \E f : /\ f \in [Alive(r) -> 1..NumCPU]
                    /\ \A a, b \in Alive(r) : f[a] = f[b] => a = b
  <2>1. IsFiniteSet(Alive(r))
    BY JailsFinite, FS_Subset DEF Alive
  <2>2. Cardinality(Alive(r)) <= NumCPU
    BY DEF PipelineInv, SlotsOK, TypeOK
  <2> QED
    BY <2>1, <2>2, FitsInto, PipelineConstants
<1> DEFINE token(r) == CHOOSE f : /\ f \in [Alive(r) -> 1..NumCPU]
                                  /\ \A a, b \in Alive(r) : f[a] = f[b] => a = b
<1>3. ASSUME NEW r \in Reqs
      PROVE  /\ \A a \in Alive(r) : token(r)[a] \in 1..NumCPU
             /\ \A a, b \in Alive(r) : token(r)[a] = token(r)[b] => a = b
  BY <1>2
<1> HIDE DEF token
<1>4. ASSUME NEW j \in Busy
      PROVE  j[1] \in Active /\ (j[2] = 0 \/ j[2] \in Alive(j[1]))
  <2>1. /\ j[1] \in Reqs /\ j = <<j[1], j[2]>> /\ (j[2] = 0 \/ j[2] \in Tests)
        /\ StageOK(j[1])
    BY JailPairs DEF PipelineInv
  <2>2. jpc[j] \notin {"none", "gone", "done"}
    BY DEF HasUid
  <2>3. CASE j[2] = 0
    <3>1. j = Template(j[1])
      BY <2>1, <2>3 DEF Template
    <3> QED
      BY <2>1, <2>2, <2>3, <3>1 DEF StageOK, Active
  <2>4. CASE j[2] \in Tests
    BY <2>1, <2>2, <2>4 DEF StageOK, Active, Alive
  <2> QED
    BY <2>1, <2>3, <2>4
<1> DEFINE g == [j \in Busy |->
                   <<j[1], IF j[2] = 0 THEN 0 ELSE token(j[1])[j[2]]>>]
<1>5. g \in [Busy -> Slots]
  <2> SUFFICES ASSUME NEW j \in Busy
               PROVE  (IF j[2] = 0 THEN 0 ELSE token(j[1])[j[2]]) \in 0..NumCPU
    BY <1>4
  <2>1. j[1] \in Reqs
    BY JailPairs
  <2> QED
    BY <1>3, <1>4, <2>1, PipelineConstants
<1>6. ASSUME NEW j \in Busy, NEW k \in Busy, g[j] = g[k]
      PROVE  j = k
  <2>1. /\ j[1] = k[1]
        /\ (IF j[2] = 0 THEN 0 ELSE token(j[1])[j[2]])
             = (IF k[2] = 0 THEN 0 ELSE token(k[1])[k[2]])
    BY <1>6
  <2>2. j[1] \in Reqs /\ j = <<j[1], j[2]>> /\ k = <<k[1], k[2]>>
    BY JailPairs
  <2>3. j[2] = k[2]
    BY <1>3, <1>4, <2>1, <2>2
  <2> QED
    BY <2>1, <2>2, <2>3
<1>7. g \in Injection(Busy, Slots)
  BY <1>5, <1>6, Fun_IsInj
<1>8. IsFiniteSet(Active) /\ Cardinality(Active) \in Nat
  BY FS_Subset, FS_CardinalityType, PipelineConstants DEF Active
<1>9. IsFiniteSet(0..NumCPU) /\ Cardinality(0..NumCPU) = NumCPU + 1
  BY FS_Interval, PipelineConstants
<1>10. IsFiniteSet(Slots) /\ Cardinality(Slots) = Cardinality(Active) * (NumCPU + 1)
  BY <1>8, <1>9, FS_Product
<1>11. Cardinality(Active) * (NumCPU + 1) <= UidBudget
  BY <1>8, ProductMonotone, PipelineConstants
     DEF PipelineInv, SlotsOK, UidBudget
<1>12. Cardinality(Busy) <= Cardinality(Slots)
  BY <1>7, <1>10, FS_Injection
<1>13. Cardinality(Busy) \in Nat /\ Cardinality(Slots) \in Nat /\ UidBudget \in Nat
  BY <1>1, <1>10, FS_CardinalityType, BudgetPositive
<1> QED
  BY <1>1, <1>10, <1>11, <1>12, <1>13

\* A jail that asks for a uid finds one: it is itself among the busy ones.
LEMMA PoolSuffices ==
  ASSUME PipelineInv
  PROVE  PoolNeverExhausted
<1> SUFFICES ASSUME NEW j0 \in Jails, jpc[j0] = "alloc", inUse = Pool!Uids
             PROVE  FALSE
  BY DEF PoolNeverExhausted
<1> DEFINE Busy == {j \in Jails : jpc[j] \in HasUid \union {"alloc"}}
           Holders == {j \in Jails : uid[j] # Pool!NoUid}
           h == [j \in Holders |-> uid[j]]
<1>1. IsFiniteSet(Busy) /\ Cardinality(Busy) <= UidBudget
  BY BusyFits
<1>2. j0 \in Busy /\ Holders \subseteq Busy \ {j0}
  BY DEF PipelineInv, JailsOK, HasUid
<1>3. IsFiniteSet(Busy \ {j0}) /\ Cardinality(Busy \ {j0}) = Cardinality(Busy) - 1
  BY <1>1, <1>2, FS_RemoveElement
<1>4. IsFiniteSet(Holders) /\ Cardinality(Holders) <= Cardinality(Busy) - 1
  BY <1>2, <1>3, FS_Subset
<1>5. h \in Surjection(Holders, Pool!Held)
  <2>1. h \in [Holders -> Pool!Held] /\ \A u \in Pool!Held : \E j \in Holders : h[j] = u
    BY DEF Pool!Held
  <2> QED
    BY <2>1, Fun_IsSurj
<1>6. IsFiniteSet(Pool!Held) /\ Cardinality(Pool!Held) <= Cardinality(Holders)
  BY <1>4, <1>5, FS_Surjection
<1>7. Cardinality(Pool!Uids) = UidBudget
  BY FS_Interval, BudgetPositive DEF Pool!Uids
<1>8. Pool!Held = Pool!Uids
  BY DEF PipelineInv, PoolOK, Pool!InUseIsHeld
<1>9. /\ Cardinality(Busy) \in Nat /\ Cardinality(Holders) \in Nat
      /\ UidBudget \in Nat
  BY <1>1, <1>4, FS_CardinalityType, BudgetPositive
<1> QED
  BY <1>1, <1>4, <1>6, <1>7, <1>8, <1>9

------------------------------------------------------------------------------
(* The steps of a jail: newJail and teardown *)

\* The walk of a jail: out of a place of newJail or teardown, forward, and
\* into a teardown only after an error.
Making == {"alloc", "mkdir", "chown", "cgroup", "populate"}
Unmaking == {"release", "rmcg", "rmdir"}
JailMove(j, to) ==
  /\ jpc' = [jpc EXCEPT ![j] = to]
  /\ \/ jpc[j] \in Making /\ to \in {"mkdir", "chown", "cgroup", "populate", "ready"}
     \/ jpc[j] \in Making /\ to \in {"release", "gone"} /\ j \in failed'
     \/ jpc[j] \in Unmaking /\ to \in {"rmcg", "rmdir", "gone"}
  /\ failed \subseteq failed'

\* A step of a jail is such a move.
LEMMA JailStepMoves ==
  ASSUME NEW j \in Jails, JailStep(j)
  PROVE  \E to : JailMove(j, to)
<1> USE DEF JailMove, JailGoto, Making, Unmaking
<1>1. CASE AllocUid(j)
  BY <1>1 DEF AllocUid
<1>2. CASE MkdirTemp(j)
  BY <1>2 DEF MkdirTemp
<1>3. CASE Chown(j)
  BY <1>3 DEF Chown
<1>4. CASE NewCgroup(j)
  BY <1>4 DEF NewCgroup
<1>5. CASE Populate(j)
  BY <1>5 DEF Populate
<1>6. CASE ReleaseUid(j)
  BY <1>6 DEF ReleaseUid
<1>7. CASE TeardownCgroup(j)
  BY <1>7 DEF TeardownCgroup
<1>8. CASE RemoveDir(j)
  BY <1>8 DEF RemoveDir
<1> QED
  BY <1>1, <1>2, <1>3, <1>4, <1>5, <1>6, <1>7, <1>8 DEF JailStep

\* The pool's theorems, for the pool of the runs.
LEMMA PoolSteps ==
  ASSUME PoolOK, NEW j \in Jails,
         Pool!Alloc(j) \/ Pool!AllocFails(j) \/ Pool!Release(j)
  PROVE  PoolOK'
<1> USE DEF PoolProofs!PoolInv, PoolProofs!TypeOK, PoolProofs!NoSharedUid,
            PoolProofs!InUseIsHeld, PoolProofs!Held, PoolProofs!Uids,
            PoolProofs!NoUid, PoolOK, Pool!TypeOK, Pool!NoSharedUid,
            Pool!InUseIsHeld, Pool!Held, Pool!Uids, Pool!NoUid
<1>1. PoolProofs!PoolInv
  OBVIOUS
<1>2. CASE Pool!Alloc(j)
  <2>1. PoolProofs!Alloc(j)
    BY <1>2 DEF Pool!Alloc, PoolProofs!Alloc, Pool!Candidate, PoolProofs!Candidate
  <2>2. PoolProofs!PoolInv'
    BY <1>1, <2>1, BudgetPositive, PoolProofs!AllocPoolInv
  <2> QED
    BY <2>2
<1>3. CASE Pool!AllocFails(j)
  BY <1>3 DEF Pool!AllocFails, Pool!poolVars
<1>4. CASE Pool!Release(j)
  <2>1. PoolProofs!Release(j)
    BY <1>4 DEF Pool!Release, PoolProofs!Release
  <2>2. PoolProofs!PoolInv'
    BY <1>1, <2>1, BudgetPositive, PoolProofs!ReleasePoolInv
  <2> QED
    BY <2>2
<1> QED
  BY <1>2, <1>3, <1>4

\* Alloc never fails in a run.
LEMMA AllocNeverFails ==
  ASSUME PipelineInv, NEW j \in Jails, jpc[j] = "alloc"
  PROVE  ~Pool!AllocFails(j)
<1> SUFFICES ASSUME Pool!AllocFails(j) PROVE FALSE
  OBVIOUS
<1>1. PoolProofs!AllocFails(j) /\ PoolProofs!TypeOK
  BY DEF PipelineInv, PoolOK, Pool!TypeOK, PoolProofs!TypeOK, Pool!AllocFails,
         PoolProofs!AllocFails, Pool!Uids, PoolProofs!Uids, Pool!NoUid,
         PoolProofs!NoUid, Pool!Candidate, PoolProofs!Candidate,
         Pool!poolVars, PoolProofs!poolVars
<1>2. inUse = PoolProofs!Uids
  BY <1>1, BudgetPositive, PoolProofs!AllocFindsFree
<1> QED
  BY <1>2, PoolSuffices DEF PoolNeverExhausted, Pool!Uids, PoolProofs!Uids

\* A step of a jail keeps the types.
LEMMA JailStepType ==
  ASSUME PipelineInv, NEW j \in Jails, JailStep(j)
  PROVE  WantOK' /\ TypeOK' /\ PoolOK'
<1> USE DEF JailGoto, NoFault, Fault, poolVars
<1>1. TypeOK /\ PoolOK /\ faults \in Nat /\ MaxFaults \in Nat
  BY PipelineConstants DEF PipelineInv, TypeOK
<1>2. PoolOK'
  <2>1. CASE AllocUid(j)
    BY <1>1, <2>1, PoolSteps DEF AllocUid
  <2>2. CASE ReleaseUid(j)
    BY <1>1, <2>2, PoolSteps DEF ReleaseUid
  <2>3. CASE UNCHANGED poolVars
    BY <1>1, <2>3 DEF PoolOK, Pool!TypeOK, Pool!NoSharedUid, Pool!InUseIsHeld,
                      Pool!Held
  <2> QED
    BY <2>1, <2>2, <2>3 DEF JailStep, MkdirTemp, Chown, NewCgroup, Populate,
                            TeardownCgroup, RemoveDir
<1>3. /\ UNCHANGED <<want, gone, runVars>>
      /\ \E to \in JailPlaces : jpc' = [jpc EXCEPT ![j] = to]
  BY JailStepMoves DEF JailStep, JailMove, JailPlaces
<1>4. /\ DOMAIN owner' \subseteq DOMAIN owner \union {j}
      /\ cg' \subseteq cg \union {j} /\ failed' \subseteq failed \union {j}
      /\ faults' \in 0..MaxFaults
  <2>1. CASE AllocUid(j)
    BY <1>1, <2>1 DEF AllocUid, TypeOK
  <2>2. CASE MkdirTemp(j)
    BY <1>1, <2>2 DEF MkdirTemp, With, TypeOK
  <2>3. CASE Chown(j)
    BY <1>1, <2>3 DEF Chown, TypeOK
  <2>4. CASE NewCgroup(j)
    BY <1>1, <2>4 DEF NewCgroup, TypeOK
  <2>5. CASE Populate(j)
    BY <1>1, <2>5 DEF Populate, TypeOK
  <2>6. CASE ReleaseUid(j)
    BY <1>1, <2>6 DEF ReleaseUid, TypeOK
  <2>7. CASE TeardownCgroup(j)
    BY <1>1, <2>7 DEF TeardownCgroup, TypeOK
  <2>8. CASE RemoveDir(j)
    BY <1>1, <2>8 DEF RemoveDir, Without, TypeOK
  <2> QED
    BY <2>1, <2>2, <2>3, <2>4, <2>5, <2>6, <2>7, <2>8 DEF JailStep
<1>5. TypeOK'
  BY <1>1, <1>2, <1>3, <1>4 DEF TypeOK, PoolOK, runVars
<1>6. WantOK'
  BY <1>3 DEF PipelineInv, WantOK, runVars
<1> QED
  BY <1>2, <1>5, <1>6

\* What a jail has and where it is stay in step.
LEMMA JailStepHas ==
  ASSUME PipelineInv, NEW j \in Jails, JailStep(j)
  PROVE  JailsOK'
<1> USE DEF JailGoto, HasUid, HasDir, OwnsDir, poolVars
<1>1. /\ JailsOK /\ jpc \in [Jails -> JailPlaces]
      /\ uid \in [Jails -> Pool!Uids \union {Pool!NoUid}]
  BY DEF PipelineInv, TypeOK, Pool!TypeOK
<1>2. CASE AllocUid(j)
  <2>1. Pool!Alloc(j) /\ jpc[j] = "alloc" /\ jpc' = [jpc EXCEPT ![j] = "mkdir"]
        /\ UNCHANGED <<owner, cg>>
    BY <1>2, AllocNeverFails DEF AllocUid
  <2>2. \E u \in Pool!Uids : uid' = [uid EXCEPT ![j] = u]
    <3>1. next \in Nat /\ UidBudget \in Nat \ {0}
      BY BudgetPositive DEF PipelineInv, PoolOK, Pool!TypeOK, Pool!Uids
    <3>2. \A i \in 0..(UidBudget - 1) : Pool!Candidate(i) \in Pool!Uids
      BY <3>1 DEF Pool!Candidate, Pool!Uids
    <3> QED
      BY <2>1, <3>2 DEF Pool!Alloc
  <2>3. Pool!NoUid \notin Pool!Uids
    BY BudgetPositive DEF Pool!Uids, Pool!NoUid
  <2> QED
    BY <1>1, <2>1, <2>2, <2>3 DEF JailsOK
<1>3. CASE MkdirTemp(j)
  BY <1>1, <1>3 DEF MkdirTemp, JailsOK, With
<1>4. CASE Chown(j)
  BY <1>1, <1>4 DEF Chown, JailsOK
<1>5. CASE NewCgroup(j)
  BY <1>1, <1>5 DEF NewCgroup, JailsOK
<1>6. CASE Populate(j)
  BY <1>1, <1>6 DEF Populate, JailsOK
<1>7. CASE ReleaseUid(j)
  BY <1>1, <1>7 DEF ReleaseUid, JailsOK, Pool!Release
<1>8. CASE TeardownCgroup(j)
  BY <1>1, <1>8 DEF TeardownCgroup, JailsOK
<1>9. CASE RemoveDir(j)
  BY <1>1, <1>9 DEF RemoveDir, JailsOK, Without
<1> QED
  BY <1>2, <1>3, <1>4, <1>5, <1>6, <1>7, <1>8, <1>9 DEF JailStep

\* The leftovers are finitely many.
LEMMA LeftFinite ==
  /\ IsFiniteSet(LeftDir) /\ Cardinality(LeftDir) \in Nat
  /\ IsFiniteSet(LeftCg) /\ Cardinality(LeftCg) \in Nat
BY JailsFinite, FS_Subset, FS_CardinalityType DEF LeftDir, LeftCg

\* Adding an element to a finite set adds at most one to its size.
LEMMA OneMore ==
  ASSUME NEW S, IsFiniteSet(S), NEW x
  PROVE  Cardinality(S \union {x}) <= Cardinality(S) + 1
<1>1. Cardinality(S) \in Nat
  BY FS_CardinalityType
<1>2. Cardinality(S \union {x}) = IF x \in S THEN Cardinality(S)
                                             ELSE Cardinality(S) + 1
  BY FS_AddElement
<1> QED
  BY <1>1, <1>2

\* Each dir or cgroup that a teardown leaves costs a failing call.
LEMMA JailStepLeftovers ==
  ASSUME PipelineInv, NEW j \in Jails, JailStep(j)
  PROVE  LeftoversOK'
<1> USE DEF JailGoto, NoFault, Fault
<1>1. /\ JailsOK /\ LeftoversOK /\ jpc \in [Jails -> JailPlaces]
      /\ faults \in Nat
  BY PipelineConstants DEF PipelineInv, TypeOK
<1>2. CASE LeftDir' = LeftDir /\ LeftCg' = LeftCg /\ faults' \in {faults, faults + 1}
  BY <1>1, <1>2, LeftFinite DEF LeftoversOK
<1>3. CASE AllocUid(j)
  <2>1. /\ jpc' = [jpc EXCEPT ![j] = "mkdir"] /\ jpc[j] = "alloc"
        /\ UNCHANGED <<owner, cg, faults>>
    BY <1>3, AllocNeverFails DEF AllocUid
  <2> QED
    BY <1>1, <1>2, <2>1 DEF LeftDir, LeftCg
<1>4. CASE MkdirTemp(j)
  BY <1>1, <1>2, <1>4 DEF MkdirTemp, LeftDir, LeftCg, With
<1>5. CASE Chown(j)
  BY <1>1, <1>2, <1>5 DEF Chown, LeftDir, LeftCg
<1>6. CASE NewCgroup(j)
  BY <1>1, <1>2, <1>6 DEF NewCgroup, LeftDir, LeftCg
<1>7. CASE Populate(j)
  BY <1>1, <1>2, <1>7 DEF Populate, LeftDir, LeftCg
<1>8. CASE ReleaseUid(j)
  BY <1>1, <1>2, <1>8 DEF ReleaseUid, LeftDir, LeftCg
<1>9. CASE TeardownCgroup(j)
  <2>1. LeftDir' = LeftDir
    BY <1>1, <1>9 DEF TeardownCgroup, LeftDir
  <2>2. CASE NoFault
    <3>1. LeftCg' = LeftCg
      BY <1>1, <1>9, <2>2 DEF TeardownCgroup, LeftCg
    <3> QED
      BY <1>2, <2>1, <2>2, <3>1
  <2>3. CASE Fault /\ cg' = cg
    <3>1. LeftCg' = LeftCg \union {j}
      BY <1>1, <1>9, <2>3 DEF TeardownCgroup, LeftCg
    <3>2. Cardinality(LeftCg') <= Cardinality(LeftCg) + 1
      BY <3>1, OneMore, LeftFinite
    <3>3. Cardinality(LeftCg') \in Nat
      BY <3>1, LeftFinite, FS_AddElement, FS_CardinalityType
    <3> QED
      BY <1>1, <2>1, <2>3, <3>2, <3>3, LeftFinite DEF LeftoversOK
  <2> QED
    BY <1>9, <2>2, <2>3 DEF TeardownCgroup
<1>10. CASE RemoveDir(j)
  <2>1. LeftCg' = LeftCg
    BY <1>1, <1>10 DEF RemoveDir, LeftCg
  <2>2. CASE NoFault
    <3>1. LeftDir' = LeftDir
      BY <1>1, <1>10, <2>2 DEF RemoveDir, LeftDir, Without
    <3> QED
      BY <1>2, <2>1, <2>2, <3>1
  <2>3. CASE Fault /\ owner' = owner
    <3>1. LeftDir' \subseteq LeftDir \union {j}
      BY <1>1, <1>10, <2>3 DEF RemoveDir, LeftDir
    <3>2. /\ IsFiniteSet(LeftDir \union {j})
          /\ Cardinality(LeftDir') <= Cardinality(LeftDir \union {j})
          /\ Cardinality(LeftDir') \in Nat
          /\ Cardinality(LeftDir \union {j}) \in Nat
      BY <3>1, LeftFinite, FS_AddElement, FS_Subset, FS_CardinalityType
    <3>3. Cardinality(LeftDir \union {j}) <= Cardinality(LeftDir) + 1
      BY OneMore, LeftFinite
    <3> QED
      BY <1>1, <2>1, <2>3, <3>2, <3>3, LeftFinite DEF LeftoversOK
  <2> QED
    BY <1>10, <2>2, <2>3 DEF RemoveDir
<1> QED
  BY <1>3, <1>4, <1>5, <1>6, <1>7, <1>8, <1>9, <1>10 DEF JailStep

\* A jail that moves is alive before and after, and belongs to its run.
LEMMA JailStepStages ==
  ASSUME PipelineInv, NEW j \in Jails, JailStep(j)
  PROVE  /\ SlotsOK'
         /\ \A r \in Reqs : (StageOK(r) /\ ResultsOK(r) /\ ResponseOK(r))'
<1> USE DEF Making, Unmaking
<1>1. PICK to : JailMove(j, to)
  BY JailStepMoves
<1>2. jpc \in [Jails -> JailPlaces]
  BY DEF PipelineInv, TypeOK
<1>3. /\ jpc[j] \notin {"none", "ready", "exec", "gone", "done"}
      /\ to \notin {"none", "alloc", "exec", "done"}
      /\ jpc'[j] = to
      /\ \A k \in Jails : k # j => jpc'[k] = jpc[k]
  BY <1>1, <1>2 DEF JailMove
<1>4. UNCHANGED <<want, gone, rpc, nextTest, sem, build, err, results, response>>
  BY DEF JailStep, runVars
<1>5. SlotsOK'
  <2>1. Active' = Active
    BY <1>4 DEF Active
  <2>2. ASSUME NEW r \in Reqs PROVE Alive(r)' = Alive(r)
    BY <1>3, JailPairs DEF Alive
  <2> QED
    BY <1>4, <2>1, <2>2 DEF PipelineInv, SlotsOK
<1>6. ASSUME NEW r \in Reqs PROVE (StageOK(r) /\ ResultsOK(r) /\ ResponseOK(r))'
  <2>1. StageOK(r) /\ ResultsOK(r) /\ ResponseOK(r)
    BY DEF PipelineInv
  <2>2. effectiveParallel(r)' = effectiveParallel(r)
    BY <1>4 DEF effectiveParallel
  <2>3. Template(r) \in Jails /\ \A i \in Tests : <<r, i>> \in Jails
    BY JailPairs
  <2>4. StageOK(r)'
    <3>1. jpc'[Template(r)] = jpc[Template(r)] \/ Template(r) = j
      BY <1>3, <2>3
    <3>2. \A i \in Tests : jpc'[<<r, i>>] = jpc[<<r, i>>] \/ <<r, i>> = j
      BY <1>3, <2>3
    <3>3. rpc[r] = "return" /\ Template(r) = j => to \in {"rmcg", "rmdir", "gone"}
      BY <1>1, <2>1 DEF StageOK, JailMove
    <3>4. Template(r)' = Template(r)
      BY DEF Template
    <3> QED
      BY <1>3, <1>4, <2>1, <2>2, <3>1, <3>2, <3>3, <3>4 DEF StageOK
  <2>5. ResultsOK(r)'
    <3>1. \A i \in Tests : jpc'[<<r, i>>] = jpc[<<r, i>>] \/ <<r, i>> = j
      BY <1>3, <2>3
    <3>2. failed \subseteq failed'
      BY <1>1 DEF JailMove
    <3>3. to \in {"release", "rmcg", "rmdir", "gone"}
            => jpc[j] \in Unmaking \/ j \in failed'
      BY <1>1 DEF JailMove
    <3> QED
      BY <1>3, <1>4, <2>1, <2>2, <3>1, <3>2, <3>3 DEF ResultsOK
  <2>6. ResponseOK(r)'
    BY <1>4, <2>1 DEF ResponseOK
  <2> QED
    BY <2>4, <2>5, <2>6
<1> QED
  BY <1>5, <1>6

\* So a step of a jail keeps the invariant.
LEMMA JailStepInv ==
  ASSUME PipelineInv, NEW j \in Jails, JailStep(j)
  PROVE  PipelineInv'
BY JailStepType, JailStepHas, JailStepLeftovers, JailStepStages DEF PipelineInv

------------------------------------------------------------------------------
(* The steps of a run *)

\* A step that touches one run and its jails.
OnlyRun(r) ==
  /\ want' = want /\ failed' = failed /\ DOMAIN response' = DOMAIN response
  /\ \A q \in Reqs \ {r} :
       /\ rpc'[q] = rpc[q] /\ nextTest'[q] = nextTest[q] /\ sem'[q] = sem[q]
       /\ build'[q] = build[q] /\ err'[q] = err[q] /\ results'[q] = results[q]
       /\ response'[q] = response[q]
       /\ q \in gone' <=> q \in gone
       /\ jpc'[Template(q)] = jpc[Template(q)]
       /\ \A i \in Tests : jpc'[<<q, i>>] = jpc[<<q, i>>]

\* What remains to be shown of a step that touches one run.
LEMMA OneRunInv ==
  ASSUME PipelineInv, NEW r \in Reqs, OnlyRun(r),
         TypeOK', PoolOK', JailsOK', LeftoversOK',
         Cardinality(Active') <= MaxJobs,
         sem'[r] = Cardinality(Alive(r)'),
         (StageOK(r) /\ ResultsOK(r) /\ ResponseOK(r))'
  PROVE  PipelineInv'
<1>1. ASSUME NEW q \in Reqs \ {r}
      PROVE  /\ (StageOK(q) /\ ResultsOK(q) /\ ResponseOK(q))'
             /\ sem'[q] = Cardinality(Alive(q)')
  <2>1. /\ StageOK(q) /\ ResultsOK(q) /\ ResponseOK(q)
        /\ sem[q] = Cardinality(Alive(q))
    BY DEF PipelineInv, SlotsOK
  <2>2. effectiveParallel(q)' = effectiveParallel(q) /\ Template(q)' = Template(q)
    BY DEF OnlyRun, effectiveParallel, Template
  <2>3. StageOK(q)'
    BY <2>1, <2>2 DEF OnlyRun, StageOK
  <2>4. ResultsOK(q)'
    BY <2>1, <2>2 DEF OnlyRun, ResultsOK
  <2>5. ResponseOK(q)'
    BY <2>1 DEF OnlyRun, ResponseOK
  <2>6. Alive(q)' = Alive(q)
    BY DEF OnlyRun, Alive
  <2> QED
    BY <2>1, <2>3, <2>4, <2>5, <2>6 DEF OnlyRun
<1>2. WantOK'
  BY DEF OnlyRun, PipelineInv, WantOK
<1>3. SlotsOK'
  BY <1>1 DEF SlotsOK
<1> QED
  BY <1>1, <1>2, <1>3 DEF PipelineInv

\* A run moves one of its jails, or none, and touches nothing that jails have.
LEMMA RunMovesJail ==
  ASSUME PipelineInv, NEW j \in Jails, NEW to,
         \/ UNCHANGED jpc
         \/ /\ jpc' = [jpc EXCEPT ![j] = to]
            /\ <<jpc[j], to>> \in {<<"none", "alloc">>, <<"ready", "exec">>,
                                  <<"ready", "release">>, <<"exec", "release">>,
                                  <<"gone", "done">>},
         UNCHANGED <<inUse, next, uid, owner, cg>>,
         faults' \in {faults, faults + 1}
  PROVE  /\ PoolOK' /\ JailsOK' /\ LeftoversOK'
         /\ jpc' \in [Jails -> JailPlaces]
<1>1. /\ jpc \in [Jails -> JailPlaces] /\ JailsOK /\ LeftoversOK /\ PoolOK
      /\ faults \in Nat
  BY PipelineConstants DEF PipelineInv, TypeOK
<1>2. PoolOK'
  BY <1>1 DEF PoolOK, Pool!TypeOK, Pool!NoSharedUid, Pool!InUseIsHeld, Pool!Held
<1>3. jpc' \in [Jails -> JailPlaces]
  BY <1>1 DEF JailPlaces
<1>4. JailsOK'
  BY <1>1 DEF JailsOK, HasUid, HasDir, OwnsDir
<1>5. LeftDir' = LeftDir /\ LeftCg' = LeftCg
  BY <1>1 DEF LeftDir, LeftCg
<1>6. LeftoversOK'
  BY <1>1, <1>5, LeftFinite DEF LeftoversOK
<1> QED
  BY <1>2, <1>3, <1>4, <1>6

\* The statuses of the results: none is a missing or a zero entry.
LEMMA StatusFacts == "absent" \notin Statuses /\ "zero" \notin Statuses
BY PipelineConstants DEF Statuses

\* A run that stays active, or ends, takes no further slot.
LEMMA ActiveBound ==
  ASSUME PipelineInv, Active' \subseteq Active
  PROVE  Cardinality(Active') <= MaxJobs
<1>1. IsFiniteSet(Active) /\ Cardinality(Active) \in Nat
  BY FS_Subset, FS_CardinalityType, PipelineConstants DEF Active
<1>2. Cardinality(Active') <= Cardinality(Active) /\ Cardinality(Active') \in Nat
  BY <1>1, FS_Subset, FS_CardinalityType
<1> QED
  BY <1>1, <1>2, PipelineConstants DEF PipelineInv, SlotsOK

\* A run gets a slot and begins its template jail.
LEMMA AdmitInv ==
  ASSUME PipelineInv, NEW r \in Reqs, Admit(r)
  PROVE  PipelineInv'
<1> USE DEF Admit, RunGoto, JailGoto, runRest
<1>1. /\ TypeOK /\ WantOK /\ StageOK(r) /\ ResultsOK(r) /\ ResponseOK(r)
      /\ sem[r] = Cardinality(Alive(r)) /\ Cardinality(Active) <= MaxJobs
  BY DEF PipelineInv, SlotsOK
<1>2. Template(r) \in Jails /\ jpc[Template(r)] = "none"
  BY <1>1, JailPairs DEF StageOK
<1>3. PoolOK' /\ JailsOK' /\ LeftoversOK' /\ jpc' \in [Jails -> JailPlaces]
  BY <1>2, RunMovesJail
<1>4. TypeOK'
  BY <1>1, <1>3 DEF TypeOK, PoolOK
<1>5. /\ rpc'[r] = "template" /\ jpc'[Template(r)] = "alloc"
      /\ \A i \in Tests : jpc'[<<r, i>>] = jpc[<<r, i>>]
      /\ \A q \in Reqs \ {r} : rpc'[q] = rpc[q]
  BY <1>1, <1>2, JailPairs DEF TypeOK
<1>6. \A q \in Reqs \ {r} : /\ jpc'[Template(q)] = jpc[Template(q)]
                            /\ \A i \in Tests : jpc'[<<q, i>>] = jpc[<<q, i>>]
  BY <1>1, <1>2, JailPairs DEF TypeOK, Template
<1>7. OnlyRun(r)
  BY <1>5, <1>6 DEF OnlyRun
<1>8. Cardinality(Active') <= MaxJobs
  <2>1. Active' = Active \union {r}
    BY <1>5 DEF Active
  <2>2. IsFiniteSet(Active) /\ Cardinality(Active) \in Nat
    BY FS_Subset, FS_CardinalityType, PipelineConstants DEF Active
  <2>3. Cardinality(Active') <= Cardinality(Active) + 1
    BY <2>1, <2>2, OneMore
  <2>4. Cardinality(Active') \in Nat
    BY <2>1, <2>2, FS_AddElement, FS_CardinalityType
  <2> QED
    BY <2>2, <2>3, <2>4, PipelineConstants
<1>9. Alive(r)' = Alive(r)
  BY <1>5 DEF Alive
<1>10. (StageOK(r) /\ ResultsOK(r) /\ ResponseOK(r))'
  <2>1. effectiveParallel(r)' = effectiveParallel(r) /\ Template(r)' = Template(r)
    BY DEF effectiveParallel, Template
  <2>2. StageOK(r)'
    BY <1>1, <1>5, <2>1 DEF StageOK
  <2>3. ResultsOK(r)'
    BY <1>1, <1>5, <2>1 DEF ResultsOK
  <2>4. ResponseOK(r)'
    BY <1>1, <1>5 DEF ResponseOK
  <2> QED
    BY <2>2, <2>3, <2>4
<1> QED
  BY <1>1, <1>3, <1>4, <1>7, <1>8, <1>9, <1>10, OneRunInv

\* newJail failed for the template: ExecuteRun returns the error.
LEMMA TemplateFailedInv ==
  ASSUME PipelineInv, NEW r \in Reqs, TemplateFailed(r)
  PROVE  PipelineInv'
<1> USE DEF TemplateFailed, RunGoto, runRest
<1>1. /\ TypeOK /\ WantOK /\ StageOK(r) /\ ResultsOK(r) /\ ResponseOK(r)
      /\ sem[r] = Cardinality(Alive(r))
  BY DEF PipelineInv, SlotsOK
<1>2. PoolOK' /\ JailsOK' /\ LeftoversOK' /\ jpc' \in [Jails -> JailPlaces]
  BY RunMovesJail, JailPairs
<1>3. /\ rpc'[r] = "respond" /\ build'[r] = "internal_error" /\ err'[r] = TRUE
      /\ \A q \in Reqs \ {r} : /\ rpc'[q] = rpc[q] /\ build'[q] = build[q]
                               /\ err'[q] = err[q]
  BY <1>1 DEF TypeOK
<1>4. TypeOK'
  BY <1>1, <1>2 DEF TypeOK, PoolOK
<1>5. OnlyRun(r)
  BY <1>3 DEF OnlyRun
<1>6. Cardinality(Active') <= MaxJobs
  BY <1>3, ActiveBound DEF Active
<1>7. Alive(r)' = Alive(r)
  BY DEF Alive
<1>8. (StageOK(r) /\ ResultsOK(r) /\ ResponseOK(r))'
  <2>1. effectiveParallel(r)' = effectiveParallel(r) /\ Template(r)' = Template(r)
    BY DEF effectiveParallel, Template
  <2>2. StageOK(r)'
    BY <1>1, <1>3, <2>1 DEF StageOK
  <2>3. ResultsOK(r)'
    BY <1>1, <1>3, <2>1 DEF ResultsOK, StageOK
  <2>4. ResponseOK(r)'
    BY <1>1, <1>3 DEF ResponseOK
  <2> QED
    BY <2>2, <2>3, <2>4
<1> QED
  BY <1>1, <1>2, <1>4, <1>5, <1>6, <1>7, <1>8, OneRunInv

\* The build: the tests begin with no result, or the run returns.
LEMMA BuildStepInv ==
  ASSUME PipelineInv, NEW r \in Reqs, BuildStep(r)
  PROVE  PipelineInv'
<1> USE DEF RunGoto
<1>1. /\ TypeOK /\ WantOK /\ StageOK(r) /\ ResultsOK(r) /\ ResponseOK(r)
      /\ sem[r] = Cardinality(Alive(r))
  BY DEF PipelineInv, SlotsOK
<1>2. PICK st \in {"ok", "failed", "internal_error"} :
        /\ runBuild(r, st)
        /\ build' = [build EXCEPT ![r] = st]
        /\ err' = [err EXCEPT ![r] = st = "internal_error"]
        /\ rpc' = [rpc EXCEPT ![r] = IF st = "ok" THEN "tests" ELSE "return"]
        /\ results' = IF st = "ok" /\ effectiveParallel(r) > 1
                      THEN [results EXCEPT ![r] = [i \in Tests |-> "zero"]]
                      ELSE results
  BY DEF BuildStep
<1>3. /\ rpc[r] = "template" /\ jpc[Template(r)] = "ready"
      /\ UNCHANGED <<want, gone, jailVars, nextTest, sem, response>>
  BY DEF BuildStep
<1>4. faults' \in {faults, faults + 1} /\ faults' \in 0..MaxFaults
  BY <1>1, <1>2, PipelineConstants
     DEF runBuild, InfraFailure, AppDirMayFail, Fault, NoFault, TypeOK
<1>5. PoolOK' /\ JailsOK' /\ LeftoversOK' /\ jpc' \in [Jails -> JailPlaces]
  BY <1>3, <1>4, RunMovesJail, JailPairs DEF jailVars
<1>6. /\ rpc'[r] = IF st = "ok" THEN "tests" ELSE "return"
      /\ build'[r] = st /\ err'[r] = (st = "internal_error")
      /\ \A q \in Reqs \ {r} : /\ rpc'[q] = rpc[q] /\ build'[q] = build[q]
                               /\ err'[q] = err[q] /\ results'[q] = results[q]
  BY <1>1, <1>2 DEF TypeOK
<1>7. \A i \in Tests : \/ results'[r][i] = results[r][i]
                       \/ results'[r][i] = "zero"
  BY <1>1, <1>2 DEF TypeOK
<1>8. TypeOK'
  <2>1. results' \in [Reqs -> [Tests -> {"absent", "zero"} \union Statuses]]
    BY <1>1, <1>2 DEF TypeOK
  <2> QED
    BY <1>1, <1>2, <1>3, <1>4, <1>5, <2>1 DEF TypeOK, PoolOK, jailVars
<1>9. OnlyRun(r)
  BY <1>3, <1>6 DEF OnlyRun, jailVars
<1>10. Cardinality(Active') <= MaxJobs
  BY <1>3, <1>6, ActiveBound DEF Active
<1>11. Alive(r)' = Alive(r)
  BY <1>3 DEF Alive, jailVars
<1>12. (StageOK(r) /\ ResultsOK(r) /\ ResponseOK(r))'
  <2>1. effectiveParallel(r)' = effectiveParallel(r) /\ Template(r)' = Template(r)
    BY <1>3 DEF effectiveParallel, Template
  <2>2. nextTest[r] = 1
    BY <1>1, <1>3 DEF StageOK
  <2>3. StageOK(r)'
    BY <1>1, <1>3, <1>6, <2>1 DEF StageOK, jailVars
  <2>4. ASSUME NEW i \in Tests
        PROVE  results'[r][i] \notin Statuses /\ ~(i < nextTest[r])
    <3>1. i >= nextTest[r] /\ ~(i < nextTest[r])
      BY <2>2, PipelineConstants DEF Tests
    <3>2. results[r][i] \notin Statuses
      BY <1>1, <3>1 DEF ResultsOK
    <3> QED
      BY <1>7, <3>1, <3>2, StatusFacts
  <2>5. "cancelled" \in Statuses
    BY DEF Statuses
  <2>6. ResultsOK(r)'
    <3>1. err'[r] <=> build'[r] = "internal_error"
      BY <1>6, Zenon
    <3>2. rpc'[r] \notin {"tests"} => build'[r] # "ok" /\ rpc'[r] = "return"
      BY <1>6
    <3>3. \A i \in Tests : jpc'[<<r, i>>] = "none"
      BY <1>1, <1>3, <2>4 DEF StageOK, jailVars
    <3>4. build'[r] = "ok" <=> rpc'[r] = "tests"
      BY <1>6
    <3> QED
      BY <1>3, <2>1, <2>2, <2>4, <2>5, <3>1, <3>2, <3>3, <3>4 DEF ResultsOK
  <2>7. ResponseOK(r)'
    BY <1>1, <1>3, <1>6 DEF ResponseOK
  <2> QED
    BY <2>3, <2>6, <2>7
<1> QED
  BY <1>1, <1>3, <1>5, <1>8, <1>9, <1>10, <1>11, <1>12, OneRunInv

\* The head of the loop over the tests.
LEMMA LoopHeadInv ==
  ASSUME PipelineInv, NEW r \in Reqs, LoopHead(r)
  PROVE  PipelineInv'
<1> USE DEF RunGoto, runRest
<1>1. /\ TypeOK /\ WantOK /\ StageOK(r) /\ ResultsOK(r) /\ ResponseOK(r)
      /\ sem[r] = Cardinality(Alive(r)) /\ effectiveParallel(r) \in Nat
  BY ParallelBound, PipelineConstants DEF PipelineInv, SlotsOK
<1>2. /\ rpc[r] = "tests"
      /\ UNCHANGED <<want, gone, faults, jailVars, nextTest, sem, build, err,
                     results, response>>
  BY DEF LoopHead, jailVars
<1>3. /\ nextTest[r] \in Nat /\ NTests \in Nat /\ nextTest[r] <= NTests + 1
      /\ nextTest[r] > NTests => nextTest[r] = NTests + 1
  BY <1>1, PipelineConstants DEF TypeOK
<1>4. PICK to \in {"spawn", "exec", "join", "return"} :
        /\ rpc' = [rpc EXCEPT ![r] = to]
        /\ to \in {"spawn", "exec"} => nextTest[r] <= NTests
        /\ to \in {"spawn", "join"} <=> effectiveParallel(r) > 1
        /\ to \in {"join", "return"} => nextTest[r] = NTests + 1 \/ r \in gone
  <2>1. CASE nextTest[r] <= NTests /\ r \notin gone
    <3>1. rpc' = [rpc EXCEPT ![r] = IF effectiveParallel(r) > 1 THEN "spawn"
                                                               ELSE "exec"]
      BY <2>1 DEF LoopHead
    <3> QED
      BY <2>1, <3>1
  <2>2. CASE ~(nextTest[r] <= NTests /\ r \notin gone)
    <3>1. rpc' = [rpc EXCEPT ![r] = IF effectiveParallel(r) > 1 THEN "join"
                                                               ELSE "return"]
      BY <2>2 DEF LoopHead
    <3>2. nextTest[r] = NTests + 1 \/ r \in gone
      BY <1>3, <2>2
    <3> QED
      BY <3>1, <3>2
  <2> QED
    BY <2>1, <2>2
<1>5. PoolOK' /\ JailsOK' /\ LeftoversOK' /\ jpc' \in [Jails -> JailPlaces]
  BY <1>2, RunMovesJail, JailPairs DEF jailVars
<1>6. rpc'[r] = to /\ \A q \in Reqs \ {r} : rpc'[q] = rpc[q]
  BY <1>1, <1>4 DEF TypeOK
<1>7. TypeOK'
  BY <1>1, <1>2, <1>4, <1>5 DEF TypeOK, PoolOK, jailVars
<1>8. OnlyRun(r)
  BY <1>2, <1>6 DEF OnlyRun, jailVars
<1>9. Cardinality(Active') <= MaxJobs
  BY <1>2, <1>6, ActiveBound DEF Active
<1>10. Alive(r)' = Alive(r)
  BY <1>2 DEF Alive, jailVars
<1>11. (StageOK(r) /\ ResultsOK(r) /\ ResponseOK(r))'
  <2>1. effectiveParallel(r)' = effectiveParallel(r) /\ Template(r)' = Template(r)
    BY <1>2 DEF effectiveParallel, Template
  <2>2. StageOK(r)'
    BY <1>1, <1>2, <1>4, <1>6, <2>1 DEF StageOK, jailVars
  <2>3. ResultsOK(r)'
    BY <1>1, <1>2, <1>4, <1>6, <2>1 DEF ResultsOK, jailVars
  <2>4. ResponseOK(r)'
    BY <1>1, <1>2, <1>6 DEF ResponseOK
  <2> QED
    BY <2>2, <2>3, <2>4
<1> QED
  BY <1>1, <1>2, <1>5, <1>7, <1>8, <1>9, <1>10, <1>11, OneRunInv

\* A test of a run: its status is a result, cancelled only for a client that
\* is gone, and it costs at most one fault.
LEMMA TestStatusFacts ==
  ASSUME PipelineInv, NEW r \in Reqs, NEW st \in Statuses, TestStatus(r, st)
  PROVE  /\ faults' \in {faults, faults + 1} /\ faults' \in 0..MaxFaults
         /\ st = "cancelled" => r \in gone
BY PipelineConstants
   DEF PipelineInv, TypeOK, TestStatus, InfraFailure, AppDirMayFail, Fault, NoFault

\* A test in the template jail.
LEMMA SequentialTestInv ==
  ASSUME PipelineInv, NEW r \in Reqs, SequentialTest(r)
  PROVE  PipelineInv'
<1> USE DEF RunGoto
<1>1. /\ TypeOK /\ WantOK /\ StageOK(r) /\ ResultsOK(r) /\ ResponseOK(r)
      /\ sem[r] = Cardinality(Alive(r))
  BY DEF PipelineInv, SlotsOK
<1>2. PICK st \in Statuses : /\ TestStatus(r, st)
                             /\ results' = [results EXCEPT ![r][nextTest[r]] = st]
  BY DEF SequentialTest
<1>3. /\ rpc[r] = "exec"
      /\ nextTest' = [nextTest EXCEPT ![r] = @ + 1]
      /\ rpc' = [rpc EXCEPT ![r] = "tests"]
      /\ UNCHANGED <<want, gone, jailVars, sem, build, err, response>>
  BY DEF SequentialTest
<1>4. /\ faults' \in {faults, faults + 1} /\ faults' \in 0..MaxFaults
      /\ st = "cancelled" => r \in gone
  BY <1>2, TestStatusFacts
<1>5. PoolOK' /\ JailsOK' /\ LeftoversOK' /\ jpc' \in [Jails -> JailPlaces]
  BY <1>3, <1>4, RunMovesJail, JailPairs DEF jailVars
<1>6. /\ nextTest[r] \in Tests /\ nextTest[r] <= NTests
      /\ nextTest[r] + 1 \in 1..(NTests + 1)
  BY <1>1, <1>3, PipelineConstants DEF TypeOK, StageOK, Tests
<1>7. /\ rpc'[r] = "tests" /\ nextTest'[r] = nextTest[r] + 1
      /\ results'[r][nextTest[r]] = st
      /\ \A i \in Tests : i # nextTest[r] => results'[r][i] = results[r][i]
      /\ \A q \in Reqs \ {r} : /\ rpc'[q] = rpc[q] /\ nextTest'[q] = nextTest[q]
                               /\ results'[q] = results[q]
  BY <1>1, <1>2, <1>3, <1>6 DEF TypeOK
<1>8. TypeOK'
  <2>1. results' \in [Reqs -> [Tests -> {"absent", "zero"} \union Statuses]]
    BY <1>1, <1>2, <1>6 DEF TypeOK
  <2>2. nextTest' \in [Reqs -> 1..(NTests + 1)]
    BY <1>1, <1>3, <1>6 DEF TypeOK
  <2> QED
    BY <1>1, <1>3, <1>4, <1>5, <2>1, <2>2 DEF TypeOK, PoolOK, jailVars
<1>9. OnlyRun(r)
  BY <1>3, <1>7 DEF OnlyRun, jailVars
<1>10. Cardinality(Active') <= MaxJobs
  BY <1>3, <1>7, ActiveBound DEF Active
<1>11. Alive(r)' = Alive(r)
  BY <1>3 DEF Alive, jailVars
<1>12. (StageOK(r) /\ ResultsOK(r) /\ ResponseOK(r))'
  <2>1. effectiveParallel(r)' = effectiveParallel(r) /\ Template(r)' = Template(r)
    BY <1>3 DEF effectiveParallel, Template
  <2>2. effectiveParallel(r) <= 1 /\ ~(effectiveParallel(r) > 1)
    BY <1>1, <1>3, ParallelBound, PipelineConstants DEF StageOK
  <2>3. \A i \in Tests : jpc[<<r, i>>] = "none"
    BY <1>1, <2>2 DEF StageOK
  <2>4. StageOK(r)'
    BY <1>1, <1>3, <1>7, <2>1, <2>2, <2>3 DEF StageOK, jailVars
  <2>5. build[r] = "ok"
    BY <1>1, <1>3 DEF ResultsOK
  <2>6. ASSUME NEW i \in Tests
        PROVE  /\ i < nextTest'[r] => results'[r][i] \in Statuses
               /\ i >= nextTest'[r] => results'[r][i] \notin Statuses
               /\ results'[r][i] = "cancelled" => r \in gone
    <3>1. CASE i = nextTest[r]
      BY <1>4, <1>6, <1>7, <3>1, PipelineConstants DEF Tests
    <3>2. CASE i # nextTest[r]
      <4>1. /\ i < nextTest'[r] => i < nextTest[r]
            /\ i >= nextTest'[r] => i >= nextTest[r]
        BY <1>6, <1>7, <3>2, PipelineConstants DEF Tests
      <4> QED
        BY <1>1, <1>7, <2>2, <3>2, <4>1 DEF ResultsOK
    <3> QED
      BY <3>1, <3>2
  <2>7. ResultsOK(r)'
    BY <1>1, <1>3, <1>7, <2>1, <2>2, <2>3, <2>5, <2>6 DEF ResultsOK, jailVars
  <2>8. ResponseOK(r)'
    BY <1>1, <1>3, <1>7 DEF ResponseOK
  <2> QED
    BY <2>4, <2>7, <2>8
<1> QED
  BY <1>1, <1>3, <1>5, <1>8, <1>9, <1>10, <1>11, <1>12, OneRunInv

\* A jail of one run, the template or a test's, is no other jail.
LEMMA OtherJails ==
  ASSUME NEW r \in Reqs, NEW k
  PROVE  /\ \A i \in Tests : i # k => <<r, i>> \in Jails /\ <<r, i>> # <<r, k>>
         /\ k # 0 => Template(r) \in Jails /\ Template(r) # <<r, k>>
         /\ \A q \in Reqs \ {r} :
              /\ Template(q) \in Jails /\ Template(q) # <<r, k>>
              /\ \A i \in Tests : <<q, i>> \in Jails /\ <<q, i>> # <<r, k>>
BY JailPairs DEF Template

\* The loop takes a token and starts the goroutine of the next test.
LEMMA SpawnInv ==
  ASSUME PipelineInv, NEW r \in Reqs, Spawn(r)
  PROVE  PipelineInv'
<1> USE DEF RunGoto, JailGoto, runRest
<1> DEFINE k == nextTest[r]
<1>1. /\ TypeOK /\ WantOK /\ StageOK(r) /\ ResultsOK(r) /\ ResponseOK(r)
      /\ sem[r] = Cardinality(Alive(r))
  BY DEF PipelineInv, SlotsOK
<1>2. /\ rpc[r] = "spawn" /\ sem[r] < effectiveParallel(r)
      /\ sem' = [sem EXCEPT ![r] = @ + 1]
      /\ jpc' = [jpc EXCEPT ![<<r, k>>] = "alloc"]
      /\ nextTest' = [nextTest EXCEPT ![r] = @ + 1]
      /\ rpc' = [rpc EXCEPT ![r] = "tests"]
      /\ UNCHANGED <<want, gone, faults, inUse, next, uid, owner, cg, failed,
                     build, err, results, response>>
  BY DEF Spawn
<1>3. /\ k \in Tests /\ k \in 0..NTests /\ k # 0 /\ k \in Nat
      /\ k + 1 \in 1..(NTests + 1)
  BY <1>1, <1>2, PipelineConstants DEF TypeOK, StageOK, Tests
<1>4. jpc[<<r, k>>] = "none" /\ <<r, k>> \in Jails
  <2>1. ~(k < k)
    BY <1>3
  <2> QED
    BY <1>1, <1>3, <2>1, JailPairs DEF StageOK
<1>5. PoolOK' /\ JailsOK' /\ LeftoversOK' /\ jpc' \in [Jails -> JailPlaces]
  BY <1>2, <1>4, RunMovesJail
<1>6. /\ jpc'[<<r, k>>] = "alloc" /\ jpc'[Template(r)] = jpc[Template(r)]
      /\ \A i \in Tests : i # k => jpc'[<<r, i>>] = jpc[<<r, i>>]
      /\ \A q \in Reqs \ {r} :
           /\ jpc'[Template(q)] = jpc[Template(q)]
           /\ \A i \in Tests : jpc'[<<q, i>>] = jpc[<<q, i>>]
  <2> HIDE DEF k
  <2>1. jpc' = [jpc EXCEPT ![<<r, k>>] = "alloc"] /\ jpc \in [Jails -> JailPlaces]
    BY <1>1, <1>2 DEF TypeOK
  <2>2. /\ jpc'[<<r, k>>] = "alloc"
        /\ \A j \in Jails : j # <<r, k>> => jpc'[j] = jpc[j]
    BY <1>4, <2>1
  <2> QED
    BY <1>3, <2>2, OtherJails
<1>7. /\ rpc'[r] = "tests" /\ nextTest'[r] = k + 1 /\ sem'[r] = sem[r] + 1
      /\ \A q \in Reqs \ {r} : /\ rpc'[q] = rpc[q] /\ nextTest'[q] = nextTest[q]
                               /\ sem'[q] = sem[q]
  BY <1>1, <1>2 DEF TypeOK
<1>8. TypeOK'
  <2>1. nextTest' \in [Reqs -> 1..(NTests + 1)]
    BY <1>1, <1>2, <1>3 DEF TypeOK
  <2>2. sem[r] + 1 \in 0..NumCPU
    BY <1>1, <1>2, ParallelBound, PipelineConstants DEF TypeOK
  <2>3. sem' \in [Reqs -> 0..NumCPU]
    BY <1>1, <1>2, <2>2 DEF TypeOK
  <2> QED
    BY <1>1, <1>2, <1>5, <2>1, <2>3 DEF TypeOK, PoolOK
<1>9. OnlyRun(r)
  BY <1>2, <1>6, <1>7 DEF OnlyRun
<1>10. Cardinality(Active') <= MaxJobs
  BY <1>2, <1>7, ActiveBound DEF Active
<1>11. sem'[r] = Cardinality(Alive(r)')
  <2>1. Alive(r)' = Alive(r) \union {k} /\ k \notin Alive(r)
    BY <1>3, <1>4, <1>6 DEF Alive
  <2>2. IsFiniteSet(Alive(r))
    BY JailsFinite, FS_Subset DEF Alive
  <2> QED
    BY <1>1, <1>7, <2>1, <2>2, FS_AddElement
<1>12. (StageOK(r) /\ ResultsOK(r) /\ ResponseOK(r))'
  <2>1. effectiveParallel(r)' = effectiveParallel(r) /\ Template(r)' = Template(r)
    BY <1>2 DEF effectiveParallel, Template
  <2>2. effectiveParallel(r) > 1 /\ ~(effectiveParallel(r) <= 1)
    BY <1>1, <1>2, ParallelBound, PipelineConstants DEF StageOK
  <2>3. ASSUME NEW i \in Tests
        PROVE  /\ i < k => i < k + 1
               /\ k < k + 1
               /\ i < k + 1 => i < k \/ i = k
               /\ i >= k + 1 => i >= k /\ i # k
    BY <1>3, PipelineConstants DEF Tests
  <2>4. StageOK(r)'
    BY <1>1, <1>2, <1>6, <1>7, <2>1, <2>2, <2>3 DEF StageOK
  <2>5. build[r] = "ok"
    BY <1>1, <1>2 DEF ResultsOK
  <2>6. ASSUME NEW i \in Tests
        PROVE  /\ i < k + 1 => jpc'[<<r, i>>] # "none"
               /\ jpc'[<<r, i>>] = "done" => results[r][i] \in Statuses
               /\ jpc'[<<r, i>>] \in {"release", "rmcg", "rmdir", "gone"}
                    => results[r][i] \in Statuses \/ <<r, i>> \in failed
               /\ i >= k + 1 => results[r][i] \notin Statuses
               /\ results[r][i] = "cancelled" => r \in gone
    BY <1>1, <1>6, <2>2, <2>3 DEF ResultsOK
  <2>7. ResultsOK(r)'
    BY <1>1, <1>2, <1>7, <2>1, <2>2, <2>5, <2>6 DEF ResultsOK
  <2>8. ResponseOK(r)'
    BY <1>1, <1>2, <1>7 DEF ResponseOK
  <2> QED
    BY <2>4, <2>7, <2>8
<1> QED
  BY <1>1, <1>5, <1>8, <1>9, <1>10, <1>11, <1>12, OneRunInv

\* wg.Wait is over: no goroutine of the run is alive.
LEMMA JoinInv ==
  ASSUME PipelineInv, NEW r \in Reqs, Join(r)
  PROVE  PipelineInv'
<1> USE DEF RunGoto, runRest
<1>1. /\ TypeOK /\ WantOK /\ StageOK(r) /\ ResultsOK(r) /\ ResponseOK(r)
      /\ sem[r] = Cardinality(Alive(r))
  BY DEF PipelineInv, SlotsOK
<1>2. /\ rpc[r] = "join" /\ rpc' = [rpc EXCEPT ![r] = "return"]
      /\ \A i \in Tests : jpc[<<r, i>>] \in {"none", "done"}
      /\ UNCHANGED <<want, gone, faults, jailVars, nextTest, sem, build, err,
                     results, response>>
  BY DEF Join, jailVars
<1>3. PoolOK' /\ JailsOK' /\ LeftoversOK' /\ jpc' \in [Jails -> JailPlaces]
  BY <1>2, RunMovesJail, JailPairs DEF jailVars
<1>4. rpc'[r] = "return" /\ \A q \in Reqs \ {r} : rpc'[q] = rpc[q]
  BY <1>1, <1>2 DEF TypeOK
<1>5. TypeOK'
  BY <1>1, <1>2, <1>3 DEF TypeOK, PoolOK, jailVars
<1>6. OnlyRun(r)
  BY <1>2, <1>4 DEF OnlyRun, jailVars
<1>7. Cardinality(Active') <= MaxJobs
  BY <1>2, <1>4, ActiveBound DEF Active
<1>8. Alive(r)' = Alive(r)
  BY <1>2 DEF Alive, jailVars
<1>9. (StageOK(r) /\ ResultsOK(r) /\ ResponseOK(r))'
  <2>1. effectiveParallel(r)' = effectiveParallel(r) /\ Template(r)' = Template(r)
    BY <1>2 DEF effectiveParallel, Template
  <2>2. StageOK(r)'
    BY <1>1, <1>2, <1>4, <2>1 DEF StageOK, jailVars
  <2>3. ResultsOK(r)'
    BY <1>1, <1>2, <1>4, <2>1 DEF ResultsOK, jailVars
  <2>4. ResponseOK(r)'
    BY <1>1, <1>2, <1>4 DEF ResponseOK
  <2> QED
    BY <2>2, <2>3, <2>4
<1> QED
  BY <1>1, <1>2, <1>3, <1>5, <1>6, <1>7, <1>8, <1>9, OneRunInv

\* The deferred teardown of the template begins, or it is over.
LEMMA ReturnInv ==
  ASSUME PipelineInv, NEW r \in Reqs, Return(r)
  PROVE  PipelineInv'
<1> USE DEF RunGoto, JailGoto, runRest
<1>1. /\ TypeOK /\ WantOK /\ StageOK(r) /\ ResultsOK(r) /\ ResponseOK(r)
      /\ sem[r] = Cardinality(Alive(r))
  BY DEF PipelineInv, SlotsOK
<1>2. /\ rpc[r] = "return"
      /\ \/ /\ jpc[Template(r)] = "ready" /\ UNCHANGED rpc
            /\ jpc' = [jpc EXCEPT ![Template(r)] = "release"]
         \/ /\ jpc[Template(r)] = "gone" /\ UNCHANGED jpc
            /\ rpc' = [rpc EXCEPT ![r] = "respond"]
      /\ UNCHANGED <<want, gone, faults, inUse, next, uid, owner, cg, failed,
                     nextTest, sem, build, err, results, response>>
  BY DEF Return
<1>3. PoolOK' /\ JailsOK' /\ LeftoversOK' /\ jpc' \in [Jails -> JailPlaces]
  BY <1>2, RunMovesJail, JailPairs
<1>4. /\ jpc'[Template(r)] \in {"release", "gone"}
      /\ rpc'[r] \in {"return", "respond"}
      /\ rpc'[r] = "respond" => jpc'[Template(r)] = "gone"
      /\ \A i \in Tests : jpc'[<<r, i>>] = jpc[<<r, i>>]
      /\ \A q \in Reqs \ {r} : rpc'[q] = rpc[q]
  BY <1>1, <1>2, JailPairs DEF TypeOK
<1>5. \A q \in Reqs \ {r} : /\ jpc'[Template(q)] = jpc[Template(q)]
                            /\ \A i \in Tests : jpc'[<<q, i>>] = jpc[<<q, i>>]
  <2>1. \A j \in Jails : j # Template(r) => jpc'[j] = jpc[j]
    BY <1>1, <1>2, JailPairs DEF TypeOK
  <2>2. \A q \in Reqs \ {r} :
          /\ Template(q) \in Jails /\ Template(q) # Template(r)
          /\ \A i \in Tests : <<q, i>> \in Jails /\ <<q, i>> # Template(r)
    BY JailPairs DEF Template
  <2> QED
    BY <2>1, <2>2
<1>6. TypeOK'
  BY <1>1, <1>2, <1>3 DEF TypeOK, PoolOK
<1>7. OnlyRun(r)
  BY <1>2, <1>4, <1>5 DEF OnlyRun
<1>8. Cardinality(Active') <= MaxJobs
  BY <1>2, <1>4, ActiveBound DEF Active
<1>9. Alive(r)' = Alive(r)
  BY <1>4 DEF Alive
<1>10. (StageOK(r) /\ ResultsOK(r) /\ ResponseOK(r))'
  <2>1. effectiveParallel(r)' = effectiveParallel(r) /\ Template(r)' = Template(r)
    BY <1>2 DEF effectiveParallel, Template
  <2>2. StageOK(r)'
    BY <1>1, <1>2, <1>4, <2>1 DEF StageOK
  <2>3. ResultsOK(r)'
    BY <1>1, <1>2, <1>4, <2>1 DEF ResultsOK
  <2>4. ResponseOK(r)'
    BY <1>1, <1>2, <1>4 DEF ResponseOK
  <2> QED
    BY <2>2, <2>3, <2>4
<1> QED
  BY <1>1, <1>2, <1>3, <1>6, <1>7, <1>8, <1>9, <1>10, OneRunInv

\* HandleRun answers, or drops the answer of a client that is gone.
LEMMA RespondInv ==
  ASSUME PipelineInv, NEW r \in Reqs, Respond(r)
  PROVE  PipelineInv'
<1> USE DEF RunGoto
<1>1. /\ TypeOK /\ WantOK /\ StageOK(r) /\ ResultsOK(r) /\ ResponseOK(r)
      /\ sem[r] = Cardinality(Alive(r)) /\ DOMAIN response = Reqs
  BY DEF PipelineInv, SlotsOK, WantOK
<1>2. /\ rpc[r] = "respond" /\ rpc' = [rpc EXCEPT ![r] = "over"]
      /\ UNCHANGED <<want, gone, faults, jailVars, nextTest, sem, build, err,
                     results>>
  BY DEF Respond
<1>3. \/ r \in gone /\ response' = response
      \/ r \notin gone /\ response' =
           [response EXCEPT ![r] = IF err[r] THEN ErrorResponse(build[r])
                                   ELSE RunResponse(build[r], results[r])]
  BY DEF Respond
<1>4. PoolOK' /\ JailsOK' /\ LeftoversOK' /\ jpc' \in [Jails -> JailPlaces]
  BY <1>2, RunMovesJail, JailPairs DEF jailVars
<1>5. rpc'[r] = "over" /\ \A q \in Reqs \ {r} : rpc'[q] = rpc[q]
  BY <1>1, <1>2 DEF TypeOK
<1>6. /\ DOMAIN response' = DOMAIN response
      /\ \A q \in Reqs \ {r} : response'[q] = response[q]
      /\ \/ r \in gone /\ response'[r] = response[r]
         \/ r \notin gone /\ response'[r] = IF err[r] THEN ErrorResponse(build[r])
                                           ELSE RunResponse(build[r], results[r])
  <2> HIDE DEF ErrorResponse, RunResponse
  <2> QED
    BY <1>1, <1>3
<1>7. TypeOK'
  BY <1>1, <1>2, <1>4 DEF TypeOK, PoolOK, jailVars
<1>8. OnlyRun(r)
  BY <1>2, <1>5, <1>6 DEF OnlyRun, jailVars
<1>9. Cardinality(Active') <= MaxJobs
  BY <1>2, <1>5, ActiveBound DEF Active
<1>10. Alive(r)' = Alive(r)
  BY <1>2 DEF Alive, jailVars
<1>11. (StageOK(r) /\ ResultsOK(r) /\ ResponseOK(r))'
  <2>1. effectiveParallel(r)' = effectiveParallel(r) /\ Template(r)' = Template(r)
    BY <1>2 DEF effectiveParallel, Template
  <2>2. StageOK(r)'
    BY <1>1, <1>2, <1>5, <2>1 DEF StageOK, jailVars
  <2>3. ResultsOK(r)'
    BY <1>1, <1>2, <1>5, <2>1 DEF ResultsOK, jailVars
  <2>4. ResponseOK(r)'
    <3>1. response[r] = NoResponse
      BY <1>1, <1>2 DEF ResponseOK
    <3>2. ErrorResponse(build[r])' = ErrorResponse(build[r])
      BY <1>2 DEF ErrorResponse
    <3>3. RunResponse(build[r], results[r])' = RunResponse(build[r], results[r])
      BY <1>2, Zenon
    <3> QED
      BY <1>2, <1>5, <1>6, <3>1, <3>2, <3>3 DEF ResponseOK
  <2> QED
    BY <2>2, <2>3, <2>4
<1> QED
  BY <1>1, <1>2, <1>4, <1>7, <1>8, <1>9, <1>10, <1>11, OneRunInv

\* The client of an active run disconnects.
LEMMA DisconnectInv ==
  ASSUME PipelineInv, NEW r \in Reqs, Disconnect(r)
  PROVE  PipelineInv'
<1>1. /\ TypeOK /\ WantOK /\ StageOK(r) /\ ResultsOK(r) /\ ResponseOK(r)
      /\ sem[r] = Cardinality(Alive(r))
  BY DEF PipelineInv, SlotsOK
<1>2. /\ r \in Active /\ gone' = gone \union {r}
      /\ UNCHANGED <<want, faults, jailVars, runVars>>
  BY DEF Disconnect
<1> USE DEF jailVars, runVars
<1>3. PoolOK' /\ JailsOK' /\ LeftoversOK' /\ jpc' \in [Jails -> JailPlaces]
  BY <1>2, RunMovesJail, JailPairs
<1>4. TypeOK'
  BY <1>1, <1>2, <1>3 DEF TypeOK, PoolOK
<1>5. OnlyRun(r)
  BY <1>2 DEF OnlyRun
<1>6. Cardinality(Active') <= MaxJobs
  BY <1>2, ActiveBound DEF Active
<1>7. Alive(r)' = Alive(r)
  BY <1>2 DEF Alive
<1>8. (StageOK(r) /\ ResultsOK(r) /\ ResponseOK(r))'
  <2>1. effectiveParallel(r)' = effectiveParallel(r) /\ Template(r)' = Template(r)
    BY <1>2 DEF effectiveParallel, Template
  <2>2. StageOK(r)'
    BY <1>1, <1>2, <2>1 DEF StageOK
  <2>3. ResultsOK(r)'
    BY <1>1, <1>2, <2>1 DEF ResultsOK
  <2>4. ResponseOK(r)'
    BY <1>1, <1>2 DEF ResponseOK, Active
  <2> QED
    BY <2>2, <2>3, <2>4
<1> QED
  BY <1>1, <1>2, <1>3, <1>4, <1>5, <1>6, <1>7, <1>8, OneRunInv

------------------------------------------------------------------------------
(* The steps of a test goroutine *)

\* A step writes the result of one test at most.
Writes(r, i) ==
  \/ results' = results
  \/ \E st \in Statuses : /\ results' = [results EXCEPT ![r][i] = st]
                          /\ st = "cancelled" => r \in gone

\* What remains to be shown of a step of the goroutine of one test, which
\* moves its jail and may write its result.
LEMMA TestMoveInv ==
  ASSUME PipelineInv, NEW r \in Reqs, NEW i \in Tests, NEW to,
         jpc' = [jpc EXCEPT ![<<r, i>>] = to],
         <<jpc[<<r, i>>], to>> \in {<<"ready", "exec">>, <<"ready", "release">>,
                                   <<"exec", "release">>, <<"gone", "done">>},
         UNCHANGED <<want, gone, inUse, next, uid, owner, cg, failed, rpc,
                     nextTest, build, err, response>>,
         faults' \in {faults, faults + 1}, faults' \in 0..MaxFaults,
         sem' = IF to = "done" THEN [sem EXCEPT ![r] = @ - 1] ELSE sem,
         Writes(r, i),
         to \in {"release", "done"} =>
           results'[r][i] \in Statuses \/ (to = "release" /\ <<r, i>> \in failed)
  PROVE  PipelineInv'
<1>1. /\ TypeOK /\ WantOK /\ StageOK(r) /\ ResultsOK(r) /\ ResponseOK(r)
      /\ sem[r] = Cardinality(Alive(r))
  BY DEF PipelineInv, SlotsOK
<1>2. /\ <<r, i>> \in Jails
      /\ jpc[<<r, i>>] \in {"ready", "exec", "gone"} /\ to \in {"exec", "release", "done"}
  BY JailPairs
<1>3. PoolOK' /\ JailsOK' /\ LeftoversOK' /\ jpc' \in [Jails -> JailPlaces]
  BY <1>2, RunMovesJail
<1>4. /\ jpc'[<<r, i>>] = to /\ jpc'[Template(r)] = jpc[Template(r)]
      /\ \A k \in Tests : k # i => jpc'[<<r, k>>] = jpc[<<r, k>>]
      /\ \A q \in Reqs \ {r} :
           /\ jpc'[Template(q)] = jpc[Template(q)]
           /\ \A k \in Tests : jpc'[<<q, k>>] = jpc[<<q, k>>]
  <2>1. /\ jpc'[<<r, i>>] = to
        /\ \A j \in Jails : j # <<r, i>> => jpc'[j] = jpc[j]
    BY <1>1, <1>2 DEF TypeOK
  <2>2. i # 0
    BY DEF Tests
  <2> QED
    BY <2>1, <2>2, OtherJails
<1>5. /\ rpc[r] \in {"tests", "spawn", "join"} /\ i < nextTest[r]
      /\ effectiveParallel(r) > 1 /\ ~(effectiveParallel(r) <= 1)
      /\ ~(i >= nextTest[r])
  <2>1. /\ rpc[r] \in {"tests", "spawn", "join"} /\ i < nextTest[r]
        /\ effectiveParallel(r) > 1
    BY <1>1, <1>2 DEF StageOK
  <2>2. effectiveParallel(r) \in Nat /\ i \in Nat /\ nextTest[r] \in Nat
    BY <1>1, ParallelBound, PipelineConstants DEF TypeOK, Tests
  <2> QED
    BY <2>1, <2>2
<1>6. IsFiniteSet(Alive(r)) /\ i \in Alive(r)
  BY <1>2, JailsFinite, FS_Subset DEF Alive
<1>7. sem[r] \in Nat /\ sem[r] # 0 /\ sem[r] \in 0..NumCPU
  BY <1>1, <1>6, FS_CardinalityType, FS_EmptySet DEF TypeOK
<1>8. /\ results' \in [Reqs -> [Tests -> {"absent", "zero"} \union Statuses]]
      /\ \A q \in Reqs \ {r} : results'[q] = results[q]
      /\ \A k \in Tests : k # i => results'[r][k] = results[r][k]
      /\ results'[r][i] = "cancelled" => r \in gone
  <2>1. CASE results' = results
    BY <1>1, <2>1 DEF TypeOK, ResultsOK
  <2>2. CASE \E st \in Statuses : /\ results' = [results EXCEPT ![r][i] = st]
                                  /\ st = "cancelled" => r \in gone
    <3>1. PICK st \in Statuses : /\ results' = [results EXCEPT ![r][i] = st]
                                 /\ st = "cancelled" => r \in gone
      BY <2>2
    <3> QED
      BY <1>1, <3>1 DEF TypeOK
  <2> QED
    BY <2>1, <2>2 DEF Writes
<1>9. /\ sem' \in [Reqs -> 0..NumCPU]
      /\ \A q \in Reqs \ {r} : sem'[q] = sem[q]
      /\ sem'[r] = IF to = "done" THEN sem[r] - 1 ELSE sem[r]
  BY <1>1, <1>7, PipelineConstants DEF TypeOK
<1>10. TypeOK'
  BY <1>1, <1>3, <1>8, <1>9 DEF TypeOK, PoolOK
<1>11. OnlyRun(r)
  BY <1>4, <1>8, <1>9 DEF OnlyRun
<1>12. Cardinality(Active') <= MaxJobs
  BY ActiveBound DEF Active
<1>13. sem'[r] = Cardinality(Alive(r)')
  <2>1. CASE to = "done"
    <3>1. Alive(r)' = Alive(r) \ {i}
      BY <1>4, <2>1 DEF Alive
    <3> QED
      BY <1>1, <1>6, <1>9, <2>1, <3>1, FS_RemoveElement
  <2>2. CASE to # "done"
    <3>1. Alive(r)' = Alive(r)
      BY <1>2, <1>4, <2>2 DEF Alive
    <3> QED
      BY <1>1, <1>9, <2>2, <3>1
  <2> QED
    BY <2>1, <2>2
<1>14. (StageOK(r) /\ ResultsOK(r) /\ ResponseOK(r))'
  <2>1. effectiveParallel(r)' = effectiveParallel(r) /\ Template(r)' = Template(r)
    BY DEF effectiveParallel, Template
  <2>2. StageOK(r)'
    BY <1>1, <1>2, <1>4, <1>5, <2>1 DEF StageOK
  <2>3. ASSUME NEW k \in Tests
        PROVE  /\ k < nextTest[r] => jpc'[<<r, k>>] # "none"
               /\ jpc'[<<r, k>>] = "done" => results'[r][k] \in Statuses
               /\ jpc'[<<r, k>>] \in {"release", "rmcg", "rmdir", "gone"}
                    => results'[r][k] \in Statuses \/ <<r, k>> \in failed
               /\ k >= nextTest[r] => results'[r][k] \notin Statuses
               /\ results'[r][k] = "cancelled" => r \in gone
    <3>1. CASE k = i
      BY <1>2, <1>4, <1>5, <1>8, <3>1
    <3>2. CASE k # i
      BY <1>1, <1>4, <1>5, <1>8, <3>2 DEF ResultsOK
    <3> QED
      BY <3>1, <3>2
  <2>4. ResultsOK(r)'
    BY <1>1, <1>5, <2>1, <2>3 DEF ResultsOK
  <2>5. ResponseOK(r)'
    BY <1>1, <1>5 DEF ResponseOK
  <2> QED
    BY <2>2, <2>4, <2>5
<1> QED
  BY <1>3, <1>10, <1>11, <1>12, <1>13, <1>14, OneRunInv

\* A test goroutine seeds its jail, runs its test, and ends.
LEMMA TestStepInv ==
  ASSUME PipelineInv, NEW r \in Reqs, NEW i \in Tests, TestStep(r, i)
  PROVE  PipelineInv'
<1> USE DEF JailGoto, runRest
<1>1. TypeOK /\ ResultsOK(r) /\ faults \in 0..MaxFaults /\ MaxFaults \in Nat
  BY PipelineConstants DEF PipelineInv, TypeOK
<1>2. "internal_error" \in Statuses
  BY DEF Statuses
<1>3. ASSUME NEW st \in Statuses, results' = [results EXCEPT ![r][i] = st]
      PROVE  results'[r][i] \in Statuses
  BY <1>1, <1>3 DEF TypeOK
<1>4. CASE Seed(r, i)
  <2>1. CASE NoFault /\ jpc' = [jpc EXCEPT ![<<r, i>>] = "exec"] /\ results' = results
    <3>1. faults' \in {faults, faults + 1} /\ faults' \in 0..MaxFaults
      BY <1>1, <2>1 DEF NoFault
    <3>2. Writes(r, i)
      BY <2>1 DEF Writes
    <3> QED
      BY <1>4, <2>1, <3>1, <3>2, TestMoveInv DEF Seed
  <2>2. CASE /\ Fault /\ jpc' = [jpc EXCEPT ![<<r, i>>] = "release"]
             /\ results' = [results EXCEPT ![r][i] = "internal_error"]
    <3>1. faults' \in {faults, faults + 1} /\ faults' \in 0..MaxFaults
      BY <1>1, <2>2 DEF Fault
    <3>2. results'[r][i] \in Statuses
      BY <1>2, <1>3, <2>2
    <3>3. Writes(r, i)
      BY <1>2, <2>2 DEF Writes
    <3> QED
      BY <1>4, <2>2, <3>1, <3>2, <3>3, TestMoveInv DEF Seed
  <2> QED
    BY <1>4, <2>1, <2>2 DEF Seed
<1>5. CASE ParallelTest(r, i)
  <2>1. PICK st \in Statuses : /\ TestStatus(r, st)
                               /\ results' = [results EXCEPT ![r][i] = st]
    BY <1>5 DEF ParallelTest
  <2>2. /\ faults' \in {faults, faults + 1} /\ faults' \in 0..MaxFaults
        /\ st = "cancelled" => r \in gone
    BY <2>1, TestStatusFacts
  <2>3. results'[r][i] \in Statuses
    BY <1>3, <2>1
  <2>4. Writes(r, i)
    BY <2>1, <2>2 DEF Writes
  <2> QED
    BY <1>5, <2>2, <2>3, <2>4, TestMoveInv DEF ParallelTest
<1>6. CASE TestExit(r, i)
  <2>1. faults' \in {faults, faults + 1} /\ faults' \in 0..MaxFaults
    BY <1>1, <1>6 DEF TestExit
  <2>2. \/ results' = results /\ <<r, i>> \notin failed
        \/ results' = [results EXCEPT ![r][i] = "internal_error"]
    BY <1>6 DEF TestExit
  <2>3. results'[r][i] \in Statuses
    BY <1>1, <1>2, <1>3, <1>6, <2>2 DEF TestExit, ResultsOK
  <2>4. Writes(r, i)
    BY <1>2, <2>2 DEF Writes
  <2> QED
    BY <1>6, <2>1, <2>3, <2>4, TestMoveInv DEF TestExit
<1> QED
  BY <1>4, <1>5, <1>6 DEF TestStep

------------------------------------------------------------------------------
(* The invariant of the runs *)

\* No run of this process has begun, whatever failed before.
Fresh ==
  /\ WantOK /\ faults \in 0..MaxFaults
  /\ gone = {} /\ cg = {} /\ failed = {} /\ owner = <<>>
  /\ Pool!Init
  /\ rpc = [r \in Reqs |-> "queued"] /\ nextTest = [r \in Reqs |-> 1]
  /\ sem = [r \in Reqs |-> 0] /\ build = [r \in Reqs |-> "ok"]
  /\ err = [r \in Reqs |-> FALSE]
  /\ results = [r \in Reqs |-> [i \in Tests |-> "absent"]]
  /\ jpc = [j \in Jails |-> "none"]
  /\ response = [r \in Reqs |-> NoResponse]

\* The invariant holds before the first run.
LEMMA FreshInv == Fresh => PipelineInv
<1> SUFFICES ASSUME Fresh PROVE PipelineInv
  OBVIOUS
<1> USE DEF Fresh
<1>1. Pool!TypeOK /\ Pool!NoSharedUid /\ Pool!InUseIsHeld
  BY BudgetPositive
     DEF Pool!Init, Pool!TypeOK, Pool!NoSharedUid, Pool!InUseIsHeld, Pool!Held,
         Pool!Uids, Pool!NoUid
<1>2. TypeOK
  BY <1>1, PipelineConstants DEF TypeOK, JailPlaces
<1>3. JailsOK
  BY DEF JailsOK, HasUid, HasDir, OwnsDir, Pool!Init
<1>4. SlotsOK
  <2>1. Active = {}
    BY DEF Active
  <2>2. Cardinality({}) = 0
    BY FS_EmptySet
  <2>3. ASSUME NEW r \in Reqs PROVE sem[r] = 0 /\ Alive(r) = {}
    BY JailPairs DEF Alive
  <2>4. ASSUME NEW r \in Reqs PROVE sem[r] = Cardinality(Alive(r))
    BY <2>2, <2>3, Zenon
  <2>5. Cardinality(Active) <= MaxJobs
    BY <2>1, <2>2, PipelineConstants
  <2> QED
    BY <2>4, <2>5, Zenon DEF SlotsOK
<1>5. LeftoversOK
  <2>1. LeftDir = {} /\ LeftCg = {}
    BY DEF LeftDir, LeftCg
  <2> QED
    BY <2>1, FS_EmptySet, PipelineConstants DEF LeftoversOK
<1>6. ASSUME NEW r \in Reqs
      PROVE  StageOK(r) /\ ResultsOK(r) /\ ResponseOK(r)
  <2>1. jpc[Template(r)] = "none" /\ \A i \in Tests : jpc[<<r, i>>] = "none"
    BY JailPairs
  <2>2. StageOK(r)
    BY <2>1 DEF StageOK
  <2>3. ResultsOK(r)
    <3>1. \A i \in Tests : ~(i < 1)
      BY PipelineConstants DEF Tests
    <3> QED
      BY <2>1, <3>1, StatusFacts DEF ResultsOK
  <2>4. ResponseOK(r)
    BY DEF ResponseOK
  <2> QED
    BY <2>2, <2>3, <2>4
<1> QED
  BY <1>1, <1>2, <1>3, <1>4, <1>5, <1>6 DEF PipelineInv, PoolOK

\* So it holds initially.
LEMMA InitInv == Init => Fresh /\ PipelineInv
<1>1. Init => Fresh
  BY PipelineConstants DEF Init, Fresh, WantOK
<1> QED
  BY <1>1, FreshInv

\* Every step keeps the invariant.
LEMMA NextInv == PipelineInv /\ [Next]_vars => PipelineInv'
<1> SUFFICES ASSUME PipelineInv, [Next]_vars PROVE PipelineInv'
  OBVIOUS
<1>1. ASSUME NEW r \in Reqs, Admit(r) \/ RunStep(r) \/ Disconnect(r)
      PROVE  PipelineInv'
  BY <1>1, AdmitInv, TemplateFailedInv, BuildStepInv, LoopHeadInv,
     SequentialTestInv, SpawnInv, JoinInv, ReturnInv, RespondInv, DisconnectInv
     DEF RunStep
<1>2. CASE UNCHANGED vars
  <2> USE <1>2 DEF vars, jailVars, runVars
  <2>1. PoolOK' /\ TypeOK'
    BY DEF PipelineInv, PoolOK, TypeOK, Pool!TypeOK, Pool!NoSharedUid,
           Pool!InUseIsHeld, Pool!Held
  <2>2. WantOK' /\ JailsOK' /\ SlotsOK' /\ LeftoversOK'
    BY DEF PipelineInv, WantOK, JailsOK, SlotsOK, LeftoversOK, Active, Alive,
           LeftDir, LeftCg
  <2>3. ASSUME NEW r \in Reqs
        PROVE  (StageOK(r) /\ ResultsOK(r) /\ ResponseOK(r))'
    BY DEF PipelineInv, StageOK, ResultsOK, ResponseOK, effectiveParallel, Template
  <2> QED
    BY <2>1, <2>2, <2>3 DEF PipelineInv
<1> QED
  BY <1>1, <1>2, TestStepInv, JailStepInv DEF Next

(* The inductive invariant of the runs: what every jail has at each place of *)
(* its walk, that the semaphores count the goroutines and the gate the runs, *)
(* where a run's jails are, and what its results and its response say.       *)
THEOREM PipelineCorrect == Spec => []PipelineInv
BY InitInv, NextInv, PTL DEF Spec

------------------------------------------------------------------------------
(* What the invariant says *)

\* A jail with a uid shares it with no other.
LEMMA InvOwnUid == PipelineInv => JailsHaveOwnUid
BY DEF PipelineInv, JailsOK, PoolOK, Pool!NoSharedUid, Pool!InUseIsHeld,
       Pool!Held, JailsHaveOwnUid, OwnsDir, HasUid

\* The goroutine of a test is alive only while the template stands.
LEMMA InvTemplate == PipelineInv => TemplateOutlivesTests
BY DEF PipelineInv, StageOK, TemplateOutlivesTests

\* What a run that is over left is what its teardowns could not remove.
LEMMA InvNothingLeft == PipelineInv => NothingLeftBehind
<1> SUFFICES ASSUME PipelineInv PROVE NothingLeftBehind
  OBVIOUS
<1> DEFINE over == {j \in Jails : rpc[j[1]] = "over"}
<1>1. ASSUME NEW j \in over
      PROVE  jpc[j] \in {"none", "gone", "done"}
  <2>1. /\ j = <<j[1], j[2]>> /\ j[1] \in Reqs /\ StageOK(j[1])
        /\ j[2] = 0 \/ j[2] \in Tests
        /\ rpc[j[1]] = "over"
    BY JailPairs DEF PipelineInv
  <2>2. CASE j[2] = 0
    BY <2>1, <2>2 DEF StageOK, Template
  <2>3. CASE j[2] \in Tests
    BY <2>1, <2>3 DEF StageOK
  <2> QED
    BY <2>1, <2>2, <2>3
<1>2. \A j \in over : uid[j] = Pool!NoUid
  BY <1>1 DEF PipelineInv, JailsOK, HasUid
<1>3. over \intersect DOMAIN owner \subseteq LeftDir
  BY <1>1 DEF PipelineInv, JailsOK, LeftDir
<1>4. over \intersect cg \subseteq LeftCg
  BY <1>1 DEF PipelineInv, JailsOK, LeftCg
<1> HIDE DEF over
<1>5. /\ Cardinality(over \intersect DOMAIN owner) <= Cardinality(LeftDir)
      /\ Cardinality(over \intersect DOMAIN owner) \in Nat
      /\ Cardinality(over \intersect cg) <= Cardinality(LeftCg)
      /\ Cardinality(over \intersect cg) \in Nat
  BY <1>3, <1>4, LeftFinite, FS_Subset, FS_CardinalityType
<1>6. Cardinality(LeftDir) + Cardinality(LeftCg) <= faults /\ faults \in Nat
  BY PipelineConstants DEF PipelineInv, LeftoversOK, TypeOK
<1>7. Cardinality(over \intersect DOMAIN owner)
        + Cardinality(over \intersect cg) <= faults
  BY <1>5, <1>6, LeftFinite
<1> QED
  BY <1>2, <1>7 DEF over, NothingLeftBehind

\* A set of tests that is not empty has a first one.
LEMMA FirstOf ==
  ASSUME NEW S \in SUBSET Tests, S # {}
  PROVE  LET i == CHOOSE i \in S : \A k \in S : i <= k
         IN  i \in S /\ \A k \in S : i <= k
<1>1. S \subseteq Nat
  BY PipelineConstants DEF Tests
<1> DEFINE R == {ss \in Nat \X Nat : ss[1] < ss[2]}
<1>2. IsWellFoundedOn(R, Nat)
  BY NatLessThanWellFounded DEF OpToRel
<1> HIDE DEF R
<1>3. PICK i \in S : \A k \in S : ~(<<k, i>> \in R)
  BY <1>1, <1>2, WFMin
<1>4. \A k \in S : ~(k < i)
  BY <1>1, <1>3 DEF R
<1>5. \A k \in S : i <= k
  BY <1>1, <1>4
<1> QED
  BY <1>5

\* The results a run that is over has when its client is still there and
\* the build was ok: every test was executed.
LEMMA AllExecuted ==
  ASSUME PipelineInv, NEW r \in Reqs, rpc[r] = "over", r \notin gone,
         build[r] = "ok", NEW i \in Tests
  PROVE  results[r][i] \in Statuses \ {"cancelled"}
<1>1. TypeOK /\ WantOK /\ StageOK(r) /\ ResultsOK(r)
  BY DEF PipelineInv
<1>2. nextTest[r] = NTests + 1 /\ i < nextTest[r]
  BY <1>1, PipelineConstants DEF ResultsOK, Tests
<1>3. effectiveParallel(r) <= 1 \/ effectiveParallel(r) > 1
  BY <1>1, ParallelBound, PipelineConstants
<1>4. jpc[<<r, i>>] \in {"none", "done"}
  BY <1>1 DEF StageOK
<1> QED
  BY <1>1, <1>2, <1>3, <1>4 DEF ResultsOK

\* computeTopLevelStatus after a build that was ok and tests that all ran.
LEMMA TopLevelOfExecuted ==
  ASSUME NEW ts, \A i \in Tests : ts[i] \in Statuses \ {"cancelled"}
  PROVE  LET top == computeTopLevelStatus("ok", ts)
         IN  /\ top = "accepted" <=> \A i \in Tests : ts[i] = "accepted"
             /\ top = "internal_error"
                  <=> \E i \in Tests : ts[i] = "internal_error"
<1> DEFINE top == computeTopLevelStatus("ok", ts)
           first == CHOOSE i \in Failing(ts) : \A k \in Failing(ts) : i <= k
<1>1. CASE \E i \in Tests : ts[i] = "internal_error"
  <2>1. top = "internal_error"
    BY <1>1 DEF computeTopLevelStatus
  <2> QED
    BY <1>1, <2>1
<1>2. CASE ~(\E i \in Tests : ts[i] = "internal_error") /\ Failing(ts) = {}
  <2>1. top = "accepted"
    BY <1>2 DEF computeTopLevelStatus
  <2>2. \A i \in Tests : ts[i] = "accepted"
    BY <1>2, StatusFacts DEF Failing
  <2> QED
    BY <1>2, <2>1, <2>2
<1>3. CASE ~(\E i \in Tests : ts[i] = "internal_error") /\ Failing(ts) # {}
  <2>1. first \in Failing(ts)
    <3>1. Failing(ts) \in SUBSET Tests
      BY DEF Failing
    <3> HIDE DEF Failing
    <3> QED
      BY <1>3, <3>1, FirstOf, Zenon
  <2>2. top = IF ts[first] = "zero" THEN "not_executed" ELSE ts[first]
    BY <1>3 DEF computeTopLevelStatus, FirstFailure
  <2> HIDE DEF first, top
  <2>3. first \in Tests /\ ts[first] # "accepted" /\ ts[first] # "internal_error"
    BY <1>3, <2>1 DEF Failing
  <2>4. top # "accepted" /\ top # "internal_error"
    BY <2>2, <2>3, StatusFacts
  <2> QED
    BY <1>3, <2>3, <2>4 DEF top
<1> QED
  BY <1>1, <1>2, <1>3

\* The response of a run is faithful to its build and its results.
LEMMA InvResponse == PipelineInv => ResponseFaithful
<1> SUFFICES ASSUME PipelineInv, NEW r \in Reqs, response[r] # NoResponse
             PROVE  /\ response[r].status = "accepted"
                         <=> build[r] = "ok" /\ \A i \in Tests : results[r][i] = "accepted"
                    /\ response[r].status \notin {"build_failed", "internal_error"}
                         => \A i \in Tests :
                              /\ response[r].tests[i] = results[r][i]
                              /\ results[r][i] \in {"accepted"} \union Verdicts
                    /\ response[r].status = "internal_error"
                         <=> \/ build[r] = "internal_error"
                             \/ \E i \in Tests : results[r][i] = "internal_error"
  BY DEF ResponseFaithful
<1>1. /\ rpc[r] = "over" /\ r \notin gone /\ ResultsOK(r)
      /\ response[r] = IF err[r] THEN ErrorResponse(build[r])
                                 ELSE RunResponse(build[r], results[r])
      /\ build[r] \in {"ok", "failed", "internal_error"}
  BY DEF PipelineInv, ResponseOK, TypeOK
<1>2. err[r] <=> build[r] = "internal_error"
  BY <1>1 DEF ResultsOK
<1>3. CASE build[r] = "internal_error"
  <2>1. response[r].status = "internal_error"
    BY <1>1, <1>2, <1>3 DEF ErrorResponse
  <2> QED
    BY <1>3, <2>1
<1>4. CASE build[r] = "failed"
  <2>1. computeTopLevelStatus("failed", results[r]) = "build_failed"
    BY DEF computeTopLevelStatus
  <2>2. response[r].status = "build_failed"
    BY <1>1, <1>2, <1>4, <2>1 DEF RunResponse
  <2>3. ASSUME NEW i \in Tests PROVE results[r][i] # "internal_error"
    <3>1. i >= nextTest[r]
      BY <1>1, <1>4, PipelineConstants DEF ResultsOK, Tests
    <3> QED
      BY <1>1, <3>1 DEF ResultsOK, Statuses
  <2> QED
    BY <1>4, <2>2, <2>3
<1>5. CASE build[r] = "ok"
  <2> DEFINE top == computeTopLevelStatus("ok", results[r])
  <2>1. \A i \in Tests : results[r][i] \in Statuses \ {"cancelled"}
    BY <1>1, <1>5, AllExecuted
  <2>2. /\ top = "accepted" <=> \A i \in Tests : results[r][i] = "accepted"
        /\ top = "internal_error"
             <=> \E i \in Tests : results[r][i] = "internal_error"
    BY <2>1, TopLevelOfExecuted
  <2> HIDE DEF top
  <2>3. /\ response[r].status = top
        /\ top \notin {"build_failed", "internal_error"}
             => response[r].tests = OnTheWire(results[r])
    BY <1>1, <1>2, <1>5 DEF RunResponse, top
  <2>4. \A i \in Tests : OnTheWire(results[r])[i] = results[r][i]
    BY <2>1, StatusFacts DEF OnTheWire
  <2>5. top # "internal_error"
          => \A i \in Tests : results[r][i] \in {"accepted"} \union Verdicts
    BY <2>1, <2>2 DEF Statuses
  <2> QED
    BY <1>5, <2>2, <2>3, <2>4, <2>5
<1> QED
  BY <1>1, <1>3, <1>4, <1>5

------------------------------------------------------------------------------
(* The theorems of the runs *)

(* The types of every reachable state; among them that a run's semaphore     *)
(* never holds more than NumCPU tokens (the channel in ExecuteRun).          *)
THEOREM PipelineTypes == Spec => []TypeOK
BY PipelineCorrect, PTL DEF PipelineInv

(* Whenever newJail asks the pool for a uid, one is free, for every number   *)
(* of runs, tests, job slots and cpus: uid.go's claim that the pool cannot   *)
(* be exhausted behind the gate.                                             *)
THEOREM PoolAlwaysSuffices == Spec => []PoolNeverExhausted
<1>1. PipelineInv => PoolNeverExhausted
  BY PoolSuffices
<1> QED
  BY <1>1, PipelineCorrect, PTL

(* A jail's dir belongs to a uid that is its alone, from the chown to the    *)
(* teardown (newJail and teardown in jail.go).                               *)
THEOREM UidsAreExclusive == Spec => []JailsHaveOwnUid
BY InvOwnUid, PipelineCorrect, PTL

(* ExecuteRun tears the template down only after the last test jail that is  *)
(* seeded from it or runs beside it has gone.                                *)
THEOREM TemplateStands == Spec => []TemplateOutlivesTests
BY InvTemplate, PipelineCorrect, PTL

(* A run that is over has given back its uids, and each dir or cgroup it     *)
(* left is one that teardown tried and failed to remove.                     *)
THEOREM NoLeftovers == Spec => []NothingLeftBehind
BY InvNothingLeft, PipelineCorrect, PTL

(* The response HandleRun sends agrees with the build and the results of the *)
(* run, whatever was cancelled and whichever calls failed meanwhile.         *)
THEOREM ResponsesAreFaithful == Spec => []ResponseFaithful
BY InvResponse, PipelineCorrect, PTL

------------------------------------------------------------------------------
(* Crashes and restarts *)

\* Unless a call failed, the sweeps leave recent dirs and no cgroup.
SweptOK ==
  faults = 0 =>
    /\ phase # "sweep" => \A d \in leftDirs : started - d.mtime <= OrphanAge
    /\ phase = "serving" => leftCgs = {}

\* The clocks, and the times of the dirs.
ClocksOK ==
  /\ now \in Nat /\ started \in Nat /\ born \in [Jails -> Nat]
  /\ \A d \in leftDirs : d.mtime \in Nat

RestartInv == /\ PipelineInv /\ SweptOK /\ ClocksOK
              /\ phase \in {"sweep", "probe", "serving"}
              /\ phase # "serving" => Fresh

\* A step of a run costs at most one failing call.
LEMMA StepFaults ==
  ASSUME Next
  PROVE  faults' \in {faults, faults + 1}
<1> USE DEF runRest, jailVars, runVars, NoFault, Fault
<1>1. ASSUME NEW r \in Reqs, Admit(r) \/ RunStep(r) \/ Disconnect(r)
      PROVE  faults' \in {faults, faults + 1}
  <2>1. CASE BuildStep(r)
    BY <2>1 DEF BuildStep, runBuild, InfraFailure, AppDirMayFail
  <2>2. CASE SequentialTest(r)
    BY <2>2 DEF SequentialTest, TestStatus, InfraFailure, AppDirMayFail
  <2> QED
    BY <1>1, <2>1, <2>2
       DEF Admit, RunStep, TemplateFailed, LoopHead, Spawn, Join, Return,
           Respond, Disconnect
<1>2. ASSUME NEW r \in Reqs, NEW i \in Tests, TestStep(r, i)
      PROVE  faults' \in {faults, faults + 1}
  BY <1>2 DEF TestStep, Seed, ParallelTest, TestExit, TestStatus, InfraFailure,
              AppDirMayFail
<1>3. ASSUME NEW j \in Jails, JailStep(j)
      PROVE  faults' \in {faults, faults + 1}
  BY <1>3 DEF JailStep, AllocUid, MkdirTemp, Chown, NewCgroup, Populate,
              ReleaseUid, TeardownCgroup, RemoveDir
<1> QED
  BY <1>1, <1>2, <1>3 DEF Next

\* The same after a step.
LEMMA FreshNext == Fresh' => PipelineInv'
BY FreshInv, PTL

\* The first process of a service.
LEMMA RestartInitInv == RestartInit => RestartInv
<1> SUFFICES ASSUME RestartInit PROVE RestartInv
  OBVIOUS
<1>1. Fresh /\ PipelineInv
  BY InitInv DEF RestartInit
<1> QED
  BY <1>1 DEF RestartInit, RestartInv, SweptOK, ClocksOK

\* Every step of the service, its start and its death keeps the invariant.
LEMMA RestartNextInv == RestartInv /\ [RestartNext]_restartVars => RestartInv'
<1> SUFFICES ASSUME RestartInv, [RestartNext]_restartVars PROVE RestartInv'
  OBVIOUS
<1>1. /\ PipelineInv /\ SweptOK /\ ClocksOK
      /\ phase \in {"sweep", "probe", "serving"}
      /\ phase # "serving" => Fresh
      /\ faults \in Nat /\ OrphanAge \in Nat /\ MaxFaults \in Nat
      /\ faults \in 0..MaxFaults
  BY PipelineConstants, RestartAssumption
     DEF RestartInv, PipelineInv, TypeOK, RestartAssumption
<1>2. ASSUME Fresh' PROVE PipelineInv'
  BY <1>2, FreshNext
<1>3. CASE SweepOrphans
  <2>1. phase = "sweep" /\ phase' = "probe" /\ started' = now
        /\ UNCHANGED <<leftCgs, born, now, want, gone, jailVars, runVars>>
    BY <1>3 DEF SweepOrphans
  <2>2. PICK stay \in SUBSET Expired :
          /\ leftDirs' = (leftDirs \ Expired) \union stay
          /\ IF stay = {} THEN NoFault ELSE Fault
    BY <1>3 DEF SweepOrphans
  <2>3. faults' \in 0..MaxFaults /\ (faults' = 0 => stay = {})
    BY <1>1, <2>2 DEF NoFault, Fault
  <2>4. Fresh'
    BY <1>1, <2>1, <2>3 DEF Fresh, WantOK, Pool!Init, jailVars, runVars
  <2>5. SweptOK'
    BY <1>1, <2>1, <2>2, <2>3 DEF SweptOK, ClocksOK, Expired
  <2>6. ClocksOK'
    BY <1>1, <2>1, <2>2 DEF ClocksOK, Expired
  <2> QED
    BY <1>2, <2>1, <2>4, <2>5, <2>6 DEF RestartInv
<1>4. CASE Default
  <2>1. phase = "probe" /\ phase' = "serving" /\ cg' = {}
        /\ UNCHANGED <<leftDirs, born, now, started, want, gone, jpc, inUse, next,
                       uid, owner, failed, runVars>>
    BY <1>4 DEF Default
  <2>2. faults' \in 0..MaxFaults /\ (faults' = 0 => faults = 0 /\ leftCgs' = {})
    BY <1>1, <1>4 DEF Default, NoFault, Fault
  <2>3. Fresh'
    BY <1>1, <2>1, <2>2 DEF Fresh, WantOK, Pool!Init, runVars
  <2>4. SweptOK' /\ ClocksOK'
    BY <1>1, <2>1, <2>2 DEF SweptOK, ClocksOK
  <2> QED
    BY <1>2, <2>1, <2>3, <2>4 DEF RestartInv
<1>5. CASE Serve
  <2>1. /\ phase = "serving" /\ Next
        /\ born' = [j \in Jails |-> IF j \in DOMAIN owner' \ DOMAIN owner
                                    THEN now ELSE born[j]]
        /\ UNCHANGED <<phase, now, started, leftDirs, leftCgs>>
    BY <1>5 DEF Serve, diskVars
  <2>2. PipelineInv'
    BY <1>1, <2>1, NextInv
  <2>3. faults' \in {faults, faults + 1}
    BY <2>1, StepFaults
  <2>4. SweptOK'
    BY <1>1, <2>1, <2>3 DEF SweptOK
  <2>5. ClocksOK'
    BY <1>1, <2>1 DEF ClocksOK
  <2> QED
    BY <1>1, <2>1, <2>2, <2>3, <2>4, <2>5 DEF RestartInv
<1>6. CASE Crash
  <2>1. Fresh'
    BY <1>1, <1>6 DEF Crash, Fresh, PipelineInv, WantOK, Pool!Init
  <2>2. phase' = "sweep"
    BY <1>6 DEF Crash
  <2>3. SweptOK'
    BY <2>2 DEF SweptOK
  <2>4. ClocksOK'
    <3>1. DOMAIN owner \subseteq Jails
      BY <1>1 DEF PipelineInv, TypeOK
    <3>2. \A d \in leftDirs' : \/ d \in leftDirs
                               \/ \E j \in DOMAIN owner : d.mtime = born[j]
      BY <1>6 DEF Crash
    <3>3. now' = now /\ started' = started /\ born' = [j \in Jails |-> 0]
      BY <1>6 DEF Crash
    <3> QED
      BY <1>1, <3>1, <3>2, <3>3 DEF ClocksOK
  <2> QED
    BY <1>2, <2>1, <2>2, <2>3, <2>4 DEF RestartInv
<1>7. CASE Tick \/ UNCHANGED restartVars
  <2>1. UNCHANGED <<vars, phase, started, born, leftDirs, leftCgs>> /\ now' \in Nat
    BY <1>1, <1>7 DEF Tick, restartVars, diskVars, ClocksOK
  <2>2. PipelineInv'
    BY <1>1, <2>1, NextInv
  <2>3. SweptOK' /\ ClocksOK'
    BY <1>1, <2>1 DEF SweptOK, ClocksOK, vars, jailVars
  <2>4. Fresh => Fresh'
    BY <2>1 DEF Fresh, WantOK, Pool!Init, vars, jailVars, runVars
  <2> QED
    BY <1>1, <2>1, <2>2, <2>3, <2>4 DEF RestartInv
<1> QED
  BY <1>3, <1>4, <1>5, <1>6, <1>7 DEF RestartNext

(* The inductive invariant with crashes: the one of the runs, that no run    *)
(* has begun before main listens, and what each sweep leaves.                *)
THEOREM RestartCorrect == RestartSpec => []RestartInv
BY RestartInitInv, RestartNextInv, PTL DEF RestartSpec

(* What is proved of the runs also holds of a service that may die between   *)
(* any two steps and start again: uids are never short or shared, templates  *)
(* stand, teardowns leave nothing unaccounted for, responses are faithful.   *)
THEOREM RunsSurviveCrashes ==
  RestartSpec => [](/\ TypeOK /\ PoolNeverExhausted /\ JailsHaveOwnUid
                    /\ TemplateOutlivesTests /\ NothingLeftBehind
                    /\ ResponseFaithful)
<1>1. RestartInv => /\ TypeOK /\ PoolNeverExhausted /\ JailsHaveOwnUid
                    /\ TemplateOutlivesTests /\ NothingLeftBehind
                    /\ ResponseFaithful
  BY PoolSuffices, InvOwnUid, InvTemplate, InvNothingLeft, InvResponse
     DEF RestartInv, PipelineInv
<1> QED
  BY <1>1, RestartCorrect, PTL

(* Without a failing call a serving process finds of its predecessors no     *)
(* cgroup and only dirs younger than OrphanAge at its start, however often   *)
(* and wherever they died (SweepOrphans, cgroup Sweep).                      *)
THEOREM SweepsAreThorough == RestartSpec => []OnlyRecentLeftovers
<1>1. RestartInv => OnlyRecentLeftovers
  BY DEF RestartInv, SweptOK, OnlyRecentLeftovers
<1> QED
  BY <1>1, RestartCorrect, PTL
=============================================================================
