--------------------------- MODULE ExecJailProofs ---------------------------
(***************************************************************************)
(* The verdicts of execJail, for every number of execs, every limit and    *)
(* every program.                                                          *)
(*                                                                         *)
(* A verdict is read from flags that the poller raises, counters that the  *)
(* kernel keeps and an exit code, none of which says by itself to which    *)
(* exec it belongs.  The inductive invariant therefore relates each of     *)
(* them to the exec at hand: the OOM baseline is at most what earlier      *)
(* execs left, and exactly that unless a read failed; the leaf of this     *)
(* exec holds its OOM kill until nsjail exits; the cpu delta is this       *)
(* exec's cpu time; a flag of the poller was earned; a kill of nsjail has  *)
(* a reason, and so has an exit code of 137.                               *)
(***************************************************************************)
EXTENDS ExecJail, FiniteSetTheorems, TLAPS

------------------------------------------------------------------------------
(* The inductive invariant *)

\* nsjail has been started in this exec.
Started == nsjail # "none"

\* Where the program, nsjail and the poller are, by where execJail is.
StagesOK ==
  /\ epc \in {"start", "end"} => ~Started
  /\ epc = "read" => Started
  /\ epc \in {"checkOOM", "checkCPU", "classify"} => nsjail \in {"exited", "killed"}
  /\ epc = "next" => nsjail # "running"
  /\ nsjail = "none" => prog = "none"
  /\ nsjail = "running" => prog \in {"running", "dead"}
  /\ nsjail \in {"exited", "killed"} => prog = "dead"
  /\ ppc # "off" => epc \in {"read", "checkOOM", "checkCPU"} /\ cgroup # "none"
  /\ ctxErr = "DeadlineExceeded" => wall
  /\ written \in Nat

\* The leaves that earlier execs left, and how many kills a leaf function has.
Earlier == [e \in DOMAIN leaves \ {n} |-> leaves[e]]
Kills(f) == UNION {{e} \X (1..f[e]) : e \in DOMAIN f}

\* The leaf of this exec holds its OOM kill until nsjail exits by itself; the
\* baseline is what earlier execs left, or less if a read failed.
LeavesOK ==
  /\ leaves \in [DOMAIN leaves -> 0..1] /\ DOMAIN leaves \subseteq 1..n
  /\ epc = "start" \/ nsjail = "exited" => n \notin DOMAIN leaves
  /\ nsjail \in {"running", "killed"} /\ cgroup # "none" =>
       n \in DOMAIN leaves /\ leaves[n] = IF oomInExec THEN 1 ELSE 0
  /\ Started /\ cgroup = "none" => ~oomInExec
  /\ Started /\ cgroup # "none" =>
       /\ oomBase <= Cardinality(Kills(Earlier))
       /\ ~readFailed => oomBase = Cardinality(Kills(Earlier))

\* The delta of cpu.stat is the cpu time of this exec; each exec adds at most
\* MaxCpu to the cumulative count.
CpuOK ==
  /\ Started /\ baselineOK => cgroup = "cpu" /\ cpuUsage - cpuBase = execCpu
  /\ Started /\ cgroup = "cpu" /\ ~baselineOK => readFailed
  /\ cpuUsage <= (IF epc = "start" THEN n - 1 ELSE n) * MaxCpu
  /\ Started => cpuUsage <= (n - 1) * MaxCpu + execCpu

\* A flag of the poller was earned, a kill of nsjail and an exit code of 137
\* have a reason, and a program that exits has written its output.
CausesOK ==
  /\ Started /\ isCPUKill => CpuLimit > 0 /\ execCpu >= CpuLimit
  /\ nsjail = "killed" => ctxErr # "nil" \/ isCPUKill
  /\ Started /\ code = 137 => \/ wall \/ 137 \in ExitCodes \/ oomInExec
                              \/ RlimitArmed /\ execCpu >= CpuLimit
  /\ prog = "dead" /\ nsjail # "killed" => code = 137 \/ unwritten = 0

\* An OOM kill that this exec may be charged with: its own, or an earlier one
\* that the baseline missed.
KillSeen == oomInExec \/ (readFailed /\ EarlierKill)

\* What execJail read from the flags is what they say, also when the poller
\* ticks between the two reads.
OutcomeOK ==
  /\ Started /\ isOOMKill => KillSeen
  /\ epc \in {"checkCPU", "classify"} => (oomKilled => KillSeen)
  /\ epc = "classify" => (cpuKilled <=> isCPUKill)

ExecInv == /\ TypeOK /\ StagesOK /\ LeavesOK /\ CpuOK /\ CausesOK /\ OutcomeOK
           /\ VerdictTruthful

------------------------------------------------------------------------------
(* Leaves and sums *)

\* What the constants may be.
LEMMA ExecConstants ==
  /\ Execs \in Nat \ {0} /\ CpuLimit \in Nat /\ MaxCpu \in Nat
  /\ OutputCap \in Nat /\ PipeSize \in Nat \ {0} /\ MaxOutput \in Nat
  /\ ExitCodes \subseteq 0..255 /\ 0 \in ExitCodes
  /\ Cgroups \subseteq {"none", "memory", "cpu"} /\ ReadsMayFail \in BOOLEAN
BY ExecAssumption DEF ExecAssumption

\* A product grows with its first factor.
LEMMA ProductGrows ==
  ASSUME NEW a \in Int, NEW b \in Int, NEW c \in Int, c >= 0, a <= b
  PROVE  a * c <= b * c
OBVIOUS

\* Products of a number of execs and a cpu time.
LEMMA Products ==
  ASSUME NEW a \in Nat, NEW b \in Nat, NEW c \in Nat, a <= b
  PROVE  /\ a * c \in Nat /\ a * c <= b * c
         /\ (a + 1) * c = a * c + c
<1>1. a * c \in Int /\ (a + 1) * c = a * c + c
  OBVIOUS
<1>2. a \in Int /\ b \in Int /\ c \in Int /\ 0 <= a /\ 0 <= c
  OBVIOUS
<1>3. 0 * c <= a * c /\ 0 * c = 0
  BY <1>2, ProductGrows
<1>4. a * c <= b * c
  BY <1>2, ProductGrows
<1> QED
  BY <1>1, <1>3, <1>4

\* The kills that leaves 1..m hold are finitely many, at most one each.
LEMMA KillsBound ==
  ASSUME NEW m \in Nat, NEW f, DOMAIN f \subseteq 1..m,
         \A e \in DOMAIN f : f[e] \in 0..1
  PROVE  /\ IsFiniteSet(Kills(f)) /\ Cardinality(Kills(f)) \in Nat
         /\ Cardinality(Kills(f)) <= m
<1>1. Kills(f) \subseteq (1..m) \X {1}
  <2> SUFFICES ASSUME NEW e \in DOMAIN f, NEW k \in {e} \X (1..f[e])
               PROVE  k \in (1..m) \X {1}
    BY DEF Kills
  <2>1. k[1] = e /\ k[2] \in 1..f[e] /\ k = <<k[1], k[2]>>
    OBVIOUS
  <2>2. k[2] = 1 /\ e \in 1..m
    BY <2>1
  <2> QED
    BY <2>1, <2>2
<1> DEFINE M == 1..m
           One == {1}
<1>2. IsFiniteSet(M) /\ Cardinality(M) = m
  BY FS_Interval
<1>3. IsFiniteSet(One) /\ Cardinality(One) = 1
  BY FS_Singleton
<1> HIDE DEF M, One
<1>4. IsFiniteSet(M \X One) /\ Cardinality(M \X One) = m
  BY <1>2, <1>3, FS_Product
<1>5. Kills(f) \subseteq M \X One
  BY <1>1 DEF M, One
<1> QED
  BY <1>4, <1>5, FS_Subset, FS_CardinalityType

\* A leaf adds what it counts to the sum of the others.
LEMMA KillsOfLeaf ==
  ASSUME NEW m \in Nat, NEW f, DOMAIN f \subseteq 1..m,
         \A e \in DOMAIN f : f[e] \in 0..1, NEW k \in DOMAIN f
  PROVE  Cardinality(Kills(f))
           = Cardinality(Kills([e \in DOMAIN f \ {k} |-> f[e]])) + f[k]
<1> DEFINE g == [e \in DOMAIN f \ {k} |-> f[e]]
<1>1. DOMAIN g \subseteq 1..m /\ \A e \in DOMAIN g : g[e] \in 0..1
  OBVIOUS
<1> HIDE DEF g
<1>2. IsFiniteSet(Kills(g)) /\ Cardinality(Kills(g)) \in Nat
  BY <1>1, KillsBound
<1>3. CASE f[k] = 0
  <2>1. Kills(f) = Kills(g)
    <3>1. 1..f[k] = {}
      BY <1>3
    <3>2. {k} \X (1..f[k]) = {}
      BY <3>1
    <3> QED
      BY <3>2 DEF Kills, g
  <2> QED
    BY <1>2, <1>3, <2>1 DEF g
<1>4. CASE f[k] = 1
  <2>1. 1..f[k] = {1}
    BY <1>4
  <2>2. {k} \X (1..f[k]) = {<<k, 1>>}
    BY <2>1
  <2>3. Kills(f) = Kills(g) \union {<<k, 1>>}
    BY <2>2 DEF Kills, g
  <2>4. <<k, 1>> \notin Kills(g)
    BY DEF Kills, g
  <2> QED
    BY <1>2, <1>4, <2>3, <2>4, FS_AddElement DEF g
<1> QED
  BY <1>3, <1>4

\* The types, one by one.
LEMMA Types ==
  ASSUME TypeOK
  PROVE  /\ n \in 1..Execs /\ n \in Nat /\ cpuBase \in Nat /\ cpuUsage \in Nat
         /\ cpuBase <= cpuUsage /\ execCpu \in Nat /\ execCpu <= MaxCpu
         /\ baselineOK \in BOOLEAN /\ oomKilled \in BOOLEAN
         /\ cpuKilled \in BOOLEAN /\ isOOMKill \in BOOLEAN
         /\ isCPUKill \in BOOLEAN /\ wall \in BOOLEAN /\ oomInExec \in BOOLEAN
         /\ readFailed \in BOOLEAN /\ oomBase \in Nat
         /\ readBytes \in Nat /\ unwritten \in Nat /\ code \in Nat
BY ExecConstants DEF TypeOK

\* Fewer leaves hold no more kills.
LEMMA KillsOfSome ==
  ASSUME NEW m \in Nat, DOMAIN leaves \subseteq 1..m,
         \A e \in DOMAIN leaves : leaves[e] \in 0..1,
         NEW S \in SUBSET DOMAIN leaves
  PROVE  /\ OOMKills(S) \in Nat /\ OOMKills(S) <= Cardinality(Kills(leaves))
         /\ OOMKills(S) <= m
         /\ OOMKills(DOMAIN leaves) = Cardinality(Kills(leaves))
<1> DEFINE K == UNION {{e} \X (1..leaves[e]) : e \in S}
<1>1. /\ IsFiniteSet(Kills(leaves)) /\ Cardinality(Kills(leaves)) \in Nat
      /\ Cardinality(Kills(leaves)) <= m
  BY KillsBound
<1>2. K \subseteq Kills(leaves) /\ OOMKills(S) = Cardinality(K)
  BY DEF Kills, OOMKills
<1>3. OOMKills(DOMAIN leaves) = Cardinality(Kills(leaves))
  BY DEF Kills, OOMKills
<1> HIDE DEF K
<1>4. IsFiniteSet(K) /\ Cardinality(K) <= Cardinality(Kills(leaves))
  BY <1>1, <1>2, FS_Subset
<1> QED
  BY <1>1, <1>2, <1>3, <1>4, FS_CardinalityType

\* In an exec with a cgroup the sum over whatever leaves are read exceeds the
\* baseline only after an OOM kill of this exec, or if a read of the baseline
\* failed and an earlier exec left a kill.
LEMMA SinceBaseline ==
  ASSUME ExecInv, Started, cgroup # "none", NEW S \in SUBSET DOMAIN leaves,
         OOMKillsSince(S, oomBase)
  PROVE  KillSeen
<1> SUFFICES ASSUME ~oomInExec PROVE readFailed /\ EarlierKill
  BY DEF KillSeen
<1>1. /\ n \in Nat /\ LeavesOK /\ oomBase \in Nat /\ readFailed \in BOOLEAN
      /\ DOMAIN leaves \subseteq 1..n /\ \A e \in DOMAIN leaves : leaves[e] \in 0..1
  BY Types DEF ExecInv, LeavesOK
<1>2. /\ DOMAIN Earlier \subseteq 1..n
      /\ \A e \in DOMAIN Earlier : Earlier[e] \in 0..1
  BY <1>1 DEF Earlier
<1>3. Cardinality(Kills(Earlier)) \in Nat
  BY <1>1, <1>2, KillsBound
<1>4. Cardinality(Kills(leaves)) = Cardinality(Kills(Earlier))
  <2>1. CASE n \in DOMAIN leaves
    <3>1. nsjail \in {"running", "killed"}
      BY <1>1, <2>1 DEF LeavesOK, Started, ExecInv, TypeOK
    <3>2. leaves[n] = 0
      BY <1>1, <3>1 DEF LeavesOK
    <3>3. Cardinality(Kills(leaves)) = Cardinality(Kills(Earlier)) + leaves[n]
      BY <1>1, <2>1, KillsOfLeaf DEF Earlier
    <3> QED
      BY <1>3, <3>2, <3>3
  <2>2. CASE n \notin DOMAIN leaves
    <3>1. Earlier = leaves
      BY <1>1, <2>2 DEF Earlier, LeavesOK
    <3> QED
      BY <3>1
  <2> QED
    BY <2>1, <2>2
<1>5. oomBase < Cardinality(Kills(Earlier))
  <2>1. OOMKills(S) \in Nat /\ OOMKills(S) <= Cardinality(Kills(leaves))
    BY <1>1, KillsOfSome
  <2>2. oomBase < OOMKills(S)
    BY <1>1, <2>1 DEF OOMKillsSince
  <2> QED
    BY <1>1, <1>3, <1>4, <2>1, <2>2
<1>6. readFailed
  BY <1>1, <1>3, <1>5 DEF LeavesOK
<1>7. Kills(Earlier) # {}
  <2>1. Cardinality(Kills(Earlier)) # 0
    BY <1>1, <1>3, <1>5
  <2> QED
    BY <2>1, FS_EmptySet
<1>8. EarlierKill
  <2>1. PICK e \in DOMAIN Earlier : {e} \X (1..Earlier[e]) # {}
    BY <1>7 DEF Kills
  <2>2. e \in DOMAIN leaves \ {n} /\ Earlier[e] = leaves[e] /\ leaves[e] \in 0..1
    BY <1>1, <2>1 DEF Earlier
  <2>3. 1..leaves[e] # {}
    BY <2>1, <2>2
  <2>4. leaves[e] > 0
    BY <2>2, <2>3
  <2> QED
    BY <2>2, <2>4 DEF EarlierKill
<1> QED
  BY <1>6, <1>8

\* Every scan reads some of the leaves that are there.
LEMMA SomeLeaves ==
  ASSUME NEW read \in ReadableLeaves
  PROVE  read \in SUBSET DOMAIN leaves
BY DEF ReadableLeaves

------------------------------------------------------------------------------
(* Every step keeps the invariant *)

\* Where everything is.
LEMMA StagesKept ==
  ASSUME ExecInv, [Next]_vars
  PROVE  StagesOK'
<1> USE DEF ctxVars, execVars, pollVars, progVars
<1>1. StagesOK /\ Started \in BOOLEAN /\ n \in Nat /\ readBytes \in Nat
  BY Types DEF ExecInv, Started
<1>2. CASE SkipCancelled
  BY <1>1, <1>2 DEF SkipCancelled, StagesOK, Started
<1>3. CASE AppDirFails \/ StartFails
  BY <1>1, <1>3 DEF AppDirFails, StartFails, StagesOK, Started
<1>4. CASE Start
  BY <1>1, <1>4 DEF Start, StagesOK, Started
<1>5. CASE Read
  BY <1>1, <1>5 DEF Read, StagesOK, Started
<1>6. CASE Wait
  BY <1>1, <1>6 DEF Wait, StagesOK, Started
<1>7. CASE CheckOOM
  BY <1>1, <1>7 DEF CheckOOM, StagesOK, Started
<1>8. CASE CheckCPU
  BY <1>1, <1>8 DEF CheckCPU, StagesOK, Started
<1>9. CASE Classify
  BY <1>1, <1>9 DEF Classify, StagesOK, Started
<1>10. CASE NextTest
  BY <1>1, <1>10 DEF NextTest, StagesOK, Started
<1>11. CASE PollOOM
  BY <1>1, <1>11 DEF PollOOM, StagesOK, Started
<1>12. CASE PollCPU
  BY <1>1, <1>12 DEF PollCPU, KillNsjail, StagesOK, Started
<1>13. CASE Spin
  BY <1>1, <1>13 DEF Spin, StagesOK, Started
<1>14. CASE Write
  BY <1>1, <1>14 DEF Write, StagesOK, Started
<1>15. CASE Exit
  BY <1>1, <1>15 DEF Exit, StagesOK, Started
<1>16. CASE LimitKill
  BY <1>1, <1>16 DEF LimitKill, StagesOK, Started
<1>17. CASE OOMKill
  BY <1>1, <1>17 DEF OOMKill, StagesOK, Started
<1>18. CASE NsjailExit
  BY <1>1, <1>18 DEF NsjailExit, StagesOK, Started
<1>19. CASE WallClock
  BY <1>1, <1>19 DEF WallClock, StagesOK, Started
<1>20. CASE Deadline
  BY <1>1, <1>20 DEF Deadline, StagesOK, Started
<1>21. CASE Cancel
  BY <1>1, <1>21 DEF Cancel, StagesOK, Started
<1>22. CASE ContextKill
  BY <1>1, <1>22 DEF ContextKill, KillNsjail, StagesOK, Started
<1>23. CASE UNCHANGED vars
  BY <1>1, <1>23 DEF vars, StagesOK, Started
<1> QED
  BY <1>2, <1>3, <1>4, <1>5, <1>6, <1>7, <1>8, <1>9, <1>10, <1>11, <1>12,
     <1>13, <1>14, <1>15, <1>16, <1>17, <1>18, <1>19, <1>20, <1>21, <1>22,
     <1>23
     DEF Next, execJailStep, PollerStep, ProgramStep, ContextStep, Done

\* A failed read of an exec is not forgotten before the next one.
LEMMA FailureStays ==
  ASSUME Classify, readFailed
  PROVE  readFailed'
BY Zenon DEF Classify

\* The leaves and the baseline of the OOM kills.
LEMMA LeavesKept ==
  ASSUME ExecInv, [Next]_vars
  PROVE  LeavesOK'
<1> USE DEF ctxVars, execVars, pollVars, progVars
<1>1. /\ LeavesOK /\ StagesOK /\ n \in Nat /\ n >= 1 /\ oomInExec \in BOOLEAN
      /\ nsjail \in {"none", "running", "exited", "killed"}
  BY Types, ExecConstants DEF ExecInv, TypeOK
<1>2. CASE Start
  <2>1. /\ n \notin DOMAIN leaves /\ epc' = "read" /\ nsjail' = "running"
        /\ n' = n /\ cgroup' = cgroup /\ oomInExec' = FALSE
        /\ leaves' = IF cgroup = "none" THEN leaves
                     ELSE [e \in DOMAIN leaves \union {n} |->
                             IF e = n THEN 0 ELSE leaves[e]]
    BY <1>1, <1>2 DEF Start, LeavesOK
  <2>4. PICK read \in SUBSET DOMAIN leaves :
          /\ oomBase' = oomBaseline(read)
          /\ ~readFailed' => read = DOMAIN leaves
    BY <1>2, SomeLeaves DEF Start
  <2>2. CASE cgroup = "none"
    BY <1>1, <2>1, <2>2 DEF LeavesOK
  <2>3. CASE cgroup # "none"
    <3>1. /\ DOMAIN leaves' = DOMAIN leaves \union {n} /\ leaves'[n] = 0
          /\ \A e \in DOMAIN leaves : leaves'[e] = leaves[e] /\ e # n
      BY <2>1, <2>3
    <3>2. leaves' \in [DOMAIN leaves' -> 0..1] /\ DOMAIN leaves' \subseteq 1..n
      <4>1. \A e \in DOMAIN leaves' : leaves'[e] \in 0..1
        BY <1>1, <3>1 DEF LeavesOK
      <4>2. n \in 1..n /\ leaves' = [e \in DOMAIN leaves' |-> leaves'[e]]
        BY <1>1, <2>1, <2>3
      <4> QED
        BY <1>1, <3>1, <4>1, <4>2 DEF LeavesOK
    <3>3. Earlier' = leaves
      <4>1. Earlier' = [e \in DOMAIN leaves' \ {n} |-> leaves'[e]]
        BY <2>1 DEF Earlier
      <4>2. DOMAIN leaves' \ {n} = DOMAIN leaves
        BY <2>1, <3>1
      <4>3. leaves = [e \in DOMAIN leaves |-> leaves[e]]
        BY <1>1 DEF LeavesOK
      <4>4. [e \in DOMAIN leaves |-> leaves'[e]] = [e \in DOMAIN leaves |-> leaves[e]]
        BY <3>1
      <4>5. Earlier' = [e \in DOMAIN leaves |-> leaves'[e]]
        BY <4>1, <4>2
      <4> QED
        BY <4>3, <4>4, <4>5
    <3>4. /\ oomBase' <= Cardinality(Kills(leaves))
          /\ ~readFailed' => oomBase' = Cardinality(Kills(leaves))
      <4>1. DOMAIN leaves \subseteq 1..n /\ \A e \in DOMAIN leaves : leaves[e] \in 0..1
        BY <1>1 DEF LeavesOK
      <4>2. /\ OOMKills(read) <= Cardinality(Kills(leaves))
            /\ OOMKills(DOMAIN leaves) = Cardinality(Kills(leaves))
        BY <1>1, <4>1, KillsOfSome
      <4> QED
        BY <2>3, <2>4, <4>2 DEF oomBaseline
    <3>5. Kills(Earlier)' = Kills(leaves)
      BY <3>3 DEF Kills
    <3> QED
      BY <2>1, <2>3, <3>1, <3>2, <3>4, <3>5 DEF LeavesOK
  <2> QED
    BY <2>2, <2>3
<1>3. CASE NextTest
  BY <1>1, <1>3 DEF NextTest, LeavesOK, StagesOK, Earlier, Started
<1>4. CASE PollCPU
  BY <1>1, <1>4 DEF PollCPU, KillNsjail, LeavesOK, StagesOK, Earlier, Started
<1>5. CASE OOMKill
  BY <1>1, <1>5 DEF OOMKill, LeavesOK, StagesOK, Earlier, Started
<1>6. CASE NsjailExit
  BY <1>1, <1>6 DEF NsjailExit, LeavesOK, StagesOK, Earlier, Started
<1>7. CASE ContextKill
  BY <1>1, <1>7
     DEF ContextKill, KillNsjail, LeavesOK, StagesOK, Earlier, Started
<1>8. CASE /\ UNCHANGED <<leaves, cgroup, n, nsjail, oomInExec, oomBase, readFailed>>
           /\ epc' = "start" => epc = "start"
  BY <1>1, <1>8 DEF LeavesOK, StagesOK, Earlier, Started
<1>9. CASE Classify
  BY <1>1, <1>9, FailureStays DEF Classify, LeavesOK, StagesOK, Earlier, Started
<1> QED
  BY <1>9, <1>2, <1>3, <1>4, <1>5, <1>6, <1>7, <1>8
     DEF Next, vars, execJailStep, PollerStep, ProgramStep, ContextStep,
         Done, SkipCancelled, AppDirFails, StartFails, Read, Wait, CheckOOM,
         CheckCPU, PollOOM, Spin, Write, Exit, LimitKill, WallClock,
         Deadline, Cancel

\* The cpu time of the exec and of the jail.
LEMMA CpuKept ==
  ASSUME ExecInv, [Next]_vars
  PROVE  CpuOK' /\ cpuUsage' \in Nat /\ cpuBase' \in 0..cpuUsage'
<1> USE DEF ctxVars, execVars, pollVars, progVars
<1>1. /\ CpuOK /\ StagesOK /\ n \in Nat /\ n >= 1
      /\ cpuUsage \in Nat /\ cpuBase \in Nat /\ cpuBase <= cpuUsage
      /\ execCpu \in Nat /\ execCpu <= MaxCpu /\ MaxCpu \in Nat
      /\ baselineOK \in BOOLEAN /\ ReadsMayFail \in BOOLEAN
      /\ readFailed \in BOOLEAN
      /\ nsjail \in {"none", "running", "exited", "killed"}
  BY Types, ExecConstants DEF ExecInv, TypeOK
<1>2. /\ (n - 1) * MaxCpu \in Nat /\ n * MaxCpu \in Nat
      /\ n * MaxCpu = (n - 1) * MaxCpu + MaxCpu
      /\ (n + 1 - 1) * MaxCpu = n * MaxCpu
  <2>1. n - 1 \in Nat /\ n - 1 <= n /\ (n - 1) + 1 = n /\ n + 1 - 1 = n
    BY <1>1
  <2> QED
    BY <1>1, <2>1, Products
<1>3. CASE SkipCancelled
  BY <1>1, <1>2, <1>3 DEF SkipCancelled, CpuOK, StagesOK, Started
<1>4. CASE AppDirFails \/ StartFails
  BY <1>1, <1>2, <1>4 DEF AppDirFails, StartFails, CpuOK, StagesOK, Started
<1>5. CASE Start
  <2>1. /\ cpuUsage' \in Nat /\ cpuUsage' <= cpuUsage
        /\ baselineOK' => cgroup = "cpu" /\ cpuBase' = cpuUsage'
        /\ ~baselineOK' => cpuBase' = 0
        /\ execCpu' = 0 /\ n' = n /\ epc' = "read" /\ cgroup' = cgroup
        /\ nsjail' = "running"
        /\ cgroup = "cpu" /\ ~baselineOK' => readFailed'
    <3>1. cpuUsage' \in {0, cpuUsage} /\ (baselineOK' => cgroup = "cpu")
      BY <1>1, <1>5 DEF Start
    <3>2. cpuBase' = IF baselineOK' THEN cpuUsage' ELSE 0
      BY <1>5 DEF Start, cpuBaseline
    <3>3. baselineOK' \in BOOLEAN
      BY <1>1, <1>5 DEF Start
    <3>4. cgroup = "cpu" /\ ~baselineOK' => readFailed'
      BY <1>5, Zenon DEF Start
    <3> QED
      BY <1>1, <1>5, <3>1, <3>2, <3>3, <3>4 DEF Start
  <2>2. cpuUsage <= (n - 1) * MaxCpu
    BY <1>1, <1>5 DEF Start, CpuOK
  <2>3. cpuBase' \in 0..cpuUsage' /\ (baselineOK' => cpuUsage' - cpuBase' = execCpu')
    BY <2>1
  <2>4. cpuUsage' <= n * MaxCpu /\ cpuUsage' <= (n - 1) * MaxCpu + 0
    BY <1>1, <1>2, <2>1, <2>2
  <2> QED
    BY <2>1, <2>3, <2>4 DEF CpuOK
<1>6. CASE NextTest
  BY <1>1, <1>2, <1>6 DEF NextTest, CpuOK, StagesOK, Started
<1>7. CASE Spin
  BY <1>1, <1>2, <1>7 DEF Spin, CpuOK, StagesOK, Started
<1>8. CASE UNCHANGED <<cgroup, baselineOK, cpuUsage, cpuBase, execCpu, n, Started,
                       readFailed>>
           /\ (epc' = "start" <=> epc = "start")
  BY <1>1, <1>2, <1>8 DEF CpuOK, StagesOK, Started
<1>9. CASE Classify
  BY <1>1, <1>2, <1>9, FailureStays DEF Classify, CpuOK, StagesOK, Started
<1> QED
  BY <1>3, <1>4, <1>5, <1>6, <1>7, <1>8, <1>9
     DEF Next, vars, execJailStep, PollerStep, ProgramStep, ContextStep,
         Done, Started, Read, Wait, CheckOOM, CheckCPU, PollOOM,
         PollCPU, Write, Exit, LimitKill, OOMKill, NsjailExit, WallClock,
         Deadline, Cancel, ContextKill, KillNsjail

\* The reasons of flags, kills and exit codes.
LEMMA CausesKept ==
  ASSUME ExecInv, [Next]_vars
  PROVE  CausesOK'
<1> USE DEF ctxVars, execVars, pollVars, progVars
<1>1. /\ CausesOK /\ StagesOK /\ CpuOK /\ n \in Nat /\ CpuLimit \in Nat
      /\ execCpu \in Nat /\ unwritten \in Nat /\ code \in Nat
      /\ isCPUKill \in BOOLEAN /\ isOOMKill \in BOOLEAN /\ oomInExec \in BOOLEAN
      /\ wall \in BOOLEAN /\ baselineOK \in BOOLEAN
      /\ nsjail \in {"none", "running", "exited", "killed"}
  BY Types, ExecConstants DEF ExecInv, TypeOK
<1>3. CASE Start
  BY <1>1, <1>3
     DEF Start, CausesOK, StagesOK, CpuOK, Started, RlimitArmed,
         PollerArmed
<1>4. CASE NextTest
  BY <1>1, <1>4
     DEF NextTest, CausesOK, StagesOK, CpuOK, Started, RlimitArmed,
         PollerArmed
<1>5. CASE PollOOM
  BY <1>1, <1>5
     DEF PollOOM, CausesOK, StagesOK, CpuOK, Started, RlimitArmed,
         PollerArmed
<1>6. CASE PollCPU
  BY <1>1, <1>6
     DEF PollCPU, KillNsjail, CausesOK, StagesOK, CpuOK, Started,
         RlimitArmed, PollerArmed
<1>7. CASE Spin
  BY <1>1, <1>7
     DEF Spin, CausesOK, StagesOK, CpuOK, Started, RlimitArmed,
         PollerArmed
<1>8. CASE Write
  BY <1>1, <1>8
     DEF Write, CausesOK, StagesOK, CpuOK, Started, RlimitArmed,
         PollerArmed
<1>9. CASE Exit
  BY <1>1, <1>9
     DEF Exit, CausesOK, StagesOK, CpuOK, Started, RlimitArmed,
         PollerArmed
<1>10. CASE LimitKill
  BY <1>1, <1>10
     DEF LimitKill, CausesOK, StagesOK, CpuOK, Started, RlimitArmed,
         PollerArmed
<1>11. CASE OOMKill
  BY <1>1, <1>11
     DEF OOMKill, CausesOK, StagesOK, CpuOK, Started, RlimitArmed,
         PollerArmed
<1>12. CASE NsjailExit
  BY <1>1, <1>12
     DEF NsjailExit, CausesOK, StagesOK, CpuOK, Started, RlimitArmed,
         PollerArmed
<1>13. CASE WallClock
  BY <1>1, <1>13
     DEF WallClock, CausesOK, StagesOK, CpuOK, Started, RlimitArmed,
         PollerArmed
<1>14. CASE Deadline
  BY <1>1, <1>14
     DEF Deadline, CausesOK, StagesOK, CpuOK, Started, RlimitArmed,
         PollerArmed
<1>15. CASE Cancel
  BY <1>1, <1>15
     DEF Cancel, CausesOK, StagesOK, CpuOK, Started, RlimitArmed,
         PollerArmed
<1>16. CASE ContextKill
  BY <1>1, <1>16
     DEF ContextKill, KillNsjail, CausesOK, StagesOK, CpuOK, Started,
         RlimitArmed, PollerArmed
<1>17. CASE UNCHANGED <<nsjail, isCPUKill, isOOMKill, oomInExec, execCpu, ctxErr, code,
                      wall, cgroup, unwritten, prog>>
  BY <1>1, <1>17
     DEF CausesOK, StagesOK, CpuOK, Started, RlimitArmed, PollerArmed
<1> QED
  BY <1>3, <1>4, <1>5, <1>6, <1>7, <1>8, <1>9, <1>10, <1>11,
     <1>12, <1>13, <1>14, <1>15, <1>16, <1>17
     DEF Next, vars, execJailStep, PollerStep, ProgramStep, ContextStep,
         Done, SkipCancelled, AppDirFails, StartFails, Read, Wait, CheckOOM, CheckCPU,
         Classify

\* An OOM kill that this exec may be charged with stays one.
LEMMA KillSeenKept ==
  ASSUME ExecInv, [Next]_vars, KillSeen, Started, Started'
  PROVE  KillSeen'
<1> USE DEF ctxVars, execVars, pollVars, progVars
<1>1. StagesOK /\ readFailed \in BOOLEAN /\ oomInExec \in BOOLEAN
  BY Types DEF ExecInv
<1>2. CASE Start \/ NextTest
  BY <1>1, <1>2 DEF Start, NextTest, StagesOK, Started
<1>3. CASE OOMKill
  BY <1>3 DEF OOMKill, KillSeen
<1>4. CASE NsjailExit
  BY <1>4 DEF NsjailExit, KillSeen, EarlierKill
<1>5. CASE UNCHANGED <<leaves, n, oomInExec, readFailed>>
  BY <1>5 DEF KillSeen, EarlierKill
<1>6. CASE Classify
  BY <1>6, FailureStays DEF Classify, KillSeen, EarlierKill
<1> QED
  BY <1>2, <1>3, <1>4, <1>5, <1>6
     DEF Next, vars, execJailStep, PollerStep, ProgramStep, ContextStep,
         Done, SkipCancelled, AppDirFails, StartFails, Read, Wait, CheckOOM,
         CheckCPU, PollOOM, PollCPU, Spin, Write, Exit, LimitKill,
         WallClock, Deadline, Cancel, ContextKill, KillNsjail

\* What execJail reads from the flags.
LEMMA OutcomeKept ==
  ASSUME ExecInv, [Next]_vars
  PROVE  OutcomeOK'
<1> USE DEF ctxVars, execVars, pollVars, progVars
<1>1. /\ OutcomeOK /\ StagesOK
      /\ isCPUKill \in BOOLEAN /\ isOOMKill \in BOOLEAN /\ oomInExec \in BOOLEAN
      /\ oomKilled \in BOOLEAN /\ cpuKilled \in BOOLEAN
      /\ nsjail \in {"none", "running", "exited", "killed"}
  BY Types DEF ExecInv, TypeOK
<1>2. ASSUME Started, cgroup # "none", NEW read \in ReadableLeaves,
             OOMKillsSince(read, oomBase)
      PROVE  KillSeen
  BY <1>2, SinceBaseline, SomeLeaves
<1>3. Started /\ Started' /\ KillSeen => KillSeen'
  BY KillSeenKept
<1>4. CASE Start \/ NextTest
  BY <1>1, <1>4 DEF Start, NextTest, OutcomeOK, StagesOK, Started
<1>5. CASE CheckOOM
  <2>1. /\ epc = "checkOOM" /\ epc' = "checkCPU" /\ Started /\ Started'
        /\ isOOMKill' = isOOMKill
    BY <1>1, <1>5 DEF CheckOOM, StagesOK, Started
  <2>2. oomKilled' => KillSeen
    BY <1>1, <1>2, <1>5, <2>1 DEF CheckOOM, OutcomeOK
  <2> QED
    BY <1>1, <1>3, <2>1, <2>2 DEF OutcomeOK
<1>6. CASE CheckCPU
  BY <1>1, <1>3, <1>6 DEF CheckCPU, OutcomeOK, StagesOK, Started
<1>7. CASE PollOOM
  <2>1. /\ ppc = "oom" /\ Started /\ Started' /\ cgroup # "none"
        /\ UNCHANGED <<epc, oomKilled, cpuKilled, isCPUKill>>
        /\ epc # "classify"
    BY <1>1, <1>7 DEF PollOOM, StagesOK, Started
  <2>2. isOOMKill' => KillSeen
    BY <1>1, <1>2, <1>7, <2>1 DEF PollOOM, OutcomeOK
  <2> QED
    BY <1>1, <1>3, <2>1, <2>2 DEF OutcomeOK
<1>8. CASE PollCPU
  <2>1. /\ ppc = "cpu" /\ Started /\ Started'
        /\ UNCHANGED <<epc, oomKilled, cpuKilled, isOOMKill>>
        /\ epc # "classify"
    BY <1>1, <1>8 DEF PollCPU, KillNsjail, StagesOK, Started
  <2> QED
    BY <1>1, <1>3, <2>1 DEF OutcomeOK
<1>9. CASE /\ UNCHANGED <<epc, oomKilled, isOOMKill, cpuKilled, isCPUKill>>
           /\ Started' <=> Started
  BY <1>1, <1>3, <1>9 DEF OutcomeOK, StagesOK, Started
<1>10. CASE /\ epc' \notin {"checkCPU", "classify"} /\ UNCHANGED isOOMKill
            /\ Started' => Started
  BY <1>1, <1>3, <1>10 DEF OutcomeOK, StagesOK, Started
<1> QED
  BY <1>4, <1>5, <1>6, <1>7, <1>8, <1>9, <1>10
     DEF Next, vars, execJailStep, PollerStep, ProgramStep, ContextStep,
         Done, SkipCancelled, AppDirFails, StartFails, Read, Wait, Classify,
         Spin, Write, Exit, LimitKill, OOMKill, NsjailExit, WallClock, Deadline,
         Cancel, ContextKill, KillNsjail, Started

\* The number of the exec.
LEMMA NextN ==
  ASSUME ExecInv, [Next]_vars
  PROVE  n' \in 1..Execs
<1> USE DEF ctxVars, execVars, pollVars, progVars
<1>1. n \in 1..Execs /\ Execs \in Nat
  BY ExecConstants DEF ExecInv, TypeOK
<1>2. CASE NextTest
  BY <1>1, <1>2 DEF NextTest
<1>3. CASE UNCHANGED n
  BY <1>1, <1>3
<1> QED
  BY <1>2, <1>3
     DEF Next, vars, execJailStep, PollerStep, ProgramStep, ContextStep,
         Done, SkipCancelled, AppDirFails, StartFails, Start, Read, Wait, CheckOOM,
         CheckCPU, Classify, PollOOM, PollCPU, Spin, Write, Exit,
         LimitKill, OOMKill, NsjailExit, WallClock, Deadline, Cancel,
         ContextKill, KillNsjail

\* The baseline of the OOM kills is at most one for each earlier exec.
LEMMA NextBase ==
  ASSUME ExecInv, [Next]_vars
  PROVE  oomBase' \in 0..Execs
<1> USE DEF ctxVars, execVars, pollVars, progVars
<1>1. oomBase \in 0..Execs /\ Execs \in Nat
  BY ExecConstants DEF ExecInv, TypeOK
<1>2. CASE Start
  <2>1. PICK read \in SUBSET DOMAIN leaves :
          oomBase' = IF cgroup = "none" THEN 0 ELSE OOMKills(read)
    BY <1>2, SomeLeaves DEF Start, oomBaseline
  <2>2. OOMKills(read) \in Nat /\ OOMKills(read) <= Execs
    <3>1. DOMAIN leaves \subseteq 1..Execs /\ \A e \in DOMAIN leaves : leaves[e] \in 0..1
      BY <1>1 DEF ExecInv, TypeOK
    <3> QED
      BY <1>1, <3>1, KillsOfSome
  <2> QED
    BY <1>1, <2>1, <2>2
<1>3. CASE UNCHANGED oomBase \/ oomBase' = 0
  BY <1>1, <1>3
<1> QED
  BY <1>2, <1>3
     DEF Next, vars, execJailStep, PollerStep, ProgramStep, ContextStep,
         Done, SkipCancelled, AppDirFails, StartFails, Read, Wait, CheckOOM, CheckCPU,
         Classify, NextTest, PollOOM, PollCPU, Spin, Write, Exit,
         LimitKill, OOMKill, NsjailExit, WallClock, Deadline, Cancel,
         ContextKill, KillNsjail

\* The places of execJail, of the poller, of the program and of nsjail.
LEMMA NextPlaces ==
  ASSUME ExecInv, [Next]_vars
  PROVE  /\ cgroup' \in Cgroups /\ ctxErr' \in {"nil", "Canceled", "DeadlineExceeded"}
         /\ epc' \in {"start", "read", "checkOOM", "checkCPU", "classify",
                      "next", "end"}
         /\ ppc' \in {"off", "oom", "cpu"} /\ prog' \in {"none", "running", "dead"}
         /\ nsjail' \in {"none", "running", "exited", "killed"}
<1> USE DEF ctxVars, execVars, pollVars, progVars
<1>1. TypeOK
  BY DEF ExecInv
<1>2. CASE SkipCancelled
  BY <1>1, <1>2 DEF SkipCancelled, TypeOK
<1>3. CASE AppDirFails \/ StartFails
  BY <1>1, <1>3 DEF AppDirFails, StartFails, TypeOK
<1>4. CASE Start
  BY <1>1, <1>4 DEF Start, TypeOK
<1>5. CASE Read
  BY <1>1, <1>5 DEF Read, TypeOK
<1>6. CASE Wait
  BY <1>1, <1>6 DEF Wait, TypeOK
<1>7. CASE CheckOOM
  BY <1>1, <1>7 DEF CheckOOM, TypeOK
<1>8. CASE CheckCPU
  BY <1>1, <1>8 DEF CheckCPU, TypeOK
<1>9. CASE Classify
  BY <1>1, <1>9 DEF Classify, TypeOK
<1>10. CASE NextTest
  BY <1>1, <1>10 DEF NextTest, TypeOK
<1>11. CASE PollOOM
  BY <1>1, <1>11 DEF PollOOM, TypeOK
<1>12. CASE PollCPU
  BY <1>1, <1>12 DEF PollCPU, KillNsjail, TypeOK
<1>13. CASE Spin
  BY <1>1, <1>13 DEF Spin, TypeOK
<1>14. CASE Write
  BY <1>1, <1>14 DEF Write, TypeOK
<1>15. CASE Exit
  BY <1>1, <1>15 DEF Exit, TypeOK
<1>16. CASE LimitKill
  BY <1>1, <1>16 DEF LimitKill, TypeOK
<1>17. CASE OOMKill
  BY <1>1, <1>17 DEF OOMKill, TypeOK
<1>18. CASE NsjailExit
  BY <1>1, <1>18 DEF NsjailExit, TypeOK
<1>19. CASE WallClock
  BY <1>1, <1>19 DEF WallClock, TypeOK
<1>20. CASE Deadline
  BY <1>1, <1>20 DEF Deadline, TypeOK
<1>21. CASE Cancel
  BY <1>1, <1>21 DEF Cancel, TypeOK
<1>22. CASE ContextKill
  BY <1>1, <1>22 DEF ContextKill, KillNsjail, TypeOK
<1>23. CASE UNCHANGED vars
  BY <1>1, <1>23 DEF vars, TypeOK
<1> QED
  BY <1>2, <1>3, <1>4, <1>5, <1>6, <1>7, <1>8, <1>9, <1>10, <1>11, <1>12,
     <1>13, <1>14, <1>15, <1>16, <1>17, <1>18, <1>19, <1>20, <1>21, <1>22,
     <1>23
     DEF Next, execJailStep, PollerStep, ProgramStep, ContextStep, Done

\* The flags.
LEMMA NextFlags ==
  ASSUME ExecInv, [Next]_vars
  PROVE  /\ baselineOK' \in BOOLEAN /\ oomKilled' \in BOOLEAN
         /\ cpuKilled' \in BOOLEAN /\ isOOMKill' \in BOOLEAN
         /\ isCPUKill' \in BOOLEAN /\ wall' \in BOOLEAN /\ oomInExec' \in BOOLEAN
         /\ readFailed' \in BOOLEAN
<1> USE DEF ctxVars, execVars, pollVars, progVars
<1>1. /\ baselineOK \in BOOLEAN /\ oomKilled \in BOOLEAN
      /\ cpuKilled \in BOOLEAN /\ isOOMKill \in BOOLEAN
      /\ isCPUKill \in BOOLEAN /\ wall \in BOOLEAN /\ oomInExec \in BOOLEAN
      /\ ReadsMayFail \in BOOLEAN /\ readFailed \in BOOLEAN
  BY Types, ExecConstants DEF ExecInv
<1>2. CASE Start
  BY <1>1, <1>2 DEF Start
<1>3. CASE CheckOOM
  BY <1>1, <1>3 DEF CheckOOM
<1>4. CASE CheckCPU
  BY <1>1, <1>4 DEF CheckCPU
<1>5. CASE NextTest
  BY <1>1, <1>5 DEF NextTest
<1>6. CASE PollOOM
  BY <1>1, <1>6 DEF PollOOM
<1>7. CASE PollCPU
  BY <1>1, <1>7 DEF PollCPU, KillNsjail
<1>8. CASE OOMKill
  BY <1>1, <1>8 DEF OOMKill
<1>9. CASE WallClock
  BY <1>1, <1>9 DEF WallClock
<1>10. CASE UNCHANGED <<baselineOK, oomKilled, cpuKilled, isOOMKill, isCPUKill, wall,
                      oomInExec, readFailed>>
  BY <1>1, <1>10
<1>11. CASE Classify
  BY <1>1, <1>11 DEF Classify
<1> QED
  BY <1>11, <1>2, <1>3, <1>4, <1>5, <1>6, <1>7, <1>8, <1>9, <1>10
     DEF Next, vars, execJailStep, PollerStep, ProgramStep, ContextStep,
         Done, SkipCancelled, AppDirFails, StartFails, Read, Wait, Spin,
         Write, Exit, LimitKill, NsjailExit, Deadline, Cancel,
         ContextKill, KillNsjail

\* The exit code and the counters of cpu time and output.
LEMMA NextCounters ==
  ASSUME ExecInv, [Next]_vars
  PROVE  /\ code' \in ExitCodes \union {137} /\ execCpu' \in 0..MaxCpu
         /\ unwritten' \in 0..MaxOutput /\ readBytes' \in 0..(OutputCap + 1)
         /\ written' - readBytes' \in 0..PipeSize
<1> USE DEF ctxVars, execVars, pollVars, progVars
<1>1. /\ code \in ExitCodes \union {137} /\ execCpu \in 0..MaxCpu
      /\ unwritten \in 0..MaxOutput /\ readBytes \in 0..(OutputCap + 1)
      /\ written - readBytes \in 0..PipeSize /\ written \in Nat
      /\ MaxCpu \in Nat /\ MaxOutput \in Nat /\ OutputCap \in Nat
      /\ PipeSize \in Nat /\ 0 \in ExitCodes
  BY ExecConstants DEF ExecInv, TypeOK, StagesOK
<1>2. CASE Start
  BY <1>1, <1>2 DEF Start
<1>3. CASE Read
  BY <1>1, <1>3 DEF Read
<1>4. CASE Spin
  BY <1>1, <1>4 DEF Spin
<1>5. CASE Write
  BY <1>1, <1>5 DEF Write
<1>6. CASE Exit
  BY <1>1, <1>6 DEF Exit
<1>7. CASE LimitKill
  BY <1>1, <1>7 DEF LimitKill
<1>8. CASE OOMKill
  BY <1>1, <1>8 DEF OOMKill
<1>9. CASE UNCHANGED <<code, execCpu, unwritten, readBytes, written>>
  BY <1>1, <1>9
<1>10. CASE NextTest
  BY <1>1, <1>10 DEF NextTest
<1> QED
  BY <1>2, <1>3, <1>4, <1>5, <1>6, <1>7, <1>8, <1>9, <1>10
     DEF Next, vars, execJailStep, PollerStep, ProgramStep, ContextStep,
         Done, SkipCancelled, AppDirFails, StartFails, Wait, CheckOOM, CheckCPU,
         Classify, PollOOM, PollCPU, NsjailExit, WallClock,
         Deadline, Cancel, ContextKill, KillNsjail

\* The statuses.
LEMMA NextStatus ==
  ASSUME ExecInv, [Next]_vars
  PROVE  status' \in [1..Execs -> Statuses]
<1> USE DEF ctxVars, execVars, pollVars, progVars
<1>1. status \in [1..Execs -> Statuses] /\ n \in 1..Execs
  BY DEF ExecInv, TypeOK
<1>2. CASE SkipCancelled
  BY <1>1, <1>2 DEF SkipCancelled, Statuses
<1>3. CASE AppDirFails \/ StartFails
  <2>1. ctxErr \in {"nil", "Canceled", "DeadlineExceeded"}
    BY DEF ExecInv, TypeOK
  <2> QED
    BY <1>1, <1>3, <2>1 DEF AppDirFails, StartFails, Statuses
<1>4. CASE Classify
  BY <1>1, <1>4 DEF Classify, computeTestStatus, Statuses
<1>5. CASE UNCHANGED status
  BY <1>1, <1>5 DEF Statuses
<1> QED
  BY <1>2, <1>3, <1>4, <1>5
     DEF Next, vars, execJailStep, PollerStep, ProgramStep, ContextStep,
         Done, Start, Read, Wait, CheckOOM, CheckCPU, NextTest, PollOOM,
         PollCPU, Spin, Write, Exit, LimitKill, OOMKill, NsjailExit,
         WallClock, Deadline, Cancel, ContextKill, KillNsjail

\* The types; the bounds of the counters come from the other conjuncts.
LEMMA TypesKept ==
  ASSUME ExecInv, [Next]_vars
  PROVE  TypeOK'
<1> USE DEF ctxVars, execVars, pollVars, progVars
<1>1. /\ TypeOK /\ StagesOK /\ LeavesOK' /\ CpuOK' /\ cpuUsage' \in Nat
      /\ cpuBase' \in 0..cpuUsage'
  BY LeavesKept, CpuKept DEF ExecInv
<1>2. n' \in 1..Execs /\ n' \in Nat
  BY <1>1, Types, ExecConstants, NextN
<1>3. cpuUsage' \in 0..(Execs * MaxCpu)
  <2>1. /\ n' * MaxCpu \in Nat /\ n' * MaxCpu <= Execs * MaxCpu
        /\ (n' - 1) * MaxCpu <= n' * MaxCpu /\ (n' - 1) * MaxCpu \in Nat
        /\ Execs * MaxCpu \in Nat
    <3> DEFINE k == n'
    <3>0. Execs \in Nat /\ MaxCpu \in Nat /\ k \in 1..Execs
      BY <1>2, ExecConstants
    <3> HIDE DEF k
    <3>1. k \in Nat /\ k - 1 \in Nat /\ k - 1 <= k /\ k <= Execs /\ Execs <= Execs
      BY <3>0
    <3>2. k * MaxCpu \in Nat /\ k * MaxCpu <= Execs * MaxCpu
      BY <3>0, <3>1, Products
    <3>3. (k - 1) * MaxCpu \in Nat /\ (k - 1) * MaxCpu <= k * MaxCpu
      BY <3>0, <3>1, Products
    <3>4. Execs * MaxCpu \in Nat
      BY <3>0, <3>1, Products
    <3> QED
      BY <3>2, <3>3, <3>4 DEF k
  <2> QED
    BY <1>1, <2>1 DEF CpuOK
<1>4. DOMAIN leaves' \subseteq 1..n' /\ \A e \in DOMAIN leaves' : leaves'[e] \in 0..1
  BY <1>1 DEF LeavesOK
<1>5. oomBase' \in 0..Execs
  BY NextBase
<1>6. /\ cgroup' \in Cgroups /\ ctxErr' \in {"nil", "Canceled", "DeadlineExceeded"}
      /\ epc' \in {"start", "read", "checkOOM", "checkCPU", "classify", "next", "end"}
      /\ ppc' \in {"off", "oom", "cpu"} /\ prog' \in {"none", "running", "dead"}
      /\ nsjail' \in {"none", "running", "exited", "killed"}
  BY NextPlaces
<1>7. {baselineOK, oomKilled, cpuKilled, isOOMKill, isCPUKill, wall,
       oomInExec, readFailed}' \subseteq BOOLEAN
  BY NextFlags
<1>8. /\ code' \in ExitCodes \union {137} /\ execCpu' \in 0..MaxCpu
      /\ unwritten' \in 0..MaxOutput /\ readBytes' \in 0..(OutputCap + 1)
      /\ written' - readBytes' \in 0..PipeSize
  BY NextCounters
<1>9. status' \in [1..Execs -> Statuses]
  BY NextStatus
<1> QED
  BY <1>1, <1>2, <1>3, <1>4, <1>5, <1>6, <1>7, <1>8, <1>9 DEF TypeOK

\* The verdict: every branch of computeTestStatus is earned.
LEMMA VerdictKept ==
  ASSUME ExecInv, [Next]_vars
  PROVE  VerdictTruthful'
<1> USE DEF ctxVars, execVars, pollVars, progVars
<1>1. /\ StagesOK /\ CausesOK /\ OutcomeOK /\ CpuOK
      /\ VerdictTruthful /\ readFailed \in BOOLEAN /\ ReadsMayFail \in BOOLEAN
      /\ isCPUKill \in BOOLEAN /\ isOOMKill \in BOOLEAN /\ oomInExec \in BOOLEAN
      /\ oomKilled \in BOOLEAN /\ cpuKilled \in BOOLEAN /\ wall \in BOOLEAN
      /\ code \in ExitCodes \union {137} /\ code \in Nat
      /\ execCpu \in Nat /\ CpuLimit \in Nat /\ baselineOK \in BOOLEAN
      /\ n \in 1..Execs /\ status \in [1..Execs -> Statuses]
      /\ ctxErr \in {"nil", "Canceled", "DeadlineExceeded"}
  BY Types, ExecConstants DEF ExecInv, TypeOK
<1>2. CASE SkipCancelled \/ StartFails
  <2>1. /\ epc' = "next" /\ status'[n'] \in {"cancelled", "internal_error"}
        /\ nsjail' = "none"
    <3>1. epc = "start" /\ n' = n /\ nsjail' = nsjail /\ epc' = "next"
      BY <1>2 DEF SkipCancelled, StartFails
    <3>2. \/ status' = [status EXCEPT ![n] = "cancelled"]
          \/ status' = [status EXCEPT ![n] = "internal_error"]
      BY <1>2 DEF SkipCancelled, StartFails
    <3>3. status'[n] \in {"cancelled", "internal_error"}
      <4>1. n \in 1..Execs /\ status \in [1..Execs -> Statuses]
        BY <1>1
      <4> QED
        BY <3>2, <4>1
    <3>4. nsjail = "none"
      BY <1>1, <3>1 DEF StagesOK, Started
    <3> QED
      BY <3>1, <3>3, <3>4
  <2> QED
    BY <2>1 DEF VerdictTruthful
<1>11. CASE AppDirFails
  <2>1. /\ epc = "start" /\ n' = n /\ nsjail' = nsjail /\ wall' = wall
        /\ status' = [status EXCEPT ![n] =
                        CASE ctxErr = "Canceled" -> "cancelled"
                          [] ctxErr = "DeadlineExceeded" -> "time_exceeded"
                          [] ctxErr = "nil" -> "runtime_error"]
    BY <1>11 DEF AppDirFails
  <2>2. nsjail = "none" /\ (ctxErr = "DeadlineExceeded" => wall)
    BY <1>1, <2>1 DEF StagesOK, Started
  <2>3. \/ status'[n'] = "cancelled"
        \/ status'[n'] = "time_exceeded" /\ wall'
        \/ status'[n'] = "runtime_error" /\ nsjail' = "none"
    BY <1>1, <2>1, <2>2
  <2> QED
    BY <2>3 DEF VerdictTruthful
<1>3. CASE Classify
  <2>1. PICK readable \in {TRUE, ~ReadsMayFail} :
          /\ readFailed' = (readFailed \/ ~readable)
          /\ \E t \in cpuTimes(readable) :
               status' = [status EXCEPT ![n] = computeTestStatus(t)]
    BY <1>3 DEF Classify
  <2>2. PICK t \in cpuTimes(readable) :
          status' = [status EXCEPT ![n] = computeTestStatus(t)]
    BY <2>1
  <2>3. /\ nsjail \in {"exited", "killed"} /\ prog = "dead" /\ Started
        /\ UNCHANGED <<n, ctxErr, wall, nsjail, code, oomInExec, execCpu, cgroup,
                       unwritten, leaves>>
        /\ epc = "classify"
    BY <1>1, <1>3 DEF Classify, StagesOK, Started
  <2>4. status'[n'] = computeTestStatus(t)
    BY <1>1, <2>2, <2>3
  <2>5. readable \in BOOLEAN /\ (readFailed => readFailed') /\ (~readable => readFailed')
    BY <1>1, <2>1
  <2>6. /\ t \in Nat /\ (t >= execCpu \/ readFailed')
        /\ (cgroup = "cpu" /\ ~readFailed' => t = execCpu)
    <3>1. cpuUsage \in Nat /\ cpuBase \in Nat /\ cpuBase <= cpuUsage
      BY Types DEF ExecInv
    <3>2. CASE cgroup = "cpu" /\ baselineOK /\ readable
      <4>1. cpuUsage - cpuBase = execCpu /\ t = cpuUsage - cpuBase
        BY <1>1, <2>2, <2>3, <3>1, <3>2 DEF cpuTimes, CpuOK
      <4> QED
        BY <1>1, <4>1
    <3>3. CASE ~(cgroup = "cpu" /\ baselineOK /\ readable)
      <4>1. t \in execCpu..(execCpu + CpuLimit) \/ (t = 0 /\ ~readable)
        BY <2>2, <3>3 DEF cpuTimes
      <4>2. cgroup = "cpu" => readFailed'
        BY <1>1, <2>3, <2>5, <3>3 DEF CpuOK
      <4> QED
        BY <1>1, <2>5, <4>1, <4>2
    <3> QED
      BY <3>2, <3>3
  <2>7. /\ oomKilled => oomInExec \/ (readFailed' /\ EarlierKill')
        /\ cpuKilled => CpuLimit > 0 /\ execCpu >= CpuLimit
        /\ nsjail = "killed" => ctxErr # "nil" \/ cpuKilled
        /\ ctxErr = "DeadlineExceeded" => wall
    <3>1. oomKilled => oomInExec \/ (readFailed /\ EarlierKill)
      BY <1>1, <2>3 DEF OutcomeOK, KillSeen
    <3>2. EarlierKill' <=> EarlierKill
      BY <2>3 DEF EarlierKill
    <3> QED
      BY <1>1, <2>3, <2>5, <3>1, <3>2 DEF OutcomeOK, CausesOK, StagesOK
  <2>8. /\ code = 137 => \/ wall \/ 137 \in ExitCodes \/ oomInExec
                         \/ CpuLimit > 0 /\ cgroup # "cpu" /\ execCpu >= CpuLimit
        /\ nsjail # "killed" => code = 137 \/ unwritten = 0
    BY <1>1, <2>3 DEF CausesOK, RlimitArmed
  <2> DEFINE v == computeTestStatus(t)
             kill == readFailed' /\ EarlierKill'
             failed == readFailed'
  <2>9. failed \in BOOLEAN /\ (t >= execCpu \/ failed)
        /\ (cgroup = "cpu" /\ ~failed => t = execCpu)
        /\ (oomKilled => oomInExec \/ kill)
    BY <1>1, <2>1, <2>5, <2>6, <2>7
  <2> HIDE DEF kill, failed
  <2>10. v = "memory_exceeded" => oomInExec \/ kill
    BY <2>9 DEF computeTestStatus
  <2>11. v = "cpu_time_exceeded" =>
          \/ CpuLimit > 0 /\ execCpu >= CpuLimit
          \/ nsjail = "exited" /\ code = 152
          \/ nsjail = "exited" /\ code = 137 /\ (cgroup # "cpu" \/ failed)
    BY <1>1, <2>3, <2>6, <2>7, <2>9 DEF computeTestStatus
  <2>12. v = "time_exceeded" =>
          \/ wall
          \/ nsjail = "exited" /\ code = 137 /\ (137 \in ExitCodes \/ oomInExec \/ failed)
    BY <1>1, <2>3, <2>6, <2>7, <2>8, <2>9 DEF computeTestStatus
  <2>13. v = "runtime_error" => nsjail = "exited" /\ code \in ExitCodes \ {0, 137}
    BY <1>1, <2>3 DEF computeTestStatus
  <2>14. v = "accepted" => nsjail = "exited" /\ code = 0 /\ unwritten = 0
    BY <1>1, <2>3, <2>8 DEF computeTestStatus
  <2> HIDE DEF v
  <2>15. status'[n'] = v
    BY <2>4 DEF v
  <2> QED
    BY <2>3, <2>10, <2>11, <2>12, <2>13, <2>14, <2>15
       DEF VerdictTruthful, kill, failed
<1>4. CASE /\ epc = "next"
           /\ UNCHANGED <<epc, n, status, oomInExec, execCpu, nsjail, code, cgroup,
                          wall, unwritten, leaves, readFailed>>
  BY <1>1, <1>4 DEF VerdictTruthful, EarlierKill
<1>5. CASE epc' # "next"
  BY <1>5 DEF VerdictTruthful
<1>6. CASE execJailStep
  BY <1>1, <1>2, <1>3, <1>5, <1>6, <1>11
     DEF execJailStep, Start, Read, Wait, CheckOOM, CheckCPU, NextTest
<1>7. CASE PollerStep
  BY <1>1, <1>5, <1>7 DEF PollerStep, PollOOM, PollCPU, StagesOK
<1>8. CASE ProgramStep
  <2>1. epc' = epc /\ (prog = "running" \/ nsjail = "running")
    BY <1>8 DEF ProgramStep, Spin, Write, Exit, LimitKill, OOMKill, NsjailExit
  <2>2. nsjail \in {"none", "running", "exited", "killed"}
    BY DEF ExecInv, TypeOK
  <2>3. StagesOK
    BY <1>1
  <2>4. epc # "next"
    BY <2>1, <2>2, <2>3 DEF StagesOK
  <2> QED
    BY <1>5, <2>1, <2>4
<1>9. CASE ContextStep
  BY <1>1, <1>4, <1>5, <1>9
     DEF ContextStep, WallClock, Deadline, Cancel, ContextKill
<1>10. CASE UNCHANGED vars
  BY <1>1, <1>4, <1>5, <1>10 DEF vars
<1> QED
  BY <1>6, <1>7, <1>8, <1>9, <1>10 DEF Next, Done

\* Before the first exec.
LEMMA InitExecInv == Init => ExecInv
<1> SUFFICES ASSUME Init PROVE ExecInv
  OBVIOUS
<1> USE DEF Init
<1>1. Execs \in Nat /\ Execs >= 1 /\ MaxCpu \in Nat
  BY ExecConstants
<1>2. 0 * MaxCpu = 0 /\ Execs * MaxCpu \in Nat /\ (1 - 1) * MaxCpu = 0
  BY <1>1, Products
<1>3. TypeOK
  <2>1. /\ {baselineOK, oomKilled, cpuKilled, isOOMKill, isCPUKill, wall,
            oomInExec, readFailed} \subseteq BOOLEAN
    BY Zenon
  <2>2. /\ cpuUsage \in 0..(Execs * MaxCpu) /\ cpuBase \in 0..cpuUsage
        /\ n \in 1..Execs
    BY <1>1, <1>2
  <2> QED
    BY <1>1, <2>1, <2>2, ExecConstants DEF TypeOK, Statuses
<1>4. StagesOK /\ LeavesOK /\ CausesOK /\ OutcomeOK
  BY DEF StagesOK, LeavesOK, CausesOK, OutcomeOK, Started
<1>5. CpuOK
  BY <1>1, <1>2 DEF CpuOK, Started
<1>6. VerdictTruthful
  BY DEF VerdictTruthful
<1> QED
  BY <1>3, <1>4, <1>5, <1>6 DEF ExecInv

------------------------------------------------------------------------------
(* The theorems *)

(* The inductive invariant: what the flags, the counters and the exit code   *)
(* say of the exec at hand.                                                  *)
THEOREM ExecCorrect == Spec => []ExecInv
<1>1. ExecInv /\ [Next]_vars => ExecInv'
  BY TypesKept, StagesKept, LeavesKept, CpuKept, CausesKept, OutcomeKept,
     VerdictKept DEF ExecInv
<1> QED
  BY <1>1, InitExecInv, PTL DEF Spec

(* The types of every reachable state; the pipe holds at most PipeSize units *)
(* and readCapped takes at most one more than the cap.                       *)
THEOREM ExecTypes == Spec => []TypeOK
<1>1. ExecInv => TypeOK
  BY DEF ExecInv
<1> QED
  BY <1>1, ExecCorrect, PTL

(* Whatever the poller, the kernel and the context race to do, and whatever  *)
(* earlier execs left in the jail, a verdict of runSingleTest is one that    *)
(* this exec deserves, and a counter that could not be read misleads it only *)
(* in the ways VerdictTruthful names.                                        *)
THEOREM VerdictsAreTruthful == Spec => []VerdictTruthful
<1>1. ExecInv => VerdictTruthful
  BY DEF ExecInv
<1> QED
  BY <1>1, ExecCorrect, PTL

\* Where no read can fail, none has failed.
LEMMA NoFailureKept ==
  ASSUME ~ReadsMayFail, ~readFailed, [Next]_vars
  PROVE  ~readFailed'
<1> USE DEF ctxVars, execVars, pollVars, progVars
<1>1. CASE Start
  <2>1. baselineOK' \in IF cgroup = "cpu" THEN {TRUE} ELSE {FALSE}
    BY <1>1 DEF Start
  <2>2. PICK read \in ReadableLeaves :
          readFailed' = (read # DOMAIN leaves \/ (cgroup = "cpu" /\ ~baselineOK'))
    BY <1>1 DEF Start
  <2>3. read = DOMAIN leaves /\ (cgroup = "cpu" => baselineOK')
    BY <2>1, <2>2 DEF ReadableLeaves
  <2> QED
    BY <2>2, <2>3, Zenon
<1>2. CASE Classify
  BY <1>2, Zenon DEF Classify
<1>3. CASE NextTest
  BY <1>3 DEF NextTest
<1>4. CASE UNCHANGED readFailed
  BY <1>4
<1> QED
  BY <1>1, <1>2, <1>3, <1>4
     DEF Next, vars, execJailStep, PollerStep, ProgramStep, ContextStep,
         Done, SkipCancelled, AppDirFails, StartFails, Read, Wait, CheckOOM,
         CheckCPU, PollOOM, PollCPU, Spin, Write, Exit, LimitKill, OOMKill,
         NsjailExit, WallClock, Deadline, Cancel, ContextKill, KillNsjail

(* Where the counters can always be read, a kill in a leaf that an earlier   *)
(* exec left is never counted against this one: the baselines of execJail    *)
(* suffice, and a failed read is the only way round them.                    *)
THEOREM OwnKillsCountIfRead == Spec => [](ReadsMayFail \/ OnlyOwnKillsCount)
<1> DEFINE Clean == ReadsMayFail \/ ~readFailed
<1>1. Init => Clean
  BY DEF Init
<1>2. Clean /\ [Next]_vars => Clean'
  BY NoFailureKept
<1>3. ExecInv /\ Clean => ReadsMayFail \/ OnlyOwnKillsCount
  BY DEF ExecInv, VerdictTruthful, OnlyOwnKillsCount
<1> HIDE DEF Clean
<1> QED
  BY <1>1, <1>2, <1>3, ExecCorrect, PTL DEF Spec
=============================================================================
