---------------------------- MODULE MetricsProofs ----------------------------
(***************************************************************************)
(* What /metrics shows, for any number of runs, statuses and snapshots.    *)
(*                                                                         *)
(* Each counter counts the runs that have passed one point of recordRun,   *)
(* so that the order of those points orders the counters.  A snapshot is a *)
(* copy of counters at different times; it lies between the last one shown *)
(* and the counters themselves, part by part, and the total, which is      *)
(* counted first and read last, is never behind what was copied before it. *)
(***************************************************************************)
EXTENDS Metrics, FiniteSetTheorems, TLAPS

------------------------------------------------------------------------------
(* The inductive invariant *)

Arguments == [status : RunStatuses \union {"none"}, ms : Nat, isError : BOOLEAN]
Snapshots == [total_runs : Nat, error_count : Nat,
              status_counts : [RunStatuses -> Nat],
              latency_histogram_ms : [Buckets -> Nat]]

RecordTypes ==
  /\ recpc \in [Runs -> {"idle", "total", "errors", "status", "latency",
                         "recorded"}]
  /\ rec \in [Runs -> Arguments]
  /\ \A r \in Runs : recpc[r] # "idle" => rec[r].status \in RunStatuses

CounterTypes ==
  /\ TotalRuns \in Nat /\ Errors \in Nat
  /\ Statuses \in [RunStatuses -> Nat] /\ Latency \in [Buckets -> Nat]

SnapTypes ==
  /\ snappc \in {"statuses", "latency", "total", "errors"}
  /\ statuses \in [RunStatuses -> Nat] /\ latency \in [Buckets -> Nat]
  /\ total \in Nat /\ shown \in Snapshots

\* The runs that have passed each point of recordRun.
Counted == {r \in Runs : recpc[r] \in {"errors", "status", "latency", "recorded"}}
Erred == {r \in Runs : /\ recpc[r] \in {"status", "latency", "recorded"}
                       /\ rec[r].isError}
ByStatus == {r \in Runs : recpc[r] \in {"latency", "recorded"}}
ByLatency == {r \in Runs : recpc[r] = "recorded"}

\* What some counts count, so that Total(counts) is its cardinality.
Units(counts) == UNION {{k} \X (1..counts[k]) : k \in DOMAIN counts}

\* The counters are exact.
CountersExact ==
  /\ TotalRuns = Cardinality(Counted) /\ Errors = Cardinality(Erred)
  /\ IsFiniteSet(Units(Statuses)) /\ Total(Statuses) = Cardinality(ByStatus)
  /\ IsFiniteSet(Units(Latency)) /\ Total(Latency) = Cardinality(ByLatency)

\* f is nowhere above g.
Below(f, g, S) == \A k \in S : f[k] <= g[k]

\* A snapshot under way lies between the last one and the counters.
Between ==
  /\ shown.total_runs <= TotalRuns /\ shown.error_count <= Errors
  /\ Below(shown.status_counts, Statuses, RunStatuses)
  /\ Below(shown.latency_histogram_ms, Latency, Buckets)
  /\ snappc # "statuses" => /\ Below(shown.status_counts, statuses, RunStatuses)
                            /\ Below(statuses, Statuses, RunStatuses)
  /\ snappc \in {"total", "errors"} =>
       /\ Below(shown.latency_histogram_ms, latency, Buckets)
       /\ Below(latency, Latency, Buckets)
  /\ snappc = "errors" => shown.total_runs <= total /\ total <= TotalRuns

\* The total is not behind what was copied.
TotalAhead ==
  /\ Total(statuses) \in Nat /\ Total(latency) \in Nat
  /\ snappc \in {"latency", "total"} => Total(statuses) <= TotalRuns
  /\ snappc = "total" => Total(latency) <= TotalRuns
  /\ snappc = "errors" => Total(statuses) <= total /\ Total(latency) <= total
  /\ SnapshotNeverOvercounts

MetricsInv == /\ RecordTypes /\ CounterTypes /\ SnapTypes
              /\ CountersExact /\ Between /\ TotalAhead

------------------------------------------------------------------------------
(* Sums and buckets *)

\* Counting one more adds one to the sum.
LEMMA OneMore ==
  ASSUME NEW S, NEW f \in [S -> Nat], NEW g \in [S -> Nat], NEW k \in S,
         g[k] = f[k] + 1, \A j \in S \ {k} : g[j] = f[j],
         IsFiniteSet(Units(f))
  PROVE  /\ IsFiniteSet(Units(g))
         /\ Total(f) \in Nat /\ Total(g) = Total(f) + 1
<1> DEFINE new == <<k, f[k] + 1>>
<1>1. ASSUME NEW u PROVE u \in Units(g) <=> u \in Units(f) \union {new}
  <2>1. \A h \in [S -> Nat] :
          u \in Units(h) <=> \E j \in S : u \in {j} \X (1..h[j])
    BY DEF Units
  <2>2. \A h \in [S -> Nat] : u \in Units(h) <=>
          \E j \in S : \E i \in 1..h[j] : u = <<j, i>>
    BY <2>1
  <2>3. ASSUME u \in Units(g) PROVE u \in Units(f) \union {new}
    <3>0. PICK j \in S : \E i \in 1..g[j] : u = <<j, i>>
      BY <2>2, <2>3
    <3>1. PICK i \in 1..g[j] : u = <<j, i>>
      BY <3>0
    <3>2. CASE j = k /\ i = f[k] + 1
      BY <3>1, <3>2
    <3>3. CASE ~(j = k /\ i = f[k] + 1)
      <4>1. f[j] \in Nat /\ f[k] \in Nat
        OBVIOUS
      <4>2. i \in 1..f[j]
        BY <3>1, <3>3, <4>1
      <4> QED
        BY <2>2, <3>1, <4>2
    <3> QED
      BY <3>2, <3>3
  <2>4. ASSUME u \in Units(f) PROVE u \in Units(g)
    <3>0. PICK j \in S : \E i \in 1..f[j] : u = <<j, i>>
      BY <2>2, <2>4
    <3>1. PICK i \in 1..f[j] : u = <<j, i>>
      BY <3>0
    <3>2. f[j] \in Nat /\ f[k] \in Nat /\ (g[j] = f[j] \/ g[j] = f[j] + 1)
      OBVIOUS
    <3>3. i \in 1..g[j]
      BY <3>1, <3>2
    <3> QED
      BY <2>2, <3>1, <3>3
  <2>5. ASSUME u = new PROVE u \in Units(g)
    <3>1. f[k] + 1 \in 1..g[k]
      <4>1. f[k] \in Nat
        OBVIOUS
      <4> QED
        BY <4>1
    <3> QED
      BY <2>2, <2>5, <3>1
  <2> QED
    BY <2>3, <2>4, <2>5
<1>2. new \notin Units(f)
  <2> SUFFICES ASSUME NEW j \in S, NEW i \in 1..f[j], new = <<j, i>> PROVE FALSE
    BY DEF Units
  <2>1. j = k /\ i = f[k] + 1 /\ f[k] \in Nat
    OBVIOUS
  <2> QED
    BY <2>1
<1>3. Units(g) = Units(f) \union {new}
  BY <1>1
<1> HIDE DEF new
<1>4. /\ IsFiniteSet(Units(f) \union {new})
      /\ Cardinality(Units(f) \union {new}) = Cardinality(Units(f)) + 1
  BY <1>2, FS_AddElement
<1>5. Cardinality(Units(f)) \in Nat
  BY FS_CardinalityType
<1> QED
  BY <1>3, <1>4, <1>5 DEF Total, Units

\* A run's duration is in one bucket.
LEMMA OneBucket ==
  ASSUME NEW ms \in Nat
  PROVE  \E c \in Buckets : bucket(ms) = {c}
<1>1. CASE \E b \in latencyBucketsMs : ms <= b
  <2> DEFINE B == {b \in latencyBucketsMs : ms <= b}
  <2>1. \E b \in B : \A c \in B : b =< c
    <3> USE DEF latencyBucketsMs
    <3>1. CASE ms <= 50
      BY <3>1
    <3>2. CASE 50 < ms /\ ms <= 100
      BY <3>2
    <3>3. CASE 100 < ms /\ ms <= 250
      BY <3>3
    <3>4. CASE 250 < ms /\ ms <= 500
      BY <3>4
    <3>5. CASE 500 < ms /\ ms <= 1000
      BY <3>5
    <3>6. CASE 1000 < ms /\ ms <= 2000
      BY <3>6
    <3>7. CASE 2000 < ms /\ ms <= 5000
      BY <3>7
    <3>8. ms <= 5000
      BY <1>1
    <3> QED
      BY <3>1, <3>2, <3>3, <3>4, <3>5, <3>6, <3>7, <3>8
  <2>2. Min(B) \in B
    BY <2>1 DEF Min
  <2> QED
    BY <1>1, <2>2 DEF bucket, Buckets
<1>2. CASE ~\E b \in latencyBucketsMs : ms <= b
  BY <1>2 DEF bucket, Buckets
<1> QED
  BY <1>1, <1>2

\* The sets of runs are finite, and each includes the next.
LEMMA PointsInOrder ==
  /\ IsFiniteSet(Counted) /\ IsFiniteSet(Erred) /\ IsFiniteSet(ByStatus)
  /\ IsFiniteSet(ByLatency)
  /\ Cardinality(Counted) \in Nat /\ Cardinality(Erred) \in Nat
  /\ Cardinality(ByStatus) \in Nat /\ Cardinality(ByLatency) \in Nat
  /\ Cardinality(Erred) <= Cardinality(Counted)
  /\ Cardinality(ByStatus) <= Cardinality(Counted)
  /\ Cardinality(ByLatency) <= Cardinality(Counted)
<1>1. IsFiniteSet(Runs)
  BY MetricsAssumption DEF MetricsAssumption
<1>2. IsFiniteSet(Counted)
  BY <1>1, FS_Subset DEF Counted
<1>3. Erred \subseteq Counted /\ ByStatus \subseteq Counted /\ ByLatency \subseteq Counted
  BY DEF Erred, ByStatus, ByLatency, Counted
<1> QED
  BY <1>2, <1>3, FS_Subset, FS_CardinalityType


------------------------------------------------------------------------------
(* recordRun *)

\* Snapshot records nothing.
LEMMA SnapshotOnlyReads ==
  ASSUME Snapshot \/ UNCHANGED vars
  PROVE  UNCHANGED <<TotalRuns, Errors, Statuses, Latency, recpc, rec>>
BY DEF Snapshot, CopyStatuses, CopyLatency, LoadTotal, LoadErrors, vars, counters

LEMMA RecordTypesKept ==
  ASSUME RecordTypes, CounterTypes, [Next]_vars
  PROVE  RecordTypes' /\ CounterTypes'
<1> USE DEF RecordTypes, CounterTypes
<1>1. Durations \subseteq Nat
  BY MetricsAssumption DEF MetricsAssumption
<1>2. ASSUME NEW r \in Runs, Call(r) PROVE RecordTypes' /\ CounterTypes'
  <2>1. PICK st \in RunStatuses, ms \in Durations, isError \in BOOLEAN :
          rec' = [rec EXCEPT ![r] =
                    [status |-> st, ms |-> ms, isError |-> isError]]
    BY <1>2 DEF Call
  <2> DEFINE a == [status |-> st, ms |-> ms, isError |-> isError]
  <2>2. a \in Arguments /\ a.status \in RunStatuses
    BY <1>1 DEF Arguments
  <2>3. rec' = [rec EXCEPT ![r] = a]
    BY <2>1
  <2> HIDE DEF a
  <2>4. rec' \in [Runs -> Arguments]
    BY <2>2, <2>3
  <2>5. recpc' = [recpc EXCEPT ![r] = "total"] /\ UNCHANGED counters
    BY <1>2 DEF Call, RecGoto
  <2>6. \A q \in Runs : recpc'[q] # "idle" => rec'[q].status \in RunStatuses
    BY <2>2, <2>3, <2>5
  <2> QED
    BY <2>4, <2>5, <2>6 DEF counters
<1>3. ASSUME NEW r \in Runs, AddTotal(r) PROVE RecordTypes' /\ CounterTypes'
  BY <1>3 DEF AddTotal, RecGoto
<1>4. ASSUME NEW r \in Runs, AddError(r) PROVE RecordTypes' /\ CounterTypes'
  <2>1. Errors' \in Nat
    BY <1>4 DEF AddError
  <2> QED
    BY <1>4, <2>1 DEF AddError, RecGoto
<1>5. ASSUME NEW r \in Runs, AddStatus(r) PROVE RecordTypes' /\ CounterTypes'
  <2>1. rec[r].status \in RunStatuses
    BY <1>5 DEF AddStatus, RecGoto
  <2>2. Statuses' \in [RunStatuses -> Nat]
    BY <1>5, <2>1 DEF AddStatus
  <2> QED
    BY <1>5, <2>2 DEF AddStatus, RecGoto
<1>6. ASSUME NEW r \in Runs, AddLatency(r) PROVE RecordTypes' /\ CounterTypes'
  <2>1. Latency' \in [Buckets -> Nat]
    BY <1>6 DEF AddLatency
  <2> QED
    BY <1>6, <2>1 DEF AddLatency, RecGoto
<1>7. CASE Snapshot \/ UNCHANGED vars
  BY <1>7, SnapshotOnlyReads
<1> QED
  BY <1>2, <1>3, <1>4, <1>5, <1>6, <1>7 DEF Next, recordRun

LEMMA CountersKept ==
  ASSUME RecordTypes, CounterTypes, CountersExact, [Next]_vars
  PROVE  CountersExact'
<1>1. /\ IsFiniteSet(Counted) /\ IsFiniteSet(Erred) /\ IsFiniteSet(ByStatus)
      /\ IsFiniteSet(ByLatency)
  BY PointsInOrder
<1>2. /\ TotalRuns = Cardinality(Counted) /\ Errors = Cardinality(Erred)
      /\ IsFiniteSet(Units(Statuses)) /\ Total(Statuses) = Cardinality(ByStatus)
      /\ IsFiniteSet(Units(Latency)) /\ Total(Latency) = Cardinality(ByLatency)
  BY DEF CountersExact
<1>3. /\ recpc \in [Runs -> {"idle", "total", "errors", "status", "latency",
                             "recorded"}]
      /\ rec \in [Runs -> Arguments]
      /\ Statuses \in [RunStatuses -> Nat] /\ Latency \in [Buckets -> Nat]
  BY DEF RecordTypes, CounterTypes
<1>4. ASSUME NEW r \in Runs, Call(r) PROVE CountersExact'
  <2>1. /\ recpc[r] = "idle" /\ recpc'[r] = "total"
        /\ \A q \in Runs \ {r} : recpc'[q] = recpc[q] /\ rec'[q] = rec[q]
        /\ UNCHANGED <<TotalRuns, Errors, Statuses, Latency>>
    BY <1>3, <1>4 DEF Call, RecGoto, counters
  <2>2. /\ Counted' = Counted /\ ByStatus' = ByStatus /\ ByLatency' = ByLatency
        /\ Erred' = Erred
    BY <2>1 DEF Counted, ByStatus, ByLatency, Erred
  <2> QED
    BY <1>2, <2>1, <2>2 DEF CountersExact
<1>5. ASSUME NEW r \in Runs, AddTotal(r) PROVE CountersExact'
  <2>1. /\ recpc[r] = "total" /\ recpc'[r] = "errors"
        /\ \A q \in Runs \ {r} : recpc'[q] = recpc[q]
        /\ UNCHANGED <<Errors, Statuses, Latency, rec>>
        /\ TotalRuns' = TotalRuns + 1
    BY <1>3, <1>5 DEF AddTotal, RecGoto
  <2>2. ByStatus' = ByStatus /\ ByLatency' = ByLatency /\ Erred' = Erred
    BY <2>1 DEF ByStatus, ByLatency, Erred
  <2>3. Counted' = Counted \union {r} /\ r \notin Counted
    BY <2>1 DEF Counted
  <2>4. Cardinality(Counted') = Cardinality(Counted) + 1
    BY <1>1, <2>3, FS_AddElement
  <2> QED
    BY <1>2, <2>1, <2>2, <2>4 DEF CountersExact
<1>6. ASSUME NEW r \in Runs, AddError(r) PROVE CountersExact'
  <2>1. /\ recpc[r] = "errors" /\ recpc'[r] = "status"
        /\ \A q \in Runs \ {r} : recpc'[q] = recpc[q]
        /\ UNCHANGED <<TotalRuns, Statuses, Latency, rec>>
        /\ Errors' = IF rec[r].isError THEN Errors + 1 ELSE Errors
    BY <1>3, <1>6 DEF AddError, RecGoto
  <2>2. Counted' = Counted /\ ByStatus' = ByStatus /\ ByLatency' = ByLatency
    BY <2>1 DEF Counted, ByStatus, ByLatency
  <2>3. Errors' = Cardinality(Erred')
    <3>1. CASE rec[r].isError
      <4>1. Erred' = Erred \union {r} /\ r \notin Erred
        BY <2>1, <3>1 DEF Erred
      <4>2. Cardinality(Erred') = Cardinality(Erred) + 1
        BY <1>1, <4>1, FS_AddElement
      <4> QED
        BY <1>2, <2>1, <3>1, <4>2
    <3>2. CASE ~rec[r].isError
      <4>1. Erred' = Erred
        BY <2>1, <3>2 DEF Erred
      <4> QED
        BY <1>2, <2>1, <3>2, <4>1
    <3> QED
      BY <3>1, <3>2
  <2> QED
    BY <1>2, <2>1, <2>2, <2>3 DEF CountersExact
<1>7. ASSUME NEW r \in Runs, AddStatus(r) PROVE CountersExact'
  <2> DEFINE k == rec[r].status
  <2>1. /\ recpc[r] = "status" /\ recpc'[r] = "latency"
        /\ \A q \in Runs \ {r} : recpc'[q] = recpc[q]
        /\ UNCHANGED <<TotalRuns, Errors, Latency, rec>>
        /\ Statuses' = [Statuses EXCEPT ![k] = @ + 1]
    BY <1>3, <1>7 DEF AddStatus, RecGoto
  <2>2. Counted' = Counted /\ ByLatency' = ByLatency /\ Erred' = Erred
    BY <2>1 DEF Counted, ByLatency, Erred
  <2>3. ByStatus' = ByStatus \union {r} /\ r \notin ByStatus
    BY <2>1 DEF ByStatus
  <2>4. Cardinality(ByStatus') = Cardinality(ByStatus) + 1
    BY <1>1, <2>3, FS_AddElement
  <2>5. k \in RunStatuses
    BY <2>1 DEF RecordTypes
  <2> HIDE DEF k
  <2>6. /\ Statuses' \in [RunStatuses -> Nat]
        /\ Statuses'[k] = Statuses[k] + 1
        /\ \A j \in RunStatuses \ {k} : Statuses'[j] = Statuses[j]
    BY <1>3, <2>1, <2>5
  <2>7. IsFiniteSet(Units(Statuses')) /\ Total(Statuses') = Total(Statuses) + 1
    BY <1>2, <1>3, <2>5, <2>6, OneMore
  <2> QED
    BY <1>2, <2>1, <2>2, <2>4, <2>7 DEF CountersExact
<1>8. ASSUME NEW r \in Runs, AddLatency(r) PROVE CountersExact'
  <2>1. /\ recpc[r] = "latency" /\ recpc'[r] = "recorded"
        /\ \A q \in Runs \ {r} : recpc'[q] = recpc[q]
        /\ UNCHANGED <<TotalRuns, Errors, Statuses, rec>>
        /\ Latency' = [b \in Buckets |-> IF b \in bucket(rec[r].ms)
                                         THEN Latency[b] + 1 ELSE Latency[b]]
    BY <1>3, <1>8 DEF AddLatency, RecGoto
  <2>2. Counted' = Counted /\ ByStatus' = ByStatus /\ Erred' = Erred
    BY <2>1 DEF Counted, ByStatus, Erred
  <2>3. ByLatency' = ByLatency \union {r} /\ r \notin ByLatency
    BY <2>1 DEF ByLatency
  <2>4. Cardinality(ByLatency') = Cardinality(ByLatency) + 1
    BY <1>1, <2>3, FS_AddElement
  <2>5. rec[r].ms \in Nat
    BY <1>3 DEF Arguments
  <2>6. PICK c \in Buckets : bucket(rec[r].ms) = {c}
    BY <2>5, OneBucket
  <2>7. /\ Latency' \in [Buckets -> Nat]
        /\ Latency'[c] = Latency[c] + 1
        /\ \A j \in Buckets \ {c} : Latency'[j] = Latency[j]
    BY <1>3, <2>1, <2>6
  <2>8. IsFiniteSet(Units(Latency')) /\ Total(Latency') = Total(Latency) + 1
    BY <1>2, <1>3, <2>7, OneMore
  <2> QED
    BY <1>2, <2>1, <2>2, <2>4, <2>8 DEF CountersExact
<1>9. CASE Snapshot \/ UNCHANGED vars
  <2>1. UNCHANGED <<TotalRuns, Errors, Statuses, Latency, recpc, rec>>
    BY <1>9, SnapshotOnlyReads
  <2>2. /\ Counted' = Counted /\ ByStatus' = ByStatus /\ ByLatency' = ByLatency
        /\ Erred' = Erred
    BY <2>1 DEF Counted, ByStatus, ByLatency, Erred
  <2> QED
    BY <1>2, <2>1, <2>2 DEF CountersExact
<1> QED
  BY <1>4, <1>5, <1>6, <1>7, <1>8, <1>9 DEF Next, recordRun

\* No counter decreases, and recordRun leaves Snapshot alone.
LEMMA CountersGrow ==
  ASSUME RecordTypes, CounterTypes, NEW r \in Runs, Call(r) \/ recordRun(r)
  PROVE  /\ TotalRuns' >= TotalRuns /\ Errors' >= Errors
         /\ Below(Statuses, Statuses', RunStatuses)
         /\ Below(Latency, Latency', Buckets)
         /\ UNCHANGED <<snappc, statuses, latency, total, shown>>
<1> USE DEF CounterTypes
<1>1. UNCHANGED <<snappc, statuses, latency, total, shown>>
  BY DEF Call, recordRun, AddTotal, AddError, AddStatus, AddLatency, snapVars
<1>2. TotalRuns' >= TotalRuns /\ Errors' >= Errors
  BY DEF Call, recordRun, AddTotal, AddError, AddStatus, AddLatency, counters
<1>3. Below(Statuses, Statuses', RunStatuses)
  <2>1. CASE AddStatus(r)
    BY <2>1 DEF AddStatus, Below
  <2>2. CASE ~AddStatus(r)
    <3>1. Statuses' = Statuses
      BY <2>2 DEF Call, recordRun, AddTotal, AddError, AddLatency, counters
    <3> QED
      BY <3>1 DEF Below
  <2> QED
    BY <2>1, <2>2
<1>4. Below(Latency, Latency', Buckets)
  <2>1. CASE AddLatency(r)
    BY <2>1 DEF AddLatency, Below
  <2>2. CASE ~AddLatency(r)
    <3>1. Latency' = Latency
      BY <2>2 DEF Call, recordRun, AddTotal, AddError, AddStatus, counters
    <3> QED
      BY <3>1 DEF Below
  <2> QED
    BY <2>1, <2>2
<1> QED
  BY <1>1, <1>2, <1>3, <1>4


------------------------------------------------------------------------------
(* Snapshot *)

LEMMA SnapTypesKept ==
  ASSUME CounterTypes, SnapTypes, [Next]_vars
  PROVE  SnapTypes'
<1> USE DEF CounterTypes, SnapTypes
<1>1. CASE CopyStatuses \/ CopyLatency \/ LoadTotal
  BY <1>1 DEF CopyStatuses, CopyLatency, LoadTotal, SnapGoto
<1>2. CASE LoadErrors
  <2>1. shown' = [total_runs |-> total, error_count |-> Errors,
                  status_counts |-> statuses, latency_histogram_ms |-> latency]
    BY <1>2 DEF LoadErrors
  <2>2. shown' \in Snapshots
    BY <2>1 DEF Snapshots
  <2> QED
    BY <1>2, <2>2 DEF LoadErrors, SnapGoto
<1>3. CASE UNCHANGED snapVars
  BY <1>3 DEF snapVars
<1>4. ASSUME NEW r \in Runs, Call(r) \/ recordRun(r) PROVE UNCHANGED snapVars
  BY <1>4 DEF Call, recordRun, AddTotal, AddError, AddStatus, AddLatency
<1> QED
  BY <1>1, <1>2, <1>3, <1>4 DEF Next, Snapshot, vars

\* Being nowhere above is transitive.
LEMMA BelowTransitive ==
  ASSUME NEW S, NEW f \in [S -> Nat], NEW g \in [S -> Nat], NEW h \in [S -> Nat],
         Below(f, g, S), Below(g, h, S)
  PROVE  Below(f, h, S)
<1> SUFFICES ASSUME NEW k \in S PROVE f[k] <= h[k]
  BY DEF Below
<1>1. f[k] \in Nat /\ g[k] \in Nat /\ h[k] \in Nat
  OBVIOUS
<1>2. f[k] <= g[k] /\ g[k] <= h[k]
  BY DEF Below
<1> QED
  BY <1>1, <1>2

\* The parts of the last snapshot are numbers.
LEMMA ShownTypes ==
  ASSUME SnapTypes
  PROVE  /\ shown.total_runs \in Nat /\ shown.error_count \in Nat
         /\ shown.status_counts \in [RunStatuses -> Nat]
         /\ shown.latency_histogram_ms \in [Buckets -> Nat]
BY DEF SnapTypes, Snapshots

\* What LoadErrors shows.
LEMMA Shows ==
  ASSUME LoadErrors
  PROVE  /\ shown'.total_runs = total /\ shown'.error_count = Errors
         /\ shown'.status_counts = statuses
         /\ shown'.latency_histogram_ms = latency
BY DEF LoadErrors

LEMMA BetweenKept ==
  ASSUME RecordTypes, CounterTypes, SnapTypes, Between, [Next]_vars
  PROVE  Between'
<1>1. /\ shown.total_runs \in Nat /\ shown.error_count \in Nat
      /\ shown.status_counts \in [RunStatuses -> Nat]
      /\ shown.latency_histogram_ms \in [Buckets -> Nat]
      /\ snappc \in {"statuses", "latency", "total", "errors"}
      /\ statuses \in [RunStatuses -> Nat] /\ latency \in [Buckets -> Nat]
      /\ total \in Nat
  BY ShownTypes DEF SnapTypes
<1>2. /\ TotalRuns \in Nat /\ Errors \in Nat
      /\ Statuses \in [RunStatuses -> Nat] /\ Latency \in [Buckets -> Nat]
  BY DEF CounterTypes
<1>3. ASSUME NEW r \in Runs, Call(r) \/ recordRun(r) PROVE Between'
  <2>1. /\ TotalRuns' >= TotalRuns /\ Errors' >= Errors
        /\ Below(Statuses, Statuses', RunStatuses)
        /\ Below(Latency, Latency', Buckets)
        /\ UNCHANGED <<snappc, statuses, latency, total, shown>>
    BY <1>3, CountersGrow
  <2>2. /\ Statuses' \in [RunStatuses -> Nat] /\ Latency' \in [Buckets -> Nat]
        /\ TotalRuns' \in Nat /\ Errors' \in Nat
    BY <1>3, RecordTypesKept DEF CounterTypes, Next
  <2>3. /\ Below(shown.status_counts, Statuses', RunStatuses)
        /\ Below(shown.latency_histogram_ms, Latency', Buckets)
    BY <1>1, <1>2, <2>1, <2>2, BelowTransitive DEF Between
  <2>4. /\ snappc # "statuses" => Below(statuses, Statuses', RunStatuses)
        /\ snappc \in {"total", "errors"} => Below(latency, Latency', Buckets)
    BY <1>1, <1>2, <2>1, <2>2, BelowTransitive DEF Between
  <2>5. /\ shown.total_runs <= TotalRuns' /\ shown.error_count <= Errors'
        /\ snappc = "errors" => total <= TotalRuns'
    BY <1>1, <1>2, <2>1, <2>2 DEF Between
  <2> QED
    BY <2>1, <2>3, <2>4, <2>5 DEF Between
<1>4. CASE CopyStatuses
  <2>1. /\ snappc' = "latency" /\ statuses' = Statuses
        /\ UNCHANGED <<TotalRuns, Errors, Statuses, Latency, latency, total, shown>>
    BY <1>4 DEF CopyStatuses, SnapGoto, counters
  <2>2. Below(Statuses, Statuses, RunStatuses)
    BY <1>2 DEF Below
  <2> QED
    BY <2>1, <2>2 DEF Between
<1>5. CASE CopyLatency
  <2>1. /\ snappc = "latency" /\ snappc' = "total" /\ latency' = Latency
        /\ UNCHANGED <<TotalRuns, Errors, Statuses, Latency, statuses, total, shown>>
    BY <1>5 DEF CopyLatency, SnapGoto, counters
  <2>2. Below(Latency, Latency, Buckets)
    BY <1>2 DEF Below
  <2> QED
    BY <2>1, <2>2 DEF Between
<1>6. CASE LoadTotal
  <2>1. /\ snappc = "total" /\ snappc' = "errors" /\ total' = TotalRuns
        /\ UNCHANGED <<TotalRuns, Errors, Statuses, Latency, statuses, latency,
                       shown>>
    BY <1>6 DEF LoadTotal, SnapGoto, counters
  <2> QED
    BY <1>2, <2>1 DEF Between
<1>7. CASE LoadErrors
  <2>1. /\ snappc = "errors" /\ snappc' = "statuses"
        /\ UNCHANGED <<TotalRuns, Errors, Statuses, Latency, statuses, latency,
                       total>>
    BY <1>7 DEF LoadErrors, SnapGoto, counters
  <2> QED
    BY <1>2, <1>7, <2>1, Shows DEF Between
<1>8. CASE UNCHANGED vars
  <2>1. UNCHANGED <<TotalRuns, Errors, Statuses, Latency, snappc, statuses,
                    latency, total, shown>>
    BY <1>8 DEF vars, counters, snapVars
  <2> QED
    BY <2>1 DEF Between
<1> QED
  BY <1>3, <1>4, <1>5, <1>6, <1>7, <1>8 DEF Next, Snapshot

LEMMA TotalAheadKept ==
  ASSUME RecordTypes, CounterTypes, SnapTypes, CountersExact, TotalAhead,
         [Next]_vars
  PROVE  TotalAhead'
<1>1. /\ shown.total_runs \in Nat /\ shown.error_count \in Nat
      /\ total \in Nat /\ TotalRuns \in Nat /\ Errors \in Nat
      /\ snappc \in {"statuses", "latency", "total", "errors"}
  BY ShownTypes DEF SnapTypes, CounterTypes
<1>2. /\ Total(Statuses) \in Nat /\ Total(Statuses) <= TotalRuns
      /\ Total(Latency) \in Nat /\ Total(Latency) <= TotalRuns
      /\ Errors <= TotalRuns
  BY PointsInOrder DEF CountersExact
<1>3. /\ Total(statuses) \in Nat /\ Total(latency) \in Nat
      /\ snappc \in {"latency", "total"} => Total(statuses) <= TotalRuns
      /\ snappc = "total" => Total(latency) <= TotalRuns
      /\ snappc = "errors" => Total(statuses) <= total /\ Total(latency) <= total
      /\ Total(shown.status_counts) <= shown.total_runs
      /\ Total(shown.latency_histogram_ms) <= shown.total_runs
      /\ shown.error_count <= TotalRuns
  BY DEF TotalAhead, SnapshotNeverOvercounts
<1>4. ASSUME NEW r \in Runs, Call(r) \/ recordRun(r) PROVE TotalAhead'
  <2>1. /\ TotalRuns' >= TotalRuns
        /\ UNCHANGED <<snappc, statuses, latency, total, shown>>
    BY <1>4, CountersGrow
  <2>2. TotalRuns' \in Nat
    BY <1>4, RecordTypesKept DEF CounterTypes, Next
  <2>3. \A x \in Nat : x <= TotalRuns => x <= TotalRuns'
    BY <1>1, <2>1, <2>2
  <2> QED
    BY <1>1, <1>3, <2>1, <2>3 DEF TotalAhead, SnapshotNeverOvercounts
<1>5. CASE CopyStatuses
  <2>1. /\ snappc' = "latency" /\ statuses' = Statuses
        /\ UNCHANGED <<TotalRuns, latency, shown>>
    BY <1>5 DEF CopyStatuses, SnapGoto, counters
  <2> QED
    BY <1>2, <1>3, <2>1 DEF TotalAhead, SnapshotNeverOvercounts
<1>6. CASE CopyLatency
  <2>1. /\ snappc = "latency" /\ snappc' = "total" /\ latency' = Latency
        /\ UNCHANGED <<TotalRuns, statuses, shown>>
    BY <1>6 DEF CopyLatency, SnapGoto, counters
  <2> QED
    BY <1>2, <1>3, <2>1 DEF TotalAhead, SnapshotNeverOvercounts
<1>7. CASE LoadTotal
  <2>1. /\ snappc = "total" /\ snappc' = "errors" /\ total' = TotalRuns
        /\ UNCHANGED <<TotalRuns, statuses, latency, shown>>
    BY <1>7 DEF LoadTotal, SnapGoto, counters
  <2> QED
    BY <1>3, <2>1 DEF TotalAhead, SnapshotNeverOvercounts
<1>8. CASE LoadErrors
  <2>1. /\ snappc = "errors" /\ snappc' = "statuses"
        /\ UNCHANGED <<TotalRuns, statuses, latency, total>>
    BY <1>8 DEF LoadErrors, SnapGoto, counters
  <2> QED
    BY <1>2, <1>3, <1>8, <2>1, Shows DEF TotalAhead, SnapshotNeverOvercounts
<1>9. CASE UNCHANGED vars
  <2>1. UNCHANGED <<TotalRuns, snappc, statuses, latency, total, shown>>
    BY <1>9 DEF vars, counters, snapVars
  <2> QED
    BY <1>3, <2>1 DEF TotalAhead, SnapshotNeverOvercounts
<1> QED
  BY <1>4, <1>5, <1>6, <1>7, <1>8, <1>9 DEF Next, Snapshot

------------------------------------------------------------------------------
(* The theorems *)

\* Counts that are all zero add up to zero.
LEMMA NothingCounted ==
  ASSUME NEW S
  PROVE  Units(NoCounts(S)) = {} /\ Total(NoCounts(S)) = 0
<1>1. Units(NoCounts(S)) = {}
  BY DEF Units, NoCounts
<1>2. Total(NoCounts(S)) = Cardinality(Units(NoCounts(S)))
  BY DEF Total, Units
<1> QED
  BY <1>1, <1>2, FS_EmptySet

LEMMA InitMetricsInv == Init => MetricsInv
<1> SUFFICES ASSUME Init PROVE MetricsInv
  OBVIOUS
<1>1. /\ TotalRuns = 0 /\ Errors = 0 /\ total = 0 /\ snappc = "statuses"
      /\ Statuses = NoCounts(RunStatuses) /\ Latency = NoCounts(Buckets)
      /\ statuses = NoCounts(RunStatuses) /\ latency = NoCounts(Buckets)
      /\ recpc = [r \in Runs |-> "idle"]
  BY DEF Init
<1>2. \A S : NoCounts(S) \in [S -> Nat] /\ \A k \in S : NoCounts(S)[k] = 0
  BY DEF NoCounts
<1>3. /\ shown.total_runs = 0 /\ shown.error_count = 0
      /\ shown.status_counts = NoCounts(RunStatuses)
      /\ shown.latency_histogram_ms = NoCounts(Buckets)
      /\ shown \in Snapshots
  BY <1>2 DEF Init, NoSnapshot, Snapshots
<1>4. RecordTypes
  <2>1. rec \in [Runs -> Arguments]
    <3>1. [status |-> "none", ms |-> 0, isError |-> FALSE] \in Arguments
      BY DEF Arguments
    <3>2. rec = [r \in Runs |-> [status |-> "none", ms |-> 0, isError |-> FALSE]]
      BY DEF Init
    <3> QED
      BY <3>1, <3>2
  <2> QED
    BY <1>1, <2>1 DEF RecordTypes
<1>5. CounterTypes /\ SnapTypes
  BY <1>1, <1>2, <1>3 DEF CounterTypes, SnapTypes
<1>6. CountersExact
  <2>1. Counted = {} /\ Erred = {} /\ ByStatus = {} /\ ByLatency = {}
    BY <1>1 DEF Counted, Erred, ByStatus, ByLatency
  <2> QED
    BY <1>1, <2>1, NothingCounted, FS_EmptySet DEF CountersExact
<1>7. Between
  <2>1. \A S : Below(NoCounts(S), NoCounts(S), S)
    BY <1>2 DEF Below
  <2> QED
    BY <1>1, <1>3, <2>1 DEF Between
<1>8. TotalAhead
  BY <1>1, <1>3, NothingCounted DEF TotalAhead, SnapshotNeverOvercounts
<1> QED
  BY <1>4, <1>5, <1>6, <1>7, <1>8 DEF MetricsInv

LEMMA NextMetricsInv == MetricsInv /\ [Next]_vars => MetricsInv'
BY RecordTypesKept, CountersKept, SnapTypesKept, BetweenKept, TotalAheadKept
   DEF MetricsInv

(* No snapshot shows a run by its status or its duration that its total      *)
(* lacks, however recordRun's and Snapshot's steps fall between each other.  *)
THEOREM SnapshotsNeverOvercount == Spec => []SnapshotNeverOvercounts
<1>1. MetricsInv => SnapshotNeverOvercounts
  BY DEF MetricsInv, TotalAhead
<1> QED
  BY InitMetricsInv, NextMetricsInv, <1>1, PTL DEF Spec

(* No update of recordRun is lost: when nobody records, each run is counted  *)
(* once in the total, by its status and by its duration.                     *)
THEOREM NoRunIsLost == Spec => []CountsAgree
<1>1. MetricsInv => CountsAgree
  <2> DEFINE done == {r \in Runs : recpc[r] = "recorded"}
  <2> SUFFICES ASSUME MetricsInv,
                      \A r \in Runs : recpc[r] \in {"idle", "recorded"}
               PROVE  /\ TotalRuns = Cardinality(done)
                      /\ Total(Statuses) = Cardinality(done)
                      /\ Total(Latency) = Cardinality(done)
                      /\ Errors = Cardinality({r \in done : rec[r].isError})
    BY DEF CountsAgree
  <2>1. /\ Counted = done /\ ByStatus = done /\ ByLatency = done
        /\ Erred = {r \in done : rec[r].isError}
    BY DEF Counted, ByStatus, ByLatency, Erred
  <2> HIDE DEF done
  <2> QED
    BY <2>1 DEF MetricsInv, CountersExact
<1> QED
  BY InitMetricsInv, NextMetricsInv, <1>1, PTL DEF Spec

(* What a poller of /metrics sees never decreases in any of its parts.       *)
THEOREM SnapshotsOnlyGrow == Spec => SnapshotsGrow
<1> DEFINE A == /\ shown'.total_runs >= shown.total_runs
                /\ shown'.error_count >= shown.error_count
                /\ \A s \in RunStatuses :
                     shown'.status_counts[s] >= shown.status_counts[s]
                /\ \A b \in Buckets : shown'.latency_histogram_ms[b]
                                        >= shown.latency_histogram_ms[b]
<1>1. MetricsInv /\ [Next]_vars => [A]_vars
  <2> SUFFICES ASSUME MetricsInv, [Next]_vars PROVE A
    OBVIOUS
  <2>1. /\ SnapTypes /\ Between /\ RecordTypes /\ CounterTypes
        /\ shown.total_runs \in Nat /\ shown.error_count \in Nat
        /\ shown.status_counts \in [RunStatuses -> Nat]
        /\ shown.latency_histogram_ms \in [Buckets -> Nat]
    BY ShownTypes DEF MetricsInv
  <2>2. CASE LoadErrors
    <3>1. snappc = "errors"
      BY <2>2 DEF LoadErrors, SnapGoto
    <3>2. /\ shown.total_runs <= total /\ shown.error_count <= Errors
          /\ \A s \in RunStatuses : shown.status_counts[s] <= statuses[s]
          /\ \A b \in Buckets : shown.latency_histogram_ms[b] <= latency[b]
          /\ total \in Nat /\ Errors \in Nat
          /\ statuses \in [RunStatuses -> Nat] /\ latency \in [Buckets -> Nat]
      BY <2>1, <3>1 DEF Between, Below, SnapTypes, CounterTypes
    <3> QED
      BY <2>1, <2>2, <3>2, Shows
  <2>3. CASE shown' = shown
    BY <2>1, <2>3
  <2>4. ASSUME NEW r \in Runs, Call(r) \/ recordRun(r) PROVE shown' = shown
    BY <2>1, <2>4, CountersGrow
  <2>5. CASE CopyStatuses \/ CopyLatency \/ LoadTotal \/ UNCHANGED vars
    BY <2>3, <2>5 DEF CopyStatuses, CopyLatency, LoadTotal, vars, snapVars
  <2> QED
    BY <2>2, <2>3, <2>4, <2>5 DEF Next, Snapshot
<1> QED
  BY InitMetricsInv, NextMetricsInv, <1>1, PTL DEF Spec, SnapshotsGrow

=============================================================================
