------------------------------- MODULE Metrics -------------------------------
(***************************************************************************)
(* The counters of internal/api/metrics.go: recordRun, which handlers call *)
(* at their end, and Snapshot, which a dashboard polls.  Each atomic       *)
(* operation and each critical section is a step; recordRun's and          *)
(* Snapshot's come in different orders.  The two gauges that Snapshot also *)
(* reads belong to AdmissionGate.                                          *)
(***************************************************************************)
EXTENDS Naturals, FiniteSets, FiniteSetsExt

CONSTANTS Runs,          \* the runs that may be recorded
          RunStatuses,   \* the statuses they may be recorded with
          Durations,     \* how long they may take, in ms
          MaxSnapshots   \* bound: snapshots taken

ASSUME MetricsAssumption == /\ IsFiniteSet(Runs)
                            /\ Durations \subseteq Nat
                            /\ MaxSnapshots \in Nat

VARIABLES
  TotalRuns, Errors,    \* atomic
  Statuses, Latency,    \* maps, each under its mutex
  recpc, rec,           \* where recordRun is for each run, and its arguments
  snappc, statuses, latency, total,   \* where Snapshot is, and its locals
  shown, taken          \* the last snapshot served; how many there were

counters == <<TotalRuns, Errors, Statuses, Latency>>
snapVars == <<snappc, statuses, latency, total, shown, taken>>
vars == <<counters, recpc, rec, snapVars>>

\* The statuses that HandleRun records as errors.
ErrorStatuses == {"internal_error", "queue_full", "shutting_down"}

latencyBucketsMs == {50, 100, 250, 500, 1000, 2000, 5000}
Over == 0             \* the bucket 5000+
Buckets == latencyBucketsMs \union {Over}

\* A run longer than every bound is in no bucket, and is not counted.
bucketBounded(ms) == {b \in latencyBucketsMs : /\ ms <= b
                                               /\ \A c \in latencyBucketsMs :
                                                    ms <= c => b <= c}

\* The bucket of a duration, as a set of one.
bucket(ms) == IF \E b \in latencyBucketsMs : ms <= b
              THEN {Min({b \in latencyBucketsMs : ms <= b})}
              ELSE {Over}

\* The sum of some counts: as many things as each of them counts.
Total(counts) == Cardinality(UNION {{k} \X (1..counts[k]) : k \in DOMAIN counts})

NoCounts(S) == [k \in S |-> 0]
NoSnapshot == [total_runs |-> 0, error_count |-> 0,
               status_counts |-> NoCounts(RunStatuses),
               latency_histogram_ms |-> NoCounts(Buckets)]

Init ==
  /\ TotalRuns = 0 /\ Errors = 0
  /\ Statuses = NoCounts(RunStatuses) /\ Latency = NoCounts(Buckets)
  /\ recpc = [r \in Runs |-> "idle"]
  /\ rec = [r \in Runs |-> [status |-> "none", ms |-> 0, isError |-> FALSE]]
  /\ snappc = "statuses"
  /\ statuses = NoCounts(RunStatuses) /\ latency = NoCounts(Buckets)
  /\ total = 0
  /\ shown = NoSnapshot /\ taken = 0

------------------------------------------------------------------------------
(* recordRun *)

RecGoto(r, from, to) == /\ recpc[r] = from
                        /\ recpc' = [recpc EXCEPT ![r] = to]

\* HandleRun comes to its recordRun.  Only a cancelled run may or may not be
\* an error: it is one if the sandbox failed too.
Call(r) ==
  /\ RecGoto(r, "idle", "total")
  /\ \E st \in RunStatuses, ms \in Durations, isError \in BOOLEAN :
       /\ st # "cancelled" => isError = (st \in ErrorStatuses)
       /\ rec' = [rec EXCEPT ![r] =
                    [status |-> st, ms |-> ms, isError |-> isError]]
  /\ UNCHANGED <<counters, snapVars>>

AddTotal(r) ==
  /\ RecGoto(r, "total", "errors")
  /\ TotalRuns' = TotalRuns + 1
  /\ UNCHANGED <<Errors, Statuses, Latency, rec, snapVars>>

AddError(r) ==
  /\ RecGoto(r, "errors", "status")
  /\ Errors' = IF rec[r].isError THEN Errors + 1 ELSE Errors
  /\ UNCHANGED <<TotalRuns, Statuses, Latency, rec, snapVars>>

AddStatus(r) ==
  /\ RecGoto(r, "status", "latency")
  /\ Statuses' = [Statuses EXCEPT ![rec[r].status] = @ + 1]
  /\ UNCHANGED <<TotalRuns, Errors, Latency, rec, snapVars>>

AddLatency(r) ==
  /\ RecGoto(r, "latency", "recorded")
  /\ Latency' = [b \in Buckets |-> IF b \in bucket(rec[r].ms)
                                   THEN Latency[b] + 1 ELSE Latency[b]]
  /\ UNCHANGED <<TotalRuns, Errors, Statuses, rec, snapVars>>

recordRun(r) == AddTotal(r) \/ AddError(r) \/ AddStatus(r) \/ AddLatency(r)

------------------------------------------------------------------------------
(* Snapshot *)

SnapGoto(from, to) == snappc = from /\ snappc' = to

CopyStatuses ==
  /\ taken < MaxSnapshots
  /\ SnapGoto("statuses", "latency")
  /\ statuses' = Statuses
  /\ UNCHANGED <<counters, recpc, rec, latency, total, shown, taken>>

CopyLatency ==
  /\ SnapGoto("latency", "total")
  /\ latency' = Latency
  /\ UNCHANGED <<counters, recpc, rec, statuses, total, shown, taken>>

\* The total that belongs to the copied statuses.
LoadTotalOfStatuses ==
  /\ SnapGoto("total", "errors")
  /\ total' = Total(statuses)
  /\ UNCHANGED <<counters, recpc, rec, statuses, latency, shown, taken>>

LoadTotal ==
  /\ SnapGoto("total", "errors")
  /\ total' = TotalRuns
  /\ UNCHANGED <<counters, recpc, rec, statuses, latency, shown, taken>>

\* The counters start again from zero.
LoadErrorsAndReset ==
  /\ SnapGoto("errors", "statuses")
  /\ shown' = [total_runs |-> total, error_count |-> Errors,
               status_counts |-> statuses, latency_histogram_ms |-> latency]
  /\ taken' = taken + 1
  /\ Statuses' = NoCounts(RunStatuses)
  /\ UNCHANGED <<TotalRuns, Errors, Latency, recpc, rec, statuses, latency,
                 total>>

LoadErrors ==
  /\ SnapGoto("errors", "statuses")
  /\ shown' = [total_runs |-> total, error_count |-> Errors,
               status_counts |-> statuses, latency_histogram_ms |-> latency]
  /\ taken' = taken + 1
  /\ UNCHANGED <<counters, recpc, rec, statuses, latency, total>>

Snapshot == CopyStatuses \/ CopyLatency \/ LoadTotal \/ LoadErrors

Next == \/ \E r \in Runs : Call(r) \/ recordRun(r)
        \/ Snapshot

Spec == Init /\ [][Next]_vars

------------------------------------------------------------------------------
(* No snapshot shows a run by its status or its duration that the total does *)
(* not show: recordRun counts the total first and Snapshot reads it last.    *)
(* error_count is read after the total, so it may be ahead, but only by the  *)
(* runs that were counted in between.                                        *)
SnapshotNeverOvercounts ==
  /\ Total(shown.status_counts) <= shown.total_runs
  /\ Total(shown.latency_histogram_ms) <= shown.total_runs
  /\ shown.error_count <= TotalRuns

(* What a poller sees never decreases, in any of its parts, although each    *)
(* snapshot is put together while runs are recorded.                         *)
SnapshotsGrow ==
  [][/\ shown'.total_runs >= shown.total_runs
     /\ shown'.error_count >= shown.error_count
     /\ \A s \in RunStatuses :
          shown'.status_counts[s] >= shown.status_counts[s]
     /\ \A b \in Buckets : shown'.latency_histogram_ms[b]
                             >= shown.latency_histogram_ms[b]]_vars

(* Nothing is lost between recorders: once no recordRun is under way, every  *)
(* run is counted once in the total, once by its status and once by its      *)
(* duration, and the errors are the runs recorded as errors.                 *)
CountsAgree ==
  LET done == {r \in Runs : recpc[r] = "recorded"}
  IN  (\A r \in Runs : recpc[r] \in {"idle", "recorded"})
        => /\ TotalRuns = Cardinality(done)
           /\ Total(Statuses) = Cardinality(done)
           /\ Total(Latency) = Cardinality(done)
           /\ Errors = Cardinality({r \in done : rec[r].isError})
=============================================================================
