\* Three runs recorded during two snapshots; one duration is on the bound of a
\* bucket and one beyond all of them.
CONSTANTS
  Runs = {r1, r2, r3}
  RunStatuses = {"accepted", "cancelled"}
  Durations = {50, 6000}
  MaxSnapshots = 2
SPECIFICATION Spec
SYMMETRY Symmetry
INVARIANT SnapshotNeverOvercounts
INVARIANT CountsAgree
PROPERTY SnapshotsGrow
\* Nothing happens any more when every run is recorded.
CHECK_DEADLOCK FALSE
