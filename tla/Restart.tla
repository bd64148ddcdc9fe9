------------------------------- MODULE Restart -------------------------------
(***************************************************************************)
(* Crashes of the service and its start: main (cmd/goboxd/main.go) up to   *)
(* the moment it listens, with the two start-up sweeps, composed with the  *)
(* runs of RunPipeline.                                                    *)
(*                                                                         *)
(* The service is process 1 of its container, so every jailed process dies *)
(* with it; what stays is on disk and in the cgroup hierarchy, with the    *)
(* names of the dead process.  Its clients ask again.                      *)
(***************************************************************************)
EXTENDS RunPipeline

CONSTANTS OrphanAge,   \* the 30 minutes of SweepOrphans
          MaxTime,     \* bound: the last value of the clock
          MaxCrashes   \* bound: how often the process dies

ASSUME RestartAssumption ==
  OrphanAge \in Nat /\ MaxTime \in Nat /\ MaxCrashes \in Nat

VARIABLES
  phase,     \* where main is: "sweep", "probe", "serving"
  boot,      \* how many processes came before this one
  now,       \* the clock
  started,   \* the clock when SweepOrphans read it
  born,      \* the modification time of a jail dir of this process
  leftDirs,  \* the jail dirs of dead processes
  leftCgs    \* the jail cgroups of dead processes

diskVars == <<leftDirs, leftCgs>>
restartVars == <<vars, phase, boot, now, started, born, diskVars>>

RestartInit ==
  /\ Init
  /\ phase = "sweep" /\ boot = 0 /\ now = 0 /\ started = 0
  /\ born = [j \in Jails |-> 0]
  /\ leftDirs = {} /\ leftCgs = {}

\* The sweep keeps what it should remove, and removes the recent dirs.
SweepOrphansYoung ==
  /\ phase = "sweep"
  /\ phase' = "probe"
  /\ started' = now
  /\ leftDirs' = {d \in leftDirs : now - d.mtime > OrphanAge}
  /\ NoFault
  /\ UNCHANGED <<leftCgs, born, boot, now, want, gone, jailVars, runVars>>

\* The dirs a sweep removes.  There are none of this process yet.
Expired == {d \in leftDirs : now - d.mtime > OrphanAge}

\* A call that fails, from ReadDir to RemoveAll, keeps a part of them.
SweepOrphans ==
  /\ phase = "sweep"
  /\ phase' = "probe"
  /\ started' = now
  /\ \E stay \in SUBSET Expired :
       /\ leftDirs' = (leftDirs \ Expired) \union stay
       /\ IF stay = {} THEN NoFault ELSE Fault
  /\ UNCHANGED <<leftCgs, born, boot, now, want, gone, jailVars, runVars>>

\* The one manager of the process: a sync.Once that main runs before it listens,
\* so that every newJail finds it made.  It sweeps every dir below its
\* delegation point, and this process has made none yet.
Default ==
  /\ phase = "probe"
  /\ phase' = "serving"
  /\ \E stay \in SUBSET leftCgs :
       /\ leftCgs' = stay
       /\ IF stay = {} THEN NoFault ELSE Fault
  /\ cg' = {}
  /\ UNCHANGED <<leftDirs, born, boot, now, started, want, gone, jpc, inUse,
                 next, uid, owner, failed, runVars>>

\* Requests are served once main listens.
Serve ==
  /\ phase = "serving"
  /\ Next
  /\ born' = [j \in Jails |-> IF j \in DOMAIN owner' \ DOMAIN owner
                              THEN now ELSE born[j]]
  /\ UNCHANGED <<phase, boot, now, started, diskVars>>

\* External: the process dies between any two steps, and is started again.
Crash ==
  /\ boot < MaxCrashes
  /\ boot' = boot + 1
  /\ phase' = "sweep"
  /\ leftDirs' = leftDirs \union
       {[boot |-> boot, jail |-> j, mtime |-> born[j]] : j \in DOMAIN owner}
  /\ leftCgs' = leftCgs \union {[boot |-> boot, jail |-> j] : j \in cg}
  /\ gone' = {}
  /\ rpc' = [r \in Reqs |-> "queued"]
  /\ nextTest' = [r \in Reqs |-> 1]
  /\ sem' = [r \in Reqs |-> 0]
  /\ build' = [r \in Reqs |-> "ok"]
  /\ err' = [r \in Reqs |-> FALSE]
  /\ results' = [r \in Reqs |-> [i \in Tests |-> "absent"]]
  /\ jpc' = [j \in Jails |-> "none"]
  /\ inUse' = {} /\ next' = 0 /\ uid' = [j \in Jails |-> Pool!NoUid]
  /\ owner' = <<>> /\ cg' = {} /\ failed' = {}
  /\ response' = [r \in Reqs |-> NoResponse]
  /\ recorded' = [r \in Reqs |-> Record("none", FALSE, FALSE)]
  /\ born' = [j \in Jails |-> 0]
  /\ UNCHANGED <<want, faults, now, started>>

\* External: time passes.
Tick == /\ now < MaxTime
        /\ now' = now + 1
        /\ UNCHANGED <<vars, phase, boot, started, born, diskVars>>

RestartNext == SweepOrphans \/ Default \/ Serve \/ Crash \/ Tick

RestartSpec == RestartInit /\ [][RestartNext]_restartVars

------------------------------------------------------------------------------
(* "leftover dirs and cgroup leaves are cleaned by the startup sweeps":      *)
(* unless a call failed, what a serving process finds of its dead            *)
(* predecessors is dirs at most OrphanAge older than its own start, and no   *)
(* cgroup, wherever in a run or in a start the crash came.                   *)
OnlyRecentLeftovers ==
  phase = "serving" /\ faults = 0
    => /\ \A d \in leftDirs : started - d.mtime <= OrphanAge
       /\ leftCgs = {}
=============================================================================
