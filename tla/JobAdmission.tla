---------------------------- MODULE JobAdmission ----------------------------
(***************************************************************************)
(* What bounded admission promises, without mutexes, counters or channels. *)
(* A request is new, waits, runs and is over.  At most MaxJobs run and at  *)
(* most MaxQueued wait.  A request is turned away only when there is no    *)
(* room left or admission is closed, gives up waiting only when its client *)
(* left or admission is closed, and nothing starts once it is closed.      *)
(* AdmissionGate implements this specification.                            *)
(***************************************************************************)
EXTENDS Naturals, FiniteSets

CONSTANTS Reqs,       \* the requests that reach the gate
          MaxJobs,    \* GOBOXD_MAX_JOBS
          MaxQueued   \* GOBOXD_MAX_QUEUED

VARIABLES phase,      \* [Reqs -> {"new", "waiting", "running", "over"}]
          closed,     \* admission was stopped
          gone        \* the requests whose client has disconnected

vars == <<phase, closed, gone>>

Waiting == {r \in Reqs : phase[r] = "waiting"}
Running == {r \in Reqs : phase[r] = "running"}

Init == /\ phase = [r \in Reqs |-> "new"]
        /\ closed = FALSE
        /\ gone = {}

Move(r, from, to) == /\ phase[r] \in from
                     /\ phase' = [phase EXCEPT ![r] = to]
                     /\ UNCHANGED <<closed, gone>>

Start(r) == /\ ~closed
            /\ Cardinality(Running) < MaxJobs
            /\ Move(r, {"new", "waiting"}, "running")

Wait(r) == /\ ~closed
           /\ Cardinality(Running) = MaxJobs
           /\ Cardinality(Waiting) < MaxQueued
           /\ Move(r, {"new"}, "waiting")

Refuse(r) == /\ \/ closed
                \/ /\ Cardinality(Running) = MaxJobs
                   /\ Cardinality(Waiting) = MaxQueued
             /\ Move(r, {"new"}, "over")

Abandon(r) == /\ closed \/ r \in gone
              /\ Move(r, {"waiting"}, "over")

Finish(r) == Move(r, {"running"}, "over")

Disconnect(r) == /\ gone' = gone \union {r}
                 /\ UNCHANGED <<phase, closed>>

Close == /\ closed' = TRUE
         /\ UNCHANGED <<phase, gone>>

Next == \/ \E r \in Reqs : \/ Start(r) \/ Wait(r) \/ Refuse(r)
                           \/ Abandon(r) \/ Finish(r) \/ Disconnect(r)
        \/ Close

Spec == Init /\ [][Next]_vars
=============================================================================
