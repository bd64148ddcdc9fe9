---------------------------- MODULE AdmissionGate ----------------------------
(***************************************************************************)
(* The admission gate of internal/api/admission.go and the part of         *)
(* HandleRun (internal/api/handlers.go) that takes and gives back a slot.  *)
(*                                                                         *)
(* Every stretch of code under g.mu is one action; the points where a      *)
(* goroutine holds no lock (in the select, between the select and the      *)
(* Lock, between acquire and the metrics update, between the metrics       *)
(* update and release) are values of pc, so that everything another        *)
(* goroutine can do there happens in the model.                            *)
(*                                                                         *)
(* g.broadcast is always open, and every channel it was before is closed.  *)
(* So of the channel a handler holds only that is kept: it is open if it   *)
(* still is g.broadcast, and a broadcast closes the channels of all.       *)
(* A handler's execution of ExecuteRun is the stay in "running".           *)
(***************************************************************************)
EXTENDS Naturals, FiniteSets

CONSTANTS Reqs, MaxJobs, MaxQueued

\* readMaxJobs accepts only positive values, readMaxQueued only natural ones.
ASSUME GateAssumption == /\ IsFiniteSet(Reqs)
                         /\ MaxJobs \in Nat \ {0}
                         /\ MaxQueued \in Nat

VARIABLES
  inFlight, queued, stopped,              \* the fields of admissionGate
  metricsInFlight, metricsQueued,         \* metrics.InFlight, metrics.Queued
  pc,      \* where the handler of each request is
  b,       \* acquire's local b: the channel the handler selects on
  err,     \* the error acquire returned to the handler, "nil" for none
  status,  \* the status given to recordRun, "none" before the call
  gone     \* the requests whose context is done (the client disconnected)

gateVars == <<inFlight, queued, stopped>>
metricVars == <<metricsInFlight, metricsQueued>>
vars == <<gateVars, metricVars, pc, b, err, status, gone>>

InSelect == {"select", "onDone", "onBroadcast"}
HoldsSlot == {"admitted", "running", "leaving"}

Waiters == {r \in Reqs : pc[r] \in InSelect}
Holders == {r \in Reqs : pc[r] \in HoldsSlot}

newAdmissionGate == /\ inFlight = 0
                    /\ queued = 0
                    /\ stopped = FALSE

Init == /\ newAdmissionGate
        /\ metricsInFlight = 0
        /\ metricsQueued = 0
        /\ pc = [r \in Reqs |-> "idle"]
        /\ b = [r \in Reqs |-> "closed"]
        /\ err = [r \in Reqs |-> "nil"]
        /\ status = [r \in Reqs |-> "none"]
        /\ gone = {}

------------------------------------------------------------------------------
(* acquire, first critical section *)

AcquireStopped(r) ==
  /\ pc[r] = "idle"
  /\ stopped
  /\ pc' = [pc EXCEPT ![r] = "refused"]
  /\ err' = [err EXCEPT ![r] = "errShuttingDown"]
  /\ UNCHANGED <<gateVars, metricVars, b, status, gone>>

AcquireFree(r) ==
  /\ pc[r] = "idle"
  /\ ~stopped
  /\ inFlight < MaxJobs
  /\ inFlight' = inFlight + 1
  /\ pc' = [pc EXCEPT ![r] = "admitted"]
  /\ UNCHANGED <<queued, stopped, metricVars, b, err, status, gone>>

AcquireFull(r) ==
  /\ pc[r] = "idle"
  /\ ~stopped
  /\ inFlight >= MaxJobs
  /\ queued >= MaxQueued
  /\ pc' = [pc EXCEPT ![r] = "refused"]
  /\ err' = [err EXCEPT ![r] = "errQueueFull"]
  /\ UNCHANGED <<gateVars, metricVars, b, status, gone>>

\* The bound of the queue off by one.
AcquireQueueLate(r) ==
  /\ pc[r] = "idle"
  /\ ~stopped
  /\ inFlight >= MaxJobs
  /\ queued <= MaxQueued
  /\ queued' = queued + 1
  /\ metricsQueued' = metricsQueued + 1
  /\ b' = [b EXCEPT ![r] = "open"]
  /\ pc' = [pc EXCEPT ![r] = "select"]
  /\ UNCHANGED <<inFlight, stopped, metricsInFlight, err, status, gone>>

AcquireQueue(r) ==
  /\ pc[r] = "idle"
  /\ ~stopped
  /\ inFlight >= MaxJobs
  /\ queued < MaxQueued
  /\ queued' = queued + 1
  /\ metricsQueued' = metricsQueued + 1
  /\ b' = [b EXCEPT ![r] = "open"]
  /\ pc' = [pc EXCEPT ![r] = "select"]
  /\ UNCHANGED <<inFlight, stopped, metricsInFlight, err, status, gone>>

------------------------------------------------------------------------------
(* acquire, the wait: select picks any ready case, then takes the mutex *)

SelectDone(r) ==
  /\ pc[r] = "select"
  /\ r \in gone
  /\ pc' = [pc EXCEPT ![r] = "onDone"]
  /\ UNCHANGED <<gateVars, metricVars, b, err, status, gone>>

SelectBroadcast(r) ==
  /\ pc[r] = "select"
  /\ b[r] = "closed"
  /\ pc' = [pc EXCEPT ![r] = "onBroadcast"]
  /\ UNCHANGED <<gateVars, metricVars, b, err, status, gone>>

\* The ticket goes, the gauge that /info shows stays.
DropTicketOnly == /\ queued' = queued - 1
                  /\ UNCHANGED metricsQueued

DropTicket == /\ queued' = queued - 1
              /\ metricsQueued' = metricsQueued - 1

GiveUp(r) ==
  /\ pc[r] = "onDone"
  /\ DropTicket
  /\ pc' = [pc EXCEPT ![r] = "refused"]
  /\ err' = [err EXCEPT ![r] = "ctxErr"]
  /\ UNCHANGED <<inFlight, stopped, metricsInFlight, b, status, gone>>

WakeStopped(r) ==
  /\ pc[r] = "onBroadcast"
  /\ stopped
  /\ DropTicket
  /\ pc' = [pc EXCEPT ![r] = "refused"]
  /\ err' = [err EXCEPT ![r] = "errShuttingDown"]
  /\ UNCHANGED <<inFlight, stopped, metricsInFlight, b, status, gone>>

\* The waiter trusts the wakeup and does not look at stopped again.
WakeAdmittedBlindly(r) ==
  /\ pc[r] = "onBroadcast"
  /\ inFlight < MaxJobs
  /\ DropTicket
  /\ inFlight' = inFlight + 1
  /\ pc' = [pc EXCEPT ![r] = "admitted"]
  /\ UNCHANGED <<stopped, metricsInFlight, b, err, status, gone>>

WakeAdmitted(r) ==
  /\ pc[r] = "onBroadcast"
  /\ ~stopped
  /\ inFlight < MaxJobs
  /\ DropTicket
  /\ inFlight' = inFlight + 1
  /\ pc' = [pc EXCEPT ![r] = "admitted"]
  /\ UNCHANGED <<stopped, metricsInFlight, b, err, status, gone>>

WakeWait(r) ==
  /\ pc[r] = "onBroadcast"
  /\ ~stopped
  /\ inFlight >= MaxJobs
  /\ b' = [b EXCEPT ![r] = "open"]
  /\ pc' = [pc EXCEPT ![r] = "select"]
  /\ UNCHANGED <<gateVars, metricVars, err, status, gone>>

------------------------------------------------------------------------------
(* HandleRun around acquire and release *)

\* classifyAcquireErr reads the context again, after acquire has returned: a
\* client that left meanwhile turns shutting_down into cancelled.
classifyAcquireErr(r) == IF r \notin gone /\ err[r] = "errShuttingDown"
                         THEN "shutting_down"
                         ELSE "cancelled"

\* classifyAcquireErr deciding on the error alone, without asking whether the
\* queue was full or the server stopping.
AnswerRefusalAsCancelled(r) ==
  /\ pc[r] = "refused"
  /\ status' = [status EXCEPT ![r] = "cancelled"]
  /\ pc' = [pc EXCEPT ![r] = "answered"]
  /\ UNCHANGED <<gateVars, metricVars, b, err, gone>>

AnswerRefusal(r) ==
  /\ pc[r] = "refused"
  /\ status' = [status EXCEPT ![r] = IF err[r] = "errQueueFull"
                                     THEN "queue_full"
                                     ELSE classifyAcquireErr(r)]
  /\ pc' = [pc EXCEPT ![r] = "answered"]
  /\ UNCHANGED <<gateVars, metricVars, b, err, gone>>

StartRun(r) ==
  /\ pc[r] = "admitted"
  /\ metricsInFlight' = metricsInFlight + 1
  /\ pc' = [pc EXCEPT ![r] = "running"]
  /\ UNCHANGED <<gateVars, metricsQueued, b, err, status, gone>>

\* ExecuteRun has returned: the handler reads the context, records the run and
\* its deferred function starts with the metrics.
FinishRun(r) ==
  /\ pc[r] = "running"
  /\ status' = [status EXCEPT ![r] = IF r \in gone THEN "cancelled"
                                                   ELSE "completed"]
  /\ metricsInFlight' = metricsInFlight - 1
  /\ pc' = [pc EXCEPT ![r] = "leaving"]
  /\ UNCHANGED <<gateVars, metricsQueued, b, err, gone>>

\* close(g.broadcast) and a new channel, which nobody holds yet
WakeAll == b' = IF queued > 0 THEN [r \in Reqs |-> "closed"] ELSE b

\* release waking nobody when only one request is queued.
releaseForgetsLast(r) ==
  /\ pc[r] = "leaving"
  /\ inFlight' = inFlight - 1
  /\ b' = IF queued > 1 THEN [q \in Reqs |-> "closed"] ELSE b
  /\ pc' = [pc EXCEPT ![r] = "answered"]
  /\ UNCHANGED <<queued, stopped, metricVars, err, status, gone>>

release(r) ==
  /\ pc[r] = "leaving"
  /\ inFlight' = inFlight - 1
  /\ WakeAll
  /\ pc' = [pc EXCEPT ![r] = "answered"]
  /\ UNCHANGED <<queued, stopped, metricVars, err, status, gone>>

\* Stop leaves the queued requests where they are.
StopSilently ==
  /\ ~stopped
  /\ stopped' = TRUE
  /\ UNCHANGED <<inFlight, queued, metricVars, pc, b, err, status, gone>>

\* main calls Stop once, when the first signal arrives.
Stop ==
  /\ ~stopped
  /\ stopped' = TRUE
  /\ WakeAll
  /\ UNCHANGED <<inFlight, queued, metricVars, pc, err, status, gone>>

\* External: net/http cancels the request context when the client disconnects.
Disconnect(r) ==
  /\ pc[r] # "answered"
  /\ gone' = gone \union {r}
  /\ UNCHANGED <<gateVars, metricVars, pc, b, err, status>>

------------------------------------------------------------------------------
HandlerStep(r) ==
  \/ AcquireStopped(r) \/ AcquireFree(r) \/ AcquireFull(r) \/ AcquireQueue(r)
  \/ SelectDone(r) \/ SelectBroadcast(r)
  \/ GiveUp(r) \/ WakeStopped(r) \/ WakeAdmitted(r) \/ WakeWait(r)
  \/ AnswerRefusal(r) \/ StartRun(r) \/ FinishRun(r) \/ release(r)

Next == \/ \E r \in Reqs : HandlerStep(r) \/ Disconnect(r)
        \/ Stop

Spec == Init /\ [][Next]_vars

(* Go's scheduler runs every runnable goroutine and sync.Mutex never starves *)
(* a caller; ExecuteRun returns because every exec has a wall clock limit.   *)
Fairness == \A r \in Reqs : WF_vars(HandlerStep(r))

FairSpec == Spec /\ Fairness

------------------------------------------------------------------------------
\* Every variable has its type, and no counter leaves its bound.
TypeOK ==
  /\ inFlight \in 0..MaxJobs
  /\ queued \in 0..MaxQueued
  /\ stopped \in BOOLEAN
  /\ metricsInFlight \in 0..MaxJobs
  /\ metricsQueued \in 0..MaxQueued
  /\ pc \in [Reqs -> {"idle", "refused", "answered"} \union InSelect
                                                     \union HoldsSlot]
  /\ b \in [Reqs -> {"open", "closed"}]
  /\ err \in [Reqs -> {"nil", "errQueueFull", "errShuttingDown", "ctxErr"}]
  /\ status \in [Reqs -> {"none", "queue_full", "shutting_down", "cancelled",
                          "completed"}]
  /\ gone \subseteq Reqs

(* The gate's counters count: inFlight is the number of handlers between     *)
(* acquire and release, queued the number in the wait, and the metrics that  *)
(* /info and the shutdown read are the queue and the handlers inside         *)
(* ExecuteRun, so they miss a handler on either side of it.                  *)
CountsExact ==
  /\ inFlight = Cardinality(Holders)
  /\ queued = Cardinality(Waiters)
  /\ metricsQueued = queued
  /\ metricsInFlight = Cardinality({r \in Reqs : pc[r] = "running"})

(* "A release can never be missed by a waiter that is holding the current    *)
(* channel": a handler that would sleep in the select, because the channel   *)
(* it holds is still open, sleeps with every slot taken and the gate not     *)
(* stopped.  So a free slot or a Stop never leaves anyone asleep.            *)
NoLostWakeup ==
  \A r \in Reqs : pc[r] = "select" /\ b[r] = "open"
                    => inFlight = MaxJobs /\ ~stopped

(* What a request is recorded as is what happened to it: shutting_down only  *)
(* after Stop, and cancelled only if its client really went away, although   *)
(* the context is read again long after acquire made its decision.           *)
RecordedHonestly ==
  \A r \in Reqs : /\ status[r] = "cancelled" => r \in gone
                  /\ status[r] = "shutting_down" => stopped

(* Once Stop has run, no handler gets a slot any more, not even one that a   *)
(* release had already woken.                                                *)
NothingAdmittedAfterStop == [][stopped => Holders' \subseteq Holders]_vars

(* Every request that reached the gate is answered or recorded in the end:   *)
(* no waiter sleeps for ever, whatever order wakeups, cancellations and the  *)
(* newcomers that overtake the queue come in.  A handler never goes back to  *)
(* idle, so this says that each one that began gets to its end.              *)
EveryRequestEnds == <>[](\A r \in Reqs : pc[r] \in {"idle", "answered"})

\* What the handlers look like to JobAdmission.
JobPhase == [r \in Reqs |-> CASE pc[r] = "idle" -> "new"
                             [] pc[r] \in InSelect -> "waiting"
                             [] pc[r] \in HoldsSlot -> "running"
                             [] pc[r] \in {"refused", "answered"} -> "over"]

Jobs == INSTANCE JobAdmission WITH phase <- JobPhase, closed <- stopped

(* The gate implements bounded admission.                                    *)
ImplementsJobAdmission == Jobs!Spec
=============================================================================
