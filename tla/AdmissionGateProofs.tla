------------------------- MODULE AdmissionGateProofs -------------------------
(***************************************************************************)
(* The gate's safety, for every finite set of requests and all limits, and *)
(* what it is for main, which stops it, waits for its handlers and sweeps  *)
(* up after them.                                                          *)
(***************************************************************************)
EXTENDS Shutdown, FiniteSetTheorems, TLAPS

\* The number of handlers that are at one of the places in V.
Executing == {"running"}
At(p, V) == {q \in Reqs : p[q] \in V}
Count(p, V) == Cardinality(At(p, V))

(* What moving the handler of r does to the number of handlers in V.         *)
LEMMA CountMove ==
  ASSUME TypeOK, NEW r \in Reqs, NEW v, pc' = [pc EXCEPT ![r] = v], NEW V
  PROVE  /\ Count(pc, V) \in Nat
         /\ pc[r] \in V /\ v \in V => Count(pc', V) = Count(pc, V)
         /\ pc[r] \notin V /\ v \notin V => Count(pc', V) = Count(pc, V)
         /\ pc[r] \in V /\ v \notin V => /\ Count(pc, V) >= 1
                                         /\ Count(pc', V) = Count(pc, V) - 1
         /\ pc[r] \notin V /\ v \in V => Count(pc', V) = Count(pc, V) + 1
<1>1. IsFiniteSet(Reqs)
  BY GateAssumption
<1>2. At(pc, V) \subseteq Reqs /\ At(pc', V) \subseteq Reqs
  BY DEF At
<1>3. IsFiniteSet(At(pc, V)) /\ IsFiniteSet(At(pc', V))
  BY <1>1, <1>2, FS_Subset
<1>4. Count(pc, V) \in Nat /\ Count(pc', V) \in Nat
  BY <1>3, FS_CardinalityType DEF Count
<1>5. ASSUME pc[r] \in V <=> v \in V
      PROVE  Count(pc', V) = Count(pc, V)
  <2>1. At(pc', V) = At(pc, V)
    BY <1>5 DEF At, TypeOK
  <2> QED
    BY <2>1 DEF Count
<1>6. ASSUME pc[r] \in V, v \notin V
      PROVE  Count(pc, V) >= 1 /\ Count(pc', V) = Count(pc, V) - 1
  <2>1. At(pc', V) = At(pc, V) \ {r} /\ r \in At(pc, V)
    BY <1>6 DEF At, TypeOK
  <2>2. Cardinality(At(pc', V)) = Cardinality(At(pc, V)) - 1
    BY <1>3, <2>1, FS_RemoveElement
  <2> QED
    BY <2>2, <1>4 DEF Count
<1>7. ASSUME pc[r] \notin V, v \in V
      PROVE  Count(pc', V) = Count(pc, V) + 1
  <2>1. At(pc', V) = At(pc, V) \union {r} /\ r \notin At(pc, V)
    BY <1>7 DEF At, TypeOK
  <2>2. Cardinality(At(pc', V)) = Cardinality(At(pc, V)) + 1
    BY <1>3, <2>1, FS_AddElement
  <2> QED
    BY <2>2 DEF Count
<1> QED
  BY <1>4, <1>5, <1>6, <1>7

(* A set of handlers is empty when it counts zero, and counts at most as     *)
(* many as a set of places that includes its own.                            *)
LEMMA CountZero ==
  ASSUME NEW p, NEW V, Count(p, V) = 0, NEW r \in Reqs
  PROVE  p[r] \notin V
<1>1. IsFiniteSet(At(p, V))
  BY GateAssumption, FS_Subset DEF At
<1>2. At(p, V) = {}
  BY <1>1, FS_EmptySet DEF Count
<1> QED
  BY <1>2 DEF At

LEMMA CountSubset ==
  ASSUME NEW p, NEW V, NEW W, V \subseteq W
  PROVE  /\ Count(p, V) \in Nat
         /\ Count(p, W) \in Nat
         /\ Count(p, V) <= Count(p, W)
<1>1. IsFiniteSet(At(p, W)) /\ At(p, V) \subseteq At(p, W)
  BY GateAssumption, FS_Subset DEF At
<1> QED
  BY <1>1, FS_Subset, FS_CardinalityType DEF Count

------------------------------------------------------------------------------
\* The exact counts in terms of Count.
LEMMA CountsAt ==
  CountsExact <=> /\ inFlight = Count(pc, HoldsSlot)
                  /\ queued = Count(pc, InSelect)
                  /\ metricsQueued = queued
                  /\ metricsInFlight = Count(pc, Executing)
<1>1. {r \in Reqs : pc[r] = "running"} = At(pc, Executing)
  BY DEF At, Executing
<1> QED
  BY <1>1 DEF CountsExact, Count, At, Holders, Waiters

LEMMA CountsAtNext ==
  CountsExact' <=> /\ inFlight' = Count(pc', HoldsSlot)
                   /\ queued' = Count(pc', InSelect)
                   /\ metricsQueued' = queued'
                   /\ metricsInFlight' = Count(pc', Executing)
<1>1. {r \in Reqs : pc'[r] = "running"} = At(pc', Executing)
  BY DEF At, Executing
<1> QED
  BY <1>1 DEF CountsExact, Count, At, Holders, Waiters

------------------------------------------------------------------------------
\* The inductive invariant: the types need the exact counts (a counter stays
\* at or above zero because a handler is counted), and NoLostWakeup needs them
\* because release wakes the queue only when queued says somebody waits.
IInv == TypeOK /\ CountsExact /\ NoLostWakeup

LEMMA InitIInv == Init => IInv
<1> SUFFICES ASSUME Init PROVE IInv
  OBVIOUS
<1> USE DEF Init, newAdmissionGate
<1>1. TypeOK
  <2>1. 0 \in 0..MaxJobs /\ 0 \in 0..MaxQueued
    BY GateAssumption
  <2>2. b \in [Reqs -> {"open", "closed"}]
    OBVIOUS
  <2>3. pc \in [Reqs -> {"idle", "refused", "answered"} \union InSelect
                                                       \union HoldsSlot]
    OBVIOUS
  <2>4. stopped \in BOOLEAN
    OBVIOUS
  <2>5. /\ err \in [Reqs -> {"nil", "errQueueFull", "errShuttingDown",
                             "ctxErr"}]
        /\ status \in [Reqs -> {"none", "queue_full", "shutting_down",
                                "cancelled", "completed"}]
    OBVIOUS
  <2>6. gone \subseteq Reqs
    OBVIOUS
  <2>7. inFlight \in 0..MaxJobs /\ queued \in 0..MaxQueued
    BY <2>1
  <2>8. metricsInFlight \in 0..MaxJobs /\ metricsQueued \in 0..MaxQueued
    BY <2>1
  <2> QED
    BY <2>1, <2>2, <2>3, <2>4, <2>5, <2>6, <2>7, <2>8 DEF TypeOK
<1>2. CountsExact
  <2>1. Holders = {} /\ Waiters = {} /\ {r \in Reqs : pc[r] = "running"} = {}
    BY DEF Holders, Waiters, HoldsSlot, InSelect
  <2> QED
    BY <2>1, FS_EmptySet DEF CountsExact
<1>3. NoLostWakeup
  BY DEF NoLostWakeup
<1> QED
  BY <1>1, <1>2, <1>3 DEF IInv

\* One step moves the handler of r and the counters follow it.
LEMMA HandlerCounts ==
  ASSUME IInv, NEW r \in Reqs, HandlerStep(r)
  PROVE  CountsExact'
<1> DEFINE H == Count(pc, HoldsSlot)
           W == Count(pc, InSelect)
           R == Count(pc, Executing)
<1>1. /\ inFlight = H /\ queued = W /\ metricsQueued = queued
      /\ metricsInFlight = R /\ H \in Nat /\ W \in Nat /\ R \in Nat
  BY CountsAt, CountSubset DEF IInv
<1>2. TypeOK
  BY DEF IInv
<1>3. ASSUME NEW v, pc' = [pc EXCEPT ![r] = v]
      PROVE  /\ pc[r] \in HoldsSlot <=> v \in HoldsSlot
                  => Count(pc', HoldsSlot) = H
             /\ pc[r] \in HoldsSlot /\ v \notin HoldsSlot
                  => Count(pc', HoldsSlot) = H - 1
             /\ pc[r] \notin HoldsSlot /\ v \in HoldsSlot
                  => Count(pc', HoldsSlot) = H + 1
  BY <1>2, <1>3, CountMove
<1>4. ASSUME NEW v, pc' = [pc EXCEPT ![r] = v]
      PROVE  /\ pc[r] \in InSelect <=> v \in InSelect
                  => Count(pc', InSelect) = W
             /\ pc[r] \in InSelect /\ v \notin InSelect
                  => Count(pc', InSelect) = W - 1
             /\ pc[r] \notin InSelect /\ v \in InSelect
                  => Count(pc', InSelect) = W + 1
  BY <1>2, <1>4, CountMove
<1>5. ASSUME NEW v, pc' = [pc EXCEPT ![r] = v]
      PROVE  /\ pc[r] \in Executing <=> v \in Executing
                  => Count(pc', Executing) = R
             /\ pc[r] \in Executing /\ v \notin Executing
                  => Count(pc', Executing) = R - 1
             /\ pc[r] \notin Executing /\ v \in Executing
                  => Count(pc', Executing) = R + 1
  BY <1>2, <1>5, CountMove
<1> HIDE DEF H, W, R
<1> SUFFICES /\ inFlight' = Count(pc', HoldsSlot)
             /\ queued' = Count(pc', InSelect)
             /\ metricsQueued' = queued'
             /\ metricsInFlight' = Count(pc', Executing)
  BY CountsAtNext
<1> USE <1>1 DEF gateVars, metricVars, InSelect, HoldsSlot, Executing,
                 DropTicket, WakeAll
<1>6. CASE AcquireStopped(r)
  <2>1. pc' = [pc EXCEPT ![r] = "refused"]
    BY <1>6 DEF AcquireStopped
  <2> QED
    BY <1>6, <1>3, <1>4, <1>5, <2>1 DEF AcquireStopped
<1>7. CASE AcquireFree(r)
  <2>1. pc' = [pc EXCEPT ![r] = "admitted"]
    BY <1>7 DEF AcquireFree
  <2> QED
    BY <1>7, <1>3, <1>4, <1>5, <2>1 DEF AcquireFree
<1>8. CASE AcquireFull(r)
  <2>1. pc' = [pc EXCEPT ![r] = "refused"]
    BY <1>8 DEF AcquireFull
  <2> QED
    BY <1>8, <1>3, <1>4, <1>5, <2>1 DEF AcquireFull
<1>9. CASE AcquireQueue(r)
  <2>1. pc' = [pc EXCEPT ![r] = "select"]
    BY <1>9 DEF AcquireQueue
  <2> QED
    BY <1>9, <1>3, <1>4, <1>5, <2>1 DEF AcquireQueue
<1>10. CASE SelectDone(r)
  <2>1. pc' = [pc EXCEPT ![r] = "onDone"]
    BY <1>10 DEF SelectDone
  <2> QED
    BY <1>10, <1>3, <1>4, <1>5, <2>1 DEF SelectDone
<1>11. CASE SelectBroadcast(r)
  <2>1. pc' = [pc EXCEPT ![r] = "onBroadcast"]
    BY <1>11 DEF SelectBroadcast
  <2> QED
    BY <1>11, <1>3, <1>4, <1>5, <2>1 DEF SelectBroadcast
<1>12. CASE GiveUp(r)
  <2>1. pc' = [pc EXCEPT ![r] = "refused"]
    BY <1>12 DEF GiveUp
  <2>2. /\ Count(pc', HoldsSlot) = H
        /\ Count(pc', InSelect) = W - 1
        /\ Count(pc', Executing) = R
    BY <1>12, <1>3, <1>4, <1>5, <2>1 DEF GiveUp
  <2> QED
    BY <1>12, <2>2 DEF GiveUp
<1>13. CASE WakeStopped(r)
  <2>1. pc' = [pc EXCEPT ![r] = "refused"]
    BY <1>13 DEF WakeStopped
  <2> QED
    BY <1>13, <1>3, <1>4, <1>5, <2>1 DEF WakeStopped
<1>14. CASE WakeAdmitted(r)
  <2>1. pc' = [pc EXCEPT ![r] = "admitted"]
    BY <1>14 DEF WakeAdmitted
  <2> QED
    BY <1>14, <1>3, <1>4, <1>5, <2>1 DEF WakeAdmitted
<1>15. CASE WakeWait(r)
  <2>1. pc' = [pc EXCEPT ![r] = "select"]
    BY <1>15 DEF WakeWait
  <2> QED
    BY <1>15, <1>3, <1>4, <1>5, <2>1 DEF WakeWait
<1>16. CASE AnswerRefusal(r)
  <2>1. pc' = [pc EXCEPT ![r] = "answered"]
    BY <1>16 DEF AnswerRefusal
  <2> QED
    BY <1>16, <1>3, <1>4, <1>5, <2>1 DEF AnswerRefusal
<1>17. CASE StartRun(r)
  <2>1. pc' = [pc EXCEPT ![r] = "running"]
    BY <1>17 DEF StartRun
  <2> QED
    BY <1>17, <1>3, <1>4, <1>5, <2>1 DEF StartRun
<1>18. CASE FinishRun(r)
  <2>1. pc' = [pc EXCEPT ![r] = "leaving"]
    BY <1>18 DEF FinishRun
  <2> QED
    BY <1>18, <1>3, <1>4, <1>5, <2>1 DEF FinishRun
<1>19. CASE release(r)
  <2>1. pc' = [pc EXCEPT ![r] = "answered"]
    BY <1>19 DEF release
  <2> QED
    BY <1>19, <1>3, <1>4, <1>5, <2>1 DEF release
<1> QED
  BY <1>6, <1>7, <1>8, <1>9, <1>10, <1>11, <1>12, <1>13, <1>14, <1>15,
     <1>16, <1>17, <1>18, <1>19 DEF HandlerStep

\* The counters stay within their limits because they count handlers.
LEMMA HandlerTypes ==
  ASSUME IInv, NEW r \in Reqs, HandlerStep(r), CountsExact'
  PROVE  TypeOK'
<1>1. /\ inFlight' \in Nat /\ queued' \in Nat /\ metricsQueued' = queued'
      /\ metricsInFlight' \in Nat /\ metricsInFlight' <= inFlight'
  <2>1. Executing \subseteq HoldsSlot
    BY DEF Executing, HoldsSlot
  <2>2. /\ Count(pc', Executing) \in Nat
        /\ Count(pc', HoldsSlot) \in Nat
        /\ Count(pc', Executing) <= Count(pc', HoldsSlot)
    BY <2>1, CountSubset
  <2>3. Count(pc', InSelect) \in Nat
    BY CountSubset
  <2> QED
    BY <2>2, <2>3, CountsAtNext
<1>2. /\ inFlight \in 0..MaxJobs /\ queued \in 0..MaxQueued
      /\ MaxJobs \in Nat /\ MaxQueued \in Nat
  BY GateAssumption DEF IInv, TypeOK
<1>3. inFlight' <= MaxJobs /\ queued' <= MaxQueued
  <2>1. CASE AcquireStopped(r)
    BY <1>1, <1>2, <2>1 DEF AcquireStopped, gateVars, DropTicket
  <2>2. CASE AcquireFree(r)
    BY <1>1, <1>2, <2>2 DEF AcquireFree, gateVars, DropTicket
  <2>3. CASE AcquireFull(r)
    BY <1>1, <1>2, <2>3 DEF AcquireFull, gateVars, DropTicket
  <2>4. CASE AcquireQueue(r)
    BY <1>1, <1>2, <2>4 DEF AcquireQueue, gateVars, DropTicket
  <2>5. CASE SelectDone(r)
    BY <1>1, <1>2, <2>5 DEF SelectDone, gateVars, DropTicket
  <2>6. CASE SelectBroadcast(r)
    BY <1>1, <1>2, <2>6 DEF SelectBroadcast, gateVars, DropTicket
  <2>7. CASE GiveUp(r)
    BY <1>1, <1>2, <2>7 DEF GiveUp, gateVars, DropTicket
  <2>8. CASE WakeStopped(r)
    BY <1>1, <1>2, <2>8 DEF WakeStopped, gateVars, DropTicket
  <2>9. CASE WakeAdmitted(r)
    BY <1>1, <1>2, <2>9 DEF WakeAdmitted, gateVars, DropTicket
  <2>10. CASE WakeWait(r)
    BY <1>1, <1>2, <2>10 DEF WakeWait, gateVars, DropTicket
  <2>11. CASE AnswerRefusal(r)
    BY <1>1, <1>2, <2>11 DEF AnswerRefusal, gateVars, DropTicket
  <2>12. CASE StartRun(r)
    BY <1>1, <1>2, <2>12 DEF StartRun, gateVars, DropTicket
  <2>13. CASE FinishRun(r)
    BY <1>1, <1>2, <2>13 DEF FinishRun, gateVars, DropTicket
  <2>14. CASE release(r)
    BY <1>1, <1>2, <2>14 DEF release, gateVars, DropTicket
  <2> QED
    BY <2>1, <2>2, <2>3, <2>4, <2>5, <2>6, <2>7, <2>8, <2>9, <2>10,
       <2>11, <2>12, <2>13, <2>14 DEF HandlerStep
<1>4. /\ inFlight' \in 0..MaxJobs /\ metricsInFlight' \in 0..MaxJobs
      /\ queued' \in 0..MaxQueued /\ metricsQueued' \in 0..MaxQueued
  BY <1>1, <1>2, <1>3
<1>5. stopped' \in BOOLEAN /\ gone' \subseteq Reqs
  <2>1. CASE AcquireStopped(r)
    BY <2>1, Zenon DEF AcquireStopped, IInv, TypeOK, gateVars
  <2>2. CASE AcquireFree(r)
    BY <2>2, Zenon DEF AcquireFree, IInv, TypeOK, gateVars
  <2>3. CASE AcquireFull(r)
    BY <2>3, Zenon DEF AcquireFull, IInv, TypeOK, gateVars
  <2>4. CASE AcquireQueue(r)
    BY <2>4, Zenon DEF AcquireQueue, IInv, TypeOK, gateVars
  <2>5. CASE SelectDone(r)
    BY <2>5, Zenon DEF SelectDone, IInv, TypeOK, gateVars
  <2>6. CASE SelectBroadcast(r)
    BY <2>6, Zenon DEF SelectBroadcast, IInv, TypeOK, gateVars
  <2>7. CASE GiveUp(r)
    BY <2>7, Zenon DEF GiveUp, IInv, TypeOK, gateVars
  <2>8. CASE WakeStopped(r)
    BY <2>8, Zenon DEF WakeStopped, IInv, TypeOK, gateVars
  <2>9. CASE WakeAdmitted(r)
    BY <2>9, Zenon DEF WakeAdmitted, IInv, TypeOK, gateVars
  <2>10. CASE WakeWait(r)
    BY <2>10, Zenon DEF WakeWait, IInv, TypeOK, gateVars
  <2>11. CASE AnswerRefusal(r)
    BY <2>11, Zenon DEF AnswerRefusal, IInv, TypeOK, gateVars
  <2>12. CASE StartRun(r)
    BY <2>12, Zenon DEF StartRun, IInv, TypeOK, gateVars
  <2>13. CASE FinishRun(r)
    BY <2>13, Zenon DEF FinishRun, IInv, TypeOK, gateVars
  <2>14. CASE release(r)
    BY <2>14, Zenon DEF release, IInv, TypeOK, gateVars
  <2> QED
    BY <2>1, <2>2, <2>3, <2>4, <2>5, <2>6, <2>7, <2>8, <2>9, <2>10,
       <2>11, <2>12, <2>13, <2>14 DEF HandlerStep
<1>6. \/ b' \in {b, [q \in Reqs |-> "closed"]}
      \/ b' = [b EXCEPT ![r] = "open"]
  BY DEF HandlerStep, WakeAll,
         AcquireStopped, AcquireFree, AcquireFull, AcquireQueue, SelectDone,
         SelectBroadcast, GiveUp, WakeStopped, WakeAdmitted, WakeWait,
         AnswerRefusal, StartRun, FinishRun, release
<1>8. b' \in [Reqs -> {"open", "closed"}]
  BY <1>6 DEF IInv, TypeOK
<1>9. \E v \in {"refused", "answered"} \union InSelect \union HoldsSlot :
         pc' = [pc EXCEPT ![r] = v]
  BY DEF HandlerStep, InSelect, HoldsSlot,
         AcquireStopped, AcquireFree, AcquireFull, AcquireQueue, SelectDone,
         SelectBroadcast, GiveUp, WakeStopped, WakeAdmitted, WakeWait,
         AnswerRefusal, StartRun, FinishRun, release
<1>10. pc' \in [Reqs -> {"idle", "refused", "answered"} \union InSelect
                                                        \union HoldsSlot]
  BY <1>9 DEF IInv, TypeOK
<1>11. \/ err' = err
       \/ \E e \in {"errQueueFull", "errShuttingDown", "ctxErr"} :
            err' = [err EXCEPT ![r] = e]
  BY DEF HandlerStep,
         AcquireStopped, AcquireFree, AcquireFull, AcquireQueue, SelectDone,
         SelectBroadcast, GiveUp, WakeStopped, WakeAdmitted, WakeWait,
         AnswerRefusal, StartRun, FinishRun, release
<1>12. \/ status' = status
       \/ \E e \in {"queue_full", "shutting_down", "cancelled", "completed"} :
            status' = [status EXCEPT ![r] = e]
  BY DEF HandlerStep, classifyAcquireErr,
         AcquireStopped, AcquireFree, AcquireFull, AcquireQueue, SelectDone,
         SelectBroadcast, GiveUp, WakeStopped, WakeAdmitted, WakeWait,
         AnswerRefusal, StartRun, FinishRun, release
<1>13. err' \in [Reqs -> {"nil", "errQueueFull", "errShuttingDown", "ctxErr"}]
  BY <1>11 DEF IInv, TypeOK
<1>14. status' \in [Reqs -> {"none", "queue_full", "shutting_down", "cancelled",
                             "completed"}]
  BY <1>12 DEF IInv, TypeOK
<1> QED
  BY <1>4, <1>5, <1>8, <1>10, <1>13, <1>14 DEF TypeOK

\* A handler goes to sleep only with every slot taken, and the step that
\* frees a slot closes the channel every sleeper holds.
LEMMA HandlerWakeups ==
  ASSUME IInv, NEW r \in Reqs, HandlerStep(r)
  PROVE  NoLostWakeup'
<1>1. /\ inFlight \in 0..MaxJobs /\ MaxJobs \in Nat
      /\ b \in [Reqs -> {"open", "closed"}]
      /\ pc \in [Reqs -> {"idle", "refused", "answered"} \union InSelect
                                                         \union HoldsSlot]
  BY GateAssumption DEF IInv, TypeOK
<1>2. ASSUME NEW q \in Reqs, pc[q] = "select", b[q] = "open"
      PROVE  inFlight = MaxJobs /\ ~stopped
  BY <1>2 DEF IInv, NoLostWakeup
<1>3. ASSUME NEW q \in Reqs, pc'[q] = "select", b'[q] = "open"
      PROVE  inFlight' = MaxJobs /\ ~stopped'
  <2>1. CASE AcquireStopped(r)
    BY <1>1, <1>2, <1>3, <2>1 DEF AcquireStopped, gateVars
  <2>2. CASE AcquireFree(r)
    BY <1>1, <1>2, <1>3, <2>2 DEF AcquireFree, gateVars
  <2>3. CASE AcquireFull(r)
    BY <1>1, <1>2, <1>3, <2>3 DEF AcquireFull, gateVars
  <2>4. CASE AcquireQueue(r)
    BY <1>1, <1>2, <1>3, <2>4 DEF AcquireQueue, gateVars
  <2>5. CASE SelectDone(r)
    BY <1>1, <1>2, <1>3, <2>5 DEF SelectDone, gateVars
  <2>6. CASE SelectBroadcast(r)
    BY <1>1, <1>2, <1>3, <2>6 DEF SelectBroadcast, gateVars
  <2>7. CASE GiveUp(r)
    BY <1>1, <1>2, <1>3, <2>7 DEF GiveUp, gateVars
  <2>8. CASE WakeStopped(r)
    BY <1>1, <1>2, <1>3, <2>8 DEF WakeStopped, gateVars
  <2>9. CASE WakeAdmitted(r)
    BY <1>1, <1>2, <1>3, <2>9 DEF WakeAdmitted, gateVars
  <2>10. CASE WakeWait(r)
    BY <1>1, <1>2, <1>3, <2>10 DEF WakeWait, gateVars
  <2>11. CASE AnswerRefusal(r)
    BY <1>1, <1>2, <1>3, <2>11 DEF AnswerRefusal, gateVars
  <2>12. CASE StartRun(r)
    BY <1>1, <1>2, <1>3, <2>12 DEF StartRun, gateVars
  <2>13. CASE FinishRun(r)
    BY <1>1, <1>2, <1>3, <2>13 DEF FinishRun, gateVars
  <2>14. CASE release(r)
    <3>1. pc[q] = "select"
      BY <1>1, <1>3, <2>14 DEF release
    <3>2. queued # 0
      <4>1. "select" \in InSelect
        BY DEF InSelect
      <4> QED
        BY <3>1, <4>1, CountZero, CountsAt DEF IInv
    <3>3. queued > 0
      BY <3>2 DEF IInv, TypeOK
    <3> QED
      BY <1>3, <2>14, <3>3 DEF release, WakeAll
  <2> QED
    BY <2>1, <2>2, <2>3, <2>4, <2>5, <2>6, <2>7, <2>8, <2>9, <2>10,
       <2>11, <2>12, <2>13, <2>14 DEF HandlerStep
<1> QED
  BY <1>3 DEF NoLostWakeup

------------------------------------------------------------------------------
\* The steps that move no handler.
LEMMA OtherSteps ==
  ASSUME IInv, \/ \E r \in Reqs : Disconnect(r)
               \/ Stop
               \/ UNCHANGED vars
  PROVE  IInv'
<1>1. CASE UNCHANGED vars
  BY <1>1 DEF IInv, TypeOK, CountsExact, NoLostWakeup, Holders, Waiters, vars,
              gateVars, metricVars
<1>2. ASSUME NEW r \in Reqs, Disconnect(r) PROVE IInv'
  <2>1. gone' \subseteq Reqs
    BY <1>2 DEF Disconnect, IInv, TypeOK
  <2>2. UNCHANGED <<gateVars, metricVars, pc, b, err, status>>
    BY <1>2 DEF Disconnect
  <2> QED
    BY <2>1, <2>2 DEF IInv, TypeOK, CountsExact, NoLostWakeup, Holders,
                      Waiters, gateVars, metricVars
<1>3. CASE Stop
  <2>1. CountsExact'
    BY <1>3 DEF Stop, IInv, CountsExact, Holders, Waiters, metricVars
  <2>3. stopped' \in BOOLEAN
    BY <1>3 DEF Stop
  <2>4. b' \in [Reqs -> {"open", "closed"}]
    BY <1>3 DEF Stop, WakeAll, IInv, TypeOK
  <2>5. TypeOK'
    BY <1>3, <2>3, <2>4 DEF Stop, IInv, TypeOK, metricVars
  <2>6. ASSUME NEW q \in Reqs, pc'[q] = "select"
        PROVE  b'[q] # "open"
    <3>1. pc[q] \in InSelect
      BY <1>3, <2>6 DEF Stop, InSelect
    <3>2. queued # 0
      BY <3>1, CountZero, CountsAt DEF IInv
    <3>3. queued > 0
      BY <3>2 DEF IInv, TypeOK
    <3> QED
      BY <1>3, <3>3 DEF Stop, WakeAll, IInv, TypeOK
  <2> QED
    BY <2>1, <2>5, <2>6 DEF IInv, NoLostWakeup
<1> QED
  BY <1>1, <1>2, <1>3

LEMMA NextIInv == IInv /\ [Next]_vars => IInv'
<1> SUFFICES ASSUME IInv, [Next]_vars PROVE IInv'
  OBVIOUS
<1>1. ASSUME NEW r \in Reqs, HandlerStep(r) PROVE IInv'
  BY <1>1, HandlerCounts, HandlerTypes, HandlerWakeups DEF IInv
<1> QED
  BY <1>1, OtherSteps DEF Next

(* The gate's types, and with them its limits: never more than MaxJobs in    *)
(* flight or MaxQueued in the queue, for all limits and requests.            *)
THEOREM GateTypeCorrect == Spec => []TypeOK
<1>1. IInv => TypeOK
  BY DEF IInv
<1> QED
  BY InitIInv, NextIInv, <1>1, PTL DEF Spec

(* The counters of the gate and of /info count the handlers they stand for. *)
THEOREM GateCountsExact == Spec => []CountsExact
<1>1. IInv => CountsExact
  BY DEF IInv
<1> QED
  BY InitIInv, NextIInv, <1>1, PTL DEF Spec

(* No release and no Stop is missed by a queued request.                     *)
THEOREM GateNoLostWakeup == Spec => []NoLostWakeup
<1>1. IInv => NoLostWakeup
  BY DEF IInv
<1> QED
  BY InitIInv, NextIInv, <1>1, PTL DEF Spec

(* Stop is final: no handler gets a slot after it.                           *)
THEOREM GateStopIsFinal == Spec => NothingAdmittedAfterStop
<1>1. IInv /\ [Next]_vars => [stopped => Holders' \subseteq Holders]_vars
  <2> SUFFICES ASSUME IInv, Next, stopped PROVE Holders' \subseteq Holders
    OBVIOUS
  <2>1. ASSUME NEW r \in Reqs, HandlerStep(r) PROVE Holders' \subseteq Holders
    BY <2>1 DEF HandlerStep, Holders, HoldsSlot, IInv, TypeOK,
         AcquireStopped, AcquireFree, AcquireFull, AcquireQueue, SelectDone,
         SelectBroadcast, GiveUp, WakeStopped, WakeAdmitted, WakeWait,
         AnswerRefusal, StartRun, FinishRun, release
  <2>2. ASSUME NEW r \in Reqs, Disconnect(r) PROVE Holders' \subseteq Holders
    BY <2>2 DEF Disconnect, Holders
  <2>3. CASE Stop
    BY <2>3 DEF Stop, Holders
  <2> QED
    BY <2>1, <2>2, <2>3 DEF Next
<1> QED
  BY InitIInv, NextIInv, <1>1, PTL DEF Spec, NothingAdmittedAfterStop

------------------------------------------------------------------------------
\* RecordedHonestly is not inductive: the record is made from the error that
\* acquire returned earlier, so the reasons for that error must still hold.
ReasonsHold ==
  \A r \in Reqs :
    /\ pc[r] = "onDone" => r \in gone
    /\ pc[r] = "refused" => err[r] # "nil"
    /\ err[r] = "errShuttingDown" => stopped
    /\ err[r] = "ctxErr" => r \in gone

LEMMA ReasonsNext ==
  ASSUME IInv, ReasonsHold, RecordedHonestly, [Next]_vars
  PROVE  ReasonsHold' /\ RecordedHonestly'
<1> USE DEF ReasonsHold, RecordedHonestly
<1>1. /\ pc \in [Reqs -> {"idle", "refused", "answered"} \union InSelect
                                                         \union HoldsSlot]
      /\ err \in [Reqs -> {"nil", "errQueueFull", "errShuttingDown", "ctxErr"}]
      /\ status \in [Reqs -> {"none", "queue_full", "shutting_down",
                              "cancelled", "completed"}]
      /\ gone \subseteq Reqs
  BY DEF IInv, TypeOK
<1>2. ASSUME NEW r \in Reqs, HandlerStep(r)
      PROVE  ReasonsHold' /\ RecordedHonestly'
  <2>1. CASE AcquireStopped(r)
    BY <1>1, <2>1 DEF AcquireStopped, gateVars
  <2>2. CASE AcquireFree(r)
    BY <1>1, <2>2 DEF AcquireFree, gateVars
  <2>3. CASE AcquireFull(r)
    BY <1>1, <2>3 DEF AcquireFull, gateVars
  <2>4. CASE AcquireQueue(r)
    BY <1>1, <2>4 DEF AcquireQueue, gateVars
  <2>5. CASE SelectDone(r)
    BY <1>1, <2>5 DEF SelectDone, gateVars
  <2>6. CASE SelectBroadcast(r)
    BY <1>1, <2>6 DEF SelectBroadcast, gateVars
  <2>7. CASE GiveUp(r)
    BY <1>1, <2>7 DEF GiveUp, gateVars
  <2>8. CASE WakeStopped(r)
    BY <1>1, <2>8 DEF WakeStopped, gateVars
  <2>9. CASE WakeAdmitted(r)
    BY <1>1, <2>9 DEF WakeAdmitted, gateVars
  <2>10. CASE WakeWait(r)
    BY <1>1, <2>10 DEF WakeWait, gateVars
  <2>11. CASE AnswerRefusal(r)
    BY <1>1, <2>11 DEF AnswerRefusal, gateVars, classifyAcquireErr
  <2>12. CASE StartRun(r)
    BY <1>1, <2>12 DEF StartRun, gateVars
  <2>13. CASE FinishRun(r)
    BY <1>1, <2>13 DEF FinishRun, gateVars
  <2>14. CASE release(r)
    BY <1>1, <2>14 DEF release, gateVars
  <2> QED
    BY <1>2, <2>1, <2>2, <2>3, <2>4, <2>5, <2>6, <2>7, <2>8, <2>9, <2>10,
       <2>11, <2>12, <2>13, <2>14 DEF HandlerStep
<1>3. ASSUME NEW r \in Reqs, Disconnect(r)
      PROVE  ReasonsHold' /\ RecordedHonestly'
  BY <1>1, <1>3 DEF Disconnect, gateVars
<1>4. CASE Stop
  BY <1>4 DEF Stop
<1>5. CASE UNCHANGED vars
  BY <1>5 DEF vars, gateVars
<1> QED
  BY <1>2, <1>3, <1>4, <1>5 DEF Next

(* A request is recorded as cancelled or shutting_down only for that reason. *)
THEOREM GateRecordedHonestly == Spec => []RecordedHonestly
<1>1. Init => ReasonsHold /\ RecordedHonestly
  BY DEF Init, ReasonsHold, RecordedHonestly
<1>2. ReasonsHold /\ RecordedHonestly /\ IInv /\ [Next]_vars
        => ReasonsHold' /\ RecordedHonestly'
  BY ReasonsNext
<1> QED
  BY InitIInv, NextIInv, <1>1, <1>2, PTL DEF Spec

------------------------------------------------------------------------------
\* The handlers JobAdmission sees waiting and running.
LEMMA JobsCardinality ==
  ASSUME NEW S
  PROVE  Jobs!Cardinality(S) = Cardinality(S)
BY DEF Jobs!Cardinality, Cardinality

LEMMA MappedSets ==
  ASSUME TypeOK
  PROVE  Jobs!Waiting = Waiters /\ Jobs!Running = Holders
BY DEF TypeOK, Jobs!Waiting, Jobs!Running, JobPhase, Waiters, Holders,
       InSelect, HoldsSlot

(* The gate implements JobAdmission: every step of a handler, of a client    *)
(* and of Stop is one step of the abstract specification or none.            *)
THEOREM GateImplementsJobAdmission == Spec => ImplementsJobAdmission
<1>1. ASSUME Init PROVE Jobs!Init
  <2>1. JobPhase = [r \in Reqs |-> "new"]
    BY <1>1 DEF Init, JobPhase, InSelect, HoldsSlot
  <2> QED
    BY <1>1, <2>1 DEF Init, newAdmissionGate, Jobs!Init
<1>2. ASSUME IInv, ReasonsHold, [Next]_vars PROVE [Jobs!Next]_(Jobs!vars)
  <2>1. /\ inFlight = Jobs!Cardinality(Jobs!Running)
        /\ queued = Jobs!Cardinality(Jobs!Waiting)
        /\ inFlight \in 0..MaxJobs /\ queued \in 0..MaxQueued
        /\ MaxJobs \in Nat /\ MaxQueued \in Nat
    BY <1>2, MappedSets, JobsCardinality, GateAssumption DEF IInv, TypeOK, CountsExact
  <2>2. pc \in [Reqs -> {"idle", "refused", "answered"} \union InSelect
                                                       \union HoldsSlot]
    BY <1>2 DEF IInv, TypeOK
  <2>5. ASSUME NEW r \in Reqs, HandlerStep(r)
        PROVE  [Jobs!Next]_(Jobs!vars)
    <3> USE DEF gateVars
    <3>1. CASE AcquireStopped(r)
      <4>1. JobPhase[r] = "new" /\ JobPhase' = [JobPhase EXCEPT ![r] = "over"]
        BY <2>2, <3>1 DEF AcquireStopped, JobPhase, InSelect, HoldsSlot
      <4>2. Jobs!Refuse(r)
        BY <1>2, <2>1, <3>1, <4>1 DEF AcquireStopped, Jobs!Refuse, Jobs!Move
      <4> QED
        BY <4>2 DEF Jobs!Next
    <3>2. CASE AcquireFree(r)
      <4>1. JobPhase[r] = "new" /\ JobPhase' = [JobPhase EXCEPT ![r] = "running"]
        BY <2>2, <3>2 DEF AcquireFree, JobPhase, InSelect, HoldsSlot
      <4>2. Jobs!Start(r)
        BY <1>2, <2>1, <3>2, <4>1 DEF AcquireFree, Jobs!Start, Jobs!Move
      <4> QED
        BY <4>2 DEF Jobs!Next
    <3>3. CASE AcquireFull(r)
      <4>1. JobPhase[r] = "new" /\ JobPhase' = [JobPhase EXCEPT ![r] = "over"]
        BY <2>2, <3>3 DEF AcquireFull, JobPhase, InSelect, HoldsSlot
      <4>2. Jobs!Refuse(r)
        BY <1>2, <2>1, <3>3, <4>1 DEF AcquireFull, Jobs!Refuse, Jobs!Move
      <4> QED
        BY <4>2 DEF Jobs!Next
    <3>4. CASE AcquireQueue(r)
      <4>1. JobPhase[r] = "new" /\ JobPhase' = [JobPhase EXCEPT ![r] = "waiting"]
        BY <2>2, <3>4 DEF AcquireQueue, JobPhase, InSelect, HoldsSlot
      <4>2. Jobs!Wait(r)
        BY <1>2, <2>1, <3>4, <4>1 DEF AcquireQueue, Jobs!Wait, Jobs!Move
      <4> QED
        BY <4>2 DEF Jobs!Next
    <3>5. CASE SelectDone(r)
      BY <2>2, <3>5 DEF SelectDone, Jobs!vars, JobPhase, InSelect, HoldsSlot
    <3>6. CASE SelectBroadcast(r)
      BY <2>2, <3>6 DEF SelectBroadcast, Jobs!vars, JobPhase, InSelect, HoldsSlot
    <3>7. CASE GiveUp(r)
      <4>1. JobPhase[r] = "waiting" /\ JobPhase' = [JobPhase EXCEPT ![r] = "over"]
        BY <2>2, <3>7 DEF GiveUp, JobPhase, InSelect, HoldsSlot
      <4>2. Jobs!Abandon(r)
        BY <1>2, <2>1, <3>7, <4>1 DEF GiveUp, Jobs!Abandon, Jobs!Move, ReasonsHold
      <4> QED
        BY <4>2 DEF Jobs!Next
    <3>8. CASE WakeStopped(r)
      <4>1. JobPhase[r] = "waiting" /\ JobPhase' = [JobPhase EXCEPT ![r] = "over"]
        BY <2>2, <3>8 DEF WakeStopped, JobPhase, InSelect, HoldsSlot
      <4>2. Jobs!Abandon(r)
        BY <1>2, <2>1, <3>8, <4>1 DEF WakeStopped, Jobs!Abandon, Jobs!Move
      <4> QED
        BY <4>2 DEF Jobs!Next
    <3>9. CASE WakeAdmitted(r)
      <4>1. JobPhase[r] = "waiting" /\ JobPhase' = [JobPhase EXCEPT ![r] = "running"]
        BY <2>2, <3>9 DEF WakeAdmitted, JobPhase, InSelect, HoldsSlot
      <4>2. Jobs!Start(r)
        BY <1>2, <2>1, <3>9, <4>1 DEF WakeAdmitted, Jobs!Start, Jobs!Move
      <4> QED
        BY <4>2 DEF Jobs!Next
    <3>10. CASE WakeWait(r)
      BY <2>2, <3>10 DEF WakeWait, Jobs!vars, JobPhase, InSelect, HoldsSlot
    <3>11. CASE AnswerRefusal(r)
      BY <2>2, <3>11 DEF AnswerRefusal, Jobs!vars, JobPhase, InSelect, HoldsSlot
    <3>12. CASE StartRun(r)
      BY <2>2, <3>12 DEF StartRun, Jobs!vars, JobPhase, InSelect, HoldsSlot
    <3>13. CASE FinishRun(r)
      BY <2>2, <3>13 DEF FinishRun, Jobs!vars, JobPhase, InSelect, HoldsSlot
    <3>14. CASE release(r)
      <4>1. JobPhase[r] = "running" /\ JobPhase' = [JobPhase EXCEPT ![r] = "over"]
        BY <2>2, <3>14 DEF release, JobPhase, InSelect, HoldsSlot
      <4>2. Jobs!Finish(r)
        BY <1>2, <2>1, <3>14, <4>1 DEF release, Jobs!Finish, Jobs!Move
      <4> QED
        BY <4>2 DEF Jobs!Next
    <3> QED
      BY <2>5, <3>1, <3>2, <3>3, <3>4, <3>5, <3>6, <3>7, <3>8, <3>9, <3>10,
         <3>11, <3>12, <3>13, <3>14 DEF HandlerStep
  <2>6. ASSUME NEW r \in Reqs, Disconnect(r)
        PROVE  Jobs!Next
    BY <2>6 DEF Disconnect, gateVars, Jobs!Next, Jobs!Disconnect,
                     JobPhase
  <2>7. CASE Stop
    BY <2>7 DEF Stop, Jobs!Next, Jobs!Close, JobPhase
  <2>8. CASE UNCHANGED vars
    BY <2>8 DEF vars, gateVars, Jobs!vars, JobPhase
  <2> QED
    BY <1>2, <2>5, <2>6, <2>7, <2>8 DEF Next
<1>3. Init => ReasonsHold /\ RecordedHonestly
  BY DEF Init, ReasonsHold, RecordedHonestly
<1>4. ReasonsHold /\ RecordedHonestly /\ IInv /\ [Next]_vars
        => ReasonsHold' /\ RecordedHonestly'
  BY ReasonsNext
<1> QED
  BY InitIInv, NextIInv, <1>1, <1>2, <1>3, <1>4, PTL
     DEF Spec, ImplementsJobAdmission, Jobs!Spec
------------------------------------------------------------------------------
(* The shutdown *)

\* What main relies on.  From StopAdmission on the gate admits nobody; a
\* request without a connection has no handler; until main drops connections,
\* a closed one has been answered; and a handler that is in ExecuteRun or will
\* be when main comes to the sweep is one that waitForDrain could not count.
MainOK ==
  /\ mpc \in {"stopped", "draining", "closing", "sweep"} => stopped
  /\ \A r \in Reqs : conn[r] = "none" => pc[r] = "idle"
  /\ ~forced /\ mpc \in {"serving", "signalled", "stopped", "draining"} =>
       \A r \in Reqs : conn[r] = "closed" => pc[r] = "answered"
  /\ ~forced /\ mpc = "sweep" /\ drained =>
       \A r \in Reqs : pc[r] \in {"admitted", "running"} => r \in uncounted
  /\ mpc # "exited" => sweptUnder = {}

\* The types of main's own variables.
MainTypeOK ==
  /\ mpc \in {"serving", "signalled", "stopped", "draining", "closing",
              "sweep", "exited"}
  /\ signals \in 0..MaxSignals
  /\ conn \in [Reqs -> {"none", "active", "closed"}]
  /\ forced \in BOOLEAN /\ drained \in BOOLEAN
  /\ uncounted \subseteq Reqs /\ sweptUnder \subseteq Reqs

ShutdownInv == IInv /\ MainTypeOK /\ MainOK /\ SweepMissesOnlyUncounted

\* main and net/http do to the gate what AdmissionGate lets its environment do.
LEMMA ShutdownStepsAreGateSteps ==
  ASSUME [ShutdownNext]_shutdownVars
  PROVE  [Next]_vars
<1>1. CASE ShutdownNext
  <2>1. ASSUME NEW r \in Reqs, Accept(r) \/ FinishConn(r)
        PROVE  UNCHANGED vars
    BY <2>1 DEF Accept, FinishConn
  <2>2. ASSUME NEW r \in Reqs, Handle(r) \/ ContextDone(r)
        PROVE  Next
    BY <2>2 DEF Handle, ContextDone, Next
  <2>3. CASE FirstSignal \/ ServeFails \/ SecondSignal
    BY <2>3 DEF FirstSignal, ServeFails, SecondSignal
  <2>4. CASE MainStep
    BY <2>4 DEF MainStep, StopAdmission, BeginShutdown, ShutdownReturns,
                DrainTimeout, DrainedAfterClose, CapPasses, Sweep, Next
  <2>5. CASE Exited
    BY <2>5 DEF Exited, shutdownVars
  <2> QED
    BY <1>1, <2>1, <2>2, <2>3, <2>4, <2>5 DEF ShutdownNext
<1>2. CASE UNCHANGED shutdownVars
  BY <1>2 DEF shutdownVars
<1> QED
  BY <1>1, <1>2

\* How a handler moves: not once it has answered, into ExecuteRun only with a
\* slot, and to no slot when the gate is stopped.
LEMMA HandlerMoves ==
  ASSUME IInv, NEW r \in Reqs, HandlerStep(r)
  PROVE  /\ stopped' = stopped /\ pc[r] # "answered"
         /\ \A q \in Reqs \ {r} : pc'[q] = pc[q]
         /\ pc'[r] = "running" => pc[r] = "admitted"
         /\ stopped => pc'[r] # "admitted"
<1>1. pc \in [Reqs -> {"idle", "refused", "answered"} \union InSelect
                                                     \union HoldsSlot]
  BY DEF IInv, TypeOK
<1> QED
  BY <1>1 DEF HandlerStep, gateVars,
       AcquireStopped, AcquireFree, AcquireFull, AcquireQueue, SelectDone,
       SelectBroadcast, GiveUp, WakeStopped, WakeAdmitted, WakeWait,
       AnswerRefusal, StartRun, FinishRun, release

\* main's types.
LEMMA MainTypesKept ==
  ASSUME MainTypeOK, [ShutdownNext]_shutdownVars
  PROVE  MainTypeOK'
<1> USE DEF MainTypeOK
<1>1. ASSUME NEW r \in Reqs, Accept(r) \/ FinishConn(r) PROVE MainTypeOK'
  BY <1>1 DEF Accept, FinishConn
<1>2. ASSUME NEW r \in Reqs, Handle(r) \/ ContextDone(r) PROVE MainTypeOK'
  BY <1>2 DEF Handle, ContextDone, mainVars
<1>3. CASE FirstSignal \/ ServeFails
  BY <1>3, ShutdownAssumption DEF FirstSignal, ServeFails
<1>4. CASE SecondSignal
  <2>1. signals' \in 0..MaxSignals
    BY <1>4, ShutdownAssumption DEF SecondSignal
  <2>2. conn' \in [Reqs -> {"none", "active", "closed"}]
    BY <1>4 DEF SecondSignal, CloseServer
  <2>3. forced' \in BOOLEAN
    BY <1>4, Zenon DEF SecondSignal
  <2> QED
    BY <1>4, <2>1, <2>2, <2>3 DEF SecondSignal
<1>5. CASE DrainTimeout
  <2>1. conn' \in [Reqs -> {"none", "active", "closed"}]
    BY <1>5 DEF DrainTimeout, CloseServer
  <2> QED
    BY <1>5, <2>1 DEF DrainTimeout
<1>6. CASE CapPasses
  <2>1. drained' \in BOOLEAN
    BY <1>6, Zenon DEF CapPasses
  <2> QED
    BY <1>6, <2>1 DEF CapPasses
<1>7. CASE StopAdmission \/ BeginShutdown \/ ShutdownReturns \/ DrainedAfterClose
  BY <1>7 DEF StopAdmission, BeginShutdown, ShutdownReturns, DrainedAfterClose
<1>8. CASE Sweep
  BY <1>8 DEF Sweep
<1>9. CASE UNCHANGED shutdownVars
  BY <1>9 DEF shutdownVars, mainVars
<1> QED
  BY <1>1, <1>2, <1>3, <1>4, <1>5, <1>6, <1>7, <1>8, <1>9
     DEF ShutdownNext, MainStep, Exited

\* A step of a handler or of its client.
LEMMA MainKeptByRequests ==
  ASSUME ShutdownInv, NEW r \in Reqs,
         Accept(r) \/ Handle(r) \/ FinishConn(r) \/ ContextDone(r)
  PROVE  (MainOK /\ SweepMissesOnlyUncounted)'
<1>1. /\ MainOK /\ SweepMissesOnlyUncounted
      /\ conn \in [Reqs -> {"none", "active", "closed"}]
      /\ uncounted \subseteq Reqs
  BY DEF ShutdownInv, MainTypeOK
<1> USE DEF MainOK, SweepMissesOnlyUncounted
<1>2. CASE Accept(r)
  BY <1>1, <1>2 DEF Accept, vars, gateVars
<1>3. CASE FinishConn(r)
  BY <1>1, <1>3 DEF FinishConn, vars, gateVars
<1>4. CASE ContextDone(r)
  BY <1>1, <1>4 DEF ContextDone, Disconnect, mainVars, gateVars
<1>5. CASE Handle(r)
  <2>1. /\ stopped' = stopped /\ pc[r] # "answered"
        /\ \A q \in Reqs \ {r} : pc'[q] = pc[q]
        /\ pc'[r] = "running" => pc[r] = "admitted"
        /\ stopped => pc'[r] # "admitted"
    BY <1>5, HandlerMoves DEF Handle, ShutdownInv
  <2>2. /\ UNCHANGED <<mpc, conn, forced, drained, uncounted, sweptUnder>>
        /\ conn[r] # "none" /\ mpc # "exited"
    BY <1>5 DEF Handle, mainVars
  <2> QED
    BY <1>1, <2>1, <2>2
<1> QED
  BY <1>2, <1>3, <1>4, <1>5

\* A step of main or a signal.
LEMMA MainKeptByMain ==
  ASSUME ShutdownInv,
         FirstSignal \/ ServeFails \/ SecondSignal \/ MainStep
  PROVE  (MainOK /\ SweepMissesOnlyUncounted)'
<1>1. /\ MainOK /\ SweepMissesOnlyUncounted /\ MainTypeOK
      /\ pc \in [Reqs -> {"idle", "refused", "answered"} \union InSelect
                                                         \union HoldsSlot]
  BY DEF ShutdownInv, IInv, TypeOK
<1> USE DEF MainOK, SweepMissesOnlyUncounted
<1>2. CASE FirstSignal \/ ServeFails \/ BeginShutdown
  BY <1>1, <1>2 DEF FirstSignal, ServeFails, BeginShutdown, vars, gateVars
<1>3. CASE StopAdmission
  BY <1>1, <1>3 DEF StopAdmission, Stop
<1>4. CASE SecondSignal
  <2>1. /\ forced' = TRUE
        /\ UNCHANGED <<stopped, pc, mpc, sweptUnder>>
        /\ \A r \in Reqs : conn'[r] = "none" => conn[r] = "none"
    BY <1>4 DEF SecondSignal, CloseServer, vars, gateVars
  <2> QED
    BY <1>1, <2>1
<1>5. CASE ShutdownReturns
  <2>1. \A r \in Reqs : ~forced => pc[r] \in {"idle", "answered"}
    BY <1>1, <1>5 DEF ShutdownReturns, MainTypeOK
  <2> QED
    BY <1>1, <1>5, <2>1 DEF ShutdownReturns, vars, gateVars
<1>6. CASE DrainTimeout
  <2>1. \A r \in Reqs : conn'[r] = "none" => conn[r] = "none"
    BY <1>6 DEF DrainTimeout, CloseServer
  <2> QED
    BY <1>1, <1>6, <2>1 DEF DrainTimeout, vars, gateVars
<1>7. CASE DrainedAfterClose
  <2>1. ASSUME NEW r \in Reqs PROVE pc[r] # "running"
    <3>1. Count(pc, Executing) = 0
      BY <1>7, CountsAt DEF DrainedAfterClose, ShutdownInv, IInv
    <3> QED
      BY <3>1, CountZero DEF Executing
  <2> QED
    BY <1>1, <1>7, <2>1 DEF DrainedAfterClose, vars, gateVars
<1>8. CASE CapPasses
  BY <1>1, <1>8 DEF CapPasses, vars, gateVars
<1>9. CASE Sweep
  BY <1>1, <1>9 DEF Sweep, vars, gateVars
<1> QED
  BY <1>2, <1>3, <1>4, <1>5, <1>6, <1>7, <1>8, <1>9 DEF MainStep

\* Everything main relies on holds from the start and is kept.
LEMMA InitShutdownInv == ShutdownInit => ShutdownInv
<1> SUFFICES ASSUME ShutdownInit PROVE ShutdownInv
  OBVIOUS
<1>1. IInv
  BY InitIInv DEF ShutdownInit
<1>2. MainTypeOK
  <2>1. forced \in BOOLEAN /\ drained \in BOOLEAN
    BY Zenon DEF ShutdownInit
  <2>2. signals \in 0..MaxSignals
    BY ShutdownAssumption DEF ShutdownInit
  <2> QED
    BY <2>1, <2>2 DEF ShutdownInit, MainTypeOK
<1>3. MainOK /\ SweepMissesOnlyUncounted
  BY DEF ShutdownInit, Init, MainOK, SweepMissesOnlyUncounted
<1> QED
  BY <1>1, <1>2, <1>3 DEF ShutdownInv

LEMMA NextShutdownInv ==
  ShutdownInv /\ [ShutdownNext]_shutdownVars => ShutdownInv'
<1> SUFFICES ASSUME ShutdownInv, [ShutdownNext]_shutdownVars
             PROVE  ShutdownInv'
  OBVIOUS
<1>1. IInv'
  BY NextIInv, ShutdownStepsAreGateSteps DEF ShutdownInv
<1>2. MainTypeOK'
  BY MainTypesKept DEF ShutdownInv
<1>3. (MainOK /\ SweepMissesOnlyUncounted)'
  <2>1. CASE UNCHANGED shutdownVars
    BY <2>1 DEF ShutdownInv, MainOK, SweepMissesOnlyUncounted, shutdownVars,
                mainVars, vars, gateVars
  <2> QED
    BY <2>1, MainKeptByRequests, MainKeptByMain DEF ShutdownNext, Exited
<1> QED
  BY <1>1, <1>2, <1>3 DEF ShutdownInv

(* Whatever signals arrive and whenever connections end, main's variables    *)
(* and the gate's have their types and stay within their limits.             *)
THEOREM ShutdownTypeCorrect == ShutdownSpec => []ShutdownTypeOK
<1>1. ShutdownInv => ShutdownTypeOK
  BY DEF ShutdownInv, IInv, MainTypeOK, ShutdownTypeOK
<1> QED
  BY InitShutdownInv, NextShutdownInv, <1>1, PTL DEF ShutdownSpec

(* Without a second signal the sweep of main removes the directories of no   *)
(* run but one that was between acquire and its metrics when waitForDrain    *)
(* read them.                                                                *)
THEOREM ShutdownSweepGap == ShutdownSpec => []SweepMissesOnlyUncounted
<1>1. ShutdownInv => SweepMissesOnlyUncounted
  BY DEF ShutdownInv
<1> QED
  BY InitShutdownInv, NextShutdownInv, <1>1, PTL DEF ShutdownSpec

(* The shutdown keeps to the protocol of the gate, so the gate's promises    *)
(* hold through it: admission stays bounded, and ends with StopAdmission.    *)
THEOREM ShutdownKeepsAdmission ==
  ShutdownSpec => /\ ImplementsJobAdmission
                  /\ NothingAdmittedAfterStop
                  /\ []NoLostWakeup
<1>1. ShutdownInit => Init
  BY DEF ShutdownInit
<1>2. [ShutdownNext]_shutdownVars => [Next]_vars
  BY ShutdownStepsAreGateSteps
<1>3. ShutdownSpec => Spec
  BY <1>1, <1>2, PTL DEF ShutdownSpec, Spec
<1> QED
  BY <1>3, GateImplementsJobAdmission, GateStopIsFinal, GateNoLostWakeup, PTL

=============================================================================
