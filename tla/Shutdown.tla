------------------------------ MODULE Shutdown ------------------------------
(***************************************************************************)
(* The shutdown of the process: main (cmd/goboxd/main.go) from the first   *)
(* signal on, composed with the admission gate and the handlers of         *)
(* AdmissionGate, which it stops, waits for and sweeps up after.           *)
(*                                                                         *)
(* net/http's Server is external.  From the way main uses it: Shutdown     *)
(* closes the listener and returns nil when no connection is active, or    *)
(* the error of its context; Close drops every connection at once, so that *)
(* a Shutdown under way finds none left, and the contexts of the requests  *)
(* on them are cancelled a little later.                                   *)
(***************************************************************************)
EXTENDS AdmissionGate

CONSTANT MaxSignals    \* bound: how many termination signals arrive

ASSUME ShutdownAssumption == MaxSignals \in Nat \ {0}

VARIABLES
  mpc,         \* where main is
  signals,     \* how many signals have arrived
  conn,        \* the connection of each request: "none", "active", "closed"
  forced,      \* the watcher of the second signal has closed the server
  drained,     \* main's local
  uncounted,   \* history: the handlers between acquire and the metrics when
               \* waitForDrain read zero
  sweptUnder   \* the runs that were in ExecuteRun when the sweep removed
               \* every jail directory

mainVars == <<mpc, signals, conn, forced, drained, uncounted, sweptUnder>>
shutdownVars == <<vars, mainVars>>

ShutdownInit ==
  /\ Init
  /\ mpc = "serving" /\ signals = 0
  /\ conn = [r \in Reqs |-> "none"]
  /\ forced = FALSE /\ drained = TRUE
  /\ uncounted = {} /\ sweptUnder = {}

------------------------------------------------------------------------------
(* Connections and handlers *)

\* A connection is accepted while the listener is open.
Accept(r) ==
  /\ mpc \in {"serving", "signalled", "stopped"} /\ ~forced
  /\ conn[r] = "none"
  /\ conn' = [conn EXCEPT ![r] = "active"]
  /\ UNCHANGED <<vars, mpc, signals, forced, drained, uncounted, sweptUnder>>

\* A handler runs once its request has arrived, and until the process is gone.
Handle(r) ==
  /\ mpc # "exited"
  /\ conn[r] # "none"
  /\ HandlerStep(r)
  /\ UNCHANGED mainVars

\* The handler has returned: the connection is not active any more.
FinishConn(r) ==
  /\ mpc # "exited"
  /\ conn[r] = "active" /\ pc[r] = "answered"
  /\ conn' = [conn EXCEPT ![r] = "closed"]
  /\ UNCHANGED <<vars, mpc, signals, forced, drained, uncounted, sweptUnder>>

\* The client goes away, or net/http notices that the connection was closed.
ContextDone(r) ==
  /\ mpc # "exited"
  /\ conn[r] # "none" /\ r \notin gone
  /\ Disconnect(r)
  /\ UNCHANGED mainVars

\* Server.Close: every connection is dropped, its handler runs on.
CloseServer == conn' = [r \in Reqs |-> IF conn[r] = "active" THEN "closed"
                                                             ELSE conn[r]]

------------------------------------------------------------------------------
(* main *)

FirstSignal ==
  /\ mpc = "serving"
  /\ signals' = 1
  /\ mpc' = "signalled"
  /\ UNCHANGED <<vars, conn, forced, drained, uncounted, sweptUnder>>

\* A real failure of ListenAndServe is fatal: no drain and no sweep.
ServeFails ==
  /\ mpc = "serving"
  /\ mpc' = "exited"
  /\ UNCHANGED <<vars, signals, conn, forced, drained, uncounted, sweptUnder>>

\* StartShutdown and StopAdmission.
StopAdmission ==
  /\ mpc = "signalled"
  /\ Stop
  /\ mpc' = "stopped"
  /\ UNCHANGED <<signals, conn, forced, drained, uncounted, sweptUnder>>

\* The watcher is registered after the first signal and waits for the second
\* until main returns.  srv.Close also closes the listener.
SecondSignal ==
  /\ mpc \in {"stopped", "draining", "closing", "sweep"}
  /\ ~forced /\ signals < MaxSignals
  /\ signals' = signals + 1
  /\ forced' = TRUE
  /\ CloseServer
  /\ UNCHANGED <<vars, mpc, drained, uncounted, sweptUnder>>

BeginShutdown ==
  /\ mpc = "stopped"
  /\ mpc' = "draining"
  /\ UNCHANGED <<vars, signals, conn, forced, drained, uncounted, sweptUnder>>

\* Shutdown returns nil: there is no active connection.
ShutdownReturns ==
  /\ mpc = "draining"
  /\ \A r \in Reqs : conn[r] # "active"
  /\ mpc' = "sweep"
  /\ UNCHANGED <<vars, signals, conn, forced, drained, uncounted, sweptUnder>>

\* A timeout of the drain that goes straight to the sweep.
DrainTimeoutSweeps ==
  /\ mpc = "draining"
  /\ \E r \in Reqs : conn[r] = "active"
  /\ CloseServer
  /\ mpc' = "sweep"
  /\ UNCHANGED <<vars, signals, forced, drained, uncounted, sweptUnder>>

\* The drain deadline passes: Shutdown returns the context's error and main
\* closes the connections.
DrainTimeout ==
  /\ mpc = "draining"
  /\ \E r \in Reqs : conn[r] = "active"
  /\ CloseServer
  /\ mpc' = "closing"
  /\ UNCHANGED <<vars, signals, forced, drained, uncounted, sweptUnder>>

\* waitForDrain reads the in-flight metric: zero, ...
DrainedAfterClose ==
  /\ mpc = "closing"
  /\ metricsInFlight = 0
  /\ uncounted' = {r \in Reqs : pc[r] = "admitted"}
  /\ mpc' = "sweep"
  /\ UNCHANGED <<vars, signals, conn, forced, drained, sweptUnder>>

\* waitForDrain looks at its cap only when no client is left.
CapPassesForGone ==
  /\ mpc = "closing"
  /\ metricsInFlight > 0 /\ gone = Reqs
  /\ drained' = FALSE
  /\ mpc' = "sweep"
  /\ UNCHANGED <<vars, signals, conn, forced, uncounted, sweptUnder>>

\* ... or still more when the five seconds are over.
CapPasses ==
  /\ mpc = "closing"
  /\ metricsInFlight > 0
  /\ drained' = FALSE
  /\ mpc' = "sweep"
  /\ UNCHANGED <<vars, signals, conn, forced, uncounted, sweptUnder>>

\* The sweep, unless the drain failed, and the end of the process.
Sweep ==
  /\ mpc = "sweep"
  /\ sweptUnder' = IF drained THEN {r \in Reqs : pc[r] = "running"} ELSE {}
  /\ mpc' = "exited"
  /\ UNCHANGED <<vars, signals, conn, forced, drained, uncounted>>

MainStep == \/ StopAdmission \/ BeginShutdown \/ ShutdownReturns
            \/ DrainTimeout \/ DrainedAfterClose \/ CapPasses \/ Sweep

------------------------------------------------------------------------------
Exited == mpc = "exited" /\ UNCHANGED shutdownVars

ShutdownNext ==
  \/ \E r \in Reqs : Accept(r) \/ Handle(r) \/ FinishConn(r) \/ ContextDone(r)
  \/ FirstSignal \/ ServeFails \/ SecondSignal
  \/ MainStep
  \/ Exited

ShutdownSpec == ShutdownInit /\ [][ShutdownNext]_shutdownVars

\* main and its timers make progress.  Nothing is assumed of the handlers: a
\* run may never return.
ShutdownFairSpec == ShutdownSpec /\ WF_shutdownVars(MainStep)

------------------------------------------------------------------------------
\* Every variable has its type.
ShutdownTypeOK ==
  /\ TypeOK
  /\ mpc \in {"serving", "signalled", "stopped", "draining", "closing",
              "sweep", "exited"}
  /\ signals \in 0..MaxSignals
  /\ conn \in [Reqs -> {"none", "active", "closed"}]
  /\ forced \in BOOLEAN /\ drained \in BOOLEAN
  /\ uncounted \subseteq Reqs /\ sweptUnder \subseteq Reqs

\* Without a second signal, the sweep meets a running jail only if its handler
\* had its slot and had not yet counted itself in the metrics when waitForDrain
\* read them: the one gap in the wait of main for its runs.
SweepMissesOnlyUncounted == ~forced => sweptUnder \subseteq uncounted

\* "Sweep only when every run finished."
SweepOnlyWhenDrained == sweptUnder = {}

\* "A stuck handler cannot hold shutdown forever": after a signal the process
\* ends, even if no handler ever takes a step again.
ShutdownCompletes == mpc = "signalled" ~> mpc = "exited"
=============================================================================
