------------------------------ MODULE Readiness ------------------------------
(***************************************************************************)
(* The probes behind /readyz and /info (internal/api/probes.go), their     *)
(* cache, and the language registry they walk (internal/config/config.go), *)
(* which SIGHUP replaces while requests are under way.                     *)
(*                                                                         *)
(* The cache's mutex is held during a probe: a lookup that hits is a step, *)
(* one that misses is a Miss and a ProbeEnd between which nobody else      *)
(* looks anything up.  A registry is named by the edit of languages.yml    *)
(* that it was loaded from.  Times are kept as ages, and an age that makes *)
(* no difference any more does not grow, so time itself has no bound.      *)
(*                                                                         *)
(* During a shutdown /readyz answers without a probe, which no step here   *)
(* shows; /info goes on as before.                                         *)
(***************************************************************************)
EXTENDS Naturals, Sequences, FiniteSets

CONSTANTS
  Requests,        \* of /readyz and /info
  Files,           \* languages.yml after each edit: its entries [id, cmd]
  LANGS,           \* ids that GOBOXD_LANGS keeps
  EXCLUDE_LANGS,   \* ids that GOBOXD_EXCLUDE_LANGS removes
  ttl,             \* GOBOXD_PROBE_TTL in ticks
  Timeout,         \* the timeout of a probe in ticks
  Changes,         \* the changes of a command's condition that may happen
  MaxChanges       \* bound: how many of them happen

VARIABLES
  cond, changes,        \* the condition of each command; how often one changed
  file, sighup, reader, \* the file's edit; signalled; the edit being loaded, or 0
  registry,             \* the edit of the registry in use
  entries,              \* the cache, a function on the keys it holds
  probing,              \* the probe that holds the mutex, or NoProbe
  pc, reg, answer,      \* per request: its place, Registry(), its probes
  age,                  \* history: for how long each probe result of each
                        \* command has been impossible, overruns not counted
  could,                \* history: what probes could yield since a request began
  oldAge, settled,      \* history: for how long no outdated registry has been
                        \* in use; the requests to which that matters
  loaded                \* history: the last edit that was tried

world == <<cond, changes>>
reload == <<file, sighup, reader, registry, loaded>>
cache == <<entries, probing>>
requests == <<pc, reg, answer, could, settled>>
vars == <<world, reload, cache, requests, age, oldAge>>

nsjail == "nsjail"
NoProbe == [by |-> "nobody"]

\* A command that lingers leaves a process that keeps its output open: when the
\* command has ended or was killed, Output and CombinedOutput still wait.
Conditions == {"works", "hangs", "lingers", "absent"}

------------------------------------------------------------------------------
(* The registry *)

Ids(f) == {Files[f][i].id : i \in DOMAIN Files[f]}

\* A file that cannot be read or parsed is one without languages.
Valid(f) == /\ Files[f] # <<>>
            /\ "" \notin Ids(f)
            /\ Cardinality(Ids(f)) = Len(Files[f])

\* The languages of a valid file; they may be none after the filters.
Languages(f) == (Ids(f) \intersect LANGS) \ EXCLUDE_LANGS

\* The binary that probeLangExec runs for a language.
Cmd(f, k) == IF k = nsjail THEN nsjail
             ELSE (CHOOSE e \in {Files[f][i] : i \in DOMAIN Files[f]} :
                     e.id = k).cmd

Commands == {nsjail} \union UNION {{Files[f][i].cmd : i \in DOMAIN Files[f]} :
                                     f \in DOMAIN Files}
Keys == {nsjail} \union UNION {Languages(f) : f \in DOMAIN Files}

ASSUME ReadinessAssumption ==
  /\ Files \in Seq(Seq([id : STRING, cmd : STRING]))
  /\ Files # <<>> /\ Valid(1)
  /\ nsjail \notin UNION {Ids(f) : f \in DOMAIN Files}
  /\ ttl \in Nat \ {0} /\ Timeout \in Nat \ {0}
  /\ Changes \subseteq Commands \X Conditions /\ MaxChanges \in Nat

------------------------------------------------------------------------------
(* The world *)

\* What a probe of a command in condition s reports.  probeExecArgs falls back
\* on LookPath, so a language whose binary hangs is reported ok.
ProbeOk(c, s) == IF c = nsjail THEN s = "works" ELSE s # "absent"

Results == Commands \X BOOLEAN
Recent(f) == {p \in Results : f[p] < ttl + Timeout}
Older(n, max) == IF n < max THEN n + 1 ELSE n

Init ==
  /\ cond = [c \in Commands |-> "works"] /\ changes = 0
  /\ file = 1 /\ sighup = FALSE /\ reader = 0 /\ registry = 1
  /\ loaded = 1
  /\ entries = [k \in {} |-> [age |-> 0, ok |-> TRUE, cmd |-> nsjail]]
  /\ probing = NoProbe
  /\ pc = [r \in Requests |-> "idle"]
  /\ reg = [r \in Requests |-> 0]
  /\ answer = [r \in Requests |-> <<>>]
  /\ age = [p \in Results |-> IF p[2] THEN 0 ELSE ttl + Timeout]
  /\ could = [r \in Requests |-> {}]
  /\ oldAge = ttl
  /\ settled = {}

InProgress(r) == pc[r] # "idle"

\* External: a runtime is installed, removed, or begins or ceases to hang or
\* to linger.
Change(c, s) ==
  /\ changes < MaxChanges
  /\ <<c, s>> \in Changes /\ s # cond[c]
  /\ cond' = [cond EXCEPT ![c] = s]
  /\ changes' = changes + 1
  /\ LET now == <<c, ProbeOk(c, s)>>
     IN  /\ age' = [age EXCEPT ![now] = 0]
         /\ could' = [r \in Requests |-> IF InProgress(r)
                                         THEN could[r] \union {now} ELSE {}]
  /\ probing' = IF probing # NoProbe /\ probing.cmd = c
                THEN [probing EXCEPT !.saw = @ \union {s}] ELSE probing
  /\ UNCHANGED <<reload, entries, pc, reg, answer, oldAge, settled>>

\* Some request with a registry that is not the present one is under way.
Outdated == \E r \in Requests : pc[r] = "languages" /\ reg[r] # registry

\* A probe is past its timeout, and waits for the process left behind.
Lingering == probing # NoProbe /\ "lingers" \in probing.saw
Overrun == probing # NoProbe /\ probing.age >= Timeout

\* Everything that is dated grows older but for the probe.
Ages ==
  /\ entries' = [k \in DOMAIN entries |->
                   [entries[k] EXCEPT !.age = Older(@, ttl)]]
  /\ age' = [p \in Results |->
               IF ProbeOk(p[1], cond[p[1]]) = p[2] THEN 0
               ELSE IF Overrun THEN age[p] ELSE Older(age[p], ttl + Timeout)]
  /\ oldAge' = IF Outdated THEN 0 ELSE Older(oldAge, ttl)
  /\ UNCHANGED <<world, reload, requests>>

\* A probe runs for as long as its command does.
TickForever ==
  /\ probing' = IF probing = NoProbe THEN NoProbe
                ELSE [probing EXCEPT !.age = Older(@, Timeout + 1)]
  /\ Ages

\* Time passes.  The context kills the command at its timeout, which ends the
\* probe unless a process that the command left behind lingers.
Tick ==
  /\ Overrun => Lingering
  /\ probing' = IF probing = NoProbe THEN NoProbe
                ELSE [probing EXCEPT !.age = Older(@, Timeout)]
  /\ Ages

------------------------------------------------------------------------------
(* SIGHUP.  The channel holds one signal; a second one is dropped. *)

\* External: the operator edits the file and sends SIGHUP.
EditAndSignal ==
  /\ file < Len(Files)
  /\ file' = file + 1
  /\ sighup' = TRUE
  /\ UNCHANGED <<world, reader, registry, loaded, cache, requests, age,
                 oldAge>>

\* The loop takes the signal, and LoadRegistry reads the file.
ReadFile ==
  /\ sighup /\ reader = 0
  /\ sighup' = FALSE
  /\ reader' = file
  /\ UNCHANGED <<world, file, registry, loaded, cache, requests, age,
                 oldAge>>

\* The registry that was read is in use; a failed load leaves the old one.
Swap ==
  /\ reader # 0
  /\ registry' = IF Valid(reader) THEN reader ELSE registry
  /\ loaded' = reader
  /\ reader' = 0
  /\ oldAge' = IF Valid(reader) THEN 0 ELSE oldAge
  /\ settled' = IF Valid(reader) THEN {} ELSE settled
  /\ UNCHANGED <<world, file, cache, pc, reg, answer, could, age>>

\* Signals that came during the load are forgotten with it.
StoreAndDrain == Swap /\ sighup' = FALSE

\* registry.Store, or an error
Store == Swap /\ UNCHANGED sighup

LoadRegistry == ReadFile \/ Store

------------------------------------------------------------------------------
(* The requests *)

\* HandleReadyz and HandleInfo begin.  A request is settled if no registry but
\* the present one is in use, nor was within the last ttl, and until a reload.
Begin(r) ==
  /\ pc[r] = "idle"
  /\ pc' = [pc EXCEPT ![r] = "nsjail"]
  /\ could' = [could EXCEPT ![r] = Recent(age)]
  /\ settled' = IF ~Outdated /\ oldAge = ttl THEN settled \union {r}
                ELSE settled
  /\ UNCHANGED <<world, reload, cache, reg, answer, age, oldAge>>

\* The keys a request may look up next; languages come in any order.
WantsOf(r, f) ==
  CASE pc[r] = "nsjail"    -> {nsjail}
    [] pc[r] = "languages" -> Languages(f) \ DOMAIN answer[r]
    [] OTHER               -> {}

\* Each language is looked up in the registry of that moment.
WalkedCurrent(r) == registry

\* The registry a request walks over: the snapshot it took.
Walked(r) == reg[r]

Wants(r) == WantsOf(r, Walked(r))

\* The request has its probe of k.
Got(r, k, e) ==
  /\ answer' = [answer EXCEPT ![r] =
       [j \in DOMAIN answer[r] \union {k} |->
          IF j = k THEN [ok |-> e.ok, cmd |-> e.cmd] ELSE answer[r][j]]]
  /\ pc' = [pc EXCEPT ![r] = IF k = nsjail THEN "registry" ELSE @]
  /\ UNCHANGED <<world, reload, reg, could, settled, age, oldAge>>

\* An entry is used whatever its age.
HitAnyAge(r, k) ==
  /\ probing = NoProbe
  /\ k \in Wants(r) \intersect DOMAIN entries
  /\ Got(r, k, entries[k])
  /\ UNCHANGED cache

Hit(r, k) ==
  /\ probing = NoProbe
  /\ k \in Wants(r) \intersect DOMAIN entries
  /\ entries[k].age < ttl
  /\ Got(r, k, entries[k])
  /\ UNCHANGED cache

Miss(r, k) ==
  /\ probing = NoProbe
  /\ k \in Wants(r)
  /\ k \in DOMAIN entries => entries[k].age >= ttl
  /\ LET c == Cmd(Walked(r), k)
     IN  probing' = [by |-> r, key |-> k, cmd |-> c, age |-> 0,
                     saw |-> {cond[c]}]
  /\ UNCHANGED <<world, reload, entries, requests, age, oldAge>>

\* The probe's result, stored under its key.
Result(s) == [age |-> 0, ok |-> ProbeOk(probing.cmd, s), cmd |-> probing.cmd]
Stored(e) == [k \in DOMAIN entries \union {probing.key} |->
                IF k = probing.key THEN e ELSE entries[k]]

\* The probe ends with the condition the command had at some time meanwhile,
\* is stored, and the mutex is unlocked.
ProbeEnd ==
  /\ probing # NoProbe
  /\ \E s \in probing.saw :
       /\ s = "hangs" => probing.age = Timeout
       /\ entries' = Stored(Result(s))
       /\ Got(probing.by, probing.key, Result(s))
  /\ probing' = NoProbe

\* reg := config.Registry()
Registry(r) ==
  /\ pc[r] = "registry"
  /\ reg' = [reg EXCEPT ![r] = registry]
  /\ pc' = [pc EXCEPT ![r] = "languages"]
  /\ UNCHANGED <<world, reload, cache, answer, could, settled, age, oldAge>>

AllOK(r) == \A k \in DOMAIN answer[r] : answer[r][k].ok

\* The answer is complete and sent.
Finish(r) ==
  /\ pc[r] = "languages" /\ Wants(r) = {}
  /\ pc' = [pc EXCEPT ![r] = "idle"]
  /\ reg' = [reg EXCEPT ![r] = 0]
  /\ answer' = [answer EXCEPT ![r] = <<>>]
  /\ could' = [could EXCEPT ![r] = {}]
  /\ settled' = settled \ {r}
  /\ oldAge' = IF reg[r] # registry THEN 0 ELSE oldAge
  /\ UNCHANGED <<world, reload, cache, age>>

\* A request's own steps.
Walk(r) == \/ \E k \in Keys : Hit(r, k) \/ Miss(r, k)
           \/ Registry(r) \/ Finish(r)

Next ==
  \/ \E r \in Requests : Begin(r) \/ Walk(r)
  \/ ProbeEnd \/ LoadRegistry
  \/ EditAndSignal \/ Tick
  \/ \E c \in Commands, s \in Conditions : Change(c, s)

Spec == Init /\ [][Next]_vars

\* Goroutines run, a probe grows older until it ends or is killed, and a
\* goroutine that waits for a sync.Mutex gets it although others take it again
\* and again.  Nothing makes a process that lingers end.
FairSpec ==
  /\ Spec
  /\ \A r \in Requests : SF_vars(Walk(r))
  /\ WF_vars(probing # NoProbe /\ ~Lingering /\ (ProbeEnd \/ Tick))

------------------------------------------------------------------------------
Answered(r) == pc[r] = "languages" /\ pc'[r] = "idle"

(* What /readyz says was so: if it answers ok, each command it had probed    *)
(* was fit to be reported ok at some time since ttl + Timeout before the     *)
(* request began, and if it answers degraded, one of them was not.  One ttl, *)
(* as the head of probes.go has it, is not enough: a cached entry is young,  *)
(* but it is dated when its probe ends, which may have looked Timeout        *)
(* earlier, and earlier still by the time it lingered beyond its timeout,    *)
(* which is not counted: nothing bounds it.                                  *)
ReadyzTruthful ==
  [][\A r \in Requests : Answered(r) =>
       IF AllOK(r)
       THEN \A k \in DOMAIN answer[r] : <<answer[r][k].cmd, TRUE>> \in could[r]
       ELSE \E k \in DOMAIN answer[r] : <<answer[r][k].cmd, FALSE>> \in could[r]
    ]_vars

(* An answer is about one registry, which was in use during the request:     *)
(* nsjail and exactly that registry's languages, whatever was loaded while   *)
(* the request waited for its probes.                                        *)
AnswerFromOneRegistry ==
  [][\A r \in Requests : Answered(r) =>
       DOMAIN answer[r] = {nsjail} \union Languages(reg[r])]_vars

(* The cache knows a language by its id alone, so after a reload, and while  *)
(* a request with the old registry is under way, an answer may be about a    *)
(* command of another registry.  ttl later that is over: an answer is about  *)
(* the very commands of its registry.                                        *)
SettledAnswers ==
  [][\A r \in settled : Answered(r) =>
       \A k \in DOMAIN answer[r] : answer[r][k].cmd = Cmd(reg[r], k)]_vars

(* Every /readyz and /info request is answered, although each waits for the  *)
(* other's probes and a probe may hang.  The one thing that can keep them,   *)
(* and then all of them, is a probe that lingers for ever with the mutex:    *)
(* its timeout does not end it, whatever the comment in probeExecArgs says.  *)
EveryProbeRequestEnds ==
  \/ <>[]Lingering
  \/ \A r \in Requests : InProgress(r) ~> ~InProgress(r)

(* No SIGHUP is lost, although the channel drops all but one: the file as it *)
(* was at the last signal has been tried or will be.                         *)
NoReloadLost == file > loaded => sighup \/ reader = file
=============================================================================
