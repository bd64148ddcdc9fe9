--------------------------- MODULE ReadinessProofs ---------------------------
(***************************************************************************)
(* What /readyz and /info answer, for every set of requests, every         *)
(* sequence of edits of languages.yml, every ttl and every timeout.        *)
(*                                                                         *)
(* An answer is put together from cached probes that other requests, other *)
(* registries and other times have left.  The inductive invariant dates    *)
(* each of them: a result in the cache was possible at most Timeout before *)
(* the entry was made, a running probe has only seen what was possible     *)
(* since it began, and an entry about a command that the present registry  *)
(* does not name is at least as old as the last use of another registry.   *)
(***************************************************************************)
EXTENDS Readiness, TLAPS

------------------------------------------------------------------------------
(* The inductive invariant *)

Edits == DOMAIN Files
Places == {"idle", "nsjail", "registry", "languages"}

\* What the reload loop and the requests are made of.
ReloadTypes ==
  /\ file \in Edits /\ sighup \in BOOLEAN
  /\ reader \in Edits \union {0} /\ registry \in Edits /\ loaded \in Edits

RequestTypes ==
  /\ pc \in [Requests -> Places]
  /\ reg \in [Requests -> Edits \union {0}]
  /\ DOMAIN answer = Requests
  /\ settled \subseteq Requests
  /\ oldAge \in 0..ttl

\* A signal is pending or being served while the file is ahead of what was read.
ReloadOK ==
  /\ NoReloadLost
  /\ reader # 0 => sighup \/ reader = file

\* A request has its registry while it walks the languages, and has probes of
\* nsjail and of that registry's languages.
WalkOK ==
  \A r \in Requests :
    /\ pc[r] \in {"idle", "nsjail"} => DOMAIN answer[r] = {}
    /\ pc[r] = "registry" => DOMAIN answer[r] = {nsjail}
    /\ pc[r] = "languages" =>
         /\ reg[r] \in Edits
         /\ nsjail \in DOMAIN answer[r]
         /\ DOMAIN answer[r] \subseteq {nsjail} \union Languages(reg[r])

\* The probe under way was asked for by a request that still waits for it, and
\* runs the command of that request's registry.
ProbingOK ==
  probing # NoProbe =>
    /\ probing \in [by : Requests, key : Keys, cmd : Commands,
                    age : 0..Timeout, saw : SUBSET Conditions]
    /\ probing.key \in Wants(probing.by)
    /\ probing.cmd = Cmd(reg[probing.by], probing.key)

\* The present condition of a command is possible, and the histories are ages.
AgesOK ==
  /\ cond \in [Commands -> Conditions]
  /\ age \in [Results -> 0..(ttl + Timeout)]
  /\ \A c \in Commands : age[<<c, ProbeOk(c, cond[c])>>] = 0

\* What a probe saw was possible since it began, and what the cache holds at
\* most Timeout before the entry was made.
CacheOK ==
  /\ probing # NoProbe =>
       \A s \in probing.saw :
         age[<<probing.cmd, ProbeOk(probing.cmd, s)>>] <= probing.age
  /\ \A k \in DOMAIN entries :
       /\ entries[k] \in [age : 0..ttl, ok : BOOLEAN, cmd : Commands]
       /\ age[<<entries[k].cmd, entries[k].ok>>] <= entries[k].age + Timeout

\* All that is recent could be seen by a request under way, and so could all
\* that it has been told.
CouldOK ==
  /\ DOMAIN could = Requests
  /\ \A r \in Requests : InProgress(r) => Recent(age) \subseteq could[r]
  /\ \A r \in Requests : \A k \in DOMAIN answer[r] :
       /\ answer[r][k].ok \in BOOLEAN
       /\ <<answer[r][k].cmd, answer[r][k].ok>> \in could[r]

\* An entry about another command than the registry's is at least as old as the
\* last use of another registry, so that a settled request meets none.
SettledOK ==
  /\ Outdated => oldAge = 0
  /\ \A k \in DOMAIN entries \intersect ({nsjail} \union Languages(registry)) :
       entries[k].cmd # Cmd(registry, k) => entries[k].age >= oldAge
  /\ settled # {} => ~Outdated /\ oldAge = ttl
  /\ \A r \in settled : \A k \in DOMAIN answer[r] :
       answer[r][k].cmd = Cmd(registry, k)

ReadinessInv == /\ ReloadTypes /\ RequestTypes /\ ReloadOK /\ WalkOK
                /\ ProbingOK /\ AgesOK /\ CacheOK /\ CouldOK /\ SettledOK

------------------------------------------------------------------------------
(* Constants and operators *)

\* What the constants may be.
LEMMA ReadinessConstants ==
  /\ ttl \in Nat \ {0} /\ Timeout \in Nat \ {0} /\ ttl + Timeout \in Nat
  /\ Edits = 1..Len(Files) /\ Len(Files) \in Nat /\ 1 \in Edits
<1>1. /\ Files \in Seq(Seq([id : STRING, cmd : STRING])) /\ Files # <<>>
      /\ ttl \in Nat \ {0} /\ Timeout \in Nat \ {0}
  BY ReadinessAssumption DEF ReadinessAssumption
<1>2. Edits = 1..Len(Files) /\ Len(Files) \in Nat /\ Len(Files) # 0
  BY <1>1 DEF Edits
<1> QED
  BY <1>1, <1>2

\* nsjail is not a language, so that its key is nobody else's.
LEMMA NsjailIsNoLanguage ==
  ASSUME NEW f \in Edits
  PROVE  nsjail \notin Languages(f)
<1>1. nsjail \notin UNION {Ids(g) : g \in DOMAIN Files}
  BY ReadinessAssumption DEF ReadinessAssumption
<1> QED
  BY <1>1 DEF Edits, Languages

\* Every key has a command.
LEMMA CmdType ==
  ASSUME NEW f \in Edits \union {0}, NEW k,
         k = nsjail \/ (f \in Edits /\ k \in Languages(f))
  PROVE  Cmd(f, k) \in Commands /\ k \in Keys /\ Cmd(f, nsjail) = nsjail
<1>1. CASE k = nsjail
  BY <1>1 DEF Cmd, Commands, Keys
<1>2. CASE k # nsjail
  <2>1. f \in Edits /\ k \in Ids(f)
    BY <1>2 DEF Languages
  <2> DEFINE E == {Files[f][i] : i \in DOMAIN Files[f]}
  <2>2. \E e \in E : e.id = k
    BY <2>1 DEF Ids
  <2>3. (CHOOSE e \in E : e.id = k) \in E
    BY <2>2
  <2>4. PICK i \in DOMAIN Files[f] : (CHOOSE e \in E : e.id = k) = Files[f][i]
    BY <2>3
  <2>5. Cmd(f, k) = Files[f][i].cmd
    BY <1>2, <2>4 DEF Cmd
  <2>6. Cmd(f, k) \in Commands
    BY <2>1, <2>5 DEF Commands, Edits
  <2>7. k \in Keys
    BY <1>2, <2>1 DEF Keys, Edits
  <2> QED
    BY <2>6, <2>7 DEF Cmd
<1> QED
  BY <1>1, <1>2

LEMMA ProbeOkType ==
  ASSUME NEW c, NEW s
  PROVE  ProbeOk(c, s) \in BOOLEAN
BY DEF ProbeOk

\* What a request looks up, by where it is.
LEMMA WantsBy ==
  ASSUME NEW r \in Requests, pc[r] \in Places
  PROVE  /\ pc[r] = "nsjail" => Wants(r) = {nsjail}
         /\ pc[r] = "languages" => Wants(r) = Languages(reg[r]) \ DOMAIN answer[r]
         /\ pc[r] \in {"idle", "registry"} => Wants(r) = {}
BY DEF Wants, WantsOf, Walked, Places

LEMMA WantsByNext ==
  ASSUME NEW r \in Requests, pc'[r] \in Places
  PROVE  /\ pc'[r] = "nsjail" => Wants(r)' = {nsjail}
         /\ pc'[r] = "languages" => Wants(r)' = Languages(reg'[r]) \ DOMAIN answer'[r]
         /\ pc'[r] \in {"idle", "registry"} => Wants(r)' = {}
BY DEF Wants, WantsOf, Walked, Places

------------------------------------------------------------------------------
(* The steps that several parts of the invariant look at *)

\* The request r has been told the result e of k; nothing but the cache changes
\* besides.
Told(r, k, e) ==
  /\ UNCHANGED <<cond, file, sighup, reader, registry, loaded, reg, could,
                 settled, age, oldAge>>
  /\ DOMAIN answer' = Requests
  /\ DOMAIN answer'[r] = DOMAIN answer[r] \union {k}
  /\ answer'[r][k].ok = e.ok /\ answer'[r][k].cmd = e.cmd
  /\ \A j \in DOMAIN answer[r] \ {k} : answer'[r][j] = answer[r][j]
  /\ \A q \in Requests \ {r} : answer'[q] = answer[q] /\ pc'[q] = pc[q]
  /\ pc'[r] = IF k = nsjail THEN "registry" ELSE pc[r]
  /\ pc' \in [Requests -> Places]

LEMMA GotTells ==
  ASSUME RequestTypes, NEW r \in Requests, NEW k, NEW e, Got(r, k, e)
  PROVE  Told(r, k, e)
<1>1. pc \in [Requests -> Places] /\ DOMAIN answer = Requests
  BY DEF RequestTypes
<1>2. /\ pc' = [pc EXCEPT ![r] = IF k = nsjail THEN "registry" ELSE @]
      /\ UNCHANGED <<cond, file, sighup, reader, registry, loaded, reg, could,
                     settled, age, oldAge>>
  BY DEF Got, world, reload
<1> DEFINE a == [j \in DOMAIN answer[r] \union {k} |->
                   IF j = k THEN [ok |-> e.ok, cmd |-> e.cmd] ELSE answer[r][j]]
<1>3. answer' = [answer EXCEPT ![r] = a]
  BY DEF Got
<1>4. /\ DOMAIN a = DOMAIN answer[r] \union {k}
      /\ a[k].ok = e.ok /\ a[k].cmd = e.cmd
      /\ \A j \in DOMAIN answer[r] \ {k} : a[j] = answer[r][j]
  OBVIOUS
<1> HIDE DEF a
<1>5. /\ DOMAIN answer' = Requests /\ answer'[r] = a
      /\ \A q \in Requests \ {r} : answer'[q] = answer[q]
  BY <1>1, <1>3
<1>6. /\ pc'[r] = IF k = nsjail THEN "registry" ELSE pc[r]
      /\ \A q \in Requests \ {r} : pc'[q] = pc[q]
      /\ pc' \in [Requests -> Places]
  BY <1>1, <1>2 DEF Places
<1> QED
  BY <1>2, <1>4, <1>5, <1>6 DEF Told

\* What the end of the probe tells is something it saw.
LEMMA ProbeEndTells ==
  ASSUME RequestTypes, ProbingOK, ProbeEnd
  PROVE  \E s \in probing.saw :
           /\ Told(probing.by, probing.key, Result(s))
           /\ entries' = Stored(Result(s)) /\ probing' = NoProbe
<1>1. probing.by \in Requests
  BY DEF ProbingOK, ProbeEnd
<1>2. PICK s \in probing.saw : /\ entries' = Stored(Result(s))
                               /\ Got(probing.by, probing.key, Result(s))
  BY DEF ProbeEnd
<1>3. probing' = NoProbe
  BY DEF ProbeEnd
<1> QED
  BY <1>1, <1>2, <1>3, GotTells

\* A request that is told something has asked for it.
LEMMA AskedFor ==
  ASSUME RequestTypes, WalkOK, NEW r \in Requests, NEW k \in Wants(r)
  PROVE  \/ pc[r] = "nsjail" /\ k = nsjail
         \/ /\ pc[r] = "languages" /\ k # nsjail
            /\ reg[r] \in Edits /\ k \in Languages(reg[r]) \ DOMAIN answer[r]
<1>1. pc[r] \in Places
  BY DEF RequestTypes
<1>2. pc[r] \in {"nsjail", "languages"}
  BY <1>1, WantsBy DEF Places
<1>3. CASE pc[r] = "nsjail"
  BY <1>1, <1>3, WantsBy
<1>4. CASE pc[r] = "languages"
  <2>1. reg[r] \in Edits
    BY <1>4 DEF WalkOK
  <2>2. k \in Languages(reg[r]) \ DOMAIN answer[r]
    BY <1>1, <1>4, WantsBy
  <2> QED
    BY <1>4, <2>1, <2>2, NsjailIsNoLanguage
<1> QED
  BY <1>2, <1>3, <1>4


------------------------------------------------------------------------------
(* The reload *)

LEMMA ReloadKept ==
  ASSUME ReloadTypes, ReloadOK, [Next]_vars
  PROVE  ReloadTypes' /\ ReloadOK'
<1> USE DEF ReloadTypes, ReloadOK, NoReloadLost
<1>1. Edits = 1..Len(Files) /\ Len(Files) \in Nat
  BY ReadinessConstants
<1>2. CASE EditAndSignal
  <2>1. file' \in Edits /\ sighup' \in BOOLEAN
    BY <1>1, <1>2 DEF EditAndSignal
  <2> QED
    BY <1>2, <2>1 DEF EditAndSignal
<1>3. CASE ReadFile
  <2>1. sighup' \in BOOLEAN
    BY <1>3, Zenon DEF ReadFile
  <2> QED
    BY <1>1, <1>3, <2>1 DEF ReadFile
<1>4. CASE Store
  BY <1>1, <1>4 DEF Store, Swap
<1>5. CASE UNCHANGED reload
  BY <1>5 DEF reload
<1>6. ASSUME NEW r \in Requests, Begin(r) \/ Walk(r)
      PROVE  UNCHANGED reload
  BY <1>6 DEF Begin, Walk, Hit, Miss, Walked, Got, Registry, Finish
<1>7. CASE ProbeEnd \/ Tick
  BY <1>5, <1>7 DEF ProbeEnd, Got, Tick, Ages
<1>8. ASSUME NEW c \in Commands, NEW s \in Conditions, Change(c, s)
      PROVE  UNCHANGED reload
  BY <1>8 DEF Change
<1>9. CASE UNCHANGED vars
  BY <1>5, <1>9 DEF vars
<1> QED
  BY <1>2, <1>3, <1>4, <1>5, <1>6, <1>7, <1>8, <1>9 DEF Next, LoadRegistry

------------------------------------------------------------------------------
(* The requests *)

\* A step that is none of the requests' leaves them where they are.
LEMMA OthersKeepRequests ==
  ASSUME \/ LoadRegistry \/ EditAndSignal \/ Tick \/ UNCHANGED vars
         \/ \E c \in Commands, s \in Conditions : Change(c, s)
  PROVE  UNCHANGED <<pc, reg, answer>>
BY DEF LoadRegistry, ReadFile, Store, Swap, EditAndSignal, Tick, Ages, Change,
       vars, requests

LEMMA RequestTypesKept ==
  ASSUME RequestTypes, ReloadTypes, ProbingOK, [Next]_vars
  PROVE  RequestTypes'
<1> USE DEF RequestTypes
<1>1. ttl \in Nat
  BY ReadinessConstants
<1>2. ASSUME NEW r \in Requests, Begin(r) PROVE RequestTypes'
  BY <1>2 DEF Begin, Places
<1>3. ASSUME NEW r \in Requests, NEW k, NEW e, Told(r, k, e)
      PROVE  RequestTypes'
  BY <1>3 DEF Told
<1>4. ASSUME NEW r \in Requests, NEW k, Hit(r, k) PROVE RequestTypes'
  BY <1>3, <1>4, GotTells DEF Hit
<1>5. CASE ProbeEnd
  <2>1. PICK s \in probing.saw : Told(probing.by, probing.key, Result(s))
    BY <1>5, ProbeEndTells
  <2>2. probing.by \in Requests
    BY <1>5 DEF ProbeEnd, ProbingOK
  <2> QED
    BY <1>3, <2>1, <2>2
<1>6. ASSUME NEW r \in Requests, NEW k, Miss(r, k) PROVE RequestTypes'
  BY <1>6 DEF Miss, Walked, requests
<1>7. ASSUME NEW r \in Requests, Registry(r) PROVE RequestTypes'
  BY <1>7 DEF Registry, ReloadTypes, Places
<1>8. ASSUME NEW r \in Requests, Finish(r) PROVE RequestTypes'
  BY <1>1, <1>8 DEF Finish, Places
<1>9. CASE Store
  BY <1>1, <1>9 DEF Store, Swap
<1>10. CASE Tick
  <2>1. oldAge' \in 0..ttl
    BY <1>1, <1>10 DEF Tick, Ages, Older
  <2> QED
    BY <1>10, <2>1 DEF Tick, Ages, requests
<1>11. CASE ReadFile \/ EditAndSignal \/ UNCHANGED vars
  BY <1>11 DEF ReadFile, EditAndSignal, vars, requests
<1>12. ASSUME NEW c \in Commands, NEW s \in Conditions, Change(c, s)
       PROVE  RequestTypes'
  BY <1>12 DEF Change
<1> QED
  BY <1>2, <1>4, <1>5, <1>6, <1>7, <1>8, <1>9, <1>10, <1>11, <1>12
     DEF Next, Walk, LoadRegistry

LEMMA WalkKept ==
  ASSUME ReloadTypes, RequestTypes, WalkOK, ProbingOK, [Next]_vars
  PROVE  WalkOK'
<1> USE DEF WalkOK
<1>1. /\ pc \in [Requests -> Places] /\ DOMAIN answer = Requests
      /\ reg \in [Requests -> Edits \union {0}]
  BY DEF RequestTypes
<1>2. ASSUME NEW r \in Requests, Begin(r) PROVE WalkOK'
  BY <1>1, <1>2 DEF Begin
<1>3. ASSUME NEW r \in Requests, NEW k \in Wants(r), NEW e, Told(r, k, e)
      PROVE  WalkOK'
  <2>1. \/ pc[r] = "nsjail" /\ k = nsjail
        \/ /\ pc[r] = "languages" /\ k # nsjail
           /\ reg[r] \in Edits /\ k \in Languages(reg[r]) \ DOMAIN answer[r]
    BY AskedFor
  <2>2. /\ reg' = reg
        /\ DOMAIN answer'[r] = DOMAIN answer[r] \union {k}
        /\ \A q \in Requests \ {r} : answer'[q] = answer[q] /\ pc'[q] = pc[q]
        /\ pc'[r] = IF k = nsjail THEN "registry" ELSE pc[r]
    BY <1>3 DEF Told
  <2> QED
    BY <2>1, <2>2
<1>4. ASSUME NEW r \in Requests, NEW k, Hit(r, k) PROVE WalkOK'
  BY <1>3, <1>4, GotTells DEF Hit
<1>5. CASE ProbeEnd
  <2>1. PICK s \in probing.saw : Told(probing.by, probing.key, Result(s))
    BY <1>5, ProbeEndTells
  <2>2. probing.by \in Requests /\ probing.key \in Wants(probing.by)
    BY <1>5 DEF ProbeEnd, ProbingOK
  <2> QED
    BY <1>3, <2>1, <2>2
<1>6. CASE UNCHANGED <<pc, reg, answer>>
  BY <1>6
<1>7. ASSUME NEW r \in Requests, NEW k, Miss(r, k) PROVE WalkOK'
  BY <1>6, <1>7 DEF Miss, Walked, requests
<1>8. ASSUME NEW r \in Requests, Registry(r) PROVE WalkOK'
  BY <1>1, <1>8 DEF Registry, ReloadTypes
<1>9. ASSUME NEW r \in Requests, Finish(r) PROVE WalkOK'
  <2>1. DOMAIN answer'[r] = {} /\ pc'[r] = "idle"
    BY <1>1, <1>9 DEF Finish
  <2>2. \A q \in Requests \ {r} :
          answer'[q] = answer[q] /\ pc'[q] = pc[q] /\ reg'[q] = reg[q]
    BY <1>1, <1>9 DEF Finish
  <2> QED
    BY <2>1, <2>2
<1> QED
  BY <1>2, <1>4, <1>5, <1>6, <1>7, <1>8, <1>9, OthersKeepRequests DEF Next, Walk

------------------------------------------------------------------------------
(* The probe under way *)

\* A request that has nothing to look up is not the one that probes.
LEMMA NotTheProber ==
  ASSUME RequestTypes, ProbingOK, NEW r \in Requests,
         pc[r] \in {"idle", "registry"} \/ Wants(r) = {}
  PROVE  probing # NoProbe => probing.by # r
<1>1. pc[r] \in Places
  BY DEF RequestTypes
<1> QED
  BY <1>1, WantsBy DEF ProbingOK

\* The probe under way stays its request's while that request stays.
LEMMA ProberStays ==
  ASSUME ProbingOK, UNCHANGED probing,
         probing # NoProbe => LET q == probing.by IN
           pc'[q] = pc[q] /\ reg'[q] = reg[q] /\ answer'[q] = answer[q]
  PROVE  ProbingOK'
<1> SUFFICES ASSUME probing # NoProbe PROVE ProbingOK'
  BY DEF ProbingOK
<1>1. Wants(probing.by)' = Wants(probing.by)
  BY DEF Wants, WantsOf, Walked
<1> QED
  BY <1>1 DEF ProbingOK

\* A tick makes the probe older up to its timeout, and changes nothing else.
LEMMA TickProbe ==
  ASSUME ProbingOK, Tick, probing' # NoProbe
  PROVE  /\ probing # NoProbe /\ probing.age \in 0..Timeout
         /\ probing' \in [by : Requests, key : Keys, cmd : Commands,
                          age : 0..Timeout, saw : SUBSET Conditions]
         /\ probing'.by = probing.by /\ probing'.key = probing.key
         /\ probing'.cmd = probing.cmd /\ probing'.saw = probing.saw
         /\ probing'.age = IF Overrun THEN probing.age ELSE probing.age + 1
<1> DEFINE a == Older(probing.age, Timeout)
<1>1. probing # NoProbe
  BY DEF Tick
<1>2. probing' = [probing EXCEPT !.age = a]
  BY <1>1 DEF Tick
<1>3. /\ probing \in [by : Requests, key : Keys, cmd : Commands,
                      age : 0..Timeout, saw : SUBSET Conditions]
      /\ probing.age \in 0..Timeout /\ Timeout \in Nat
  BY <1>1, ReadinessConstants DEF ProbingOK
<1>4. a \in 0..Timeout /\ a = IF Overrun THEN probing.age ELSE probing.age + 1
  BY <1>1, <1>3 DEF Older, Overrun
<1> HIDE DEF a
<1>5. /\ probing' \in [by : Requests, key : Keys, cmd : Commands,
                       age : 0..Timeout, saw : SUBSET Conditions]
      /\ probing'.by = probing.by /\ probing'.key = probing.key
      /\ probing'.cmd = probing.cmd /\ probing'.saw = probing.saw
      /\ probing'.age = a
  BY <1>2, <1>3, <1>4
<1> QED
  BY <1>1, <1>3, <1>4, <1>5

LEMMA ProbingKept ==
  ASSUME ReloadTypes, RequestTypes, WalkOK, ProbingOK, AgesOK, [Next]_vars
  PROVE  ProbingOK'
<1>1. /\ pc \in [Requests -> Places] /\ DOMAIN answer = Requests
      /\ reg \in [Requests -> Edits \union {0}]
      /\ Timeout \in Nat
  BY ReadinessConstants DEF RequestTypes
<1>2. ASSUME NEW r \in Requests, Begin(r) \/ Registry(r) \/ Finish(r)
      PROVE  ProbingOK'
  <2>1. probing # NoProbe => probing.by # r
    BY <1>2, NotTheProber DEF Begin, Registry, Finish
  <2>2. /\ UNCHANGED probing
        /\ \A q \in Requests \ {r} :
             answer'[q] = answer[q] /\ pc'[q] = pc[q] /\ reg'[q] = reg[q]
    BY <1>1, <1>2 DEF Begin, Registry, Finish, cache
  <2>3. probing # NoProbe => probing.by \in Requests
    BY DEF ProbingOK
  <2> QED
    BY <2>1, <2>2, <2>3, ProberStays
<1>3. ASSUME NEW r \in Requests, NEW k, Miss(r, k) PROVE ProbingOK'
  <2> DEFINE c == Cmd(reg[r], k)
             p == [by |-> r, key |-> k, cmd |-> c, age |-> 0, saw |-> {cond[c]}]
  <2>1. probing' = p /\ k \in Wants(r) /\ UNCHANGED <<pc, reg, answer>>
    BY <1>3 DEF Miss, Walked, requests
  <2>2. c \in Commands /\ k \in Keys
    BY <1>1, <2>1, AskedFor, CmdType
  <2>3. cond[c] \in Conditions
    BY <2>2 DEF AgesOK
  <2>4. p \in [by : Requests, key : Keys, cmd : Commands, age : 0..Timeout,
               saw : SUBSET Conditions]
    BY <1>1, <2>2, <2>3
  <2>5. probing'.by = r /\ probing'.key = k /\ probing'.cmd = Cmd(reg[r], k)
    BY <2>1
  <2>6. Wants(probing.by)' = Wants(r)
    BY <2>1, <2>5 DEF Wants, WantsOf, Walked
  <2> HIDE DEF p
  <2> QED
    BY <2>1, <2>4, <2>5, <2>6 DEF ProbingOK
<1>4. CASE Tick
  <2> SUFFICES ASSUME probing' # NoProbe PROVE ProbingOK'
    BY DEF ProbingOK
  <2>1. UNCHANGED <<pc, reg, answer>>
    BY <1>4 DEF Tick, Ages, requests
  <2>2. /\ probing # NoProbe
        /\ probing' \in [by : Requests, key : Keys, cmd : Commands,
                         age : 0..Timeout, saw : SUBSET Conditions]
        /\ probing'.by = probing.by /\ probing'.key = probing.key
        /\ probing'.cmd = probing.cmd
    BY <1>4, TickProbe
  <2>3. /\ probing.key \in Wants(probing.by)
        /\ probing.cmd = Cmd(reg[probing.by], probing.key)
    BY <2>2 DEF ProbingOK
  <2>4. Wants(probing.by)' = Wants(probing.by)
    BY <2>1, <2>2 DEF Wants, WantsOf, Walked
  <2> QED
    BY <2>1, <2>2, <2>3, <2>4 DEF ProbingOK
<1>5. ASSUME NEW c \in Commands, NEW s \in Conditions, Change(c, s)
      PROVE  ProbingOK'
  <2>1. probing # NoProbe =>
          probing' \in {probing, [probing EXCEPT !.saw = @ \union {s}]}
    BY <1>5 DEF Change
  <2>2. probing = NoProbe => probing' = NoProbe
    BY <1>5 DEF Change
  <2>3. UNCHANGED <<pc, reg, answer>>
    BY <1>5 DEF Change
  <2> SUFFICES ASSUME probing' # NoProbe PROVE ProbingOK'
    BY DEF ProbingOK
  <2>4. /\ probing \in [by : Requests, key : Keys, cmd : Commands,
                        age : 0..Timeout, saw : SUBSET Conditions]
        /\ probing.key \in Wants(probing.by)
        /\ probing.cmd = Cmd(reg[probing.by], probing.key)
    BY <2>2 DEF ProbingOK
  <2>5. /\ probing' \in [by : Requests, key : Keys, cmd : Commands,
                         age : 0..Timeout, saw : SUBSET Conditions]
        /\ probing'.by = probing.by /\ probing'.key = probing.key
        /\ probing'.cmd = probing.cmd
    BY <2>1, <2>2, <2>4
  <2>6. Wants(probing.by)' = Wants(probing.by)
    BY <2>3, <2>5 DEF Wants, WantsOf, Walked
  <2> QED
    BY <2>3, <2>4, <2>5, <2>6 DEF ProbingOK
<1>6. CASE ProbeEnd
  BY <1>6 DEF ProbeEnd, ProbingOK
<1>7. ASSUME NEW r \in Requests, NEW k, Hit(r, k) PROVE ProbingOK'
  BY <1>7 DEF Hit, cache, ProbingOK
<1>8. CASE LoadRegistry \/ EditAndSignal \/ UNCHANGED vars
  <2>1. UNCHANGED <<probing, pc, reg, answer>>
    BY <1>8 DEF LoadRegistry, ReadFile, Store, Swap, EditAndSignal, vars, cache,
                requests
  <2> QED
    BY <2>1, ProberStays
<1> QED
  BY <1>2, <1>3, <1>4, <1>5, <1>6, <1>7, <1>8 DEF Next, Walk


------------------------------------------------------------------------------
(* Ages and the cache *)

LEMMA AgesKept ==
  ASSUME AgesOK, [Next]_vars
  PROVE  AgesOK'
<1>1. /\ cond \in [Commands -> Conditions]
      /\ age \in [Results -> 0..(ttl + Timeout)]
      /\ \A c \in Commands : age[<<c, ProbeOk(c, cond[c])>>] = 0
      /\ ttl + Timeout \in Nat
  BY ReadinessConstants DEF AgesOK
<1>2. \A c, s : c \in Commands => <<c, ProbeOk(c, s)>> \in Results
  BY ProbeOkType DEF Results
<1>3. CASE Tick
  <2>1. age' = [p \in Results |->
                 IF ProbeOk(p[1], cond[p[1]]) = p[2] THEN 0
                 ELSE IF Overrun THEN age[p] ELSE Older(age[p], ttl + Timeout)]
    BY <1>3 DEF Tick, Ages
  <2>2. cond' = cond
    BY <1>3 DEF Tick, Ages, world
  <2>3. age' \in [Results -> 0..(ttl + Timeout)]
    BY <1>1, <2>1 DEF Older
  <2>4. \A c \in Commands : age'[<<c, ProbeOk(c, cond[c])>>] = 0
    BY <1>2, <2>1
  <2> QED
    BY <1>1, <2>2, <2>3, <2>4 DEF AgesOK
<1>4. ASSUME NEW c \in Commands, NEW s \in Conditions, Change(c, s)
      PROVE  AgesOK'
  <2>1. /\ cond' = [cond EXCEPT ![c] = s]
        /\ age' = [age EXCEPT ![<<c, ProbeOk(c, s)>>] = 0]
    BY <1>4 DEF Change
  <2>2. cond' \in [Commands -> Conditions]
    BY <1>1, <2>1
  <2>3. age' \in [Results -> 0..(ttl + Timeout)]
    <3> DEFINE now == <<c, ProbeOk(c, s)>>
    <3>1. age' = [age EXCEPT ![now] = 0] /\ 0 \in 0..(ttl + Timeout)
      BY <1>1, <2>1
    <3> HIDE DEF now
    <3> QED
      BY <1>1, <3>1
  <2>4. ASSUME NEW d \in Commands
        PROVE  age'[<<d, ProbeOk(d, cond'[d])>>] = 0
    <3>1. CASE d = c
      BY <1>1, <1>2, <2>1, <3>1
    <3>2. CASE d # c
      <4>1. cond'[d] = cond[d]
        BY <1>1, <2>1, <3>2
      <4>2. <<d, ProbeOk(d, cond[d])>> # <<c, ProbeOk(c, s)>>
        BY <3>2
      <4>3. age'[<<d, ProbeOk(d, cond[d])>>] = age[<<d, ProbeOk(d, cond[d])>>]
        BY <1>1, <1>2, <2>1, <4>2
      <4> QED
        BY <1>1, <4>1, <4>3
    <3> QED
      BY <3>1, <3>2
  <2> QED
    BY <2>2, <2>3, <2>4 DEF AgesOK
<1>5. CASE UNCHANGED <<cond, age>>
  BY <1>5 DEF AgesOK
<1>6. ASSUME NEW r \in Requests, Begin(r) \/ Walk(r)
      PROVE  UNCHANGED <<cond, age>>
  BY <1>6 DEF Begin, Walk, Hit, Miss, Walked, Got, Registry, Finish, world
<1>7. CASE ProbeEnd \/ LoadRegistry \/ EditAndSignal \/ UNCHANGED vars
  BY <1>5, <1>7 DEF ProbeEnd, Got, LoadRegistry, ReadFile, Store, Swap,
                    EditAndSignal, vars, world
<1> QED
  BY <1>3, <1>4, <1>5, <1>6, <1>7 DEF Next

\* When a result becomes possible it is 0 old, and no tick makes it older by
\* more than one.
LEMMA TickAges ==
  ASSUME AgesOK, Tick, NEW p \in Results
  PROVE  /\ age[p] \in Nat /\ age'[p] \in Nat /\ age'[p] <= age[p] + 1
         /\ age[p] \in 0..(ttl + Timeout) /\ age'[p] \in 0..(ttl + Timeout)
         /\ age'[p] = 0 \/ age'[p] >= age[p]
         /\ Overrun => age'[p] <= age[p]
<1>1. age \in [Results -> 0..(ttl + Timeout)] /\ ttl + Timeout \in Nat
  BY ReadinessConstants DEF AgesOK
<1>2. age'[p] = IF ProbeOk(p[1], cond[p[1]]) = p[2] THEN 0
                ELSE IF Overrun THEN age[p] ELSE Older(age[p], ttl + Timeout)
  BY DEF Tick, Ages
<1> QED
  BY <1>1, <1>2 DEF Older

LEMMA CacheKept ==
  ASSUME RequestTypes, ReloadTypes, WalkOK, ProbingOK, AgesOK, CacheOK, [Next]_vars
  PROVE  CacheOK'
<1>1. /\ age \in [Results -> 0..(ttl + Timeout)]
      /\ ttl \in Nat \ {0} /\ Timeout \in Nat \ {0} /\ ttl + Timeout \in Nat
  BY ReadinessConstants DEF AgesOK
<1>2. \A c, s : c \in Commands => <<c, ProbeOk(c, s)>> \in Results
  BY ProbeOkType DEF Results
<1>3. \A k \in DOMAIN entries :
        /\ entries[k] \in [age : 0..ttl, ok : BOOLEAN, cmd : Commands]
        /\ <<entries[k].cmd, entries[k].ok>> \in Results
        /\ age[<<entries[k].cmd, entries[k].ok>>] <= entries[k].age + Timeout
  BY DEF CacheOK, Results
<1>4. probing # NoProbe =>
        /\ probing \in [by : Requests, key : Keys, cmd : Commands,
                        age : 0..Timeout, saw : SUBSET Conditions]
        /\ \A s \in probing.saw :
             age[<<probing.cmd, ProbeOk(probing.cmd, s)>>] <= probing.age
  BY DEF CacheOK, ProbingOK
<1>5. CASE Tick
  <2>1. ASSUME probing' # NoProbe, NEW s \in probing'.saw
        PROVE  age'[<<probing'.cmd, ProbeOk(probing'.cmd, s)>>] <= probing'.age
    <3>1. probing # NoProbe
      BY <1>5, <2>1, TickProbe
    <3>2. /\ probing'.cmd = probing.cmd /\ probing'.saw = probing.saw
          /\ probing'.age = IF Overrun THEN probing.age ELSE probing.age + 1
          /\ probing.age \in Nat /\ probing.cmd \in Commands
      BY <1>1, <1>4, <1>5, <2>1, TickProbe
    <3> DEFINE p == <<probing.cmd, ProbeOk(probing.cmd, s)>>
    <3>3. p \in Results /\ age[p] <= probing.age
      BY <1>2, <1>4, <2>1, <3>1, <3>2
    <3> HIDE DEF p
    <3>4. /\ age[p] \in Nat /\ age'[p] \in Nat /\ age'[p] <= age[p] + 1
          /\ Overrun => age'[p] <= age[p]
      BY <1>5, <3>3, TickAges
    <3>5. age'[p] <= probing'.age
      BY <3>2, <3>3, <3>4
    <3> QED
      BY <3>2, <3>5 DEF p
  <2>2. ASSUME NEW k \in DOMAIN entries'
        PROVE  /\ entries'[k] \in [age : 0..ttl, ok : BOOLEAN, cmd : Commands]
               /\ age'[<<entries'[k].cmd, entries'[k].ok>>]
                    <= entries'[k].age + Timeout
    <3>1. /\ k \in DOMAIN entries
          /\ entries'[k] = [entries[k] EXCEPT !.age = Older(@, ttl)]
      BY <1>5, <2>2 DEF Tick, Ages
    <3>2. /\ entries'[k] \in [age : 0..ttl, ok : BOOLEAN, cmd : Commands]
          /\ entries'[k].cmd = entries[k].cmd /\ entries'[k].ok = entries[k].ok
          /\ entries'[k].age = Older(entries[k].age, ttl)
          /\ entries[k].age \in 0..ttl
      <4> DEFINE e == entries[k]
                 a == Older(e.age, ttl)
      <4>1. e \in [age : 0..ttl, ok : BOOLEAN, cmd : Commands]
        BY <1>3, <3>1
      <4>2. entries'[k] = [e EXCEPT !.age = a]
        BY <3>1
      <4>3. e.age \in 0..ttl
        BY <4>1
      <4>4. a \in 0..ttl
        BY <1>1, <4>3 DEF Older
      <4> HIDE DEF e, a
      <4>5. /\ [e EXCEPT !.age = a] \in [age : 0..ttl, ok : BOOLEAN, cmd : Commands]
            /\ [e EXCEPT !.age = a].cmd = e.cmd
            /\ [e EXCEPT !.age = a].ok = e.ok /\ [e EXCEPT !.age = a].age = a
        BY <4>1, <4>4
      <4> QED
        BY <4>2, <4>3, <4>5 DEF e, a
    <3> DEFINE p == <<entries[k].cmd, entries[k].ok>>
    <3>3. p \in Results /\ age[p] <= entries[k].age + Timeout
      BY <1>3, <3>1
    <3> HIDE DEF p
    <3>4. /\ age[p] \in Nat /\ age'[p] \in Nat /\ age'[p] <= age[p] + 1
          /\ age'[p] \in 0..(ttl + Timeout)
      BY <1>5, <3>3, TickAges
    <3>5. age'[p] <= entries'[k].age + Timeout
      BY <1>1, <3>2, <3>3, <3>4 DEF Older
    <3> QED
      BY <3>2, <3>5 DEF p
  <2> QED
    BY <2>1, <2>2 DEF CacheOK
<1>6. ASSUME NEW c \in Commands, NEW s \in Conditions, Change(c, s)
      PROVE  CacheOK'
  <2> DEFINE now == <<c, ProbeOk(c, s)>>
  <2>1. age' = [age EXCEPT ![now] = 0] /\ entries' = entries
    BY <1>6 DEF Change
  <2>2. now \in Results
    BY <1>2
  <2> HIDE DEF now
  <2>3. \A p \in Results : /\ age'[p] \in Nat /\ age[p] \in Nat
                           /\ age'[p] <= age[p] /\ (p = now => age'[p] = 0)
    BY <1>1, <2>1, <2>2
  <2>4. ASSUME probing' # NoProbe, NEW t \in probing'.saw
        PROVE  age'[<<probing'.cmd, ProbeOk(probing'.cmd, t)>>] <= probing'.age
    <3>1. /\ probing # NoProbe
          /\ \/ probing' = probing
             \/ /\ probing.cmd = c
                /\ probing' = [probing EXCEPT !.saw = @ \union {s}]
      BY <1>6, <2>4 DEF Change
    <3>2. /\ probing'.cmd = probing.cmd /\ probing'.age = probing.age
          /\ t \in probing.saw \/ (t = s /\ probing.cmd = c)
          /\ probing.cmd \in Commands /\ probing.age \in Nat
      BY <1>1, <1>4, <2>4, <3>1
    <3> DEFINE p == <<probing.cmd, ProbeOk(probing.cmd, t)>>
    <3>3. p \in Results
      BY <1>2, <3>2
    <3>4. CASE t \in probing.saw
      <4>1. age[p] <= probing.age
        BY <1>4, <3>1, <3>4
      <4> HIDE DEF p
      <4>2. age'[p] <= probing.age
        BY <2>3, <3>2, <3>3, <4>1
      <4> QED
        BY <3>2, <4>2 DEF p
    <3>5. CASE t = s /\ probing.cmd = c
      <4>1. p = now
        BY <3>5 DEF now
      <4> HIDE DEF p
      <4>2. age'[p] <= probing.age
        BY <2>3, <3>2, <3>3, <4>1
      <4> QED
        BY <3>2, <4>2 DEF p
    <3> QED
      BY <3>2, <3>4, <3>5
  <2>5. ASSUME NEW k \in DOMAIN entries
        PROVE  age'[<<entries[k].cmd, entries[k].ok>>] <= entries[k].age + Timeout
    <3> DEFINE p == <<entries[k].cmd, entries[k].ok>>
    <3>1. p \in Results /\ age[p] <= entries[k].age + Timeout
      BY <1>3
    <3>2. entries[k].age \in Nat
      <4>1. entries[k] \in [age : 0..ttl, ok : BOOLEAN, cmd : Commands]
        BY <1>3
      <4>2. entries[k].age \in 0..ttl
        BY <4>1
      <4> QED
        BY <1>1, <4>2
    <3> HIDE DEF p
    <3>3. age'[p] <= entries[k].age + Timeout
      BY <1>1, <2>3, <3>1, <3>2
    <3> QED
      BY <3>3 DEF p
  <2> QED
    BY <1>3, <2>1, <2>4, <2>5 DEF CacheOK
<1>7. ASSUME NEW r \in Requests, NEW k, Miss(r, k) PROVE CacheOK'
  <2> DEFINE c == Cmd(reg[r], k)
  <2>1. /\ probing' = [by |-> r, key |-> k, cmd |-> c, age |-> 0,
                       saw |-> {cond[c]}]
        /\ k \in Wants(r) /\ UNCHANGED <<entries, age>>
    BY <1>7 DEF Miss, Walked
  <2>2. c \in Commands
    BY <2>1, AskedFor, CmdType DEF RequestTypes
  <2>3. age[<<c, ProbeOk(c, cond[c])>>] = 0
    BY <2>2 DEF AgesOK
  <2> HIDE DEF c
  <2>4. probing'.cmd = c /\ probing'.age = 0 /\ probing'.saw = {cond[c]}
    BY <2>1
  <2> QED
    BY <1>3, <2>1, <2>3, <2>4 DEF CacheOK
<1>8. CASE ProbeEnd
  <2>1. PICK s \in probing.saw : /\ Told(probing.by, probing.key, Result(s))
                                 /\ entries' = Stored(Result(s))
                                 /\ probing' = NoProbe
    BY <1>8, ProbeEndTells
  <2>2. probing # NoProbe /\ age' = age
    BY <1>8, <2>1 DEF ProbeEnd, Told
  <2> DEFINE p == <<probing.cmd, ProbeOk(probing.cmd, s)>>
  <2>3. /\ probing.cmd \in Commands /\ probing.age \in 0..Timeout
        /\ age[p] <= probing.age
    BY <1>4, <2>1, <2>2
  <2>4. p \in Results
    BY <1>2, <2>3
  <2>5. age[p] <= 0 + Timeout
    <3> HIDE DEF p
    <3> QED
      BY <1>1, <2>3, <2>4
  <2>6. /\ Result(s) \in [age : 0..ttl, ok : BOOLEAN, cmd : Commands]
        /\ Result(s).age = 0 /\ p = <<Result(s).cmd, Result(s).ok>>
    BY <1>1, <2>3, ProbeOkType DEF Result
  <2>7. ASSUME NEW k \in DOMAIN entries'
        PROVE  /\ entries'[k] \in [age : 0..ttl, ok : BOOLEAN, cmd : Commands]
               /\ age[<<entries'[k].cmd, entries'[k].ok>>]
                    <= entries'[k].age + Timeout
    <3>1. \/ entries'[k] = Result(s)
          \/ k \in DOMAIN entries /\ entries'[k] = entries[k]
      BY <2>1, <2>7 DEF Stored
    <3>2. CASE entries'[k] = Result(s)
      BY <2>5, <2>6, <3>2
    <3>3. CASE k \in DOMAIN entries /\ entries'[k] = entries[k]
      BY <1>3, <3>3
    <3> QED
      BY <3>1, <3>2, <3>3
  <2> QED
    BY <2>1, <2>2, <2>7 DEF CacheOK
<1>9. CASE UNCHANGED <<entries, probing, age>>
  BY <1>9 DEF CacheOK
<1>10. ASSUME NEW r \in Requests, Begin(r) \/ Registry(r) \/ Finish(r)
       PROVE  CacheOK'
  BY <1>9, <1>10 DEF Begin, Registry, Finish, cache
<1>11. ASSUME NEW r \in Requests, NEW k, Hit(r, k) PROVE CacheOK'
  BY <1>9, <1>11 DEF Hit, Got, cache
<1>12. CASE LoadRegistry \/ EditAndSignal \/ UNCHANGED vars
  BY <1>9, <1>12 DEF LoadRegistry, ReadFile, Store, Swap, EditAndSignal, vars,
                     cache
<1> QED
  BY <1>5, <1>6, <1>7, <1>8, <1>10, <1>11, <1>12 DEF Next, Walk


------------------------------------------------------------------------------
(* What a request could see *)

\* A request under way is told only what is recent.
LEMMA ToldRecent ==
  ASSUME AgesOK, CouldOK, RequestTypes, WalkOK,
         NEW r \in Requests, NEW k \in Wants(r), NEW e, Told(r, k, e),
         e.ok \in BOOLEAN, e.cmd \in Commands,
         age[<<e.cmd, e.ok>>] < ttl + Timeout
  PROVE  CouldOK'
<1>1. InProgress(r)
  BY AskedFor DEF InProgress
<1>2. <<e.cmd, e.ok>> \in Recent(age)
  BY DEF Recent, Results
<1>3. <<e.cmd, e.ok>> \in could[r]
  BY <1>1, <1>2 DEF CouldOK
<1>4. /\ DOMAIN could' = Requests /\ could' = could /\ age' = age
  BY DEF CouldOK, Told
<1>5. \A q \in Requests : InProgress(q)' => InProgress(q)
  BY <1>1 DEF InProgress, Told
<1>6. \A q \in Requests : InProgress(q)' => Recent(age') \subseteq could'[q]
  BY <1>4, <1>5 DEF CouldOK
<1>7. ASSUME NEW q \in Requests, NEW j \in DOMAIN answer'[q]
      PROVE  /\ answer'[q][j].ok \in BOOLEAN
             /\ <<answer'[q][j].cmd, answer'[q][j].ok>> \in could[q]
  <2>1. CASE q = r /\ j = k
    <3>1. answer'[q][j].ok = e.ok /\ answer'[q][j].cmd = e.cmd
      BY <2>1 DEF Told
    <3> QED
      BY <1>3, <2>1, <3>1
  <2>2. CASE q # r \/ j # k
    <3>1. j \in DOMAIN answer[q] /\ answer'[q][j] = answer[q][j]
      BY <1>7, <2>2 DEF Told
    <3> QED
      BY <3>1 DEF CouldOK
  <2> QED
    BY <2>1, <2>2
<1> QED
  BY <1>4, <1>6, <1>7 DEF CouldOK

\* The old and the new ages that are recent.
LEMMA RecentKept ==
  ASSUME AgesOK, Tick
  PROVE  Recent(age') \subseteq Recent(age)
<1> SUFFICES ASSUME NEW p \in Results, age'[p] < ttl + Timeout
             PROVE  age[p] < ttl + Timeout
  BY DEF Recent
<1>1. /\ age \in [Results -> 0..(ttl + Timeout)] /\ ttl + Timeout \in Nat
      /\ ttl + Timeout > 0 /\ age[p] \in 0..(ttl + Timeout)
  BY ReadinessConstants DEF AgesOK
<1>2. age'[p] = IF ProbeOk(p[1], cond[p[1]]) = p[2] THEN 0
                ELSE IF Overrun THEN age[p] ELSE Older(age[p], ttl + Timeout)
  BY DEF Tick, Ages
<1>3. CASE ProbeOk(p[1], cond[p[1]]) = p[2]
  <2>1. p = <<p[1], ProbeOk(p[1], cond[p[1]])>> /\ p[1] \in Commands
    BY <1>3 DEF Results
  <2>2. age[p] = 0
    BY <2>1 DEF AgesOK
  <2> QED
    BY <1>1, <2>2
<1>4. CASE ProbeOk(p[1], cond[p[1]]) # p[2]
  BY <1>1, <1>2, <1>4 DEF Older
<1> QED
  BY <1>3, <1>4

LEMMA CouldKept ==
  ASSUME RequestTypes, WalkOK, ProbingOK, AgesOK, CacheOK, CouldOK, [Next]_vars
  PROVE  CouldOK'
<1>1. /\ pc \in [Requests -> Places] /\ DOMAIN answer = Requests
      /\ DOMAIN could = Requests
      /\ \A q \in Requests : pc[q] = "idle" => DOMAIN answer[q] = {}
  BY DEF RequestTypes, CouldOK, WalkOK
<1>2. /\ age \in [Results -> 0..(ttl + Timeout)]
      /\ ttl \in Nat \ {0} /\ Timeout \in Nat \ {0} /\ ttl + Timeout \in Nat
  BY ReadinessConstants DEF AgesOK
<1>3. ASSUME NEW r \in Requests, NEW k, Hit(r, k) PROVE CouldOK'
  <2>1. /\ k \in Wants(r) /\ k \in DOMAIN entries /\ entries[k].age < ttl
        /\ Told(r, k, entries[k])
    BY <1>3, GotTells DEF Hit
  <2> DEFINE e == entries[k]
             p == <<e.cmd, e.ok>>
  <2>2. /\ e \in [age : 0..ttl, ok : BOOLEAN, cmd : Commands]
        /\ age[p] <= e.age + Timeout
    BY <2>1 DEF CacheOK
  <2>3. e.ok \in BOOLEAN /\ e.cmd \in Commands /\ e.age \in 0..ttl
    BY <2>2
  <2>4. p \in Results
    BY <2>3 DEF Results
  <2>5. age[p] < ttl + Timeout
    <3>1. e.age < ttl
      BY <2>1
    <3> HIDE DEF p, e
    <3> QED
      BY <1>2, <2>2, <2>3, <2>4, <3>1
  <2> QED
    BY <2>1, <2>3, <2>5, ToldRecent
<1>4. CASE ProbeEnd
  <2>1. PICK s \in probing.saw : Told(probing.by, probing.key, Result(s))
    BY <1>4, ProbeEndTells
  <2>2. /\ probing # NoProbe
        /\ probing.by \in Requests /\ probing.key \in Wants(probing.by)
        /\ probing.cmd \in Commands /\ probing.age \in 0..Timeout
    BY <1>4 DEF ProbeEnd, ProbingOK
  <2> DEFINE p == <<probing.cmd, ProbeOk(probing.cmd, s)>>
  <2>3. age[p] <= probing.age
    BY <2>1, <2>2 DEF CacheOK
  <2>4. p \in Results
    BY <2>2, ProbeOkType DEF Results
  <2>5. age[p] < ttl + Timeout
    <3> HIDE DEF p
    <3> QED
      BY <1>2, <2>2, <2>3, <2>4
  <2>6. Result(s).ok = ProbeOk(probing.cmd, s) /\ Result(s).cmd = probing.cmd
    BY DEF Result
  <2>7. /\ Result(s).ok \in BOOLEAN /\ Result(s).cmd \in Commands
        /\ age[<<Result(s).cmd, Result(s).ok>>] < ttl + Timeout
    BY <2>2, <2>5, <2>6, ProbeOkType
  <2> QED
    BY <2>1, <2>2, <2>7, ToldRecent
<1>5. CASE Tick
  <2>1. UNCHANGED <<pc, answer, could>>
    BY <1>5 DEF Tick, Ages, requests
  <2>2. Recent(age') \subseteq Recent(age)
    BY <1>5, RecentKept
  <2> QED
    BY <2>1, <2>2 DEF CouldOK, InProgress
<1>6. ASSUME NEW c \in Commands, NEW s \in Conditions, Change(c, s)
      PROVE  CouldOK'
  <2> DEFINE now == <<c, ProbeOk(c, s)>>
  <2>1. /\ age' = [age EXCEPT ![now] = 0] /\ UNCHANGED <<pc, answer>>
        /\ could' = [r \in Requests |-> IF InProgress(r)
                                        THEN could[r] \union {now} ELSE {}]
    BY <1>6 DEF Change
  <2>2. now \in Results
    BY ProbeOkType DEF Results
  <2> HIDE DEF now
  <2>3. Recent(age') \subseteq Recent(age) \union {now}
    BY <1>2, <2>1, <2>2 DEF Recent
  <2>4. \A r \in Requests : InProgress(r) => could'[r] = could[r] \union {now}
    BY <2>1
  <2>5. \A r \in Requests : InProgress(r)' => Recent(age') \subseteq could'[r]
    BY <2>1, <2>3, <2>4 DEF CouldOK, InProgress
  <2>6. \A r \in Requests : \A k \in DOMAIN answer[r] :
          /\ answer[r][k].ok \in BOOLEAN
          /\ <<answer[r][k].cmd, answer[r][k].ok>> \in could'[r]
    BY <1>1, <2>4 DEF CouldOK, InProgress
  <2> QED
    BY <2>1, <2>5, <2>6 DEF CouldOK
<1>7. ASSUME NEW r \in Requests, Begin(r) PROVE CouldOK'
  <2>1. /\ pc[r] = "idle" /\ answer' = answer /\ age' = age
        /\ \A q \in Requests \ {r} : pc'[q] = pc[q]
        /\ could' = [could EXCEPT ![r] = Recent(age)]
    BY <1>1, <1>7 DEF Begin
  <2>2. DOMAIN answer[r] = {}
    BY <1>1, <2>1
  <2> DEFINE now == Recent(age)
  <2>3. Recent(age') = now
    BY <2>1
  <2>4. could' = [could EXCEPT ![r] = now]
    BY <2>1
  <2>5. \A q \in Requests : InProgress(q) => now \subseteq could[q]
    BY DEF CouldOK
  <2> HIDE DEF now
  <2>6. /\ DOMAIN could' = Requests /\ could'[r] = now
        /\ \A q \in Requests \ {r} : could'[q] = could[q]
    BY <1>1, <2>4
  <2>7. \A q \in Requests : InProgress(q)' => now \subseteq could'[q]
    BY <2>1, <2>5, <2>6 DEF InProgress
  <2>8. \A q \in Requests : \A k \in DOMAIN answer[q] :
          /\ answer[q][k].ok \in BOOLEAN
          /\ <<answer[q][k].cmd, answer[q][k].ok>> \in could'[q]
    BY <2>2, <2>6 DEF CouldOK
  <2> QED
    BY <2>1, <2>3, <2>6, <2>7, <2>8 DEF CouldOK
<1>8. ASSUME NEW r \in Requests, Finish(r) PROVE CouldOK'
  <2>1. /\ DOMAIN answer'[r] = {} /\ pc'[r] = "idle" /\ age' = age
        /\ DOMAIN could' = Requests
    BY <1>1, <1>8 DEF Finish
  <2>2. \A q \in Requests \ {r} :
          answer'[q] = answer[q] /\ pc'[q] = pc[q] /\ could'[q] = could[q]
    BY <1>1, <1>8 DEF Finish
  <2> QED
    BY <2>1, <2>2 DEF CouldOK, InProgress
<1>9. ASSUME NEW r \in Requests, Registry(r) PROVE CouldOK'
  <2>1. /\ UNCHANGED <<answer, could, age>> /\ pc[r] = "registry"
        /\ \A q \in Requests \ {r} : pc'[q] = pc[q]
    BY <1>1, <1>9 DEF Registry
  <2> QED
    BY <2>1 DEF CouldOK, InProgress
<1>10. CASE UNCHANGED <<pc, answer, could, age>>
  BY <1>10 DEF CouldOK, InProgress
<1>11. ASSUME NEW r \in Requests, NEW k, Miss(r, k) PROVE CouldOK'
  BY <1>10, <1>11 DEF Miss, Walked, requests
<1>12. CASE LoadRegistry \/ EditAndSignal \/ UNCHANGED vars
  BY <1>10, <1>12 DEF LoadRegistry, ReadFile, Store, Swap, EditAndSignal, vars,
                      requests
<1> QED
  BY <1>3, <1>4, <1>5, <1>6, <1>7, <1>8, <1>9, <1>11, <1>12 DEF Next, Walk


------------------------------------------------------------------------------
(* Settled requests *)

Known == {nsjail} \union Languages(registry)

\* A settled request is told what the present registry names.
LEMMA ToldSettled ==
  ASSUME RequestTypes, WalkOK, SettledOK,
         NEW r \in Requests, NEW k \in Wants(r), NEW e, Told(r, k, e),
         r \in settled => e.cmd = Cmd(registry, k),
         \A j \in DOMAIN entries' \intersect Known :
           entries'[j].cmd # Cmd(registry, j) => entries'[j].age >= oldAge
  PROVE  SettledOK'
<1>1. /\ UNCHANGED <<registry, reg, settled, oldAge>>
      /\ \A q \in Requests \ {r} : answer'[q] = answer[q] /\ pc'[q] = pc[q]
      /\ pc'[r] \in {"registry", pc[r]}
  BY DEF Told
<1>2. Outdated' => Outdated
  BY <1>1 DEF Outdated
<1>3. ASSUME NEW q \in settled, NEW j \in DOMAIN answer'[q]
      PROVE  answer'[q][j].cmd = Cmd(registry, j)
  <2>1. q \in Requests
    BY DEF RequestTypes
  <2>2. CASE q = r /\ j = k
    <3>1. answer'[q][j].cmd = e.cmd
      BY <2>2 DEF Told
    <3> QED
      BY <2>2, <3>1
  <2>3. CASE q # r \/ j # k
    <3>1. j \in DOMAIN answer[q] /\ answer'[q][j] = answer[q][j]
      BY <1>3, <2>1, <2>3 DEF Told
    <3> QED
      BY <3>1 DEF SettledOK
  <2> QED
    BY <2>2, <2>3
<1>4. Known' = Known
  BY <1>1 DEF Known
<1> QED
  BY <1>1, <1>2, <1>3, <1>4 DEF SettledOK, Known

LEMMA SettledKept ==
  ASSUME ReloadTypes, RequestTypes, WalkOK, ProbingOK, CacheOK, SettledOK,
         [Next]_vars
  PROVE  SettledOK'
<1>1. /\ pc \in [Requests -> Places] /\ DOMAIN answer = Requests
      /\ reg \in [Requests -> Edits \union {0}] /\ registry \in Edits
      /\ settled \subseteq Requests /\ oldAge \in 0..ttl /\ ttl \in Nat
  BY ReadinessConstants DEF RequestTypes, ReloadTypes
<1>2. /\ Outdated => oldAge = 0
      /\ \A k \in DOMAIN entries \intersect Known :
           entries[k].cmd # Cmd(registry, k) => entries[k].age >= oldAge
      /\ settled # {} => ~Outdated /\ oldAge = ttl
      /\ \A r \in settled : \A k \in DOMAIN answer[r] :
           answer[r][k].cmd = Cmd(registry, k)
  BY DEF SettledOK, Known
<1>3. \A k \in DOMAIN entries : entries[k].age \in 0..ttl
  <2> SUFFICES ASSUME NEW k \in DOMAIN entries PROVE entries[k].age \in 0..ttl
    OBVIOUS
  <2>1. entries[k] \in [age : 0..ttl, ok : BOOLEAN, cmd : Commands]
    BY DEF CacheOK
  <2> QED
    BY <2>1
<1>4. ASSUME NEW r \in Requests, NEW k, Hit(r, k) PROVE SettledOK'
  <2>1. /\ k \in Wants(r) /\ k \in DOMAIN entries /\ entries[k].age < ttl
        /\ Told(r, k, entries[k]) /\ entries' = entries
    BY <1>4, GotTells DEF Hit, cache
  <2>2. ASSUME r \in settled PROVE entries[k].cmd = Cmd(registry, k)
    <3>1. ~Outdated /\ oldAge = ttl
      BY <1>2, <2>2
    <3>2. k \in Known
      BY <2>1, <3>1, AskedFor DEF Outdated, Known
    <3>3. ~(entries[k].age >= oldAge)
      BY <1>1, <1>3, <2>1, <3>1
    <3> QED
      BY <1>2, <2>1, <3>2, <3>3
  <2> QED
    BY <1>2, <2>1, <2>2, ToldSettled
<1>5. CASE ProbeEnd
  <2>1. PICK s \in probing.saw : /\ Told(probing.by, probing.key, Result(s))
                                 /\ entries' = Stored(Result(s))
    BY <1>5, ProbeEndTells
  <2> DEFINE q == probing.by
             k == probing.key
  <2>2. q \in Requests /\ k \in Wants(q) /\ probing.cmd = Cmd(reg[q], k)
    BY <1>5 DEF ProbeEnd, ProbingOK
  <2>3. probing.cmd = Cmd(registry, k) \/ Outdated
    <3>1. CASE k = nsjail
      BY <2>2, <3>1 DEF Cmd
    <3>2. CASE k # nsjail
      <4>1. pc[q] = "languages"
        BY <2>2, <3>2, AskedFor
      <4> QED
        BY <2>2, <4>1 DEF Outdated
    <3> QED
      BY <3>1, <3>2
  <2>4. Result(s).cmd = probing.cmd /\ Result(s).age = 0
    BY DEF Result
  <2>5. ASSUME NEW j \in DOMAIN entries' \intersect Known
        PROVE  entries'[j].cmd # Cmd(registry, j) => entries'[j].age >= oldAge
    <3>1. \/ j = k /\ entries'[j] = Result(s)
          \/ j \in DOMAIN entries /\ entries'[j] = entries[j]
      BY <2>1, <2>5 DEF Stored
    <3>2. CASE j = k /\ entries'[j] = Result(s)
      BY <1>2, <2>3, <2>4, <3>2
    <3>3. CASE j \in DOMAIN entries /\ entries'[j] = entries[j]
      BY <1>2, <2>5, <3>3
    <3> QED
      BY <3>1, <3>2, <3>3
  <2>6. q \in settled => Result(s).cmd = Cmd(registry, k)
    BY <1>2, <2>3, <2>4
  <2> QED
    BY <2>1, <2>2, <2>5, <2>6, ToldSettled
<1>6. CASE Tick
  <2>1. /\ UNCHANGED <<pc, reg, registry, answer, settled>>
        /\ oldAge' = IF Outdated THEN 0 ELSE Older(oldAge, ttl)
        /\ entries' = [k \in DOMAIN entries |->
                         [entries[k] EXCEPT !.age = Older(@, ttl)]]
    BY <1>6 DEF Tick, Ages, requests, reload
  <2>2. Outdated' = Outdated /\ Known' = Known
    BY <2>1 DEF Outdated, Known
  <2>3. ASSUME NEW k \in DOMAIN entries' \intersect Known
        PROVE  entries'[k].cmd # Cmd(registry, k) => entries'[k].age >= oldAge'
    <3>1. /\ k \in DOMAIN entries
          /\ entries'[k] = [entries[k] EXCEPT !.age = Older(@, ttl)]
      BY <2>1, <2>3
    <3>2. entries[k] \in [age : 0..ttl, ok : BOOLEAN, cmd : Commands]
      BY <3>1 DEF CacheOK
    <3>3. /\ entries'[k].cmd = entries[k].cmd
          /\ entries'[k].age = Older(entries[k].age, ttl)
      BY <3>1, <3>2
    <3> DEFINE a == entries[k].age
    <3>4. a \in 0..ttl
      BY <1>3, <3>1
    <3>5. a >= oldAge => Older(a, ttl) >= oldAge'
      <4> HIDE DEF a
      <4> QED
        BY <1>1, <2>1, <3>4 DEF Older
    <3> QED
      BY <1>2, <2>3, <3>1, <3>3, <3>5
  <2>4. Outdated' => oldAge' = 0
    BY <2>1, <2>2
  <2>5. settled' # {} => ~Outdated' /\ oldAge' = ttl
    BY <1>1, <1>2, <2>1, <2>2 DEF Older
  <2> QED
    BY <1>2, <2>1, <2>2, <2>3, <2>4, <2>5 DEF SettledOK, Known
<1>7. ASSUME NEW r \in Requests, Begin(r) PROVE SettledOK'
  <2>1. /\ pc[r] = "idle" /\ pc'[r] = "nsjail"
        /\ \A q \in Requests \ {r} : pc'[q] = pc[q]
        /\ UNCHANGED <<reg, registry, answer, entries, oldAge>>
        /\ settled' = IF ~Outdated /\ oldAge = ttl THEN settled \union {r}
                      ELSE settled
    BY <1>1, <1>7 DEF Begin, reload, cache
  <2>2. Outdated' => Outdated
    BY <2>1 DEF Outdated
  <2>3. DOMAIN answer[r] = {}
    BY <2>1 DEF WalkOK
  <2>4. \A q \in settled' : \A k \in DOMAIN answer[q] :
          answer[q][k].cmd = Cmd(registry, k)
    BY <1>2, <2>1, <2>3
  <2>5. settled' # {} => ~Outdated /\ oldAge = ttl
    BY <1>2, <2>1
  <2> QED
    BY <1>2, <2>1, <2>2, <2>4, <2>5 DEF SettledOK, Known
<1>8. ASSUME NEW r \in Requests, Registry(r) PROVE SettledOK'
  <2>1. /\ reg'[r] = registry
        /\ \A q \in Requests \ {r} : pc'[q] = pc[q] /\ reg'[q] = reg[q]
        /\ UNCHANGED <<registry, answer, entries, oldAge, settled>>
    BY <1>1, <1>8 DEF Registry, reload, cache
  <2>2. Outdated' => Outdated
    BY <2>1 DEF Outdated
  <2> QED
    BY <1>2, <2>1, <2>2 DEF SettledOK, Known
<1>9. ASSUME NEW r \in Requests, Finish(r) PROVE SettledOK'
  <2>1. /\ pc[r] = "languages" /\ pc'[r] = "idle"
        /\ \A q \in Requests \ {r} :
             answer'[q] = answer[q] /\ pc'[q] = pc[q] /\ reg'[q] = reg[q]
        /\ UNCHANGED <<registry, entries>>
        /\ settled' = settled \ {r}
        /\ oldAge' = IF reg[r] # registry THEN 0 ELSE oldAge
    BY <1>1, <1>9 DEF Finish, reload, cache
  <2>2. Outdated' => Outdated
    BY <2>1 DEF Outdated
  <2>3. reg[r] # registry => Outdated
    BY <2>1 DEF Outdated
  <2>4. oldAge' = oldAge
    BY <1>2, <2>1, <2>3
  <2> QED
    BY <1>1, <1>2, <2>1, <2>2, <2>4 DEF SettledOK, Known
<1>10. CASE UNCHANGED <<pc, reg, registry, answer, entries, oldAge, settled>>
  <2>1. Outdated' = Outdated
    BY <1>10 DEF Outdated
  <2> QED
    BY <1>2, <1>10, <2>1 DEF SettledOK, Known
<1>11. CASE Store
  <2>1. CASE Valid(reader)
    <3>1. oldAge' = 0 /\ settled' = {} /\ entries' = entries
      BY <1>11, <2>1 DEF Store, Swap, cache
    <3>2. \A k \in DOMAIN entries : entries[k].age >= 0
      BY <1>1, <1>3
    <3> QED
      BY <3>1, <3>2 DEF SettledOK
  <2>2. CASE ~Valid(reader)
    BY <1>10, <1>11, <2>2 DEF Store, Swap, cache
  <2> QED
    BY <2>1, <2>2
<1>12. ASSUME NEW r \in Requests, NEW k, Miss(r, k) PROVE SettledOK'
  BY <1>10, <1>12 DEF Miss, Walked, requests, reload
<1>13. CASE ReadFile \/ EditAndSignal \/ UNCHANGED vars
  BY <1>10, <1>13 DEF ReadFile, EditAndSignal, vars, requests, cache, reload
<1>14. ASSUME NEW c \in Commands, NEW s \in Conditions, Change(c, s)
       PROVE  SettledOK'
  BY <1>10, <1>14 DEF Change, reload
<1> QED
  BY <1>4, <1>5, <1>6, <1>7, <1>8, <1>9, <1>11, <1>12, <1>13, <1>14
     DEF Next, Walk, LoadRegistry

------------------------------------------------------------------------------
(* The theorems *)

LEMMA InitReadinessInv == Init => ReadinessInv
<1> SUFFICES ASSUME Init PROVE ReadinessInv
  OBVIOUS
<1> USE DEF Init
<1>1. /\ ttl \in Nat \ {0} /\ Timeout \in Nat \ {0} /\ ttl + Timeout \in Nat
      /\ Edits = 1..Len(Files) /\ Len(Files) \in Nat /\ 1 \in Edits
  BY ReadinessConstants
<1>2. ReloadTypes
  <2>1. sighup \in BOOLEAN
    BY Zenon
  <2> QED
    BY <1>1, <2>1 DEF ReloadTypes
<1>3. RequestTypes
  BY <1>1 DEF RequestTypes, Places
<1>4. ReloadOK
  BY DEF ReloadOK, NoReloadLost
<1>5. \A r \in Requests : pc[r] = "idle" /\ DOMAIN answer[r] = {}
  OBVIOUS
<1>6. WalkOK
  BY <1>5 DEF WalkOK
<1>7. ProbingOK
  BY DEF ProbingOK
<1>8. AgesOK
  <2>1. cond \in [Commands -> Conditions]
    BY DEF Conditions
  <2>2. age = [p \in Results |-> IF p[2] THEN 0 ELSE ttl + Timeout]
    OBVIOUS
  <2>3. age \in [Results -> 0..(ttl + Timeout)]
    BY <1>1, <2>2
  <2>4. ASSUME NEW c \in Commands
        PROVE  age[<<c, ProbeOk(c, cond[c])>>] = 0
    <3>1. ProbeOk(c, cond[c]) = TRUE
      BY DEF ProbeOk
    <3>2. <<c, TRUE>> \in Results
      BY DEF Results
    <3>3. age[<<c, TRUE>>] = 0
      <4> DEFINE p == <<c, TRUE>>
      <4>1. p[2]
        BY Zenon
      <4>2. age[p] = IF p[2] THEN 0 ELSE ttl + Timeout
        BY <2>2, <3>2
      <4> QED
        BY <4>1, <4>2, Zenon
    <3> QED
      BY <3>1, <3>3
  <2> QED
    BY <2>1, <2>3, <2>4 DEF AgesOK
<1>9. DOMAIN entries = {}
  OBVIOUS
<1>10. CacheOK
  BY <1>9 DEF CacheOK
<1>11. CouldOK
  BY <1>5 DEF CouldOK, InProgress
<1>12. SettledOK
  BY <1>5, <1>9 DEF SettledOK, Outdated
<1> QED
  BY <1>2, <1>3, <1>4, <1>6, <1>7, <1>8, <1>10, <1>11, <1>12 DEF ReadinessInv

LEMMA NextReadinessInv == ReadinessInv /\ [Next]_vars => ReadinessInv'
BY ReloadKept, RequestTypesKept, WalkKept, ProbingKept, AgesKept, CacheKept,
   CouldKept, SettledKept DEF ReadinessInv

\* A request that is answered takes its last step.
LEMMA AnsweredFinishes ==
  ASSUME ReadinessInv, [Next]_vars, NEW r \in Requests, Answered(r)
  PROVE  Finish(r)
<1>1. pc \in [Requests -> Places] /\ pc[r] = "languages" /\ pc'[r] = "idle"
  BY DEF ReadinessInv, RequestTypes, Answered
<1>2. ASSUME NEW q \in Requests, Begin(q) \/ Registry(q) PROVE FALSE
  BY <1>1, <1>2 DEF Begin, Registry
<1>3. ASSUME NEW q \in Requests, NEW k, NEW e, Told(q, k, e) PROVE FALSE
  BY <1>1, <1>3 DEF Told
<1>4. ASSUME NEW q \in Requests, NEW k, Hit(q, k) PROVE FALSE
  BY <1>3, <1>4, GotTells DEF Hit, ReadinessInv
<1>5. CASE ProbeEnd
  <2>1. PICK s \in probing.saw : Told(probing.by, probing.key, Result(s))
    BY <1>5, ProbeEndTells DEF ReadinessInv
  <2>2. probing.by \in Requests
    BY <1>5 DEF ProbeEnd, ProbingOK, ReadinessInv
  <2> QED
    BY <1>3, <2>1, <2>2
<1>6. ASSUME NEW q \in Requests, NEW k, Miss(q, k) PROVE FALSE
  BY <1>1, <1>6 DEF Miss, Walked, requests
<1>7. ASSUME NEW q \in Requests, q # r, Finish(q) PROVE FALSE
  BY <1>1, <1>7 DEF Finish
<1> QED
  BY <1>1, <1>2, <1>4, <1>5, <1>6, <1>7, OthersKeepRequests DEF Next, Walk

(* No SIGHUP is lost, although the channel of main holds one signal and a    *)
(* load takes its time: for any number of edits of languages.yml.            *)
THEOREM ReloadsAreNotLost == Spec => []NoReloadLost
<1>1. ReadinessInv => NoReloadLost
  BY DEF ReadinessInv, ReloadOK
<1> QED
  BY InitReadinessInv, NextReadinessInv, <1>1, PTL DEF Spec

(* An answer of /readyz or /info is about nsjail and the languages of one    *)
(* registry, whatever SIGHUP loads while the request waits for its probes.   *)
THEOREM AnswersKeepToOneRegistry == Spec => AnswerFromOneRegistry
<1> DEFINE A == \A r \in Requests : Answered(r) =>
                  DOMAIN answer[r] = {nsjail} \union Languages(reg[r])
<1>1. ReadinessInv /\ [Next]_vars => [A]_vars
  <2> SUFFICES ASSUME ReadinessInv, [Next]_vars, NEW r \in Requests, Answered(r)
               PROVE  DOMAIN answer[r] = {nsjail} \union Languages(reg[r])
    OBVIOUS
  <2>1. Finish(r)
    BY AnsweredFinishes
  <2>2. pc[r] = "languages" /\ Wants(r) = {}
    BY <2>1 DEF Finish
  <2>3. Languages(reg[r]) \subseteq DOMAIN answer[r]
    BY <2>2, WantsBy DEF Places
  <2> QED
    BY <2>2, <2>3 DEF ReadinessInv, WalkOK
<1> QED
  BY InitReadinessInv, NextReadinessInv, <1>1, PTL DEF Spec, AnswerFromOneRegistry

(* An ok is about commands that could be reported ok, and a degraded about   *)
(* one that could not, at some time since ttl + Timeout before the request,  *)
(* for every ttl and timeout; the time that probes linger beyond theirs is   *)
(* not counted, and is not bounded.                                          *)
THEOREM ReadyzIsTruthful == Spec => ReadyzTruthful
<1> DEFINE A == \A r \in Requests : Answered(r) =>
       IF AllOK(r)
       THEN \A k \in DOMAIN answer[r] : <<answer[r][k].cmd, TRUE>> \in could[r]
       ELSE \E k \in DOMAIN answer[r] : <<answer[r][k].cmd, FALSE>> \in could[r]
<1>1. ReadinessInv /\ [Next]_vars => [A]_vars
  <2> SUFFICES ASSUME ReadinessInv, NEW r \in Requests
               PROVE  IF AllOK(r)
                      THEN \A k \in DOMAIN answer[r] :
                             <<answer[r][k].cmd, TRUE>> \in could[r]
                      ELSE \E k \in DOMAIN answer[r] :
                             <<answer[r][k].cmd, FALSE>> \in could[r]
    OBVIOUS
  <2>1. \A k \in DOMAIN answer[r] :
          /\ answer[r][k].ok \in BOOLEAN
          /\ <<answer[r][k].cmd, answer[r][k].ok>> \in could[r]
    BY DEF ReadinessInv, CouldOK
  <2>2. CASE AllOK(r)
    <3> SUFFICES ASSUME NEW k \in DOMAIN answer[r]
                 PROVE  <<answer[r][k].cmd, TRUE>> \in could[r]
      BY <2>2
    <3>1. answer[r][k].ok \in BOOLEAN /\ answer[r][k].ok
      BY <2>1, <2>2, Zenon DEF AllOK
    <3>2. answer[r][k].ok = TRUE
      BY <3>1
    <3> QED
      BY <2>1, <3>2
  <2>3. CASE ~AllOK(r)
    <3>1. PICK k \in DOMAIN answer[r] : ~answer[r][k].ok
      BY <2>3 DEF AllOK
    <3>2. answer[r][k].ok = FALSE
      <4>1. answer[r][k].ok \in BOOLEAN
        BY <2>1
      <4> QED
        BY <3>1, <4>1
    <3>3. <<answer[r][k].cmd, FALSE>> \in could[r]
      BY <2>1, <3>2
    <3> QED
      BY <2>3, <3>3
  <2> QED
    BY <2>2, <2>3
<1> QED
  BY InitReadinessInv, NextReadinessInv, <1>1, PTL DEF Spec, ReadyzTruthful

(* The cache forgets the commands of a replaced registry: ttl after the last *)
(* use of it an answer is about the commands its own registry names.         *)
THEOREM CacheForgetsOldRegistries == Spec => SettledAnswers
<1> DEFINE A == \A r \in settled : Answered(r) =>
                  \A k \in DOMAIN answer[r] : answer[r][k].cmd = Cmd(reg[r], k)
<1>1. ReadinessInv /\ [Next]_vars => [A]_vars
  <2> SUFFICES ASSUME ReadinessInv, NEW r \in settled, Answered(r)
               PROVE  \A k \in DOMAIN answer[r] : answer[r][k].cmd = Cmd(reg[r], k)
    OBVIOUS
  <2>1. r \in Requests
    BY DEF ReadinessInv, RequestTypes
  <2>2. reg[r] = registry
    BY <2>1 DEF ReadinessInv, SettledOK, Outdated, Answered
  <2> QED
    BY <2>2 DEF ReadinessInv, SettledOK
<1> QED
  BY InitReadinessInv, NextReadinessInv, <1>1, PTL DEF Spec, SettledAnswers

=============================================================================
