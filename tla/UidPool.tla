------------------------------- MODULE UidPool -------------------------------
(***************************************************************************)
(* The uid pool of internal/uidpool/uidpool.go: a set of uids in use and a *)
(* cursor from which Alloc searches for a free one, all under one mutex,   *)
(* so Alloc and Release are each one step.  A uid is its distance from     *)
(* GOBOXD_UID_MIN.  The jails are the pool's only clients; uid[j] is the   *)
(* field jail.uid while jail j holds the uid.                              *)
(***************************************************************************)
EXTENDS Naturals, FiniteSets

CONSTANTS Jails,      \* the jails that will ever ask for a uid
          PoolSize    \* Pool.size

\* New degrades a non-positive size to 1.
ASSUME PoolAssumption == PoolSize \in Nat \ {0}

VARIABLES inUse,      \* Pool.inUse, as the set of uids that map to true
          next,       \* Pool.next
          uid         \* the uid each jail holds, NoUid when it holds none

poolVars == <<inUse, next, uid>>

Uids == 0..(PoolSize - 1)
NoUid == PoolSize

Init == /\ inUse = {}
        /\ next = 0
        /\ uid = [j \in Jails |-> NoUid]

\* The uid that the search looks at in round i.
Candidate(i) == (next + i) % PoolSize

\* Alloc takes the uid at the cursor without looking whether it is in use.
AllocAtCursor(j) ==
  /\ uid[j] = NoUid
  /\ inUse # Uids
  /\ inUse' = inUse \union {next}
  /\ next' = (next + 1) % PoolSize
  /\ uid' = [uid EXCEPT ![j] = next]

\* The first free uid at or after the cursor.
Alloc(j) ==
  /\ uid[j] = NoUid
  /\ \E i \in 0..(PoolSize - 1) :
       /\ Candidate(i) \notin inUse
       /\ \A k \in 0..(i - 1) : Candidate(k) \in inUse
       /\ inUse' = inUse \union {Candidate(i)}
       /\ next' = (next + i + 1) % PoolSize
       /\ uid' = [uid EXCEPT ![j] = Candidate(i)]

\* Every round of the search met a uid in use: Alloc returns an error.
AllocFails(j) ==
  /\ uid[j] = NoUid
  /\ \A i \in 0..(PoolSize - 1) : Candidate(i) \in inUse
  /\ UNCHANGED poolVars

\* Release clears the whole map.
ReleaseAll(j) ==
  /\ uid[j] # NoUid
  /\ inUse' = {}
  /\ uid' = [uid EXCEPT ![j] = NoUid]
  /\ UNCHANGED next

Release(j) ==
  /\ uid[j] # NoUid
  /\ inUse' = IF uid[j] \in Uids THEN inUse \ {uid[j]} ELSE inUse
  /\ uid' = [uid EXCEPT ![j] = NoUid]
  /\ UNCHANGED next

Next == \E j \in Jails : Alloc(j) \/ AllocFails(j) \/ Release(j)

Spec == Init /\ [][Next]_poolVars

------------------------------------------------------------------------------
\* Every variable has its type; the cursor stays inside the pool.
TypeOK == /\ inUse \subseteq Uids
          /\ next \in Uids
          /\ uid \in [Jails -> Uids \union {NoUid}]

Held == {uid[j] : j \in {k \in Jails : uid[k] # NoUid}}

(* "A uid is never handed out twice while held": two jails never hold the    *)
(* same uid, in whatever order uids are taken and given back.                *)
NoSharedUid ==
  \A j, k \in Jails : j # k /\ uid[j] # NoUid => uid[j] # uid[k]

(* Nothing leaks and nothing is lost: the uids marked in use are exactly the *)
(* ones some jail holds.                                                     *)
InUseIsHeld == inUse = Held
=============================================================================
