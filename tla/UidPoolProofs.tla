---------------------------- MODULE UidPoolProofs ----------------------------
(***************************************************************************)
(* For every set of jails and every size of the pool: no uid is held by    *)
(* two jails at once, and the uids marked in use are the ones held.        *)
(*                                                                         *)
(* Neither fact is inductive alone.  That a fresh uid is not held follows  *)
(* from inUse = Held; that a released uid leaves Held follows from nobody  *)
(* else holding it.                                                        *)
(***************************************************************************)
EXTENDS UidPool, TLAPS

PoolInv == TypeOK /\ NoSharedUid /\ InUseIsHeld

\* Every round of the search of Alloc looks at a uid of the pool.
LEMMA CandidateInPool ==
  ASSUME TypeOK, NEW i \in 0..(PoolSize - 1)
  PROVE  Candidate(i) \in Uids /\ (next + i + 1) % PoolSize \in Uids
BY PoolAssumption DEF TypeOK, Candidate, Uids

\* A new pool satisfies the invariant: nothing is in use and nothing is held.
LEMMA InitPoolInv == Init => PoolInv
BY PoolAssumption DEF Init, PoolInv, TypeOK, NoSharedUid, InUseIsHeld, Held,
                      Uids, NoUid

\* Alloc keeps the invariant: what it hands out was not in use, so not held.
LEMMA AllocPoolInv ==
  ASSUME PoolInv, NEW j \in Jails, Alloc(j)
  PROVE  PoolInv'
<1>1. PICK i \in 0..(PoolSize - 1) :
        /\ Candidate(i) \notin inUse
        /\ inUse' = inUse \union {Candidate(i)}
        /\ next' = (next + i + 1) % PoolSize
        /\ uid' = [uid EXCEPT ![j] = Candidate(i)]
  BY DEF Alloc
<1> DEFINE c == Candidate(i)
<1>2. c \in Uids /\ next' \in Uids
  BY <1>1, CandidateInPool DEF PoolInv
<1>3. c # NoUid /\ NoUid \notin Uids
  BY <1>2, PoolAssumption DEF Uids, NoUid
<1> HIDE DEF c
<1>4. uid \in [Jails -> Uids \union {NoUid}] /\ uid[j] = NoUid
  BY DEF PoolInv, TypeOK, Alloc
<1>5. uid' = [uid EXCEPT ![j] = c] /\ inUse' = inUse \union {c} /\ c \notin inUse
  BY <1>1 DEF c
<1>6. TypeOK'
  BY <1>2, <1>4, <1>5 DEF PoolInv, TypeOK, Uids, NoUid
<1>7. ASSUME NEW k \in Jails, k # j
      PROVE  uid'[k] = uid[k] /\ uid[k] # c
  BY <1>3, <1>4, <1>5, <1>7 DEF PoolInv, InUseIsHeld, Held
<1>8. uid'[j] = c
  BY <1>4, <1>5
<1>9. NoSharedUid'
  BY <1>3, <1>7, <1>8 DEF PoolInv, NoSharedUid, NoUid
<1>10. Held' = Held \union {c}
  BY <1>3, <1>4, <1>7, <1>8 DEF Held, NoUid
<1> QED
  BY <1>5, <1>6, <1>9, <1>10 DEF PoolInv, InUseIsHeld

\* Release keeps the invariant: nobody else holds the uid it takes out.
LEMMA ReleasePoolInv ==
  ASSUME PoolInv, NEW j \in Jails, Release(j)
  PROVE  PoolInv'
<1>1. uid \in [Jails -> Uids \union {NoUid}] /\ uid[j] # NoUid
  BY DEF PoolInv, TypeOK, Release
<1>2. uid[j] \in Uids /\ NoUid \notin Uids
  BY <1>1, PoolAssumption DEF Uids, NoUid
<1>3. inUse' = inUse \ {uid[j]} /\ uid' = [uid EXCEPT ![j] = NoUid]
  BY <1>2 DEF Release
<1>4. TypeOK'
  BY <1>1, <1>3 DEF PoolInv, TypeOK, Release, Uids, NoUid
<1>5. uid'[j] = NoUid
  BY <1>1, <1>3
<1>6. ASSUME NEW k \in Jails, k # j
      PROVE  uid'[k] = uid[k] /\ uid[k] # uid[j]
  BY <1>1, <1>3, <1>6 DEF PoolInv, NoSharedUid
<1>7. NoSharedUid'
  BY <1>5, <1>6 DEF PoolInv, NoSharedUid, NoUid
<1>8. Held' = Held \ {uid[j]}
  BY <1>1, <1>5, <1>6 DEF Held, NoUid
<1> QED
  BY <1>3, <1>4, <1>7, <1>8 DEF PoolInv, InUseIsHeld

\* The invariant holds in every reachable state of the pool.
THEOREM PoolInvariant == Spec => []PoolInv
<1>1. PoolInv /\ [Next]_poolVars => PoolInv'
  <2> SUFFICES ASSUME PoolInv, [Next]_poolVars PROVE PoolInv'
    OBVIOUS
  <2>1. CASE UNCHANGED poolVars
    BY <2>1 DEF poolVars, PoolInv, TypeOK, NoSharedUid, InUseIsHeld, Held
  <2>2. ASSUME NEW j \in Jails, AllocFails(j) PROVE PoolInv'
    BY <2>2 DEF AllocFails, poolVars, PoolInv, TypeOK, NoSharedUid,
                InUseIsHeld, Held
  <2> QED
    BY <2>1, <2>2, AllocPoolInv, ReleasePoolInv DEF Next
<1> QED
  BY <1>1, InitPoolInv, PTL DEF Spec

\* Two jails never hold the same uid: the promise of Alloc's comment.
THEOREM PoolNoSharedUid == Spec => []NoSharedUid
BY PoolInvariant, PTL DEF PoolInv

\* A uid is marked in use exactly while a jail holds it.
THEOREM PoolInUseIsHeld == Spec => []InUseIsHeld
BY PoolInvariant, PTL DEF PoolInv

\* The search of Alloc meets every uid: it fails only if none is free,
\* wherever the cursor stands.
THEOREM AllocFindsFree ==
  ASSUME TypeOK, NEW j \in Jails, AllocFails(j)
  PROVE  inUse = Uids
<1>1. ASSUME NEW u \in Uids PROVE u \in inUse
  <2>1. next \in Nat /\ u \in Nat /\ next < PoolSize /\ u < PoolSize
    BY PoolAssumption DEF TypeOK, Uids
  <2>2. CASE u >= next
    <3>1. u - next \in 0..(PoolSize - 1) /\ (next + (u - next)) % PoolSize = u
      BY <2>1, <2>2, PoolAssumption
    <3> QED BY <3>1 DEF AllocFails, Candidate
  <2>3. CASE u < next
    <3>1. u + PoolSize - next \in 0..(PoolSize - 1)
      BY <2>1, <2>3, PoolAssumption
    <3>2. next + (u + PoolSize - next) = u + PoolSize
      BY <2>1, PoolAssumption
    <3>3. (u + PoolSize) % PoolSize = u
      BY <2>1, PoolAssumption
    <3> QED BY <3>1, <3>2, <3>3 DEF AllocFails, Candidate
  <2> QED BY <2>1, <2>2, <2>3
<1> QED BY <1>1 DEF TypeOK
=============================================================================
