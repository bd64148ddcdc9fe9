\* One jail more than there are uids, so that the pool runs empty.
CONSTANTS
  Jails = {j1, j2, j3, j4, j5}
  PoolSize = 4
SPECIFICATION Spec
INVARIANT NoSharedUid
INVARIANT InUseIsHeld
