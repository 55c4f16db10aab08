\* Two workers and two handshakes; a lease expires once; no symmetry, for the
\* sake of liveness.
SPECIFICATION FairSpec
CONSTANTS
  Worker = {w1, w2}
  LeaseTimeout = 1
  MaxClock = 1
  MaxLease = 3
  MaxAdvance = 1
  MaxEpoch = 2
  MaxTraffic = 1
INVARIANTS
  LinkMatchesPeer
  HolderViewFresh
  NoResurrectedSnapshot
PROPERTIES
  SnapshotNeverRollsBack
  BlockedUntilUnblocked
  OperationEnds
