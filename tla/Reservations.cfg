\* Two workers, one reservation that expires and one that does not; a reservation
\* is carried by one call at a time.
SPECIFICATION ScopedSpec
CONSTANTS
  r1 = r1
  r2 = r2
  Scopes = {"wide", "long"}
  WideLeases = 3
  Worker = {w1, w2}
  LeaseTimeout = 1
  MaxClock = 1
  MaxLease = 4
  Reservation = {r1, r2}
  Expires <- OneExpires
  SendTimeout = 1
  RetryBackoff = 1
  Overlap = FALSE
  MaxMsg = 3
SYMMETRY WorkerSymmetry
INVARIANTS
  NoLeak
  StartedIsGivenUp
  LiveListIsBacked
  ReservationBackupRestores
 
