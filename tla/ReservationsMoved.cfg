\* One device; the reservation never expires, and three lists share it or not.
SPECIFICATION ScopedSpec
CONSTANTS
  r1 = r1
  r2 = r2
  Scopes = {"long"}
  WideLeases = 3
  Worker = {w1}
  LeaseTimeout = 1
  MaxClock = 1
  MaxLease = 6
  Reservation = {r1}
  Expires <- NoneExpires
  SendTimeout = 1
  RetryBackoff = 1
  Overlap = FALSE
  MaxMsg = 3
INVARIANT SharedIsNotCancelled
