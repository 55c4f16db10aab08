\* Crashes, takeovers, failed writes that may have landed; lost links, and lists
\* that expire.
SPECIFICATION ScopedSpec
CONSTANTS
  Worker = {w1, w2}
  LeaseTimeout = 1
  MaxClock = 2
  MaxLease = 4
  ReplacedLeases = 4
  SendTimeout = 1
  RetryBackoff = 1
  Expiry <- SomeExpiry
  LateWrites = TRUE
  FailedWriteLands = TRUE
  MaxMsg = 2
  MaxEpoch = 2
SYMMETRY Symmetry
INVARIANTS
  OnlyGivenUpListsReplaced
  SentIsNotLost
  DeliveredInOrder
  PendingIsClaimable
PROPERTY SettledStaysSettled
