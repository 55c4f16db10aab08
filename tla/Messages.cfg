\* Two receivers of a stream, two peers to send lists to, one caller that pays.
SPECIFICATION Spec
CONSTANTS
  Worker = {a1, a2}
  LeaseTimeout = 1
  MaxClock = 1
  MaxLease = 4
  StreamLeases = 3
  Messages <- SomeMessages
  MaxSlot = 2
  MaxEpoch = 2
  ListPeer = {a1, a2}
  SyncRoundLimit = 2
  MaxStream = 4
SYMMETRY Symmetry
INVARIANTS
  StreamMatchesCheckpoint
  StreamIsRestorable
  CleanSyncArrives
  
  PayableIsCurrent
