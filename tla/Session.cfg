\* Two users and two calls; two peers to back up.
SPECIFICATION Spec
CONSTANTS
  User = {u1, u2}
  NoiseKey = {u1, u2}
  RekeyedGenerations = 1
  Worker = {w1, w2}
  None = None
  MaxGeneration = 2
  MaxLeaseId = 2
  Peer = {w1, w2}
  MaxQueue = 2
  MaxLinkGen = 2
SYMMETRY Symmetry
INVARIANTS
  
  LeaseDiesWithState
  RestoredRecordsAgree
