\* Two of everything that may overlap.
SPECIFICATION Spec
CONSTANTS
  Receiver = {p1, p2}
  Caller = {c1}
  NoPath = NoPath
  Identifier = {i1, i2}
  Payload = {x1, x2}
  NoPayload = NoPayload
  Issuer = {a1, a2}
  Retriever = {b1, b2}
  Reference = {r1, r2}
  Drafts <- DraftsOfReference
  MaxKey = 2
  MaxQueued = 1
  Party = {alice, bob}
  Failing = {alice}
  TicksPerSecond = 2
  Window = 1
  Skews = {0}
  MaxTick = 3
  MaxRecovery = 2
  MaxHandshake = 3
SYMMETRY Symmetry
INVARIANTS
  
  WrittenIsRecorded
  CleanSyncConverges
  EndpointBackupRestores
  
  RetrievedHasReceipt
  LinkOutlivesMarker
