\* One sign-in; an app, its extension and a newer build over one store.
SPECIFICATION Spec
CONSTANTS
  RootCap = "root"
  Requests <- RequestLists
  User = {"u1", "u2"}
  NoUser = "nobody"
  MaxPollFailures = 3
  MaxRestarts = 2
  MaxApprovals = 2
  Runtime = {"app", "extension", "newer"}
  Thread = {"t1", "t2", "t3", "t4"}
  RuntimeOf <- RuntimeOfThread
  VersionOf <- VersionOfRuntime
  State = {0, 1, 2}
  InitialState = 0
  Callback <- Callbacks
  CallbackError = CallbackError
  NoThread = NoThread
  MaxRevision = 2
  MaxFailures = 1
INVARIANTS
  
  ClaimPrecedesToken
  ConflictIsForeign
PROPERTIES
  BlobStoreIsAtomic
  WaitingEnds
