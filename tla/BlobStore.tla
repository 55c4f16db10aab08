----------------------------- MODULE BlobStore -----------------------------
(***************************************************************************)
(* FfiSdkStorage: storage transactions over a platform store that holds    *)
(* the whole state as one versioned blob with a revision.  Threads of one  *)
(* SDK handle take turns under transaction_lock; two handles over the same *)
(* store (an app and its extension) have a lock each and meet only in the  *)
(* store, which refuses a write whose expected revision is not the stored  *)
(* one.                                                                    *)
(***************************************************************************)
EXTENDS Integers

CONSTANTS
  Runtime,       \* SDK handles
  Thread,        \* calling threads
  RuntimeOf,     \* the handle a thread uses
  VersionOf,     \* SDK_STATE_BLOB_VERSION of a handle's build
  State,         \* logical storage states
  InitialState,  \* StorageState::default()
  Callback,      \* transaction callbacks: functions on states that may fail
  CallbackError, \* Err of a callback
  NoThread       \* the lock is free

ASSUME BlobAssumption ==
  /\ RuntimeOf \in [Thread -> Runtime]
  /\ VersionOf \in [Runtime -> Nat]
  /\ NoThread \notin Thread
  /\ InitialState \in State
  /\ CallbackError \notin State
  /\ Callback \subseteq [State -> State \cup {CallbackError}]

VARIABLES
  blob,     \* the platform's blob: its envelope, "exists" FALSE before the first save
  revision, \* the platform's revision
  lock,     \* transaction_lock of each handle
  tx,       \* the transaction of each thread
  writer    \* history: the handle that wrote the blob last

blobVars == <<blob, revision, lock, tx, writer>>

NoTx == [pc |-> "idle"]

BlobInit ==
  /\ blob = [exists |-> FALSE, version |-> 0, state |-> InitialState]
  /\ revision = 0
  /\ lock = [r \in Runtime |-> NoThread]
  /\ tx = [t \in Thread |-> NoTx]
  /\ writer \in Runtime

\* transaction_erased is called and waits for the lock.
CallTransaction(t, f) ==
  /\ tx[t].pc = "idle"
  /\ tx' = [tx EXCEPT ![t] = [pc |-> "lock", f |-> f]]
  /\ UNCHANGED <<blob, revision, lock, writer>>

\* Mutant: a poisoned or missing lock is passed over.
LockTransaction_Free(t) ==
  /\ tx[t].pc = "lock"
  /\ lock' = [lock EXCEPT ![RuntimeOf[t]] = t]
  /\ tx' = [tx EXCEPT ![t] = [pc |-> "load", f |-> @.f]]
  /\ UNCHANGED <<blob, revision, writer>>

LockTransaction(t) ==
  /\ tx[t].pc = "lock"
  /\ lock[RuntimeOf[t]] = NoThread
  /\ lock' = [lock EXCEPT ![RuntimeOf[t]] = t]
  /\ tx' = [tx EXCEPT ![t] = [pc |-> "load", f |-> @.f]]
  /\ UNCHANGED <<blob, revision, writer>>

\* The guard is dropped with the result.
EndTransaction(t, saw, result) ==
  /\ tx' = [tx EXCEPT ![t] = [pc |-> "ended", f |-> @.f, saw |-> saw, result |-> result]]
  /\ lock' = [lock EXCEPT ![RuntimeOf[t]] = NoThread]

\* decode_storage_state refuses the envelope of another version.
decode_storage_state(r) == blob.exists => blob.version = VersionOf[r]

\* load_state_blob, decode_storage_state and the callback on what was loaded; a transaction
\* that changed nothing saves nothing.
LoadAndRun(t) ==
  /\ tx[t].pc = "load"
  /\ IF decode_storage_state(RuntimeOf[t]) /\ tx[t].f[blob.state] # CallbackError
     THEN IF tx[t].f[blob.state] = blob.state
          THEN EndTransaction(t, blob.state, "ok")
          ELSE /\ tx' = [tx EXCEPT ![t] = [pc |-> "save", f |-> @.f, saw |-> blob.state,
                                           expected |-> revision]]
               /\ UNCHANGED lock
     ELSE EndTransaction(t, blob.state, "failed")
  /\ UNCHANGED <<blob, revision, writer>>

\* The callback of the platform fails before anything is read.
LoadFails(t) ==
  /\ tx[t].pc = "load"
  /\ EndTransaction(t, InitialState, "failed")
  /\ UNCHANGED <<blob, revision, writer>>

Written(t) ==
  /\ blob' = [exists |-> TRUE, version |-> VersionOf[RuntimeOf[t]], state |-> tx[t].f[tx[t].saw]]
  /\ revision' = revision + 1
  /\ writer' = RuntimeOf[t]

\* Mutant: the write does not say which revision it expects.
save_state_blob_atomically_Any(t) ==
  /\ tx[t].pc = "save"
  /\ Written(t)
  /\ EndTransaction(t, tx[t].saw, "ok")

\* save_state_blob_atomically: the store compares the revision and writes, and the answer
\* may be an error although it wrote.
save_state_blob_atomically(t) ==
  /\ tx[t].pc = "save"
  /\ tx[t].expected = revision
  /\ Written(t)
  /\ \E result \in {"ok", "unknown"} : EndTransaction(t, tx[t].saw, result)

\* The store refuses the write or fails.
SaveFails(t) ==
  /\ tx[t].pc = "save"
  /\ EndTransaction(t, tx[t].saw, "failed")
  /\ UNCHANGED <<blob, revision, writer>>

ReturnResult(t) ==
  /\ tx[t].pc = "ended"
  /\ tx' = [tx EXCEPT ![t] = NoTx]
  /\ UNCHANGED <<blob, revision, lock, writer>>

BlobNext ==
  \E t \in Thread :
    \/ \E f \in Callback : CallTransaction(t, f)
    \/ LockTransaction(t) \/ LoadAndRun(t) \/ LoadFails(t)
    \/ save_state_blob_atomically(t) \/ SaveFails(t) \/ ReturnResult(t)

BlobSpec == BlobInit /\ [][BlobNext]_blobVars

----------------------------------------------------------------------------
(* What a StorageAdapter promises (Transactions): a transaction is still   *)
(* running until its outcome is known.                                     *)

AbstractTxn(t) ==
  CASE tx[t].pc = "idle" -> [pc |-> "idle"]
    [] tx[t].pc = "ended" -> [pc |-> "ended", f |-> tx[t].f, saw |-> tx[t].saw, result |-> tx[t].result]
    [] OTHER -> [pc |-> "running", f |-> tx[t].f]

Atomic == INSTANCE Transactions WITH state <- blob.state, txn <- [t \in Thread |-> AbstractTxn(t)]

(***************************************************************************)
(* FfiSdkStorage is a StorageAdapter: whatever the threads of however many *)
(* handles do, a transaction that is reported as done was applied as a     *)
(* whole to the state its callback saw, and one that is not reported as    *)
(* done either left no trace or was applied as a whole.                    *)
(***************************************************************************)
BlobStoreIsAtomic == Atomic!TransactionsSpec

(***************************************************************************)
(* A handle never stands in its own way: when the stored revision is no    *)
(* longer the one a transaction expects, another handle wrote last.  The   *)
(* lock covers a transaction from its load to its save, and a save that    *)
(* failed or was only reported as failed leaves later ones unharmed.       *)
(***************************************************************************)
ConflictIsForeign ==
  \A t \in Thread :
    tx[t].pc = "save" /\ tx[t].expected # revision => writer # RuntimeOf[t]

=============================================================================
