---------------------------- MODULE Transactions ----------------------------
(***************************************************************************)
(* What the SDK runtime relies on of a StorageAdapter: a transaction runs  *)
(* its callback on the stored state in one indivisible step, and either    *)
(* everything the callback changed is stored or nothing is.  This is what  *)
(* InMemoryStorage does under its mutex, with one outcome added that only  *)
(* a durable store has: a transaction may be reported as failed although   *)
(* its changes were stored.                                                *)
(***************************************************************************)
CONSTANTS
  Thread,        \* the callers
  State,         \* logical storage states
  InitialState,  \* StorageState::default()
  Callback,      \* transaction callbacks: functions on states that may fail
  CallbackError  \* Err of a callback

VARIABLES
  state,  \* the stored state
  txn     \* the transaction of each thread

transactionVars == <<state, txn>>

\* saw is the state the callback was run on, for a transaction that has ended.
IdleTxn == [pc |-> "idle"]
Running(f) == [pc |-> "running", f |-> f]
Ended(f, s, result) == [pc |-> "ended", f |-> f, saw |-> s, result |-> result]

TransactionsInit ==
  /\ state = InitialState
  /\ txn = [t \in Thread |-> IdleTxn]

Begin(t, f) ==
  /\ txn[t].pc = "idle"
  /\ txn' = [txn EXCEPT ![t] = Running(f)]
  /\ UNCHANGED state

\* run_storage_state_transaction and the assignment of the updated state.
Commit(t) ==
  /\ txn[t].pc = "running"
  /\ txn[t].f[state] # CallbackError
  /\ state' = txn[t].f[state]
  /\ \E result \in {"ok", "unknown"} :
       txn' = [txn EXCEPT ![t] = Ended(txn[t].f, state, result)]

\* The callback or the store fails; nothing is stored.
Abort(t) ==
  /\ txn[t].pc = "running"
  /\ \E s \in State : txn' = [txn EXCEPT ![t] = Ended(txn[t].f, s, "failed")]
  /\ UNCHANGED state

Return(t) ==
  /\ txn[t].pc = "ended"
  /\ txn' = [txn EXCEPT ![t] = IdleTxn]
  /\ UNCHANGED state

TransactionsNext ==
  \E t \in Thread : Commit(t) \/ Abort(t) \/ Return(t) \/ \E f \in Callback : Begin(t, f)

TransactionsSpec == TransactionsInit /\ [][TransactionsNext]_transactionVars

=============================================================================
