----------------------------- MODULE PeerLease -----------------------------
(***************************************************************************)
(* The storage-backed peer link operation lease of paykit-sdk, for one     *)
(* counterparty receiver.  Every operation on the Encrypted Link of that   *)
(* receiver (handshake, send, receive, block, unblock, marker handling)    *)
(* claims the lease, does its work in several storage transactions with    *)
(* network calls in between, and releases it.  The lease expires, so that  *)
(* a worker that died can be replaced; a worker that is only slow goes on  *)
(* with a lease another worker has replaced, and its transactions are      *)
(* stopped by the comparison of lease ids alone (the expiry time is not    *)
(* looked at when a holder writes).                                        *)
(*                                                                         *)
(* A worker is one task of one runtime; several runtimes may share the     *)
(* storage.  Every module that models an operation under the lease extends *)
(* this one.                                                               *)
(***************************************************************************)
EXTENDS Integers, FiniteSets

CONSTANTS
  Worker,        \* the tasks that run link operations on this receiver
  LeaseTimeout,  \* config.peer_link_operation_lease_timeout, in clock ticks
  MaxClock,      \* bound: the last value of the clock
  MaxLease       \* bound: how many leases are ever handed out

ASSUME LeaseConstants ==
  /\ LeaseTimeout \in Nat
  /\ MaxClock \in Nat
  /\ MaxLease \in Nat

VARIABLES
  now,       \* the runtime's clock
  lease,     \* the stored PeerLinkOperationLease of this receiver
  leaseSeq,  \* the storage's lease id counter, which no clear resets
  held       \* held[w]: the id of the lease worker w claimed, 0 if none

leaseVars == <<now, lease, leaseSeq, held>>

NoLease == [id |-> 0, expires |-> 0]

LeaseInit ==
  /\ now = 0
  /\ lease = NoLease
  /\ leaseSeq = 0
  /\ held = [w \in Worker |-> 0]

\* claim_peer_link_operation (storage): an unexpired lease wins.
LeaseLive == lease.id # 0 /\ lease.expires > now

ClaimLease(w) ==
  /\ ~LeaseLive
  /\ leaseSeq < MaxLease
  /\ leaseSeq' = leaseSeq + 1
  /\ lease' = [id |-> leaseSeq + 1, expires |-> now + LeaseTimeout]
  /\ held' = [held EXCEPT ![w] = leaseSeq + 1]
  /\ UNCHANGED now

\* Mutant: any lease will do.
HoldsLease_NoCompare(w) == held[w] # 0

\* require_peer_link_operation_lease: only the ids are compared.
HoldsLease(w) == held[w] # 0 /\ lease.id = held[w]

\* release_peer_link_operation: a lease another worker replaced stays.
ReleaseLease(w) ==
  /\ lease' = IF HoldsLease(w) THEN NoLease ELSE lease
  /\ held' = [held EXCEPT ![w] = 0]
  /\ UNCHANGED <<now, leaseSeq>>

\* The worker's process stops: the stored lease stays until it expires.
DropLease(w) ==
  /\ held' = [held EXCEPT ![w] = 0]
  /\ UNCHANGED <<now, lease, leaseSeq>>

\* clear_private_identity_scoped_state removes the lease of every peer.
ClearLease ==
  /\ lease' = NoLease
  /\ UNCHANGED <<now, leaseSeq, held>>

AdvanceClock ==
  /\ now < MaxClock
  /\ now' = now + 1
  /\ UNCHANGED <<lease, leaseSeq, held>>

LeaseTypeOK ==
  /\ now \in Nat
  /\ lease \in [id : Nat, expires : Nat]
  /\ leaseSeq \in Nat
  /\ held \in [Worker -> Nat]

(***************************************************************************)
(* No two workers ever hold the same lease id, and no id that is held or   *)
(* stored is ahead of the counter: the comparison in                       *)
(* require_peer_link_operation_lease singles out one worker.               *)
(***************************************************************************)
LeaseUnique ==
  /\ lease.id <= leaseSeq
  /\ \A w \in Worker : held[w] <= leaseSeq
  /\ \A v, w \in Worker : held[v] = held[w] /\ held[v] # 0 => v = w

=============================================================================
