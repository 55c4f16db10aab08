-------------------------- MODULE MCOutboundQueue --------------------------
(***************************************************************************)
(* The instance of OutboundQueue that TLC checks.  The workers run the     *)
(* same code and share the storage, so they are interchangeable.  The      *)
(* instance has two scopes, each too large with the other's steps: links   *)
(* that are lost and replaced, and late writes of lists that expire.       *)
(***************************************************************************)
EXTENDS OutboundQueue, TLC

CONSTANT ReplacedLeases  \* bound: leases when links are replaced

VARIABLE scope

Symmetry == Permutations(Worker)

SomeExpiry == {Never, 1}

\* Links are replaced; no list expires, and only the holder of the lease writes.
Replaced ==
  /\ \A i \in DOMAIN queue' : queue'[i].expires = Never
  /\ netVars' # netVars => \A w \in Worker : pc'[w] # pc[w] => HoldsLease(w)
  /\ leaseSeq' <= ReplacedLeases

\* One link; lists expire, and a worker may write after it was replaced.
Late == epochs' = 1

ScopedInit == Init /\ scope \in {"replaced", "late"}

ScopedNext ==
  /\ Next
  /\ scope = "replaced" => Replaced
  /\ scope = "late" => Late
  /\ UNCHANGED scope

ScopedSpec == ScopedInit /\ [][ScopedNext]_<<vars, scope>>

=============================================================================
