--------------------------- MODULE MCReservations ---------------------------
(***************************************************************************)
(* The instances of Reservations that TLC checks.  The one that passes has *)
(* two scopes, each too large with the other's steps: two reservations in  *)
(* up to two lists, and one reservation in up to three.                    *)
(***************************************************************************)
EXTENDS Reservations, TLC

CONSTANTS
  r1, r2,
  Scopes,      \* the scopes of the instance
  WideLeases   \* bound: leases when there are two reservations

VARIABLE scope

WorkerSymmetry == Permutations(Worker)

\* One reservation that expires and one that does not.
OneExpires == [r \in Reservation |-> IF r = r1 THEN 1 ELSE Never]

NoneExpires == [r \in Reservation |-> Never]

\* Two reservations, which up to two lists share.
Wide == Len(lists') <= 2 /\ leaseSeq' <= WideLeases

\* One reservation, which up to three lists share one after the other.
Long == \A w \in Worker : job'[w].hand \subseteq {r1}

ScopedInit == Init /\ scope \in Scopes

ScopedNext ==
  /\ Next
  /\ scope = "wide" => Wide
  /\ scope = "long" => Long
  /\ UNCHANGED scope

ScopedSpec == ScopedInit /\ [][ScopedNext]_<<vars, scope>>

=============================================================================
