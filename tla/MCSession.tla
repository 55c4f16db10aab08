----------------------------- MODULE MCSession -----------------------------
(***************************************************************************)
(* The instance of what belongs to a user rather than to a peer: the       *)
(* identity of the app's session and the backup of the state.  They are    *)
(* checked side by side: `part` chooses the one that moves, the other      *)
(* stays as it began.  The identity moves in two scopes, each too large    *)
(* with the other's sessions.                                              *)
(***************************************************************************)
EXTENDS Identity, BackupRestore, FiniteSets, TLC

CONSTANT RekeyedGenerations  \* bound: sign-outs of the one user with two keys

VARIABLE part  \* the component that moves

vars == <<part, identityVars, backupVars>>

\* The users the state of the identity knows of.
Seen ==
  {provider.user, identity.user, backup.identity.user}
    \cup {request[w].session.user : w \in Worker}

\* Two users, each with a Noise key of its own.
TwoUsers == provider'.user = provider'.noise

\* One user, whose Noise key changes.
Rekeyed ==
  /\ Cardinality((Seen \cup {provider'.user}) \ {None}) <= 1
  /\ identity'.generation <= RekeyedGenerations

Init ==
  /\ part \in {"identity", "rekeyed", "backup"}
  /\ IdentityInit /\ BackupInit

Next ==
  \/ /\ IdentityNext
     /\ \/ part = "identity" /\ TwoUsers
        \/ part = "rekeyed" /\ Rekeyed
     /\ UNCHANGED <<part, backupVars>>
  \/ part = "backup" /\ BackupNext /\ UNCHANGED <<part, identityVars>>

Spec == Init /\ [][Next]_vars

\* User and NoiseKey are the same two model values, Worker and Peer too.
Symmetry == Permutations(User) \cup Permutations(Worker)

=============================================================================
