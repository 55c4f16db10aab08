------------------------------ MODULE Identity ------------------------------
(***************************************************************************)
(* The local identity of one runtime and the state scoped to it: the       *)
(* session provider of the app, the refresh of the identity that nearly    *)
(* every workflow starts with, sign-out, backup export and restore, and    *)
(* two kinds of writers that are in flight meanwhile: a link handshake,    *)
(* which writes under a peer lease, and save_contact, which does not.      *)
(*                                                                         *)
(* initialize, sign_out and restore_backup_state take the identity guard   *)
(* of the runtime; every other refresh runs without it.  A storage         *)
(* transaction is one action and a call of the session provider is one.    *)
(*                                                                         *)
(* Records are abstracted to the identity that wrote them.  The content of *)
(* a backup and its validation per record are part of BackupRestore.       *)
(***************************************************************************)
EXTENDS Naturals

CONSTANTS
  User,           \* Pubky public keys
  NoiseKey,       \* receiver Noise public keys
  Worker,         \* concurrent calls
  None,           \* no key
  MaxGeneration,  \* bound on sign_out_generation
  MaxLeaseId      \* bound on lease ids

VARIABLES
  provider,   \* what load_session_access returns
  identity,   \* IdentityState, or NotInitialized
  holdings,   \* the owners of the private and of the public records
  opLease,    \* lease id of the peer's operation lease, 0: none
  nextLease,  \* next_peer_link_operation_lease_id
  guarded,    \* identity_operation_in_progress
  request,    \* request[w]: the call of worker w
  backup,     \* the last exported SdkBackupState
  signedOut,  \* history: signed out, and the app has not provided a session since
  lateWrite   \* history: a write under a lease older than the state it went to

identityVars == <<provider, identity, holdings, opLease, nextLease, guarded, request, backup,
                  signedOut, lateWrite>>

Session == [user : User, noise : NoiseKey]
NoSession == [user |-> None, noise |-> None]
NotInitialized == [user |-> None, noise |-> None, generation |-> 0, stored |-> FALSE]
NoRecords == [private |-> {}, public |-> {}]
NoBackup == [identity |-> NotInitialized, records |-> NoRecords, taken |-> FALSE]
Owner(s) == [user |-> s.user, noise |-> s.noise]

NoRequest == [kind |-> "none", pc |-> "idle", session |-> NoSession, lease |-> 0, void |-> FALSE]
InStep(w, pc) == request[w].pc = pc
MoveOn(w, pc) == request' = [request EXCEPT ![w].pc = pc]
EndCall(w) == request' = [request EXCEPT ![w] = NoRequest]
SaveIdentity(state) == identity' = state

\* The state under every claimed lease is gone.
VoidLeases(reqs) == [w \in Worker |-> [reqs[w] EXCEPT !.void = reqs[w].lease # 0]]

(***************************************************************************)
(* refresh_active_identity                                                 *)
(***************************************************************************)
identity_transition(previous, active) ==
  IF ~previous.stored THEN "Initial"
  ELSE IF previous.user # active.user THEN "PubkyIdentityChanged"
  ELSE IF previous.noise # active.noise THEN "ReceiverNoiseKeyChanged"
  ELSE "Unchanged"

\* Mutant: the transition that changes the Noise key keeps the lease.
clear_scoped_KeepsLease(transition, reqs) ==
  /\ holdings' = CASE transition \in {"Initial", "PubkyIdentityChanged"} -> NoRecords
                   [] transition = "ReceiverNoiseKeyChanged" -> [holdings EXCEPT !.private = {}]
                   [] OTHER -> holdings
  /\ opLease' = IF transition \in {"Initial", "PubkyIdentityChanged"} THEN 0 ELSE opLease
  /\ request' = IF transition = "Unchanged" THEN reqs ELSE VoidLeases(reqs)

\* clear_identity_scoped_state and clear_private_identity_scoped_state.
clear_scoped(transition, reqs) ==
  /\ holdings' = CASE transition \in {"Initial", "PubkyIdentityChanged"} -> NoRecords
                   [] transition = "ReceiverNoiseKeyChanged" -> [holdings EXCEPT !.private = {}]
                   [] OTHER -> holdings
  /\ opLease' = IF transition = "Unchanged" THEN opLease ELSE 0
  /\ request' = IF transition = "Unchanged" THEN reqs ELSE VoidLeases(reqs)

refresh_active_identity(active, reqs) ==
  LET transition == identity_transition(identity, active)
      changed == transition = "PubkyIdentityChanged"
  IN /\ changed => identity.generation < MaxGeneration
     /\ clear_scoped(transition, reqs)
     /\ SaveIdentity([user |-> active.user, noise |-> active.noise, stored |-> TRUE,
                      generation |-> identity.generation + IF changed THEN 1 ELSE 0])

(***************************************************************************)
(* load_session_access_and_refresh_identity: the session is loaded in one  *)
(* step and the transaction that uses it is another.                       *)
(***************************************************************************)
ProviderChanges(s) ==
  /\ provider # s
  /\ provider' = s
  /\ signedOut' = (signedOut /\ s = NoSession)
  /\ UNCHANGED <<identity, holdings, opLease, nextLease, guarded, request, backup,
                 lateWrite>>

\* initialize (guarded); publish_paykit_profile, publish_paykit_blob and the
\* other callers of private_link_session_access (unguarded); a handshake.
BeginCall(w, kind) ==
  /\ InStep(w, "idle")
  /\ kind = "initialize" => ~guarded
  /\ guarded' = (guarded \/ kind = "initialize")
  /\ request' = [request EXCEPT ![w] = [NoRequest EXCEPT !.kind = kind, !.pc = "load"]]
  /\ UNCHANGED <<provider, identity, holdings, opLease, nextLease, backup, signedOut,
                 lateWrite>>

LoadSession(w) ==
  /\ InStep(w, "load")
  /\ request' = [request EXCEPT ![w].pc = "refresh", ![w].session = provider]
  /\ UNCHANGED <<provider, identity, holdings, opLease, nextLease, guarded, backup,
                 signedOut, lateWrite>>

\* Where the call goes on after its refresh.
AfterRefresh(w) ==
  LET req == request[w] IN
  IF req.kind = "handshake" /\ req.session # NoSession
  THEN [request EXCEPT ![w].pc = IF req.lease = 0 THEN "claim" ELSE "save"]
  ELSE [request EXCEPT ![w] = IF req.lease = 0 THEN NoRequest ELSE [@ EXCEPT !.pc = "release"]]

RefreshIdentity(w) ==
  LET req == request[w] IN
  /\ InStep(w, "refresh")
  /\ guarded' = (guarded /\ req.kind # "initialize")
  /\ IF req.session = NoSession
     THEN /\ SaveIdentity([identity EXCEPT !.stored = TRUE])
          /\ request' = AfterRefresh(w)
          /\ UNCHANGED <<holdings, opLease>>
     ELSE refresh_active_identity(req.session, AfterRefresh(w))
  /\ UNCHANGED <<provider, nextLease, backup, signedOut, lateWrite>>

(***************************************************************************)
(* A handshake: claim the peer's lease (free or expired), load and refresh *)
(* again, save under the lease, release it.                                *)
(***************************************************************************)
ClaimLease(w) ==
  /\ InStep(w, "claim") /\ nextLease <= MaxLeaseId
  /\ opLease' = nextLease
  /\ nextLease' = nextLease + 1
  /\ request' = [request EXCEPT ![w].pc = "load", ![w].lease = nextLease, ![w].void = FALSE]
  /\ UNCHANGED <<provider, identity, holdings, guarded, backup, signedOut, lateWrite>>

SaveUnderLease(w) ==
  LET req == request[w] IN
  /\ InStep(w, "save")
  /\ IF opLease = req.lease
     THEN /\ holdings' = [holdings EXCEPT !.private = @ \union {Owner(req.session)}]
          /\ lateWrite' = (lateWrite \/ req.void)
     ELSE UNCHANGED <<holdings, lateWrite>>
  /\ MoveOn(w, "release")
  /\ UNCHANGED <<provider, identity, opLease, nextLease, guarded, backup, signedOut>>

ReleaseLease(w) ==
  /\ InStep(w, "release")
  /\ opLease' = IF opLease = request[w].lease THEN 0 ELSE opLease
  /\ EndCall(w)
  /\ UNCHANGED <<provider, identity, holdings, nextLease, guarded, backup, signedOut,
                 lateWrite>>

(***************************************************************************)
(* save_contact: one transaction reads the identity, another one writes.   *)
(***************************************************************************)
require_initialized_identity(w) ==
  /\ InStep(w, "idle") /\ identity.user # None
  /\ request' = [request EXCEPT ![w] = [NoRequest EXCEPT !.kind = "contact", !.pc = "write",
                                          !.session = Owner(identity)]]
  /\ UNCHANGED <<provider, identity, holdings, opLease, nextLease, guarded, backup,
                 signedOut, lateWrite>>

SaveContactRecord(w) ==
  /\ InStep(w, "write")
  /\ holdings' = [holdings EXCEPT !.public = @ \union {request[w].session.user}]
  /\ EndCall(w)
  /\ UNCHANGED <<provider, identity, opLease, nextLease, guarded, backup, signedOut,
                 lateWrite>>

ClearSessionAccess(w) ==
  /\ InStep(w, "idle") /\ ~guarded
  /\ guarded' = TRUE
  /\ provider' = NoSession
  /\ request' = [request EXCEPT ![w] = [NoRequest EXCEPT !.kind = "signOut", !.pc = "clear"]]
  /\ UNCHANGED <<identity, holdings, opLease, nextLease, backup, signedOut, lateWrite>>

SignOut(w) ==
  LET was_signed_in == identity.user # None IN
  /\ InStep(w, "clear")
  /\ was_signed_in => identity.generation < MaxGeneration
  /\ holdings' = NoRecords
  /\ opLease' = 0
  /\ request' = VoidLeases([request EXCEPT ![w] = NoRequest])
  /\ SaveIdentity([user |-> None, noise |-> None, stored |-> TRUE,
                   generation |-> identity.generation + IF was_signed_in THEN 1 ELSE 0])
  /\ signedOut' = (provider = NoSession)
  /\ guarded' = FALSE
  /\ UNCHANGED <<provider, nextLease, backup, lateWrite>>

(***************************************************************************)
(* Backup.  Restore: guard, check the session against the backup, read the *)
(* identity to trust, then replace the whole state in one transaction.     *)
(***************************************************************************)
export_backup_state ==
  /\ identity.stored
  /\ backup' = [identity |-> identity, records |-> holdings, taken |-> TRUE]
  /\ UNCHANGED <<provider, identity, holdings, opLease, nextLease, guarded, request,
                 signedOut, lateWrite>>

validate_backup_restore_session(w) ==
  /\ InStep(w, "idle") /\ ~guarded /\ backup.taken
  /\ provider # NoSession
  /\ Owner(backup.identity) = provider
  /\ guarded' = TRUE
  /\ request' = [request EXCEPT ![w] = [NoRequest EXCEPT !.kind = "restore", !.pc = "trust",
                                          !.session = provider]]
  /\ UNCHANGED <<provider, identity, holdings, opLease, nextLease, backup, signedOut,
                 lateWrite>>

\* The stored identity when it is the session's, else a new one of generation 0.
restore_validation_identity(session) ==
  IF Owner(identity) = session THEN identity
  ELSE [user |-> session.user, noise |-> session.noise, generation |-> 0, stored |-> TRUE]

preserve_current_sign_out_generation(saved, current) ==
  IF saved.user = current.user /\ current.generation > saved.generation
  THEN [saved EXCEPT !.generation = current.generation] ELSE saved

\* Mutant: lease ids start again in the restored state.
NextLeaseAfterRestore_Restarts == 1

NextLeaseAfterRestore == nextLease

restore_backup_state_with_identity(w, trusted) ==
  /\ SaveIdentity(preserve_current_sign_out_generation(backup.identity, trusted))
  /\ holdings' = backup.records
  /\ opLease' = 0
  /\ nextLease' = NextLeaseAfterRestore
  /\ request' = VoidLeases([request EXCEPT ![w] = NoRequest])
  /\ guarded' = FALSE
  /\ UNCHANGED <<provider, backup, signedOut, lateWrite>>

RestoreBackup(w) ==
  /\ InStep(w, "trust")
  /\ restore_backup_state_with_identity(w, restore_validation_identity(request[w].session))

IdentityInit ==
  /\ provider = NoSession
  /\ identity = NotInitialized
  /\ holdings = NoRecords
  /\ opLease = 0 /\ nextLease = 1
  /\ guarded = FALSE
  /\ request = [w \in Worker |-> NoRequest]
  /\ backup = NoBackup
  /\ signedOut = FALSE /\ lateWrite = FALSE

IdentityNext ==
  \/ \E s \in Session \union {NoSession} : ProviderChanges(s)
  \/ export_backup_state
  \/ \E w \in Worker :
       \/ \E kind \in {"initialize", "publish", "handshake"} : BeginCall(w, kind)
       \/ LoadSession(w) \/ RefreshIdentity(w)
       \/ ClaimLease(w) \/ SaveUnderLease(w) \/ ReleaseLease(w)
       \/ require_initialized_identity(w) \/ SaveContactRecord(w)
       \/ ClearSessionAccess(w) \/ SignOut(w)
       \/ validate_backup_restore_session(w) \/ RestoreBackup(w)

IdentitySpec == IdentityInit /\ [][IdentityNext]_identityVars

-----------------------------------------------------------------------------

\* Private records always belong to the identity that is stored: a handshake
\* that was in flight when the identity changed, was signed out or was replaced
\* by a restore cannot write the records of the earlier identity.
PrivateRecordsBelong == holdings.private \subseteq {Owner(identity)}

\* A write under a lease never reaches a state that was cleared or replaced
\* after the lease was claimed: the leases go with the state, and a restore
\* does not let their ids be given out again.
LeaseDiesWithState == ~lateWrite

\* Once sign_out has returned and while the app provides no session, no
\* identity is initialized: a refresh that loaded the session before does not
\* sign the identity in again.
SignOutLasts == signedOut => identity.user = None

=============================================================================
