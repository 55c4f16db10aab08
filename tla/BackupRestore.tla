--------------------------- MODULE BackupRestore ---------------------------
(***************************************************************************)
(* Exporting the SDK state to a backup and restoring it: the records of    *)
(* the Linked Peers, their Encrypted Link states and the outbound queue,   *)
(* which a restore validates and then reconciles with each other.          *)
(*                                                                         *)
(* The runtime between an export and a restore is coarse: each action      *)
(* stands for the transactions of LinkedPeer and OutboundQueue that write  *)
(* these records.  A message keeps what validate_outbound_private_status   *)
(* looks at: its status, whether it was ever attempted, whether it was     *)
(* sent and whether it carries an error.  Identity and leases of a restore *)
(* are the subject of Identity, the other records that of the modules that *)
(* write them.                                                             *)
(***************************************************************************)
EXTENDS Integers, Sequences

CONSTANTS
  Peer,         \* counterparty receivers
  MaxQueue,     \* bound: messages ever queued
  MaxLinkGen    \* bound: link state generations

VARIABLES
  store,   \* the stored records
  saved    \* the records of the last exported backup; NoStore before

NoLinkState == [gen |-> -1, has |-> "none"]
EmptyStore == [peer  |-> [p \in Peer |-> "Absent"],
               link  |-> [p \in Peer |-> NoLinkState],
               queue |-> <<>>,
               next  |-> 0]
backupVars == <<store, saved>>
BackupInit == store = EmptyStore /\ saved = EmptyStore

PeerStates == {"Absent", "NotLinked", "Linking", "Linked", "RecoveryRequired", "Blocked"}
SettledStatus == {"Sent", "Invalid", "RecoveryRequired", "Superseded"}
MessageStatus == {"Pending", "Sending", "Failed"} \cup SettledStatus

----------------------------------------------------------------------------
(* The runtime.                                                           *)

SetLink(s, p, state, has) ==
  [s EXCEPT !.peer[p] = state, !.link[p] = [gen |-> @.gen + 1, has |-> has]]

StartLink(p) ==
  /\ store.peer[p] \in {"Absent", "NotLinked", "RecoveryRequired"}
  /\ store.link[p].gen < MaxLinkGen
  /\ store' = SetLink(store, p, "Linking", "handshake")
  /\ UNCHANGED saved

CompleteLink(p) ==
  /\ store.peer[p] = "Linking"
  /\ store.link[p].gen < MaxLinkGen
  /\ store' = SetLink(store, p, "Linked", "link")
  /\ UNCHANGED saved

\* mark_recovery_required, block_peer and unblock_peer: the snapshots go.
DropLink(p, state) ==
  /\ CASE state = "RecoveryRequired" -> store.peer[p] \in {"Linking", "Linked"}
       [] state = "Blocked"          -> store.peer[p] # "Blocked"
       [] state = "NotLinked"        -> store.peer[p] = "Blocked"
  /\ store.link[p].gen < MaxLinkGen
  /\ store' = IF store.link[p].gen = -1 THEN [store EXCEPT !.peer[p] = state]
              ELSE SetLink(store, p, state, "none")
  /\ UNCHANGED saved

\* insert_outbound_private_message.  An Event Message is queued without the
\* lease, so the peer may be in any state by then.
Queue(p) ==
  /\ Len(store.queue) < MaxQueue
  /\ store' = [store EXCEPT
       !.queue = Append(@, [id |-> store.next, to |-> p, status |-> "Pending",
                            tried |-> FALSE, sent |-> FALSE, error |-> FALSE]),
       !.next = @ + 1]
  /\ UNCHANGED saved

\* claim_next_outbound_private_message of a linked peer; a Sending message is
\* one whose sender stopped.
ClaimQueued(i) ==
  /\ store.queue[i].status \in {"Pending", "Sending", "Failed"}
  /\ store.link[store.queue[i].to].has = "link"
  /\ store' = [store EXCEPT !.queue[i].status = "Sending", !.queue[i].tried = TRUE,
                            !.queue[i].error = FALSE]
  /\ UNCHANGED saved

\* mark_outbound_sent, mark_outbound_failed, mark_outbound_invalid,
\* mark_outbound_recovery_required
mark_outbound(m, status) ==
  [m EXCEPT !.status = status, !.sent = (status = "Sent"), !.error = (status # "Sent")]

SettleQueued(i, status) ==
  /\ store.queue[i].status = "Sending"
  /\ store' = [store EXCEPT !.queue[i] = mark_outbound(@, status)]
  /\ UNCHANGED saved

\* supersede_outdated_private_payment_lists
SupersedeQueued(i) ==
  /\ store.queue[i].status \in {"Pending", "Failed"}
  /\ store' = [store EXCEPT !.queue[i].status = "Superseded", !.queue[i].error = FALSE]
  /\ UNCHANGED saved

----------------------------------------------------------------------------
(* Validation of a backup.                                                *)

\* validate_outbound_private_status
ValidStatus(m) ==
  CASE m.status = "Pending"    -> ~m.tried /\ ~m.sent /\ ~m.error
    [] m.status = "Sending"    -> m.tried /\ ~m.sent /\ ~m.error
    [] m.status = "Sent"       -> m.tried /\ m.sent /\ ~m.error
    [] m.status = "Failed"     -> m.tried /\ ~m.sent /\ m.error
    [] m.status = "Superseded" -> ~m.sent /\ ~m.error
    [] OTHER                   -> ~m.sent /\ m.error

\* unique_outbound_messages and validate_outbound_private_messages
ValidBackup(b) ==
  /\ \A i, j \in DOMAIN b.queue : b.queue[i].id = b.queue[j].id => i = j
  /\ \A i \in DOMAIN b.queue : ValidStatus(b.queue[i])

----------------------------------------------------------------------------
(* Reconciliation.                                                        *)

\* restored_peer_state_from_link_state
restored_peer_state(l) ==
  CASE l.has = "link" -> "Linked" [] l.has = "handshake" -> "Linking" [] OTHER -> "RecoveryRequired"

outbound_status_requires_link(m) == m.status \in {"Pending", "Sending", "Failed"}

\* What the link states say of a peer, and then what the queue says of it.
FromLinkState(b, p) ==
  LET state == b.peer[p]
      l == b.link[p]
  IN  IF state \in {"Blocked", "RecoveryRequired"} THEN state
      ELSE IF l.gen = -1
           THEN IF state \in {"Linked", "Linking"} THEN "RecoveryRequired" ELSE state
      ELSE IF <<state, l.has>> \in {<<"NotLinked", "none">>, <<"Linked", "handshake">>} THEN state
      ELSE restored_peer_state(l)
WorkWithoutLink(b, p) ==
  /\ b.link[p].has # "link"
  /\ \E i \in DOMAIN b.queue : b.queue[i].to = p /\ outbound_status_requires_link(b.queue[i])

\* Mutant: queued work does not matter.
reconciled_peer_LinkOnly(b, p) == FromLinkState(b, p)

reconciled_peer(b, p) ==
  IF WorkWithoutLink(b, p) /\ b.peer[p] # "Blocked" THEN "RecoveryRequired" ELSE FromLinkState(b, p)

\* clear_recovery_required_link_snapshots
cleared_link(l) == IF l.has = "none" THEN l ELSE [gen |-> l.gen + 1, has |-> "none"]

\* mark_restored_sending_outbound_recovery_required
restored_message(m, recovering) ==
  IF m.status = "Sending" /\ m.to \in recovering
  THEN mark_outbound(m, "RecoveryRequired") ELSE m

\* next_outbound_id
next_outbound_id(q) == IF q = <<>> THEN 0 ELSE q[Len(q)].id + 1

\* SdkBackupState::into_storage_state
into_storage_state(b) ==
  LET states == [p \in Peer |-> reconciled_peer(b, p)]
      recovering == {p \in Peer : states[p] = "RecoveryRequired"}
      computed == next_outbound_id(b.queue)
  IN  [peer  |-> states,
       link  |-> [p \in Peer |-> IF p \in recovering THEN cleared_link(b.link[p]) ELSE b.link[p]],
       queue |-> [i \in DOMAIN b.queue |-> restored_message(b.queue[i], recovering)],
       next  |-> IF b.next > computed THEN b.next ELSE computed]

----------------------------------------------------------------------------
\* export_backup_state
ExportState == saved' = store /\ UNCHANGED store

\* restore_backup_state_with_identity
RestoreState ==
  /\ store' = IF ValidBackup(saved) THEN into_storage_state(saved) ELSE store
  /\ UNCHANGED saved

BackupNext ==
  \/ \E p \in Peer :
       \/ StartLink(p) \/ CompleteLink(p) \/ Queue(p)
       \/ \E s \in {"RecoveryRequired", "Blocked", "NotLinked"} : DropLink(p, s)
  \/ \E i \in DOMAIN store.queue :
       \/ ClaimQueued(i) \/ SupersedeQueued(i)
       \/ \E s \in {"Sent", "Failed", "Invalid", "RecoveryRequired"} : SettleQueued(i, s)
  \/ ExportState
  \/ RestoreState

BackupSpec == BackupInit /\ [][BackupNext]_backupVars

----------------------------------------------------------------------------

(***************************************************************************)
(* Every state the runtime can be in when export_backup_state is called    *)
(* makes a backup that a restore accepts: no path through claims,          *)
(* failures, supersession and earlier restores leaves a message whose      *)
(* status metadata validate_outbound_private_status refuses.  After any    *)
(* number of restores, of old or new backups, a peer's state and its       *)
(* stored snapshot still agree, and a peer without a link has no Pending,  *)
(* Sending or Failed message that the restore let pass as unblocked,       *)
(* unlinked work (reconcile_restored_linked_peers).                        *)
(***************************************************************************)
RestoredRecordsAgree ==
  /\ ValidBackup(store)
  /\ \A p \in Peer :
       /\ store.peer[p] = "Linked" <=> store.link[p].has = "link"
       /\ store.peer[p] = "Linking" <=> store.link[p].has = "handshake"
  /\ store = into_storage_state(saved) =>
       \A p \in Peer : WorkWithoutLink(store, p) => store.peer[p] \in {"Blocked", "RecoveryRequired"}

=============================================================================
