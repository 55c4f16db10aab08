--------------------------- MODULE RecoveryMarkers ---------------------------
(***************************************************************************)
(* Two linked parties that tell each other through public documents to     *)
(* give up an Encrypted Link: a party that must recover publishes a        *)
(* recovery marker on its own homeserver, the other one fetches it, drops  *)
(* its link, and both shake hands again.  A marker carries an attempt id   *)
(* and a time truncated to the second, and each party has its own clock.   *)
(*                                                                         *)
(* publish and observe write under the peer's operation lease (job[p]);    *)
(* remove_encrypted_link_recovery_marker takes no lease (remover[p]), and  *)
(* an observation fetches before it claims one (fetched[p]).               *)
(*                                                                         *)
(* Data left out: error texts, failure counts and the reports returned.    *)
(* The handshake itself is in pubky-noise: a link is the set of the two    *)
(* handshakes that met.  The Disabled policy makes no step and Blocked is  *)
(* part of LinkedPeer.                                                     *)
(***************************************************************************)
EXTENDS Naturals

CONSTANTS
  Party,         \* the two parties
  Failing,       \* the parties whose sends, receives and handshakes may fail
  TicksPerSecond,
  Window,        \* peer_link_operation_lease_timeout, in ticks
  Skews,         \* how far a clock may be ahead, in ticks
  MaxTick,       \* bound on time
  MaxRecovery,   \* bound on failures that start a recovery
  MaxHandshake   \* bound on handshakes started

ASSUME RecoveryConstants ==
  /\ \E p, q \in Party : p # q /\ Party = {p, q}
  /\ TicksPerSecond \in Nat \ {0} /\ Window \in Nat /\ Skews \subseteq Nat
  /\ MaxTick \in Nat /\ MaxRecovery \in Nat /\ MaxHandshake \in Nat

VARIABLES
  tick,        \* time
  ahead,       \* ahead[p]: how far the clock of p is ahead
  record,      \* record[p]: p's LinkedPeerRecord of the other party
  linkState,   \* linkState[p]: p's EncryptedLinkStateRecord
  marker,      \* marker[p]: the marker document on p's homeserver
  job,         \* job[p]: the operation of p that holds the lease
  remover,     \* remover[p]: p is between the deletion and the clearing of its record
  fetched,     \* fetched[p]: a marker that p has read and not acted upon
  attempts,    \* attempt ids handed out (UUIDs)
  handshakes,  \* handshakes started
  tornDown,    \* history: a marker dropped a link that its author still held
  unheeded     \* history: a new marker was ignored on a link its author had given up

recoveryVars == <<tick, ahead, record, linkState, marker, job, remover, fetched,
                  attempts, handshakes, tornDown, unheeded>>

Other(p) == CHOOSE q \in Party : q # p
Clock(p) == tick + ahead[p]
Second(t) == t \div TicksPerSecond

NoMarker == [attempt |-> 0, created |-> 0]
NoLink == {}
NoJob == [pc |-> "idle", fresh |-> FALSE, marker |-> NoMarker]
LeaseFree(p) == job[p].pc = "idle"
Release(p) == job' = [job EXCEPT ![p] = NoJob]

(***************************************************************************)
(* Giving a link up.                                                       *)
(***************************************************************************)
GivenUp(p, l) == linkState[p].link # l /\ linkState[p].handshake \notin l

NewEpisode(p) == record[p].state # "RecoveryRequired"

\* mark_recovery_required_in_transaction_inner: the episode starts now and
\* both snapshots go.
Marked(p) == [record[p] EXCEPT !.state = "RecoveryRequired",
                               !.sync = IF NewEpisode(p) THEN Clock(p) ELSE @]

Dropped(p) == [linkState EXCEPT ![p] = [@ EXCEPT !.link = NoLink, !.handshake = 0,
                                                 !.checkpointed = Clock(p)]]

\* A failed send, receive or handshake, or the call
\* publish_encrypted_link_recovery_marker: mark, then publish under the lease.
RequireRecovery(p) ==
  /\ p \in Failing /\ LeaseFree(p) /\ attempts < MaxRecovery
  /\ record' = [record EXCEPT ![p] = Marked(p)]
  /\ linkState' = Dropped(p)
  /\ job' = [job EXCEPT ![p] = [NoJob EXCEPT !.pc = "publish", !.fresh = NewEpisode(p)]]
  /\ UNCHANGED <<tick, ahead, marker, remover, fetched, attempts, handshakes, tornDown, unheeded>>

(***************************************************************************)
(* publish_local_recovery_marker_with_session: choose the attempt in a     *)
(* transaction that checks no lease, then write the document.              *)
(***************************************************************************)
local_recovery_marker_belongs_to_current_episode(rec) ==
  rec.attempt # 0 /\ rec.created >= rec.sync

ChooseAttempt(p) ==
  LET rec == record[p]
      reuse == ~job[p].fresh /\ local_recovery_marker_belongs_to_current_episode(rec)
      id == IF reuse THEN rec.attempt ELSE attempts + 1
      at == IF reuse THEN rec.created ELSE Clock(p)
  IN /\ job[p].pc = "publish"
     /\ rec.state = "RecoveryRequired"
     /\ reuse \/ attempts < MaxRecovery
     /\ attempts' = IF reuse THEN attempts ELSE attempts + 1
     /\ record' = [record EXCEPT ![p].attempt = id, ![p].created = at]
     /\ job' = [job EXCEPT ![p].pc = "put",
                           ![p].marker = [attempt |-> id, created |-> Second(at)]]
     /\ UNCHANGED <<tick, ahead, linkState, marker, remover, fetched, handshakes,
                    tornDown, unheeded>>

\* The PUT; a request that fails may have been carried out.
PutRecoveryMarker(p) ==
  /\ job[p].pc = "put"
  /\ marker' \in {marker, [marker EXCEPT ![p] = job[p].marker]}
  /\ Release(p)
  /\ UNCHANGED <<tick, ahead, record, linkState, remover, fetched, attempts, handshakes,
                 tornDown, unheeded>>

\* The receiver's Noise key is not found, or the process stops: no attempt.
PublishGivesUp(p) ==
  /\ job[p].pc = "publish"
  /\ Release(p)
  /\ UNCHANGED <<tick, ahead, record, linkState, marker, remover, fetched, attempts,
                 handshakes, tornDown, unheeded>>

(***************************************************************************)
(* observe_remote_recovery_marker_with_session: fetch, claim the lease and *)
(* decide in one transaction.  A decision that changes the peer is         *)
(* followed by the clearing of the outbox, which is not modelled here.     *)
(***************************************************************************)
FetchMarker(p) ==
  /\ marker[Other(p)] # NoMarker
  /\ fetched[p] # marker[Other(p)]
  /\ fetched' = [fetched EXCEPT ![p] = marker[Other(p)]]
  /\ UNCHANGED <<tick, ahead, record, linkState, marker, job, remover, attempts, handshakes,
                 tornDown, unheeded>>

recovery_handshake_is_recently_in_progress(state, created) ==
  /\ state.handshake # 0
  /\ \/ created <= Second(state.checkpointed)
     \/ created * TicksPerSecond <= state.checkpointed + Window

remote_recovery_marker_is_stale(rec, state, created) ==
  \/ /\ state.link # NoLink \/ state.handshake # 0
     /\ created <= Second(state.checkpointed)
  \/ rec.received # 0 /\ created <= Second(rec.received)

\* Mutant: only the last private receive dates the link, not its checkpoint.
Heeds_NoCheckpoint(rec, state, m) ==
  /\ ~recovery_handshake_is_recently_in_progress(state, m.created)
  /\ ~(rec.received # 0 /\ m.created <= Second(rec.received))
  /\ rec.remote # m.attempt

Heeds(rec, state, m) ==
  /\ ~recovery_handshake_is_recently_in_progress(state, m.created)
  /\ ~remote_recovery_marker_is_stale(rec, state, m.created)
  /\ rec.remote # m.attempt

\* What the two histories record of a decision.
BreaksLiveLink(p) == linkState[p].link # NoLink /\ ~GivenUp(Other(p), linkState[p].link)
BreaksDeadLink(p, m) ==
  /\ linkState[p].link # NoLink /\ GivenUp(Other(p), linkState[p].link)
  /\ record[p].remote # m.attempt
  /\ Second(linkState[p].since) < m.created

MarkObserved(p) ==
  LET m == fetched[p]
      heeds == Heeds(record[p], linkState[p], m)
  IN /\ m # NoMarker /\ LeaseFree(p)
     /\ fetched' = [fetched EXCEPT ![p] = NoMarker]
     /\ record' = IF heeds THEN [record EXCEPT ![p] = [Marked(p) EXCEPT !.remote = m.attempt,
                                                                       !.sync = Clock(p)]]
                           ELSE record
     /\ linkState' = IF heeds THEN Dropped(p) ELSE linkState
     /\ tornDown' = (tornDown \/ (heeds /\ BreaksLiveLink(p)))
     /\ unheeded' = (unheeded \/ (~heeds /\ BreaksDeadLink(p, m)))
     /\ UNCHANGED <<tick, ahead, marker, job, remover, attempts, handshakes>>

(***************************************************************************)
(* remove_encrypted_link_recovery_marker, and the removal that follows a   *)
(* completed handshake (under its lease, and only when an attempt is       *)
(* recorded): DELETE, then a transaction that clears the recorded attempt. *)
(***************************************************************************)
ClearedRecord(p) == [record EXCEPT ![p].attempt = 0, ![p].created = 0]

RemoveMarker(p) ==
  /\ ~remover[p] /\ p \in Failing
  /\ marker' = [marker EXCEPT ![p] = NoMarker]
  /\ remover' \in {remover, [remover EXCEPT ![p] = TRUE]}
  /\ UNCHANGED <<tick, ahead, record, linkState, job, fetched, attempts, handshakes,
                 tornDown, unheeded>>

ClearAttempt(p) ==
  /\ remover[p]
  /\ remover' = [remover EXCEPT ![p] = FALSE]
  /\ record' = ClearedRecord(p)
  /\ UNCHANGED <<tick, ahead, linkState, marker, job, fetched, attempts, handshakes,
                 tornDown, unheeded>>

RemoveIfRecorded(p) ==
  /\ job[p].pc = "delete"
  /\ IF record[p].attempt = 0
     THEN Release(p) /\ UNCHANGED marker
     ELSE /\ marker' = [marker EXCEPT ![p] = NoMarker]
          /\ job' \in {[job EXCEPT ![p] = NoJob], [job EXCEPT ![p].pc = "clear"]}
  /\ UNCHANGED <<tick, ahead, record, linkState, remover, fetched, attempts, handshakes,
                 tornDown, unheeded>>

ClearIfRecorded(p) ==
  /\ job[p].pc = "clear"
  /\ Release(p)
  /\ record' = ClearedRecord(p)
  /\ UNCHANGED <<tick, ahead, linkState, marker, remover, fetched, attempts, handshakes,
                 tornDown, unheeded>>

(***************************************************************************)
(* The link itself, as far as markers depend on it.                        *)
(***************************************************************************)
\* start_link_handshake_with_claim for a peer that must recover.
StartHandshake(p) ==
  /\ LeaseFree(p) /\ record[p].state = "RecoveryRequired" /\ handshakes < MaxHandshake
  /\ handshakes' = handshakes + 1
  /\ linkState' = [linkState EXCEPT ![p].handshake = handshakes + 1,
                                    ![p].checkpointed = Clock(p)]
  /\ record' = [record EXCEPT ![p].state = "Linking", ![p].sync = Clock(p)]
  /\ UNCHANGED <<tick, ahead, marker, job, remover, fetched, attempts, tornDown, unheeded>>

\* advance_restored_link_handshake when the handshake completes: it met the
\* other party's handshake, which is still open or has become this link.
CompleteHandshake(p) ==
  LET q == Other(p)
      met == IF linkState[q].handshake # 0 THEN {linkState[p].handshake, linkState[q].handshake}
                                           ELSE linkState[q].link
  IN /\ LeaseFree(p) /\ linkState[p].handshake # 0
     /\ linkState[p].handshake \in met
     /\ linkState' = [linkState EXCEPT ![p] = [link |-> met, handshake |-> 0,
                                               checkpointed |-> Clock(p), since |-> Clock(p)]]
     /\ record' = [record EXCEPT ![p].state = "Linked", ![p].sync = Clock(p)]
     /\ job' = [job EXCEPT ![p] = [NoJob EXCEPT !.pc = "delete"]]
     /\ UNCHANGED <<tick, ahead, marker, remover, fetched, attempts, handshakes,
                    tornDown, unheeded>>

\* A send or a receive that succeeds checkpoints the link; a receive that
\* brings messages also dates the peer.  A receive that finds nothing succeeds
\* on a link the other party has given up, too.
CheckpointLink(p) ==
  /\ LeaseFree(p) /\ linkState[p].link # NoLink
  /\ linkState' = [linkState EXCEPT ![p].checkpointed = Clock(p)]
  /\ \E got \in {FALSE, linkState[Other(p)].link = linkState[p].link} :
       record' = [record EXCEPT ![p].sync = Clock(p),
                                ![p].received = IF got THEN Clock(p) ELSE @]
  /\ UNCHANGED <<tick, ahead, marker, job, remover, fetched, attempts, handshakes,
                 tornDown, unheeded>>

Tick ==
  /\ tick < MaxTick
  /\ tick' = tick + 1
  /\ UNCHANGED <<ahead, record, linkState, marker, job, remover, fetched, attempts, handshakes,
                 tornDown, unheeded>>

RecoveryInit ==
  /\ tick = 1
  /\ ahead \in [Party -> Skews]
  /\ record = [p \in Party |-> [state |-> "Linked", sync |-> Clock(p), received |-> 0, attempt |-> 0,
                                created |-> 0, remote |-> 0]]
  /\ linkState = [p \in Party |-> [link |-> {MaxHandshake + 1}, handshake |-> 0,
                                   checkpointed |-> Clock(p), since |-> Clock(p)]]
  /\ marker = [p \in Party |-> NoMarker]
  /\ job = [p \in Party |-> NoJob]
  /\ remover = [p \in Party |-> FALSE]
  /\ fetched = [p \in Party |-> NoMarker]
  /\ attempts = 0 /\ handshakes = 0
  /\ tornDown = FALSE /\ unheeded = FALSE

RecoveryStep(p) ==
  \/ RequireRecovery(p) \/ ChooseAttempt(p) \/ PutRecoveryMarker(p) \/ PublishGivesUp(p)
  \/ FetchMarker(p) \/ MarkObserved(p)
  \/ RemoveMarker(p) \/ ClearAttempt(p) \/ RemoveIfRecorded(p) \/ ClearIfRecorded(p)
  \/ StartHandshake(p) \/ CompleteHandshake(p) \/ CheckpointLink(p)

RecoveryNext == Tick \/ \E p \in Party : RecoveryStep(p)

RecoverySpec == RecoveryInit /\ [][RecoveryNext]_recoveryVars

-----------------------------------------------------------------------------

\* A marker never breaks a link that its author still uses or is completing:
\* leftovers of an earlier episode, documents that a lease-free removal left
\* without a record, and markers fetched before a new handshake are all older
\* than the checkpoint that remote_recovery_marker_is_stale compares them with,
\* as long as the two clocks agree.
LinkOutlivesMarker == (\A p, q \in Party : ahead[p] = ahead[q]) => ~tornDown

\* A new attempt published after the link was set up, by a party that has
\* given that link up, makes the observing party recover.
NewMarkerIsHeeded == ~unheeded

=============================================================================
