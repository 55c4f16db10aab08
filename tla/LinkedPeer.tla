----------------------------- MODULE LinkedPeer -----------------------------
(***************************************************************************)
(* The Linked Peer record and the Encrypted Link state record of one       *)
(* counterparty receiver, and every runtime operation that writes them:    *)
(* ensure_link_with_peer, initiate/accept_link_with_peer,                  *)
(* advance_link_handshake, the link side of sending and receiving,         *)
(* block_peer and unblock_peer, and the clearing of private state when the *)
(* identity changes.  Each storage transaction is one action; network      *)
(* calls lie between them, so the operations of several workers interleave *)
(* and a worker may be replaced or stop between any two of its steps.      *)
(*                                                                         *)
(* Data left out: timestamps, failure_count, reports and error texts (read *)
(* by no guard), and the handshake role, which every write stores and      *)
(* clears together with the handshake snapshot, so that "no role" and "no  *)
(* handshake snapshot" are one condition.  A snapshot is represented by    *)
(* the handshake it came from (its epoch) and its two counters.            *)
(* Two reads without a write between them are one step: what a worker      *)
(* does with the answer is guarded by its lease.                           *)
(***************************************************************************)
EXTENDS PeerLease

CONSTANTS
  MaxAdvance,  \* ensure_link_with_peer's max_advance_steps
  MaxEpoch,    \* bound: how many handshakes are ever saved
  MaxTraffic   \* bound: messages sent, and batches received, on one link

ASSUME LinkConstants ==
  /\ MaxAdvance \in Nat
  /\ MaxEpoch \in Nat
  /\ MaxTraffic \in Nat

VARIABLES
  peer,       \* LinkedPeerRecord.state, "Absent" when there is no record
  linkState,  \* EncryptedLinkStateRecord; gen = -1 when there is no record
  epochSeq,   \* the handshakes saved so far
  pc,         \* pc[w]: the next step of worker w
  op,         \* op[w]: the operation worker w is running
  steps,      \* steps[w]: advances left to ensure_link_with_peer
  view        \* view[w]: the link state record worker w read and kept

peerVars == <<peer, linkState, epochSeq>>
workVars == <<pc, op, steps, view>>
vars == <<leaseVars, peerVars, workVars>>

PeerState == {"Absent", "NotLinked", "Linking", "Linked", "RecoveryRequired", "Blocked"}
Operation == {"ensure", "start", "advance", "send", "receive", "block", "unblock"}
Step == {"idle", "claim", "decide", "begin", "initiate", "saveLinked", "saveLinking",
         "advance", "handshake", "advanceFailed", "mark", "restart", "restore", "traffic",
         "block", "unblock", "release"}

NoLink == [epoch |-> 0, sent |-> 0, rcvd |-> 0]
Snapshot == [epoch : Nat, sent : Nat, rcvd : Nat]
LinkRecord == [gen : Nat \cup {-1}, link : Snapshot, hs : Nat]

Stored(g, l, h) == [gen |-> g, link |-> l, hs |-> h]
Absent == Stored(-1, NoLink, 0)
HasLink(s) == s.link.epoch # 0
HasHandshake(s) == s.hs # 0
Exists(s) == s.gen # -1

\* Mutants: the snapshots stay; the record is made anew.
Cleared_Kept(s) == s
Cleared_Restarted(s) == IF Exists(s) THEN Stored(0, NoLink, 0) ELSE s

\* clear_encrypted_link_state: the snapshots go, the record and its count stay.
Cleared(s) == IF Exists(s) THEN Stored(s.gen + 1, NoLink, 0) ELSE s

Init ==
  /\ LeaseInit
  /\ peer = "Absent"
  /\ linkState = Absent
  /\ epochSeq = 0
  /\ pc = [w \in Worker |-> "idle"]
  /\ op = [w \in Worker |-> "ensure"]
  /\ steps = [w \in Worker |-> 0]
  /\ view = [w \in Worker |-> Absent]

Goto(w, p) == pc' = [pc EXCEPT ![w] = p]

----------------------------------------------------------------------------
(* The frame of an operation: check, claim, work, release.                *)

\* ensure_peer_allows_private_automation
AllowsPrivateAutomation == peer = "Linked" /\ HasLink(linkState)
\* ensure_peer_not_recovery_required_or_blocked
NotRecoveryRequiredOrBlocked == peer \notin {"RecoveryRequired", "Blocked"}

Begin(w, o) ==
  /\ pc[w] = "idle"
  /\ o = "advance" => NotRecoveryRequiredOrBlocked
  /\ o \in {"send", "receive"} => AllowsPrivateAutomation
  /\ Goto(w, "claim")
  /\ op' = [op EXCEPT ![w] = o]
  /\ steps' = [steps EXCEPT ![w] = IF o = "ensure" THEN MaxAdvance ELSE 0]
  /\ UNCHANGED <<leaseVars, peerVars, view>>

FirstStep(o) ==
  CASE o = "ensure"               -> "decide"
    [] o = "start"                -> "begin"
    [] o = "advance"              -> "advance"
    [] o \in {"send", "receive"}  -> "restore"
    [] OTHER                      -> o

Claim(w) ==
  /\ pc[w] = "claim"
  /\ ClaimLease(w)
  /\ Goto(w, FirstStep(op[w]))
  /\ UNCHANGED <<peerVars, op, steps, view>>

ClaimRefused(w) ==
  /\ pc[w] = "claim"
  /\ LeaseLive
  /\ Goto(w, "idle")
  /\ UNCHANGED <<leaseVars, peerVars, op, steps, view>>

Release(w) ==
  /\ pc[w] = "release"
  /\ ReleaseLease(w)
  /\ Goto(w, "idle")
  /\ view' = [view EXCEPT ![w] = Absent]
  /\ UNCHANGED <<peerVars, op, steps>>

Crash(w) ==
  /\ pc[w] # "idle"
  /\ DropLease(w)
  /\ Goto(w, "idle")
  /\ view' = [view EXCEPT ![w] = Absent]
  /\ UNCHANGED <<peerVars, op, steps>>

\* A transaction under the lease that a Blocked peer refuses; when it is
\* refused nothing is written and the operation ends with the error.
Admitted(w) == HoldsLease(w) /\ peer # "Blocked"

\* Mutant: a refused transaction is tried again.
Write_Retried(w, newPeer, newState, next) ==
  IF Admitted(w)
  THEN peer' = newPeer /\ linkState' = newState /\ Goto(w, next)
  ELSE UNCHANGED <<pc, peer, linkState>>

Write(w, newPeer, newState, next) ==
  IF Admitted(w)
  THEN /\ peer' = newPeer
       /\ linkState' = newState
       /\ Goto(w, next)
  ELSE /\ Goto(w, "release")
       /\ UNCHANGED <<peer, linkState>>

----------------------------------------------------------------------------
(* Starting and advancing a handshake.                                    *)

\* ensure_link_with_peer_with_claim reads the peer and its link state.
Decide(w) ==
  /\ pc[w] = "decide"
  /\ Goto(w, IF peer = "RecoveryRequired" THEN "begin"
             ELSE IF HasLink(linkState) THEN "saveLinked"
             ELSE IF HasHandshake(linkState) THEN "saveLinking"
             ELSE "begin")
  /\ UNCHANGED <<leaseVars, peerVars, op, steps, view>>

\* start_link_handshake_with_claim, up to its network calls.
BeginHandshake(w) ==
  /\ pc[w] = "begin"
  /\ Goto(w, IF peer = "Blocked" THEN "release"
             ELSE IF peer = "RecoveryRequired" THEN "initiate"
             ELSE IF HasLink(linkState) THEN "saveLinked"
             ELSE IF HasHandshake(linkState) THEN "saveLinking"
             ELSE "initiate")
  /\ UNCHANGED <<leaseVars, peerVars, op, steps, view>>

SaveLinked(w) ==
  /\ pc[w] = "saveLinked"
  /\ Write(w, "Linked", linkState, "release")
  /\ UNCHANGED <<leaseVars, epochSeq, op, steps, view>>

\* What follows a report of a pending handshake.
AfterPending(w) == IF op[w] = "ensure" /\ steps[w] > 0 THEN "advance" ELSE "release"

SaveLinking(w) ==
  /\ pc[w] = "saveLinking"
  /\ Write(w, "Linking", linkState, AfterPending(w))
  /\ UNCHANGED <<leaseVars, epochSeq, op, steps, view>>

\* initiate_encrypted_link or accept_encrypted_link, then
\* save_link_handshake_state_with_lease.
SaveHandshake(w) ==
  /\ pc[w] = "initiate"
  /\ epochSeq < MaxEpoch
  /\ epochSeq' = IF Admitted(w) THEN epochSeq + 1 ELSE epochSeq
  /\ Write(w, "Linking", Stored(linkState.gen + 1, NoLink, epochSeq + 1), AfterPending(w))
  /\ UNCHANGED <<leaseVars, op, steps, view>>

\* advance_link_handshake_with_claim, up to its network calls.
AdvanceRead(w) ==
  /\ pc[w] = "advance"
  /\ Goto(w, IF peer = "Blocked" THEN "release"
             ELSE IF peer = "RecoveryRequired" \/ ~Exists(linkState) THEN "restart"
             ELSE IF HasLink(linkState) THEN "saveLinked"
             ELSE IF HasHandshake(linkState) THEN "handshake"
             ELSE "mark")
  /\ steps' = [steps EXCEPT ![w] = IF op[w] = "ensure" THEN steps[w] - 1 ELSE 0]
  /\ view' = [view EXCEPT ![w] = linkState]
  /\ UNCHANGED <<leaseVars, peerVars, op>>

\* report_current_link_state
CurrentPeerState ==
  IF HasLink(linkState) THEN "Linked"
  ELSE IF HasHandshake(linkState) THEN "Linking" ELSE "RecoveryRequired"

\* What follows that report.
AfterReport(w) == IF CurrentPeerState = "Linked" THEN "release" ELSE AfterPending(w)

\* The generation checked writes: another generation wins over the new snapshot.
GenerationChanged(w) == Exists(linkState) /\ linkState.gen # view[w].gen

\* save_link_handshake_state_if_generation
HandshakePending(w) ==
  /\ pc[w] = "handshake"
  /\ IF GenerationChanged(w)
     THEN Write(w, CurrentPeerState, linkState, AfterReport(w))
     ELSE Write(w, "Linking", Stored(view[w].gen + 1, NoLink, view[w].hs), AfterPending(w))
  /\ UNCHANGED <<leaseVars, epochSeq, op, steps, view>>

\* save_linked_peer_link_state_if_generation
HandshakeComplete(w) ==
  /\ pc[w] = "handshake"
  /\ IF GenerationChanged(w)
     THEN Write(w, CurrentPeerState, linkState, AfterReport(w))
     ELSE Write(w, "Linked", Stored(view[w].gen + 1, [NoLink EXCEPT !.epoch = view[w].hs], 0),
                "release")
  /\ UNCHANGED <<leaseVars, epochSeq, op, steps, view>>

\* restore_link_handshake_from_snapshot fails with an error of a recovery class.
RestoreFails(w) ==
  /\ pc[w] = "handshake"
  /\ Goto(w, "mark")
  /\ UNCHANGED <<leaseVars, peerVars, op, steps, view>>

\* The handshake was restored and advance_handshake fails with such an error.
AdvanceFails(w) ==
  /\ pc[w] = "handshake"
  /\ Goto(w, "advanceFailed")
  /\ UNCHANGED <<leaseVars, peerVars, op, steps, view>>

\* mark_recovery_required_with_lease; ensure_link_with_peer goes on.
MarkRecovery(w) ==
  /\ pc[w] \in {"mark", "advanceFailed"}
  /\ Write(w, "RecoveryRequired", Cleared(linkState), "restart")
  /\ UNCHANGED <<leaseVars, epochSeq, op, steps, view>>

\* ensure_link_with_peer starts afresh when the peer needs recovery now; the
\* other operations return the error.
Restart(w) ==
  /\ pc[w] = "restart"
  /\ Goto(w, IF op[w] = "ensure" /\ peer = "RecoveryRequired" THEN "begin" ELSE "release")
  /\ UNCHANGED <<leaseVars, peerVars, op, steps, view>>

\* The session, the Receiver Marker, the outbox or the homeserver fails with an
\* error that only ends the operation.
NetworkFails(w) ==
  /\ pc[w] \in {"initiate", "handshake", "traffic"}
  /\ Goto(w, "release")
  /\ UNCHANGED <<leaseVars, peerVars, op, steps, view>>

----------------------------------------------------------------------------
(* Sending and receiving, seen from the link state.                       *)

\* restore_link_for_outbound_send and receive_private_messages_with_claim.
RestoreLink(w) ==
  /\ pc[w] = "restore"
  /\ Goto(w, IF ~Exists(linkState) THEN "release"
             ELSE IF HasLink(linkState) THEN "traffic" ELSE "mark")
  /\ view' = [view EXCEPT ![w] = linkState]
  /\ UNCHANGED <<leaseVars, peerVars, op, steps>>

\* The snapshot cannot be restored, or the link fails for good.
LinkBroken(w) ==
  /\ pc[w] = "traffic"
  /\ Goto(w, "mark")
  /\ UNCHANGED <<leaseVars, peerVars, op, steps, view>>

\* record_private_send_success writes the record the worker kept from its
\* restore, with the new snapshot; the loop goes on with what it wrote.
SendCommit(w) ==
  /\ pc[w] = "traffic" /\ op[w] = "send"
  /\ view[w].link.sent < MaxTraffic
  /\ IF HoldsLease(w)
     THEN LET s == Stored(view[w].gen + 1, [view[w].link EXCEPT !.sent = @ + 1], 0) IN
          /\ linkState' = s
          /\ view' = [view EXCEPT ![w] = s]
          /\ UNCHANGED pc
     ELSE Goto(w, "release") /\ UNCHANGED <<linkState, view>>
  /\ UNCHANGED <<leaseVars, peer, epochSeq, op, steps>>

\* Mutant: the batch is stored whoever holds the lease.
ReceiveCommit_Unfenced(w) ==
  /\ pc[w] = "traffic" /\ op[w] = "receive"
  /\ view[w].link.rcvd < MaxTraffic
  /\ linkState' = Stored(view[w].gen + 1, [view[w].link EXCEPT !.rcvd = @ + 1], 0)
  /\ Goto(w, "release")
  /\ UNCHANGED <<leaseVars, peer, epochSeq, op, steps, view>>

\* persist_private_stream_batch_with_link_lease
ReceiveCommit(w) ==
  /\ pc[w] = "traffic" /\ op[w] = "receive"
  /\ view[w].link.rcvd < MaxTraffic
  /\ linkState' = IF HoldsLease(w)
                  THEN Stored(view[w].gen + 1, [view[w].link EXCEPT !.rcvd = @ + 1], 0)
                  ELSE linkState
  /\ Goto(w, "release")
  /\ UNCHANGED <<leaseVars, peer, epochSeq, op, steps, view>>

----------------------------------------------------------------------------
(* Local policy and identity.                                             *)

BlockPeer(w) ==
  /\ pc[w] = "block"
  /\ IF HoldsLease(w)
     THEN peer' = "Blocked" /\ linkState' = Cleared(linkState)
     ELSE UNCHANGED <<peer, linkState>>
  /\ Goto(w, "release")
  /\ UNCHANGED <<leaseVars, epochSeq, op, steps, view>>

\* Mutant: a late unblock lifts a later block.
UnblockPeer_Unfenced(w) ==
  /\ pc[w] = "unblock"
  /\ IF peer = "Blocked"
     THEN peer' = "NotLinked" /\ linkState' = Cleared(linkState)
     ELSE UNCHANGED <<peer, linkState>>
  /\ Goto(w, "release")
  /\ UNCHANGED <<leaseVars, epochSeq, op, steps, view>>

UnblockPeer(w) ==
  /\ pc[w] = "unblock"
  /\ IF HoldsLease(w) /\ peer = "Blocked"
     THEN peer' = "NotLinked" /\ linkState' = Cleared(linkState)
     ELSE UNCHANGED <<peer, linkState>>
  /\ Goto(w, "release")
  /\ UNCHANGED <<leaseVars, epochSeq, op, steps, view>>

\* refresh_active_identity on a changed key, and sign_out.
ClearPrivateState ==
  /\ peer # "Absent"
  /\ peer' = "Absent"
  /\ linkState' = Absent
  /\ ClearLease
  /\ UNCHANGED <<epochSeq, workVars>>

Tick == AdvanceClock /\ UNCHANGED <<peerVars, workVars>>

WorkerStep(w) ==
  \/ Claim(w) \/ ClaimRefused(w) \/ Release(w)
  \/ Decide(w) \/ BeginHandshake(w) \/ SaveLinked(w) \/ SaveLinking(w) \/ SaveHandshake(w)
  \/ AdvanceRead(w) \/ HandshakePending(w) \/ HandshakeComplete(w)
  \/ RestoreFails(w) \/ AdvanceFails(w) \/ MarkRecovery(w) \/ Restart(w) \/ NetworkFails(w)
  \/ RestoreLink(w) \/ LinkBroken(w) \/ SendCommit(w) \/ ReceiveCommit(w)
  \/ BlockPeer(w) \/ UnblockPeer(w)

\* No call is running: the runtime waits for the app.
Quiet == (\A w \in Worker : pc[w] = "idle") /\ UNCHANGED vars

Next ==
  \/ \E w \in Worker : (\E o \in Operation : Begin(w, o)) \/ WorkerStep(w) \/ Crash(w)
  \/ ClearPrivateState
  \/ Tick
  \/ Quiet

Spec == Init /\ [][Next]_vars

\* A worker's task is polled until it ends; calls, crashes and time are not promised.
FairSpec == Spec /\ \A w \in Worker : WF_vars(WorkerStep(w))

----------------------------------------------------------------------------
TypeOK ==
  /\ LeaseTypeOK
  /\ peer \in PeerState
  /\ linkState \in LinkRecord
  /\ epochSeq \in Nat
  /\ pc \in [Worker -> Step]
  /\ op \in [Worker -> Operation]
  /\ steps \in [Worker -> Nat]
  /\ view \in [Worker -> LinkRecord]

(***************************************************************************)
(* The peer's state and its stored snapshots agree, although most of the   *)
(* operations write only one of the two records: a link snapshot is stored *)
(* exactly for a Linked peer and a handshake snapshot exactly for a        *)
(* Linking one.  A RecoveryRequired, Blocked or NotLinked peer has nothing *)
(* left that private automation could resume from.                         *)
(***************************************************************************)
LinkMatchesPeer ==
  /\ HasLink(linkState) <=> peer = "Linked"
  /\ HasHandshake(linkState) <=> peer = "Linking"

(***************************************************************************)
(* A worker that still holds the lease works on the stored record: the     *)
(* record record_private_send_success and the intake write back without    *)
(* reading it again is the stored one, and the generation checks of the    *)
(* handshake writes never find another generation.                         *)
(***************************************************************************)
HolderViewFresh ==
  \A w \in Worker :
    HoldsLease(w) /\ pc[w] \in {"handshake", "traffic"} => view[w] = linkState

(***************************************************************************)
(* A stored snapshot always belongs to the handshake saved last: a slow  *)
(* or restarted worker never brings back a snapshot of an abandoned link.  *)
(***************************************************************************)
NoResurrectedSnapshot ==
  /\ HasLink(linkState) => linkState.link.epoch = epochSeq
  /\ HasHandshake(linkState) => linkState.hs = epochSeq

(***************************************************************************)
(* No step takes a stored link back: on the same link neither counter goes *)
(* down, and every change of a record that stays in storage increases its  *)
(* generation.                                                             *)
(***************************************************************************)
SnapshotForward ==
  /\ HasLink(linkState) /\ linkState'.link.epoch = linkState.link.epoch
     => /\ linkState'.link.sent >= linkState.link.sent
        /\ linkState'.link.rcvd >= linkState.link.rcvd
  /\ Exists(linkState) /\ Exists(linkState') /\ linkState' # linkState
     => linkState'.gen > linkState.gen

SnapshotNeverRollsBack == [][SnapshotForward]_vars

(***************************************************************************)
(* A block ends only by unblock_peer, which leaves the peer NotLinked, or  *)
(* with the identity that made it; no operation that was already under way *)
(* when the peer was blocked lifts it.                                     *)
(***************************************************************************)
BlockKept ==
  peer = "Blocked" /\ peer' # "Blocked" =>
    \/ peer' = "Absent"
    \/ peer' = "NotLinked" /\ \E w \in Worker : pc[w] = "unblock" /\ HoldsLease(w)

BlockedUntilUnblocked == [][BlockKept]_vars

(***************************************************************************)
(* An operation that got the lease comes to its end, whichever network     *)
(* calls fail and whoever replaces its lease: the loop of                  *)
(* ensure_link_with_peer, which starts afresh after a failed handshake,    *)
(* does not run on.                                                        *)
(***************************************************************************)
OperationEnds ==
  \A w \in Worker : (pc[w] \notin {"idle", "claim"}) ~> (pc[w] = "idle")

=============================================================================
