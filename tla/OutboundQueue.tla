--------------------------- MODULE OutboundQueue ---------------------------
(***************************************************************************)
(* The outbound private message queue of one counterparty receiver: the    *)
(* durable queue, the workers of process_outbound_private_messages that    *)
(* send it over the Encrypted Link, and the counterparty that reads the    *)
(* slots of the outbox in order.                                           *)
(*                                                                         *)
(* Sending is not atomic with storage: the message is written to the slot  *)
(* the worker's snapshot names, and only then are its Sent status and the  *)
(* advanced snapshot stored, in one transaction under the lease.  A worker *)
(* may stop in between, or write when another worker has replaced it, and  *)
(* the counterparty reads a slot once.                                     *)
(*                                                                         *)
(* Event messages are queued without the lease, Private Payment Lists with *)
(* it.  A list carries the expiry of its earliest endpoint reservation     *)
(* (the reservations themselves are the subject of another module).        *)
(* Recovery of the link is coarse here: the outbox is cleared, a handshake *)
(* is stored, and later a fresh link; its steps are those of LinkedPeer.   *)
(***************************************************************************)
EXTENDS PeerLease, MessageQueue

CONSTANTS
  SendTimeout,       \* config.outbound_private_send_lease_timeout
  RetryBackoff,      \* config.outbound_private_retry_backoff
  Expiry,            \* the expiries a list may be queued with; Never for none
  LateWrites,        \* may a worker write to the outbox after it was replaced?
  FailedWriteLands,  \* may a write that is reported as failed reach the outbox?
  MaxMsg,            \* bound: messages ever queued
  MaxEpoch           \* bound: links ever established

ASSUME QueueConstants ==
  /\ SendTimeout \in Nat
  /\ RetryBackoff \in Nat
  /\ Expiry \subseteq Nat \cup {Never}
  /\ LateWrites \in BOOLEAN
  /\ FailedWriteLands \in BOOLEAN
  /\ MaxMsg \in Nat
  /\ MaxEpoch \in Nat \ {0}

VARIABLES
  queue,      \* the OutboundPrivateMessageRecords, by outbound_message_id
  link,       \* the stored link snapshot; hs: only a handshake is stored
  epochs,     \* the links established so far; the last one is the peer's
  outbox,     \* outbox[s]: the message written to slot s, if any
  delivered,  \* the messages the counterparty has read, in order
  reader,     \* the slot the counterparty reads next
  written,    \* history: what was written from which checkpoint
  pc,         \* pc[w]: the next step of worker w
  job         \* job[w]: the message it claimed, when, and its link

netVars == <<outbox, delivered, reader, written>>
storeVars == <<queue, link, epochs>>
vars == <<leaseVars, storeVars, netVars, pc, job>>

Link == [epoch : Nat, sent : Nat, hs : BOOLEAN]
NoLink == [epoch |-> 0, sent |-> 0, hs |-> FALSE]
Handshake == [NoLink EXCEPT !.hs = TRUE]
NewLink(e) == [NoLink EXCEPT !.epoch = e]
HasLink(l) == l.epoch # 0
NoJob == [msg |-> 0, at |-> 0, link |-> NoLink]
Slot == 0 .. MaxMsg
Empty == [epoch |-> 0, msg |-> 0]
\* The steps of a worker; an operation starts with the claim of its lease.
FirstStep == [send |-> "restore", queueList |-> "insert", relink |-> "clearOutbox"]
Step == DOMAIN FirstStep \cup
        {"idle", "restore", "next", "ready", "put", "sent", "failed", "broken",
         "mark", "insert", "clearOutbox", "saveHandshake", "saveLink", "release"}

Init ==
  /\ LeaseInit
  /\ queue = <<>>
  /\ link = NewLink(1)
  /\ epochs = 1
  /\ outbox = [s \in Slot |-> Empty]
  /\ delivered = <<>>
  /\ reader = 0
  /\ written = {}
  /\ pc = [w \in Worker |-> "idle"]
  /\ job = [w \in Worker |-> NoJob]

Goto(w, p) == pc' = [pc EXCEPT ![w] = p]

----------------------------------------------------------------------------
(* The queue.                                                             *)

\* outbound_retry_thresholds
StaleBefore == now - SendTimeout
RetryAfter == now - RetryBackoff

\* enqueue_private_message: Event Messages take no lease.  The caller's check
\* that the peer is Linked is an earlier transaction, so it may be outdated.
EnqueueEvent ==
  /\ Len(queue) < MaxMsg
  /\ queue' = Append(queue, NewMessage("event", Never))
  /\ UNCHANGED <<leaseVars, link, epochs, netVars, pc, job>>

----------------------------------------------------------------------------
(* The frame of an operation.                                             *)

\* process_outbound_private_messages, enqueue_private_payment_list*,
\* ensure_link_with_peer.  A sender that finds no message open only cleans up
\* reservations, and is left to that module.
Begin(w, o) ==
  /\ pc[w] = "idle"
  /\ o = "send" => HasLink(link) /\ Open(queue) # {}
  /\ Goto(w, o)
  /\ UNCHANGED <<leaseVars, storeVars, netVars, job>>

\* Mutant: a peer that was linked meanwhile is linked again.
Claim_Relinks(w) ==
  /\ pc[w] \in DOMAIN FirstStep
  /\ ClaimLease(w)
  /\ Goto(w, FirstStep[pc[w]])
  /\ UNCHANGED <<storeVars, netVars, job>>

\* ensure_link_with_peer finds the peer Linked, Linking or RecoveryRequired.
FirstUnderLease(w) ==
  IF pc[w] = "relink" /\ HasLink(link) THEN "release"
  ELSE IF pc[w] = "relink" /\ link.hs THEN "saveLink"
  ELSE FirstStep[pc[w]]

Claim(w) ==
  /\ pc[w] \in DOMAIN FirstStep
  /\ ClaimLease(w)
  /\ Goto(w, FirstUnderLease(w))
  /\ UNCHANGED <<storeVars, netVars, job>>

ClaimRefused(w) ==
  /\ pc[w] \in DOMAIN FirstStep
  /\ LeaseLive
  /\ Goto(w, "idle")
  /\ UNCHANGED <<leaseVars, storeVars, netVars, job>>

Release(w) ==
  /\ pc[w] = "release"
  /\ ReleaseLease(w)
  /\ Goto(w, "idle")
  /\ job' = [job EXCEPT ![w] = NoJob]
  /\ UNCHANGED <<storeVars, netVars>>

Crash(w) ==
  /\ pc[w] # "idle"
  /\ DropLease(w)
  /\ Goto(w, "idle")
  /\ job' = [job EXCEPT ![w] = NoJob]
  /\ UNCHANGED <<storeVars, netVars>>

\* A fenced transaction: it commits, or the operation ends with the error.
Commit(w, newQueue, newLink, next) ==
  IF HoldsLease(w)
  THEN queue' = newQueue /\ link' = newLink /\ Goto(w, next)
  ELSE Goto(w, "release") /\ UNCHANGED <<queue, link>>

\* queue_private_payment_list_with_reservations_with_link_lease, after
\* private_queue_readiness: a pending handshake will do.
InsertList(w, expires) ==
  /\ pc[w] = "insert"
  /\ Len(queue) < MaxMsg
  /\ IF link = NoLink
     THEN Goto(w, "release") /\ UNCHANGED <<queue, link>>
     ELSE Commit(w, Append(queue, NewMessage("list", expires)), link, "release")
  /\ UNCHANGED <<leaseVars, epochs, netVars, job>>

----------------------------------------------------------------------------
(* process_outbound_private_messages_with_claim                           *)

\* restore_link_for_outbound_send
Restore(w) ==
  /\ pc[w] = "restore"
  /\ job' = [job EXCEPT ![w].link = link]
  /\ Goto(w, IF HasLink(link) THEN "next" ELSE "mark")
  /\ UNCHANGED <<leaseVars, storeVars, netVars>>

RestoreFails(w) ==
  /\ pc[w] = "restore"
  /\ Goto(w, "mark")
  /\ UNCHANGED <<leaseVars, storeVars, netVars, job>>

\* mark_outbound_link_recovery_required
Mark(w) ==
  /\ pc[w] = "mark"
  /\ Commit(w, queue, NoLink, "release")
  /\ UNCHANGED <<leaseVars, epochs, netVars, job>>

\* claim_next_outbound_private_message_with_peer_lease
ClaimNext(w) ==
  LET q == Supersede(queue, StaleBefore, RetryAfter)
      i == NextMessage(queue, StaleBefore, RetryAfter)
  IN  /\ pc[w] = "next"
      /\ IF i # 0
         THEN /\ Commit(w, [q EXCEPT ![i].status = "Sending", ![i].attempt = now], link, "ready")
              /\ job' = [job EXCEPT ![w].msg = i, ![w].at = now]
         ELSE Commit(w, q, link, "release") /\ UNCHANGED job
      /\ UNCHANGED <<leaseVars, epochs, netVars>>

\* claimed_message_ready_for_send: a list whose reservation had expired when
\* it was claimed becomes Invalid, and the loop goes on.
Ready(w) ==
  LET m == queue[job[w].msg]
  IN  /\ pc[w] = "ready"
      /\ IF m.kind = "list" /\ m.expires # Never /\ m.expires <= job[w].at
         THEN Commit(w, [queue EXCEPT ![job[w].msg].status = "Invalid"], link, "next")
         ELSE Goto(w, "put") /\ UNCHANGED <<queue, link>>
      /\ UNCHANGED <<leaseVars, epochs, netVars, job>>

\* The worker's message reaches the slot its snapshot names; lease or not.
\* (No more slots than messages are ever needed: Slot is no restriction.)
PutSlot(w) ==
  LET e == job[w].link.epoch
      s == job[w].link.sent
  IN  /\ LateWrites \/ HoldsLease(w)
      /\ s \in Slot
      /\ outbox' = [outbox EXCEPT ![s] = [epoch |-> e, msg |-> job[w].msg]]
      /\ written' = written \cup {[epoch |-> e, slot |-> s, msg |-> job[w].msg]}

SendOk(w) ==
  /\ pc[w] = "put"
  /\ PutSlot(w)
  /\ Goto(w, "sent")
  /\ UNCHANGED <<leaseVars, storeVars, delivered, reader, job>>

\* A homeserver write error after all attempts, or any other send error.
SendFails(w, next) ==
  /\ pc[w] = "put"
  /\ \/ UNCHANGED <<outbox, written>>
     \/ FailedWriteLands /\ PutSlot(w)
  /\ Goto(w, next)
  /\ UNCHANGED <<leaseVars, storeVars, delivered, reader, job>>

\* record_private_send_success: the status and the checkpoint together.
RecordSent(w) ==
  LET l == [job[w].link EXCEPT !.sent = @ + 1]
  IN  /\ pc[w] = "sent"
      /\ Commit(w, [queue EXCEPT ![job[w].msg].status = "Sent"], l, "next")
      /\ job' = [job EXCEPT ![w].link = l]
      /\ UNCHANGED <<leaseVars, epochs, netVars>>

\* record_private_send_error
RecordFailed(w) ==
  /\ pc[w] = "failed"
  /\ Commit(w, [queue EXCEPT ![job[w].msg].status = "Failed"], link, "release")
  /\ UNCHANGED <<leaseVars, epochs, netVars, job>>

RecordBroken(w) ==
  /\ pc[w] = "broken"
  /\ Commit(w, [queue EXCEPT ![job[w].msg].status = "RecoveryRequired"], NoLink, "release")
  /\ UNCHANGED <<leaseVars, epochs, netVars, job>>

----------------------------------------------------------------------------
(* Recovery, the counterparty, time.                                      *)

\* clear_encrypted_link_outbox, before a recovery handshake.
ClearOutbox(w) ==
  /\ pc[w] = "clearOutbox"
  /\ LateWrites \/ HoldsLease(w)
  /\ outbox' = [s \in Slot |-> Empty]
  /\ Goto(w, "saveHandshake")
  /\ UNCHANGED <<leaseVars, storeVars, delivered, reader, written, job>>

SaveHandshake(w) ==
  /\ pc[w] = "saveHandshake"
  /\ Commit(w, queue, Handshake, "saveLink")
  /\ UNCHANGED <<leaseVars, epochs, netVars, job>>

\* The handshake completes with the counterparty, and is stored.
SaveLink(w) ==
  /\ pc[w] = "saveLink"
  /\ epochs < MaxEpoch
  /\ Commit(w, queue, NewLink(epochs + 1), "release")
  /\ IF HoldsLease(w)
     THEN epochs' = epochs + 1 /\ reader' = 0
     ELSE UNCHANGED <<epochs, reader>>
  /\ UNCHANGED <<leaseVars, outbox, delivered, written, job>>

\* Clearing the outbox fails, or the handshake does not complete yet (the
\* operation ends) or has failed (the peer needs recovery again).
RelinkFails(w) ==
  /\ \/ pc[w] \in {"clearOutbox", "saveHandshake", "saveLink"} /\ Goto(w, "release")
     \/ pc[w] = "saveLink" /\ Goto(w, "mark")
  /\ UNCHANGED <<leaseVars, storeVars, netVars, job>>

\* The counterparty reads its next slot when it can decrypt what is there.
Deliver ==
  /\ reader \in Slot
  /\ outbox[reader] # Empty
  /\ outbox[reader].epoch = epochs
  /\ delivered' = Append(delivered, outbox[reader].msg)
  /\ reader' = reader + 1
  /\ UNCHANGED <<leaseVars, storeVars, outbox, written, pc, job>>

Tick == AdvanceClock /\ UNCHANGED <<storeVars, netVars, pc, job>>

WorkerStep(w) ==
  \/ Claim(w) \/ ClaimRefused(w) \/ Release(w)
  \/ \E x \in Expiry : InsertList(w, x)
  \/ Restore(w) \/ RestoreFails(w) \/ Mark(w)
  \/ ClaimNext(w) \/ Ready(w) \/ SendOk(w)
  \/ SendFails(w, "failed") \/ SendFails(w, "broken")
  \/ RecordSent(w) \/ RecordFailed(w) \/ RecordBroken(w)
  \/ ClearOutbox(w) \/ SaveHandshake(w) \/ SaveLink(w) \/ RelinkFails(w)

\* No call is running: the runtime waits for the app.
Quiet == (\A w \in Worker : pc[w] = "idle") /\ UNCHANGED vars

Next ==
  \/ \E w \in Worker : (\E o \in DOMAIN FirstStep : Begin(w, o)) \/ WorkerStep(w) \/ Crash(w)
  \/ EnqueueEvent
  \/ Deliver
  \/ Tick
  \/ Quiet

Spec == Init /\ [][Next]_vars

----------------------------------------------------------------------------
TypeOK ==
  /\ LeaseTypeOK
  /\ queue \in Seq(Message)
  /\ link \in Link
  /\ epochs \in Nat
  /\ outbox \in [Slot -> [epoch : Nat, msg : Nat]]
  /\ delivered \in Seq(Nat)
  /\ reader \in Nat
  /\ pc \in [Worker -> Step]
  /\ job \in [Worker -> [msg : Nat, at : Nat, link : Link]]
  /\ written \subseteq [epoch : Nat, slot : Slot, msg : Nat]
  /\ \A w \in Worker :
       pc[w] \in {"ready", "put", "sent", "failed", "broken"} => job[w].msg \in DOMAIN queue

(***************************************************************************)
(* An event that may have reached the counterparty keeps its slot: only a  *)
(* Private Payment List that was given up, as Invalid or Superseded, is    *)
(* ever followed by another message in the same slot of the same link.     *)
(***************************************************************************)
OnlyGivenUpListsReplaced ==
  \A a, b \in written :
    a.epoch = b.epoch /\ a.slot = b.slot /\ a.msg < b.msg =>
      queue[a.msg].kind = "list" /\ queue[a.msg].status \in {"Invalid", "Superseded"}

(***************************************************************************)
(* A message stored as Sent over the present link was read by the          *)
(* counterparty or waits in its slot to be read, unless a list that was    *)
(* given up had been written to the same slot.                             *)
(***************************************************************************)
SentIsNotLost ==
  \A a \in written :
    /\ queue[a.msg].status = "Sent"
    /\ a.epoch = link.epoch
    /\ a.slot < link.sent
    /\ \A b \in written : b.epoch = a.epoch /\ b.slot = a.slot => b.msg = a.msg
    => \/ \E i \in DOMAIN delivered : delivered[i] = a.msg
       \/ a.slot >= reader /\ outbox[a.slot] = [epoch |-> a.epoch, msg |-> a.msg]

(***************************************************************************)
(* A message that was settled stays settled, whichever worker learns of    *)
(* the outcome late: no status after Sent, Invalid, RecoveryRequired or    *)
(* Superseded, and a send under way is never superseded.                   *)
(***************************************************************************)
Settling ==
  \A i \in DOMAIN queue :
    /\ queue[i].status \in Terminal => queue'[i].status = queue[i].status
    /\ queue[i].status = "Sending" => queue'[i].status # "Superseded"

SettledStaysSettled == [][Settling]_vars

(***************************************************************************)
(* The counterparty reads messages in the order in which they were queued: *)
(* events are FIFO and a Private Payment List never goes back to an older  *)
(* one, across crashes, retries, takeovers and a new link.  The same       *)
(* message may be read again after recovery.                               *)
(***************************************************************************)
DeliveredInOrder ==
  \A i, j \in DOMAIN delivered : i < j => delivered[i] <= delivered[j]

(***************************************************************************)
(* pending_outbound_private_counterparties names this receiver exactly     *)
(* when a worker's claim would find a message to send.                     *)
(***************************************************************************)
PendingIsClaimable ==
  HeadIsClaimable(queue, StaleBefore, RetryAfter) <=> NextMessage(queue, StaleBefore, RetryAfter) # 0

=============================================================================
