---------------------------- MODULE Reservations ----------------------------
(***************************************************************************)
(* Payment Endpoint Reservations of one counterparty receiver: receiving   *)
(* details that the payment adapter holds for this counterparty, the       *)
(* stored records that tie them to the Private Payment List sharing them,  *)
(* and the operations that queue such lists, send them and cancel what is  *)
(* no longer needed.  The adapter and the storage are two systems: every   *)
(* operation calls one after the other and may stop in between.            *)
(*                                                                         *)
(* A reservation id is an idempotency key: a later list may carry the same *)
(* id, and its record then moves to the later list.  What a list carries   *)
(* is fixed when it is queued; identifiers, payload hashes and attribution *)
(* follow from the id, so the checks that compare them never differ.       *)
(* The slots of the link and Event Messages are the subject of             *)
(* OutboundQueue; here a list that is written has been shared.             *)
(***************************************************************************)
EXTENDS PeerLease, MessageQueue

CONSTANTS
  Reservation,   \* the reservation ids
  Expires,       \* Expires[r]: expires_at of reservation r, Never for none
  SendTimeout,   \* config.outbound_private_send_lease_timeout
  RetryBackoff,  \* config.outbound_private_retry_backoff
  Overlap,       \* may two calls carry the same reservation at the same time?
  MaxMsg         \* bound: lists ever queued

ASSUME ReservationConstants ==
  /\ Expires \in [Reservation -> Nat \cup {Never}]
  /\ SendTimeout \in Nat
  /\ RetryBackoff \in Nat
  /\ Overlap \in BOOLEAN
  /\ MaxMsg \in Nat

VARIABLES
  lists,      \* the queued lists, by outbound_message_id
  carries,    \* carries[i]: the reservations list i shares
  record,     \* record[r]: PaymentEndpointReservationRecord, msg = 0 for none
  reserved,   \* the adapter: reservations it holds
  cancelled,  \* the adapter: reservations it was asked to cancel, and did
  shared,     \* history: reservations in a list that was written
  abandoned,  \* history: reservations lost to a crash or a failed cancellation
  crossed,    \* history: reservations cancelled while another call carried them
  pc,         \* pc[w]: the next step of worker w
  job         \* job[w]: what it queues, claimed, or has to cancel

storeVars == <<lists, carries, record>>
adapterVars == <<reserved, cancelled>>
history == <<shared, abandoned, crossed>>
vars == <<leaseVars, storeVars, adapterVars, history, pc, job>>

NoRecord == [msg |-> 0, started |-> FALSE]
\* hand: reservations being queued or given back; msg, at: the claimed list;
\* todo: reservation records to cancel, as <<reservation, list>>; cur: the one
\* being cancelled; plan: the steps that follow when they are done.
NoJob == [hand |-> {}, msg |-> 0, at |-> 0, todo |-> {}, cur |-> <<>>, plan |-> <<>>]
FirstStep == [queue |-> "allowed", reserve |-> "ask", send |-> "next", cleanup |-> "superseded"]
Cleaning(next) == [NoJob EXCEPT !.plan = <<"invalid", next>>]
Step == DOMAIN FirstStep \cup
        {"idle", "allowed", "ask", "insert", "undo", "undoCancel", "next", "ready", "put", "sent",
         "failed", "broken", "superseded", "invalid", "cancelClaim", "cancel", "remove", "release"}

Init ==
  /\ LeaseInit
  /\ lists = <<>>
  /\ carries = <<>>
  /\ record = [r \in Reservation |-> NoRecord]
  /\ reserved = {}
  /\ cancelled = {}
  /\ shared = {}
  /\ abandoned = {}
  /\ crossed = {}
  /\ pc = [w \in Worker |-> "idle"]
  /\ job = [w \in Worker |-> NoJob]

Goto(w, p) == pc' = [pc EXCEPT ![w] = p]
StaleBefore == now - SendTimeout
RetryAfter == now - RetryBackoff

\* What a call may carry: an id is not used again once it was cancelled, and
\* without Overlap no other call carries it at the moment.
Offered ==
  {S \in SUBSET (Reservation \ cancelled) :
     Overlap \/ \A w \in Worker : S \cap job[w].hand = {}}

----------------------------------------------------------------------------
(* The frame of an operation.                                             *)

\* enqueue_private_payment_list_with_reservations ("queue": the app made the
\* reservations), enqueue_private_payment_list ("reserve") and
\* process_outbound_private_messages ("send", or "cleanup" when no message is
\* open).
Begin(w, o, S) ==
  /\ pc[w] = "idle"
  /\ o # "queue" => S = {}
  /\ o = "send" => Open(lists) # {}
  /\ o = "cleanup" => Open(lists) = {}
  /\ reserved' = reserved \cup S
  /\ Goto(w, o)
  /\ job' = [job EXCEPT ![w].hand = S]
  /\ UNCHANGED <<leaseVars, storeVars, cancelled, history>>

Claim(w) ==
  /\ pc[w] \in DOMAIN FirstStep
  /\ ClaimLease(w)
  /\ Goto(w, FirstStep[pc[w]])
  /\ job' = IF pc[w] = "cleanup" THEN [job EXCEPT ![w] = Cleaning("release")] ELSE job
  /\ UNCHANGED <<storeVars, adapterVars, history>>

\* Mutant: the call just ends.
ClaimRefused_NoUndo(w) ==
  /\ pc[w] \in DOMAIN FirstStep
  /\ LeaseLive
  /\ Goto(w, "idle")
  /\ job' = [job EXCEPT ![w] = NoJob]
  /\ UNCHANGED <<leaseVars, storeVars, adapterVars, history>>

\* A call that carries reservations gives them back.
ClaimRefused(w) ==
  /\ pc[w] \in DOMAIN FirstStep
  /\ LeaseLive
  /\ Goto(w, IF pc[w] = "queue" THEN "undo" ELSE "idle")
  /\ UNCHANGED <<leaseVars, storeVars, adapterVars, history, job>>

Release(w) ==
  /\ pc[w] = "release"
  /\ ReleaseLease(w)
  /\ Goto(w, "idle")
  /\ job' = [job EXCEPT ![w] = NoJob]
  /\ UNCHANGED <<storeVars, adapterVars, history>>

Crash(w) ==
  /\ pc[w] # "idle"
  /\ DropLease(w)
  /\ Goto(w, "idle")
  /\ abandoned' = abandoned \cup job[w].hand
  /\ job' = [job EXCEPT ![w] = NoJob]
  /\ UNCHANGED <<storeVars, adapterVars, shared, crossed>>

----------------------------------------------------------------------------
(* Queueing a list.                                                       *)

\* ensure_private_list_queue_allowed
QueueAllowed(w) ==
  /\ pc[w] = "allowed"
  /\ Goto(w, "insert")
  /\ UNCHANGED <<leaseVars, storeVars, adapterVars, history, job>>

\* The same, and reserve_private_receiving_details of the adapter.
Reserve(w, S) ==
  /\ pc[w] = "ask"
  /\ reserved' = reserved \cup S
  /\ job' = [job EXCEPT ![w].hand = S]
  /\ Goto(w, "insert")
  /\ UNCHANGED <<leaseVars, storeVars, cancelled, history>>

\* The peer is not linked, there is no session, or the adapter refuses.
QueueNotAllowed(w) ==
  /\ pc[w] \in {"allowed", "ask"}
  /\ Goto(w, "undo")
  /\ UNCHANGED <<leaseVars, storeVars, adapterVars, history, job>>

\* build_reservation_records: one record for each reservation of list i.
build_reservation_records(S, i) ==
  [r \in Reservation |-> IF r \in S THEN [msg |-> i, started |-> FALSE] ELSE record[r]]

\* Mutant: the records name the list queued before.
QueueList_OldId(w) ==
  LET S == job[w].hand
  IN  /\ pc[w] = "insert"
      /\ Len(lists) < MaxMsg
      /\ HoldsLease(w)
      /\ lists' = Append(lists, NewMessage("list", Never))
      /\ carries' = Append(carries, S)
      /\ record' = build_reservation_records(S, Len(lists))
      /\ job' = [job EXCEPT ![w].hand = {}]
      /\ Goto(w, "release")
      /\ UNCHANGED <<leaseVars, adapterVars, history>>

\* Mutant: a reservation that is being cancelled is taken.
QueueList_NoStartedCheck(w) ==
  LET S == job[w].hand
  IN  /\ pc[w] = "insert"
      /\ Len(lists) < MaxMsg
      /\ IF HoldsLease(w)
         THEN /\ lists' = Append(lists, NewMessage("list", Never))
              /\ carries' = Append(carries, S)
              /\ record' = build_reservation_records(S, Len(lists'))
              /\ job' = [job EXCEPT ![w].hand = {}]
              /\ Goto(w, "release")
         ELSE Goto(w, "undo") /\ UNCHANGED <<storeVars, job>>
      /\ UNCHANGED <<leaseVars, adapterVars, history>>

\* queue_private_payment_list_with_reservations_inner: the list and its records
\* in one transaction, unless a record is being cancelled.
QueueList(w) ==
  LET S == job[w].hand
  IN  /\ pc[w] = "insert"
      /\ Len(lists) < MaxMsg
      /\ IF HoldsLease(w) /\ \A r \in S : ~record[r].started
         THEN /\ lists' = Append(lists, NewMessage("list", Never))
              /\ carries' = Append(carries, S)
              /\ record' = build_reservation_records(S, Len(lists'))
              /\ job' = [job EXCEPT ![w].hand = {}]
              /\ Goto(w, "release")
         ELSE Goto(w, "undo") /\ UNCHANGED <<storeVars, job>>
      /\ UNCHANGED <<leaseVars, adapterVars, history>>

\* Mutant: the reservations are not looked up.
Undo_All(w, r) ==
  /\ pc[w] = "undo"
  /\ r \in job[w].hand
  /\ job' = [job EXCEPT ![w].cur = <<r, 0>>]
  /\ Goto(w, "undoCancel")
  /\ UNCHANGED <<leaseVars, storeVars, adapterVars, history>>

\* cancel_reservations_after_queue_error looks each reservation up, without a
\* lease, and leaves the ones that have a record ...
Undo(w, r) ==
  /\ pc[w] = "undo"
  /\ r \in job[w].hand
  /\ IF record[r].msg # 0
     THEN job' = [job EXCEPT ![w].hand = @ \ {r}] /\ UNCHANGED pc
     ELSE job' = [job EXCEPT ![w].cur = <<r, 0>>] /\ Goto(w, "undoCancel")
  /\ UNCHANGED <<leaseVars, storeVars, adapterVars, history>>

UndoDone(w) ==
  /\ pc[w] = "undo"
  /\ job[w].hand = {}
  /\ Goto(w, "release")
  /\ UNCHANGED <<leaseVars, storeVars, adapterVars, history, job>>

\* cancel_private_receiving_detail_reservation of the adapter
AdapterCancel(w, r, ok) ==
  /\ reserved' = IF ok THEN reserved \ {r} ELSE reserved
  /\ cancelled' = IF ok THEN cancelled \cup {r} ELSE cancelled
  /\ crossed' = IF \E v \in Worker \ {w} : r \in job[v].hand THEN crossed \cup {r} ELSE crossed

\* ... and then asks the adapter to cancel the others.
UndoCancel(w, ok) ==
  /\ pc[w] = "undoCancel"
  /\ LET r == job[w].cur[1]
     IN  /\ AdapterCancel(w, r, ok)
         /\ abandoned' = IF ok THEN abandoned ELSE abandoned \cup {r}
         /\ job' = [job EXCEPT ![w].cur = <<>>, ![w].hand = @ \ {r}]
  /\ Goto(w, "undo")
  /\ UNCHANGED <<leaseVars, storeVars, shared>>

----------------------------------------------------------------------------
(* Sending: process_outbound_private_messages_with_claim.                 *)

\* A fenced write of the lists: it commits, or the operation ends.
SaveLists(w, newLists, next) ==
  IF HoldsLease(w) THEN lists' = newLists /\ Goto(w, next)
                   ELSE Goto(w, "release") /\ UNCHANGED lists

ClaimNext(w) ==
  LET q == Supersede(lists, StaleBefore, RetryAfter)
      i == NextMessage(lists, StaleBefore, RetryAfter)
  IN  /\ pc[w] = "next"
      /\ IF i # 0
         THEN /\ SaveLists(w, [q EXCEPT ![i].status = "Sending", ![i].attempt = now], "ready")
              /\ job' = [job EXCEPT ![w].msg = i, ![w].at = now]
         ELSE /\ SaveLists(w, q, "superseded")
              /\ job' = [job EXCEPT ![w] = Cleaning("release")]
      /\ UNCHANGED <<leaseVars, carries, record, adapterVars, history>>

\* The records of list i, as cancellations.
RecordsOf(i) == {<<r, i>> : r \in {r \in Reservation : record[r].msg = i}}

\* expired_outbound_reservation_cancellations: all of them if one expired.
ExpiredRecords(i, at) ==
  IF \E r \in Reservation : record[r].msg = i /\ Expires[r] # Never /\ Expires[r] <= at
  THEN RecordsOf(i) ELSE {}

\* claimed_message_ready_for_send
Ready(w) ==
  LET expired == ExpiredRecords(job[w].msg, job[w].at)
  IN  /\ pc[w] = "ready"
      /\ IF expired # {}
         THEN /\ SaveLists(w, [lists EXCEPT ![job[w].msg].status = "Invalid"], "cancelClaim")
              /\ job' = [job EXCEPT ![w] = [NoJob EXCEPT !.todo = expired,
                                                      !.plan = <<"superseded", "invalid", "next">>]]
         ELSE Goto(w, "put") /\ UNCHANGED <<lists, job>>
      /\ UNCHANGED <<leaseVars, carries, record, adapterVars, history>>

\* The list reaches the counterparty's inbox, whatever is reported.
Put(w, next) ==
  /\ pc[w] = "put"
  /\ \/ shared' = shared \cup carries[job[w].msg]
     \/ next # "sent" /\ UNCHANGED shared
  /\ Goto(w, next)
  /\ UNCHANGED <<leaseVars, storeVars, adapterVars, abandoned, crossed, job>>

\* record_private_send_success, record_private_send_error
RecordOutcome(w) ==
  LET outcome == [sent |-> "Sent", failed |-> "Failed", broken |-> "RecoveryRequired"]
  IN  /\ pc[w] \in DOMAIN outcome
      /\ SaveLists(w, [lists EXCEPT ![job[w].msg].status = outcome[pc[w]]],
                   IF pc[w] = "broken" THEN "release" ELSE "superseded")
      /\ job' = [job EXCEPT ![w] = Cleaning(IF pc[w] = "sent" THEN "next" ELSE "release")]
      /\ UNCHANGED <<leaseVars, carries, record, adapterVars, history>>

----------------------------------------------------------------------------
(* cancel_terminal_private_list_reservations                              *)

\* Mutant: attempted lists are not left alone.
CleanSuperseded_Attempted(w) ==
  /\ pc[w] = "superseded"
  /\ job' = [job EXCEPT ![w].todo =
               UNION {RecordsOf(i) : i \in {i \in DOMAIN lists : lists[i].status = "Superseded"}}]
  /\ Goto(w, "cancelClaim")
  /\ UNCHANGED <<leaseVars, storeVars, adapterVars, history>>

\* unattempted_superseded_reservation_cancellations
CleanSuperseded(w) ==
  /\ pc[w] = "superseded"
  /\ job' = [job EXCEPT ![w].todo =
               UNION {RecordsOf(i) : i \in {i \in DOMAIN lists :
                        lists[i].status = "Superseded" /\ lists[i].attempt = Never}}]
  /\ Goto(w, "cancelClaim")
  /\ UNCHANGED <<leaseVars, storeVars, adapterVars, history>>

\* invalid_private_list_reservation_cancellations
CleanInvalid(w) ==
  /\ pc[w] = "invalid"
  /\ job' = [job EXCEPT ![w].todo =
               UNION {RecordsOf(i) : i \in {i \in DOMAIN lists : lists[i].status = "Invalid"}}]
  /\ Goto(w, "cancelClaim")
  /\ UNCHANGED <<leaseVars, storeVars, adapterVars, history>>

\* claim_reservation_cancellation: under the lease, and only while the record
\* still belongs to that list.
CancelClaim(w, c) ==
  /\ pc[w] = "cancelClaim"
  /\ c \in job[w].todo
  /\ IF HoldsLease(w) /\ record[c[1]].msg = c[2]
     THEN /\ record' = [record EXCEPT ![c[1]].started = TRUE]
          /\ job' = [job EXCEPT ![w].todo = @ \ {c}, ![w].cur = c]
          /\ Goto(w, "cancel")
     ELSE job' = [job EXCEPT ![w].todo = @ \ {c}] /\ UNCHANGED <<record, pc>>
  /\ UNCHANGED <<leaseVars, lists, carries, adapterVars, history>>

Cancel(w, ok) ==
  /\ pc[w] = "cancel"
  /\ AdapterCancel(w, job[w].cur[1], ok)
  /\ Goto(w, IF ok THEN "remove" ELSE "cancelClaim")
  /\ job' = IF ok THEN job ELSE [job EXCEPT ![w].cur = <<>>]
  /\ UNCHANGED <<leaseVars, storeVars, shared, abandoned>>

\* The record goes, lease or not, if it is still the one being cancelled.
Remove(w) ==
  LET c == job[w].cur
  IN  /\ pc[w] = "remove"
      /\ record' = IF record[c[1]] = [msg |-> c[2], started |-> TRUE]
                   THEN [record EXCEPT ![c[1]] = NoRecord] ELSE record
      /\ Goto(w, "cancelClaim")
      /\ job' = [job EXCEPT ![w].cur = <<>>]
      /\ UNCHANGED <<leaseVars, lists, carries, adapterVars, history>>

PassDone(w) ==
  /\ pc[w] = "cancelClaim"
  /\ job[w].todo = {}
  /\ Goto(w, Head(job[w].plan))
  /\ job' = [job EXCEPT ![w].plan = Tail(@)]
  /\ UNCHANGED <<leaseVars, storeVars, adapterVars, history>>

----------------------------------------------------------------------------
Tick == AdvanceClock /\ UNCHANGED <<storeVars, adapterVars, history, pc, job>>

WorkerStep(w) ==
  \/ Claim(w) \/ ClaimRefused(w) \/ Release(w)
  \/ QueueAllowed(w) \/ (\E S \in Offered : Reserve(w, S)) \/ QueueNotAllowed(w) \/ QueueList(w)
  \/ (\E r \in Reservation : Undo(w, r)) \/ UndoDone(w)
  \/ (\E ok \in BOOLEAN : UndoCancel(w, ok) \/ Cancel(w, ok))
  \/ ClaimNext(w) \/ Ready(w) \/ RecordOutcome(w)
  \/ (\E o \in {"sent", "failed", "broken"} : Put(w, o))
  \/ CleanSuperseded(w) \/ CleanInvalid(w)
  \/ (\E c \in job[w].todo : CancelClaim(w, c)) \/ Remove(w) \/ PassDone(w)

\* No call is running: the runtime waits for the app.
Quiet == (\A w \in Worker : pc[w] = "idle") /\ UNCHANGED vars

Next ==
  \/ \E w \in Worker :
       \/ \E o \in DOMAIN FirstStep, S \in Offered : Begin(w, o, S)
       \/ WorkerStep(w)
       \/ Crash(w)
  \/ Tick
  \/ Quiet

Spec == Init /\ [][Next]_vars

----------------------------------------------------------------------------
TypeOK ==
  /\ LeaseTypeOK
  /\ lists \in Seq(Message)
  /\ carries \in Seq(SUBSET Reservation)
  /\ Len(carries) = Len(lists)
  /\ record \in [Reservation -> [msg : 0 .. Len(lists), started : BOOLEAN]]
  /\ pc \in [Worker -> Step]

\* validate_payment_endpoint_reservations, of a backup: a record names a list that is there
\* and has the reservation's endpoint.
validate_payment_endpoint_reservations ==
  \A r \in Reservation :
    record[r].msg # 0 => record[r].msg \in DOMAIN lists /\ r \in carries[record[r].msg]

(***************************************************************************)
(* A backup can be taken and restored at any moment: whatever is being     *)
(* queued, moved to a later list, cancelled or interrupted, the records    *)
(* are ones that the validation of a backup accepts.                       *)
(***************************************************************************)
ReservationBackupRestores == validate_payment_endpoint_reservations

(***************************************************************************)
(* specs/paykit-sdk.md, Payment Endpoint Reservations: a record whose      *)
(* cancellation was started belongs to a list that will never be sent      *)
(* (again): Invalid, or Superseded before any attempt.  So an id under     *)
(* cancellation is not shared by a new list, whoever retries the cleanup.  *)
(***************************************************************************)
StartedIsGivenUp ==
  \A r \in Reservation :
    record[r].started =>
      LET m == lists[record[r].msg]
      IN  m.status = "Invalid" \/ (m.status = "Superseded" /\ m.attempt = Never)

(***************************************************************************)
(* The adapter still holds every recorded reservation of a list that may   *)
(* be sent or was sent: neither cleanup nor the undoing of a failed call   *)
(* takes the details of a live list away, unless the cancellation crossed  *)
(* a call that had obtained the reservation before and queued it after.    *)
(***************************************************************************)
LiveListIsBacked ==
  \A r \in Reservation :
    /\ record[r].msg # 0
    /\ lists[record[r].msg].status \notin {"Invalid", "Superseded"}
    => r \in reserved \cup crossed

(***************************************************************************)
(* No reservation is leaked: what the adapter holds has a record, or is in *)
(* the hands of a call that will queue it or give it back, unless a worker *)
(* died with it or the adapter refused to cancel it.                       *)
(***************************************************************************)
NoLeak ==
  reserved \subseteq
    {r \in Reservation : record[r].msg # 0} \cup abandoned \cup
    UNION {job[w].hand : w \in Worker}

(***************************************************************************)
(* What enqueue_private_payment_list_with_reservations says: when a list   *)
(* cannot be queued, the reservations cancelled are unpersisted ones.      *)
(***************************************************************************)
UndoesUnpersisted ==
  [][\A r \in Reservation :
       r \in cancelled' \ cancelled =>
         \/ record[r].msg = 0
         \/ \E w \in Worker : pc[w] = "cancel" /\ job[w].cur[1] = r /\ pc'[w] = "remove"]_vars

(***************************************************************************)
(* What PaymentAdapter::reserve_private_receiving_details says: the SDK    *)
(* cancels reservations that become invalid before they are sent; once     *)
(* shared, their cleanup is up to the adapter.  What                       *)
(* unattempted_superseded_reservation_cancellations says: the details of   *)
(* an attempted list are left, the counterparty may have received them.    *)
(***************************************************************************)
SharedIsNotCancelled == shared \cap cancelled = {}

=============================================================================
