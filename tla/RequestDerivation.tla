------------------------- MODULE RequestDerivation -------------------------
(***************************************************************************)
(* How paykit-sdk derives the state of a Payment Request: nothing about a  *)
(* request is stored, its record is computed on every call from the items  *)
(* of the private stream and the messages of the outbound queue of one     *)
(* counterparty.                                                           *)
(*                                                                         *)
(* A message has an Event ID, a kind, the request it names (NoRequest if   *)
(* it has no readable Payment Request ID) and whether it is well-formed.   *)
(* Two messages have the same payload hash if they are equal.  An item is  *)
(* a message and when it was received; a queued message has the time it    *)
(* was created and its status.                                             *)
(***************************************************************************)
EXTENDS Integers, FiniteSets, SequencesExt

CONSTANTS
  Request,    \* the Payment Request IDs
  Recurring,  \* those whose terms have a recurrence
  Expires     \* Expires[r]: proposal_expires_at, Never if null

Never == 1000
NoRequest == "none"
Kind == {"request", "acceptance", "rejection", "cancellation", "proof"}
Live == {"Proposed", "ProposalExpired", "Accepted", "ActiveRecurring", "ProofSubmitted"}
Closed == {"Rejected", "Canceled", "RecoveryRequired", "InvalidConflict"}

ASSUME DerivationConstants ==
  /\ Recurring \subseteq Request
  /\ \A r \in Request : Expires[r] \in 1 .. Never
  /\ NoRequest \notin Request

\* proposal_expired
Expired(r, t) == Expires[r] # Never /\ t >= Expires[r]

\* PaymentRequestRecord::new; its terms are present once the role is known.
NewRecord == [state |-> "New", role |-> "none"]

----------------------------------------------------------------------------
(* Event IDs: the dedupe records of the stream, and reuse across sources. *)

\* The first item with the Event ID of item i, as in its EventDedupRecord.
First(items, i) == CHOOSE j \in 1 .. i :
  items[j].msg.id = items[i].msg.id /\ \A k \in 1 .. (j - 1) : items[k].msg.id # items[i].msg.id

\* Mutant: a repeated event is applied again.
Duplicates_None(items) == {}

\* duplicate_stream_item_ids and conflicting_stream_item_ids, of all records
Duplicates(items) == {i \in DOMAIN items : First(items, i) # i /\ items[First(items, i)].msg = items[i].msg}
Conflicts(items) == {i \in DOMAIN items : items[First(items, i)].msg # items[i].msg}

Stored(x, source, i, status) ==
  [msg |-> x.msg, at |-> x.at, source |-> source, order |-> i, status |-> status]

\* dedupe_stored_events: the events whose Event ID a spoiled item or an event
\* of a spoiled request has (a tainted entry), or an event of the other side.
dedupe_stored_events(all, tainted) ==
  {x \in all : x.msg.id \in tainted \/ \E y \in all \ {x} : y.msg.id = x.msg.id}

\* What derive_payment_request_records makes of the two logs: the
\* StoredPaymentRequestEvents, first the received ones and then the queued
\* ones, and the requests that are InvalidConflict whatever their events are.
\* An item spoils the request it names if it is malformed or if its Event ID
\* was used for something else.
Collected(items, sent) ==
  LET counted == DOMAIN items \ Duplicates(items)
      reusedIds == {items[i].msg.id : i \in Conflicts(items)}
      spoiled == {i \in counted : items[i].msg.id \in reusedIds \/ ~items[i].msg.valid}
      spoiledReqs == {items[i].msg.req : i \in spoiled} \ {NoRequest}
      received == [i \in DOMAIN items |-> Stored(items[i], "received", i, "none")]
      queued == [i \in DOMAIN sent |-> Stored(sent[i], "outbound", i, sent[i].status)]
      events == SelectSeq(received, LAMBDA x : x.order \in counted \ spoiled)
                \o SelectSeq(queued, LAMBDA x : x.msg.id \notin reusedIds)
      all == ToSet(events)
      tainted == {items[i].msg.id : i \in spoiled}
                 \cup {x.msg.id : x \in {y \in all : y.msg.req \in spoiledReqs}}
      overruled == {i \in DOMAIN sent : sent[i].msg.id \in reusedIds}
  IN  [events  |-> events,
       invalid |-> spoiledReqs \cup {x.msg.req : x \in dedupe_stored_events(all, tainted)}
                   \cup {sent[i].msg.req : i \in overruled}]

----------------------------------------------------------------------------
(* The order in which events are applied.                                 *)

Phase(x) == IF x.msg.kind = "request" THEN 0 ELSE 1

\* compare_stored_events(x, y) = Less
Before(x, y) ==
  IF x.source = y.source THEN x.order < y.order
  ELSE IF Phase(x) # Phase(y) THEN Phase(x) < Phase(y)
  ELSE x.at < y.at \/ (x.at = y.at /\ x.source = "received")

\* sort_by, which is an insertion sort for up to 20 events: an event moves to
\* the left past those it is before, and stops at the first that it is not.
Insert(sorted, x) ==
  LET stops == {i \in DOMAIN sorted : ~Before(x, sorted[i])}
  IN  InsertAt(sorted, Max({0} \cup stops) + 1, x)
Sorted(events) == FoldLeft(Insert, <<>>, events)

----------------------------------------------------------------------------
(* The lifecycle.                                                         *)

\* payer_action_source_allowed
FromPayer(rec, x) ==
  \/ rec.role = "Payer" /\ x.source = "outbound"
  \/ rec.role = "Payee" /\ x.source = "received"

\* Mutant: only the source of an event is looked at, not the record's state.
Allowed_AnyState(rec, x) ==
  IF x.msg.kind = "request" THEN rec.role = "none"
  ELSE IF x.msg.kind = "cancellation" THEN rec.role # "none" ELSE FromPayer(rec, x)

\* Whether the record's state and the event's source allow the event: the
\* conditions of apply_stored_event, one row for each kind.
Allowed(rec, x) ==
  CASE x.msg.kind = "request"      -> rec.role = "none"
    [] x.msg.kind = "acceptance"   -> FromPayer(rec, x) /\ ~Expired(x.msg.req, x.at) /\ rec.state = "Proposed"
    [] x.msg.kind = "rejection"    -> FromPayer(rec, x) /\ rec.state = "Proposed"
    [] x.msg.kind = "cancellation" -> rec.role # "none" /\ rec.state \notin Closed
    [] x.msg.kind = "proof"        -> FromPayer(rec, x) /\ rec.state \in {"Accepted", "ActiveRecurring"}

Reached(r, kind) ==
  CASE kind = "request"      -> "Proposed"
    [] kind = "acceptance"   -> IF r \in Recurring THEN "ActiveRecurring" ELSE "Accepted"
    [] kind = "rejection"    -> "Rejected"
    [] kind = "cancellation" -> "Canceled"
    [] kind = "proof"        -> IF r \in Recurring THEN "ActiveRecurring" ELSE "ProofSubmitted"

\* apply_stored_event: an event that is not allowed makes the record
\* InvalidConflict for good (mark_invalid_stored); one of our own that may or
\* may not have been sent makes it RecoveryRequired (touch_stored).
Apply(rec, x) ==
  IF rec.state = "InvalidConflict" \/ ~Allowed(rec, x) THEN [rec EXCEPT !.state = "InvalidConflict"]
  ELSE [state |-> IF x.status = "RecoveryRequired" THEN x.status ELSE Reached(x.msg.req, x.msg.kind),
        role  |-> IF x.msg.kind # "request" THEN rec.role
                  ELSE IF x.source = "received" THEN "Payer" ELSE "Payee"]

WithExpiry(rec, r, t) ==
  IF rec.state = "Proposed" /\ Expired(r, t) THEN [rec EXCEPT !.state = "ProposalExpired"] ELSE rec

InvalidRecord == [state |-> "InvalidConflict", role |-> "none"]

\* derive_payment_request_records, the record of request r at time t
Record(items, sent, r, t) ==
  LET c == Collected(items, sent)
      mine == SelectSeq(Sorted(c.events), LAMBDA x : x.msg.req = r)
  IN  IF r \in c.invalid THEN InvalidRecord
      ELSE WithExpiry(FoldLeft(Apply, NewRecord, mine), r, t)

\* derive_received_payment_request_records and apply_event: the stream alone,
\* in which only proposals and cancellations have a place.
ApplyReceived(rec, x) ==
  CASE rec.state = "New" /\ x.msg.kind = "request" -> [state |-> "Proposed", role |-> "Payer"]
    [] rec.state = "Proposed" /\ x.msg.kind = "cancellation" -> [rec EXCEPT !.state = "Canceled"]
    [] OTHER -> [rec EXCEPT !.state = "InvalidConflict"]
ReceivedRecord(items, r, t) ==
  LET c == Collected(items, <<>>)
      mine == SelectSeq(c.events, LAMBDA x : x.msg.req = r)
  IN  IF r \in c.invalid THEN InvalidRecord
      ELSE WithExpiry(FoldLeft(ApplyReceived, NewRecord, mine), r, t)

=============================================================================
