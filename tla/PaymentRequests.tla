-------------------------- MODULE PaymentRequests --------------------------
(***************************************************************************)
(* Two parties and the Payment Requests between them.  Each has its        *)
(* outbound queue, its private stream, its clock and its view of the link; *)
(* the app calls propose, accept, reject, cancel and submit proof, which   *)
(* load the derived record, check it, and queue an event in a later        *)
(* transaction.  Calls of one party overlap, the events of the two parties *)
(* cross on their way, and the clocks are not related and may be set back. *)
(*                                                                         *)
(* Sending and the recovery of the link are coarse here, their steps are   *)
(* those of OutboundQueue and LinkedPeer: what matters is that a message   *)
(* may be written and its status not be stored, that it is then written    *)
(* again, on a new link perhaps, and that what was not read when a link is *)
(* replaced is gone.  A party may also run other software, which writes    *)
(* events without these checks.                                            *)
(***************************************************************************)
EXTENDS RequestDerivation

CONSTANTS
  Party,     \* the two parties
  Payee,     \* Payee[r]: who proposes request r
  Caller,    \* the calls of the two apps that may overlap
  Strays,    \* events other software may write: [from, msg]
  MaxClock,  \* bound: the last value of a clock
  MaxQueue,  \* bound: messages a party ever queues
  MaxFault   \* bound: lost links, stray events, clocks set back

ASSUME RequestConstants ==
  /\ Cardinality(Party) = 2
  /\ Payee \in [Request -> Party]
  /\ {MaxClock, MaxQueue, MaxFault} \subseteq Nat
  /\ \A s \in Strays : s.from \in Party /\ s.msg.kind \in Kind /\ s.msg.req \in Request \cup {NoRequest}

VARIABLES
  sent,    \* sent[p]: the OutboundPrivateMessageRecords of p
  items,   \* items[p]: the PrivateStreamItemRecords of p
  now,     \* now[p]: the clock of p
  linked,  \* linked[p]: is the peer Linked, and not RecoveryRequired, for p?
  faults,  \* faults so far
  call,    \* call[c]: the call c is making, between its check and its event
  done     \* history: the call that has just queued its event, its check still true

vars == <<sent, items, now, linked, faults, call, done>>

Peer(p) == CHOOSE q \in Party : q # p
NoCall == [kind |-> "none"]

Init ==
  /\ sent = [p \in Party |-> <<>>]
  /\ items = [p \in Party |-> <<>>]
  /\ now = [p \in Party |-> 0]
  /\ linked = [p \in Party |-> TRUE]
  /\ faults = 0
  /\ call = [c \in Caller |-> NoCall]
  /\ done = NoCall

View(p, r) == Record(items[p], sent[p], r, now[p])

\* The messages about request r that p has queued, and that p has stored.
Queued(p, r) == {sent[p][i].msg : i \in {j \in DOMAIN sent[p] : sent[p][j].msg.req = r}}
Got(p, r) == {items[p][i].msg : i \in {j \in DOMAIN items[p] : items[p][j].msg.req = r}}
Known(p, r) == Queued(p, r) \cup Got(p, r)

----------------------------------------------------------------------------
(* The calls of the app.                                                  *)

\* enqueue_payment_request_event: a new Event ID, created now
Enqueue(p, kind, r) ==
  /\ Len(sent[p]) < MaxQueue
  /\ LET msg == [id |-> <<p, Len(sent[p]) + 1>>, kind |-> kind, req |-> r, valid |-> TRUE]
     IN  sent' = [sent EXCEPT ![p] = Append(@, [msg |-> msg, at |-> now[p], status |-> "Pending"])]

\* A session, a peer that allows automation, and a link snapshot.
ensure_private_outbound_ready(p) == linked[p]

\* propose_payment_request: a new Payment Request ID, so nobody has used it.
Propose(r) ==
  LET p == Payee[r]
  IN  /\ ensure_private_outbound_ready(p)
      /\ \A i \in DOMAIN sent[p] : sent[p][i].msg.req # r
      /\ Enqueue(p, "request", r)
      /\ UNCHANGED <<items, now, linked, faults, call>>

\* Mutant: whatever was accepted may be accepted, rejected or proved again.
MayCall_Again(rec, kind) ==
  /\ kind # "cancellation" => rec.role = "Payer"
  /\ rec.state \in Live

\* require_payer_role and require_state of accept_payment_request,
\* reject_payment_request, cancel_payment_request and submit_payment_proof
MayCall(rec, kind) ==
  /\ kind # "cancellation" => rec.role = "Payer"
  /\ rec.state \in CASE kind = "acceptance"   -> {"Proposed"}
                     [] kind = "rejection"    -> {"Proposed", "ProposalExpired"}
                     [] kind = "cancellation" -> Live
                     [] kind = "proof"        -> {"Accepted", "ActiveRecurring"}

\* While the peer needs recovery so does every request that is not over.
mark_recovery_required_payment_request_records(p, rec) ==
  IF linked[p] \/ rec.state \notin Live THEN rec ELSE [rec EXCEPT !.state = "RecoveryRequired"]

load_payment_request_record(p, r) == mark_recovery_required_payment_request_records(p, View(p, r))

\* A call up to its check, which is made of the loaded record, and
\* ensure_private_outbound_ready.
Load(p, r) ==
  LET rec == load_payment_request_record(p, r)
  IN  /\ ensure_private_outbound_ready(p)
      /\ \E c \in Caller, kind \in Kind \ {"request"} :
           /\ call[c] = NoCall
           /\ MayCall(rec, kind)
           /\ call' = [call EXCEPT ![c] = [by |-> p, kind |-> kind, req |-> r]]
      /\ UNCHANGED <<sent, items, now, linked, faults>>

\* The rest of the call: whatever has happened since, the event is queued.
Finish(c) ==
  /\ call[c] # NoCall
  /\ Enqueue(call[c].by, call[c].kind, call[c].req)
  /\ call' = [call EXCEPT ![c] = NoCall]
  /\ done' = IF MayCall(View(call[c].by, call[c].req), call[c].kind) THEN call[c] ELSE NoCall
  /\ UNCHANGED <<items, now, linked, faults>>

\* The process stops, or the call is dropped, between the two.
Drop(c) ==
  /\ call[c] # NoCall
  /\ call' = [call EXCEPT ![c] = NoCall]
  /\ UNCHANGED <<sent, items, now, linked, faults>>

----------------------------------------------------------------------------
(* Sending, receiving, the link.                                          *)

Open(p) == {i \in DOMAIN sent[p] : sent[p][i].status \in {"Pending", "Sending"}}

Fault == faults < MaxFault /\ faults' = faults + 1

\* The oldest open message is written, and the other party stores it in the
\* same step, as nothing tells a message that is not sent from one that is not
\* read; if its side of the link is gone, it never does.  The worker stores that
\* the message is Sent; or it meets an error that cannot be retried, at the first
\* attempt or after one that was written (RecoveryRequired); or it stops before
\* it stores either (Sending).  Until the link is lost the message is then
\* written to the same slot again, which nobody notices, so it is lost at once
\* here.
Send(p, status, read) ==
  LET i == Min(Open(p))
      q == Peer(p)
  IN  /\ linked[p] /\ Open(p) # {}
      /\ ~read => status = "RecoveryRequired"
      /\ items' = IF ~read \/ ~linked[q] THEN items
                  ELSE [items EXCEPT ![q] = Append(@, [msg |-> sent[p][i].msg, at |-> now[q]])]
      /\ sent' = [sent EXCEPT ![p][i].status = status]
      /\ linked' = [linked EXCEPT ![p] = status = "Sent"]
      /\ IF status = "Sent" THEN UNCHANGED faults ELSE Fault
      /\ UNCHANGED <<now, call>>

Stray(s) ==
  LET q == Peer(s.from)
  IN  /\ linked[q]
      /\ items' = [items EXCEPT ![q] = Append(@, [msg |-> s.msg, at |-> now[q]])]
      /\ Fault
      /\ UNCHANGED <<sent, now, linked, call>>

\* mark_recovery_required_with_lease, for any of its reasons
LoseLink(p) ==
  /\ linked[p]
  /\ linked' = [linked EXCEPT ![p] = FALSE]
  /\ Fault
  /\ UNCHANGED <<sent, items, now, call>>

\* The recovery of both sides up to the new link: the old slots are gone.
Relink ==
  /\ \E p \in Party : ~linked[p]
  /\ linked' = [p \in Party |-> TRUE]
  /\ UNCHANGED <<sent, items, now, faults, call>>

\* Clock::now is the wall clock, which may be set back.
SetClock(p, t) ==
  /\ t # now[p]
  /\ now' = [now EXCEPT ![p] = t]
  /\ IF t > now[p] THEN UNCHANGED faults ELSE Fault
  /\ UNCHANGED <<sent, items, linked, call>>

\* No call is running and nothing is left to send: the runtimes wait.
Quiet ==
  /\ \A c \in Caller : call[c] = NoCall
  /\ \A p \in Party : linked[p] /\ Open(p) = {}
  /\ UNCHANGED <<sent, items, now, linked, faults, call>>

Step ==
  \/ \E r \in Request : Propose(r) \/ \E p \in Party : Load(p, r)
  \/ \E c \in Caller : Drop(c)
  \/ \E p \in Party : \/ \E s \in {"Sent", "Sending", "RecoveryRequired"}, read \in BOOLEAN : Send(p, s, read)
                      \/ LoseLink(p)
                      \/ \E t \in 0 .. MaxClock : SetClock(p, t)
  \/ \E s \in Strays : Stray(s)
  \/ Relink
  \/ Quiet

Next ==
  \/ Step /\ done' = NoCall
  \/ \E c \in Caller : Finish(c)

Spec == Init /\ [][Next]_vars

----------------------------------------------------------------------------

(***************************************************************************)
(* Two parties that have the same events of a request agree on its state,  *)
(* or at least one of them sees that something is wrong (InvalidConflict   *)
(* or RecoveryRequired): crossing events, overlapping calls, redelivery    *)
(* and clocks that differ never leave one with Accepted and the other with *)
(* Rejected or Canceled, both unaware.  The order the two apply the events *)
(* in is not the same (derive_payment_request_records).                    *)
(***************************************************************************)
NoSilentDisagreement ==
  LET p == CHOOSE x \in Party : TRUE
      q == Peer(p)
  IN  \A r \in Request : Known(p, r) = Known(q, r) =>
        LET vp == Record(items[p], sent[p], r, 0).state
            vq == Record(items[q], sent[q], r, 0).state
        IN  vp = vq \/ {vp, vq} \cap {"InvalidConflict", "RecoveryRequired"} # {}

\* What makes a conflict: a stray event, a message that may or may not have been
\* sent, an event that was lost with its link before a later one was read, an
\* acceptance that came too late, a call made twice, or two decisions.
Foreign(p) == \E i \in DOMAIN items[p] : \A j \in DOMAIN sent[Peer(p)] : items[p][i].msg # sent[Peer(p)][j].msg
Unsure(p, r) == \E i \in DOMAIN sent[p] : sent[p][i].msg.req = r /\ sent[p][i].status = "RecoveryRequired"
Late(p, r) ==
  \/ \E i \in DOMAIN sent[p] : sent[p][i].msg.req = r /\ sent[p][i].msg.kind = "acceptance" /\ Expired(r, sent[p][i].at)
  \/ \E i \in DOMAIN items[p] : items[p][i].msg.req = r /\ items[p][i].msg.kind = "acceptance" /\ Expired(r, items[p][i].at)
Repeated(r, p) == \E m, n \in Known(p, r) : m # n /\ m.kind = n.kind
Decisions(r, p) == {m.kind : m \in Known(p, r)} \ {"request", "proof"}
Gap(p, r) ==
  \E m \in Got(p, r), n \in Queued(Peer(p), r) : n \notin Got(p, r) /\ n.id[1] = m.id[1] /\ n.id[2] < m.id[2]
Cause(p, r) ==
  \/ Foreign(p)
  \/ Unsure(p, r)
  \/ Gap(p, r)
  \/ Late(p, r) \/ Repeated(r, p) \/ Cardinality(Decisions(r, p)) > 1

(***************************************************************************)
(* A conflict has a cause in the events themselves: redelivery after a     *)
(* lost status, recovery of the link, clocks that are set back and events  *)
(* of other requests alone never turn a request into InvalidConflict.      *)
(***************************************************************************)
ConflictHasCause ==
  \A p \in Party, r \in Request : Cause(p, r) \/ View(p, r).state # "InvalidConflict"

\* The event of the call is not older than what was received.
InTime(x) ==
  \A i \in DOMAIN items[x.by] : items[x.by][i].msg.req = x.req => items[x.by][i].at <= Last(sent[x.by]).at

(***************************************************************************)
(* What a call checks is what the derivation will accept: if what the call *)
(* checked still holds when its event is queued, the record it loads then  *)
(* is where the caller meant to take it, and not InvalidConflict.  The     *)
(* states require_state allows and the transitions of apply_stored_event   *)
(* are two tables in two files.                                            *)
(***************************************************************************)
CallTakesEffect ==
  done # NoCall /\ ~Foreign(done.by) /\ InTime(done) =>
    View(done.by, done.req).state = Reached(done.req, done.kind)

\* Mutant: an expired proposal needs no response.
Actionable_NotExpired(p) ==
  {r \in Request : linked[p] /\ ReceivedRecord(items[p], r, now[p]).state = "Proposed"}

\* PaymentRequestFilter::matches, for the filter of actionable_received_payment_requests
matches(record) == record.state \in {"Proposed", "ProposalExpired"}

\* actionable_received_payment_requests
Actionable(p) == {r \in Request : linked[p] /\ matches(ReceivedRecord(items[p], r, now[p]))}

(***************************************************************************)
(* The list of requests that need the payer's response is complete: it is  *)
(* derived from the stream alone, by other rules than the record itself,   *)
(* and yet has every request the record shows as waiting for the payer.    *)
(***************************************************************************)
NeedsResponseIsListed ==
  \A r \in Request : LET payer == Peer(Payee[r]) IN
    linked[payer] /\ View(payer, r).state \in {"Proposed", "ProposalExpired"} => r \in Actionable(payer)

(***************************************************************************)
(* An accepted request that is cancelled is Canceled: if a proposal, its   *)
(* acceptance and a cancellation are all the events of a request, and the  *)
(* party that looks recorded the acceptance before the cancellation, that  *)
(* party derives no conflict.                                              *)
(***************************************************************************)
CanceledAfterAcceptance ==
  \A p \in Party, r \in Request :
    LET events == {Stored(sent[p][i], "outbound", i, sent[p][i].status) : i \in DOMAIN sent[p]}
                  \cup {Stored(items[p][i], "received", i, "none") : i \in DOMAIN items[p]}
        ofKind(kind) == {x \in events : x.msg.req = r /\ x.msg.kind = kind}
        earlier(x, y) == IF x.source = y.source THEN x.order < y.order ELSE x.at < y.at
    IN  /\ {m.kind : m \in Known(p, r)} = {"request", "acceptance", "cancellation"}
        /\ Cardinality(Known(p, r)) = 3 /\ ~Foreign(p) /\ ~Late(p, r) /\ ~Unsure(p, r)
        /\ \A x \in ofKind("acceptance"), y \in ofKind("cancellation") : earlier(x, y)
        => View(p, r).state = "Canceled"

=============================================================================
