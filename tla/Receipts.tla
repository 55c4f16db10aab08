------------------------------ MODULE Receipts ------------------------------
(***************************************************************************)
(* One receipt, from its issuance to its retrieval.  The issuer prepares   *)
(* the receipt (prepare_receipt_issuance), puts the encrypted document at  *)
(* its Receipt Location and queues the Receipt Access that unlocks it      *)
(* (process_receipt_issuance).  The recipient indexes the accesses that    *)
(* arrive and fetches, decrypts and stores the receipt (retrieve_receipt). *)
(* No lease protects either side: calls overlap, and each writes back the  *)
(* copy of a record that it read before its network request.               *)
(*                                                                         *)
(* Preparing draws a fresh decryption key and a fresh Event ID.  The two   *)
(* go together, so a number stands for both and for the access record      *)
(* indexed under the Event ID.  The receipt ID is the caller's, so calls   *)
(* with the same ID may come with different drafts; a draft is known by    *)
(* its Payment Reference, its Payment Request and its Billing Period.      *)
(* Encryption is symbolic: a document opens with the key it was made with. *)
(* Delivery keeps the order and repeats nothing by itself (the private     *)
(* queue and stream are modelled in OutboundQueue and PrivateStream); an   *)
(* access queued twice arrives once per message and is dropped as a        *)
(* duplicate Event ID.                                                     *)
(***************************************************************************)
EXTENDS Naturals, Sequences, FiniteSetsExt

CONSTANTS
  Issuer,     \* overlapping calls that issue the receipt
  Retriever,  \* overlapping calls that retrieve it
  Drafts,     \* what callers ask to issue: [reference, request, period]
  MaxKey,     \* bound: how often the receipt is prepared
  MaxQueued   \* bound: accesses waiting for delivery

VARIABLES
  issuance,  \* the issuer's ReceiptIssuanceRecord; key = 0 when there is none
  document,  \* the encrypted receipt at the Receipt Location, or NoDocument
  outbox,    \* Receipt Accesses queued and not yet delivered
  prepared,  \* prepared[k]: the draft of the receipt prepared with key k
  issue,     \* issue[w]: a call of the issuer and the record it read
  arrived,   \* the recipient's access records, in the order they arrived
  conflicted, \* keys of the accesses whose Event ID came again with other content
  receipt,   \* the stored ReceiptRecord: its access key and its content, or NoReceipt
  retrieve   \* retrieve[w]: a call of the recipient and the records it read

issuerVars == <<issuance, document, outbox, prepared, issue>>
recipientVars == <<arrived, conflicted, receipt, retrieve>>
receiptVars == <<issuerVars, recipientVars>>

Key == 0..MaxKey
IssuanceStatus == {"PendingStorage", "Stored", "AccessQueued", "Failed"}
RetrievalStatus == {"Pending", "Retrieved", "NotFound", "Failed"}

\* A draft names a Billing Period only with the Payment Request it belongs to.
validate_request_context(draft) == draft.period => draft.request

\* encrypt_for_location of what was prepared with key k, and decrypt with a key: the result
\* is a set, empty when the key is not the one, or the content is not a valid receipt.
NoDocument == [key |-> 0]
encrypt_for_location(k) == [key |-> k, receipt |-> prepared[k]]
decrypt(encrypted, k) ==
  IF encrypted.key = k /\ validate_request_context(encrypted.receipt)
  THEN {encrypted.receipt} ELSE {}

\* stored: stored_at is present; queued: outbound_message_id and access_queued_at are.
\* error: last_error is present.
NoIssuance == [key |-> 0, status |-> "PendingStorage", stored |-> FALSE, queued |-> FALSE,
               error |-> FALSE]
from_prepared(k) == [NoIssuance EXCEPT !.key = k]
mark_stored(rec) == [rec EXCEPT !.status = "Stored", !.stored = TRUE, !.error = FALSE]
mark_access_queued(rec) == [rec EXCEPT !.status = "AccessQueued", !.queued = TRUE, !.error = FALSE]
mark_failed(rec) == [rec EXCEPT !.status = "Failed", !.error = TRUE]

\* The record holds the encrypted receipt and the access that opens it; a draft that comes
\* again under the receipt's ID is compared with what it opens to.
receipt_issuance_record_matches_draft(rec, draft) ==
  draft \in decrypt(encrypt_for_location(rec.key), rec.key)

IssueIdle == [pc |-> "idle", rec |-> NoIssuance]
IssueAt(w, step) == issue[w].pc = step
IssueGoto(w, step, rec) == issue' = [issue EXCEPT ![w] = [pc |-> step, rec |-> rec]]
IssueReturn(w) == issue' = [issue EXCEPT ![w] = IssueIdle]

----------------------------------------------------------------------------
(* prepare_receipt_issuance and issue_receipt                              *)

\* A valid draft gets a key of its own; what the key opens is the draft.
prepare_receipt_for_recipient(draft) ==
  /\ validate_request_context(draft)
  /\ Len(prepared) < MaxKey
  /\ prepared' = Append(prepared, draft)

\* A recorded receipt is processed again if the draft is the recorded one, and is an error
\* otherwise.  Without a record a valid draft is prepared, and the record built.
Prepare(w, draft) ==
  /\ IssueAt(w, "idle")
  /\ \/ /\ issuance.key # 0
        /\ receipt_issuance_record_matches_draft(issuance, draft)
        /\ IssueGoto(w, "process", NoIssuance)
        /\ UNCHANGED prepared
     \/ /\ issuance.key = 0
        /\ prepare_receipt_for_recipient(draft)
        /\ IssueGoto(w, "insert", from_prepared(Len(prepared) + 1))
  /\ UNCHANGED <<issuance, document, outbox, recipientVars>>

\* The record is saved unless another call saved one first, which is an error;
\* issue_receipt goes on to process it.
InsertIssuance(w) ==
  /\ IssueAt(w, "insert")
  /\ issuance' = IF issuance.key = 0 THEN issue[w].rec ELSE issuance
  /\ \/ IssueReturn(w)
     \/ issuance.key = 0 /\ IssueGoto(w, "process", NoIssuance)
  /\ UNCHANGED <<document, outbox, prepared, recipientVars>>

----------------------------------------------------------------------------
(* process_receipt_issuance                                                *)

\* The record is read; a stored document is not stored again.
Process(w) ==
  /\ IssueAt(w, "process") \/ IssueAt(w, "idle")
  /\ IF issuance.key = 0 \/ issuance.status = "AccessQueued" THEN IssueReturn(w)
     ELSE IssueGoto(w, IF issuance.stored THEN "enqueue" ELSE "put", issuance)
  /\ UNCHANGED <<issuance, document, outbox, prepared, recipientVars>>

\* A request that fails may have been carried out.
store_encrypted_receipt_json(w) ==
  /\ IssueAt(w, "put")
  /\ LET encrypted == encrypt_for_location(issue[w].rec.key) IN
     \/ document' = encrypted /\ IssueGoto(w, "saveStored", issue[w].rec)
     \/ document' \in {document, encrypted} /\ IssueGoto(w, "saveFailed", issue[w].rec)
  /\ UNCHANGED <<issuance, outbox, prepared, recipientVars>>

SaveStored(w) ==
  /\ IssueAt(w, "saveStored")
  /\ issuance' = mark_stored(issue[w].rec)
  /\ IssueGoto(w, "enqueue", mark_stored(issue[w].rec))
  /\ UNCHANGED <<document, outbox, prepared, recipientVars>>

\* Mutant: a failed upload is taken for a stored document by the next call.
SaveFailed_Stored(w) ==
  /\ IssueAt(w, "saveFailed")
  /\ issuance' = mark_failed(mark_stored(issue[w].rec))
  /\ IssueReturn(w)
  /\ UNCHANGED <<document, outbox, prepared, recipientVars>>

SaveFailed(w) ==
  /\ IssueAt(w, "saveFailed")
  /\ issuance' = mark_failed(issue[w].rec)
  /\ IssueReturn(w)
  /\ UNCHANGED <<document, outbox, prepared, recipientVars>>

\* The message and the record are saved in one transaction, or the storage fails.
enqueue_receipt_access_for_issuance(w) ==
  /\ IssueAt(w, "enqueue")
  /\ \/ /\ Len(outbox) < MaxQueued
        /\ outbox' = Append(outbox, issue[w].rec.key)
        /\ issuance' = mark_access_queued(issue[w].rec)
        /\ IssueReturn(w)
     \/ IssueGoto(w, "saveFailed", issue[w].rec) /\ UNCHANGED <<outbox, issuance>>
  /\ UNCHANGED <<document, prepared, recipientVars>>

IssuerStops(w) ==
  /\ ~IssueAt(w, "idle")
  /\ IssueReturn(w)
  /\ UNCHANGED <<issuance, document, outbox, prepared, recipientVars>>

\* A backup from before the receipt was prepared is restored, while no call runs.
RestoreIssuer ==
  /\ \A w \in Issuer : IssueAt(w, "idle")
  /\ issuance' = NoIssuance
  /\ outbox' = <<>>
  /\ UNCHANGED <<document, prepared, issue, recipientVars>>

----------------------------------------------------------------------------
(* The recipient                                                           *)

Arrived == {arrived[n].key : n \in DOMAIN arrived}
\* attempted, retrieved, error: retrieval_attempted_at, retrieved_at and
\* last_retrieval_error are present.
NewAccess(k) == [key |-> k, terms |-> prepared[k], status |-> "Pending", 
                 attempted |-> FALSE, retrieved |-> FALSE, error |-> FALSE]
mark_retrieved(a) ==
  [a EXCEPT !.status = "Retrieved", !.attempted = TRUE, !.retrieved = TRUE, !.error = FALSE]
mark_retrieval_error(a, status) ==
  [a EXCEPT !.status = status, !.attempted = TRUE, !.retrieved = FALSE, !.error = TRUE]
MarkedAccess(a, status) ==
  IF status = a.status THEN a
  ELSE IF status = "Retrieved" THEN mark_retrieved(a) ELSE mark_retrieval_error(a, status)
\* save_receipt_access_record of a copy: only the marks differ between copies.
SaveAccess(n, status) == [arrived EXCEPT ![n] = MarkedAccess(@, status)]

\* The next access is taken from the stream and indexed under its Event ID.
Arrive ==
  /\ outbox # <<>>
  /\ outbox' = Tail(outbox)
  /\ arrived' = IF Head(outbox) \in Arrived THEN arrived
                ELSE Append(arrived, NewAccess(Head(outbox)))
  /\ UNCHANGED <<issuance, document, prepared, issue, conflicted, receipt, retrieve>>

\* A later message with the Event ID of an access, and other content, is received:
\* update_event_dedupe records a conflict.
EventConflicts(k) ==
  /\ k \in Arrived \ conflicted
  /\ conflicted' = conflicted \cup {k}
  /\ UNCHANGED <<issuerVars, arrived, receipt, retrieve>>

\* ReceiptRecord::from_receipt
NoReceipt == [key |-> 0]
from_receipt(access, content) == [key |-> access.key, terms |-> content]

\* What an access says of the receipt must be what the receipt says.
validate_receipt_matches_access(access, content) == content = access.terms
receipt_record_matches_access(rec, access) ==
  rec.key = access.key /\ rec.terms = access.terms

decrypt_receipt_record_from_access(access, encrypted) ==
  {from_receipt(access, content) : content \in
     {c \in decrypt(encrypted, access.key) : validate_receipt_matches_access(access, c)}}

\* todo: where the accesses to try are among the ones that arrived; all: the accesses as read;
\* found: the outcome of the fetch; rec: the receipt it gave or that was stored before.
RetrieveIdle == [pc |-> "idle", todo |-> {}, all |-> {}, found |-> "none", rec |-> NoReceipt]
RetrieveAt(w, step) == retrieve[w].pc = step
RetrieveReturn(w) == retrieve' = [retrieve EXCEPT ![w] = RetrieveIdle]

\* retrieve_receipt reads the stored receipt and every access that has no conflict.
RetrieveReceipt(w) ==
  LET usable == {n \in DOMAIN arrived : arrived[n].key \notin conflicted} IN
  /\ RetrieveAt(w, "idle")
  /\ usable # {}
  /\ receipt.key \notin conflicted
  /\ retrieve' = [retrieve EXCEPT ![w] =
       [pc |-> IF receipt # NoReceipt THEN "reconcile" ELSE "fetch",
        todo |-> usable, all |-> {arrived[n] : n \in usable}, found |-> "none", rec |-> receipt]]
  /\ UNCHANGED <<issuerVars, arrived, conflicted, receipt>>

\* The newest access is tried first.
Newest(w) == Max(retrieve[w].todo)
Candidate(w) == arrived[Newest(w)]

\* The document is fetched and decrypted; the request may fail.
fetch_encrypted_receipt_json(w) ==
  LET opened == IF document = NoDocument THEN {}
                ELSE decrypt_receipt_record_from_access(Candidate(w), document)
      got(found, rec) == retrieve' = [retrieve EXCEPT ![w].found = found, ![w].rec = rec,
                                                      ![w].pc = "save"]
  IN
  /\ RetrieveAt(w, "fetch")
  /\ \/ \E rec \in opened : got("Retrieved", rec)
     \/ document = NoDocument /\ got("NotFound", NoReceipt)
     \/ got("Failed", NoReceipt)
  /\ UNCHANGED <<issuerVars, arrived, conflicted, receipt>>

\* save_receipt_retrieval_error, then the next older access
SaveRetrievalError(w) ==
  /\ RetrieveAt(w, "save") /\ retrieve[w].found # "Retrieved"
  /\ arrived' = SaveAccess(Newest(w), retrieve[w].found)
  /\ IF retrieve[w].todo = {Newest(w)} THEN RetrieveReturn(w)
     ELSE retrieve' = [retrieve EXCEPT ![w].pc = "fetch", ![w].todo = @ \ {Newest(w)}]
  /\ UNCHANGED <<issuerVars, conflicted, receipt>>

\* Mutant: the access is marked first, and the receipt saved later.
SaveReceipt_AccessOnly(w) ==
  /\ RetrieveAt(w, "save") /\ retrieve[w].found = "Retrieved"
  /\ arrived' = SaveAccess(Newest(w), "Retrieved")
  /\ retrieve' = [retrieve EXCEPT ![w].pc = "reconcile"]
  /\ UNCHANGED <<issuerVars, conflicted, receipt>>

\* The access and the receipt are saved in one transaction.
SaveReceipt(w) ==
  /\ RetrieveAt(w, "save") /\ retrieve[w].found = "Retrieved"
  /\ arrived' = SaveAccess(Newest(w), "Retrieved")
  /\ receipt' = retrieve[w].rec
  /\ retrieve' = [retrieve EXCEPT ![w].pc = "reconcile"]
  /\ UNCHANGED <<issuerVars, conflicted>>

\* What the call read before decides whether a record is written.
ReconciledStatus(w, access) ==
  LET read == {r \in retrieve[w].all : r.key = access.key}
      Matches(r) == receipt_record_matches_access(retrieve[w].rec, r)
  IN IF \E r \in read : Matches(r) /\ r.status # "Retrieved" THEN "Retrieved"
     ELSE IF \E r \in read : ~Matches(r) /\ r.status = "Pending" THEN "Failed"
     ELSE access.status

reconcile_cached_receipt_access_records(w) ==
  /\ RetrieveAt(w, "reconcile")
  /\ arrived' = [n \in DOMAIN arrived |-> MarkedAccess(arrived[n], ReconciledStatus(w, arrived[n]))]
  /\ RetrieveReturn(w)
  /\ UNCHANGED <<issuerVars, conflicted, receipt>>

RetrieverStops(w) ==
  /\ ~RetrieveAt(w, "idle")
  /\ RetrieveReturn(w)
  /\ UNCHANGED <<issuerVars, arrived, conflicted, receipt>>

----------------------------------------------------------------------------
ReceiptsInit ==
  /\ issuance = NoIssuance
  /\ document = NoDocument
  /\ outbox = <<>>
  /\ prepared = <<>>
  /\ issue = [w \in Issuer |-> IssueIdle]
  /\ arrived = <<>>
  /\ conflicted = {}
  /\ receipt = NoReceipt
  /\ retrieve = [w \in Retriever |-> RetrieveIdle]

ReceiptsNext ==
  \/ \E w \in Issuer :
       \/ \E draft \in Drafts : Prepare(w, draft)
       \/ InsertIssuance(w) \/ Process(w) \/ store_encrypted_receipt_json(w)
       \/ SaveStored(w) \/ SaveFailed(w) \/ enqueue_receipt_access_for_issuance(w)
       \/ IssuerStops(w)
  \/ RestoreIssuer
  \/ Arrive
  \/ \E k \in Key : EventConflicts(k)
  \/ \E w \in Retriever :
       \/ RetrieveReceipt(w) \/ fetch_encrypted_receipt_json(w) \/ SaveRetrievalError(w)
       \/ SaveReceipt(w) \/ reconcile_cached_receipt_access_records(w) \/ RetrieverStops(w)

ReceiptsSpec == ReceiptsInit /\ [][ReceiptsNext]_receiptVars

(* What a restore asks of the records.                                     *)

validate_receipt_issuance_status(rec) ==
  /\ rec.queued <=> rec.status = "AccessQueued"
  /\ rec.status = "PendingStorage" => ~rec.stored
  /\ rec.status \in {"Stored", "AccessQueued"} => rec.stored
  /\ rec.error <=> rec.status = "Failed"

\* A queued issuance names a Receipt Access in the outbound log, where messages stay
\* after they were delivered.  (The access and the encrypted receipt of a record are the
\* ones of its key: the payloads that the code compares agree by construction.)
validate_receipt_issuance_records ==
  issuance.key # 0 =>
    /\ validate_receipt_issuance_status(issuance)
    /\ issuance.queued => issuance.key \in Range(outbox) \cup Arrived

validate_receipt_access_retrieval_status(a) ==
  CASE a.status = "Pending" -> ~a.attempted /\ ~a.retrieved /\ ~a.error
    [] a.status = "Retrieved" -> a.attempted /\ a.retrieved /\ ~a.error
    [] OTHER -> a.attempted /\ ~a.retrieved /\ a.error

\* The stored receipt names an indexed access with its key.
validate_receipt_records ==
  receipt # NoReceipt => \E n \in DOMAIN arrived : receipt_record_matches_access(receipt, arrived[n])

\* What the issuance record claims is so, whichever overlapping call wrote it last: its
\* marks and the outbound log agree as validate_receipt_issuance_records demands, a
\* document recorded as stored is the one at the Receipt Location, and every queued
\* Receipt Access unlocks that document: overlapping calls of process_receipt_issuance,
\* lost answers and retries upload one and the same.
IssuanceIsTrue ==
  /\ \A n \in DOMAIN outbox : decrypt(document, outbox[n]) # {}
  /\ issuance.stored => document = encrypt_for_location(issuance.key)
  /\ validate_receipt_issuance_records

\* An access record is Retrieved only when a receipt is stored, and the stored receipt
\* names an indexed access with its key, as validate_receipt_records demands; late errors
\* of overlapping retrievals and their stale copies do not break this, nor the agreement
\* of the marks of an access with its status.
RetrievedHasReceipt ==
  /\ \A n \in DOMAIN arrived : validate_receipt_access_retrieval_status(arrived[n])
  /\ (\E n \in DOMAIN arrived : arrived[n].status = "Retrieved") => receipt # NoReceipt
  /\ validate_receipt_records

=============================================================================
