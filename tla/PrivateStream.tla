--------------------------- MODULE PrivateStream ---------------------------
(***************************************************************************)
(* Receiving private messages from one counterparty receiver: the workers  *)
(* of receive_private_messages read the slots after the checkpoint of      *)
(* their link snapshot, classify what they read, and store the stream      *)
(* items, the Event ID dedupe records, the Receipt Access records and the  *)
(* new checkpoint in one transaction under the lease.                      *)
(*                                                                         *)
(* A message has a kind, an Event ID if its kind carries one and it could  *)
(* be parsed, a body (the bytes that payload_hash tells apart), whether it *)
(* is valid, and, for Receipt Access, whether its location is in the       *)
(* folder of the receiver it came from.  The loss and the recovery of the  *)
(* link are coarse here; their steps are those of LinkedPeer.              *)
(***************************************************************************)
EXTENDS PeerLease, Sequences

CONSTANTS
  Messages,   \* the messages the counterparty may send
  MaxSlot,    \* bound: messages per link
  MaxEpoch    \* bound: links ever established

Kind == {"list", "request", "access", "other"}
NoEvent == "none"
EventIds == {m.event : m \in Messages} \ {NoEvent}

ASSUME StreamConstants ==
  /\ \A m \in Messages :
       /\ m.kind \in Kind
       /\ m.valid \in BOOLEAN
       /\ m.here \in BOOLEAN
       /\ m.kind \in {"list", "other"} => m.event = NoEvent
       /\ m.kind = "access" /\ m.valid => m.event # NoEvent
       /\ \A n \in Messages : m.body = n.body => m = n
  /\ MaxSlot \in Nat
  /\ MaxEpoch \in Nat \ {0}

VARIABLES
  link,     \* the stored link snapshot
  epochs,   \* the links established so far
  inbox,    \* what the counterparty wrote to the slots of the last link
  items,    \* the PrivateStreamItemRecords, by stream_item_id
  batches,  \* receive batches stored so far
  dedup,    \* dedup[e]: EventDedupRecord of event e, first = 0 for none
  access,   \* access[e]: the item and the batch of the ReceiptAccessRecord, NoAccess for none
  pc,       \* pc[w]: the next step of worker w
  job       \* job[w]: its snapshot, and what it has read with it

streamVars == <<items, batches, dedup, access>>
receiveVars == <<leaseVars, link, epochs, inbox, streamVars, pc, job>>

NoLink == [epoch |-> 0, rcvd |-> 0]
NewLink(e) == [epoch |-> e, rcvd |-> 0]
HasLink(l) == l.epoch # 0
NoDedup == [first |-> 0, kind |-> "none", body |-> 0, duplicates |-> {}, conflicts |-> {}]
NoAccess == [item |-> 0, batch |-> 0]
NoJob == [link |-> NoLink, read |-> <<>>]
FirstStep == [receive |-> "restore", relink |-> "saveLink"]
Step == DOMAIN FirstStep \cup {"idle", "restore", "read", "persist", "mark", "saveLink", "release"}

ReceiveInit ==
  /\ LeaseInit
  /\ link = NewLink(1)
  /\ epochs = 1
  /\ inbox = <<>>
  /\ items = <<>>
  /\ batches = 0
  /\ dedup = [e \in EventIds |-> NoDedup]
  /\ access = [e \in EventIds |-> NoAccess]
  /\ pc = [w \in Worker |-> "idle"]
  /\ job = [w \in Worker |-> NoJob]

Goto(w, p) == pc' = [pc EXCEPT ![w] = p]

----------------------------------------------------------------------------
(* Classification and dedupe of one message.                              *)

\* classify_private_application_message, enforce_receipt_access_receiver_scope
OutOfScope(m) == m.kind = "access" /\ m.valid /\ ~m.here
Classify(m) ==
  [status |-> IF m.kind = "other" THEN "Unknown"
              ELSE IF m.valid /\ ~OutOfScope(m) THEN "Valid" ELSE "Malformed",
   event  |-> IF OutOfScope(m) THEN NoEvent ELSE m.event,
   access |-> m.kind = "access" /\ m.valid /\ m.here]

\* Mutant: any reuse counts as a duplicate.
Deduped_NoConflict(d, i, m) ==
  IF d.first = 0 THEN [NoDedup EXCEPT !.first = i, !.kind = m.kind, !.body = m.body]
  ELSE [d EXCEPT !.duplicates = @ \cup {i}]

\* update_event_dedupe: payload hashes are compared with the recorded one, the first
\* message's.
Deduped(d, i, m) ==
  IF d.first = 0 THEN [NoDedup EXCEPT !.first = i, !.kind = m.kind, !.body = m.body]
  ELSE IF d.body = m.body THEN [d EXCEPT !.duplicates = @ \cup {i}]
  ELSE [d EXCEPT !.conflicts = @ \cup {i}]

\* The body of the loop over the messages of a batch.
Intake(st, r) ==
  LET c == Classify(r.msg)
      i == Len(st.items) + 1
      e == c.event
      new == [slot |-> r.slot, epoch |-> r.epoch, msg |-> r.msg, status |-> c.status,
              batch |-> batches + 1]
  IN  IF e = NoEvent THEN [st EXCEPT !.items = Append(@, new)]
      ELSE [items  |-> Append(st.items, new),
            dedup  |-> [st.dedup EXCEPT ![e] = Deduped(@, i, r.msg)],
            access |-> IF c.access /\ st.dedup[e].first = 0
                       THEN [st.access EXCEPT ![e] = [item |-> i, batch |-> batches + 1]]
                       ELSE st.access]

\* The stream, the dedupe and the access records after a batch.
AfterBatch(read) ==
  LET st[k \in 0 .. Len(read)] ==
        IF k = 0 THEN [items |-> items, dedup |-> dedup, access |-> access]
        ELSE Intake(st[k - 1], read[k])
  IN  st[Len(read)]

----------------------------------------------------------------------------
(* The frame of an operation.                                             *)

\* receive_private_messages needs a linked peer; ensure_link_with_peer does not.
Begin(w, o) ==
  /\ pc[w] = "idle"
  /\ o = "receive" => HasLink(link)
  /\ Goto(w, o)
  /\ UNCHANGED <<leaseVars, link, epochs, inbox, streamVars, job>>

Claim(w) ==
  /\ pc[w] \in DOMAIN FirstStep
  /\ ClaimLease(w)
  /\ Goto(w, FirstStep[pc[w]])
  /\ UNCHANGED <<link, epochs, inbox, streamVars, job>>

ClaimRefused(w) ==
  /\ pc[w] \in DOMAIN FirstStep
  /\ LeaseLive
  /\ Goto(w, "idle")
  /\ UNCHANGED <<leaseVars, link, epochs, inbox, streamVars, job>>

Release(w) ==
  /\ pc[w] = "release"
  /\ ReleaseLease(w)
  /\ Goto(w, "idle")
  /\ job' = [job EXCEPT ![w] = NoJob]
  /\ UNCHANGED <<link, epochs, inbox, streamVars>>

Crash(w) ==
  /\ pc[w] # "idle"
  /\ DropLease(w)
  /\ Goto(w, "idle")
  /\ job' = [job EXCEPT ![w] = NoJob]
  /\ UNCHANGED <<link, epochs, inbox, streamVars>>

----------------------------------------------------------------------------
(* receive_private_messages_with_claim                                    *)

Restore(w) ==
  /\ pc[w] = "restore"
  /\ job' = [job EXCEPT ![w].link = link]
  /\ Goto(w, IF HasLink(link) THEN "read" ELSE "mark")
  /\ UNCHANGED <<leaseVars, link, epochs, inbox, streamVars>>

\* The next slot of the worker's link, if the counterparty still uses it.
Available(w) == job[w].link.epoch = epochs /\ Len(inbox) > job[w].link.rcvd

\* receive_private_application_messages goes on until nothing is left.
Read(w) ==
  /\ pc[w] = "read"
  /\ Available(w)
  /\ LET s == job[w].link.rcvd + 1
         r == [slot |-> s, epoch |-> epochs, msg |-> inbox[s]]
     IN  job' = [job EXCEPT ![w].link.rcvd = s, ![w].read = Append(@, r)]
  /\ UNCHANGED <<leaseVars, link, epochs, inbox, streamVars, pc>>

ReadAll(w) ==
  /\ pc[w] = "read"
  /\ ~Available(w)
  /\ Goto(w, "persist")
  /\ UNCHANGED <<leaseVars, link, epochs, inbox, streamVars, job>>

\* The snapshot cannot be restored or a message not be decrypted ("mark"), or
\* the homeserver fails ("release"); what was read is forgotten.
ReceiveFails(w, next) ==
  /\ pc[w] = "read"
  /\ Goto(w, next)
  /\ job' = [job EXCEPT ![w] = NoJob]
  /\ UNCHANGED <<leaseVars, link, epochs, inbox, streamVars>>

\* Mutant: the batch is stored whoever holds the lease, the checkpoint is not.
Persist_ItemsFirst(w) ==
  LET st == AfterBatch(job[w].read)
  IN  /\ pc[w] = "persist"
      /\ items' = st.items
      /\ dedup' = st.dedup
      /\ access' = st.access
      /\ batches' = batches + 1
      /\ link' = IF HoldsLease(w) THEN job[w].link ELSE link
      /\ Goto(w, "release")
      /\ UNCHANGED <<leaseVars, epochs, inbox, job>>

\* persist_private_stream_batch_with_link_lease: one transaction, undone as a
\* whole when the lease check at its end fails.
Persist(w) ==
  LET st == AfterBatch(job[w].read)
  IN  /\ pc[w] = "persist"
      /\ IF HoldsLease(w)
         THEN /\ items' = st.items
              /\ dedup' = st.dedup
              /\ access' = st.access
              /\ batches' = batches + 1
              /\ link' = job[w].link
         ELSE UNCHANGED <<streamVars, link>>
      /\ Goto(w, "release")
      /\ UNCHANGED <<leaseVars, epochs, inbox, job>>

\* mark_recovery_required_with_lease
Mark(w) ==
  /\ pc[w] = "mark"
  /\ link' = IF HoldsLease(w) THEN NoLink ELSE link
  /\ Goto(w, "release")
  /\ UNCHANGED <<leaseVars, epochs, inbox, streamVars, job>>

----------------------------------------------------------------------------
(* The counterparty, a new link, time.                                    *)

Send(m) ==
  /\ Len(inbox) < MaxSlot
  /\ inbox' = Append(inbox, m)
  /\ UNCHANGED <<leaseVars, link, epochs, streamVars, pc, job>>

\* A sender that gave up a list writes another message to its slot.
Rewrite(s, m) ==
  /\ inbox[s].kind = "list"
  /\ inbox' = [inbox EXCEPT ![s] = m]
  /\ UNCHANGED <<leaseVars, link, epochs, streamVars, pc, job>>

\* A handshake completes and the link is stored, if there was none.
SaveLink(w) ==
  /\ pc[w] = "saveLink"
  /\ IF HoldsLease(w) /\ ~HasLink(link) /\ epochs < MaxEpoch
     THEN /\ epochs' = epochs + 1
          /\ link' = NewLink(epochs + 1)
          /\ inbox' = <<>>
     ELSE UNCHANGED <<epochs, link, inbox>>
  /\ Goto(w, "release")
  /\ UNCHANGED <<leaseVars, streamVars, job>>

Tick == AdvanceClock /\ UNCHANGED <<link, epochs, inbox, streamVars, pc, job>>

WorkerStep(w) ==
  \/ Claim(w) \/ ClaimRefused(w) \/ Release(w)
  \/ Restore(w) \/ Read(w) \/ ReadAll(w) \/ ReceiveFails(w, "release") \/ ReceiveFails(w, "mark")
  \/ Persist(w) \/ Mark(w) \/ SaveLink(w)

\* No call is running: the runtime waits for the app.
Quiet == (\A w \in Worker : pc[w] = "idle") /\ UNCHANGED receiveVars

ReceiveNext ==
  \/ \E w \in Worker : (\E o \in DOMAIN FirstStep : Begin(w, o)) \/ WorkerStep(w) \/ Crash(w)
  \/ \E m \in Messages : Send(m) \/ \E s \in DOMAIN inbox : Rewrite(s, m)
  \/ Tick
  \/ Quiet

ReceiveSpec == ReceiveInit /\ [][ReceiveNext]_receiveVars

----------------------------------------------------------------------------
(* What a restore asks of the stream and of its indexes; the records are   *)
(* those of one peer.                                                      *)

\* The stored classification is the one the raw message still has.
validate_private_stream_items == \A i \in DOMAIN items : items[i].status = Classify(items[i].msg).status

\* No stream item is in an EventDedupRecord twice.
validate_event_dedup_membership(d) ==
  /\ d.first \notin d.duplicates \cup d.conflicts
  /\ d.duplicates \cap d.conflicts = {}

validate_event_dedup_stream_item(e, i, same) ==
  /\ i \in DOMAIN items
  /\ Classify(items[i].msg).event = e
  /\ IF same THEN items[i].msg.kind = dedup[e].kind /\ items[i].msg.body = dedup[e].body
     ELSE items[i].msg.body # dedup[e].body

validate_event_dedup_records ==
  \A e \in EventIds : dedup[e].first # 0 =>
    /\ validate_event_dedup_membership(dedup[e])
    /\ \A i \in {dedup[e].first} \cup dedup[e].duplicates : validate_event_dedup_stream_item(e, i, TRUE)
    /\ \A i \in dedup[e].conflicts : validate_event_dedup_stream_item(e, i, FALSE)

validate_receipt_access_records ==
  \A e \in EventIds : access[e] # NoAccess =>
    /\ access[e].item \in DOMAIN items
    /\ LET item == items[access[e].item]
       IN  /\ item.batch = access[e].batch
           /\ item.msg.kind = "access" /\ item.msg.valid /\ item.msg.here
           /\ item.msg.event = e

event_dedup_record_contains(d, i) ==
  \/ i \in {d.first} \cup d.duplicates /\ items[i].msg.kind = d.kind /\ items[i].msg.body = d.body
  \/ i \in d.conflicts /\ items[i].msg.body # d.body

validate_required_private_stream_indexes ==
  \A i \in DOMAIN items :
    LET c == Classify(items[i].msg)
    IN  c.event # NoEvent =>
          /\ event_dedup_record_contains(dedup[c.event], i)
          /\ c.access /\ dedup[c.event].first = i => access[c.event] # NoAccess

----------------------------------------------------------------------------

\* The slots of a link that are in the stream.
SlotsOf(e) == {items[i].slot : i \in {j \in DOMAIN items : items[j].epoch = e}}

(***************************************************************************)
(* The stored stream has every slot of every link once and in order, up to *)
(* the checkpoint of the stored link: a batch and its checkpoint are one   *)
(* transaction, and a worker that was replaced stores neither, although    *)
(* both read the same slots.                                               *)
(***************************************************************************)
StreamMatchesCheckpoint ==
  /\ \A i, j \in DOMAIN items :
       i < j /\ items[i].epoch = items[j].epoch => items[i].slot < items[j].slot
  /\ \A e \in 1 .. epochs : \A s \in SlotsOf(e) : s > 0 /\ 1 .. s \subseteq SlotsOf(e)
  /\ HasLink(link) => SlotsOf(link.epoch) = 1 .. link.rcvd

(***************************************************************************)
(* What receive_private_messages stores can be backed up and restored at   *)
(* any moment: whatever arrived, in whatever batches, over whichever links *)
(* and beside whichever other worker, the stream items, the dedupe records *)
(* and the Receipt Access records pass every check that a restore makes of *)
(* them, each from its own side.                                           *)
(***************************************************************************)
StreamIsRestorable ==
  /\ validate_private_stream_items
  /\ validate_event_dedup_records
  /\ validate_receipt_access_records
  /\ validate_required_private_stream_indexes

=============================================================================
