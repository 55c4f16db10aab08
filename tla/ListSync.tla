------------------------------ MODULE ListSync ------------------------------
(***************************************************************************)
(* Bringing every peer's Private Payment List up to date:                  *)
(* sync_contact_private_payment_lists(_and_process_outbound) for the saved *)
(* contacts, and sync_private_payment_lists_with_reservations_and_         *)
(* process_outbound for the updates of the app (of which                   *)
(* clear_private_payment_list_and_process_outbound is a call with one      *)
(* empty update).  The sets of a sync are read once; the peers are then    *)
(* served one by one while links change and workers send.                  *)
(*                                                                         *)
(* Of a peer's outbound queue the latest list is kept, which a newer one   *)
(* supersedes before it is sent, and whether the head of the queue has to  *)
(* wait before the next attempt (OutboundQueue).  What an enqueue does     *)
(* with reservations is in Reservations.                                   *)
(***************************************************************************)
EXTENDS FiniteSets, FiniteSetsExt

CONSTANT ListPeer   \* counterparties with their receiver path

VARIABLES
  linking,        \* LinkedPeerRecord.state with its snapshots
  waiting,        \* the latest queued list not sent yet, "none" without one
  delayed,        \* the peers whose queue head waits: just failed, or being sent
  received,       \* the last list that reached the counterparty
  listSync,       \* the call
  disturbed       \* history: contacts, links or queues changed under the call

listVars == <<linking, waiting, delayed, received, listSync, disturbed>>

PeerList == {"none", "full", "empty"}
ListLinkState == {"NotReady", "Linking", "Linked"}
SyncIdle == [pc |-> "idle", kind |-> "updates", clear |-> FALSE, listed |-> [p \in {} |-> "full"],
             todo |-> {}, clears |-> {}, refused |-> {}, queued |-> {}, cleared |-> {},
             failed |-> {}, undelivered |-> {}, deliver |-> {}]

ListInit ==
  /\ linking = [p \in ListPeer |-> "NotReady"]
  /\ waiting = [p \in ListPeer |-> "none"]
  /\ delayed = {}
  /\ received = [p \in ListPeer |-> "none"]
  /\ listSync = SyncIdle
  /\ disturbed = FALSE

----------------------------------------------------------------------------
\* Mutant: everyone who is linked is cleared.
linked_private_counterparties_not_in_All(keep) == {p \in ListPeer : linking[p] = "Linked"}

linked_private_counterparties_not_in(keep) == {p \in ListPeer \ keep : linking[p] = "Linked"}

\* The lists wanted, the peers with more than one update, which are refused, and with
\* clear_unlisted_linked_peers the peers to clear.
BeginListSync(kind, listed, refused, clear) ==
  /\ listSync.pc = "idle"
  /\ listSync' = [SyncIdle EXCEPT !.pc = "queue", !.kind = kind, !.clear = clear, !.listed = listed,
                   !.todo = DOMAIN listed, !.refused = refused,
                   !.clears = IF clear THEN linked_private_counterparties_not_in(DOMAIN listed)
                              ELSE {}]
  /\ disturbed' = FALSE
  /\ UNCHANGED <<linking, waiting, delayed, received>>

\* sync_contact_private_payment_lists reads the saved contacts, whoever they are by now, and
\* the links in one transaction; the call may be for the queueing alone.
SyncContactLists(clear) ==
  \E kind \in {"contacts", "queueOnly"}, contacts \in SUBSET ListPeer :
    BeginListSync(kind, [p \in contacts |-> "full"], {}, clear)

\* The app's updates; several for one peer are all refused.
SyncUpdates(clear) ==
  \E peers \in SUBSET ListPeer : \E refused \in SUBSET peers : \E want \in [peers -> {"full", "empty"}] :
    BeginListSync("updates", want, refused, clear)

\* private_queue_readiness: a link, or a handshake that may still complete.
QueueReady(p) == linking[p] \in {"Linked", "Linking"}

Enqueued(p, list) == waiting' = [waiting EXCEPT ![p] = list]

\* A peer's list is queued, or fails to be (not ready, or an error of the payment adapter
\* or the storage); the report has the peer either way.
QueueFor(p, list) ==
  \/ /\ p \notin listSync.refused
     /\ QueueReady(p)
     /\ Enqueued(p, list)
     /\ listSync' = IF list = "full"
                    THEN [listSync EXCEPT !.todo = @ \ {p}, !.queued = @ \cup {p}]
                    ELSE [listSync EXCEPT !.todo = @ \ {p}, !.clears = @ \ {p}, !.cleared = @ \cup {p}]
  \/ /\ listSync' = [listSync EXCEPT !.todo = @ \ {p}, !.clears = @ \ {p}, !.failed = @ \cup {p}]
     /\ UNCHANGED waiting

\* One listed peer; one of several updates for it is refused.
QueueUpdate(p) ==
  /\ listSync.pc = "queue"
  /\ p \in listSync.todo
  /\ QueueFor(p, listSync.listed[p])
  /\ UNCHANGED <<linking, delayed, received, disturbed>>

\* clear_private_payment_list for one unlisted peer, after every listed one.
ClearUnlisted(p) ==
  /\ listSync.pc = "queue"
  /\ listSync.todo = {}
  /\ p \in listSync.clears
  /\ QueueFor(p, "empty")
  /\ UNCHANGED <<linking, delayed, received, disturbed>>

\* A peer that is linked and whose queue head can be sent, or that has a reservation of a
\* list that was given up (cleanup).
pending_outbound_private_counterparties(cleanup) ==
  {p \in cleanup \cup {x \in ListPeer \ delayed : waiting[x] # "none"} : linking[p] = "Linked"}

\* The updates serve the peers they queued for, the contacts every peer that is pending.
Recipients(cleanup) ==
  CASE listSync.kind = "updates" -> listSync.queued \cup listSync.cleared
    [] listSync.kind = "contacts" -> pending_outbound_private_counterparties(cleanup)
    [] listSync.kind = "queueOnly" -> {}

StartDelivery ==
  /\ listSync.pc = "queue"
  /\ listSync.todo = {} /\ listSync.clears = {}
  /\ \E cleanup \in SUBSET ListPeer :
       listSync' = [listSync EXCEPT !.pc = "deliver", !.deliver = Recipients(cleanup)]
  /\ UNCHANGED <<linking, waiting, delayed, received, disturbed>>

\* process_outbound_private_messages sends what waits, unless its head has to wait ...
Sent(p) ==
  /\ linking[p] = "Linked"
  /\ IF p \in delayed THEN UNCHANGED <<waiting, received>>
     ELSE /\ waiting' = [waiting EXCEPT ![p] = "none"]
          /\ received' = [received EXCEPT ![p] = IF waiting[p] = "none" THEN @ ELSE waiting[p]]
  /\ UNCHANGED delayed

\* ... or fails, and the head waits if it was attempted.
NotSent(p) ==
  /\ delayed' \in {delayed, IF waiting[p] = "none" THEN delayed ELSE delayed \cup {p}}
  /\ UNCHANGED <<waiting, received>>

\* For an update private_list_delivery_ready comes first: a handshake in progress is passed
\* over.
DeliverTo(p) ==
  /\ listSync.pc = "deliver"
  /\ p \in listSync.deliver
  /\ \/ /\ Sent(p)
        /\ listSync' = [listSync EXCEPT !.deliver = @ \ {p}]
     \/ /\ listSync.kind = "updates" /\ linking[p] = "Linking"
        /\ listSync' = [listSync EXCEPT !.deliver = @ \ {p}]
        /\ UNCHANGED <<waiting, delayed, received>>
     \/ /\ NotSent(p)
        /\ listSync' = [listSync EXCEPT !.deliver = @ \ {p}, !.undelivered = @ \cup {p}]
  /\ UNCHANGED <<linking, disturbed>>

FinishListSync ==
  /\ listSync.pc = "deliver"
  /\ listSync.deliver = {}
  /\ listSync' = [listSync EXCEPT !.pc = "report"]
  /\ UNCHANGED <<linking, waiting, delayed, received, disturbed>>

TakeReport ==
  /\ listSync.pc = "report"
  /\ listSync' = SyncIdle
  /\ UNCHANGED <<linking, waiting, delayed, received, disturbed>>

----------------------------------------------------------------------------
(* Around the call.                                                       *)

LinkChanges(p, state) ==
  /\ state # linking[p]
  /\ linking' = [linking EXCEPT ![p] = state]
  /\ disturbed' = TRUE
  /\ UNCHANGED <<waiting, delayed, received, listSync>>

\* An outbound worker serves a peer of its own accord.
WorkerDelivers(p) ==
  /\ linking[p] = "Linked" /\ waiting[p] # "none" /\ p \notin delayed
  /\ Sent(p) \/ NotSent(p)
  /\ UNCHANGED <<linking, listSync, disturbed>>

\* The backoff, or the time another worker has for its send, is over.
HeadIsDue(p) ==
  /\ p \in delayed
  /\ delayed' = delayed \ {p}
  /\ UNCHANGED <<linking, waiting, received, listSync, disturbed>>

ListNext ==
  \/ \E clear \in BOOLEAN : SyncContactLists(clear) \/ SyncUpdates(clear)
  \/ \E p \in ListPeer :
       \/ QueueUpdate(p) \/ ClearUnlisted(p) \/ DeliverTo(p)
       \/ WorkerDelivers(p) \/ HeadIsDue(p)
       \/ \E s \in ListLinkState : LinkChanges(p, s)
  \/ StartDelivery \/ FinishListSync \/ TakeReport

ListSpec == ListInit /\ [][ListNext]_listVars

----------------------------------------------------------------------------

\* What the counterparty has, or will have once its queue is served.
LatestFor(p) == IF waiting[p] # "none" THEN waiting[p] ELSE received[p]

(***************************************************************************)
(* A sync that reports no failure, under which no link changed, has done   *)
(* what it says: every linked peer that was listed has the list wanted for *)
(* it, and with clear_unlisted_linked_peers every other linked peer has an *)
(* empty one, or has it as the last of its queue; whatever was queued      *)
(* before, whoever else sent in between.                                   *)
(***************************************************************************)
CleanSyncArrives ==
  listSync.pc = "report" /\ ~disturbed /\ listSync.failed = {} /\ listSync.undelivered = {} =>
    \A p \in ListPeer :
      linking[p] = "Linked" =>
        /\ p \in DOMAIN listSync.listed => LatestFor(p) = listSync.listed[p]
        /\ p \notin DOMAIN listSync.listed /\ listSync.clear => LatestFor(p) = "empty"

=============================================================================
