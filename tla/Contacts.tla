------------------------------ MODULE Contacts ------------------------------
(***************************************************************************)
(* The local record of one contact and its public contact markers: the     *)
(* documents that publish_public_contact puts on the own homeserver, one   *)
(* per receiver path of the contact.  No lock protects them.  A storage    *)
(* transaction is one action and a request to the homeserver is one        *)
(* action, so calls interleave and a caller may stop between any two       *)
(* steps.  A request that fails may have been carried out all the same.    *)
(*                                                                         *)
(* Data left out: the label, the cached profile and the times of creation  *)
(* and change, which no guard reads.  A time stamp or an error text that   *)
(* is only tested for presence is a Boolean.                               *)
(***************************************************************************)
EXTENDS Naturals

CONSTANTS
  Receiver,  \* receiver paths of the contact
  Caller,    \* concurrent calls of the contact methods
  NoPath     \* public_contact_marker_receiver_path is None

VARIABLES
  contact,  \* ContactRecord, or NoContact
  markers,  \* receiver paths that have a marker document on the homeserver
  sharing,  \* public_contact_sharing = ConfiguredPublicNamespace
  call      \* call[c]: the step caller c is at, with the receiver path

contactVars == <<contact, markers, sharing, call>>

MarkerStatus == {"NotPublished", "PendingPublication", "Published", "PendingRemoval",
                 "Removed", "Failed"}

NoContact == [paths |-> {}, status |-> "None", at |-> NoPath,
              published |-> FALSE, removed |-> FALSE, error |-> FALSE]
Saved == contact # NoContact

CallStep == {"idle", "publish", "put", "recordPublished", "recordFailed",
             "remove", "pendRemoval", "delete", "recordRemoved"}
Idle == [pc |-> "idle", path |-> NoPath, had |-> FALSE]
At(c, step) == call[c].pc = step
Return(c) == call' = [call EXCEPT ![c] = Idle]
Continue(c, step) == call' = [call EXCEPT ![c].pc = step]

(***************************************************************************)
(* The record's own transitions.                                           *)
(***************************************************************************)
FromUpdate(existing, paths) ==
  IF existing = NoContact
  THEN [NoContact EXCEPT !.paths = paths, !.status = "NotPublished"]
  ELSE [existing EXCEPT !.paths = paths]

PublicationPending(rec, path) ==
  [rec EXCEPT !.status = "PendingPublication", !.at = path, !.error = FALSE]

MarkPublished(rec) ==
  [rec EXCEPT !.status = "Published", !.published = TRUE, !.removed = FALSE, !.error = FALSE]

RemovalPending(rec, path) ==
  [rec EXCEPT !.status = "PendingRemoval", !.at = path, !.error = FALSE]

MarkRemoved(rec) ==
  [rec EXCEPT !.status = "Removed", !.at = NoPath, !.published = FALSE,
              !.removed = TRUE, !.error = FALSE]

MarkFailed(rec) == [rec EXCEPT !.status = "Failed", !.error = TRUE]

CanRemoveLocally(rec) == rec.status \in {"NotPublished", "Removed"}

MayHavePublicMarker(rec) ==
  \/ rec.status \in {"PendingPublication", "PendingRemoval", "Published"}
  \/ rec.published /\ ~rec.removed

(***************************************************************************)
(* Calls that are one transaction.                                         *)
(***************************************************************************)
SaveContact(paths) ==
  /\ ~(contact.at # NoPath /\ MayHavePublicMarker(contact) /\ contact.at \notin paths)
  /\ contact' = FromUpdate(contact, paths)
  /\ UNCHANGED <<markers, sharing, call>>

RemoveContact ==
  /\ Saved
  /\ CanRemoveLocally(contact)
  /\ contact' = NoContact
  /\ UNCHANGED <<markers, sharing, call>>

\* The application restarts with another policy.
Reconfigure ==
  /\ \A c \in Caller : At(c, "idle")
  /\ sharing' = ~sharing
  /\ UNCHANGED <<contact, markers, call>>

(***************************************************************************)
(* publish_public_contact                                                  *)
(***************************************************************************)
\* The first transaction, for a call from the application or from the sync.
Publish(c, path) ==
  IF sharing /\ Saved /\ path \in contact.paths
  THEN /\ contact' = PublicationPending(contact, path)
       /\ call' = [call EXCEPT ![c] = [pc |-> "put", path |-> path, had |-> TRUE]]
       /\ UNCHANGED <<markers, sharing>>
  ELSE Return(c) /\ UNCHANGED <<contact, markers, sharing>>

PublishPublicContact(c, path) == At(c, "idle") /\ Publish(c, path)
PublishPending(c) == At(c, "publish") /\ Publish(c, call[c].path)

PutMarker(c) ==
  /\ At(c, "put")
  /\ \/ markers' = markers \cup {call[c].path} /\ Continue(c, "recordPublished")
     \/ markers' \in {markers, markers \cup {call[c].path}} /\ Continue(c, "recordFailed")
  /\ UNCHANGED <<contact, sharing>>

RecordPublished(c) ==
  /\ At(c, "recordPublished")
  /\ contact' = IF Saved THEN MarkPublished(contact) ELSE contact
  /\ Return(c)
  /\ UNCHANGED <<markers, sharing>>

\* mark_public_contact_failed, of a publication, a removal or a disabled policy
RecordFailed(c) ==
  /\ At(c, "recordFailed")
  /\ contact' = IF Saved THEN MarkFailed(contact) ELSE contact
  /\ Return(c)
  /\ UNCHANGED <<markers, sharing>>

(***************************************************************************)
(* remove_public_contact                                                   *)
(***************************************************************************)
\* The record is read; what was read decides how the call goes on.
remove_public_contact(c, path) ==
  /\ CASE MayHavePublicMarker(contact) /\ contact.at = path ->
            call' = [call EXCEPT ![c] = [pc |-> "pendRemoval", path |-> path, had |-> TRUE]]
       [] MayHavePublicMarker(contact) /\ contact.at # path -> Return(c)
       [] OTHER ->
            call' = [call EXCEPT ![c] = [pc |-> "delete", path |-> path, had |-> Saved]]
  /\ UNCHANGED <<contact, markers, sharing>>

RemovePublicContact(c, path) == At(c, "idle") /\ remove_public_contact(c, path)
RemovePending(c) == At(c, "remove") /\ remove_public_contact(c, call[c].path)

\* Mutant: the removal is not recorded before the request.
PendRemoval_Unrecorded(c) ==
  /\ At(c, "pendRemoval")
  /\ Continue(c, "delete")
  /\ UNCHANGED <<contact, markers, sharing>>

PendRemoval(c) ==
  /\ At(c, "pendRemoval")
  /\ contact' = IF Saved THEN RemovalPending(contact, call[c].path) ELSE contact
  /\ Continue(c, "delete")
  /\ UNCHANGED <<markers, sharing>>

\* Not found counts as removed.
DeleteMarker(c) ==
  /\ At(c, "delete")
  /\ \/ markers' = markers \ {call[c].path}
        /\ Continue(c, IF call[c].had THEN "recordRemoved" ELSE "idle")
     \/ markers' \in {markers, markers \ {call[c].path}} /\ Continue(c, "recordFailed")
  /\ UNCHANGED <<contact, sharing>>

RecordRemoved(c) ==
  /\ At(c, "recordRemoved")
  /\ contact' = IF Saved THEN MarkRemoved(contact) ELSE contact
  /\ Return(c)
  /\ UNCHANGED <<markers, sharing>>

(***************************************************************************)
(* sync_public_contact_markers, for this contact                           *)
(***************************************************************************)
SyncPublicContactMarkers(c) ==
  /\ At(c, "idle")
  /\ contact.status \in {"PendingPublication", "PendingRemoval"}
  /\ call' = [call EXCEPT ![c] =
       [pc |-> CASE contact.status = "PendingRemoval" -> "remove"
                 [] contact.status = "PendingPublication" /\ sharing -> "publish"
                 [] OTHER -> "recordFailed",
        path |-> contact.at, had |-> TRUE]]
  /\ UNCHANGED <<contact, markers, sharing>>

CallerStops(c) ==
  /\ ~At(c, "idle")
  /\ Return(c)
  /\ UNCHANGED <<contact, markers, sharing>>

ContactsInit ==
  /\ contact = NoContact
  /\ markers = {}
  /\ sharing \in BOOLEAN
  /\ call = [c \in Caller |-> Idle]

CallSteps(c) ==
  \/ PublishPending(c) \/ PutMarker(c) \/ RecordPublished(c) \/ RecordFailed(c)
  \/ RemovePending(c) \/ PendRemoval(c) \/ DeleteMarker(c) \/ RecordRemoved(c)

ContactsNext ==
  \/ \E paths \in SUBSET Receiver \ {{}} : SaveContact(paths)
  \/ RemoveContact
  \/ Reconfigure
  \/ \E c \in Caller :
       \/ \E path \in Receiver : PublishPublicContact(c, path) \/ RemovePublicContact(c, path)
       \/ CallSteps(c)
       \/ SyncPublicContactMarkers(c)
       \/ CallerStops(c)

ContactsSpec == ContactsInit /\ [][ContactsNext]_contactVars

----------------------------------------------------------------------------
(* validate_contact_marker_state: what a restore asks of the record.       *)

ValidMarkerState(rec) ==
  LET active == rec.at \in rec.paths IN
  /\ ~(rec.published /\ rec.removed)
  /\ rec.error <=> rec.status = "Failed"
  /\ rec.status \in {"NotPublished", "Removed"} <=> rec.at = NoPath
  /\ CASE rec.status = "NotPublished"       -> ~rec.published /\ ~rec.removed
       [] rec.status = "PendingPublication" -> active
       [] rec.status = "Published"          -> rec.published /\ ~rec.removed /\ active
       [] rec.status = "PendingRemoval"     -> rec.published /\ ~rec.removed /\ active
       [] rec.status = "Removed"            -> ~rec.published /\ rec.removed
       [] OTHER                             -> active
  /\ rec.paths # {}

\* A contact whose marker status is Published has its marker on the homeserver, at the
\* receiver path the record tracks, through failed requests that took effect, stops
\* between a request and its record, retries by the sync and changes of policy
\* (publish_public_contact, remove_public_contact, mark_public_contact_failed).
PublishedIsThere == contact.status = "Published" => contact.at \in markers

=============================================================================
