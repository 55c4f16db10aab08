--------------------------- MODULE PublicEndpoints ---------------------------
(***************************************************************************)
(* sync_public_endpoints_with_receiving_details: the public Payment        *)
(* Endpoint records of the SDK and the endpoint documents of one receiver  *)
(* on the homeserver.  The identity guard lets one sync run at a time.     *)
(* Each transaction and each request is a step; a request that fails may   *)
(* have been carried out, and the process may stop after any step.  Other  *)
(* software may have put endpoints under the same receiver path before.    *)
(*                                                                         *)
(* The loops of the code visit identifiers in sorted order.  The visits    *)
(* touch disjoint records and documents, so the model leaves the order     *)
(* open.                                                                   *)
(***************************************************************************)
EXTENDS Naturals

CONSTANTS
  Identifier,  \* Payment Endpoint Identifiers
  Payload,     \* payloads of endpoints
  NoPayload    \* no payload, no document

VARIABLES
  endpoint,  \* endpoint[i]: the PublicEndpointRecord of i; status "None" if there is none
  remote,    \* remote[i]: the payload on the homeserver
  scope,     \* endpoint_management_scope
  sync,      \* the running sync: step, desired payloads, identifiers left, any failure
  ours       \* history: identifiers whose document the SDK may have written

endpointVars == <<endpoint, remote, scope, sync, ours>>

EndpointStatus == {"None", "PendingPublication", "Published", "PendingRemoval",
                   "Removed", "Failed"}
EndpointRecord == [status : EndpointStatus, payload : Payload \cup {NoPayload}, error : BOOLEAN]
NoEndpoint == [status |-> "None", payload |-> NoPayload, error |-> FALSE]

pending_publication_record(p) == [status |-> "PendingPublication", payload |-> p, error |-> FALSE]
published_record(p) == [status |-> "Published", payload |-> p, error |-> FALSE]
pending_removal_record(p) == [status |-> "PendingRemoval", payload |-> p, error |-> FALSE]
\* Mutant: the record of a removed endpoint keeps a payload.
removed_record_Payload == [status |-> "Removed", payload |-> CHOOSE p \in Payload : TRUE, error |-> FALSE]

removed_record == [status |-> "Removed", payload |-> NoPayload, error |-> FALSE]
failed_record(p) == [status |-> "Failed", payload |-> p, error |-> TRUE]

SaveEndpoint(i, rec) == endpoint' = [endpoint EXCEPT ![i] = rec]

Nothing == [i \in Identifier |-> NoPayload]
SyncIdle == [pc |-> "idle", want |-> Nothing, left |-> {}, item |-> NoPayload, ok |-> TRUE]
Desired == {i \in Identifier : sync.want[i] # NoPayload}

\* normalize_receiving_details refuses a list that names an identifier twice, so what a
\* sync wants is a function.
SyncPublicEndpoints(want) ==
  /\ sync.pc \in {"idle", "done"}
  /\ sync' = [pc |-> "publish", want |-> want,
              left |-> {i \in Identifier : want[i] # NoPayload}, item |-> NoPayload, ok |-> TRUE]
  /\ UNCHANGED <<endpoint, remote, scope, ours>>

(***************************************************************************)
(* Publishing what is wanted.                                              *)
(***************************************************************************)
\* Mutant: the document is written before anything is recorded.
PendPublication_Unrecorded(i) ==
  /\ sync.pc = "publish" /\ i \in sync.left
  /\ sync' = [sync EXCEPT !.pc = "put", !.item = i, !.left = @ \ {i}]
  /\ UNCHANGED <<endpoint, remote, scope, ours>>

PendPublication(i) ==
  /\ sync.pc = "publish" /\ i \in sync.left
  /\ SaveEndpoint(i, pending_publication_record(sync.want[i]))
  /\ sync' = [sync EXCEPT !.pc = "put", !.item = i, !.left = @ \ {i}]
  /\ UNCHANGED <<remote, scope, ours>>

WithPayload == [remote EXCEPT ![sync.item] = sync.want[sync.item]]

set_payment_endpoint ==
  /\ sync.pc = "put"
  /\ \/ remote' = WithPayload /\ sync' = [sync EXCEPT !.pc = "putOk"]
     \/ remote' \in {remote, WithPayload} /\ sync' = [sync EXCEPT !.pc = "putFailed"]
  /\ ours' = IF remote' = remote THEN ours ELSE ours \cup {sync.item}
  /\ UNCHANGED <<endpoint, scope>>

RecordPut ==
  /\ sync.pc \in {"putOk", "putFailed"}
  /\ SaveEndpoint(sync.item,
       IF sync.pc = "putOk" THEN published_record(sync.want[sync.item])
                            ELSE failed_record(sync.want[sync.item]))
  /\ sync' = [sync EXCEPT !.pc = "publish", !.item = NoPayload,
                          !.ok = @ /\ sync.pc = "putOk"]
  /\ UNCHANGED <<remote, scope, ours>>

(***************************************************************************)
(* Choosing what to remove.                                                *)
(***************************************************************************)
\* Mutant: only what is recorded as published is taken away.
ManagedCandidates_Published ==
  {i \in Identifier \ Desired : endpoint[i].status = "Published"}

\* EndpointManagementScope::ManagedOnly
ManagedCandidates ==
  {i \in Identifier \ Desired : endpoint[i].status \notin {"None", "Removed"}}

ChooseManaged ==
  /\ sync.pc = "publish" /\ sync.left = {} /\ scope = "ManagedOnly"
  /\ sync' = [sync EXCEPT !.pc = "remove", !.left = ManagedCandidates]
  /\ UNCHANGED <<endpoint, remote, scope, ours>>

\* EndpointManagementScope::FullPaykitNamespace: the homeserver is listed, which may fail
ListRemote ==
  /\ sync.pc = "publish" /\ sync.left = {} /\ scope = "FullPaykitNamespace"
  /\ \/ sync' = [sync EXCEPT !.pc = "settle",
                             !.left = {i \in Identifier \ Desired : remote[i] # NoPayload}]
     \/ sync' = SyncIdle
  /\ UNCHANGED <<endpoint, remote, scope, ours>>

\* Records whose document is gone already; each is saved in a transaction of its own.
AlreadyRemoved ==
  {i \in Identifier \ (Desired \cup sync.left) : endpoint[i].status \in {"PendingRemoval", "Failed"}}

SettleRemoved(i) ==
  /\ sync.pc = "settle" /\ i \in AlreadyRemoved
  /\ SaveEndpoint(i, removed_record)
  /\ UNCHANGED <<remote, scope, sync, ours>>

Settled ==
  /\ sync.pc = "settle" /\ AlreadyRemoved = {}
  /\ sync' = [sync EXCEPT !.pc = "remove"]
  /\ UNCHANGED <<endpoint, remote, scope, ours>>

(***************************************************************************)
(* Removing.                                                               *)
(***************************************************************************)
\* The payload that the candidate was read with.
PreviousPayload(i) == IF scope = "ManagedOnly" THEN endpoint[i].payload ELSE remote[i]

PendRemovalOf(i) ==
  /\ sync.pc = "remove" /\ i \in sync.left
  /\ SaveEndpoint(i, pending_removal_record(PreviousPayload(i)))
  /\ sync' = [sync EXCEPT !.pc = "delete", !.item = i, !.left = @ \ {i}]
  /\ UNCHANGED <<remote, scope, ours>>

Deleted == [remote EXCEPT ![sync.item] = NoPayload]

remove_payment_endpoint ==
  /\ sync.pc = "delete"
  /\ \/ remote' = Deleted /\ sync' = [sync EXCEPT !.pc = "deleteOk"]
     \/ remote' \in {remote, Deleted} /\ sync' = [sync EXCEPT !.pc = "deleteFailed"]
  /\ ours' = IF remote'[sync.item] = NoPayload THEN ours \ {sync.item} ELSE ours
  /\ UNCHANGED <<endpoint, scope>>

RecordDelete ==
  /\ sync.pc \in {"deleteOk", "deleteFailed"}
  /\ SaveEndpoint(sync.item,
       IF sync.pc = "deleteOk" THEN removed_record ELSE failed_record(endpoint[sync.item].payload))
  /\ sync' = [sync EXCEPT !.pc = "remove", !.item = NoPayload,
                          !.ok = @ /\ sync.pc = "deleteOk"]
  /\ UNCHANGED <<remote, scope, ours>>

SyncReport ==
  /\ sync.pc = "remove" /\ sync.left = {}
  /\ sync' = [sync EXCEPT !.pc = "done"]
  /\ UNCHANGED <<endpoint, remote, scope, ours>>

SyncStops ==
  /\ sync.pc \notin {"idle", "done"}
  /\ sync' = SyncIdle
  /\ UNCHANGED <<endpoint, remote, scope, ours>>

\* The application restarts with the other scope.
ChangeScope ==
  /\ sync.pc \in {"idle", "done"}
  /\ scope' = IF scope = "ManagedOnly" THEN "FullPaykitNamespace" ELSE "ManagedOnly"
  /\ sync' = SyncIdle
  /\ UNCHANGED <<endpoint, remote, ours>>

EndpointsInit ==
  /\ endpoint = [i \in Identifier |-> NoEndpoint]
  /\ remote \in [Identifier -> Payload \cup {NoPayload}]
  /\ scope \in {"ManagedOnly", "FullPaykitNamespace"}
  /\ sync = SyncIdle
  /\ ours = {}

SyncStep ==
  \/ \E i \in Identifier : PendPublication(i) \/ SettleRemoved(i) \/ PendRemovalOf(i)
  \/ set_payment_endpoint \/ RecordPut
  \/ ChooseManaged \/ ListRemote \/ Settled
  \/ remove_payment_endpoint \/ RecordDelete \/ SyncReport

EndpointsNext ==
  \/ \E want \in [Identifier -> Payload \cup {NoPayload}] : SyncPublicEndpoints(want)
  \/ SyncStep
  \/ SyncStops
  \/ ChangeScope

EndpointsSpec == EndpointsInit /\ [][EndpointsNext]_endpointVars

\* validate_public_endpoint_records: what a restore asks of a record.
ValidEndpointRecord(rec) ==
  /\ rec.status \in {"PendingPublication", "Published"} => rec.payload # NoPayload
  /\ rec.status = "Removed" => rec.payload = NoPayload
  /\ rec.error <=> rec.status = "Failed"

(***************************************************************************)
(* Properties                                                              *)
(***************************************************************************)
\* The types of the endpoint variables.
EndpointsTypeOK ==
  /\ endpoint \in [Identifier -> EndpointRecord]
  /\ remote \in [Identifier -> Payload \cup {NoPayload}]
  /\ ours \subseteq Identifier
  /\ sync.left \subseteq Identifier

\* An endpoint document the SDK may have written is never forgotten: its record says
\* something else than removed, so that a later sync takes it away when it is no longer
\* wanted, whatever failed or stopped between the request and its record
\* (sync_public_endpoints_with_receiving_details, ManagedOnly candidates).
WrittenIsRecorded ==
  \A i \in ours : endpoint[i].status \notin {"None", "Removed"}

\* A sync that reports no failure has made the homeserver show what was asked for: every
\* wanted endpoint with its payload, and no other endpoint the SDK may have written; in
\* the FullPaykitNamespace scope, no other endpoint at all.
CleanSyncConverges ==
  sync.pc = "done" /\ sync.ok =>
    \A i \in Identifier :
      \/ remote[i] = sync.want[i]
      \/ sync.want[i] = NoPayload /\ scope = "ManagedOnly" /\ i \notin ours

\* Every record passes validate_public_endpoint_records, so a backup exported at any
\* point can be restored: a record that is or will be published has its payload, and a
\* removed one has none.
EndpointBackupRestores == \A i \in Identifier : ValidEndpointRecord(endpoint[i])

=============================================================================
