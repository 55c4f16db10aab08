--------------------------- MODULE RuntimeProofs ---------------------------
(***************************************************************************)
(* What two components of the runtime that keep records of documents       *)
(* elsewhere keep: public endpoints, for any identifiers and payloads; and *)
(* receipts, for any number of overlapping calls, drafts and keys.         *)
(***************************************************************************)
EXTENDS PublicEndpoints, Receipts, SequenceTheorems, WellFoundedInduction, TLAPS

-----------------------------------------------------------------------------
(* Public endpoints                                                        *)

Putting == {"put", "putOk", "putFailed"}
Deleting == {"delete", "deleteOk", "deleteFailed"}
Removing == {"settle", "remove", "done"} \cup Deleting

SyncState ==
  [pc : {"idle", "publish"} \cup Putting \cup Removing,
   want : [Identifier -> Payload \cup {NoPayload}],
   left : SUBSET Identifier, item : Identifier \cup {NoPayload}, ok : BOOLEAN]

ETypes ==
  /\ EndpointsTypeOK
  /\ sync \in SyncState
  /\ scope \in {"ManagedOnly", "FullPaykitNamespace"}

\* A request is under way only for what its record, saved before it, announces.
Announced ==
  /\ sync.pc \in Putting =>
       /\ sync.item \in Identifier
       /\ sync.want[sync.item] # NoPayload
       /\ endpoint[sync.item].status = "PendingPublication"
  /\ sync.pc \in Deleting =>
       /\ sync.item \in Identifier
       /\ sync.want[sync.item] = NoPayload
       /\ endpoint[sync.item].status = "PendingRemoval"
  /\ sync.pc = "putOk" => remote[sync.item] = sync.want[sync.item]
  /\ sync.pc = "deleteOk" => remote[sync.item] = NoPayload

\* What is left is wanted while publishing and unwanted while removing.
LeftFits ==
  /\ sync.pc \in {"publish"} \cup Putting => \A i \in sync.left : sync.want[i] # NoPayload
  /\ sync.pc \in Removing => \A i \in sync.left : sync.want[i] = NoPayload
  /\ sync.pc = "done" => sync.left = {}

\* A document counted as written is on the homeserver.
OursIsThere == \A i \in ours : remote[i] # NoPayload

\* The homeserver was listed, so that a document not left to remove is not there.
Listed ==
  sync.pc = "settle" =>
    \A i \in Identifier : sync.want[i] = NoPayload /\ remote[i] # NoPayload => i \in sync.left

\* Identifiers the sync is not finished with.
Unfinished ==
  sync.left \cup (IF sync.pc \in Putting \cup Deleting THEN {sync.item} ELSE {})

\* Without a failure so far, what the sync is finished with is as it should be.
PutSoFar ==
  sync.ok /\ sync.pc # "idle" =>
    \A i \in Identifier \ Unfinished :
      sync.want[i] # NoPayload => remote[i] = sync.want[i]

DeletedSoFar ==
  sync.ok /\ sync.pc \in Removing =>
    \A i \in Identifier \ Unfinished :
      sync.want[i] = NoPayload =>
        remote[i] = NoPayload \/ (scope = "ManagedOnly" /\ i \notin ours)

EInv ==
  /\ ETypes /\ EndpointBackupRestores /\ WrittenIsRecorded
  /\ Announced /\ LeftFits /\ OursIsThere /\ Listed
  /\ PutSoFar /\ DeletedSoFar

\* The sync is over, or was given up: what it left behind is recorded.
LEMMA IdleKeeps ==
  ASSUME EInv, sync' = SyncIdle, UNCHANGED <<endpoint, remote, ours>>,
         scope' \in {"ManagedOnly", "FullPaykitNamespace"}
  PROVE  EInv'
<1>1. EndpointBackupRestores' /\ WrittenIsRecorded' /\ OursIsThere'
  BY DEF EInv, EndpointBackupRestores, WrittenIsRecorded, OursIsThere
<1>2. ETypes'
  BY DEF EInv, ETypes, EndpointsTypeOK, SyncState, Removing, SyncIdle, Nothing
<1>3. Announced'
  BY DEF Announced, Putting, Deleting, SyncIdle
<1>4. LeftFits'
  BY DEF LeftFits, SyncIdle
<1>5. Listed'
  BY DEF Listed, SyncIdle
<1>6. PutSoFar'
  BY DEF PutSoFar, SyncIdle
<1>7. DeletedSoFar'
  BY DEF DeletedSoFar, Deleting, Removing, SyncIdle
<1> QED  BY <1>1, <1>2, <1>3, <1>4, <1>5, <1>6, <1>7 DEF EInv

\* sync_public_endpoints_with_receiving_details begins.
LEMMA SyncBegins ==
  ASSUME EInv, NEW want \in [Identifier -> Payload \cup {NoPayload}], SyncPublicEndpoints(want)
  PROVE  EInv'
<1>1. EndpointBackupRestores' /\ WrittenIsRecorded' /\ OursIsThere'
  BY DEF EInv, EndpointBackupRestores, WrittenIsRecorded, OursIsThere,
     SyncPublicEndpoints
<1>2. ETypes'
  BY DEF EInv, ETypes, EndpointsTypeOK, SyncState, Removing, SyncPublicEndpoints
<1>3. Announced'
  BY DEF Announced, Putting, Deleting, SyncPublicEndpoints
<1>4. LeftFits'
  BY DEF LeftFits, Deleting, Removing, SyncPublicEndpoints
<1>5. Listed'
  BY DEF Listed, SyncPublicEndpoints
<1>6. PutSoFar'
  BY DEF PutSoFar, Unfinished, SyncPublicEndpoints
<1>7. DeletedSoFar'
  BY DEF DeletedSoFar, Deleting, Removing, SyncPublicEndpoints
<1> QED  BY <1>1, <1>2, <1>3, <1>4, <1>5, <1>6, <1>7 DEF EInv

\* The pending publication is recorded before the document is written.
LEMMA PendPublicationKeeps ==
  ASSUME EInv, NEW i \in Identifier, PendPublication(i)
  PROVE  EInv'
<1>1. ETypes'
  BY Zenon DEF EInv, ETypes, EndpointsTypeOK, SyncState, EndpointRecord, EndpointStatus,
     Putting, Removing, PendPublication, SaveEndpoint, pending_publication_record
<1>2. EndpointBackupRestores'
  BY DEF EInv, EndpointBackupRestores, ValidEndpointRecord, PendPublication,
     SaveEndpoint, pending_publication_record, LeftFits
<1>3. WrittenIsRecorded'
  BY DEF EInv, WrittenIsRecorded, PendPublication, SaveEndpoint,
     pending_publication_record
<1>4. Announced'
  BY DEF EInv, Announced, ETypes, EndpointsTypeOK, Deleting, Removing,
     PendPublication, SaveEndpoint, pending_publication_record, LeftFits
<1>5. LeftFits'
  BY DEF EInv, LeftFits, Deleting, Removing, PendPublication
<1>6. OursIsThere'
  BY DEF EInv, OursIsThere, PendPublication
<1>7. Listed'
  BY DEF Listed, PendPublication
<1>8. PutSoFar'
  BY DEF EInv, PutSoFar, Unfinished, Putting, Deleting, PendPublication
<1>9. DeletedSoFar'
  BY DEF DeletedSoFar, Deleting, Removing, PendPublication
<1> QED  BY <1>1, <1>2, <1>3, <1>4, <1>5, <1>6, <1>7, <1>8, <1>9 DEF EInv

\* The document is written, or the request fails before or after that.
LEMMA PutKeeps ==
  ASSUME EInv, set_payment_endpoint
  PROVE  EInv'
<1>1. ETypes'
  BY DEF EInv, ETypes, EndpointsTypeOK, SyncState, Putting, Removing,
     set_payment_endpoint, WithPayload
<1>2. EndpointBackupRestores'
  BY DEF EInv, EndpointBackupRestores, set_payment_endpoint
<1>3. WrittenIsRecorded'
  BY DEF EInv, WrittenIsRecorded, set_payment_endpoint, Announced, Putting
<1>4. Announced'
  BY DEF EInv, Announced, ETypes, EndpointsTypeOK, SyncState, Deleting, Removing,
     set_payment_endpoint, WithPayload
<1>5. LeftFits'
  BY DEF EInv, LeftFits, ETypes, SyncState, Deleting, Removing, set_payment_endpoint
<1>6. OursIsThere'
  BY DEF EInv, OursIsThere, ETypes, EndpointsTypeOK, set_payment_endpoint,
     WithPayload, Announced, Putting
<1>7. Listed'
  BY DEF EInv, Listed, ETypes, SyncState, set_payment_endpoint
<1>8. PutSoFar'
  BY DEF EInv, PutSoFar, Unfinished, ETypes, EndpointsTypeOK, SyncState, Putting,
     Removing, set_payment_endpoint, WithPayload
<1>9. DeletedSoFar'
  BY DEF EInv, DeletedSoFar, ETypes, SyncState, Deleting, Removing,
     set_payment_endpoint
<1> QED  BY <1>1, <1>2, <1>3, <1>4, <1>5, <1>6, <1>7, <1>8, <1>9 DEF EInv

\* How the request ended is recorded.
LEMMA RecordPutKeeps ==
  ASSUME EInv, RecordPut
  PROVE  EInv'
<1>1. ETypes'
  BY Zenon DEF EInv, ETypes, EndpointsTypeOK, SyncState, EndpointRecord, EndpointStatus,
     Putting, Deleting, Removing, RecordPut, SaveEndpoint, published_record,
     failed_record
<1>2. EndpointBackupRestores'
  BY DEF EInv, EndpointBackupRestores, ValidEndpointRecord, RecordPut, SaveEndpoint,
     published_record, failed_record, Announced, Putting
<1>3. WrittenIsRecorded'
  BY DEF EInv, WrittenIsRecorded, RecordPut, SaveEndpoint, published_record,
     failed_record
<1>4. Announced'
  BY DEF Announced, Putting, Deleting, RecordPut
<1>5. LeftFits'
  BY DEF EInv, LeftFits, ETypes, SyncState, Deleting, Removing, RecordPut
<1>6. OursIsThere'
  BY DEF EInv, OursIsThere, RecordPut
<1>7. Listed'
  BY DEF Listed, RecordPut
<1>8. PutSoFar'
  BY Zenon DEF EInv, PutSoFar, Unfinished, ETypes, SyncState, RecordPut, Announced
<1>9. DeletedSoFar'
  BY DEF DeletedSoFar, Deleting, Removing, RecordPut
<1> QED  BY <1>1, <1>2, <1>3, <1>4, <1>5, <1>6, <1>7, <1>8, <1>9 DEF EInv

\* ManagedOnly: every record of something possibly there is a candidate.
LEMMA ChooseManagedKeeps ==
  ASSUME EInv, ChooseManaged
  PROVE  EInv'
<1>1. EndpointBackupRestores' /\ WrittenIsRecorded' /\ OursIsThere'
  BY DEF EInv, EndpointBackupRestores, WrittenIsRecorded, OursIsThere, ChooseManaged
<1>2. ETypes'
  BY Zenon DEF EInv, ETypes, EndpointsTypeOK, SyncState, Removing, ChooseManaged,
     ManagedCandidates
<1>3. Announced'
  BY DEF Announced, Putting, Deleting, ChooseManaged
<1>4. LeftFits'
  BY DEF LeftFits, Putting, ChooseManaged, ManagedCandidates, Desired
<1>5. Listed'
  BY DEF Listed, ChooseManaged
<1>6. PutSoFar'
  BY DEF EInv, PutSoFar, Unfinished, Putting, Deleting, ChooseManaged
<1>7. DeletedSoFar'
  BY DEF EInv, DeletedSoFar, Unfinished, ChooseManaged, ManagedCandidates, Desired,
     WrittenIsRecorded
<1> QED  BY <1>1, <1>2, <1>3, <1>4, <1>5, <1>6, <1>7 DEF EInv

\* FullPaykitNamespace: every document there is a candidate.
LEMMA ListedKeeps ==
  ASSUME EInv, ListRemote, sync' # SyncIdle
  PROVE  EInv'
<1>1. sync' = [sync EXCEPT !.pc = "settle",
                           !.left = {i \in Identifier \ Desired : remote[i] # NoPayload}]
  BY DEF ListRemote
<1>2. /\ sync'.pc = "settle" /\ sync'.want = sync.want
      /\ sync'.left = {i \in Identifier : sync.want[i] = NoPayload /\ remote[i] # NoPayload}
  BY <1>1 DEF Desired
<1>3. EndpointBackupRestores' /\ WrittenIsRecorded' /\ OursIsThere'
  BY DEF EInv, EndpointBackupRestores, WrittenIsRecorded, OursIsThere, ListRemote
<1>4. ETypes'
  BY Zenon DEF EInv, ETypes, EndpointsTypeOK, SyncState, EndpointRecord, EndpointStatus,
     Putting, Deleting, Removing, ListRemote, Desired
<1>5. Announced'
  BY Zenon DEF EInv, Announced, ETypes, SyncState, Putting, Deleting, ListRemote
<1>6. LeftFits'
  BY <1>2 DEF LeftFits, Putting, ListRemote
<1>7. Listed'
  BY <1>2 DEF Listed, ListRemote
<1>8. PutSoFar'
  <2>1. sync.pc = "publish" /\ sync.left = {} /\ remote' = remote
    BY DEF ListRemote
  <2>2. sync'.ok = sync.ok
    BY <1>1 DEF EInv, ETypes, SyncState
  <2>3. Unfinished = {}
    BY <2>1 DEF Unfinished, Putting, Deleting
  <2> QED  BY <1>2, <2>1, <2>2, <2>3 DEF EInv, PutSoFar
<1>9. DeletedSoFar'
  BY <1>2 DEF DeletedSoFar, Unfinished, ListRemote
<1> QED  BY <1>3, <1>4, <1>5, <1>6, <1>7, <1>8, <1>9 DEF EInv

\* A record is settled as removed only if its document was not listed.
LEMMA SettleRemovedKeeps ==
  ASSUME EInv, NEW i \in Identifier, SettleRemoved(i)
  PROVE  EInv'
<1>1. ETypes'
  BY DEF EInv, ETypes, EndpointsTypeOK, EndpointRecord, EndpointStatus, Removing,
     SettleRemoved, SaveEndpoint, removed_record
<1>2. EndpointBackupRestores'
  BY DEF EInv, EndpointBackupRestores, ValidEndpointRecord, SettleRemoved,
     SaveEndpoint, removed_record
<1>3. WrittenIsRecorded'
  BY DEF EInv, WrittenIsRecorded, SettleRemoved, SaveEndpoint, AlreadyRemoved,
     Desired, Listed, OursIsThere
<1>4. Announced'
  BY DEF EInv, Announced, Deleting, SettleRemoved, SaveEndpoint, AlreadyRemoved
<1>5. LeftFits'
  BY DEF EInv, LeftFits, SettleRemoved
<1>6. OursIsThere'
  BY DEF EInv, OursIsThere, SettleRemoved
<1>7. Listed'
  BY DEF EInv, Listed, SettleRemoved
<1>8. PutSoFar'
  BY DEF EInv, PutSoFar, Unfinished, SettleRemoved
<1>9. DeletedSoFar'
  BY DEF EInv, DeletedSoFar, Unfinished, SettleRemoved
<1> QED  BY <1>1, <1>2, <1>3, <1>4, <1>5, <1>6, <1>7, <1>8, <1>9 DEF EInv

\* No record is left to settle.
LEMMA SettledKeeps ==
  ASSUME EInv, Settled
  PROVE  EInv'
<1>1. EndpointBackupRestores' /\ WrittenIsRecorded' /\ OursIsThere'
  BY DEF EInv, EndpointBackupRestores, WrittenIsRecorded, OursIsThere, Settled
<1>2. ETypes'
  BY DEF EInv, ETypes, EndpointsTypeOK, SyncState, Removing, Settled
<1>3. Announced'
  BY DEF Announced, Putting, Deleting, Settled
<1>4. LeftFits'
  BY DEF EInv, LeftFits, ETypes, EndpointsTypeOK, SyncState, Putting, Settled
<1>5. Listed'
  BY DEF Listed, Settled
<1>6. PutSoFar'
  BY DEF EInv, PutSoFar, Unfinished, Putting, Deleting, Settled
<1>7. DeletedSoFar'
  BY DEF EInv, DeletedSoFar, Unfinished, ETypes, EndpointsTypeOK, SyncState,
     Putting, Deleting, Settled
<1> QED  BY <1>1, <1>2, <1>3, <1>4, <1>5, <1>6, <1>7 DEF EInv

\* The pending removal is recorded before the document is deleted.
LEMMA PendRemovalKeeps ==
  ASSUME EInv, NEW i \in Identifier, PendRemovalOf(i)
  PROVE  EInv'
<1>1. ETypes'
  BY Zenon DEF EInv, ETypes, EndpointsTypeOK, SyncState, EndpointRecord, EndpointStatus,
     Deleting, Removing, PendRemovalOf, SaveEndpoint, pending_removal_record,
     PreviousPayload
<1>2. EndpointBackupRestores'
  BY DEF EInv, EndpointBackupRestores, ValidEndpointRecord, PendRemovalOf,
     SaveEndpoint, pending_removal_record
<1>3. WrittenIsRecorded'
  BY DEF EInv, WrittenIsRecorded, PendRemovalOf, SaveEndpoint,
     pending_removal_record
<1>4. Announced'
  BY DEF EInv, Announced, ETypes, EndpointsTypeOK, Putting, Removing, PendRemovalOf,
     SaveEndpoint, pending_removal_record, LeftFits
<1>5. LeftFits'
  BY DEF EInv, LeftFits, ETypes, SyncState, Putting, PendRemovalOf
<1>6. OursIsThere'
  BY DEF EInv, OursIsThere, PendRemovalOf
<1>7. Listed'
  BY DEF Listed, PendRemovalOf
<1>8. PutSoFar'
  BY DEF EInv, PutSoFar, Unfinished, Putting, Deleting, PendRemovalOf
<1>9. DeletedSoFar'
  BY DEF EInv, DeletedSoFar, Unfinished, ETypes, SyncState, Putting, Deleting,
     PendRemovalOf
<1> QED  BY <1>1, <1>2, <1>3, <1>4, <1>5, <1>6, <1>7, <1>8, <1>9 DEF EInv

\* The document is deleted, or the request fails before or after that.
LEMMA DeleteKeeps ==
  ASSUME EInv, remove_payment_endpoint
  PROVE  EInv'
<1>1. ETypes'
  BY DEF EInv, ETypes, EndpointsTypeOK, SyncState, Deleting, Removing,
     remove_payment_endpoint, Deleted
<1>2. EndpointBackupRestores'
  BY DEF EInv, EndpointBackupRestores, remove_payment_endpoint
<1>3. WrittenIsRecorded'
  BY DEF EInv, WrittenIsRecorded, remove_payment_endpoint
<1>4. Announced'
  BY DEF EInv, Announced, ETypes, EndpointsTypeOK, SyncState, Putting, Removing,
     remove_payment_endpoint, Deleted
<1>5. LeftFits'
  BY DEF EInv, LeftFits, ETypes, SyncState, Putting, remove_payment_endpoint
<1>6. OursIsThere'
  BY DEF EInv, OursIsThere, ETypes, EndpointsTypeOK, remove_payment_endpoint,
     Deleted
<1>7. Listed'
  BY DEF EInv, Listed, ETypes, SyncState, remove_payment_endpoint
<1>8. PutSoFar'
  BY DEF EInv, PutSoFar, Unfinished, ETypes, EndpointsTypeOK, SyncState, Deleting,
     Removing, remove_payment_endpoint, Deleted
<1>9. DeletedSoFar'
  BY DEF EInv, DeletedSoFar, Unfinished, ETypes, EndpointsTypeOK, SyncState,
     Putting, Removing, remove_payment_endpoint, Deleted
<1> QED  BY <1>1, <1>2, <1>3, <1>4, <1>5, <1>6, <1>7, <1>8, <1>9 DEF EInv

\* How the request ended is recorded; removed only if it succeeded.
LEMMA RecordDeleteKeeps ==
  ASSUME EInv, RecordDelete
  PROVE  EInv'
<1>1. ETypes'
  BY Zenon DEF EInv, ETypes, EndpointsTypeOK, SyncState, EndpointRecord, EndpointStatus,
     Putting, Deleting, Removing, RecordDelete, SaveEndpoint, removed_record,
     failed_record
<1>2. EndpointBackupRestores'
  BY DEF EInv, EndpointBackupRestores, ValidEndpointRecord, RecordDelete,
     SaveEndpoint, removed_record, failed_record
<1>3. WrittenIsRecorded'
  BY DEF EInv, WrittenIsRecorded, RecordDelete, SaveEndpoint, failed_record,
     Announced, OursIsThere
<1>4. Announced'
  BY DEF Announced, Putting, Deleting, RecordDelete
<1>5. LeftFits'
  BY DEF EInv, LeftFits, ETypes, SyncState, Putting, RecordDelete
<1>6. OursIsThere'
  BY DEF EInv, OursIsThere, RecordDelete
<1>7. Listed'
  BY DEF Listed, RecordDelete
<1>8. PutSoFar'
  BY DEF EInv, PutSoFar, Unfinished, ETypes, SyncState, Putting, RecordDelete,
     Announced
<1>9. DeletedSoFar'
  BY Zenon DEF EInv, DeletedSoFar, Unfinished, ETypes, SyncState, Putting, Deleting,
     Removing, RecordDelete, SaveEndpoint, Announced
<1> QED  BY <1>1, <1>2, <1>3, <1>4, <1>5, <1>6, <1>7, <1>8, <1>9 DEF EInv

\* The report is returned.
LEMMA ReportKeeps ==
  ASSUME EInv, SyncReport
  PROVE  EInv'
<1>1. EndpointBackupRestores' /\ WrittenIsRecorded' /\ OursIsThere'
  BY DEF EInv, EndpointBackupRestores, WrittenIsRecorded, OursIsThere, SyncReport
<1>2. ETypes'
  BY DEF EInv, ETypes, EndpointsTypeOK, SyncState, Removing, SyncReport
<1>3. Announced'
  BY DEF Announced, Putting, Deleting, SyncReport
<1>4. LeftFits'
  BY DEF LeftFits, SyncReport
<1>5. Listed'
  BY DEF Listed, SyncReport
<1>6. PutSoFar'
  BY DEF EInv, PutSoFar, Unfinished, Putting, Deleting, SyncReport
<1>7. DeletedSoFar'
  BY DEF EInv, DeletedSoFar, Unfinished, ETypes, EndpointsTypeOK, SyncState,
     Putting, Deleting, SyncReport
<1> QED  BY <1>1, <1>2, <1>3, <1>4, <1>5, <1>6, <1>7 DEF EInv

\* Every step keeps the inductive invariant.
LEMMA EndpointsStepKeeps ==
  ASSUME EInv, [EndpointsNext]_endpointVars
  PROVE  EInv'
<1>1. CASE \E want \in [Identifier -> Payload \cup {NoPayload}] : SyncPublicEndpoints(want)
  BY <1>1, SyncBegins
<1>2. CASE \E i \in Identifier : PendPublication(i) \/ SettleRemoved(i) \/ PendRemovalOf(i)
  BY <1>2, PendPublicationKeeps, SettleRemovedKeeps, PendRemovalKeeps
<1>3. CASE set_payment_endpoint \/ RecordPut
  BY <1>3, PutKeeps, RecordPutKeeps
<1>4. CASE ChooseManaged \/ Settled
  BY <1>4, ChooseManagedKeeps, SettledKeeps
<1>5. CASE ListRemote
  <2>1. scope' \in {"ManagedOnly", "FullPaykitNamespace"}
    BY <1>5 DEF EInv, ETypes, ListRemote
  <2>2. UNCHANGED <<endpoint, remote, ours>>
    BY <1>5 DEF ListRemote
  <2> QED  BY <1>5, <2>1, <2>2, ListedKeeps, IdleKeeps
<1>6. CASE remove_payment_endpoint \/ RecordDelete \/ SyncReport
  BY <1>6, DeleteKeeps, RecordDeleteKeeps, ReportKeeps
<1>7. CASE SyncStops \/ ChangeScope
  <2>1. scope' \in {"ManagedOnly", "FullPaykitNamespace"}
    BY <1>7 DEF EInv, ETypes, SyncStops, ChangeScope
  <2>2. sync' = SyncIdle /\ UNCHANGED <<endpoint, remote, ours>>
    BY <1>7 DEF SyncStops, ChangeScope
  <2> QED  BY <2>1, <2>2, IdleKeeps
<1>8. CASE UNCHANGED endpointVars
  BY <1>8 DEF endpointVars, EInv, ETypes, EndpointsTypeOK, EndpointBackupRestores,
     WrittenIsRecorded, Announced, LeftFits, OursIsThere, Listed, PutSoFar, DeletedSoFar,
     Unfinished
<1> QED
  BY <1>1, <1>2, <1>3, <1>4, <1>5, <1>6, <1>7, <1>8 DEF EndpointsNext, SyncStep

\* The inductive invariant holds from the start, when the SDK has recorded nothing.
LEMMA EndpointsStart ==
  ASSUME EndpointsInit
  PROVE  EInv
  BY DEF EndpointsInit, EInv, ETypes, EndpointsTypeOK, SyncState, EndpointRecord,
     EndpointStatus, NoEndpoint, SyncIdle, Nothing, EndpointBackupRestores,
     ValidEndpointRecord, WrittenIsRecorded, Announced, LeftFits, OursIsThere, Listed,
     PutSoFar, DeletedSoFar, Unfinished, Putting, Deleting, Removing

\* At the end nothing is left, so what the sync is finished with is everything.
LEMMA DoneConverges ==
  ASSUME EInv
  PROVE  CleanSyncConverges
<1> SUFFICES ASSUME sync.pc = "done", sync.ok, NEW i \in Identifier
             PROVE  \/ remote[i] = sync.want[i]
                    \/ sync.want[i] = NoPayload /\ scope = "ManagedOnly" /\ i \notin ours
  BY DEF CleanSyncConverges
<1>1. i \notin Unfinished
  BY DEF EInv, LeftFits, Unfinished, Putting, Deleting
<1>2. sync.want[i] # NoPayload => remote[i] = sync.want[i]
  BY <1>1 DEF EInv, PutSoFar
<1>3. sync.want[i] = NoPayload =>
        remote[i] = NoPayload \/ (scope = "ManagedOnly" /\ i \notin ours)
  BY <1>1 DEF EInv, DeletedSoFar, Removing
<1> QED  BY <1>2, <1>3

\* The inductive invariant is an invariant.
LEMMA EndpointsInvariant == EndpointsSpec => []EInv
  BY EndpointsStart, EndpointsStepKeeps, PTL DEF EndpointsSpec

\* However a sync is interrupted and whichever requests fail, an endpoint document the
\* SDK may have written stays recorded as something to take away
\* (sync_public_endpoints_with_receiving_details).
THEOREM WrittenTheorem == EndpointsSpec => []WrittenIsRecorded
<1>1. EInv => WrittenIsRecorded
  BY DEF EInv
<1> QED  BY <1>1, EndpointsInvariant, PTL

\* A sync that reports no failure has made the homeserver show exactly what was asked
\* for, as far as its endpoint_management_scope goes.
THEOREM CleanSyncTheorem == EndpointsSpec => []CleanSyncConverges
  BY DoneConverges, EndpointsInvariant, PTL

\* Every public endpoint record passes validate_public_endpoint_records at every moment,
\* so a backup exported between any two steps of a sync is accepted.
THEOREM EndpointBackupTheorem == EndpointsSpec => []EndpointBackupRestores
<1>1. EInv => EndpointBackupRestores
  BY DEF EInv
<1> QED  BY <1>1, EndpointsInvariant, PTL

-----------------------------------------------------------------------------
(* Receipts                                                                *)

IssuanceState ==
  [key : Nat, status : IssuanceStatus, stored : BOOLEAN, queued : BOOLEAN, error : BOOLEAN]
Uploading == {"put", "saveStored", "saveFailed", "enqueue"}
IssueState == [pc : {"idle", "insert", "process"} \cup Uploading, rec : IssuanceState]
AccessState ==
  [key : Nat, terms : Drafts, status : RetrievalStatus, attempted : BOOLEAN,
   retrieved : BOOLEAN, error : BOOLEAN]
ReceiptState == {NoReceipt} \cup [key : Nat, terms : Drafts]
RetrieveState ==
  [pc : {"idle", "fetch", "save", "reconcile"}, todo : SUBSET Nat, all : SUBSET AccessState,
   found : {"none", "Retrieved", "NotFound", "Failed"}, rec : ReceiptState]

IssuerTypes ==
  /\ issuance \in IssuanceState
  /\ outbox \in Seq(Nat)
  /\ prepared \in Seq(Drafts)
  /\ issue \in [Issuer -> IssueState]

RecipientTypes ==
  /\ arrived \in Seq(AccessState)
  /\ receipt \in ReceiptState
  /\ retrieve \in [Retriever -> RetrieveState]

\* The document of the recorded receipt is at its location.
Uploaded == issuance.key # 0 /\ document = encrypt_for_location(issuance.key)

\* A call that went on with the record still has its key, although the record may have
\* changed since; a copy that says stored, or a call that has stored, tells the truth.
IssueFits(w) ==
  LET rec == issue[w].rec IN
  /\ issue[w].pc = "insert" => rec = from_prepared(rec.key) /\ rec.key \in DOMAIN prepared
  /\ issue[w].pc \in Uploading =>
       /\ rec.key = issuance.key /\ issuance.key # 0
       /\ validate_receipt_issuance_status(rec) /\ ~rec.queued
       /\ rec.stored \/ issue[w].pc \in {"saveStored", "enqueue"} => Uploaded
       /\ issue[w].pc = "enqueue" => rec.stored

IssuerInv ==
  /\ IssuerTypes
  /\ \A k \in DOMAIN prepared : validate_request_context(prepared[k])
  /\ issuance.key # 0 => issuance.key \in DOMAIN prepared
  /\ issuance.stored => Uploaded
  /\ validate_receipt_issuance_records
  /\ \A n \in DOMAIN outbox : outbox[n] = issuance.key /\ Uploaded
  /\ \A w \in Issuer : IssueFits(w)

\* What a retrieval goes on with is among the accesses that arrived; with an opened
\* receipt it has the one of its candidate, and it reconciles with a receipt stored.
RetrieveFits(w) ==
  /\ retrieve[w].todo \subseteq DOMAIN arrived
  /\ retrieve[w].pc \in {"fetch", "save"} => retrieve[w].todo # {}
  /\ retrieve[w].pc = "save" => retrieve[w].found # "none"
  /\ retrieve[w].pc = "save" /\ retrieve[w].found = "Retrieved" =>
       receipt_record_matches_access(retrieve[w].rec, Candidate(w))
  /\ retrieve[w].pc = "reconcile" => receipt # NoReceipt

RecipientInv ==
  /\ RecipientTypes
  /\ \A n \in DOMAIN arrived : arrived[n].key # 0
  /\ RetrievedHasReceipt
  /\ \A w \in Retriever : RetrieveFits(w)

ReceiptsInv == IssuerInv /\ RecipientInv

LEMMA ReceiptDefaults ==
  /\ NoIssuance \in IssuanceState /\ NoIssuance.key = 0 /\ ~NoIssuance.stored
  /\ ~NoIssuance.queued /\ validate_receipt_issuance_status(NoIssuance)
  /\ IssueIdle \in IssueState /\ IssueIdle.pc = "idle"
  /\ NoReceipt \in ReceiptState /\ NoReceipt.key = 0
  /\ RetrieveIdle \in RetrieveState /\ RetrieveIdle.pc = "idle" /\ RetrieveIdle.todo = {}
BY DEF NoIssuance, IssuanceState, IssuanceStatus, validate_receipt_issuance_status, IssueIdle,
   IssueState, NoReceipt, ReceiptState, RetrieveIdle, RetrieveState

\* The marks a call leaves on its copy of the record are those a restore accepts.
LEMMA IssuanceMarks ==
  ASSUME NEW rec \in IssuanceState, validate_receipt_issuance_status(rec), ~rec.queued
  PROVE  /\ mark_stored(rec) \in IssuanceState /\ mark_stored(rec).key = rec.key
         /\ mark_stored(rec).stored /\ ~mark_stored(rec).queued
         /\ validate_receipt_issuance_status(mark_stored(rec))
         /\ mark_failed(rec) \in IssuanceState /\ mark_failed(rec).key = rec.key
         /\ mark_failed(rec).stored = rec.stored /\ ~mark_failed(rec).queued
         /\ validate_receipt_issuance_status(mark_failed(rec))
         /\ mark_access_queued(rec) \in IssuanceState
         /\ mark_access_queued(rec).key = rec.key
         /\ mark_access_queued(rec).stored = rec.stored
         /\ rec.stored => validate_receipt_issuance_status(mark_access_queued(rec))
BY Zenon DEF mark_stored, mark_failed, mark_access_queued, IssuanceState, IssuanceStatus,
   validate_receipt_issuance_status

LEMMA FromPrepared ==
  ASSUME NEW k \in Nat
  PROVE  /\ from_prepared(k) \in IssuanceState /\ from_prepared(k).key = k
         /\ ~from_prepared(k).stored /\ ~from_prepared(k).queued
         /\ validate_receipt_issuance_status(from_prepared(k))
BY ReceiptDefaults DEF from_prepared, IssuanceState, validate_receipt_issuance_status

LEMMA SequencePositions ==
  ASSUME NEW S, NEW s \in Seq(S)
  PROVE  DOMAIN s = 1 .. Len(s) /\ Len(s) \in Nat /\ \A n \in DOMAIN s : s[n] \in S
BY ElementOfSeq, LenProperties

\* A set of positions that is not empty has a last one.
LEMMA MaxIsMember ==
  ASSUME NEW L \in Nat, NEW S \in SUBSET (1 .. L), S # {}
  PROVE  Max(S) \in S
<1> DEFINE T == {L - n : n \in S}
<1>1. T \subseteq Nat /\ T # {}
  <2>1. \A n \in S : L - n \in Nat
    OBVIOUS
  <2> QED  BY <2>1, Zenon
<1>2. PICK x \in T : \A y \in T : ~(<<y, x>> \in OpToRel(<, Nat))
  <2> HIDE DEF T
  <2> QED  BY <1>1, NatLessThanWellFounded, WFMin
<1>3. ASSUME NEW y \in T PROVE x <= y
  <2>1. x \in Nat /\ y \in Nat
    BY <1>1
  <2>2. ASSUME y < x PROVE <<y, x>> \in OpToRel(<, Nat)
    <3>1. <<y, x>> \in Nat \X Nat /\ <<y, x>>[1] < <<y, x>>[2]
      BY <2>1, <2>2
    <3> QED  BY <3>1, Zenon DEF OpToRel
  <2>3. ~(y < x)
    BY <1>2, <2>2, Zenon
  <2> QED  BY <2>1, <2>3
<1>4. PICK m \in S : x = L - m
  OBVIOUS
<1>5. \A n \in S : m >= n
  BY <1>3, <1>4
<1> QED  BY <1>5, Zenon DEF Max

LEMMA NewestIsTodo ==
  ASSUME NEW w \in Retriever, arrived \in Seq(AccessState),
         retrieve[w].todo \subseteq DOMAIN arrived, retrieve[w].todo # {}
  PROVE  Newest(w) \in retrieve[w].todo /\ Newest(w) \in DOMAIN arrived
<1>1. DOMAIN arrived = 1 .. Len(arrived) /\ Len(arrived) \in Nat
  BY SequencePositions
<1> QED  BY <1>1, MaxIsMember, Zenon DEF Newest

-----------------------------------------------------------------------------
(* The issuer                                                              *)

\* A call moves, and the record keeps its key.
LEMMA IssuerMoves ==
  ASSUME IssuerInv, UNCHANGED prepared, NEW w \in Issuer, NEW new \in IssueState,
         issue' = [issue EXCEPT ![w] = new], IssueFits(w)',
         issuance' \in IssuanceState, issuance'.key = issuance.key,
         Uploaded => Uploaded', issuance'.stored => Uploaded',
         validate_receipt_issuance_records',
         outbox' \in Seq(Nat), \A n \in DOMAIN outbox' : outbox'[n] = issuance.key /\ Uploaded'
  PROVE  IssuerInv'
<1>1. IssuerTypes'
  BY DEF IssuerInv, IssuerTypes
<1>2. \A v \in Issuer : v # w => issue'[v] = issue[v]
  BY DEF IssuerInv, IssuerTypes
<1>3. \A v \in Issuer : IssueFits(v)'
  BY <1>2 DEF IssuerInv, IssueFits, validate_receipt_issuance_status, from_prepared
<1> QED  BY <1>1, <1>3 DEF IssuerInv

\* A call moves, and leaves the record, the document and the queue alone.
LEMMA IssuerOnlyMoves ==
  ASSUME IssuerInv, UNCHANGED <<issuance, document, outbox, prepared, arrived>>,
         NEW w \in Issuer, NEW new \in IssueState, issue' = [issue EXCEPT ![w] = new],
         IssueFits(w)'
  PROVE  IssuerInv'
<1>1. /\ issuance' \in IssuanceState /\ outbox' \in Seq(Nat)
      /\ Uploaded' = Uploaded
      /\ issuance'.stored => Uploaded'
      /\ \A n \in DOMAIN outbox' : outbox'[n] = issuance.key /\ Uploaded'
  BY DEF IssuerInv, IssuerTypes, Uploaded, encrypt_for_location
<1>2. validate_receipt_issuance_records'
  BY DEF IssuerInv, validate_receipt_issuance_records, validate_receipt_issuance_status,
     Arrived
<1> QED  BY <1>1, <1>2, IssuerMoves, Zenon

LEMMA RecipientStays ==
  ASSUME RecipientInv, UNCHANGED recipientVars PROVE RecipientInv'
BY DEF recipientVars, RecipientInv, RecipientTypes, RetrieveFits, RetrievedHasReceipt,
   validate_receipt_access_retrieval_status, validate_receipt_records,
   receipt_record_matches_access, Candidate, Newest

\* A key is given out once: the drafts of the earlier keys stay.
LEMMA PrepareKeeps ==
  ASSUME IssuerInv, NEW w \in Issuer, NEW draft \in Drafts, Prepare(w, draft)
  PROVE  IssuerInv'
<1>1. CASE issuance.key # 0
  <2>1. /\ issue' = [issue EXCEPT ![w] = [pc |-> "process", rec |-> NoIssuance]]
        /\ UNCHANGED <<issuance, document, outbox, prepared, arrived>>
    BY <1>1 DEF Prepare, IssueGoto, recipientVars
  <2>2. [pc |-> "process", rec |-> NoIssuance] \in IssueState
    BY ReceiptDefaults DEF IssueState
  <2>3. IssueFits(w)'
    BY <2>1 DEF IssueFits, IssuerInv, IssuerTypes, Uploading
  <2> QED  BY <2>1, <2>2, <2>3, IssuerOnlyMoves, Zenon
<1>2. CASE issuance.key = 0
  <2> DEFINE k == Len(prepared) + 1
             new == [pc |-> "insert", rec |-> from_prepared(k)]
  <2>1. /\ validate_request_context(draft) /\ prepared' = Append(prepared, draft)
        /\ issue' = [issue EXCEPT ![w] = new]
        /\ UNCHANGED <<issuance, document, outbox, arrived>>
    BY <1>2 DEF Prepare, prepare_receipt_for_recipient, IssueGoto, recipientVars
  <2>2. prepared \in Seq(Drafts) /\ issue \in [Issuer -> IssueState]
    BY DEF IssuerInv, IssuerTypes
  <2>3. /\ prepared' \in Seq(Drafts)
        /\ DOMAIN prepared = 1 .. Len(prepared) /\ Len(prepared) \in Nat
        /\ DOMAIN prepared' = 1 .. k
        /\ \A n \in DOMAIN prepared : prepared'[n] = prepared[n]
        /\ prepared'[k] = draft
    BY <2>1, <2>2, SequencePositions, AppendProperties
  <2>4. from_prepared(k) \in IssuanceState /\ from_prepared(k).key = k
    BY <2>3, FromPrepared
  <2>5. new \in IssueState
    BY <2>4 DEF IssueState
  <2>6. IssuerTypes'
    BY <2>1, <2>2, <2>3, <2>5 DEF IssuerInv, IssuerTypes
  <2>7. \A n \in DOMAIN prepared' : validate_request_context(prepared'[n])
    BY <2>1, <2>3 DEF IssuerInv
  <2>8. outbox' = <<>> \/ \A n \in DOMAIN outbox' : FALSE
    BY <1>2, <2>1 DEF IssuerInv, Uploaded
  <2>9. ~issuance'.stored /\ validate_receipt_issuance_records'
    BY <1>2, <2>1 DEF IssuerInv, Uploaded, validate_receipt_issuance_records
  <2>10. IssueFits(w)'
    <3>1. issue'[w] = new
      BY <2>1, <2>2
    <3> HIDE DEF k
    <3> QED  BY <2>3, <2>4, <3>1 DEF IssueFits, Uploading, k
  <2>11. ASSUME NEW v \in Issuer, v # w PROVE IssueFits(v)'
    <3>1. issue'[v] = issue[v]
      BY <2>1, <2>2, <2>11
    <3>2. issue[v].pc \notin Uploading
      BY <1>2 DEF IssuerInv, IssueFits
    <3>3. DOMAIN prepared \subseteq DOMAIN prepared'
      BY <2>3
    <3> HIDE DEF k
    <3> QED  BY <3>1, <3>2, <3>3 DEF IssuerInv, IssueFits, from_prepared
  <2> QED
    BY <1>2, <2>1, <2>6, <2>7, <2>8, <2>9, <2>10, <2>11 DEF IssuerInv
<1> QED  BY <1>1, <1>2

\* Only one of the prepared records is inserted; before that no call works on one.
LEMMA InsertKeeps ==
  ASSUME IssuerInv, NEW w \in Issuer, InsertIssuance(w)
  PROVE  IssuerInv'
<1>1. /\ issue \in [Issuer -> IssueState] /\ issue[w].rec \in IssuanceState
      /\ issue[w].pc = "insert"
      /\ UNCHANGED <<document, outbox, prepared, arrived>>
  BY DEF InsertIssuance, IssueAt, recipientVars, IssuerInv, IssuerTypes, IssueState
<1>2. \E new \in IssueState :
        issue' = [issue EXCEPT ![w] = new] /\ new.pc \in {"idle", "process"}
  BY ReceiptDefaults DEF InsertIssuance, IssueReturn, IssueGoto, IssueState
<1>3. PICK new \in IssueState :
        issue' = [issue EXCEPT ![w] = new] /\ new.pc \in {"idle", "process"}
  BY <1>2, Zenon
<1>4. IssueFits(w)' /\ \A v \in Issuer : v # w => issue'[v] = issue[v]
  BY <1>1, <1>3 DEF IssueFits, Uploading
<1>5. CASE issuance.key # 0
  BY <1>1, <1>3, <1>4, <1>5, IssuerOnlyMoves, Zenon DEF InsertIssuance
<1>6. CASE issuance.key = 0
  <2>1. /\ issuance' = issue[w].rec
        /\ issue[w].rec = from_prepared(issue[w].rec.key)
        /\ issue[w].rec.key \in DOMAIN prepared
    BY <1>1, <1>6 DEF InsertIssuance, IssuerInv, IssueFits
  <2>2. /\ issuance' \in IssuanceState /\ issuance'.key \in DOMAIN prepared'
        /\ ~issuance'.stored /\ ~issuance'.queued
        /\ validate_receipt_issuance_status(issuance')
    BY <1>1, <2>1, FromPrepared DEF IssuanceState
  <2>3. IssuerTypes'
    BY <1>1, <1>3, <2>2 DEF IssuerInv, IssuerTypes
  <2>4. \A n \in DOMAIN outbox' : FALSE
    BY <1>1, <1>6 DEF IssuerInv, Uploaded
  <2>5. validate_receipt_issuance_records'
    BY <2>2 DEF validate_receipt_issuance_records
  <2>6. ASSUME NEW v \in Issuer, v # w PROVE IssueFits(v)'
    <3>1. issue'[v] = issue[v] /\ issue[v].pc \notin Uploading
      BY <1>4, <1>6, <2>6 DEF IssuerInv, IssueFits
    <3> QED  BY <1>1, <3>1 DEF IssuerInv, IssueFits, from_prepared
  <2> QED  BY <1>1, <1>4, <2>2, <2>3, <2>4, <2>5, <2>6 DEF IssuerInv
<1> QED  BY <1>5, <1>6

LEMMA ProcessKeeps ==
  ASSUME IssuerInv, NEW w \in Issuer, Process(w)
  PROVE  IssuerInv'
<1>1. /\ issue \in [Issuer -> IssueState] /\ issuance \in IssuanceState
      /\ UNCHANGED <<issuance, document, outbox, prepared, arrived>>
  BY DEF Process, recipientVars, IssuerInv, IssuerTypes
<1>2. CASE issuance.key = 0 \/ issuance.status = "AccessQueued"
  <2>1. issue' = [issue EXCEPT ![w] = IssueIdle]
    BY <1>2 DEF Process, IssueReturn
  <2>2. IssueFits(w)'
    BY <1>1, <2>1, ReceiptDefaults DEF IssueFits, Uploading
  <2> QED  BY <1>1, <2>1, <2>2, ReceiptDefaults, IssuerOnlyMoves, Zenon
<1>3. CASE ~(issuance.key = 0 \/ issuance.status = "AccessQueued")
  <2>1. PICK pc \in {"put", "enqueue"} :
          /\ issue' = [issue EXCEPT ![w] = [pc |-> pc, rec |-> issuance]]
          /\ pc = "enqueue" => issuance.stored
    BY <1>3 DEF Process, IssueGoto
  <2>2. [pc |-> pc, rec |-> issuance] \in IssueState
    BY <1>1 DEF IssueState, Uploading
  <2>3. /\ validate_receipt_issuance_status(issuance) /\ ~issuance.queued
        /\ issuance.stored => Uploaded
    BY <1>1, <1>3 DEF IssuerInv, validate_receipt_issuance_records,
       validate_receipt_issuance_status, IssuanceState
  <2>4. issue'[w].pc = pc /\ issue'[w].rec = issuance
    BY <1>1, <2>1
  <2>5. IssueFits(w)'
    BY <1>1, <1>3, <2>1, <2>3, <2>4 DEF IssueFits, Uploading, Uploaded, encrypt_for_location,
       validate_receipt_issuance_status
  <2> QED  BY <1>1, <2>1, <2>2, <2>5, IssuerOnlyMoves, Zenon
<1> QED  BY <1>2, <1>3

\* Whoever uploads, it is the same document.
LEMMA PutReceiptKeeps ==
  ASSUME IssuerInv, NEW w \in Issuer, store_encrypted_receipt_json(w)
  PROVE  IssuerInv'
<1> DEFINE rec == issue[w].rec
<1>1. /\ issue \in [Issuer -> IssueState] /\ rec \in IssuanceState
      /\ UNCHANGED <<issuance, outbox, prepared, arrived>>
      /\ rec.key = issuance.key /\ issuance.key # 0
      /\ validate_receipt_issuance_status(rec) /\ ~rec.queued
      /\ rec.stored => Uploaded
  BY DEF store_encrypted_receipt_json, IssueAt, recipientVars, IssuerInv, IssuerTypes,
     IssueState, IssueFits, Uploading
<1>2. PICK pc \in {"saveStored", "saveFailed"} :
        /\ issue' = [issue EXCEPT ![w] = [pc |-> pc, rec |-> rec]]
        /\ document' \in {document, encrypt_for_location(issuance.key)}
        /\ pc = "saveStored" => document' = encrypt_for_location(issuance.key)
  BY <1>1 DEF store_encrypted_receipt_json, IssueGoto
<1>3. /\ Uploaded => Uploaded'
      /\ pc = "saveStored" => Uploaded'
  BY <1>1, <1>2 DEF Uploaded, encrypt_for_location
<1>4. [pc |-> pc, rec |-> rec] \in IssueState
  BY <1>1 DEF IssueState, Uploading
<1>5. issue'[w].pc = pc /\ issue'[w].rec = rec
  BY <1>1, <1>2
<1>6. IssueFits(w)'
  BY <1>1, <1>2, <1>3, <1>5 DEF IssueFits, validate_receipt_issuance_status
<1>7. validate_receipt_issuance_records'
  BY <1>1 DEF IssuerInv, validate_receipt_issuance_records, validate_receipt_issuance_status,
     Arrived
<1>8. /\ issuance' \in IssuanceState /\ outbox' \in Seq(Nat)
      /\ issuance'.stored => Uploaded'
      /\ \A n \in DOMAIN outbox' : outbox'[n] = issuance.key /\ Uploaded'
  BY <1>1, <1>3 DEF IssuerInv, IssuerTypes
<1> QED  BY <1>1, <1>2, <1>3, <1>4, <1>6, <1>7, <1>8, IssuerMoves, Zenon

\* A copy that was read before is written back: its marks are true all the same.
LEMMA WriteBackKeeps ==
  ASSUME IssuerInv, NEW w \in Issuer, SaveStored(w) \/ SaveFailed(w)
  PROVE  IssuerInv'
<1> DEFINE rec == issue[w].rec
<1>1. /\ issue \in [Issuer -> IssueState] /\ rec \in IssuanceState
      /\ UNCHANGED <<document, outbox, prepared, arrived>>
      /\ rec.key = issuance.key /\ issuance.key # 0
      /\ validate_receipt_issuance_status(rec) /\ ~rec.queued
      /\ rec.stored => Uploaded
      /\ SaveStored(w) => Uploaded
  BY DEF SaveStored, SaveFailed, IssueAt, recipientVars, IssuerInv, IssuerTypes, IssueState,
     IssueFits, Uploading
<1>2. \/ SaveStored(w) /\ issuance' = mark_stored(rec)
      \/ issuance' = mark_failed(rec)
  BY DEF SaveStored, SaveFailed
<1>3. /\ issuance' \in IssuanceState /\ issuance'.key = issuance.key
      /\ ~issuance'.queued /\ validate_receipt_issuance_status(issuance')
      /\ issuance'.stored => Uploaded
  BY <1>1, <1>2, IssuanceMarks
<1>4. Uploaded' = Uploaded
  BY <1>1, <1>3 DEF Uploaded, encrypt_for_location
<1>5. validate_receipt_issuance_records'
  BY <1>3 DEF validate_receipt_issuance_records
<1>6. /\ outbox' \in Seq(Nat)
      /\ \A n \in DOMAIN outbox' : outbox'[n] = issuance.key /\ Uploaded'
  BY <1>1, <1>4 DEF IssuerInv, IssuerTypes
<1>7. CASE SaveStored(w)
  <2> DEFINE new == [pc |-> "enqueue", rec |-> mark_stored(rec)]
  <2>1. issue' = [issue EXCEPT ![w] = new]
    BY <1>7 DEF SaveStored, IssueGoto
  <2>2. new \in IssueState
    BY <1>1, IssuanceMarks DEF IssueState, Uploading
  <2>3. issue'[w].pc = "enqueue" /\ issue'[w].rec = mark_stored(rec)
    BY <1>1, <2>1
  <2>4. /\ mark_stored(rec).key = rec.key /\ mark_stored(rec).stored
        /\ validate_receipt_issuance_status(mark_stored(rec)) /\ ~mark_stored(rec).queued
    BY <1>1, IssuanceMarks
  <2>5. IssueFits(w)'
    <3>1. issue'[w].rec.key = issuance'.key /\ issuance'.key # 0 /\ Uploaded'
      BY <1>1, <1>3, <1>4, <1>7, <2>3, <2>4
    <3>2. validate_receipt_issuance_status(issue[w].rec)'
      BY <2>3, <2>4 DEF validate_receipt_issuance_status
    <3> QED  BY <2>3, <2>4, <3>1, <3>2 DEF IssueFits
  <2> HIDE DEF new
  <2> QED  BY <1>1, <1>3, <1>4, <1>5, <1>6, <2>1, <2>2, <2>5, IssuerMoves, Zenon
<1>8. CASE SaveFailed(w)
  <2>1. issue' = [issue EXCEPT ![w] = IssueIdle]
    BY <1>8 DEF SaveFailed, IssueReturn
  <2>2. IssueFits(w)'
    BY <1>1, <2>1, ReceiptDefaults DEF IssueFits, Uploading
  <2> QED
    BY <1>1, <1>3, <1>4, <1>5, <1>6, <2>1, <2>2, ReceiptDefaults, IssuerMoves, Zenon
<1> QED  BY <1>7, <1>8

\* The access is queued with the record: it is for the document that is there.
LEMMA EnqueueAccessKeeps ==
  ASSUME IssuerInv, NEW w \in Issuer, enqueue_receipt_access_for_issuance(w)
  PROVE  IssuerInv'
<1> DEFINE rec == issue[w].rec
<1>1. /\ issue \in [Issuer -> IssueState] /\ rec \in IssuanceState
      /\ UNCHANGED <<document, prepared, arrived>>
      /\ rec.key = issuance.key /\ issuance.key # 0
      /\ validate_receipt_issuance_status(rec) /\ ~rec.queued
      /\ rec.stored /\ Uploaded
  BY DEF enqueue_receipt_access_for_issuance, IssueAt, recipientVars, IssuerInv, IssuerTypes,
     IssueState, IssueFits, Uploading
<1>2. CASE outbox' = Append(outbox, rec.key) /\ issuance' = mark_access_queued(rec)
           /\ IssueReturn(w)
  <2>1. /\ issuance' \in IssuanceState /\ issuance'.key = issuance.key
        /\ validate_receipt_issuance_status(issuance')
    BY <1>1, <1>2, IssuanceMarks
  <2>2. Uploaded'
    BY <1>1, <2>1 DEF Uploaded, encrypt_for_location
  <2>3. outbox \in Seq(Nat) /\ rec.key \in Nat
    BY <1>1 DEF IssuerInv, IssuerTypes, IssuanceState
  <2>4. /\ outbox' \in Seq(Nat) /\ DOMAIN outbox = 1 .. Len(outbox) /\ Len(outbox) \in Nat
        /\ DOMAIN outbox' = 1 .. Len(outbox) + 1
        /\ \A n \in DOMAIN outbox : outbox'[n] = outbox[n]
        /\ outbox'[Len(outbox) + 1] = rec.key
    BY <1>2, <2>3, SequencePositions, AppendProperties
  <2>5. \A n \in DOMAIN outbox' : outbox'[n] = issuance.key /\ Uploaded'
    <3>1. \A n \in DOMAIN outbox' : n \in DOMAIN outbox \/ n = Len(outbox) + 1
      BY <2>4
    <3> QED  BY <1>1, <2>2, <2>4, <3>1 DEF IssuerInv
  <2>6. issuance'.key \in Range(outbox')
    BY <1>1, <2>1, <2>4 DEF Range
  <2>7. validate_receipt_issuance_records'
    BY <2>1, <2>6 DEF validate_receipt_issuance_records, validate_receipt_issuance_status
  <2>8. issue' = [issue EXCEPT ![w] = IssueIdle]
    BY <1>2 DEF IssueReturn
  <2>9. IssueFits(w)'
    BY <1>1, <2>8, ReceiptDefaults DEF IssueFits, Uploading
  <2> QED  BY <1>1, <2>1, <2>2, <2>4, <2>5, <2>7, <2>8, <2>9, ReceiptDefaults, IssuerMoves, Zenon
<1>3. CASE IssueGoto(w, "saveFailed", rec) /\ UNCHANGED <<outbox, issuance>>
  <2>1. issue' = [issue EXCEPT ![w] = [pc |-> "saveFailed", rec |-> rec]]
    BY <1>3 DEF IssueGoto
  <2>2. [pc |-> "saveFailed", rec |-> rec] \in IssueState
    BY <1>1 DEF IssueState, Uploading
  <2>3. issue'[w].pc = "saveFailed" /\ issue'[w].rec = rec
    BY <1>1, <2>1
  <2>4. IssueFits(w)'
    BY <1>1, <1>3, <2>3 DEF IssueFits, Uploading, Uploaded, encrypt_for_location,
       validate_receipt_issuance_status
  <2> QED  BY <1>1, <1>3, <2>1, <2>2, <2>4, IssuerOnlyMoves, Zenon
<1> QED  BY <1>2, <1>3 DEF enqueue_receipt_access_for_issuance

LEMMA IssuerStopsKeeps ==
  ASSUME IssuerInv, NEW w \in Issuer, IssuerStops(w)
  PROVE  IssuerInv'
<1>1. /\ issue' = [issue EXCEPT ![w] = IssueIdle]
      /\ UNCHANGED <<issuance, document, outbox, prepared, arrived>>
  BY DEF IssuerStops, IssueReturn, recipientVars
<1>2. IssueFits(w)'
  BY <1>1, ReceiptDefaults DEF IssuerInv, IssuerTypes, IssueFits, Uploading
<1> QED  BY <1>1, <1>2, ReceiptDefaults, IssuerOnlyMoves, Zenon

\* The restored issuer knows nothing of the receipt, and no call does.
LEMMA RestoreIssuerKeeps == ASSUME IssuerInv, RestoreIssuer PROVE IssuerInv'
<1>1. /\ issuance' = NoIssuance /\ outbox' = <<>>
      /\ UNCHANGED <<document, prepared, issue, arrived>>
      /\ \A w \in Issuer : issue[w].pc = "idle"
  BY DEF RestoreIssuer, IssueAt, recipientVars
<1>2. IssuerTypes'
  BY <1>1, ReceiptDefaults DEF IssuerInv, IssuerTypes
<1>3. \A w \in Issuer : IssueFits(w)'
  BY <1>1 DEF IssueFits, Uploading
<1> QED
  BY <1>1, <1>2, <1>3, ReceiptDefaults DEF IssuerInv, validate_receipt_issuance_records

-----------------------------------------------------------------------------
(* The recipient                                                           *)

\* A retrieval that does not move keeps its candidate, while accesses arrive and are marked.
LEMMA OthersFit ==
  ASSUME RecipientInv, NEW v \in Retriever, retrieve'[v] = retrieve[v],
         DOMAIN arrived \subseteq DOMAIN arrived',
         \A n \in DOMAIN arrived : /\ arrived'[n].key = arrived[n].key
                                   /\ arrived'[n].terms = arrived[n].terms,
         receipt # NoReceipt => receipt' # NoReceipt
  PROVE  RetrieveFits(v)'
<1>1. arrived \in Seq(AccessState) /\ RetrieveFits(v)
  BY DEF RecipientInv, RecipientTypes
<1>2. Newest(v)' = Newest(v)
  BY DEF Newest
<1>3. retrieve[v].pc = "save" => Newest(v) \in DOMAIN arrived
  BY <1>1, NewestIsTodo DEF RetrieveFits
<1>4. retrieve[v].pc = "save" /\ retrieve[v].found = "Retrieved" =>
        receipt_record_matches_access(retrieve[v].rec, Candidate(v))'
  BY <1>1, <1>2, <1>3 DEF RetrieveFits, receipt_record_matches_access, Candidate
<1> QED  BY <1>1, <1>4 DEF RetrieveFits

\* A retrieval moves; accesses keep their keys and terms, and the receipt stays.
LEMMA RetrieverMoves ==
  ASSUME IssuerInv, RecipientInv, UNCHANGED issuerVars, NEW w \in Retriever,
         NEW new \in RetrieveState, retrieve' = [retrieve EXCEPT ![w] = new], RetrieveFits(w)',
         arrived' \in Seq(AccessState), DOMAIN arrived' = DOMAIN arrived,
         \A n \in DOMAIN arrived : /\ arrived'[n].key = arrived[n].key
                                   /\ arrived'[n].terms = arrived[n].terms,
         receipt' \in ReceiptState, receipt # NoReceipt => receipt' # NoReceipt,
         RetrievedHasReceipt'
  PROVE  ReceiptsInv'
<1>1. RecipientTypes'
  BY DEF RecipientInv, RecipientTypes
<1>2. ASSUME NEW v \in Retriever, v # w PROVE RetrieveFits(v)'
  <2>1. retrieve'[v] = retrieve[v]
    BY <1>2 DEF RecipientInv, RecipientTypes
  <2> QED  BY <2>1, OthersFit
<1>3. \A n \in DOMAIN arrived' : arrived'[n].key # 0
  BY DEF RecipientInv
<1>4. Arrived' = Arrived
  BY DEF Arrived
<1>5. IssuerInv'
  BY <1>4 DEF issuerVars, IssuerInv, IssuerTypes, IssueFits, Uploaded, encrypt_for_location,
     validate_receipt_issuance_records, validate_receipt_issuance_status, from_prepared,
     validate_request_context
<1> QED  BY <1>1, <1>2, <1>3, <1>5 DEF RecipientInv, ReceiptsInv

\* A retrieval moves, and leaves the records alone.
LEMMA RetrieverOnlyMoves ==
  ASSUME IssuerInv, RecipientInv, UNCHANGED <<issuerVars, arrived, receipt>>,
         NEW w \in Retriever, NEW new \in RetrieveState,
         retrieve' = [retrieve EXCEPT ![w] = new], RetrieveFits(w)'
  PROVE  ReceiptsInv'
<1>1. RetrievedHasReceipt'
  BY DEF RecipientInv, RetrievedHasReceipt, validate_receipt_access_retrieval_status,
     validate_receipt_records, receipt_record_matches_access
<1>2. arrived' \in Seq(AccessState) /\ receipt' \in ReceiptState
  BY DEF RecipientInv, RecipientTypes
<1> QED  BY <1>1, <1>2, RetrieverMoves, Zenon

\* The marks of an access agree with its status, whichever copy they come from.
LEMMA MarkedAccessFits ==
  ASSUME NEW a \in AccessState, validate_receipt_access_retrieval_status(a),
         NEW status \in RetrievalStatus, status = "Pending" => a.status = "Pending"
  PROVE  /\ MarkedAccess(a, status) \in AccessState
         /\ MarkedAccess(a, status).key = a.key /\ MarkedAccess(a, status).terms = a.terms
         /\ MarkedAccess(a, status).status = status
         /\ validate_receipt_access_retrieval_status(MarkedAccess(a, status))
<1>1. CASE status = a.status
  BY <1>1 DEF MarkedAccess
<1>2. CASE status # a.status /\ status = "Retrieved"
  BY <1>2, Zenon DEF MarkedAccess, mark_retrieved, AccessState, RetrievalStatus,
     validate_receipt_access_retrieval_status
<1>3. CASE status # a.status /\ status # "Retrieved"
  BY <1>3, Zenon DEF MarkedAccess, mark_retrieval_error, AccessState, RetrievalStatus,
     validate_receipt_access_retrieval_status
<1> QED  BY <1>1, <1>2, <1>3

\* One access is marked with the outcome of a fetch.
LEMMA SavedAccess ==
  ASSUME RecipientInv, NEW n \in DOMAIN arrived,
         NEW status \in {"Retrieved", "NotFound", "Failed"}
  PROVE  LET saved == SaveAccess(n, status) IN
         /\ saved \in Seq(AccessState) /\ DOMAIN saved = DOMAIN arrived
         /\ \A k \in DOMAIN arrived :
              /\ saved[k].key = arrived[k].key /\ saved[k].terms = arrived[k].terms
              /\ saved[k].status \in {arrived[k].status, status}
              /\ validate_receipt_access_retrieval_status(saved[k])
<1> DEFINE saved == SaveAccess(n, status)
<1>1. /\ arrived \in Seq(AccessState) /\ DOMAIN arrived = 1 .. Len(arrived)
      /\ Len(arrived) \in Nat
      /\ \A k \in DOMAIN arrived : /\ arrived[k] \in AccessState
                                   /\ validate_receipt_access_retrieval_status(arrived[k])
  BY SequencePositions DEF RecipientInv, RecipientTypes, RetrievedHasReceipt
<1>2. DOMAIN saved = DOMAIN arrived /\ saved = [k \in DOMAIN arrived |-> saved[k]]
  BY DEF SaveAccess
<1>3. \A k \in DOMAIN arrived : saved[k] = arrived[k] \/ saved[k] = MarkedAccess(arrived[k], status)
  BY DEF SaveAccess
<1> HIDE DEF saved
<1>4. ASSUME NEW k \in DOMAIN arrived
      PROVE  /\ saved[k] \in AccessState
             /\ saved[k].key = arrived[k].key /\ saved[k].terms = arrived[k].terms
             /\ saved[k].status \in {arrived[k].status, status}
             /\ validate_receipt_access_retrieval_status(saved[k])
  <2>1. status \in RetrievalStatus /\ status # "Pending"
    BY DEF RetrievalStatus
  <2> QED  BY <1>1, <1>3, <2>1, MarkedAccessFits
<1>5. saved \in [1 .. Len(arrived) -> AccessState]
  BY <1>1, <1>2, <1>4
<1>6. saved \in Seq(AccessState)
  BY <1>1, <1>5, SeqDef
<1> QED  BY <1>2, <1>4, <1>6 DEF saved

\* The next access is indexed, unless it is a duplicate; it is Pending.
LEMMA ArriveKeeps == ASSUME ReceiptsInv, Arrive PROVE ReceiptsInv'
<1> DEFINE k == Head(outbox)
<1>1. /\ IssuerInv /\ RecipientInv /\ outbox \in Seq(Nat) /\ outbox # <<>>
      /\ outbox' = Tail(outbox)
      /\ UNCHANGED <<issuance, document, prepared, issue, receipt, retrieve>>
      /\ arrived \in Seq(AccessState)
  BY DEF ReceiptsInv, IssuerInv, IssuerTypes, RecipientInv, RecipientTypes, Arrive
<1>2. /\ Len(outbox) \in Nat \ {0} /\ DOMAIN outbox = 1 .. Len(outbox)
      /\ k = outbox[1] /\ outbox' \in Seq(Nat)
      /\ DOMAIN outbox' = 1 .. Len(outbox) - 1
      /\ \A n \in DOMAIN outbox' : outbox'[n] = outbox[n + 1]
  BY <1>1, SequencePositions, EmptySeq, HeadTailProperties
<1>3. k = issuance.key /\ Uploaded /\ k \in DOMAIN prepared /\ k \in Nat \ {0}
  BY <1>1, <1>2 DEF IssuerInv, IssuerTypes, IssuanceState, Uploaded
<1>4. /\ NewAccess(k) \in AccessState /\ NewAccess(k).key = k
      /\ NewAccess(k).status = "Pending"
      /\ validate_receipt_access_retrieval_status(NewAccess(k))
  <2>1. prepared[k] \in Drafts
    BY <1>1, <1>3, SequencePositions DEF IssuerInv, IssuerTypes
  <2> QED  BY <1>3, <2>1 DEF NewAccess, AccessState, RetrievalStatus,
              validate_receipt_access_retrieval_status
<1> HIDE DEF k
<1>5. /\ DOMAIN arrived = 1 .. Len(arrived) /\ Len(arrived) \in Nat
      /\ arrived' \in Seq(AccessState)
      /\ DOMAIN arrived \subseteq DOMAIN arrived'
      /\ \A n \in DOMAIN arrived : arrived'[n] = arrived[n]
      /\ \A n \in DOMAIN arrived' : n \in DOMAIN arrived \/ arrived'[n] = NewAccess(k)
      /\ k \in Arrived'
  <2>1. CASE k \in Arrived
    <3>1. arrived' = arrived
      BY <2>1 DEF Arrive, k
    <3> QED  BY <1>1, <2>1, <3>1, SequencePositions DEF Arrived
  <2>2. CASE k \notin Arrived
    <3>1. arrived' = Append(arrived, NewAccess(k))
      BY <2>2 DEF Arrive, k
    <3>2. /\ arrived' \in Seq(AccessState)
          /\ DOMAIN arrived = 1 .. Len(arrived) /\ Len(arrived) \in Nat
          /\ DOMAIN arrived' = 1 .. Len(arrived) + 1
          /\ \A n \in DOMAIN arrived : arrived'[n] = arrived[n]
          /\ arrived'[Len(arrived) + 1] = NewAccess(k)
      BY <1>1, <1>4, <3>1, SequencePositions, AppendProperties
    <3>3. \A n \in DOMAIN arrived' : n \in DOMAIN arrived \/ n = Len(arrived) + 1
      BY <3>2
    <3>4. Len(arrived) + 1 \in DOMAIN arrived' /\ DOMAIN arrived \subseteq DOMAIN arrived'
      BY <3>2
    <3> QED  BY <1>4, <3>2, <3>3, <3>4 DEF Arrived
  <2> QED  BY <2>1, <2>2
<1>6. RetrievedHasReceipt'
  <2>1. \A n \in DOMAIN arrived' : validate_receipt_access_retrieval_status(arrived'[n])
    BY <1>1, <1>4, <1>5 DEF RecipientInv, RetrievedHasReceipt
  <2>2. (\E n \in DOMAIN arrived' : arrived'[n].status = "Retrieved") => receipt' # NoReceipt
    BY <1>1, <1>4, <1>5 DEF RecipientInv, RetrievedHasReceipt
  <2>3. validate_receipt_records'
    BY <1>1, <1>5, SMTT(20) DEF RecipientInv, RetrievedHasReceipt, validate_receipt_records,
       receipt_record_matches_access
  <2>4. \A n \in DOMAIN arrived' : validate_receipt_access_retrieval_status(arrived[n])'
    BY <2>1 DEF validate_receipt_access_retrieval_status
  <2> QED  BY <2>2, <2>3, <2>4 DEF RetrievedHasReceipt
<1>7. RecipientInv'
  <2>1. \A v \in Retriever : RetrieveFits(v)'
    BY <1>1, <1>5, OthersFit, SMTT(20)
  <2>2. \A n \in DOMAIN arrived' : arrived'[n].key # 0
    BY <1>1, <1>3, <1>4, <1>5 DEF RecipientInv
  <2> QED  BY <1>1, <1>5, <1>6, <2>1, <2>2 DEF RecipientInv, RecipientTypes
<1>8. IssuerInv'
  <2>1. Uploaded' = Uploaded
    BY <1>1 DEF Uploaded, encrypt_for_location
  <2>2. \A n \in DOMAIN outbox' : outbox'[n] = issuance.key
    <3>1. \A n \in DOMAIN outbox' : n + 1 \in DOMAIN outbox
      BY <1>2
    <3> QED  BY <1>1, <1>2, <3>1 DEF IssuerInv
  <2>3. validate_receipt_issuance_records'
    BY <1>1, <1>3, <1>5 DEF IssuerInv, validate_receipt_issuance_records,
       validate_receipt_issuance_status
  <2>4. \A w \in Issuer : IssueFits(w)'
    BY <1>1, <2>1 DEF IssuerInv, IssueFits, validate_receipt_issuance_status, from_prepared
  <2>5. IssuerTypes'
    BY <1>1, <1>2 DEF IssuerInv, IssuerTypes
  <2> QED
    BY <1>1, <1>3, <2>1, <2>2, <2>3, <2>4, <2>5 DEF IssuerInv, validate_request_context
<1> QED  BY <1>7, <1>8 DEF ReceiptsInv

LEMMA RetrieveKeeps ==
  ASSUME ReceiptsInv, NEW w \in Retriever, RetrieveReceipt(w)
  PROVE  ReceiptsInv'
<1> DEFINE usable == {n \in DOMAIN arrived : arrived[n].key \notin conflicted}
<1>1. /\ IssuerInv /\ RecipientInv /\ arrived \in Seq(AccessState) /\ receipt \in ReceiptState
      /\ retrieve \in [Retriever -> RetrieveState]
      /\ UNCHANGED <<issuerVars, arrived, receipt>> /\ usable # {}
  BY DEF ReceiptsInv, RecipientInv, RecipientTypes, RetrieveReceipt
<1>2. usable \in SUBSET Nat /\ {arrived[n] : n \in usable} \in SUBSET AccessState
  BY <1>1, SequencePositions
<1>3. PICK pc \in {"reconcile", "fetch"} :
        /\ retrieve' = [retrieve EXCEPT ![w] =
             [pc |-> pc, todo |-> usable, all |-> {arrived[n] : n \in usable},
              found |-> "none", rec |-> receipt]]
        /\ pc = "reconcile" => receipt # NoReceipt
  BY Zenon DEF RetrieveReceipt
<1> DEFINE new == [pc |-> pc, todo |-> usable, all |-> {arrived[n] : n \in usable},
                   found |-> "none", rec |-> receipt]
<1>4. new \in RetrieveState
  <2> HIDE DEF usable
  <2> QED  BY <1>1, <1>2, Zenon DEF RetrieveState
<1>5. retrieve'[w] = new
  BY <1>1, <1>3
<1>6. RetrieveFits(w)'
  BY <1>1, <1>3, <1>5 DEF RetrieveFits
<1> HIDE DEF new
<1> QED  BY <1>1, <1>3, <1>4, <1>6, RetrieverOnlyMoves, Zenon DEF new

\* What a fetch opens is the receipt of the access it was fetched for.
LEMMA FetchKeeps ==
  ASSUME ReceiptsInv, NEW w \in Retriever, fetch_encrypted_receipt_json(w)
  PROVE  ReceiptsInv'
<1>1. /\ IssuerInv /\ RecipientInv /\ RetrieveFits(w) /\ arrived \in Seq(AccessState)
      /\ retrieve \in [Retriever -> RetrieveState] /\ retrieve[w].pc = "fetch"
      /\ UNCHANGED <<issuerVars, arrived, receipt>>
  BY Zenon DEF ReceiptsInv, RecipientInv, RecipientTypes, fetch_encrypted_receipt_json, RetrieveAt
<1>2. /\ retrieve[w].todo # {} /\ retrieve[w].todo \subseteq DOMAIN arrived
      /\ Newest(w) \in DOMAIN arrived
  BY <1>1, NewestIsTodo, Zenon DEF RetrieveFits
<1>3. Candidate(w) \in AccessState
  BY <1>1, <1>2, SequencePositions DEF Candidate
<1>4. PICK found \in {"Retrieved", "NotFound", "Failed"}, rec \in ReceiptState :
        /\ retrieve' = [retrieve EXCEPT ![w].found = found, ![w].rec = rec, ![w].pc = "save"]
        /\ found = "Retrieved" => receipt_record_matches_access(rec, Candidate(w))
  <2>1. \A rec \in decrypt_receipt_record_from_access(Candidate(w), document) :
          rec \in ReceiptState /\ receipt_record_matches_access(rec, Candidate(w))
    BY <1>3 DEF decrypt_receipt_record_from_access, from_receipt,
       validate_receipt_matches_access, receipt_record_matches_access, ReceiptState, AccessState
  <2> QED  BY <2>1, ReceiptDefaults, Zenon DEF fetch_encrypted_receipt_json
<1>5. PICK new \in RetrieveState :
        /\ retrieve' = [retrieve EXCEPT ![w] = new]
        /\ new.pc = "save" /\ new.found = found /\ new.rec = rec /\ new.todo = retrieve[w].todo
  <2> DEFINE new == [retrieve[w] EXCEPT !.found = found, !.rec = rec, !.pc = "save"]
  <2>1. /\ new \in RetrieveState
        /\ new.pc = "save" /\ new.found = found /\ new.rec = rec /\ new.todo = retrieve[w].todo
    BY <1>1, Zenon DEF RetrieveState
  <2>2. retrieve' = [retrieve EXCEPT ![w] = new]
    BY <1>1, <1>4 DEF RetrieveState
  <2> HIDE DEF new
  <2> QED  BY <2>1, <2>2, Zenon
<1>6. retrieve'[w] = new
  BY <1>1, <1>5
<1>7. Newest(w)' = Newest(w) /\ Candidate(w)' = Candidate(w)
  BY <1>1, <1>5, <1>6 DEF Newest, Candidate
<1>8. RetrieveFits(w)'
  BY <1>1, <1>2, <1>4, <1>5, <1>6, <1>7, SMTT(15) DEF RetrieveFits, receipt_record_matches_access
<1> QED  BY <1>1, <1>5, <1>8, RetrieverOnlyMoves, Zenon

\* A failed fetch is recorded, and never as Retrieved.
LEMMA RetrievalErrorKeeps ==
  ASSUME ReceiptsInv, NEW w \in Retriever, SaveRetrievalError(w)
  PROVE  ReceiptsInv'
<1>1. /\ IssuerInv /\ RecipientInv /\ RetrieveFits(w) /\ arrived \in Seq(AccessState)
      /\ retrieve \in [Retriever -> RetrieveState] /\ retrieve[w].pc = "save"
      /\ receipt \in ReceiptState /\ UNCHANGED <<issuerVars, receipt>>
      /\ retrieve[w].found \in {"NotFound", "Failed"}
  BY SMTT(20) DEF ReceiptsInv, RecipientInv, RecipientTypes, SaveRetrievalError, RetrieveAt,
     RetrieveFits, RetrieveState
<1>2. /\ retrieve[w].todo # {} /\ retrieve[w].todo \subseteq DOMAIN arrived
      /\ Newest(w) \in DOMAIN arrived /\ Newest(w) \in retrieve[w].todo
  BY <1>1, NewestIsTodo DEF RetrieveFits
<1>3. arrived' = SaveAccess(Newest(w), retrieve[w].found)
  BY SMTT(20) DEF SaveRetrievalError
<1>4. /\ arrived' \in Seq(AccessState) /\ DOMAIN arrived' = DOMAIN arrived
      /\ \A k \in DOMAIN arrived :
           /\ arrived'[k].key = arrived[k].key /\ arrived'[k].terms = arrived[k].terms
           /\ arrived'[k].status \in {arrived[k].status, "NotFound", "Failed"}
           /\ validate_receipt_access_retrieval_status(arrived'[k])
  BY <1>1, <1>2, <1>3, SavedAccess, SMTT(20)
<1>5. RetrievedHasReceipt'
  <2>1. \A k \in DOMAIN arrived' : validate_receipt_access_retrieval_status(arrived[k])'
    BY <1>4 DEF validate_receipt_access_retrieval_status
  <2>2. (\E n \in DOMAIN arrived' : arrived'[n].status = "Retrieved") => receipt' # NoReceipt
    BY <1>1, <1>4 DEF RecipientInv, RetrievedHasReceipt
  <2>3. validate_receipt_records'
    BY <1>1, <1>4 DEF RecipientInv, RetrievedHasReceipt, validate_receipt_records,
       receipt_record_matches_access
  <2> QED  BY <2>1, <2>2, <2>3 DEF RetrievedHasReceipt
<1>6. PICK new \in RetrieveState :
        /\ retrieve' = [retrieve EXCEPT ![w] = new]
        /\ \/ new.pc = "idle" /\ new.todo = {}
           \/ /\ new.pc = "fetch" /\ new.todo # {}
              /\ new.todo \subseteq retrieve[w].todo
  <2>1. CASE retrieve[w].todo = {Newest(w)}
    BY <2>1, ReceiptDefaults DEF SaveRetrievalError, RetrieveReturn
  <2>2. CASE retrieve[w].todo # {Newest(w)}
    <3> DEFINE new == [retrieve[w] EXCEPT !.pc = "fetch", !.todo = @ \ {Newest(w)}]
    <3>1. /\ new \in RetrieveState /\ new.pc = "fetch"
          /\ new.todo = retrieve[w].todo \ {Newest(w)}
      BY <1>1, Zenon DEF RetrieveState
    <3>2. retrieve' = [retrieve EXCEPT ![w] = new]
      BY <1>1, <2>2, Zenon DEF SaveRetrievalError, RetrieveState
    <3>3. new.todo # {} /\ new.todo \subseteq retrieve[w].todo
      BY <1>2, <2>2, <3>1
    <3> HIDE DEF new
    <3> QED  BY <3>1, <3>2, <3>3, Zenon
  <2> QED  BY <2>1, <2>2
<1>7. retrieve'[w] = new
  BY <1>1, <1>6
<1>8. RetrieveFits(w)'
  BY <1>2, <1>4, <1>6, <1>7, Zenon DEF RetrieveFits
<1> QED  BY <1>1, <1>4, <1>5, <1>6, <1>8, RetrieverMoves, Zenon

\* The access and its receipt are saved together.
LEMMA SaveReceiptKeeps ==
  ASSUME ReceiptsInv, NEW w \in Retriever, SaveReceipt(w)
  PROVE  ReceiptsInv'
<1>1. /\ IssuerInv /\ RecipientInv /\ RetrieveFits(w) /\ arrived \in Seq(AccessState)
      /\ retrieve \in [Retriever -> RetrieveState] /\ retrieve[w].pc = "save"
      /\ receipt' = retrieve[w].rec /\ retrieve[w].rec \in ReceiptState
      /\ UNCHANGED issuerVars /\ retrieve[w].found = "Retrieved"
      /\ retrieve' = [retrieve EXCEPT ![w].pc = "reconcile"]
  BY DEF ReceiptsInv, RecipientInv, RecipientTypes, SaveReceipt, RetrieveAt, RetrieveState
<1>2. /\ retrieve[w].todo # {} /\ retrieve[w].todo \subseteq DOMAIN arrived
      /\ Newest(w) \in DOMAIN arrived
      /\ receipt_record_matches_access(retrieve[w].rec, arrived[Newest(w)])
  BY <1>1, NewestIsTodo DEF RetrieveFits, Candidate
<1>3. receipt' # NoReceipt
  BY <1>1, <1>2, ReceiptDefaults DEF receipt_record_matches_access, RecipientInv
<1>4. arrived' = SaveAccess(Newest(w), "Retrieved")
  BY DEF SaveReceipt
<1>5. /\ arrived' \in Seq(AccessState) /\ DOMAIN arrived' = DOMAIN arrived
      /\ \A k \in DOMAIN arrived :
           /\ arrived'[k].key = arrived[k].key /\ arrived'[k].terms = arrived[k].terms
           /\ validate_receipt_access_retrieval_status(arrived'[k])
  BY <1>1, <1>2, <1>4, SavedAccess
<1>6. RetrievedHasReceipt'
  <2>1. \A k \in DOMAIN arrived' : validate_receipt_access_retrieval_status(arrived[k])'
    BY <1>5 DEF validate_receipt_access_retrieval_status
  <2>2. validate_receipt_records'
    BY <1>1, <1>2, <1>5 DEF validate_receipt_records, receipt_record_matches_access
  <2> QED  BY <1>3, <2>1, <2>2 DEF RetrievedHasReceipt
<1>7. PICK new \in RetrieveState :
        /\ retrieve' = [retrieve EXCEPT ![w] = new]
        /\ new.pc = "reconcile" /\ new.todo = retrieve[w].todo
  <2> DEFINE new == [retrieve[w] EXCEPT !.pc = "reconcile"]
  <2>1. new \in RetrieveState /\ new.pc = "reconcile" /\ new.todo = retrieve[w].todo
    BY <1>1, Zenon DEF RetrieveState
  <2>2. retrieve' = [retrieve EXCEPT ![w] = new]
    BY <1>1
  <2> HIDE DEF new
  <2> QED  BY <2>1, <2>2, Zenon
<1>8. retrieve'[w] = new
  BY <1>1, <1>7
<1>9. RetrieveFits(w)'
  BY <1>2, <1>3, <1>5, <1>7, <1>8, SMTT(15) DEF RetrieveFits
<1> QED  BY <1>1, <1>3, <1>5, <1>6, <1>7, <1>9, RetrieverMoves, Zenon

\* The other accesses are marked by what was read before; a receipt is stored by now.
LEMMA ReconcileKeeps ==
  ASSUME ReceiptsInv, NEW w \in Retriever, reconcile_cached_receipt_access_records(w)
  PROVE  ReceiptsInv'
<1>1. /\ IssuerInv /\ RecipientInv /\ RetrieveFits(w) /\ arrived \in Seq(AccessState)
      /\ retrieve \in [Retriever -> RetrieveState] /\ retrieve[w].pc = "reconcile"
      /\ receipt \in ReceiptState /\ UNCHANGED <<issuerVars, receipt>>
      /\ retrieve' = [retrieve EXCEPT ![w] = RetrieveIdle]
      /\ arrived' = [n \in DOMAIN arrived |->
                       MarkedAccess(arrived[n], ReconciledStatus(w, arrived[n]))]
  BY DEF ReceiptsInv, RecipientInv, RecipientTypes, reconcile_cached_receipt_access_records,
     RetrieveAt, RetrieveReturn
<1>2. receipt' # NoReceipt
  BY <1>1 DEF RetrieveFits
<1>3. ASSUME NEW n \in DOMAIN arrived
      PROVE  /\ arrived'[n] \in AccessState
             /\ arrived'[n].key = arrived[n].key /\ arrived'[n].terms = arrived[n].terms
             /\ validate_receipt_access_retrieval_status(arrived'[n])
  <2>1. arrived[n] \in AccessState /\ validate_receipt_access_retrieval_status(arrived[n])
    BY <1>1, SequencePositions DEF RecipientInv, RetrievedHasReceipt
  <2>2. ReconciledStatus(w, arrived[n]) \in {"Retrieved", "Failed", arrived[n].status}
    BY DEF ReconciledStatus
  <2>3. /\ ReconciledStatus(w, arrived[n]) \in RetrievalStatus
        /\ ReconciledStatus(w, arrived[n]) = "Pending" => arrived[n].status = "Pending"
    BY <2>1, <2>2 DEF AccessState, RetrievalStatus
  <2>4. arrived'[n] = MarkedAccess(arrived[n], ReconciledStatus(w, arrived[n]))
    BY <1>1
  <2> QED  BY <2>1, <2>3, <2>4, MarkedAccessFits
<1>4. arrived' \in Seq(AccessState) /\ DOMAIN arrived' = DOMAIN arrived
  <2>1. DOMAIN arrived = 1 .. Len(arrived) /\ Len(arrived) \in Nat
    BY <1>1, SequencePositions
  <2>2. arrived' = [n \in DOMAIN arrived |-> arrived'[n]]
    BY <1>1
  <2>3. arrived' \in [1 .. Len(arrived) -> AccessState]
    BY <1>3, <2>1, <2>2
  <2> QED  BY <2>1, <2>3, SeqDef
<1>5. RetrievedHasReceipt'
  <2>1. \A k \in DOMAIN arrived' : validate_receipt_access_retrieval_status(arrived[k])'
    BY <1>3, <1>4 DEF validate_receipt_access_retrieval_status
  <2>2. validate_receipt_records'
    BY <1>1, <1>3, <1>4 DEF RecipientInv, RetrievedHasReceipt, validate_receipt_records,
       receipt_record_matches_access
  <2> QED  BY <1>2, <2>1, <2>2 DEF RetrievedHasReceipt
<1>6. RetrieveFits(w)'
  BY <1>1, ReceiptDefaults DEF RetrieveFits
<1> QED  BY <1>1, <1>2, <1>3, <1>4, <1>5, <1>6, ReceiptDefaults, RetrieverMoves, Zenon

LEMMA RetrieverStopsKeeps ==
  ASSUME ReceiptsInv, NEW w \in Retriever, RetrieverStops(w)
  PROVE  ReceiptsInv'
<1>1. /\ IssuerInv /\ RecipientInv /\ retrieve \in [Retriever -> RetrieveState]
      /\ UNCHANGED <<issuerVars, arrived, receipt>>
      /\ retrieve' = [retrieve EXCEPT ![w] = RetrieveIdle]
  BY DEF ReceiptsInv, RecipientInv, RecipientTypes, RetrieverStops, RetrieveReturn
<1>2. RetrieveFits(w)'
  BY <1>1, ReceiptDefaults DEF RetrieveFits
<1> QED  BY <1>1, <1>2, ReceiptDefaults, RetrieverOnlyMoves, Zenon

LEMMA ReceiptsInitial == ReceiptsInit => ReceiptsInv
<1> SUFFICES ASSUME ReceiptsInit PROVE ReceiptsInv
  OBVIOUS
<1>1. IssuerInv
  BY ReceiptDefaults DEF ReceiptsInit, IssuerInv, IssuerTypes, IssueFits, Uploading,
     validate_receipt_issuance_records
<1>2. RecipientInv
  BY ReceiptDefaults DEF ReceiptsInit, RecipientInv, RecipientTypes, RetrieveFits,
     RetrievedHasReceipt, validate_receipt_records
<1> QED  BY <1>1, <1>2 DEF ReceiptsInv

LEMMA ReceiptsStay ==
  ASSUME ReceiptsInv, UNCHANGED <<issuerVars, arrived, receipt, retrieve>>
  PROVE  ReceiptsInv'
<1>1. IssuerInv'
  BY DEF ReceiptsInv, issuerVars, IssuerInv, IssuerTypes, IssueFits, Uploaded,
     encrypt_for_location, validate_receipt_issuance_records,
     validate_receipt_issuance_status, from_prepared, validate_request_context, Arrived
<1>2. RecipientInv'
  BY DEF ReceiptsInv, RecipientInv, RecipientTypes, RetrieveFits, RetrievedHasReceipt,
     validate_receipt_access_retrieval_status, validate_receipt_records,
     receipt_record_matches_access, Candidate, Newest
<1> QED  BY <1>1, <1>2 DEF ReceiptsInv

LEMMA ReceiptsStep == ASSUME ReceiptsInv, ReceiptsNext PROVE ReceiptsInv'
<1>1. IssuerInv /\ RecipientInv
  BY DEF ReceiptsInv
<1>2. ASSUME NEW w \in Issuer, NEW draft \in Drafts, Prepare(w, draft) PROVE ReceiptsInv'
  BY <1>1, <1>2, PrepareKeeps, RecipientStays DEF Prepare, ReceiptsInv
<1>3. ASSUME NEW w \in Issuer, InsertIssuance(w) PROVE ReceiptsInv'
  BY <1>1, <1>3, InsertKeeps, RecipientStays DEF InsertIssuance, ReceiptsInv
<1>4. ASSUME NEW w \in Issuer, Process(w) PROVE ReceiptsInv'
  BY <1>1, <1>4, ProcessKeeps, RecipientStays DEF Process, ReceiptsInv
<1>5. ASSUME NEW w \in Issuer, store_encrypted_receipt_json(w) PROVE ReceiptsInv'
  BY <1>1, <1>5, PutReceiptKeeps, RecipientStays DEF store_encrypted_receipt_json, ReceiptsInv
<1>6. ASSUME NEW w \in Issuer, SaveStored(w) \/ SaveFailed(w) PROVE ReceiptsInv'
  BY <1>1, <1>6, WriteBackKeeps, RecipientStays DEF SaveStored, SaveFailed, ReceiptsInv
<1>7. ASSUME NEW w \in Issuer, enqueue_receipt_access_for_issuance(w) PROVE ReceiptsInv'
  BY <1>1, <1>7, EnqueueAccessKeeps, RecipientStays
     DEF enqueue_receipt_access_for_issuance, ReceiptsInv
<1>8. ASSUME NEW w \in Issuer, IssuerStops(w) PROVE ReceiptsInv'
  BY <1>1, <1>8, IssuerStopsKeeps, RecipientStays DEF IssuerStops, ReceiptsInv
<1>9. CASE RestoreIssuer
  BY <1>1, <1>9, RestoreIssuerKeeps, RecipientStays DEF RestoreIssuer, ReceiptsInv
<1>10. ASSUME NEW k \in Key, EventConflicts(k) PROVE ReceiptsInv'
  BY <1>10, ReceiptsStay DEF EventConflicts
<1> QED
  BY <1>2, <1>3, <1>4, <1>5, <1>6, <1>7, <1>8, <1>9, <1>10, ArriveKeeps, RetrieveKeeps,
     FetchKeeps, RetrievalErrorKeeps, SaveReceiptKeeps, ReconcileKeeps, RetrieverStopsKeeps
     DEF ReceiptsNext

LEMMA ReceiptsInvariant == ReceiptsSpec => []ReceiptsInv
<1>1. ReceiptsInv /\ [ReceiptsNext]_receiptVars => ReceiptsInv'
  BY ReceiptsStep, ReceiptsStay DEF receiptVars, recipientVars
<1> QED  BY ReceiptsInitial, <1>1, PTL DEF ReceiptsSpec

\* The issuance record tells the truth, whichever of any number of overlapping calls of
\* process_receipt_issuance wrote it last: all of them upload the document of the key that
\* prepare_receipt_issuance inserted, and every queued Receipt Access opens it.
THEOREM IssuanceTheorem == ReceiptsSpec => []IssuanceIsTrue
<1>1. ReceiptsInv => IssuanceIsTrue
  <2> SUFFICES ASSUME ReceiptsInv PROVE IssuanceIsTrue
    OBVIOUS
  <2>1. IssuerInv
    BY DEF ReceiptsInv
  <2>2. ASSUME NEW n \in DOMAIN outbox PROVE decrypt(document, outbox[n]) # {}
    <3>1. Uploaded /\ outbox[n] = issuance.key /\ issuance.key \in DOMAIN prepared
      BY <2>1 DEF IssuerInv, Uploaded
    <3>2. validate_request_context(prepared[issuance.key])
      BY <2>1, <3>1 DEF IssuerInv
    <3> QED  BY <3>1, <3>2 DEF Uploaded, encrypt_for_location, decrypt
  <2>3. issuance.stored => document = encrypt_for_location(issuance.key)
    BY <2>1 DEF IssuerInv, Uploaded
  <2> QED  BY <2>1, <2>2, <2>3 DEF IssuerInv, IssuanceIsTrue
<1> QED  BY ReceiptsInvariant, <1>1, PTL

\* An access is Retrieved only with a receipt stored, and the stored receipt is that of an
\* indexed access: for any number of overlapping calls of retrieve_receipt with their stale
\* copies and late errors.
THEOREM RetrievedTheorem == ReceiptsSpec => []RetrievedHasReceipt
<1>1. ReceiptsInv => RetrievedHasReceipt
  BY DEF ReceiptsInv, RecipientInv
<1> QED  BY ReceiptsInvariant, <1>1, PTL

=============================================================================
