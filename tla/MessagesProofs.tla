--------------------------- MODULE MessagesProofs ---------------------------
(***************************************************************************)
(* What is kept by the receiving of private messages, for any messages,    *)
(* workers and links; by the syncs of Private Payment Lists, for any       *)
(* peers; and by the resolution of private payments, for any stream.       *)
(*                                                                         *)
(* The intake of a batch is a loop.  What it does to the stream and to its *)
(* indexes is proved by induction over the batch (BatchInduction).         *)
(***************************************************************************)
EXTENDS PrivateStream, ListSync, PaymentResolution, LeaseQueueProofs

-----------------------------------------------------------------------------
(* The syncs of Private Payment Lists                                      *)

ListSyncState ==
  [pc : {"idle", "queue", "deliver", "report"}, kind : {"updates", "contacts", "queueOnly"},
   clear : BOOLEAN, listed : UNION {[S -> {"full", "empty"}] : S \in SUBSET ListPeer},
   todo : SUBSET ListPeer, clears : SUBSET ListPeer, refused : SUBSET ListPeer,
   queued : SUBSET ListPeer, cleared : SUBSET ListPeer, failed : SUBSET ListPeer,
   undelivered : SUBSET ListPeer, deliver : SUBSET ListPeer]

ListTypes ==
  /\ linking \in [ListPeer -> ListLinkState]
  /\ waiting \in [ListPeer -> PeerList]
  /\ received \in [ListPeer -> PeerList]
  /\ delayed \subseteq ListPeer
  /\ listSync \in ListSyncState
  /\ disturbed \in BOOLEAN

\* What the sync has done so far: a linked peer it is through with has its list.
Served(p) ==
  linking[p] = "Linked" =>
    /\ p \in DOMAIN listSync.listed /\ p \notin listSync.todo => LatestFor(p) = listSync.listed[p]
    /\ p \notin DOMAIN listSync.listed /\ listSync.clear /\ p \notin listSync.clears =>
         LatestFor(p) = "empty"

ListInv ==
  /\ ListTypes
  /\ listSync.todo \subseteq DOMAIN listSync.listed
  /\ listSync.clears \cap DOMAIN listSync.listed = {}
  /\ listSync.pc \in {"deliver", "report"} => listSync.todo = {} /\ listSync.clears = {}
  /\ listSync.pc # "idle" /\ ~disturbed /\ listSync.failed = {} => \A p \in ListPeer : Served(p)

\* Sending takes nothing away from what a peer has or will have.
LEMMA SendingKeeps ==
  ASSUME ListTypes, NEW p \in ListPeer, Sent(p) \/ NotSent(p)
  PROVE  /\ waiting' \in [ListPeer -> PeerList] /\ received' \in [ListPeer -> PeerList]
         /\ delayed' \subseteq ListPeer
         /\ \A x \in ListPeer : LatestFor(x)' = LatestFor(x)
<1>1. CASE UNCHANGED <<waiting, received>> /\ delayed' \subseteq delayed \cup {p}
  BY <1>1 DEF ListTypes, LatestFor
<1>2. CASE /\ waiting' = [waiting EXCEPT ![p] = "none"]
           /\ received' = [received EXCEPT ![p] = IF waiting[p] = "none" THEN @ ELSE waiting[p]]
           /\ UNCHANGED delayed
  <2>1. waiting' \in [ListPeer -> PeerList] /\ received' \in [ListPeer -> PeerList]
    BY <1>2 DEF ListTypes, PeerList
  <2>2. \A x \in ListPeer : LatestFor(x)' = LatestFor(x)
    BY <1>2 DEF ListTypes, LatestFor
  <2> QED
    BY <1>2, <2>1, <2>2 DEF ListTypes
<1> QED
  BY <1>1, <1>2 DEF Sent, NotSent

\* Steps that leave the links, the lists wanted and what is left to queue alone.
LEMMA ListStep ==
  ASSUME ListInv, ListTypes', UNCHANGED <<linking, disturbed>>,
         listSync'.pc # "idle" => /\ listSync.pc # "idle"
                                  /\ listSync.pc \in {"deliver", "report"} => listSync'.pc # "queue"
                                  /\ listSync'.pc \in {"deliver", "report"} =>
                                       listSync.todo = {} /\ listSync.clears = {},
         listSync'.pc # "idle" =>
           \A f \in {"listed", "clear", "todo", "clears", "failed"} : listSync'[f] = listSync[f],
         listSync'.pc = "idle" => listSync'.todo = {} /\ listSync'.clears = {},
         \A x \in ListPeer : LatestFor(x)' = LatestFor(x)
  PROVE  ListInv'
<1>1. CASE listSync'.pc = "idle"
  BY <1>1 DEF ListInv
<1>2. CASE listSync'.pc # "idle"
  <2>1. /\ listSync'.listed = listSync.listed /\ listSync'.clear = listSync.clear
        /\ listSync'.todo = listSync.todo /\ listSync'.clears = listSync.clears
        /\ listSync'.failed = listSync.failed
    BY <1>2
  <2>2. \A p \in ListPeer : Served(p) => Served(p)'
    BY <2>1 DEF Served
  <2> QED
    BY <1>2, <2>1, <2>2 DEF ListInv
<1> QED
  BY <1>1, <1>2

\* A peer's list is queued, or the sync reports a failure.
LEMMA QueueForKeeps ==
  ASSUME ListInv, NEW p \in ListPeer, NEW list \in {"full", "empty"}, QueueFor(p, list),
         listSync.pc = "queue", UNCHANGED <<linking, delayed, received, disturbed>>,
         \/ p \in DOMAIN listSync.listed /\ list = listSync.listed[p]
         \/ p \in listSync.clears /\ list = "empty"
  PROVE  ListInv'
<1>0. ListTypes /\ listSync \in ListSyncState
  BY DEF ListInv, ListTypes
<1>1. CASE /\ listSync' = [listSync EXCEPT !.todo = @ \ {p}, !.clears = @ \ {p}, !.failed = @ \cup {p}]
           /\ UNCHANGED waiting
  <2>1. /\ listSync' \in ListSyncState /\ listSync'.failed # {} /\ listSync'.pc = "queue"
        /\ listSync'.clears \subseteq listSync.clears /\ listSync'.listed = listSync.listed
    BY <1>0, <1>1, Zenon DEF ListSyncState
  <2> QED
    BY <1>0, <1>1, <2>1 DEF ListInv, ListTypes
<1>2. CASE /\ Enqueued(p, list)
           /\ listSync' = IF list = "full"
                          THEN [listSync EXCEPT !.todo = @ \ {p}, !.queued = @ \cup {p}]
                          ELSE [listSync EXCEPT !.todo = @ \ {p}, !.clears = @ \ {p},
                                                !.cleared = @ \cup {p}]
  <2>1. /\ listSync' \in ListSyncState /\ listSync'.pc = "queue"
        /\ listSync'.failed = listSync.failed /\ listSync'.listed = listSync.listed
        /\ listSync'.clear = listSync.clear /\ listSync'.todo = listSync.todo \ {p}
        /\ listSync'.clears = listSync.clears \/ listSync'.clears = listSync.clears \ {p}
    BY <1>0, <1>2, Zenon DEF ListSyncState
  <2>2. /\ waiting' \in [ListPeer -> PeerList] /\ waiting'[p] = list
        /\ \A x \in ListPeer : x # p => waiting'[x] = waiting[x]
    BY <1>0, <1>2 DEF ListTypes, Enqueued, PeerList
  <2>3. LatestFor(p)' = list /\ \A x \in ListPeer : x # p => LatestFor(x)' = LatestFor(x)
    BY <2>2 DEF LatestFor
  <2>4. ASSUME NEW x \in ListPeer, Served(x) PROVE Served(x)'
    <3>1. CASE x = p
      BY <2>1, <2>3, <3>1 DEF Served, ListInv
    <3>2. CASE x # p
      BY <2>1, <2>3, <2>4, <3>2 DEF Served
    <3> QED
      BY <3>1, <3>2
  <2> QED
    BY <1>0, <2>1, <2>2, <2>4 DEF ListInv, ListTypes
<1> QED
  BY <1>1, <1>2 DEF QueueFor

LEMMA BeginListKeeps ==
  ASSUME ListInv, NEW kind \in {"updates", "contacts", "queueOnly"}, NEW S \in SUBSET ListPeer,
         NEW listed \in [S -> {"full", "empty"}], NEW refused \in SUBSET ListPeer,
         NEW clear \in BOOLEAN, BeginListSync(kind, listed, refused, clear)
  PROVE  ListInv'
<1> DEFINE c == IF clear THEN linked_private_counterparties_not_in(DOMAIN listed) ELSE {}
<1>1. DOMAIN listed = S /\ c \subseteq ListPeer /\ c \cap S = {}
  BY DEF linked_private_counterparties_not_in
<1>2. clear => \A p \in ListPeer \ S : linking[p] = "Linked" => p \in c
  BY DEF linked_private_counterparties_not_in
<1>3. listSync' = [SyncIdle EXCEPT !.pc = "queue", !.kind = kind, !.clear = clear, !.listed = listed,
                                   !.todo = DOMAIN listed, !.refused = refused, !.clears = c]
  BY DEF BeginListSync
<1> HIDE DEF c
<1>4. listed \in UNION {[D -> {"full", "empty"}] : D \in SUBSET ListPeer}
  OBVIOUS
<1>5. /\ listSync'.pc = "queue" /\ listSync'.listed = listed /\ listSync'.todo = S
      /\ listSync'.clears = c /\ listSync'.clear = clear
  BY <1>1, <1>3 DEF SyncIdle
<1>6. listSync' \in ListSyncState
  BY <1>1, <1>3, <1>4 DEF SyncIdle, ListSyncState
<1>7. ListTypes'
  BY <1>6, Zenon DEF BeginListSync, ListInv, ListTypes
<1>8. UNCHANGED linking
  BY DEF BeginListSync
<1>9. \A p \in ListPeer : Served(p)'
  BY <1>1, <1>2, <1>5, <1>8 DEF Served
<1> QED
  BY <1>1, <1>5, <1>7, <1>9 DEF ListInv

LEMMA IdleList ==
  /\ SyncIdle \in ListSyncState /\ SyncIdle.pc = "idle"
  /\ SyncIdle.todo = {} /\ SyncIdle.clears = {}
<1>1. [p \in {} |-> "full"] \in [{} -> {"full", "empty"}]
  OBVIOUS
<1>2. [p \in {} |-> "full"] \in UNION {[S -> {"full", "empty"}] : S \in SUBSET ListPeer}
  BY <1>1
<1> QED
  BY <1>2 DEF SyncIdle, ListSyncState

LEMMA ListNextKeeps == ListInv /\ [ListNext]_listVars => ListInv'
<1> SUFFICES ASSUME ListInv, [ListNext]_listVars PROVE ListInv'
  OBVIOUS
<1>0. ListTypes /\ listSync \in ListSyncState
  BY DEF ListInv, ListTypes
<1>1. ASSUME NEW clear \in BOOLEAN, SyncContactLists(clear) PROVE ListInv'
  <2>1. PICK kind \in {"contacts", "queueOnly"}, S \in SUBSET ListPeer :
          BeginListSync(kind, [p \in S |-> "full"], {}, clear)
    BY <1>1 DEF SyncContactLists
  <2>2. [p \in S |-> "full"] \in [S -> {"full", "empty"}]
    OBVIOUS
  <2> QED
    BY <2>1, <2>2, BeginListKeeps
<1>2. ASSUME NEW clear \in BOOLEAN, SyncUpdates(clear) PROVE ListInv'
  <2>1. PICK S \in SUBSET ListPeer : \E r \in SUBSET S : \E want \in [S -> {"full", "empty"}] :
          BeginListSync("updates", want, r, clear)
    BY <1>2 DEF SyncUpdates
  <2>2. PICK r \in SUBSET S : \E want \in [S -> {"full", "empty"}] :
          BeginListSync("updates", want, r, clear)
    BY <2>1
  <2>3. PICK want \in [S -> {"full", "empty"}] : BeginListSync("updates", want, r, clear)
    BY <2>2
  <2>4. r \in SUBSET ListPeer
    OBVIOUS
  <2> QED
    BY <2>3, <2>4, BeginListKeeps
<1>3. ASSUME NEW p \in ListPeer, QueueUpdate(p) PROVE ListInv'
  <2>1. p \in DOMAIN listSync.listed /\ listSync.listed[p] \in {"full", "empty"}
    <3>1. listSync.todo \subseteq DOMAIN listSync.listed
      BY DEF ListInv
    <3> QED
      BY <1>0, <1>3, <3>1 DEF QueueUpdate, ListSyncState
  <2> QED
    BY <1>3, <2>1, QueueForKeeps DEF QueueUpdate
<1>4. ASSUME NEW p \in ListPeer, ClearUnlisted(p) PROVE ListInv'
  BY <1>4, QueueForKeeps DEF ClearUnlisted
<1>5. ASSUME NEW p \in ListPeer, DeliverTo(p) PROVE ListInv'
  <2>1. /\ listSync.pc = "deliver" /\ UNCHANGED <<linking, disturbed>>
        /\ \/ listSync' = [listSync EXCEPT !.deliver = @ \ {p}]
           \/ listSync' = [listSync EXCEPT !.deliver = @ \ {p}, !.undelivered = @ \cup {p}]
    BY <1>5 DEF DeliverTo
  <2>2. /\ listSync' \in ListSyncState /\ listSync'.pc = "deliver"
        /\ \A f \in {"listed", "clear", "todo", "clears", "failed"} : listSync'[f] = listSync[f]
    <3>1. CASE listSync' = [listSync EXCEPT !.deliver = @ \ {p}]
      BY <1>0, <2>1, <3>1, Zenon DEF ListSyncState
    <3>2. CASE listSync' = [listSync EXCEPT !.deliver = @ \ {p}, !.undelivered = @ \cup {p}]
      BY <1>0, <2>1, <3>2, Zenon DEF ListSyncState
    <3> QED
      BY <2>1, <3>1, <3>2
  <2>3. Sent(p) \/ NotSent(p) \/ UNCHANGED <<waiting, delayed, received>>
    BY <1>5 DEF DeliverTo
  <2>4. /\ waiting' \in [ListPeer -> PeerList] /\ received' \in [ListPeer -> PeerList]
        /\ delayed' \subseteq ListPeer
        /\ \A x \in ListPeer : LatestFor(x)' = LatestFor(x)
    BY <1>0, <2>3, SendingKeeps DEF ListTypes, LatestFor
  <2>5. ListTypes'
    BY <1>0, <2>1, <2>2, <2>4 DEF ListTypes
  <2>6. listSync.todo = {} /\ listSync.clears = {}
    BY <2>1 DEF ListInv
  <2> QED
    BY <2>1, <2>2, <2>4, <2>5, <2>6, ListStep
<1>6. ASSUME NEW p \in ListPeer, WorkerDelivers(p) \/ HeadIsDue(p) PROVE ListInv'
  <2>1. UNCHANGED <<linking, listSync, disturbed>>
    BY <1>6 DEF WorkerDelivers, HeadIsDue
  <2>2. /\ waiting' \in [ListPeer -> PeerList] /\ received' \in [ListPeer -> PeerList]
        /\ delayed' \subseteq ListPeer
        /\ \A x \in ListPeer : LatestFor(x)' = LatestFor(x)
    <3>1. CASE HeadIsDue(p)
      BY <1>0, <3>1 DEF HeadIsDue, ListTypes, LatestFor
    <3>2. CASE WorkerDelivers(p)
      BY <1>0, <3>2, SendingKeeps DEF WorkerDelivers
    <3> QED
      BY <1>6, <3>1, <3>2
  <2>3. ListTypes'
    BY <1>0, <2>1, <2>2 DEF ListTypes
  <2>4. \A x \in ListPeer : Served(x) => Served(x)'
    BY <2>1, <2>2 DEF Served
  <2> QED
    BY <2>1, <2>3, <2>4 DEF ListInv
<1>7. ASSUME NEW p \in ListPeer, NEW s \in ListLinkState, LinkChanges(p, s) PROVE ListInv'
  <2>1. ListTypes'
    BY <1>0, <1>7 DEF LinkChanges, ListTypes
  <2> QED
    BY <1>7, <2>1 DEF LinkChanges, ListInv
<1>8. CASE StartDelivery
  <2>1. PICK D \in SUBSET ListPeer : listSync' = [listSync EXCEPT !.pc = "deliver", !.deliver = D]
    <3>1. PICK cleanup \in SUBSET ListPeer :
            listSync' = [listSync EXCEPT !.pc = "deliver", !.deliver = Recipients(cleanup)]
      BY <1>8, Zenon DEF StartDelivery
    <3>2. Recipients(cleanup) \subseteq ListPeer
      BY <1>0 DEF Recipients, pending_outbound_private_counterparties, ListSyncState
    <3> QED
      BY <3>1, <3>2, Zenon
  <2>2. /\ listSync' \in ListSyncState /\ listSync'.pc = "deliver"
        /\ \A f \in {"listed", "clear", "todo", "clears", "failed"} : listSync'[f] = listSync[f]
    BY <1>0, <2>1, Zenon DEF ListSyncState
  <2>3. UNCHANGED <<linking, waiting, delayed, received, disturbed>> /\ listSync.pc = "queue"
        /\ listSync.todo = {} /\ listSync.clears = {}
    BY <1>8 DEF StartDelivery
  <2>4. ListTypes' /\ \A x \in ListPeer : LatestFor(x)' = LatestFor(x)
    BY <1>0, <2>2, <2>3 DEF ListTypes, LatestFor
  <2> QED
    BY <2>2, <2>3, <2>4, ListStep
<1>9. CASE FinishListSync \/ TakeReport
  <2>1. /\ UNCHANGED <<linking, waiting, delayed, received, disturbed>>
        /\ listSync.pc \in {"deliver", "report"}
        /\ listSync' = [listSync EXCEPT !.pc = "report"] \/ listSync' = SyncIdle
    BY <1>9 DEF FinishListSync, TakeReport
  <2>2. /\ listSync' \in ListSyncState /\ listSync'.pc \in {"idle", "report"}
        /\ listSync'.pc = "idle" => listSync'.todo = {} /\ listSync'.clears = {}
        /\ listSync'.pc # "idle" =>
             \A f \in {"listed", "clear", "todo", "clears", "failed"} : listSync'[f] = listSync[f]
    BY <1>0, <2>1, IdleList DEF ListSyncState
  <2>3. ListTypes' /\ \A x \in ListPeer : LatestFor(x)' = LatestFor(x)
    BY <1>0, <2>1, <2>2 DEF ListTypes, LatestFor
  <2>4. listSync.todo = {} /\ listSync.clears = {}
    BY <2>1 DEF ListInv
  <2> QED
    BY <2>1, <2>2, <2>3, <2>4, ListStep
<1>10. CASE UNCHANGED listVars
  BY <1>10 DEF listVars, ListInv, ListTypes, Served, LatestFor
<1> QED
  BY <1>1, <1>2, <1>3, <1>4, <1>5, <1>6, <1>7, <1>8, <1>9, <1>10 DEF ListNext

\* A sync of Private Payment Lists that reports no failure, under which no link changed, has
\* given every linked peer the list wanted for it, or has it last in its queue
\* (sync_private_payment_lists_with_reservations_and_process_outbound and
\* sync_contact_private_payment_lists), for any peers, updates and outbound workers.
THEOREM ListSyncTheorem == ListSpec => []CleanSyncArrives
<1>1. ListInit => ListInv
  <2> SUFFICES ASSUME ListInit PROVE ListInv
    OBVIOUS
  <2>1. ListTypes
    BY IdleList, Zenon DEF ListInit, ListTypes, ListLinkState, PeerList
  <2> QED
    BY <2>1, IdleList DEF ListInit, ListInv
<1>2. ListInv => CleanSyncArrives
  BY DEF ListInv, CleanSyncArrives, Served
<1> QED
  BY <1>1, <1>2, ListNextKeeps, PTL DEF ListSpec

-----------------------------------------------------------------------------
(* The resolution of private payments                                      *)

CallState ==
  [pc : ResolutionStep, live : BOOLEAN, state : {"NoPrivateEndpoint", "RecoveryPending", "Available"},
   version : Nat, has : BOOLEAN, rounds : Nat, seen : Nat, open : BOOLEAN]

\* What a call holds fits the peer, the stream and what the app consumed: the candidates
\* come from a list that is not older than the call, loaded when the peer had been usable.
CallFits(call) ==
  /\ call \in CallState
  /\ call.seen <= LatestList(stream)
  /\ call.pc # "idle" /\ Usable(peering) => call.open
  /\ call.pc \in {"load", "refresh", "receive", "reload"} => call.open
  /\ call.has =>
       /\ call.pc \in {"decide", "select", "payable"}
       /\ call.state = "Available" /\ call.open
       /\ call.version \in DOMAIN stream /\ stream[call.version] = "list"
       /\ call.version >= call.seen
  /\ call.pc \in {"select", "payable"} => call.has /\ call.version > consumed

ResolutionInv ==
  /\ peering \in ResolutionPeerState
  /\ live \in BOOLEAN
  /\ stream \in Seq(ItemKind)
  /\ consumed \in Nat
  /\ CallFits(resolve)
  /\ paid \in Seq(Nat)
  /\ ListPaidOnce
  /\ \A i \in DOMAIN paid : paid[i] <= consumed

LEMMA StreamShape ==
  ASSUME NEW s \in Seq(ItemKind)
  PROVE  DOMAIN s = 1 .. Len(s) /\ Len(s) \in Nat /\ \A i \in DOMAIN s : s[i] \in ItemKind
BY ElementOfSeq, LenProperties

\* derive_private_payment_list_view names a stored list, and the last of them.
LEMMA LatestListIsLast ==
  ASSUME NEW s \in Seq(ItemKind)
  PROVE  /\ LatestList(s) \in Nat
         /\ LatestList(s) # 0 => LatestList(s) \in DOMAIN s /\ s[LatestList(s)] # "other"
         /\ \A i \in DOMAIN s : s[i] # "other" => i <= LatestList(s)
<1> DEFINE S == {i \in DOMAIN s : s[i] # "other"} \cup {0}
           L == Len(s)
           T == {L - n : n \in S}
<1>1. L \in Nat /\ S \subseteq 0 .. L /\ 0 \in S
  BY StreamShape
<1>2. T \subseteq Nat /\ T # {}
  <2>1. ASSUME NEW n \in S PROVE L - n \in Nat
    <3>1. n \in 0 .. L
      BY <1>1, Zenon
    <3> HIDE DEF S, L
    <3> QED
      BY <1>1, <3>1
  <2> QED
    BY <1>1, <2>1, Zenon
<1>3. First(T) \in T /\ \A t \in T : First(T) <= t
  <2> HIDE DEF T
  <2> QED
    BY <1>2, FirstIsLeast, Zenon
<1>4. PICK m \in S : First(T) = L - m
  BY <1>3, Zenon
<1>5. \A n \in S : m >= n
  <2> SUFFICES ASSUME NEW n \in S PROVE m >= n
    OBVIOUS
  <2>1. L - n \in T
    BY Zenon
  <2>2. L - m <= L - n
    BY <1>3, <1>4, <2>1, Zenon
  <2>3. m \in 0 .. L /\ n \in 0 .. L
    BY <1>1, Zenon
  <2> HIDE DEF S, L
  <2> QED
    BY <1>1, <2>2, <2>3
<1>6. Max(S) \in S /\ \A n \in S : Max(S) >= n
  <2> HIDE DEF S
  <2> QED
    BY <1>5 DEF Max
<1>7. LatestList(s) = Max(S)
  BY DEF LatestList
<1>8. Max(S) \in Nat
  <2>1. Max(S) \in 0 .. L
    BY <1>1, <1>6, Zenon
  <2> QED
    BY <1>1, <2>1
<1>9. \A n \in S : n \in Nat
  BY <1>1
<1> QED
  BY <1>6, <1>7, <1>8, <1>9

\* Items that arrive leave the earlier ones, and a later list is the latest.
LEMMA LatestListGrows ==
  ASSUME NEW s \in Seq(ItemKind), NEW t \in Seq(ItemKind), DOMAIN s \subseteq DOMAIN t,
         \A i \in DOMAIN s : t[i] = s[i]
  PROVE  LatestList(s) <= LatestList(t)
<1>1. LatestList(s) \in Nat /\ LatestList(t) \in Nat
  BY LatestListIsLast
<1>2. CASE LatestList(s) = 0
  BY <1>1, <1>2
<1>3. CASE LatestList(s) # 0
  <2>1. LatestList(s) \in DOMAIN s /\ s[LatestList(s)] # "other"
    BY <1>3, LatestListIsLast
  <2> QED
    BY <2>1, LatestListIsLast
<1> QED
  BY <1>2, <1>3

\* A call that fits still does if the peer, the stream and what is consumed stay.
LEMMA SameWorld ==
  ASSUME NEW call, CallFits(call), resolve' = call, UNCHANGED <<peering, stream, consumed>>
  PROVE  CallFits(resolve)'
BY DEF CallFits

\* Items that are stored, by the call or beside it, leave it fitting.
LEMMA StreamGrows ==
  ASSUME ResolutionInv, NEW ks \in Seq(ItemKind), stream' = stream \o ks,
         UNCHANGED <<peering, consumed>>, NEW call, CallFits(call), resolve' = call
  PROVE  stream' \in Seq(ItemKind) /\ CallFits(resolve)'
<1>0. stream \in Seq(ItemKind) /\ call \in CallState
  BY DEF ResolutionInv, CallFits
<1>1. /\ stream' \in Seq(ItemKind)
      /\ DOMAIN stream \subseteq DOMAIN stream' /\ \A i \in DOMAIN stream : stream'[i] = stream[i]
  BY <1>0, ConcatProperties, StreamShape
<1>2. /\ LatestList(stream) <= LatestList(stream')
      /\ LatestList(stream) \in Nat /\ LatestList(stream') \in Nat
  BY <1>0, <1>1, LatestListGrows, LatestListIsLast, Zenon
<1>3. call.seen \in Nat
  BY <1>0 DEF CallState
<1>4. call.seen <= LatestList(stream')
  BY <1>2, <1>3 DEF CallFits
<1> QED
  BY <1>1, <1>4 DEF CallFits

\* The candidate batch that is loaded is from the latest list.
LEMMA BatchFits ==
  ASSUME ResolutionInv, resolve.pc \in {"load", "reload"}, NEW p \in {"decide", "refresh"},
         p = "refresh" => ~WithBatch(resolve).has
  PROVE  CallFits([WithBatch(resolve) EXCEPT !.pc = p])
<1> DEFINE v == LatestList(stream)
           h == v # 0 /\ stream[v] = "list"
           call == [resolve EXCEPT !.version = v, !.has = h, !.state = IF h THEN "Available" ELSE @]
           new == [call EXCEPT !.pc = p]
<1>1. v \in Nat /\ (v # 0 => v \in DOMAIN stream) /\ resolve.seen <= v
  BY LatestListIsLast DEF ResolutionInv, CallFits
<1>2. resolve \in CallState /\ resolve.open
  BY DEF ResolutionInv, CallFits
<1>3. WithBatch(resolve) = call
  BY DEF WithBatch
<1>4. h \in BOOLEAN /\ (h => v \in DOMAIN stream /\ stream[v] = "list") /\ LatestList(stream) = v
  BY <1>1
<1> HIDE DEF v, h
<1>5. /\ new \in CallState /\ new.seen = resolve.seen /\ new.open = resolve.open /\ new.pc = p
      /\ new.has = h /\ new.version = v /\ (h => new.state = "Available")
  BY <1>1, <1>2, <1>4, Zenon DEF CallState, ResolutionStep
<1>6. p = "refresh" => ~h
  BY <1>2, <1>3, <1>4 DEF CallState
<1> HIDE DEF new
<1>7. CallFits(new)
  BY <1>1, <1>2, <1>4, <1>5, <1>6 DEF CallFits, CallState
<1> QED
  BY <1>3, <1>7 DEF new

\* Steps that end the call, or go on without a batch.
LEMMA NoCallFits ==
  ASSUME stream' \in Seq(ItemKind), resolve' = NoCall
  PROVE  CallFits(resolve)'
<1>1. LatestList(stream') \in Nat
  BY LatestListIsLast
<1>2. /\ NoCall \in CallState /\ NoCall.seen = 0 /\ NoCall.pc = "idle" /\ ~NoCall.has
  BY DEF NoCall, CallState, ResolutionStep
<1> QED
  BY <1>1, <1>2 DEF CallFits

LEMMA GoesOn ==
  ASSUME ResolutionInv, resolve' \in CallState, ~resolve'.has, resolve'.seen = resolve.seen,
         resolve'.pc \notin {"idle", "select", "payable"}, UNCHANGED <<stream, consumed>>,
         Usable(peering') => resolve'.open,
         resolve'.pc \in {"load", "refresh", "receive", "reload"} => resolve'.open
  PROVE  CallFits(resolve)'
BY DEF ResolutionInv, CallFits

LEMMA AllowedFits ==
  ASSUME ResolutionInv, resolve.pc \in {"allowed", "recheck"}, NEW next \in {"observe", "load"},
         AllowedForPeer(next), UNCHANGED <<peering, stream>>
  PROVE  CallFits(resolve)'
<1>0. /\ resolve \in CallState /\ ~resolve.has /\ stream' \in Seq(ItemKind)
      /\ Usable(peering) => resolve.open
  BY DEF ResolutionInv, CallFits
<1>1. UNCHANGED consumed
  BY DEF AllowedForPeer, ResolveGoto
<1>2. CASE resolve' = NoCall
  BY <1>0, <1>2, NoCallFits
<1>3. CASE resolve' = To(next) /\ Usable(peering)
  <2>1. /\ resolve' \in CallState /\ resolve'.pc = next /\ ~resolve'.has
        /\ resolve'.seen = resolve.seen /\ resolve'.open = resolve.open
    BY <1>0, <1>3, Zenon DEF To, CallState, ResolutionStep
  <2> QED
    BY <1>0, <1>1, <1>3, <2>1, GoesOn
<1>4. CASE resolve' = [To("decide") EXCEPT !.state = "RecoveryPending"]
  <2>1. /\ resolve' \in CallState /\ resolve'.pc = "decide" /\ ~resolve'.has
        /\ resolve'.seen = resolve.seen /\ resolve'.open = resolve.open
    BY <1>0, <1>4, Zenon DEF To, CallState, ResolutionStep
  <2> QED
    BY <1>0, <1>1, <2>1, GoesOn
<1> QED
  BY <1>2, <1>3, <1>4 DEF AllowedForPeer, Usable, ResolveGoto

\* Whatever a step of the call or around it does, the call fits afterwards, if nothing is paid.
LEMMA UnpaidKeeps ==
  ASSUME ResolutionInv, peering' \in ResolutionPeerState, live' \in BOOLEAN, stream' \in Seq(ItemKind),
         UNCHANGED <<consumed, paid>>, CallFits(resolve)'
  PROVE  ResolutionInv'
BY DEF ResolutionInv, ListPaidOnce

LEMMA ResolutionNextKeeps == ResolutionInv /\ [ResolutionNext]_resolutionVars => ResolutionInv'
<1> SUFFICES ASSUME ResolutionInv, [ResolutionNext]_resolutionVars PROVE ResolutionInv'
  OBVIOUS
<1>0. /\ resolve \in CallState /\ CallFits(resolve) /\ stream \in Seq(ItemKind)
      /\ live \in BOOLEAN /\ peering \in ResolutionPeerState /\ LatestList(stream) \in Nat
      /\ resolve.pc # "idle" /\ Usable(peering) => resolve.open
      /\ resolve.has => resolve.pc \in {"decide", "select", "payable"}
  BY LatestListIsLast DEF ResolutionInv, CallFits
<1>1. ASSUME NEW s \in ResolutionPeerState, PeerChanges(s) PROVE ResolutionInv'
  <2>1. UNCHANGED <<live, stream, consumed, paid>> /\ peering' = s
    BY <1>1 DEF PeerChanges
  <2>2. CASE resolve.pc = "idle"
    <3>1. resolve' = resolve
      BY <1>1, <2>2 DEF PeerChanges
    <3>2. CallFits(resolve)'
      BY <1>0, <2>1, <2>2, <3>1 DEF CallFits
    <3> QED
      BY <1>0, <2>1, <3>2, UnpaidKeeps
  <2>3. CASE resolve.pc # "idle"
    <3> DEFINE o == resolve.open \/ Usable(s)
    <3>1. resolve' = [resolve EXCEPT !.open = o]
      BY <1>1, <2>3 DEF PeerChanges
    <3>2. o \in BOOLEAN /\ (resolve.open => o) /\ (Usable(s) => o)
      BY <1>0 DEF CallState, Usable
    <3> HIDE DEF o
    <3>3. /\ resolve' \in CallState /\ resolve'.open = o /\ resolve'.pc = resolve.pc
          /\ resolve'.has = resolve.has /\ resolve'.state = resolve.state
          /\ resolve'.version = resolve.version /\ resolve'.seen = resolve.seen
      BY <1>0, <3>1, <3>2 DEF CallState
    <3>4. CallFits(resolve)'
      BY <1>0, <2>1, <3>2, <3>3 DEF CallFits
    <3> QED
      BY <1>0, <2>1, <3>4, UnpaidKeeps
  <2> QED
    BY <2>2, <2>3
<1>2. ASSUME NEW s \in ResolutionPeerState, EnsureLink(s) PROVE ResolutionInv'
  <2> DEFINE o == resolve.open \/ Usable(s)
  <2>1. /\ UNCHANGED <<live, stream, consumed, paid>> /\ peering' = s /\ resolve.pc = "link"
        /\ resolve' = [To("round") EXCEPT !.open = o]
    BY <1>0, <1>2 DEF EnsureLink, ResolveGoto, To, CallState
  <2>2. o \in BOOLEAN /\ (Usable(s) => o)
    BY <1>0 DEF CallState, Usable
  <2> HIDE DEF o
  <2>3. /\ resolve' \in CallState /\ resolve'.pc = "round" /\ resolve'.has = resolve.has
        /\ resolve'.seen = resolve.seen /\ resolve'.open = o
    BY <1>0, <2>1, <2>2, Zenon DEF To, CallState, ResolutionStep
  <2>4. CallFits(resolve)'
    BY <1>0, <2>1, <2>2, <2>3, GoesOn
  <2> QED
    BY <1>0, <2>1, <2>4, UnpaidKeeps
<1>3. CASE SessionChanges
  <2>1. UNCHANGED <<peering, stream, resolve, consumed, paid>> /\ live' \in BOOLEAN
    BY <1>3 DEF SessionChanges
  <2> QED
    BY <1>0, <2>1, SameWorld, UnpaidKeeps
<1>4. ASSUME NEW k \in ItemKind, ItemArrives(k) PROVE ResolutionInv'
  <2>1. <<k>> \in Seq(ItemKind) /\ stream' = stream \o <<k>>
    BY <1>0, <1>4, AppendIsConcat DEF ItemArrives
  <2>2. UNCHANGED <<peering, live, resolve, consumed, paid>>
    BY <1>4 DEF ItemArrives
  <2>3. stream' \in Seq(ItemKind) /\ CallFits(resolve)'
    BY <1>0, <2>1, <2>2, StreamGrows, Zenon
  <2> QED
    BY <1>0, <2>2, <2>3, UnpaidKeeps
<1>5. ASSUME NEW b \in BOOLEAN, BeginResolve(b) PROVE ResolutionInv'
  <2>1. PICK p \in {"link", "allowed"} :
          resolve' = [NoCall EXCEPT !.pc = p, !.live = live, !.seen = LatestList(stream),
                                    !.open = Usable(peering)]
    BY <1>5, Zenon DEF BeginResolve, ResolveGoto
  <2>2. UNCHANGED <<peering, live, stream, consumed, paid>>
    BY <1>5 DEF BeginResolve, ResolveGoto
  <2>3. Usable(peering) \in BOOLEAN
    BY DEF Usable
  <2>4. /\ resolve' \in CallState /\ resolve'.pc = p /\ ~resolve'.has
        /\ resolve'.seen = LatestList(stream) /\ resolve'.open = Usable(peering)
    BY <1>0, <2>1, <2>3, Zenon DEF NoCall, CallState, ResolutionStep
  <2>5. CallFits(resolve)'
    BY <1>0, <2>2, <2>4 DEF CallFits
  <2> QED
    BY <1>0, <2>2, <2>5, UnpaidKeeps
<1>6. ASSUME NEW b \in BOOLEAN, ObserveMarker(b) PROVE ResolutionInv'
  <2>1. UNCHANGED <<live, stream, consumed, paid>> /\ resolve.pc = "observe"
    BY <1>6 DEF ObserveMarker, ResolveGoto
  <2>2. CASE peering' = "RecoveryRequired" /\ resolve' = [To("decide") EXCEPT !.state = "RecoveryPending"]
    <3>1. /\ resolve' \in CallState /\ resolve'.pc = "decide" /\ resolve'.has = resolve.has
          /\ resolve'.seen = resolve.seen /\ resolve'.open = resolve.open
      BY <1>0, <2>2, Zenon DEF To, CallState, ResolutionStep
    <3>2. CallFits(resolve)'
      BY <1>0, <2>1, <2>2, <3>1, GoesOn DEF Usable
    <3> QED
      BY <1>0, <2>1, <2>2, <3>2, UnpaidKeeps DEF ResolutionPeerState
  <2>3. CASE resolve' = To("recheck") /\ UNCHANGED peering
    <3>1. /\ resolve' \in CallState /\ resolve'.pc = "recheck" /\ resolve'.has = resolve.has
          /\ resolve'.seen = resolve.seen /\ resolve'.open = resolve.open
      BY <1>0, <2>3, Zenon DEF To, CallState, ResolutionStep
    <3>2. CallFits(resolve)'
      BY <1>0, <2>1, <2>3, <3>1, GoesOn
    <3> QED
      BY <1>0, <2>1, <2>3, <3>2, UnpaidKeeps
  <2> QED
    BY <1>6, <2>2, <2>3 DEF ObserveMarker, ResolveGoto
<1>7. ASSUME NEW b \in BOOLEAN, RefreshCandidates(b) PROVE ResolutionInv'
  <2>1. UNCHANGED <<live, stream, consumed, paid>> /\ resolve.pc = "refresh" /\ resolve.open
    BY <1>0, <1>7 DEF RefreshCandidates, ResolveGoto, CallFits
  <2>2. CASE resolve' = NoCall /\ peering' = "RecoveryRequired"
    BY <1>0, <2>1, <2>2, NoCallFits, UnpaidKeeps DEF ResolutionPeerState
  <2>3. ASSUME UNCHANGED peering, NEW p \in {"decide", "receive"},
               NEW st \in {"RecoveryPending", resolve.state},
               resolve' = [resolve EXCEPT !.pc = p, !.state = st]
        PROVE  ResolutionInv'
    <3>1. /\ resolve' \in CallState /\ resolve'.pc = p /\ resolve'.has = resolve.has
          /\ resolve'.seen = resolve.seen /\ resolve'.open = resolve.open
      BY <1>0, <2>3, Zenon DEF CallState, ResolutionStep
    <3>2. CallFits(resolve)'
      BY <1>0, <2>1, <2>3, <3>1, GoesOn
    <3> QED
      BY <1>0, <2>1, <2>3, <3>2, UnpaidKeeps
  <2>4. CASE UNCHANGED peering /\ resolve' = [To("decide") EXCEPT !.state = "RecoveryPending"]
    BY <2>3, <2>4 DEF To
  <2>5. CASE UNCHANGED peering /\ (resolve' = To("decide") \/ resolve' = To("receive"))
    <3>1. resolve' = [resolve EXCEPT !.pc = "decide", !.state = resolve.state] \/
          resolve' = [resolve EXCEPT !.pc = "receive", !.state = resolve.state]
      BY <1>0, <2>5, Zenon DEF To, CallState
    <3> QED
      BY <2>3, <2>5, <3>1
  <2> QED
    BY <1>7, <2>2, <2>4, <2>5 DEF RefreshCandidates, ResolveGoto
<1>8. CASE ResolveFails \/ AppDrops \/ (\E b \in BOOLEAN : SelectEndpoints(b)) \/ Decide
  <2>1. UNCHANGED <<peering, live, stream, consumed, paid>>
    BY <1>8 DEF ResolveFails, AppDrops, SelectEndpoints, Decide, ResolveGoto
  <2>2. CASE resolve' = NoCall
    BY <1>0, <2>1, <2>2, NoCallFits, UnpaidKeeps
  <2>3. CASE /\ resolve.pc = "select" /\ resolve' = [resolve EXCEPT !.pc = "payable"]
    <3>1. CallFits(resolve)'
      <4>1. /\ resolve' \in CallState /\ resolve'.pc = "payable"
            /\ \A f \in {"has", "state", "version", "seen", "open"} : resolve'[f] = resolve[f]
        BY <1>0, <2>3 DEF CallState, ResolutionStep
      <4> QED
        BY <1>0, <2>1, <2>3, <4>1 DEF CallFits
    <3> QED
      BY <1>0, <2>1, <3>1, UnpaidKeeps
  <2>4. CASE /\ resolve.pc = "decide" /\ resolve' = [resolve EXCEPT !.pc = "select"]
             /\ resolve.has /\ resolve.version > consumed
    <3>1. CallFits(resolve)'
      <4>1. /\ resolve' \in CallState /\ resolve'.pc = "select"
            /\ \A f \in {"has", "state", "version", "seen", "open"} : resolve'[f] = resolve[f]
        BY <1>0, <2>4 DEF CallState, ResolutionStep
      <4> QED
        BY <1>0, <2>1, <2>4, <4>1 DEF CallFits
    <3> QED
      BY <1>0, <2>1, <3>1, UnpaidKeeps
  <2> QED
    BY <1>8, <2>2, <2>3, <2>4 DEF ResolveFails, AppDrops, SelectEndpoints, Decide, ResolveGoto, To,
       is_newer_than
<1>9. ASSUME NEW ks \in Received, ReceiveForRefresh(ks) \/ \E b \in BOOLEAN : SyncRound(ks, b)
      PROVE  ResolutionInv'
  <2>1. ks \in Seq(ItemKind)
    <3>1. ks = <<>> \/ \E k \in ItemKind : ks = <<k>>
      BY <1>9, Zenon DEF Received
    <3>2. ASSUME NEW k \in ItemKind PROVE <<k>> \in Seq(ItemKind)
      OBVIOUS
    <3>3. <<>> \in Seq(ItemKind)
      OBVIOUS
    <3> QED
      BY <3>1, <3>2, <3>3, Zenon
  <2>2. /\ stream' = stream \o ks /\ UNCHANGED <<peering, live, consumed, paid>> /\ peering = "Linked"
        /\ resolve.pc \in {"receive", "round"} /\ resolve.open /\ ~resolve.has
    BY <1>0, <1>9 DEF ReceiveForRefresh, SyncRound, ResolveGoto, Usable
  <2>3. PICK call : call = resolve'
    OBVIOUS
  <2>4. \E p \in {"round", "allowed", "reload"}, n \in Nat, l \in BOOLEAN :
          call = [resolve EXCEPT !.pc = p, !.rounds = n, !.live = l]
    <3>1. resolve.rounds \in Nat /\ resolve.rounds + 1 \in Nat /\ resolve.live \in BOOLEAN /\ 0 \in Nat
      BY <1>0 DEF CallState
    <3>2. \/ call = [resolve EXCEPT !.pc = "reload", !.rounds = resolve.rounds, !.live = resolve.live]
          \/ call = [resolve EXCEPT !.pc = "round", !.rounds = resolve.rounds + 1, !.live = resolve.live]
          \/ call = [resolve EXCEPT !.pc = "allowed", !.rounds = 0, !.live = live]
      <4>1. CASE ReceiveForRefresh(ks)
        BY <1>0, <2>3, <4>1, Zenon DEF ReceiveForRefresh, ResolveGoto, To, CallState
      <4>2. ASSUME NEW b \in BOOLEAN, SyncRound(ks, b)
            PROVE  \/ call = [resolve EXCEPT !.rounds = resolve.rounds + 1]
                   \/ call = [resolve EXCEPT !.pc = "allowed", !.rounds = 0, !.live = live]
        BY <1>0, <2>3, <4>2 DEF SyncRound, ResolveGoto, To
      <4>3. ASSUME call = [resolve EXCEPT !.rounds = resolve.rounds + 1], resolve.pc = "round"
            PROVE  call = [resolve EXCEPT !.pc = "round", !.rounds = resolve.rounds + 1,
                                          !.live = resolve.live]
        BY <1>0, <4>3, Zenon DEF CallState
      <4>4. (\E b \in BOOLEAN : SyncRound(ks, b)) => resolve.pc = "round"
        BY DEF SyncRound
      <4> QED
        BY <1>9, <4>1, <4>2, <4>3, <4>4, Zenon
    <3> QED
      BY <1>0, <3>1, <3>2, Zenon
  <2>5. call \in CallState /\ call.open /\ ~call.has /\ call.seen = resolve.seen
        /\ call.pc \in {"round", "allowed", "reload"}
    BY <1>0, <2>2, <2>4, Zenon DEF CallState, ResolutionStep
  <2>6. CallFits(call)
    BY <1>0, <2>5 DEF CallFits
  <2>7. stream' \in Seq(ItemKind) /\ CallFits(resolve)'
    BY <2>1, <2>2, <2>3, <2>6, StreamGrows
  <2> QED
    BY <1>0, <2>2, <2>7, UnpaidKeeps
<1>10. CASE CheckAllowed \/ Recheck
  <2>1. UNCHANGED <<peering, stream>> /\ resolve.pc \in {"allowed", "recheck"}
    BY <1>10 DEF CheckAllowed, Recheck
  <2>2. PICK next \in {"observe", "load"} : AllowedForPeer(next)
    BY <1>10 DEF CheckAllowed, Recheck
  <2>3. UNCHANGED <<live, consumed, paid>>
    BY <2>2 DEF AllowedForPeer, ResolveGoto
  <2> QED
    BY <1>0, <2>1, <2>2, <2>3, AllowedFits, UnpaidKeeps
<1>11. CASE LoadList \/ Reload
  <2>1. UNCHANGED <<peering, live, stream, consumed, paid>> /\ resolve.pc \in {"load", "reload"}
    BY <1>11 DEF LoadList, Reload, ResolveGoto
  <2>2. PICK p \in {"decide", "refresh"} :
          resolve' = [WithBatch(resolve) EXCEPT !.pc = p] /\ (p = "refresh" => ~WithBatch(resolve).has)
    BY <1>11 DEF LoadList, Reload, ResolveGoto
  <2>3. CallFits([WithBatch(resolve) EXCEPT !.pc = p])
    BY <2>1, <2>2, BatchFits
  <2>4. CallFits(resolve)'
    BY <2>1, <2>2, <2>3, SameWorld
  <2> QED
    BY <1>0, <2>1, <2>4, UnpaidKeeps
<1>12. CASE ReceiveRefused
  <2>1. UNCHANGED <<peering, live, stream, consumed, paid>> /\ resolve.pc = "receive"
    BY <1>12 DEF ReceiveRefused, ResolveGoto
  <2>2. /\ resolve' \in CallState /\ resolve'.pc = "decide" /\ resolve'.has = resolve.has
        /\ resolve'.seen = resolve.seen /\ resolve'.open = resolve.open
    BY <1>0, <1>12, Zenon DEF ReceiveRefused, ResolveGoto, To, CallState, ResolutionStep
  <2>3. CallFits(resolve)'
    BY <1>0, <2>1, <2>2, GoesOn
  <2> QED
    BY <1>0, <2>1, <2>3, UnpaidKeeps
<1>13. CASE AppPays
  <2>1. /\ UNCHANGED <<peering, live, stream>> /\ resolve' = NoCall /\ consumed' = resolve.version
        /\ paid' = Append(paid, resolve.version) /\ resolve.version > consumed /\ resolve.version \in Nat
    BY <1>0, <1>13 DEF AppPays, CallFits, CallState
  <2>2. CallFits(resolve)'
    BY <1>0, <2>1, NoCallFits
  <2>3. paid \in Seq(Nat) /\ DOMAIN paid = 1 .. Len(paid) /\ Len(paid) \in Nat
        /\ \A i \in DOMAIN paid : paid[i] \in Nat
    BY ElementOfSeq, LenProperties DEF ResolutionInv
  <2>4. /\ paid' \in Seq(Nat) /\ DOMAIN paid' = 1 .. Len(paid) + 1
        /\ paid'[Len(paid) + 1] = resolve.version
        /\ \A i \in DOMAIN paid : paid'[i] = paid[i]
    BY <2>1, <2>3, AppendProperties
  <2>5. \A i \in DOMAIN paid' : i \in DOMAIN paid \/ i = Len(paid) + 1
    BY <2>3, <2>4
  <2>6. \A i \in DOMAIN paid : paid[i] <= consumed /\ consumed \in Nat
    BY DEF ResolutionInv
  <2>7. \A i \in DOMAIN paid' : paid'[i] <= consumed'
    BY <2>1, <2>3, <2>4, <2>5, <2>6
  <2>8. ListPaidOnce'
    BY <2>1, <2>3, <2>4, <2>5, <2>6 DEF ListPaidOnce, ResolutionInv
  <2> QED
    BY <2>1, <2>2, <2>4, <2>7, <2>8 DEF ResolutionInv
<1>14. CASE UNCHANGED resolutionVars
  <2>1. UNCHANGED <<peering, live, stream, resolve, consumed, paid>>
    BY <1>14 DEF resolutionVars
  <2> QED
    BY <1>0, <2>1, SameWorld, UnpaidKeeps
<1> QED
  BY <1>1, <1>2, <1>3, <1>4, <1>5, <1>6, <1>7, <1>8, <1>9, <1>10, <1>11, <1>12, <1>13, <1>14
     DEF ResolutionNext

LEMMA ResolutionInductive == ResolutionSpec => []ResolutionInv
<1>1. ResolutionInit => ResolutionInv
  <2> SUFFICES ASSUME ResolutionInit PROVE ResolutionInv
    OBVIOUS
  <2>1. stream \in Seq(ItemKind) /\ paid \in Seq(Nat) /\ DOMAIN paid = {}
    BY DEF ResolutionInit
  <2>2. LatestList(stream) \in Nat
    BY <2>1, LatestListIsLast
  <2>3. CallFits(resolve)
    BY <2>2 DEF ResolutionInit, NoCall, CallFits, CallState, ResolutionStep
  <2> QED
    BY <2>1, <2>3 DEF ResolutionInit, ResolutionInv, ResolutionPeerState, ListPaidOnce
<1> QED
  BY <1>1, ResolutionNextKeeps, PTL DEF ResolutionSpec

\* An app that stores the version of the result it pays with never pays with one list twice
\* (resolve_private_contact_payment with after_version), for any stream and any rounds.
THEOREM PaidOnceTheorem == ResolutionSpec => []ListPaidOnce
<1>1. ResolutionInv => ListPaidOnce
  BY DEF ResolutionInv
<1> QED
  BY <1>1, ResolutionInductive, PTL

\* What resolve_private_contact_payment offers for payment comes from a stored list that has
\* endpoints and is not older than the call, of a peer that was usable during the call.
THEOREM PayableTheorem == ResolutionSpec => []PayableIsCurrent
<1>1. ResolutionInv => PayableIsCurrent
  BY DEF ResolutionInv, CallFits, PayableIsCurrent
<1> QED
  BY <1>1, ResolutionInductive, PTL

-----------------------------------------------------------------------------
(* The intake of a batch of private messages                               *)

StreamItem == [slot : Nat \ {0}, epoch : Nat \ {0}, msg : Messages,
               status : {"Valid", "Malformed", "Unknown"}, batch : Nat]
ReadMessage == [slot : Nat \ {0}, epoch : Nat \ {0}, msg : Messages]
DedupRecord == [first : Nat, kind : Kind \cup {"none"}, body : {m.body : m \in Messages} \cup {0},
                duplicates : SUBSET Nat, conflicts : SUBSET Nat]
AccessRecord == [item : Nat, batch : Nat]
StreamState == [items : Seq(StreamItem), dedup : [EventIds -> DedupRecord],
                access : [EventIds -> AccessRecord]]

Stored == [items |-> items, dedup |-> dedup, access |-> access]

\* The stream items that carry an Event ID.
Uses(st, e) == {i \in DOMAIN st.items : Classify(st.items[i].msg).event = e}

\* The records of an Event ID are what its uses in the stream say.
EventFits(st, e) ==
  LET d == st.dedup[e]
  IN  IF d.first = 0 THEN d = NoDedup /\ st.access[e] = NoAccess /\ Uses(st, e) = {}
      ELSE /\ Uses(st, e) = {d.first} \cup d.duplicates \cup d.conflicts
           /\ validate_event_dedup_membership(d)
           /\ \A i \in {d.first} \cup d.duplicates :
                st.items[i].msg.kind = d.kind /\ st.items[i].msg.body = d.body
           /\ \A i \in d.conflicts : st.items[i].msg.body # d.body
           /\ st.access[e] = IF Classify(st.items[d.first].msg).access
                             THEN [item |-> d.first, batch |-> st.items[d.first].batch]
                             ELSE NoAccess

IndexInv(st) ==
  /\ st \in StreamState
  /\ \A i \in DOMAIN st.items : st.items[i].status = Classify(st.items[i].msg).status
  /\ \A e \in EventIds : EventFits(st, e)

LEMMA ItemsShape ==
  ASSUME NEW s \in Seq(StreamItem)
  PROVE  DOMAIN s = 1 .. Len(s) /\ Len(s) \in Nat /\ \A i \in DOMAIN s : s[i] \in StreamItem
BY ElementOfSeq, LenProperties

LEMMA ReadShape ==
  ASSUME NEW s \in Seq(ReadMessage)
  PROVE  DOMAIN s = 1 .. Len(s) /\ Len(s) \in Nat /\ \A i \in DOMAIN s : s[i] \in ReadMessage
BY ElementOfSeq, LenProperties

LEMMA ClassifyType ==
  ASSUME NEW m \in Messages
  PROVE  /\ Classify(m).status \in {"Valid", "Malformed", "Unknown"}
         /\ Classify(m).event # NoEvent => Classify(m).event = m.event /\ m.event \in EventIds
         /\ Classify(m).access => m.kind = "access" /\ m.valid /\ m.here /\ Classify(m).event = m.event
BY Zenon DEF Classify, OutOfScope, EventIds

\* What every step of the intake stores: the next item, as it was read.
NewItem(r) == [slot |-> r.slot, epoch |-> r.epoch, msg |-> r.msg, status |-> Classify(r.msg).status,
               batch |-> batches + 1]

LEMMA NewItemType ==
  ASSUME batches \in Nat, NEW r \in ReadMessage
  PROVE  NewItem(r) \in StreamItem
<1>1. r.slot \in Nat \ {0} /\ r.epoch \in Nat \ {0} /\ r.msg \in Messages
  BY DEF ReadMessage
<1>2. Classify(r.msg).status \in {"Valid", "Malformed", "Unknown"}
  BY <1>1, ClassifyType
<1> QED
  BY <1>1, <1>2 DEF NewItem, StreamItem

LEMMA IntakeItems ==
  ASSUME NEW st \in StreamState, NEW r \in ReadMessage, batches \in Nat
  PROVE  Intake(st, r).items = Append(st.items, NewItem(r))
<1>1. CASE Classify(r.msg).event = NoEvent
  BY <1>1 DEF Intake, NewItem, StreamState
<1>2. CASE Classify(r.msg).event # NoEvent
  BY <1>2 DEF Intake, NewItem
<1> QED
  BY <1>1, <1>2

\* The uses of an Event ID after one more item.
LEMMA AppendedItems ==
  ASSUME NEW st \in StreamState, NEW x \in StreamItem, NEW s, s = Append(st.items, x)
  PROVE  /\ s \in Seq(StreamItem) /\ Len(s) = Len(st.items) + 1 /\ s[Len(s)] = x
         /\ DOMAIN s = DOMAIN st.items \cup {Len(st.items) + 1}
         /\ Len(st.items) + 1 \notin DOMAIN st.items /\ Len(st.items) + 1 \in Nat \ {0}
         /\ \A i \in DOMAIN st.items : s[i] = st.items[i]
<1>1. st.items \in Seq(StreamItem)
  BY DEF StreamState
<1>2. s \in Seq(StreamItem) /\ Len(s) = Len(st.items) + 1 /\ s[Len(s)] = x
      /\ \A i \in 1 .. Len(st.items) : s[i] = st.items[i]
  BY <1>1, AppendProperties
<1>3. DOMAIN s = 1 .. Len(s) /\ DOMAIN st.items = 1 .. Len(st.items) /\ Len(st.items) \in Nat
  BY <1>1, <1>2, ItemsShape
<1> QED
  BY <1>2, <1>3

LEMMA OtherEventFits ==
  ASSUME NEW st \in StreamState, NEW new \in StreamState, NEW x \in StreamItem,
         new.items = Append(st.items, x), NEW e \in EventIds, Classify(x.msg).event # e,
         new.dedup[e] = st.dedup[e], new.access[e] = st.access[e], EventFits(st, e)
  PROVE  EventFits(new, e)
<1> DEFINE n == Len(st.items) + 1
<1>1. /\ DOMAIN new.items = DOMAIN st.items \cup {n} /\ new.items[n] = x /\ n \notin DOMAIN st.items
      /\ \A i \in DOMAIN st.items : new.items[i] = st.items[i]
  BY AppendedItems
<1> HIDE DEF n
<1>2. Uses(new, e) = Uses(st, e) /\ Uses(st, e) \subseteq DOMAIN st.items
  BY <1>1 DEF Uses
<1>3. CASE st.dedup[e].first = 0
  BY <1>2, <1>3 DEF EventFits
<1>4. CASE st.dedup[e].first # 0
  <2> DEFINE d == st.dedup[e]
  <2>1. Uses(st, e) = {d.first} \cup d.duplicates \cup d.conflicts /\ d.first # 0
    BY <1>4, Zenon DEF EventFits
  <2>2. \A i \in {d.first} \cup d.duplicates \cup d.conflicts : new.items[i] = st.items[i]
    BY <1>1, <1>2, <2>1
  <2> QED
    BY <1>2, <1>4, <2>1, <2>2, ZenonT(30) DEF EventFits
<1> QED
  BY <1>3, <1>4

\* The first use of an Event ID.
LEMMA FirstUseFits ==
  ASSUME NEW st \in StreamState, NEW new \in StreamState, NEW x \in StreamItem,
         new.items = Append(st.items, x), NEW e \in EventIds, Classify(x.msg).event = e,
         EventFits(st, e), st.dedup[e].first = 0,
         NEW n, n = Len(st.items) + 1,
         new.dedup[e].first = n, new.dedup[e].kind = x.msg.kind, new.dedup[e].body = x.msg.body,
         new.dedup[e].duplicates = {}, new.dedup[e].conflicts = {},
         new.access[e] = IF Classify(x.msg).access
                         THEN [item |-> n, batch |-> x.batch] ELSE st.access[e]
  PROVE  EventFits(new, e)
<1>1. /\ DOMAIN new.items = DOMAIN st.items \cup {n} /\ new.items[n] = x /\ n # 0
      /\ n \notin DOMAIN st.items /\ \A i \in DOMAIN st.items : new.items[i] = st.items[i]
  BY AppendedItems
<1>2. Uses(st, e) = {} /\ st.access[e] = NoAccess
  BY SMTT(20) DEF EventFits
<1>4. new.access[e] = IF Classify(x.msg).access THEN [item |-> n, batch |-> x.batch] ELSE NoAccess
  BY <1>2
<1>5. Uses(new, e) = {n}
  BY <1>1, <1>2 DEF Uses
<1> QED
  BY <1>1, <1>4, <1>5, SMTT(20) DEF EventFits, validate_event_dedup_membership

\* A later use: the recorded bytes say whether it is the same message.
LEMMA LaterUseFits ==
  ASSUME NEW st \in StreamState, NEW new \in StreamState, NEW x \in StreamItem,
         new.items = Append(st.items, x), NEW e \in EventIds, Classify(x.msg).event = e,
         EventFits(st, e), st.dedup[e].first # 0,
         new.dedup[e] = Deduped(st.dedup[e], Len(st.items) + 1, x.msg),
         new.access[e] = st.access[e]
  PROVE  EventFits(new, e)
<1> DEFINE n == Len(st.items) + 1
           d == st.dedup[e]
           c == new.dedup[e]
<1>1. /\ DOMAIN new.items = DOMAIN st.items \cup {n} /\ new.items[n] = x /\ n # 0
      /\ n \notin DOMAIN st.items /\ \A i \in DOMAIN st.items : new.items[i] = st.items[i]
  BY AppendedItems
<1>2. d \in DedupRecord
  BY DEF StreamState
<1>3. /\ Uses(st, e) = {d.first} \cup d.duplicates \cup d.conflicts
      /\ d.first \notin d.duplicates \cup d.conflicts /\ d.duplicates \cap d.conflicts = {}
      /\ \A i \in {d.first} \cup d.duplicates :
           st.items[i].msg.kind = d.kind /\ st.items[i].msg.body = d.body
      /\ \A i \in d.conflicts : st.items[i].msg.body # d.body
      /\ st.access[e] = IF Classify(st.items[d.first].msg).access
                        THEN [item |-> d.first, batch |-> st.items[d.first].batch] ELSE NoAccess
  BY Zenon DEF EventFits, validate_event_dedup_membership
<1>4. c = IF d.body = x.msg.body THEN [d EXCEPT !.duplicates = @ \cup {n}]
          ELSE [d EXCEPT !.conflicts = @ \cup {n}]
  BY DEF Deduped
<1>5. /\ c.first = d.first /\ c.kind = d.kind /\ c.body = d.body
      /\ IF d.body = x.msg.body THEN c.duplicates = d.duplicates \cup {n} /\ c.conflicts = d.conflicts
         ELSE c.duplicates = d.duplicates /\ c.conflicts = d.conflicts \cup {n}
  <2> HIDE DEF c, d, n
  <2> QED
    BY <1>2, <1>4 DEF DedupRecord
<1>6. st.items \in Seq(StreamItem)
  BY DEF StreamState
<1>7. c.first # 0 /\ new.access[e] = st.access[e]
  BY <1>5
<1>8. d = st.dedup[e] /\ c = new.dedup[e]
  OBVIOUS
<1> HIDE DEF n, d, c
<1>9. Uses(st, e) \subseteq DOMAIN st.items /\ Uses(new, e) = Uses(st, e) \cup {n}
  BY <1>1, SMTT(20) DEF Uses
<1>10. Uses(new, e) = {c.first} \cup c.duplicates \cup c.conflicts
  BY <1>3, <1>5, <1>9, SMTT(20)
<1>11. validate_event_dedup_membership(c)
  BY <1>1, <1>3, <1>5, <1>9, SMTT(20) DEF validate_event_dedup_membership
<1>12. d.body = x.msg.body => x.msg = st.items[d.first].msg
  <2>1. d.first \in DOMAIN st.items
    BY <1>3, <1>9
  <2>2. st.items[d.first].msg \in Messages /\ x.msg \in Messages
    BY <1>6, <2>1, ItemsShape, Zenon DEF StreamItem
  <2> QED
    BY <1>3, <2>2, StreamConstants, SMTT(20)
<1>13. d.first \in DOMAIN st.items /\ d.duplicates \subseteq DOMAIN st.items
       /\ d.conflicts \subseteq DOMAIN st.items
  BY <1>3, <1>9, SMTT(20)
<1>14. \A i \in {c.first} \cup c.duplicates :
         new.items[i].msg.kind = c.kind /\ new.items[i].msg.body = c.body
  BY <1>1, <1>3, <1>5, <1>12, <1>13, SMTT(20)
<1>15. \A i \in c.conflicts : new.items[i].msg.body # c.body
  BY <1>1, <1>3, <1>5, <1>13, SMTT(20)
<1>16. new.access[e] = IF Classify(new.items[c.first].msg).access
                       THEN [item |-> c.first, batch |-> new.items[c.first].batch] ELSE NoAccess
  BY <1>1, <1>3, <1>5, <1>7, <1>13
<1> QED
  BY <1>7, <1>8, <1>10, <1>11, <1>14, <1>15, <1>16, Zenon DEF EventFits

\* update_event_dedupe keeps its record a record.
LEMMA DedupedType ==
  ASSUME NEW d \in DedupRecord, NEW i \in Nat, NEW m \in Messages
  PROVE  Deduped(d, i, m) \in DedupRecord
<1>1. m.kind \in Kind /\ m.body \in {x.body : x \in Messages}
  BY StreamConstants
<1>2. CASE d.first = 0
  <2>1. Deduped(d, i, m) = [first |-> i, kind |-> m.kind, body |-> m.body, duplicates |-> {},
                            conflicts |-> {}]
    BY <1>2, Zenon DEF Deduped, NoDedup
  <2> QED
    BY <1>1, <2>1 DEF DedupRecord
<1>3. CASE d.first # 0
  BY <1>3 DEF Deduped, DedupRecord
<1> QED
  BY <1>2, <1>3

LEMMA ItemsClassified ==
  ASSUME NEW st, IndexInv(st), NEW new \in StreamState, NEW x \in StreamItem,
         new.items = Append(st.items, x), x.status = Classify(x.msg).status,
         \A e \in EventIds : EventFits(new, e)
  PROVE  IndexInv(new)
<1>1. st \in StreamState
  BY DEF IndexInv
<1> DEFINE n == Len(st.items) + 1
<1>2. /\ DOMAIN new.items = DOMAIN st.items \cup {n} /\ new.items[n] = x
      /\ \A i \in DOMAIN st.items : new.items[i] = st.items[i]
  BY <1>1, AppendedItems
<1> HIDE DEF n
<1> QED
  BY <1>2 DEF IndexInv

\* One turn of the loop keeps the indexes.
LEMMA IntakeKeeps ==
  ASSUME batches \in Nat, NEW st, IndexInv(st), NEW r \in ReadMessage
  PROVE  IndexInv(Intake(st, r))
<1> DEFINE new == Intake(st, r)
           x == NewItem(r)
           e == Classify(r.msg).event
           n == Len(st.items) + 1
<1> SUFFICES IndexInv(new)
  OBVIOUS
<1>0. st \in StreamState /\ st.items \in Seq(StreamItem) /\ x \in StreamItem /\ r.msg \in Messages
  BY NewItemType DEF IndexInv, StreamState, ReadMessage
<1>1. new.items = Append(st.items, x)
  BY <1>0, IntakeItems
<1>2. x.msg = r.msg /\ x.status = Classify(r.msg).status /\ x.batch = batches + 1
  BY DEF NewItem
<1>3. n \in Nat /\ Append(st.items, x) \in Seq(StreamItem)
  BY <1>0, AppendedItems
<1>4. CASE e = NoEvent
  <2>1. new = [st EXCEPT !.items = Append(@, x)]
    BY <1>4 DEF Intake, NewItem
  <2> HIDE DEF new, x
  <2>2. new \in StreamState /\ new.dedup = st.dedup /\ new.access = st.access
    BY <1>0, <1>3, <2>1, Zenon DEF StreamState
  <2>3. \A a \in EventIds : EventFits(new, a)
    <3> SUFFICES ASSUME NEW a \in EventIds PROVE EventFits(new, a)
      OBVIOUS
    <3>1. Classify(x.msg).event # a
      BY <1>2, <1>4 DEF EventIds
    <3> QED
      BY <1>0, <1>1, <2>2, <3>1, OtherEventFits DEF IndexInv
  <2> QED
    BY <1>0, <1>1, <1>2, <2>2, <2>3, ItemsClassified, Zenon
<1>5. CASE e # NoEvent
  <2>0. e \in EventIds
    BY <1>0, <1>5, ClassifyType
  <2> DEFINE nd == [st.dedup EXCEPT ![e] = Deduped(@, n, r.msg)]
             na == IF Classify(r.msg).access /\ st.dedup[e].first = 0
                   THEN [st.access EXCEPT ![e] = [item |-> n, batch |-> batches + 1]] ELSE st.access
  <2>1. new = [items |-> Append(st.items, x), dedup |-> nd, access |-> na]
    BY <1>5 DEF Intake, NewItem
  <2>2. st.dedup \in [EventIds -> DedupRecord] /\ st.access \in [EventIds -> AccessRecord]
    BY <1>0 DEF StreamState
  <2>3. Deduped(st.dedup[e], n, r.msg) \in DedupRecord
    BY <1>0, <1>3, <2>0, <2>2, DedupedType
  <2>4. /\ nd \in [EventIds -> DedupRecord] /\ nd[e] = Deduped(st.dedup[e], n, r.msg)
        /\ \A a \in EventIds : a # e => nd[a] = st.dedup[a]
    <3> HIDE DEF e, n
    <3> QED
      BY <2>0, <2>2, <2>3
  <2>5. [item |-> n, batch |-> batches + 1] \in AccessRecord
    BY <1>3 DEF AccessRecord
  <2>6. /\ na \in [EventIds -> AccessRecord] /\ \A a \in EventIds : a # e => na[a] = st.access[a]
        /\ na[e] = IF Classify(r.msg).access /\ st.dedup[e].first = 0
                   THEN [item |-> n, batch |-> batches + 1] ELSE st.access[e]
    <3> HIDE DEF e, n
    <3> QED
      BY <2>0, <2>2, <2>5, SMTT(20)
  <2> HIDE DEF new, x, nd, na
  <2>7. new \in StreamState /\ new.dedup = nd /\ new.access = na
    BY <1>3, <2>1, <2>4, <2>6, SMTT(20) DEF StreamState
  <2>8. \A a \in EventIds : a # e => EventFits(new, a)
    <3> SUFFICES ASSUME NEW a \in EventIds, a # e PROVE EventFits(new, a)
      OBVIOUS
    <3> QED
      BY <1>0, <1>1, <1>2, <2>4, <2>6, <2>7, OtherEventFits, SMTT(20) DEF IndexInv
  <2>9. EventFits(new, e)
    <3>1. EventFits(st, e) /\ Classify(x.msg).event = e
      BY <1>2, <2>0 DEF IndexInv
    <3>2. CASE st.dedup[e].first = 0
      <4>1. new.dedup[e] = [NoDedup EXCEPT !.first = n, !.kind = x.msg.kind, !.body = x.msg.body]
        BY <1>2, <2>4, <2>7, <3>2 DEF Deduped
      <4>3. /\ new.dedup[e].first = n /\ new.dedup[e].kind = x.msg.kind
            /\ new.dedup[e].body = x.msg.body /\ new.dedup[e].duplicates = {}
            /\ new.dedup[e].conflicts = {}
        BY <4>1 DEF NoDedup
      <4>4. n = Len(st.items) + 1
        OBVIOUS
      <4>2. new.access[e] = IF Classify(x.msg).access THEN [item |-> n, batch |-> x.batch]
                            ELSE st.access[e]
        BY <1>2, <2>6, <2>7, <3>2
      <4> HIDE DEF e, n
      <4> QED
        BY <1>0, <1>1, <2>0, <2>7, <3>1, <3>2, <4>2, <4>3, <4>4, FirstUseFits, Zenon
    <3>3. CASE st.dedup[e].first # 0
      <4>1. new.dedup[e] = Deduped(st.dedup[e], n, x.msg) /\ new.access[e] = st.access[e]
        BY <1>2, <2>4, <2>6, <2>7, <3>3
      <4> HIDE DEF e
      <4> QED
        BY <1>0, <1>1, <2>0, <2>7, <3>1, <3>3, <4>1, LaterUseFits, SMTT(20)
    <3> QED
      BY <3>2, <3>3
  <2>10. \A a \in EventIds : EventFits(new, a)
    BY <2>8, <2>9, Zenon
  <2> QED
    BY <1>0, <1>1, <1>2, <2>7, <2>10, ItemsClassified, Zenon
<1> QED
  BY <1>4, <1>5

-----------------------------------------------------------------------------
(* A whole batch                                                           *)

\* Induction over the messages of a batch.
LEMMA BatchInduction ==
  ASSUME NEW n \in Nat, NEW S, 0 \in S, \A k \in 1 .. n : k - 1 \in S => k \in S
  PROVE  \A k \in 0 .. n : k \in S
<1> SUFFICES ASSUME NEW j \in 0 .. n, j \notin S PROVE FALSE
  OBVIOUS
<1> DEFINE B == {k \in 0 .. n : k \notin S}
<1>1. B \subseteq Nat /\ j \in B
  OBVIOUS
<1>2. PICK b : b = First(B)
  BY SMTT(20)
<1>3. b \in B /\ \A k \in B : b <= k
  <2> HIDE DEF B
  <2> QED
    BY <1>1, <1>2, FirstIsLeast, Zenon
<1>4. b \in 1 .. n
  BY <1>3
<1>5. b - 1 \notin B /\ b - 1 \in 0 .. n
  BY <1>3, <1>4
<1> QED
  BY <1>3, <1>4, <1>5

\* The states of the loop: the first n turns of it, and what each makes of the one before.
Loop(f, read, n) ==
  f = [k \in 0 .. n |-> IF k = 0 THEN [items |-> items, dedup |-> dedup, access |-> access]
                        ELSE Intake(f[k - 1], read[k])]

LEMMA LoopExists ==
  ASSUME NEW read, NEW n \in Nat
  PROVE  \E f : Loop(f, read, n)
<1> DEFINE S == {k \in 0 .. n : \E f : Loop(f, read, k)}
<1>1. 0 \in S
  <2>1. Loop([k \in 0 .. 0 |-> Stored], read, 0)
    BY DEF Loop, Stored
  <2> QED
    BY <2>1
<1>2. ASSUME NEW k \in 1 .. n, k - 1 \in S PROVE k \in S
  <2>1. PICK f : Loop(f, read, k - 1)
    BY <1>2
  <2> DEFINE g == [i \in 0 .. k |-> IF i = k THEN Intake(f[k - 1], read[k]) ELSE f[i]]
  <2>2. ASSUME NEW i \in 0 .. k
        PROVE  g[i] = IF i = 0 THEN [items |-> items, dedup |-> dedup, access |-> access]
                      ELSE Intake(g[i - 1], read[i])
    <3>1. CASE i = k
      <4>1. g[k - 1] = f[k - 1]
        OBVIOUS
      <4> QED
        BY <3>1, <4>1
    <3>2. CASE i # k /\ i = 0
      BY <2>1, <3>2 DEF Loop
    <3>3. CASE i # k /\ i # 0
      <4>1. i \in 0 .. k - 1 /\ i - 1 \in 0 .. k /\ i - 1 # k
        BY <3>3
      <4>2. g[i] = f[i] /\ g[i - 1] = f[i - 1]
        BY <3>3, <4>1
      <4>3. f[i] = Intake(f[i - 1], read[i])
        BY <2>1, <3>3, <4>1 DEF Loop
      <4> HIDE DEF g
      <4> QED
        BY <3>3, <4>2, <4>3
    <3> QED
      BY <3>1, <3>2, <3>3
  <2>3. g = [i \in 0 .. k |-> g[i]]
    OBVIOUS
  <2> HIDE DEF g
  <2>4. Loop(g, read, k)
    BY <2>2, <2>3, Zenon DEF Loop
  <2> QED
    BY <2>4
<1> HIDE DEF S
<1>3. n \in S
  BY <1>1, <1>2, BatchInduction
<1> QED
  BY <1>3 DEF S

LEMMA AfterBatchIsLast ==
  ASSUME NEW read, Len(read) \in Nat
  PROVE  \E f : Loop(f, read, Len(read)) /\ AfterBatch(read) = f[Len(read)]
<1>1. \E f : Loop(f, read, Len(read))
  BY LoopExists
<1> DEFINE g == CHOOSE f : Loop(f, read, Len(read))
<1>2. Loop(g, read, Len(read))
  BY <1>1
<1>3. AfterBatch(read) = g[Len(read)]
  BY DEF AfterBatch, Loop
<1> QED
  BY <1>2, <1>3, Zenon

\* persist_private_stream_batch: the items of a batch follow those of the stream, in the
\* order they were read, and the indexes stay what the stream says.
LEMMA BatchStored ==
  ASSUME batches \in Nat, IndexInv(Stored), NEW read \in Seq(ReadMessage)
  PROVE  /\ IndexInv(AfterBatch(read))
         /\ Len(AfterBatch(read).items) = Len(items) + Len(read)
         /\ \A i \in 1 .. Len(items) : AfterBatch(read).items[i] = items[i]
         /\ \A j \in 1 .. Len(read) : AfterBatch(read).items[Len(items) + j] = NewItem(read[j])
<1>0. Len(read) \in Nat /\ \A k \in 1 .. Len(read) : read[k] \in ReadMessage
  BY ReadShape
<1>1. PICK f : Loop(f, read, Len(read)) /\ AfterBatch(read) = f[Len(read)]
  BY <1>0, AfterBatchIsLast
<1>2. items \in Seq(StreamItem) /\ Len(items) \in Nat
  BY ItemsShape DEF IndexInv, Stored, StreamState
<1> DEFINE P(k) == /\ IndexInv(f[k])
                   /\ Len(f[k].items) = Len(items) + k
                   /\ \A i \in 1 .. Len(items) : f[k].items[i] = items[i]
                   /\ \A j \in 1 .. k : f[k].items[Len(items) + j] = NewItem(read[j])
           S == {k \in 0 .. Len(read) : P(k)}
<1>3. 0 \in S
  <2>1. f[0] = Stored
    BY <1>0, <1>1 DEF Loop, Stored
  <2>2. Stored.items = items
    BY DEF Stored
  <2> QED
    BY <1>0, <1>2, <2>1, <2>2
<1>4. ASSUME NEW k \in 1 .. Len(read), k - 1 \in S PROVE k \in S
  <2>1. f[k] = Intake(f[k - 1], read[k]) /\ read[k] \in ReadMessage /\ k \in 0 .. Len(read)
    BY <1>0, <1>1 DEF Loop
  <2>2. P(k - 1)
    BY <1>4
  <2>3. IndexInv(f[k])
    BY <2>1, <2>2, IntakeKeeps, SMTT(20)
  <2>4. f[k - 1] \in StreamState /\ f[k].items = Append(f[k - 1].items, NewItem(read[k]))
    BY <2>1, <2>2, IntakeItems DEF IndexInv
  <2>5. NewItem(read[k]) \in StreamItem
    BY <2>1, NewItemType
  <2>6. /\ Len(f[k].items) = Len(f[k - 1].items) + 1
        /\ f[k].items[Len(f[k].items)] = NewItem(read[k])
        /\ \A i \in DOMAIN f[k - 1].items : f[k].items[i] = f[k - 1].items[i]
    BY <2>4, <2>5, AppendedItems
  <2>7. DOMAIN f[k - 1].items = 1 .. Len(items) + (k - 1)
    BY <2>2, <2>4, ItemsShape DEF StreamState
  <2>8. Len(f[k].items) = Len(items) + k
    BY <1>2, <2>2, <2>6
  <2>9. \A i \in 1 .. Len(items) : f[k].items[i] = items[i]
    <3> SUFFICES ASSUME NEW i \in 1 .. Len(items) PROVE f[k].items[i] = items[i]
      OBVIOUS
    <3>1. i \in 1 .. Len(items) + (k - 1)
      BY <1>2
    <3> QED
      BY <2>2, <2>6, <2>7, <3>1, Zenon
  <2>10. ASSUME NEW j \in 1 .. k PROVE f[k].items[Len(items) + j] = NewItem(read[j])
    <3>1. CASE j = k
      BY <2>6, <2>8, <3>1
    <3>2. CASE j # k
      <4>1. j \in 1 .. k - 1 /\ Len(items) + j \in 1 .. Len(items) + (k - 1)
        BY <1>2, <3>2
      <4> QED
        BY <2>2, <2>6, <2>7, <4>1, SMTT(20)
    <3> QED
      BY <3>1, <3>2
  <2> QED
    BY <2>1, <2>3, <2>8, <2>9, <2>10
<1> HIDE DEF S
<1>5. Len(read) \in S
  <2>1. \A k \in 0 .. Len(read) : k \in S
    BY <1>0, <1>3, <1>4, BatchInduction, Zenon
  <2> QED
    BY <1>0, <2>1
<1> QED
  BY <1>1, <1>5, Zenon DEF S

-----------------------------------------------------------------------------
(* Receiving under the lease                                               *)

LinkState == [epoch : Nat, rcvd : Nat]
JobState == [link : LinkState, read : Seq(ReadMessage)]

ReceiveTypes ==
  /\ LeaseTypeOK
  /\ link \in LinkState
  /\ epochs \in Nat \ {0}
  /\ inbox \in Seq(Messages)
  /\ batches \in Nat
  /\ pc \in [Worker -> Step]
  /\ job \in [Worker -> JobState]

\* A worker that holds the lease has read on from the stored checkpoint; one that reads has
\* begun with nothing.
ReadsOn(w) ==
  /\ pc[w] \in {"idle", "receive", "relink", "restore"} => job[w].read = <<>>
  /\ HoldsLease(w) /\ pc[w] \in {"read", "persist"} =>
       /\ HasLink(link)
       /\ job[w].link.epoch = link.epoch
       /\ job[w].link.rcvd = link.rcvd + Len(job[w].read)
       /\ \A k \in 1 .. Len(job[w].read) :
            job[w].read[k].slot = link.rcvd + k /\ job[w].read[k].epoch = link.epoch

StreamInv ==
  /\ link.epoch \in {0, epochs}
  /\ \A i \in DOMAIN items : items[i].epoch <= epochs
  /\ StreamMatchesCheckpoint

ReceiveInv ==
  /\ ReceiveTypes
  /\ LeaseUnique
  /\ IndexInv(Stored)
  /\ StreamInv
  /\ \A w \in Worker : ReadsOn(w)

\* What a restore asks for is what the indexes keep.
LEMMA IndexedIsRestorable == ReceiveInv => StreamIsRestorable
<1> SUFFICES ASSUME ReceiveInv PROVE StreamIsRestorable
  OBVIOUS
<1>1. Stored.items = items /\ Stored.dedup = dedup /\ Stored.access = access
  BY DEF Stored
<1>2. Stored \in StreamState /\ items \in Seq(StreamItem)
  BY <1>1 DEF ReceiveInv, IndexInv, StreamState
<1>3. ASSUME NEW i \in DOMAIN items PROVE items[i].msg \in Messages /\ i # 0
  <2>1. items[i] \in StreamItem /\ i \in 1 .. Len(items) /\ Len(items) \in Nat
    BY <1>2, ItemsShape, Zenon
  <2>2. items[i].msg \in Messages
    BY <2>1, Zenon DEF StreamItem
  <2> QED
    BY <2>1, <2>2
<1>4. ASSUME NEW e \in EventIds
      PROVE  IF dedup[e].first = 0
             THEN access[e] = NoAccess /\ \A i \in DOMAIN items : Classify(items[i].msg).event # e
             ELSE /\ {i \in DOMAIN items : Classify(items[i].msg).event = e} =
                       {dedup[e].first} \cup dedup[e].duplicates \cup dedup[e].conflicts
                  /\ validate_event_dedup_membership(dedup[e])
                  /\ \A i \in {dedup[e].first} \cup dedup[e].duplicates :
                       items[i].msg.kind = dedup[e].kind /\ items[i].msg.body = dedup[e].body
                  /\ \A i \in dedup[e].conflicts : items[i].msg.body # dedup[e].body
                  /\ access[e] = IF Classify(items[dedup[e].first].msg).access
                                 THEN [item |-> dedup[e].first, batch |-> items[dedup[e].first].batch]
                                 ELSE NoAccess
  <2>1. EventFits(Stored, e)
    BY DEF ReceiveInv, IndexInv
  <2>2. Uses(Stored, e) = {i \in DOMAIN items : Classify(items[i].msg).event = e}
    BY <1>1, SMTT(20) DEF Uses
  <2>3. CASE dedup[e].first = 0
    BY <1>1, <2>1, <2>2, <2>3, SMTT(20) DEF EventFits
  <2>4. CASE dedup[e].first # 0
    BY <1>1, <2>1, <2>2, <2>4, SMTT(20) DEF EventFits
  <2> QED
    BY <2>3, <2>4, Zenon
<1>5. validate_private_stream_items
  BY <1>1 DEF ReceiveInv, IndexInv, validate_private_stream_items
<1>6. validate_event_dedup_records
  <2> SUFFICES ASSUME NEW e \in EventIds, dedup[e].first # 0
               PROVE  /\ validate_event_dedup_membership(dedup[e])
                      /\ \A i \in {dedup[e].first} \cup dedup[e].duplicates :
                           validate_event_dedup_stream_item(e, i, TRUE)
                      /\ \A i \in dedup[e].conflicts : validate_event_dedup_stream_item(e, i, FALSE)
    BY Zenon DEF validate_event_dedup_records
  <2>1. /\ {i \in DOMAIN items : Classify(items[i].msg).event = e} =
             {dedup[e].first} \cup dedup[e].duplicates \cup dedup[e].conflicts
        /\ validate_event_dedup_membership(dedup[e])
        /\ \A i \in {dedup[e].first} \cup dedup[e].duplicates :
             items[i].msg.kind = dedup[e].kind /\ items[i].msg.body = dedup[e].body
        /\ \A i \in dedup[e].conflicts : items[i].msg.body # dedup[e].body
    BY <1>4, Zenon
  <2>2. \A i \in {dedup[e].first} \cup dedup[e].duplicates \cup dedup[e].conflicts :
          i \in DOMAIN items /\ Classify(items[i].msg).event = e
    BY <2>1, Zenon
  <2> QED
    BY <2>1, <2>2, Zenon DEF validate_event_dedup_stream_item
<1>7. validate_receipt_access_records
  <2> SUFFICES ASSUME NEW e \in EventIds, access[e] # NoAccess
               PROVE  /\ access[e].item \in DOMAIN items
                      /\ items[access[e].item].batch = access[e].batch
                      /\ items[access[e].item].msg.kind = "access"
                      /\ items[access[e].item].msg.valid /\ items[access[e].item].msg.here
                      /\ items[access[e].item].msg.event = e
    BY SMTT(20) DEF validate_receipt_access_records
  <2> DEFINE i == dedup[e].first
  <2>1. /\ i \in DOMAIN items /\ Classify(items[i].msg).event = e /\ Classify(items[i].msg).access
        /\ access[e] = [item |-> i, batch |-> items[i].batch]
    BY <1>4
  <2> HIDE DEF i
  <2>2. access[e].item = i /\ access[e].batch = items[i].batch
    BY <2>1
  <2> QED
    BY <1>3, <2>1, <2>2, ClassifyType
<1>8. validate_required_private_stream_indexes
  <2> SUFFICES ASSUME NEW i \in DOMAIN items, NEW e, e = Classify(items[i].msg).event, e # NoEvent
               PROVE  /\ event_dedup_record_contains(dedup[e], i)
                      /\ Classify(items[i].msg).access /\ dedup[e].first = i => access[e] # NoAccess
    BY DEF validate_required_private_stream_indexes
  <2>1. e \in EventIds
    BY <1>3, ClassifyType
  <2>2. dedup[e].first # 0 /\ i \in {dedup[e].first} \cup dedup[e].duplicates \cup dedup[e].conflicts
    BY <1>4, <2>1, Zenon
  <2>3. event_dedup_record_contains(dedup[e], i)
    BY <1>4, <2>1, <2>2, Zenon DEF event_dedup_record_contains
  <2>4. ASSUME Classify(items[i].msg).access, dedup[e].first = i PROVE access[e] # NoAccess
    <3>1. access[e] = [item |-> i, batch |-> items[i].batch]
      BY <1>4, <2>1, <2>2, <2>4
    <3> QED
      BY <1>3, <3>1, SMTT(20) DEF NoAccess
  <2> QED
    BY <2>3, <2>4
<1> QED
  BY <1>5, <1>6, <1>7, <1>8 DEF StreamIsRestorable

\* The indexes depend on nothing but what is stored.
LEMMA StoredAs ==
  ASSUME NEW st, IndexInv(st), Stored' = st
  PROVE  IndexInv(Stored)'
<1>1. ASSUME NEW e \in EventIds PROVE EventFits(Stored, e)'
  <2>1. EventFits(st, e)
    BY <1>1, Zenon DEF IndexInv
  <2>2. Uses(Stored, e)' = Uses(st, e)
    BY Zenon DEF Uses
  <2> QED
    BY <2>1, <2>2, Zenon DEF EventFits
<1> QED
  BY <1>1, Zenon DEF IndexInv

\* Steps that leave the stored stream and link alone.
LEMMA StoredStays ==
  ASSUME ReceiveInv, ReceiveTypes', LeaseUnique', UNCHANGED <<streamVars, link, epochs>>,
         \A w \in Worker : ReadsOn(w)'
  PROVE  ReceiveInv'
<1>1. UNCHANGED <<items, batches, dedup, access, link, epochs>>
  BY DEF streamVars
<1>2. IndexInv(Stored)'
  <2>1. Stored' = Stored
    BY <1>1 DEF Stored
  <2>2. IndexInv(Stored)
    BY DEF ReceiveInv
  <2> QED
    BY <2>1, <2>2, StoredAs, Zenon
<1>3. StreamInv'
  BY <1>1 DEF ReceiveInv, StreamInv, StreamMatchesCheckpoint, SlotsOf
<1> QED
  BY <1>2, <1>3 DEF ReceiveInv

\* A worker that neither moves nor becomes a holder goes on as it was, if the link stays.
LEMMA OthersReadOn ==
  ASSUME ReceiveInv, NEW v \in Worker, UNCHANGED link, pc'[v] = pc[v], job'[v] = job[v],
         HoldsLease(v)' => HoldsLease(v)
  PROVE  ReadsOn(v)'
BY DEF ReceiveInv, ReadsOn

LEMMA WorkerMoves ==
  ASSUME ReceiveInv, NEW w \in Worker, NEW p \in Step, NEW j \in JobState,
         UNCHANGED <<streamVars, link, epochs, inbox>>,
         pc' = [pc EXCEPT ![w] = p], job' = [job EXCEPT ![w] = j],
         LeaseTypeOK', LeaseUnique', \A v \in Worker : v # w /\ HoldsLease(v)' => HoldsLease(v),
         ReadsOn(w)'
  PROVE  ReceiveInv'
<1>1. ReceiveTypes
  BY DEF ReceiveInv
<1>2. ReceiveTypes'
  BY <1>1 DEF ReceiveTypes, streamVars
<1>3. \A v \in Worker : v # w => pc'[v] = pc[v] /\ job'[v] = job[v]
  BY <1>1 DEF ReceiveTypes
<1>4. ASSUME NEW v \in Worker PROVE ReadsOn(v)'
  <2>1. CASE v = w
    BY <2>1
  <2>2. CASE v # w
    BY <1>3, <2>2, OthersReadOn
  <2> QED
    BY <2>1, <2>2
<1> QED
  BY <1>2, <1>4, StoredStays

LEMMA SameLease ==
  ASSUME ReceiveInv, UNCHANGED leaseVars
  PROVE  LeaseTypeOK' /\ LeaseUnique' /\ \A v \in Worker : HoldsLease(v)' = HoldsLease(v)
BY DEF ReceiveInv, ReceiveTypes, LeaseTypeOK, LeaseUnique, HoldsLease, leaseVars

LEMMA NoJobType == NoJob \in JobState /\ NoJob.read = <<>> /\ NoLink \in LinkState
BY DEF NoJob, NoLink, JobState, LinkState

\* Steps of the frame.
LEMMA FrameKeeps ==
  ASSUME ReceiveInv, NEW w \in Worker,
         \/ \E o \in DOMAIN FirstStep : Begin(w, o)
         \/ Claim(w) \/ ClaimRefused(w) \/ Release(w) \/ Crash(w)
  PROVE  ReceiveInv'
<1>0. /\ ReceiveTypes /\ LeaseTypeOK /\ LeaseUnique /\ ReadsOn(w)
      /\ pc \in [Worker -> Step] /\ job \in [Worker -> JobState]
      /\ job = [job EXCEPT ![w] = job[w]] /\ job[w] \in JobState
  BY DEF ReceiveInv, ReceiveTypes
<1>s. DOMAIN FirstStep = {"receive", "relink"} /\ FirstStep["receive"] = "restore"
      /\ FirstStep["relink"] = "saveLink"
  BY DEF FirstStep
<1>1. ASSUME NEW o \in DOMAIN FirstStep, Begin(w, o) PROVE ReceiveInv'
  <2>1. /\ pc[w] = "idle" /\ pc' = [pc EXCEPT ![w] = o] /\ UNCHANGED <<leaseVars, job>>
        /\ UNCHANGED <<streamVars, link, epochs, inbox>> /\ o \in Step
    BY <1>1 DEF Begin, Goto, Step
  <2>2. job' = [job EXCEPT ![w] = job[w]] /\ pc'[w] = o
    BY <1>0, <2>1
  <2>3. ReadsOn(w)'
    BY <1>0, <1>s, <2>1, <2>2, Zenon DEF ReadsOn
  <2> QED
    BY <1>0, <2>1, <2>2, <2>3, SameLease, WorkerMoves, Zenon
<1>2. CASE Claim(w)
  <2>1. /\ ClaimLease(w) /\ pc' = [pc EXCEPT ![w] = FirstStep[pc[w]]] /\ UNCHANGED job
        /\ UNCHANGED <<streamVars, link, epochs, inbox>> /\ pc[w] \in {"receive", "relink"}
    BY <1>2, <1>s DEF Claim, Goto
  <2>2. /\ job' = [job EXCEPT ![w] = job[w]] /\ pc'[w] = FirstStep[pc[w]]
        /\ FirstStep[pc[w]] \in {"restore", "saveLink"} /\ FirstStep[pc[w]] \in Step
    BY <1>0, <1>s, <2>1 DEF Step
  <2>3. ReadsOn(w)'
    BY <1>0, <2>1, <2>2, Zenon DEF ReadsOn
  <2>4. LeaseTypeOK' /\ LeaseUnique' /\ \A v \in Worker : v # w /\ HoldsLease(v)' => HoldsLease(v)
    BY <1>0, <2>1, LeaseStepType, LeaseStepUnique, ClaimerIsAlone
  <2> QED
    BY <1>0, <2>1, <2>2, <2>3, <2>4, WorkerMoves, Zenon
<1>3. CASE ClaimRefused(w)
  <2>1. /\ pc[w] \in {"receive", "relink"} /\ pc' = [pc EXCEPT ![w] = "idle"]
        /\ UNCHANGED <<leaseVars, job>> /\ UNCHANGED <<streamVars, link, epochs, inbox>>
    BY <1>3, <1>s DEF ClaimRefused, Goto
  <2>2. job' = [job EXCEPT ![w] = job[w]] /\ pc'[w] = "idle" /\ "idle" \in Step
    BY <1>0, <2>1 DEF Step
  <2>3. ReadsOn(w)'
    BY <1>0, <2>1, <2>2, Zenon DEF ReadsOn
  <2> QED
    BY <1>0, <2>1, <2>2, <2>3, SameLease, WorkerMoves, Zenon
<1>4. CASE Release(w) \/ Crash(w)
  <2>1. /\ ReleaseLease(w) \/ DropLease(w)
        /\ pc' = [pc EXCEPT ![w] = "idle"] /\ job' = [job EXCEPT ![w] = NoJob]
        /\ UNCHANGED <<streamVars, link, epochs, inbox>> /\ "idle" \in Step
    BY <1>4 DEF Release, Crash, Goto, Step
  <2>2. job'[w] = NoJob /\ pc'[w] = "idle"
    BY <1>0, <2>1, SMTT(20)
  <2>3. ReadsOn(w)'
    BY <2>2, NoJobType DEF ReadsOn
  <2>4. LeaseTypeOK' /\ LeaseUnique' /\ \A v \in Worker : v # w /\ HoldsLease(v)' => HoldsLease(v)
    BY <1>0, <2>1, LeaseStepType, LeaseStepUnique, LeavingMakesNoHolder
  <2> QED
    BY <2>1, <2>3, <2>4, NoJobType, WorkerMoves, Zenon
<1> QED
  BY <1>1, <1>2, <1>3, <1>4

\* Steps of a receive before anything is stored.
LEMMA ReadingKeeps ==
  ASSUME ReceiveInv, NEW w \in Worker,
         \/ Restore(w) \/ Read(w) \/ ReadAll(w) \/ \E p \in {"release", "mark"} : ReceiveFails(w, p)
  PROVE  ReceiveInv'
<1>0. /\ ReceiveTypes /\ ReadsOn(w)
      /\ pc \in [Worker -> Step] /\ job \in [Worker -> JobState]
      /\ job = [job EXCEPT ![w] = job[w]] /\ pc = [pc EXCEPT ![w] = pc[w]]
      /\ job[w] \in JobState /\ pc[w] \in Step /\ link \in LinkState
  BY DEF ReceiveInv, ReceiveTypes
<1>u. /\ UNCHANGED leaseVars /\ UNCHANGED <<streamVars, link, epochs, inbox>>
  BY DEF Restore, Read, ReadAll, ReceiveFails
<1>v. LeaseTypeOK' /\ LeaseUnique' /\ \A v \in Worker : HoldsLease(v)' = HoldsLease(v)
  BY <1>u, SameLease
<1>1. CASE Restore(w)
  <2>1. PICK j : j = [job[w] EXCEPT !.link = link]
    OBVIOUS
  <2>2. j \in JobState /\ j.link = link /\ j.read = job[w].read
    BY <1>0, <2>1 DEF JobState
  <2>3. PICK p \in {"read", "mark"} : /\ pc' = [pc EXCEPT ![w] = p] /\ pc[w] = "restore"
                                      /\ p = "read" => HasLink(link)
    BY <1>1, Zenon DEF Restore, Goto
  <2>4. job' = [job EXCEPT ![w] = j]
    BY <1>0, <1>1, <2>1 DEF Restore
  <2>5. pc'[w] = p /\ job'[w] = j /\ p \in Step
    BY <1>0, <2>3, <2>4 DEF Step
  <2>6. j.read = <<>> /\ Len(j.read) = 0
    BY <1>0, <2>2, <2>3 DEF ReadsOn
  <2>7. ReadsOn(w)'
    BY <1>0, <1>u, <2>2, <2>3, <2>5, <2>6 DEF ReadsOn, LinkState
  <2> QED
    BY <1>u, <1>v, <2>2, <2>3, <2>4, <2>5, <2>7, WorkerMoves, Zenon
<1>2. CASE Read(w)
  <2> DEFINE s == job[w].link.rcvd + 1
             r == [slot |-> s, epoch |-> epochs, msg |-> inbox[s]]
  <2>0. /\ pc[w] = "read" /\ job[w].link.epoch = epochs /\ Len(inbox) > job[w].link.rcvd
        /\ job' = [job EXCEPT ![w].link.rcvd = s, ![w].read = Append(@, r)] /\ UNCHANGED pc
    BY <1>2, SMTT(20) DEF Read, Available
  <2>1. job[w].link \in LinkState /\ job[w].read \in Seq(ReadMessage) /\ job[w].link.rcvd \in Nat
    BY <1>0 DEF JobState, LinkState
  <2>2. inbox \in Seq(Messages) /\ epochs \in Nat \ {0} /\ Len(inbox) \in Nat
        /\ DOMAIN inbox = 1 .. Len(inbox)
    BY <1>0, LenProperties DEF ReceiveTypes
  <2>3. s \in DOMAIN inbox /\ s \in Nat \ {0}
    BY <2>0, <2>1, <2>2
  <2>4. inbox[s] \in Messages
    BY <2>2, <2>3, ElementOfSeq, SMTT(20)
  <2>5. r \in ReadMessage /\ r.slot = s /\ r.epoch = epochs
    BY <2>2, <2>3, <2>4 DEF ReadMessage
  <2>6. PICK j : j = [link |-> [epoch |-> job[w].link.epoch, rcvd |-> s],
                      read |-> Append(job[w].read, r)]
    OBVIOUS
  <2>7. job' = [job EXCEPT ![w] = j]
    <3>1. job'[w] = j
      BY <1>0, <2>0, <2>1, <2>6, Zenon DEF JobState, LinkState
    <3> QED
      BY <1>0, <2>0, <3>1, Zenon
  <2> HIDE DEF r, s
  <2>8. /\ Append(job[w].read, r) \in Seq(ReadMessage)
        /\ Len(Append(job[w].read, r)) = Len(job[w].read) + 1
        /\ Append(job[w].read, r)[Len(job[w].read) + 1] = r
        /\ \A k \in 1 .. Len(job[w].read) : Append(job[w].read, r)[k] = job[w].read[k]
        /\ Len(job[w].read) \in Nat
    BY <2>1, <2>5, AppendProperties, ReadShape
  <2>9. /\ j \in JobState /\ j.link.epoch = epochs /\ j.link.rcvd = s
        /\ j.read = Append(job[w].read, r)
    BY <2>0, <2>2, <2>3, <2>6, <2>8 DEF JobState, LinkState
  <2>10. job'[w] = j /\ pc'[w] = "read" /\ pc' = [pc EXCEPT ![w] = pc[w]]
    BY <1>0, <2>0, <2>7, Zenon
  <2>11. ASSUME HoldsLease(w)
         PROVE  /\ HasLink(link) /\ j.link.epoch = link.epoch
                /\ j.link.rcvd = link.rcvd + Len(j.read)
                /\ \A k \in 1 .. Len(j.read) :
                     j.read[k].slot = link.rcvd + k /\ j.read[k].epoch = link.epoch
    <3>1. /\ HasLink(link) /\ job[w].link.epoch = link.epoch
          /\ job[w].link.rcvd = link.rcvd + Len(job[w].read) /\ link.rcvd \in Nat
          /\ \A k \in 1 .. Len(job[w].read) :
               job[w].read[k].slot = link.rcvd + k /\ job[w].read[k].epoch = link.epoch
      BY <1>0, <2>0, <2>11 DEF ReadsOn, LinkState
    <3>2. s = link.rcvd + (Len(job[w].read) + 1)
      BY <2>8, <3>1 DEF s
    <3>3. \A k \in 1 .. Len(job[w].read) + 1 : k \in 1 .. Len(job[w].read) \/ k = Len(job[w].read) + 1
      BY <2>8
    <3> QED
      BY <2>0, <2>5, <2>8, <2>9, <3>1, <3>2, <3>3
  <2>12. ReadsOn(w)'
    BY <1>u, <1>v, <2>10, <2>11 DEF ReadsOn
  <2> QED
    BY <1>0, <1>u, <1>v, <2>7, <2>9, <2>10, <2>12, WorkerMoves, Zenon
<1>3. CASE ReadAll(w)
  <2>1. pc[w] = "read" /\ pc' = [pc EXCEPT ![w] = "persist"] /\ UNCHANGED job /\ "persist" \in Step
    BY <1>3 DEF ReadAll, Goto, Step
  <2>2. job' = [job EXCEPT ![w] = job[w]] /\ job'[w] = job[w] /\ pc'[w] = "persist"
    BY <1>0, <2>1, SMTT(20)
  <2>3. ReadsOn(w)'
    BY <1>0, <1>u, <1>v, <2>1, <2>2 DEF ReadsOn
  <2> QED
    BY <1>0, <1>u, <1>v, <2>1, <2>2, <2>3, WorkerMoves, Zenon
<1>4. ASSUME NEW p \in {"release", "mark"}, ReceiveFails(w, p) PROVE ReceiveInv'
  <2>1. pc' = [pc EXCEPT ![w] = p] /\ job' = [job EXCEPT ![w] = NoJob] /\ p \in Step
    BY <1>4 DEF ReceiveFails, Goto, Step
  <2>2. job'[w] = NoJob /\ pc'[w] = p
    BY <1>0, <2>1
  <2>3. ReadsOn(w)'
    BY <2>2 DEF ReadsOn
  <2> QED
    BY <1>u, <1>v, <2>1, <2>3, NoJobType, WorkerMoves, Zenon
<1> QED
  BY <1>1, <1>2, <1>3, <1>4

\* The holder of the lease has stored the link: no other worker reads under the lease.
LEMMA HolderStored ==
  ASSUME ReceiveInv, NEW w \in Worker, HoldsLease(w), UNCHANGED <<leaseVars, job>>,
         pc' = [pc EXCEPT ![w] = "release"]
  PROVE  \A v \in Worker : ReadsOn(v)'
<1>0. pc \in [Worker -> Step] /\ LeaseUnique
  BY DEF ReceiveInv, ReceiveTypes
<1> SUFFICES ASSUME NEW v \in Worker PROVE ReadsOn(v)'
  OBVIOUS
<1>1. CASE v = w
  BY <1>0, <1>1, SMTT(20) DEF ReadsOn
<1>2. CASE v # w
  <2>1. ~HoldsLease(v)'
    BY <1>0, <1>2, LoneHolder DEF HoldsLease, leaseVars
  <2>2. pc'[v] = pc[v] /\ job'[v] = job[v] /\ ReadsOn(v)
    BY <1>0, <1>2 DEF ReceiveInv
  <2> QED
    BY <2>1, <2>2 DEF ReadsOn
<1> QED
  BY <1>1, <1>2

\* The batch and its checkpoint, in one transaction: the slots go on where they ended.
LEMMA BatchMatches ==
  ASSUME StreamInv, link \in LinkState, epochs \in Nat \ {0}, HasLink(link),
         items \in Seq(StreamItem), items' \in Seq(StreamItem), NEW read \in Seq(ReadMessage),
         Len(items') = Len(items) + Len(read),
         \A i \in 1 .. Len(items) : items'[i] = items[i],
         \A k \in 1 .. Len(read) : /\ items'[Len(items) + k].slot = link.rcvd + k
                                   /\ items'[Len(items) + k].epoch = link.epoch,
         link' \in LinkState, link'.epoch = link.epoch, link'.rcvd = link.rcvd + Len(read),
         UNCHANGED epochs
  PROVE  StreamInv'
<1> DEFINE n == Len(items)
           m == Len(read)
           c == link.rcvd
<1>0. /\ n \in Nat /\ DOMAIN items = 1 .. n /\ DOMAIN items' = 1 .. n + m /\ m \in Nat /\ c \in Nat
      /\ \A i \in DOMAIN items : items[i].slot \in Nat \ {0}
      /\ link.epoch = epochs
  BY ItemsShape, ReadShape, Zenon DEF StreamItem, LinkState, StreamInv, HasLink
<1>1. \A i \in 1 .. n + m : i \in 1 .. n \/ (i - n \in 1 .. m /\ i = n + (i - n) /\ i > n)
  BY <1>0
<1>2. \A i \in 1 .. n : items'[i] = items[i]
  OBVIOUS
<1>3. \A i \in 1 .. n + m : i > n =>
        items'[i].slot = c + (i - n) /\ items'[i].epoch = epochs /\ i - n \in 1 .. m
  <2> SUFFICES ASSUME NEW i \in 1 .. n + m, i > n
               PROVE  items'[i].slot = c + (i - n) /\ items'[i].epoch = epochs /\ i - n \in 1 .. m
    OBVIOUS
  <2>1. i - n \in 1 .. m /\ i = n + (i - n)
    <3> HIDE DEF n, m
    <3> QED
      BY <1>0
  <2>3. PICK k \in 1 .. m : i = n + k /\ k = i - n
    BY <2>1, Zenon
  <2>2. items'[n + k].slot = c + k /\ items'[n + k].epoch = link.epoch
    BY Zenon
  <2> QED
    BY <1>0, <2>3, <2>2, Zenon
<1>4. \A s : s \in SlotsOf(epochs) <=> s \in 1 .. c
  BY <1>0 DEF StreamInv, StreamMatchesCheckpoint, HasLink
<1>5. \A i \in 1 .. n : items[i].epoch = epochs => items[i].slot \in 1 .. c
  BY <1>0, <1>4 DEF SlotsOf
<1>6. \A i \in DOMAIN items' : items'[i].epoch <= epochs'
  BY <1>0, <1>1, <1>2, <1>3 DEF StreamInv
<1>7. ASSUME NEW e \in 1 .. epochs, e # epochs PROVE SlotsOf(e)' = SlotsOf(e)
  BY <1>0, <1>1, <1>2, <1>3, <1>7, SMTT(20) DEF SlotsOf
<1>8. SlotsOf(epochs)' = 1 .. c + m
  <2>1. ASSUME NEW s \in SlotsOf(epochs)' PROVE s \in 1 .. c + m
    <3>1. PICK i \in DOMAIN items' : items'[i].epoch = epochs /\ s = items'[i].slot
      BY <2>1 DEF SlotsOf
    <3> QED
      BY <1>0, <1>1, <1>2, <1>3, <1>5, <3>1
  <2>2. ASSUME NEW s \in 1 .. c + m PROVE s \in SlotsOf(epochs)'
    <3>1. CASE s <= c
      <4>1. s \in SlotsOf(epochs)
        BY <1>0, <1>4, <3>1, SMTT(20)
      <4>2. PICK i \in 1 .. n : items[i].epoch = epochs /\ s = items[i].slot
        BY <1>0, <4>1 DEF SlotsOf
      <4>3. i \in DOMAIN items' /\ items'[i] = items[i]
        BY <1>0, <1>2
      <4> QED
        BY <4>2, <4>3 DEF SlotsOf
    <3>2. CASE s > c
      <4>1. n + (s - c) \in DOMAIN items' /\ n + (s - c) > n
        BY <1>0, <3>2
      <4>2. PICK i : i = n + (s - c)
        OBVIOUS
      <4>3. items'[i].slot = s /\ items'[i].epoch = epochs
        <5>1. items'[i].slot = c + (i - n) /\ items'[i].epoch = epochs
          BY <1>0, <1>3, <4>1, <4>2, SMTT(20)
        <5> QED
          BY <1>0, <4>2, <5>1
      <4> QED
        BY <4>1, <4>2, <4>3 DEF SlotsOf
    <3> QED
      BY <1>0, <3>1, <3>2
  <2>3. \A s : s \in SlotsOf(epochs)' <=> s \in 1 .. c + m
    BY <2>1, <2>2
  <2>4. \A s \in SlotsOf(epochs)' : s \in 1 .. c + m
    BY <2>3
  <2> QED
    BY <2>3, Zenon
<1>9. ASSUME NEW i \in DOMAIN items', NEW j \in DOMAIN items', i < j,
             items'[i].epoch = items'[j].epoch
      PROVE  items'[i].slot < items'[j].slot
  <2>1. CASE j <= n
    <3>1. i \in 1 .. n /\ j \in 1 .. n
      BY <1>0, <1>9, <2>1
    <3>2. i \in DOMAIN items /\ j \in DOMAIN items /\ items'[i] = items[i] /\ items'[j] = items[j]
      BY <1>0, <1>2, <3>1, Zenon
    <3> QED
      BY <1>9, <3>2, Zenon DEF StreamInv, StreamMatchesCheckpoint
  <2>2. CASE j > n /\ i > n
    BY <1>0, <1>3, <1>9, <2>2
  <2>3. CASE j > n /\ i <= n
    <3>1. items'[j].slot = c + (j - n) /\ items'[j].epoch = epochs /\ j - n >= 1
      BY <1>0, <1>3, <2>3
    <3>2. i \in 1 .. n /\ items'[i] = items[i] /\ items[i].slot \in 1 .. c
      BY <1>0, <1>2, <1>5, <1>9, <2>3, <3>1
    <3> QED
      BY <1>0, <3>1, <3>2
  <2> QED
    BY <1>0, <2>1, <2>2, <2>3
<1>10. ASSUME NEW e \in 1 .. epochs', NEW s \in SlotsOf(e)' PROVE s > 0 /\ 1 .. s \subseteq SlotsOf(e)'
  <2>1. CASE e = epochs
    <3>1. s \in 1 .. c + m
      BY <1>8, <1>10, <2>1
    <3> QED
      BY <1>0, <1>8, <2>1, <3>1
  <2>2. CASE e # epochs
    BY <1>7, <1>10, <2>2 DEF StreamInv, StreamMatchesCheckpoint
  <2> QED
    BY <2>1, <2>2
<1>11. HasLink(link') => SlotsOf(link.epoch)' = 1 .. link'.rcvd
  <2>1. \A e : e = epochs => SlotsOf(e)' = 1 .. c + m
    BY <1>8
  <2> QED
    BY <1>0, <1>8 DEF SlotsOf
<1>12. StreamMatchesCheckpoint'
  BY <1>9, <1>10, <1>11 DEF StreamMatchesCheckpoint
<1> QED
  BY <1>0, <1>6, <1>12 DEF StreamInv

LEMMA PersistKeeps ==
  ASSUME ReceiveInv, NEW w \in Worker, Persist(w)
  PROVE  ReceiveInv'
<1>0. /\ ReceiveTypes /\ ReadsOn(w) /\ pc \in [Worker -> Step] /\ job \in [Worker -> JobState]
      /\ job[w] \in JobState /\ link \in LinkState /\ epochs \in Nat \ {0} /\ batches \in Nat
      /\ IndexInv(Stored)
  BY DEF ReceiveInv, ReceiveTypes
<1>1. /\ pc[w] = "persist" /\ pc' = [pc EXCEPT ![w] = "release"]
      /\ UNCHANGED <<leaseVars, epochs, inbox, job>> /\ "release" \in Step
  BY DEF Persist, Goto, Step
<1>2. CASE ~HoldsLease(w)
  <2>1. UNCHANGED <<streamVars, link, epochs, inbox>> /\ job' = [job EXCEPT ![w] = job[w]]
    BY <1>0, <1>1, <1>2 DEF Persist
  <2>2. ReadsOn(w)'
    BY <1>0, <1>1, Zenon DEF ReadsOn
  <2> QED
    BY <1>0, <1>1, <2>1, <2>2, SameLease, WorkerMoves, Zenon
<1>3. CASE HoldsLease(w)
  <2>0. PICK read : read = job[w].read
    OBVIOUS
  <2>1. PICK st : st = AfterBatch(read)
    OBVIOUS
  <2>2. /\ items' = st.items /\ dedup' = st.dedup /\ access' = st.access
        /\ batches' = batches + 1 /\ link' = job[w].link
    BY <1>3, <2>0, <2>1, Zenon DEF Persist
  <2>3. read \in Seq(ReadMessage) /\ job[w].link \in LinkState
    BY <1>0, <2>0 DEF JobState
  <2>4. /\ IndexInv(st)
        /\ Len(st.items) = Len(items) + Len(read)
        /\ \A i \in 1 .. Len(items) : st.items[i] = items[i]
        /\ \A j \in 1 .. Len(read) : st.items[Len(items) + j] = NewItem(read[j])
    BY <1>0, <2>1, <2>3, BatchStored, SMTT(20)
  <2>5. st \in StreamState /\ st = [items |-> st.items, dedup |-> st.dedup, access |-> st.access]
    BY <2>4 DEF IndexInv, StreamState
  <2>6. Stored' = st
    BY <2>2, <2>5, SMTT(20) DEF Stored
  <2>7. IndexInv(Stored)'
    BY <2>4, <2>6, StoredAs, Zenon
  <2>8. /\ HasLink(link) /\ job[w].link.epoch = link.epoch
        /\ job[w].link.rcvd = link.rcvd + Len(read)
        /\ \A k \in 1 .. Len(read) : read[k].slot = link.rcvd + k /\ read[k].epoch = link.epoch
    BY <1>0, <1>1, <1>3, <2>0, Zenon DEF ReadsOn
  <2>9. \A k \in 1 .. Len(read) : /\ items'[Len(items) + k].slot = link.rcvd + k
                                  /\ items'[Len(items) + k].epoch = link.epoch
    <3> SUFFICES ASSUME NEW k \in 1 .. Len(read)
                 PROVE  /\ items'[Len(items) + k].slot = link.rcvd + k
                        /\ items'[Len(items) + k].epoch = link.epoch
      BY Zenon
    <3>1. items'[Len(items) + k] = NewItem(read[k])
      BY <2>2, <2>4, Zenon
    <3>2. NewItem(read[k]).slot = read[k].slot /\ NewItem(read[k]).epoch = read[k].epoch
      BY Zenon DEF NewItem
    <3> QED
      BY <2>8, <3>1, <3>2, Zenon
  <2>10. items \in Seq(StreamItem) /\ items' \in Seq(StreamItem)
    BY <1>0, <2>2, <2>5, ZenonT(30) DEF IndexInv, Stored, StreamState
  <2>11. StreamInv'
    <3>1. StreamInv /\ UNCHANGED epochs
      BY <1>1 DEF ReceiveInv
    <3>2. Len(items') = Len(items) + Len(read) /\ \A i \in 1 .. Len(items) : items'[i] = items[i]
      BY <2>2, <2>4, Zenon
    <3>3. link' \in LinkState /\ link'.epoch = link.epoch /\ link'.rcvd = link.rcvd + Len(read)
      BY <2>2, <2>3, <2>8, Zenon
    <3> QED
      BY <1>0, <2>3, <2>8, <2>9, <2>10, <3>1, <3>2, <3>3, BatchMatches, Zenon
  <2>12. ReceiveTypes' /\ LeaseUnique'
    <3>1. LeaseTypeOK' /\ LeaseUnique'
      BY <1>1, SameLease, Zenon
    <3>2. pc' \in [Worker -> Step] /\ batches' \in Nat
      BY <1>0, <1>1, <2>2
    <3>3. link' \in LinkState /\ UNCHANGED <<epochs, inbox, job>>
      BY <1>1, <2>2, <2>3
    <3> QED
      BY <1>0, <3>1, <3>2, <3>3, Zenon DEF ReceiveTypes
  <2>13. \A v \in Worker : ReadsOn(v)'
    BY <1>1, <1>3, HolderStored, Zenon
  <2> QED
    BY <2>7, <2>11, <2>12, <2>13 DEF ReceiveInv
<1> QED
  BY <1>2, <1>3

\* The link is lost, or a new one stored.
LEMMA LinkStepKeeps ==
  ASSUME ReceiveInv, NEW w \in Worker, Mark(w) \/ SaveLink(w)
  PROVE  ReceiveInv'
<1>0. /\ ReceiveTypes /\ ReadsOn(w) /\ pc \in [Worker -> Step] /\ job \in [Worker -> JobState]
      /\ job[w] \in JobState /\ job = [job EXCEPT ![w] = job[w]] /\ epochs \in Nat \ {0}
      /\ IndexInv(Stored) /\ StreamInv
  BY DEF ReceiveInv, ReceiveTypes
<1>1. /\ pc' = [pc EXCEPT ![w] = "release"] /\ pc'[w] = "release" /\ "release" \in Step
      /\ UNCHANGED <<leaseVars, streamVars, job>>
  BY <1>0 DEF Mark, SaveLink, Goto, Step
<1>2. CASE UNCHANGED <<link, epochs, inbox>>
  <2>1. ReadsOn(w)'
    BY <1>1 DEF ReadsOn
  <2> QED
    BY <1>0, <1>1, <1>2, <2>1, SameLease, WorkerMoves, Zenon
<1>3. ASSUME HoldsLease(w), inbox' \in Seq(Messages),
             \/ link' = NoLink /\ UNCHANGED epochs
             \/ link' = NewLink(epochs + 1) /\ epochs' = epochs + 1
      PROVE  ReceiveInv'
  <2>1. UNCHANGED <<items, batches, dedup, access>>
    BY <1>1, SMTT(20) DEF streamVars
  <2>2. IndexInv(Stored)'
    <3>1. Stored' = Stored
      BY <2>1 DEF Stored
    <3> QED
      BY <1>0, <3>1, StoredAs, Zenon
  <2>3. link' \in LinkState /\ epochs' \in Nat \ {0} /\ link'.epoch \in {0, epochs'}
    BY <1>0, <1>3 DEF NoLink, NewLink, LinkState
  <2>4. \A e : SlotsOf(e)' = SlotsOf(e)
    BY <2>1 DEF SlotsOf
  <2>5. items \in Seq(StreamItem)
    BY <1>0 DEF IndexInv, Stored, StreamState
  <2>6. \A i \in DOMAIN items : items[i].epoch \in Nat /\ items[i].epoch <= epochs
    BY <1>0, <2>5, ItemsShape, Zenon DEF StreamItem, StreamInv
  <2>7. SlotsOf(epochs + 1) = {}
    BY <1>0, <2>6 DEF SlotsOf
  <2>8. epochs' = epochs \/ epochs' = epochs + 1
    BY <1>3
  <2>9. \A e \in 1 .. epochs' : \A s \in SlotsOf(e) : s > 0 /\ 1 .. s \subseteq SlotsOf(e)
    <3>1. \A e \in 1 .. epochs' : e \in 1 .. epochs \/ e = epochs + 1
      BY <1>0, <2>8
    <3> QED
      BY <1>0, <2>7, <3>1 DEF StreamInv, StreamMatchesCheckpoint
  <2>10. HasLink(link') => SlotsOf(link'.epoch) = 1 .. link'.rcvd
    <3>1. CASE link' = NoLink
      BY <3>1 DEF NoLink, HasLink
    <3>2. CASE link' = NewLink(epochs + 1)
      <4>1. link'.epoch = epochs + 1 /\ 1 .. link'.rcvd = {}
        BY <3>2 DEF NewLink
      <4> QED
        BY <2>7, <4>1, Zenon
    <3> QED
      BY <1>3, <3>1, <3>2
  <2>11. StreamMatchesCheckpoint'
    <3>1. SlotsOf(link.epoch)' = SlotsOf(link'.epoch)
      BY <2>1 DEF SlotsOf
    <3>2. \A i, j \in DOMAIN items' :
            i < j /\ items'[i].epoch = items'[j].epoch => items'[i].slot < items'[j].slot
      BY <1>0, <2>1 DEF StreamInv, StreamMatchesCheckpoint
    <3> QED
      BY <2>4, <2>9, <2>10, <3>1, <3>2, SMTT(20) DEF StreamMatchesCheckpoint
  <2>12. StreamInv'
    <3>1. \A i \in DOMAIN items' : items'[i].epoch <= epochs'
      BY <1>0, <2>1, <2>6, <2>8
    <3> QED
      BY <2>3, <2>11, <3>1, Zenon DEF StreamInv
  <2>13. ReceiveTypes' /\ LeaseUnique'
    BY <1>0, <1>1, <1>3, <2>1, <2>3, SameLease DEF ReceiveTypes
  <2>14. \A v \in Worker : ReadsOn(v)'
    BY <1>1, <1>3, HolderStored, Zenon
  <2> QED
    BY <2>2, <2>12, <2>13, <2>14 DEF ReceiveInv
<1>4. CASE Mark(w)
  BY <1>0, <1>2, <1>3, <1>4, Zenon DEF Mark, ReceiveTypes
<1>5. CASE SaveLink(w)
  <2>1. CASE UNCHANGED <<epochs, link, inbox>>
    BY <1>2, <2>1
  <2>2. CASE HoldsLease(w) /\ epochs' = epochs + 1 /\ link' = NewLink(epochs + 1) /\ inbox' = <<>>
    <3>1. <<>> \in Seq(Messages)
      OBVIOUS
    <3> QED
      BY <1>3, <2>2, <3>1, Zenon
  <2> QED
    BY <1>5, <2>1, <2>2, Zenon DEF SaveLink
<1> QED
  BY <1>4, <1>5

\* The counterparty writes, or time passes.
LEMMA AroundKeeps ==
  ASSUME ReceiveInv, \/ \E m \in Messages : Send(m) \/ \E s \in DOMAIN inbox : Rewrite(s, m)
                     \/ Tick \/ UNCHANGED receiveVars
  PROVE  ReceiveInv'
<1>0. ReceiveTypes /\ LeaseTypeOK /\ LeaseUnique /\ inbox \in Seq(Messages)
  BY DEF ReceiveInv, ReceiveTypes
<1>1. UNCHANGED <<link, epochs, streamVars, pc, job>>
  BY DEF Send, Rewrite, Tick, receiveVars
<1>2. AdvanceClock \/ UNCHANGED leaseVars
  BY DEF Send, Rewrite, Tick, receiveVars
<1>3. \A v \in Worker : HoldsLease(v)' = HoldsLease(v)
  BY <1>2 DEF AdvanceClock, HoldsLease, leaseVars
<1>4. LeaseTypeOK' /\ LeaseUnique'
  BY <1>0, <1>2 DEF AdvanceClock, LeaseTypeOK, LeaseUnique, leaseVars
<1>5. inbox' \in Seq(Messages)
  <2>1. ASSUME NEW m \in Messages, Send(m) PROVE inbox' \in Seq(Messages)
    BY <1>0, <2>1, AppendProperties DEF Send
  <2>2. ASSUME NEW m \in Messages, NEW s \in DOMAIN inbox, Rewrite(s, m) PROVE inbox' \in Seq(Messages)
    BY <1>0, <2>2, ExceptSeq DEF Rewrite
  <2>3. CASE Tick \/ UNCHANGED receiveVars
    BY <1>0, <2>3 DEF Tick, receiveVars
  <2> QED
    BY <2>1, <2>2, <2>3, SMTT(20)
<1>6. ReceiveTypes'
  BY <1>0, <1>1, <1>4, <1>5, SMTT(20) DEF ReceiveTypes, streamVars
<1>7. \A v \in Worker : ReadsOn(v)'
  BY <1>1, <1>3, OthersReadOn
<1> QED
  BY <1>1, <1>4, <1>6, <1>7, StoredStays

LEMMA ReceiveInductive == ReceiveSpec => []ReceiveInv
<1>1. ReceiveInit => ReceiveInv
  <2> SUFFICES ASSUME ReceiveInit PROVE ReceiveInv
    OBVIOUS
  <2>1. ReceiveTypes
    BY NoJobType DEF ReceiveInit, ReceiveTypes, LeaseInit, LeaseTypeOK, NoLease, NewLink, LinkState, Step
  <2>2. LeaseUnique
    BY DEF ReceiveInit, LeaseInit, LeaseUnique, NoLease
  <2>3. DOMAIN items = {} /\ items \in Seq(StreamItem)
    BY DEF ReceiveInit
  <2>4. NoDedup \in DedupRecord /\ NoAccess \in AccessRecord
    BY DEF NoDedup, NoAccess, DedupRecord, AccessRecord
  <2>5. Stored \in StreamState
    BY <2>3, <2>4, Zenon DEF ReceiveInit, Stored, StreamState
  <2>6. IndexInv(Stored)
    BY <2>3, <2>5, Zenon DEF ReceiveInit, IndexInv, EventFits, Uses, Stored, NoDedup
  <2>7. \A e : SlotsOf(e) = {}
    BY <2>3 DEF SlotsOf
  <2>8. StreamInv
    BY <2>3, <2>7 DEF ReceiveInit, StreamInv, StreamMatchesCheckpoint, NewLink
  <2>9. \A w \in Worker : ReadsOn(w)
    BY NoJobType, Zenon DEF ReceiveInit, ReadsOn
  <2> QED
    BY <2>1, <2>2, <2>6, <2>8, <2>9, SMTT(20) DEF ReceiveInv
<1>2. ReceiveInv /\ [ReceiveNext]_receiveVars => ReceiveInv'
  BY FrameKeeps, ReadingKeeps, PersistKeeps, LinkStepKeeps, AroundKeeps
     DEF ReceiveNext, WorkerStep, Quiet
<1> QED
  BY <1>1, <1>2, PTL DEF ReceiveSpec

\* The stored stream has every slot of every link once and in order, up to the checkpoint of
\* the stored link (persist_private_stream_batch_with_link_lease), for any number of workers,
\* messages and links.
THEOREM CheckpointTheorem == ReceiveSpec => []StreamMatchesCheckpoint
<1>1. ReceiveInv => StreamMatchesCheckpoint
  BY DEF ReceiveInv, StreamInv
<1> QED
  BY <1>1, ReceiveInductive, PTL

\* Whatever arrived, in whatever batches, the stored stream and its indexes pass the checks
\* of a restore (validate_private_stream_items, validate_event_dedup_records,
\* validate_receipt_access_records, validate_required_private_stream_indexes).
THEOREM StreamRestorableTheorem == ReceiveSpec => []StreamIsRestorable
<1> QED
  BY IndexedIsRestorable, ReceiveInductive, PTL

=============================================================================
