------------------------- MODULE PaymentResolution -------------------------
(***************************************************************************)
(* Resolving a private contact payment: resolve_private_contact_payment    *)
(* and prepare_and_resolve_private_contact_payment, called again and again *)
(* by an app that stores the version of a payable result as consumed       *)
(* before it pays, as the documentation asks of it.  Meanwhile the peer    *)
(* changes state under other operations and lists keep arriving.           *)
(*                                                                         *)
(* The stream holds what matters of a stored item: whether it is a valid   *)
(* Private Payment List and whether that list has endpoints.  Its index is *)
(* the stream_item_id, which is the version of the list.  Other operations *)
(* on the peer are coarse; their steps are those of LinkedPeer,            *)
(* RecoveryMarkers and PrivateStream.                                      *)
(***************************************************************************)
EXTENDS Integers, Sequences, FiniteSets, FiniteSetsExt

CONSTANTS
  SyncRoundLimit,  \* PREPARE_PRIVATE_PAYMENT_SYNC_ROUND_LIMIT
  MaxStream        \* bound: stream items ever stored

VARIABLES
  peering,    \* LinkedPeerRecord.state
  live,       \* the app's session provider has a session
  stream,     \* the kinds of the stored stream items
  resolve,    \* the call: its step and what it holds
  consumed,   \* the version the app stored as consumed, 0 for none
  paid        \* history: the versions the app paid with, in order

resolutionVars == <<peering, live, stream, resolve, consumed, paid>>

ItemKind == {"list", "emptyList", "other"}
ResolutionPeerState == {"NotLinked", "Linking", "Linked", "RecoveryRequired", "Blocked"}
ResolutionStep == {"idle", "link", "round", "allowed", "observe", "recheck", "load", "refresh",
                   "receive", "reload", "decide", "select", "payable"}
\* version and has: the candidate batch, version 0 for none; seen: the latest list when
\* the call began; open: the peer was usable at some moment of the call.
NoCall == [pc |-> "idle", live |-> FALSE, state |-> "NoPrivateEndpoint", version |-> 0,
           has |-> FALSE, rounds |-> 0, seen |-> 0, open |-> FALSE]

ResolutionInit ==
  /\ peering = "NotLinked"
  /\ live = TRUE
  /\ stream = <<>>
  /\ resolve = NoCall
  /\ consumed = 0
  /\ paid = <<>>

Usable(state) == state \in {"Linked", "NotLinked"}

\* derive_private_payment_list_view: the id of the latest valid list, 0 for none.
LatestList(items) == Max({i \in DOMAIN items : items[i] # "other"} \cup {0})

----------------------------------------------------------------------------
(* The world around the call.                                             *)

\* Other operations link, break, block or unblock the peer.
PeerChanges(state) ==
  /\ state # peering
  /\ peering' = state
  /\ resolve' = IF resolve.pc = "idle" THEN resolve ELSE [resolve EXCEPT !.open = @ \/ Usable(state)]
  /\ UNCHANGED <<live, stream, consumed, paid>>

SessionChanges == live' = ~live /\ UNCHANGED <<peering, stream, resolve, consumed, paid>>

\* Another receive_private_messages stores an item.
ItemArrives(kind) ==
  /\ peering = "Linked"
  /\ Len(stream) < MaxStream
  /\ stream' = Append(stream, kind)
  /\ UNCHANGED <<peering, live, resolve, consumed, paid>>

----------------------------------------------------------------------------
(* The call.                                                              *)

ResolveGoto(call) == resolve' = call /\ UNCHANGED <<live, consumed, paid>>
To(pc) == [resolve EXCEPT !.pc = pc]

\* load_session_access_and_refresh_identity; prepare_... asks for a session of its own.
BeginResolve(prepare) ==
  /\ resolve.pc = "idle"
  /\ ResolveGoto([NoCall EXCEPT !.pc = IF prepare /\ live THEN "link" ELSE "allowed",
                                !.live = live, !.seen = LatestList(stream),
                                !.open = Usable(peering)])
  /\ UNCHANGED <<peering, stream>>

\* An error of any step ends the call.
ResolveFails ==
  /\ resolve.pc \in {"link", "round", "observe", "refresh", "receive", "select"}
  /\ ResolveGoto(NoCall)
  /\ UNCHANGED <<peering, stream>>

\* ensure_link_with_peer, as far as it gets.
EnsureLink(state) ==
  /\ resolve.pc = "link"
  /\ peering # "Blocked"
  /\ state \in {"Linking", "Linked"}
  /\ peering' = state
  /\ ResolveGoto([To("round") EXCEPT !.open = @ \/ Usable(state)])
  /\ UNCHANGED stream

\* One round of process_outbound_private_messages and receive_private_messages, each of
\* which makes progress or not; both refuse a peer that is not linked.
SyncRound(kinds, progress) ==
  /\ resolve.pc = "round"
  /\ peering = "Linked"
  /\ Len(stream) + Len(kinds) <= MaxStream
  /\ stream' = stream \o kinds
  /\ LET again == progress \/ kinds # <<>>
         rounds == resolve.rounds + 1
     IN  IF again /\ rounds < SyncRoundLimit
         THEN ResolveGoto([resolve EXCEPT !.rounds = rounds])
         ELSE \* resolve_private_contact_payment loads the session again.
              ResolveGoto([To("allowed") EXCEPT !.rounds = 0, !.live = live])
  /\ UNCHANGED peering

\* private_resolution_allowed_for_peer, or its cached variant without a session.
AllowedForPeer(next) ==
  LET ready == peering = "Linked" \/ (~resolve.live /\ peering = "NotLinked")
  IN  IF peering = "Blocked" THEN ResolveGoto(NoCall)
      ELSE IF ready THEN ResolveGoto(To(next))
      ELSE ResolveGoto([To("decide") EXCEPT !.state = "RecoveryPending"])

CheckAllowed ==
  /\ resolve.pc = "allowed"
  /\ AllowedForPeer(IF resolve.live THEN "observe" ELSE "load")
  /\ UNCHANGED <<peering, stream>>

\* observe_remote_recovery_marker_for_cached_private_state
ObserveMarker(found) ==
  /\ resolve.pc = "observe"
  /\ IF found /\ peering # "Blocked"
     THEN /\ peering' = "RecoveryRequired"
          /\ ResolveGoto([To("decide") EXCEPT !.state = "RecoveryPending"])
     ELSE /\ ResolveGoto(To("recheck"))
          /\ UNCHANGED peering
  /\ UNCHANGED stream

Recheck ==
  /\ resolve.pc = "recheck"
  /\ AllowedForPeer("load")
  /\ UNCHANGED <<peering, stream>>

\* Mutant: a list without endpoints, which clears the earlier ones, is passed over.
WithBatch_Endpoints(call) ==
  LET v == Max({i \in DOMAIN stream : stream[i] = "list"} \cup {0})
  IN  [call EXCEPT !.version = v, !.has = v # 0, !.state = IF v # 0 THEN "Available" ELSE @]

\* private_candidate_batch
WithBatch(call) ==
  LET v == LatestList(stream)
      has == v # 0 /\ stream[v] = "list"
  IN  [call EXCEPT !.version = v, !.has = has, !.state = IF has THEN "Available" ELSE @]

LoadList ==
  /\ resolve.pc = "load"
  /\ LET call == WithBatch(resolve)
     IN  ResolveGoto([call EXCEPT !.pc = IF ~call.has /\ call.live THEN "refresh" ELSE "decide"])
  /\ UNCHANGED <<peering, stream>>

\* recover_private_candidates_for_resolution up to its receive; a marker found here ends
\* the call with the error.
RefreshCandidates(found) ==
  /\ resolve.pc = "refresh"
  /\ IF peering \in {"Linking", "RecoveryRequired"}
     THEN ResolveGoto([To("decide") EXCEPT !.state = "RecoveryPending"]) /\ UNCHANGED peering
     ELSE IF peering # "Linked" THEN ResolveGoto(To("decide")) /\ UNCHANGED peering
     ELSE IF found THEN peering' = "RecoveryRequired" /\ ResolveGoto(NoCall)
     ELSE ResolveGoto(To("receive")) /\ UNCHANGED peering
  /\ UNCHANGED stream

\* receive_private_messages stores what is there, or fails and leaves the batch as it was.
ReceiveForRefresh(kinds) ==
  /\ resolve.pc = "receive"
  /\ peering = "Linked"
  /\ Len(stream) + Len(kinds) <= MaxStream
  /\ stream' = stream \o kinds
  /\ ResolveGoto(To("reload"))
  /\ UNCHANGED peering

ReceiveRefused ==
  /\ resolve.pc = "receive"
  /\ ResolveGoto([To("decide") EXCEPT !.state = "RecoveryPending"])
  /\ UNCHANGED <<peering, stream>>

Reload ==
  /\ resolve.pc = "reload"
  /\ ResolveGoto([WithBatch(resolve) EXCEPT !.pc = "decide"])
  /\ UNCHANGED <<peering, stream>>

\* Mutant: the version that was consumed will do.
is_newer_than_NotOlder(version, after) == version >= after

is_newer_than(version, after) == version > after

\* NoEndpoint, WaitingForUpdatedPaymentList, or on to the payment adapter.
Decide ==
  /\ resolve.pc = "decide"
  /\ ResolveGoto(IF resolve.version # 0 /\ is_newer_than(resolve.version, consumed) /\ resolve.has
                 THEN To("select") ELSE NoCall)
  /\ UNCHANGED <<peering, stream>>

\* resolve_private_candidate_batch: the adapter selects endpoints, or none.
SelectEndpoints(some) ==
  /\ resolve.pc = "select"
  /\ ResolveGoto(IF some THEN To("payable") ELSE NoCall)
  /\ UNCHANGED <<peering, stream>>

\* The app stores the version and pays, or only looks and drops the result.
AppPays ==
  /\ resolve.pc = "payable"
  /\ consumed' = resolve.version
  /\ paid' = Append(paid, resolve.version)
  /\ resolve' = NoCall
  /\ UNCHANGED <<peering, live, stream>>

AppDrops == resolve.pc = "payable" /\ ResolveGoto(NoCall) /\ UNCHANGED <<peering, stream>>

Received == {<<>>} \cup {<<k>> : k \in ItemKind}

ResolutionNext ==
  \/ \E s \in ResolutionPeerState : PeerChanges(s) \/ EnsureLink(s)
  \/ SessionChanges
  \/ \E k \in ItemKind : ItemArrives(k)
  \/ \E b \in BOOLEAN :
       BeginResolve(b) \/ ObserveMarker(b) \/ RefreshCandidates(b) \/ SelectEndpoints(b)
  \/ \E ks \in Received : ReceiveForRefresh(ks) \/ \E b \in BOOLEAN : SyncRound(ks, b)
  \/ ResolveFails \/ CheckAllowed \/ Recheck \/ LoadList \/ ReceiveRefused \/ Reload
  \/ Decide \/ AppPays \/ AppDrops

ResolutionSpec == ResolutionInit /\ [][ResolutionNext]_resolutionVars

----------------------------------------------------------------------------

(***************************************************************************)
(* An app that stores the version of the result it pays with never pays    *)
(* with one list twice, however its calls interleave with receives, lost   *)
(* links and a missing session: every payment uses a later list than the   *)
(* one before.                                                             *)
(***************************************************************************)
ListPaidOnce == \A i, j \in DOMAIN paid : i < j => paid[i] < paid[j]

(***************************************************************************)
(* A payable result is one list's: its version names a valid list with     *)
(* endpoints, and none older than the latest list stored when the call     *)
(* began, so a list that was cleared before the call is not paid with.  A  *)
(* peer that was Blocked, Linking or RecoveryRequired during the whole     *)
(* call yields no payable result, with a session and without one.          *)
(***************************************************************************)
PayableIsCurrent ==
  resolve.pc \in {"select", "payable"} =>
    /\ stream[resolve.version] = "list"
    /\ resolve.version >= resolve.seen
    /\ resolve.state = "Available"
    /\ resolve.pc = "payable" => resolve.open

=============================================================================
