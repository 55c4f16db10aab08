--------------------------- MODULE PlatformProofs ---------------------------
(***************************************************************************)
(* The parts at the platform's boundary: what a sign-in over the relay     *)
(* keeps, for any identities, capability lists and numbers of restarts,    *)
(* approvals and failing polls; that FfiSdkStorage implements the          *)
(* transactions the runtime relies on, for any number of handles, threads, *)
(* states and callbacks; and what exports and restores keep of the records *)
(* of the peers and of the queue, for any peers and numbers of messages.   *)
(***************************************************************************)
EXTENDS AuthFlow, BlobStore, BackupRestore, SequenceTheorems, TLAPS

-----------------------------------------------------------------------------
(* The sign-in over the relay                                              *)

Identities == User \cup {NoUser}
Lists == Requests \cup {{}, {RootCap}}
Token == [caps : Lists, by : Identities, companion : BOOLEAN]

UrlState == [channel : {"none", "inbox", "link"}, caps : Lists, claim : BOOLEAN]
SignerState == [pc : {"idle", "deliver", "approve"}, by : Identities]
PollerState ==
  [pc : {"off", "polling", "verify", "acked", "ended"}, failures : Int, token : Token]
DeliveryState == [kind : {"none", "error", "token"}, token : Token]
AppState ==
  [pc : {"none", "request", "waiting", "exchange", "signed_in", "failed"},
   required : Lists, secret : Identities, token : Token]

AuthTypes ==
  /\ authUrl \in UrlState
  /\ letter \in Token /\ kept \in Token
  /\ signer \in SignerState
  /\ poller \in PollerState
  /\ delivered \in DeliveryState
  /\ app \in AppState

\* A token is with the app only once it was delivered, the poller delivers once and last,
\* and it has a token between the answer of the relay and the delivery.
OneToken ==
  /\ app.pc = "none" => app = NoApp /\ poller = PollerOff /\ delivered = NoDelivery
  /\ app.pc \in {"request", "waiting", "failed"} => app.token = NoToken
  /\ poller.pc # "ended" => delivered = NoDelivery
  /\ poller.pc \in {"verify", "acked"} => poller.token # NoToken
  /\ delivered.kind # "token" => delivered.token = NoToken

\* Without a URL there is nothing on its channels and nobody to post there; a signer that
\* has come to the approval has delivered its claim.
SignerFits ==
  /\ authUrl = NoUrl => letter = NoToken /\ signer = NoSigner
  /\ signer # NoSigner => signer.by \in User
  /\ signer.pc = "approve" => signer.by \in claims

AuthInv ==
  AuthTypes /\ OneToken /\ SignerFits /\ ApprovalIsNotLost /\ ClaimPrecedesToken

LEMMA AuthDefaults ==
  /\ NoToken \in Token /\ NoUrl \in UrlState /\ NoSigner \in SignerState
  /\ PollerOff \in PollerState /\ NoDelivery \in DeliveryState /\ NoApp \in AppState
  /\ NoUser \in Identities /\ User \subseteq Identities /\ Requests \subseteq Lists
  /\ {RootCap} \in Lists
  /\ \A caps \in Lists, by \in Identities, companion \in BOOLEAN :
       [caps |-> caps, by |-> by, companion |-> companion] \in Token
BY DEF Token, Lists, Identities, UrlState, SignerState, PollerState, DeliveryState,
   AppState, NoToken, NoUrl, NoSigner, PollerOff, NoDelivery, NoApp

\* sign_in: a root session, without a request.
LEMMA SignInKeeps ==
  ASSUME AuthInv, NEW user \in User, NEW caps \in Requests, sign_in(user, caps)
  PROVE  AuthInv'
<1>1. AuthTypes'
  BY AuthDefaults, Zenon DEF AuthInv, AuthTypes, AppState, sign_in, session_result, Exported
<1>2. OneToken'
  BY DEF AuthInv, OneToken, sign_in, session_result
<1>3. SignerFits'
  BY DEF AuthInv, SignerFits, sign_in
<1>4. ApprovalIsNotLost'
  BY DEF AuthInv, ApprovalIsNotLost, InTransit, OneToken, NoApp, sign_in
<1>5. ClaimPrecedesToken'
  BY DEF ClaimPrecedesToken, sign_in
<1> QED  BY <1>1, <1>2, <1>3, <1>4, <1>5 DEF AuthInv

\* import_session of what the platform kept.
LEMMA ImportKeeps ==
  ASSUME AuthInv, NEW secret \in Identities, NEW caps \in Requests, import_session(secret, caps)
  PROVE  AuthInv'
<1>1. AuthTypes'
  BY AuthDefaults DEF AuthInv, AuthTypes, AppState, import_session, session_result,
     Exported
<1>2. OneToken'
  BY DEF AuthInv, OneToken, import_session, session_result
<1>3. SignerFits'
  BY DEF AuthInv, SignerFits, import_session
<1>4. ApprovalIsNotLost'
  BY DEF AuthInv, ApprovalIsNotLost, InTransit, OneToken, NoApp, import_session
<1>5. ClaimPrecedesToken'
  BY DEF ClaimPrecedesToken, import_session
<1> QED  BY <1>1, <1>2, <1>3, <1>4, <1>5 DEF AuthInv

\* start_auth: the channels of a fresh secret are empty.
LEMMA StartKeeps ==
  ASSUME AuthInv, NEW channel \in {"inbox", "link"}, NEW caps \in Requests,
         NEW claim \in BOOLEAN, start_auth(channel, caps, claim)
  PROVE  AuthInv'
<1>1. AuthTypes'
  BY AuthDefaults DEF AuthInv, AuthTypes, UrlState, PollerState, AppState, start_auth,
     SpawnPoller
<1>2. OneToken'
  BY DEF AuthInv, OneToken, NoApp, start_auth, SpawnPoller
<1>3. SignerFits'
  BY DEF AuthInv, SignerFits, start_auth
<1>4. ApprovalIsNotLost'
  BY DEF AuthInv, ApprovalIsNotLost, InTransit, OneToken, start_auth, SpawnPoller
<1>5. ClaimPrecedesToken'
  BY DEF AuthInv, ClaimPrecedesToken, SignerFits, NoToken, PollerOff, NoDelivery, NoApp,
     start_auth, SpawnPoller
<1> QED  BY <1>1, <1>2, <1>3, <1>4, <1>5 DEF AuthInv

\* resume_auth starts a poller where none runs.
LEMMA ResumeKeeps ==
  ASSUME AuthInv, NEW caps \in Requests, resume_auth(caps)
  PROVE  AuthInv'
<1>1. AuthTypes'
  BY AuthDefaults DEF AuthInv, AuthTypes, PollerState, AppState, resume_auth,
     SpawnPoller
<1>2. OneToken'
  BY DEF AuthInv, OneToken, NoApp, resume_auth, SpawnPoller
<1>3. SignerFits'
  BY DEF AuthInv, SignerFits, resume_auth
<1>4. ApprovalIsNotLost'
  BY DEF AuthInv, ApprovalIsNotLost, InTransit, OneToken, resume_auth, SpawnPoller
<1>5. ClaimPrecedesToken'
  BY DEF AuthInv, ClaimPrecedesToken, OneToken, resume_auth, SpawnPoller
<1> QED  BY <1>1, <1>2, <1>3, <1>4, <1>5 DEF AuthInv

\* A dropped flow takes along what the poller had, and the excuse says so.
LEMMA DroppedKeeps ==
  ASSUME AuthInv, DropFlow, UNCHANGED <<authUrl, letter, claims, signer, kept, approved>>,
         app' \in AppState, app'.token = NoToken,
         app'.pc = "failed" \/ app' = NoApp
  PROVE  AuthInv'
<1>1. poller' = PollerOff /\ delivered' = NoDelivery
  BY DEF DropFlow
<1>2. AuthTypes'
  BY <1>1, AuthDefaults DEF AuthInv, AuthTypes
<1>3. OneToken'
  BY <1>1 DEF OneToken, NoDelivery, PollerOff
<1>4. SignerFits'
  BY DEF AuthInv, SignerFits
<1>5. ApprovalIsNotLost'
  BY <1>1 DEF AuthInv, ApprovalIsNotLost, DropFlow
<1>6. ClaimPrecedesToken'
  BY <1>1 DEF AuthInv, ClaimPrecedesToken, PollerOff, NoDelivery, NoToken
<1> QED  BY <1>2, <1>3, <1>4, <1>5, <1>6 DEF AuthInv

\* complete waits, or has dropped the flow.
LEMMA CompleteKeeps ==
  ASSUME AuthInv, NEW secret \in Identities, NEW caps \in Requests, complete(secret, caps)
  PROVE  AuthInv'
<1>1. CASE validate_auth_url_capabilities(caps)
  <2>1. app' = [app EXCEPT !.pc = "waiting", !.secret = secret, !.required = caps]
    BY <1>1 DEF complete
  <2>2. UNCHANGED <<authUrl, letter, claims, signer, poller, delivered, kept, approved, excuse>>
    BY <1>1 DEF complete
  <2>3. app' \in AppState /\ app'.pc = "waiting" /\ app'.token = app.token
    BY <2>1, AuthDefaults, Zenon DEF AuthInv, AuthTypes, AppState
  <2>4. app.token = NoToken
    BY DEF AuthInv, OneToken, complete
  <2> QED  BY <2>2, <2>3, <2>4 DEF AuthInv, AuthTypes, OneToken, SignerFits,
     ApprovalIsNotLost, ClaimPrecedesToken, InTransit
<1>2. CASE ~validate_auth_url_capabilities(caps)
  <2>1. app' = [app EXCEPT !.pc = "failed"] /\ DropFlow
    BY <1>2 DEF complete
  <2>2. UNCHANGED <<authUrl, letter, claims, signer, kept, approved>>
    BY DEF complete
  <2>3. app' \in AppState /\ app'.pc = "failed" /\ app'.token = app.token
    BY <2>1 DEF AuthInv, AuthTypes, AppState
  <2>4. app.token = NoToken
    BY DEF AuthInv, OneToken, complete
  <2> QED  BY <2>1, <2>2, <2>3, <2>4, DroppedKeeps
<1> QED  BY <1>1, <1>2

\* await_approval takes the delivery.
LEMMA TakeKeeps ==
  ASSUME AuthInv, TakeDelivery
  PROVE  AuthInv'
<1>1. AuthTypes'
  BY AuthDefaults, Zenon DEF AuthInv, AuthTypes, DeliveryState, AppState, TakeDelivery
<1>2. OneToken'
  BY DEF AuthInv, OneToken, NoDelivery, TakeDelivery
<1>3. SignerFits'
  BY DEF AuthInv, SignerFits, TakeDelivery
<1>4. ApprovalIsNotLost'
  BY DEF AuthInv, ApprovalIsNotLost, InTransit, OneToken, TakeDelivery
<1>5. ClaimPrecedesToken'
  BY DEF AuthInv, ClaimPrecedesToken, OneToken, NoDelivery, TakeDelivery
<1> QED  BY <1>1, <1>2, <1>3, <1>4, <1>5 DEF AuthInv

\* The token is exchanged, or lost with the failure.
LEMMA ExchangeKeeps ==
  ASSUME AuthInv, ExchangeToken
  PROVE  AuthInv'
<1>1. UNCHANGED <<authUrl, letter, claims, signer, poller, delivered, approved>>
  BY DEF ExchangeToken
<1>2. /\ app' \in AppState /\ app'.pc \in {"failed", "signed_in"}
      /\ app'.token = IF app'.pc = "failed" THEN NoToken ELSE app.token
  <2>1. CASE app' = [app EXCEPT !.pc = "failed", !.token = NoToken]
    BY <2>1, AuthDefaults, Zenon DEF AuthInv, AuthTypes, AppState
  <2>2. CASE app' = session_result(app.token, app.secret, app.required)
    BY <2>2, AuthDefaults DEF AuthInv, AuthTypes, AppState, session_result
  <2> QED  BY <2>1, <2>2 DEF ExchangeToken
<1>3. excuse' = IF app'.pc = "failed" THEN "exchange" ELSE excuse
  BY DEF ExchangeToken
<1>4. kept' \in Token
  BY <1>2 DEF ExchangeToken, Exported, AuthInv, AuthTypes, AppState
<1>5. AuthTypes' /\ OneToken' /\ SignerFits'
  BY <1>1, <1>2, <1>4 DEF AuthInv, AuthTypes, OneToken, SignerFits
<1>6. ApprovalIsNotLost'
  BY <1>1, <1>2, <1>3 DEF AuthInv, ApprovalIsNotLost, InTransit
<1>7. ClaimPrecedesToken'
  BY <1>1, <1>2 DEF AuthInv, ClaimPrecedesToken, NoToken
<1> QED  BY <1>5, <1>6, <1>7 DEF AuthInv

\* The app stops with what the poller had.
LEMMA StopKeeps ==
  ASSUME AuthInv, AppStops
  PROVE  AuthInv'
<1>1. app' = NoApp /\ DropFlow /\ UNCHANGED <<authUrl, letter, claims, signer, kept, approved>>
  BY DEF AppStops
<1> QED  BY <1>1, AuthDefaults, DroppedKeeps DEF NoApp

\* The flow is over.
LEMMA ForgetKeeps ==
  ASSUME AuthInv, ForgetUrl
  PROVE  AuthInv'
<1>1. AuthTypes'
  BY AuthDefaults DEF AuthInv, AuthTypes, ForgetUrl
<1>2. OneToken'
  BY DEF OneToken, PollerOff, NoDelivery, NoApp, ForgetUrl
<1>3. SignerFits'
  BY DEF SignerFits, NoSigner, ForgetUrl
<1>4. ApprovalIsNotLost'
  BY DEF ApprovalIsNotLost, ForgetUrl
<1>5. ClaimPrecedesToken'
  BY DEF ClaimPrecedesToken, ForgetUrl
<1> QED  BY <1>1, <1>2, <1>3, <1>4, <1>5 DEF AuthInv

\* approve_auth: a token without a claim.
LEMMA ApproveKeeps ==
  ASSUME AuthInv, NEW user \in User, NEW caps \in Requests, approve_auth(user, caps)
  PROVE  AuthInv'
<1>1. AuthTypes'
  BY AuthDefaults, Zenon DEF AuthInv, AuthTypes, UrlState, approve_auth, PostToken
<1>2. OneToken'
  BY DEF AuthInv, OneToken, approve_auth
<1>3. SignerFits'
  BY DEF AuthInv, SignerFits, approve_auth
<1>4. ApprovalIsNotLost'
  BY AuthConstants DEF ApprovalIsNotLost, NoToken, approve_auth, PostToken
<1>5. ClaimPrecedesToken'
  BY DEF AuthInv, ClaimPrecedesToken, approve_auth, PostToken
<1> QED  BY <1>1, <1>2, <1>3, <1>4, <1>5 DEF AuthInv

\* approve_auth_with_companion_claim has posted nothing yet.
LEMMA CompanionKeeps ==
  ASSUME AuthInv, NEW user \in User, NEW caps \in Requests,
         approve_auth_with_companion_claim(user, caps)
  PROVE  AuthInv'
<1>1. AuthTypes'
  BY AuthDefaults DEF AuthInv, AuthTypes, SignerState, approve_auth_with_companion_claim
<1>2. OneToken'
  BY DEF AuthInv, OneToken, approve_auth_with_companion_claim
<1>3. SignerFits'
  BY DEF SignerFits, approve_auth_with_companion_claim, parse_companion_auth_request
<1>4. ApprovalIsNotLost'
  BY DEF AuthInv, ApprovalIsNotLost, InTransit, approve_auth_with_companion_claim
<1>5. ClaimPrecedesToken'
  BY DEF AuthInv, ClaimPrecedesToken, approve_auth_with_companion_claim
<1> QED  BY <1>1, <1>2, <1>3, <1>4, <1>5 DEF AuthInv

\* deliver_companion_claim: without its claim an approval ends.
LEMMA DeliverKeeps ==
  ASSUME AuthInv, deliver_companion_claim
  PROVE  AuthInv'
<1>1. AuthTypes'
  BY AuthDefaults DEF AuthInv, AuthTypes, SignerState, deliver_companion_claim
<1>2. OneToken'
  BY DEF AuthInv, OneToken, deliver_companion_claim
<1>3. SignerFits'
  BY DEF AuthInv, AuthTypes, SignerState, SignerFits, NoSigner, deliver_companion_claim
<1>4. ApprovalIsNotLost'
  BY DEF AuthInv, ApprovalIsNotLost, InTransit, deliver_companion_claim
<1>5. ClaimPrecedesToken'
  BY DEF AuthInv, ClaimPrecedesToken, deliver_companion_claim
<1> QED  BY <1>1, <1>2, <1>3, <1>4, <1>5 DEF AuthInv

\* The approval after the claim.
LEMMA ApproveAfterKeeps ==
  ASSUME AuthInv, ApproveAfterClaim
  PROVE  AuthInv'
<1>1. signer' = NoSigner /\ UNCHANGED <<authUrl, claims, poller, delivered, app, kept>>
  BY DEF ApproveAfterClaim
<1>2. signer.by \in User /\ signer.by \in claims
  BY DEF AuthInv, SignerFits, ApproveAfterClaim, NoSigner
<1>3. CASE PostToken(signer.by, TRUE)
  <2>1. letter' = [caps |-> authUrl.caps, by |-> signer.by, companion |-> TRUE]
    BY <1>3 DEF PostToken
  <2>2. letter' \in Token /\ letter' # NoToken /\ letter'.by = signer.by
    BY <1>2, <2>1, AuthDefaults, Zenon DEF AuthInv, AuthTypes, UrlState, NoToken
  <2>3. authUrl # NoUrl
    BY DEF AuthInv, SignerFits, ApproveAfterClaim, NoSigner
  <2> QED  BY <1>1, <1>2, <2>2, <2>3, AuthDefaults DEF AuthInv, AuthTypes, OneToken,
     SignerFits, ApprovalIsNotLost, ClaimPrecedesToken, NoSigner
<1>4. CASE UNCHANGED <<letter, approved, excuse>>
  BY <1>1, <1>4, AuthDefaults DEF AuthInv, AuthTypes, OneToken, SignerFits,
     ApprovalIsNotLost, ClaimPrecedesToken, InTransit, NoSigner
<1> QED  BY <1>3, <1>4, Zenon DEF ApproveAfterClaim

\* The relay drops the message.
LEMMA ExpireKeeps ==
  ASSUME AuthInv, LetterExpires
  PROVE  AuthInv'
<1>1. AuthTypes'
  BY AuthDefaults DEF AuthInv, AuthTypes, LetterExpires
<1>2. OneToken'
  BY DEF AuthInv, OneToken, LetterExpires
<1>3. SignerFits'
  BY DEF AuthInv, SignerFits, LetterExpires
<1>4. ApprovalIsNotLost'
  BY DEF ApprovalIsNotLost, InTransit, LetterExpires, InTransit
<1>5. ClaimPrecedesToken'
  BY DEF AuthInv, ClaimPrecedesToken, NoToken, LetterExpires
<1> QED  BY <1>1, <1>2, <1>3, <1>4, <1>5 DEF AuthInv

\* A poll that times out or fails.
LEMMA PollKeeps ==
  ASSUME AuthInv, PollTimesOut \/ PollFails
  PROVE  AuthInv'
<1>1. /\ poller.pc = "polling" /\ delivered = NoDelivery
      /\ UNCHANGED <<authUrl, letter, claims, signer, app, kept, approved, excuse>>
  BY DEF AuthInv, OneToken, PollTimesOut, PollFails
<1>2. \/ poller' = [poller EXCEPT !.failures = 0] /\ delivered' = delivered
      \/ poller' = poller /\ delivered' = delivered
      \/ poller' = [poller EXCEPT !.failures = @ + 1] /\ delivered' = delivered
      \/ /\ poller' = [poller EXCEPT !.pc = "ended", !.failures = @ + 1]
         /\ delivered' = [NoDelivery EXCEPT !.kind = "error"]
  <2>1. CASE PollTimesOut
    BY <2>1 DEF PollTimesOut, AuthInv, AuthTypes, PollerState
  <2>2. CASE PollFails
    BY <2>2 DEF PollFails
  <2> QED  BY <2>1, <2>2
<1>3. /\ poller' \in PollerState /\ poller'.pc \in {"polling", "ended"} /\ poller'.token = poller.token
      /\ delivered' \in DeliveryState /\ delivered'.token = NoToken /\ delivered'.kind # "token"
      /\ delivered' = NoDelivery \/ poller'.pc = "ended"
  <2>1. poller' \in PollerState /\ poller'.pc \in {"polling", "ended"} /\ poller'.token = poller.token
    <3>1. poller \in PollerState /\ poller.failures + 1 \in Int
      BY DEF AuthInv, AuthTypes, PollerState
    <3>2. CASE poller' = [poller EXCEPT !.failures = 0] \/ poller' = poller
      BY <1>1, <3>1, <3>2 DEF PollerState
    <3>3. CASE poller' = [poller EXCEPT !.failures = @ + 1]
      BY <1>1, <3>1, <3>3 DEF PollerState
    <3>4. CASE poller' = [poller EXCEPT !.pc = "ended", !.failures = @ + 1]
      BY <3>1, <3>4, Zenon DEF PollerState
    <3> QED  BY <1>2, <3>2, <3>3, <3>4
  <2>2. NoDelivery.token = NoToken /\ NoDelivery.kind = "none"
    BY DEF NoDelivery
  <2>3. delivered' = NoDelivery \/ (poller'.pc = "ended" /\ delivered' = [NoDelivery EXCEPT !.kind = "error"])
    BY <1>1, <1>2, Zenon DEF AuthInv, AuthTypes, PollerState
  <2>4. delivered' \in DeliveryState /\ delivered'.token = NoToken /\ delivered'.kind # "token"
    BY <2>2, <2>3, AuthDefaults DEF DeliveryState
  <2> QED  BY <2>1, <2>3, <2>4
<1>4. AuthTypes' /\ SignerFits'
  BY <1>1, <1>3 DEF AuthInv, AuthTypes, SignerFits
<1>5. OneToken'
  BY <1>1, <1>3 DEF AuthInv, OneToken, PollerOff
<1>6. ApprovalIsNotLost'
  BY <1>1, <1>3 DEF AuthInv, ApprovalIsNotLost, InTransit, NoDelivery
<1>7. ClaimPrecedesToken'
  BY <1>1, <1>3 DEF AuthInv, ClaimPrecedesToken, NoToken
<1> QED  BY <1>4, <1>5, <1>6, <1>7 DEF AuthInv

\* The relay answers; a link forgets the message.
LEMMA ReceiveKeeps ==
  ASSUME AuthInv, PollReceives
  PROVE  AuthInv'
<1>1. AuthTypes'
  BY AuthDefaults, Zenon DEF AuthInv, AuthTypes, PollerState, PollReceives
<1>2. OneToken'
  BY DEF AuthInv, OneToken, PollerOff, PollReceives
<1>3. SignerFits'
  BY DEF AuthInv, SignerFits, PollReceives
<1>4. ApprovalIsNotLost'
  BY DEF ApprovalIsNotLost, InTransit, PollReceives
<1>5. ClaimPrecedesToken'
  BY DEF AuthInv, ClaimPrecedesToken, OneToken, NoDelivery, PollReceives
<1> QED  BY <1>1, <1>2, <1>3, <1>4, <1>5 DEF AuthInv

\* The acknowledgement, lost on either side or not.
LEMMA AckKeeps ==
  ASSUME AuthInv, AckToken
  PROVE  AuthInv'
<1>1. AuthTypes'
  BY AuthDefaults DEF AuthInv, AuthTypes, PollerState, AckToken
<1>2. OneToken'
  BY DEF AuthInv, OneToken, PollerOff, AckToken
<1>3. SignerFits'
  BY DEF AuthInv, SignerFits, AckToken
<1>4. ApprovalIsNotLost'
  BY DEF AuthInv, ApprovalIsNotLost, InTransit, OneToken, AckToken
<1>5. ClaimPrecedesToken'
  BY DEF AuthInv, ClaimPrecedesToken, OneToken, NoDelivery, AckToken
<1> QED  BY <1>1, <1>2, <1>3, <1>4, <1>5 DEF AuthInv

\* The token goes to the subscription.
LEMMA SendKeeps ==
  ASSUME AuthInv, SendToken
  PROVE  AuthInv'
<1>1. AuthTypes'
  BY AuthDefaults, Zenon DEF AuthInv, AuthTypes, PollerState, DeliveryState, SendToken
<1>2. OneToken'
  BY DEF AuthInv, OneToken, PollerOff, SendToken
<1>3. SignerFits'
  BY DEF AuthInv, SignerFits, SendToken
<1>4. ApprovalIsNotLost'
  BY DEF AuthInv, ApprovalIsNotLost, InTransit, OneToken, SendToken
<1>5. ClaimPrecedesToken'
  BY DEF AuthInv, ClaimPrecedesToken, OneToken, NoDelivery, SendToken
<1> QED  BY <1>1, <1>2, <1>3, <1>4, <1>5 DEF AuthInv

LEMMA AuthInitial == AuthInit => AuthInv
BY AuthDefaults DEF AuthInit, AuthInv, AuthTypes, OneToken, SignerFits,
   ApprovalIsNotLost, ClaimPrecedesToken, NoSigner, PollerOff, NoDelivery, NoApp

LEMMA AuthStutter == ASSUME AuthInv, UNCHANGED authVars PROVE AuthInv'
BY DEF AuthInv, AuthTypes, OneToken, SignerFits, ApprovalIsNotLost, ClaimPrecedesToken,
   InTransit, authVars

LEMMA AuthStep == ASSUME AuthInv, AuthNext PROVE AuthInv'
BY SignInKeeps, ImportKeeps, StartKeeps, ResumeKeeps, CompleteKeeps, TakeKeeps,
   ExchangeKeeps, StopKeeps, ForgetKeeps, ApproveKeeps, CompanionKeeps, DeliverKeeps,
   ApproveAfterKeeps, ExpireKeeps, PollKeeps, ReceiveKeeps, AckKeeps, SendKeeps DEF
   AuthNext, Identities

LEMMA AuthInvariant == AuthSpec => []AuthInv
<1>1. AuthInv /\ [AuthNext]_authVars => AuthInv'
  BY AuthStutter, AuthStep
<1> QED  BY AuthInitial, <1>1, PTL DEF AuthSpec

\* An approval is never lost without a reason: the token is on the relay, with the poller,
\* in the subscription or with the app, unless the relay dropped it unread, the app stopped
\* after it had left the relay, or the exchange failed (AuthSubscription, await_approval,
\* PubkyAuthRequest::complete); for any number of identities, restarts and approvals.
THEOREM ApprovalTheorem == AuthSpec => []ApprovalIsNotLost
<1>1. AuthInv => ApprovalIsNotLost  BY DEF AuthInv
<1> QED  BY AuthInvariant, <1>1, PTL

\* approve_auth_with_companion_claim delivers the claim before the token, wherever the
\* token has got to and however often the app stopped and resumed the request.
THEOREM ClaimTheorem == AuthSpec => []ClaimPrecedesToken
<1>1. AuthInv => ClaimPrecedesToken  BY DEF AuthInv
<1> QED  BY AuthInvariant, <1>1, PTL

-----------------------------------------------------------------------------
(* The state blob store.  The argument: a revision is never used twice, so *)
(* a transaction whose expected revision is still the stored one still has *)
(* the stored state before it.                                             *)

TxRecord ==
  [pc : {"idle"}]
    \cup [pc : {"lock", "load"}, f : Callback]
    \cup [pc : {"save"}, f : Callback, saw : State, expected : Nat]
    \cup [pc : {"ended"}, f : Callback, saw : State, result : {"ok", "unknown", "failed"}]

BlobTypes ==
  /\ blob \in [exists : BOOLEAN, version : Nat, state : State]
  /\ revision \in Nat
  /\ lock \in [Runtime -> Thread \cup {NoThread}]
  /\ tx \in [Thread -> TxRecord]

\* What a transaction read is still there as long as the revision is.
ReadIsCurrent(t) ==
  tx[t].pc = "save" =>
    /\ tx[t].expected <= revision
    /\ tx[t].expected = revision => blob.state = tx[t].saw
    /\ tx[t].f[tx[t].saw] \in State

\* The lock is held from the load to the save.
HoldsLock(t) == tx[t].pc \in {"load", "save"} => lock[RuntimeOf[t]] = t

ConflictForeign(t) ==
  tx[t].pc = "save" /\ tx[t].expected # revision => writer # RuntimeOf[t]

BlobInv ==
  /\ BlobTypes
  /\ \A t \in Thread : ReadIsCurrent(t) /\ HoldsLock(t) /\ ConflictForeign(t)

\* The fields a record of each step has.
LEMMA TxFields ==
  ASSUME NEW r \in TxRecord
  PROVE  /\ r.pc \in {"idle", "lock", "load", "save", "ended"}
         /\ r.pc = "idle" => r \in [pc : {"idle"}]
         /\ r.pc \in {"lock", "load"} => r \in [pc : {"lock", "load"}, f : Callback]
         /\ r.pc = "save" => r \in [pc : {"save"}, f : Callback, saw : State, expected : Nat]
         /\ r.pc = "ended" =>
              r \in [pc : {"ended"}, f : Callback, saw : State, result : {"ok", "unknown", "failed"}]
BY DEF TxRecord

\* The initial states satisfy the invariant.
LEMMA BlobInitInv == BlobInit => BlobInv
BY BlobAssumption DEF BlobInit, BlobInv, BlobTypes, TxRecord, NoTx, ReadIsCurrent, HoldsLock, ConflictForeign

\* A callback of a transaction maps states to states or fails.
LEMMA CallbackResult ==
  ASSUME NEW f \in Callback, NEW s \in State
  PROVE  f[s] \in State \cup {CallbackError}
BY BlobAssumption

\* How a step that only changes one thread's record and lock keeps the invariant of the
\* other threads.
LEMMA OthersKept ==
  ASSUME BlobInv, NEW t \in Thread, NEW r \in TxRecord,
         tx' = [tx EXCEPT ![t] = r],
         UNCHANGED <<blob, revision, writer>>,
         lock' \in [Runtime -> Thread \cup {NoThread}],
         \A u \in Thread \ {t} : HoldsLock(u)',
         ReadIsCurrent(t)', HoldsLock(t)', ConflictForeign(t)'
  PROVE  BlobInv'
<1>1. BlobTypes'
  BY DEF BlobInv, BlobTypes
<1>2. ASSUME NEW u \in Thread \ {t} PROVE ReadIsCurrent(u)' /\ ConflictForeign(u)'
  <2>1. tx'[u] = tx[u]
    BY DEF BlobInv, BlobTypes
  <2>2. QED
    BY <2>1 DEF BlobInv, ReadIsCurrent, ConflictForeign
<1>3. QED
  BY <1>1, <1>2 DEF BlobInv

\* What dropping the guard at the end of a transaction does.
Unlocked(t, saw, result) ==
  /\ tx' = [tx EXCEPT ![t] = [pc |-> "ended", f |-> tx[t].f, saw |-> saw, result |-> result]]
  /\ [pc |-> "ended", f |-> tx[t].f, saw |-> saw, result |-> result] \in TxRecord
  /\ lock' \in [Runtime -> Thread \cup {NoThread}]
  /\ \A u \in Thread : HoldsLock(u)'
  /\ tx'[t].pc = "ended"
  /\ \A u \in Thread \ {t} : tx'[u] = tx[u]

\* The end of a transaction keeps the locks of the others.
LEMMA EndKeeps ==
  ASSUME BlobInv, NEW t \in Thread, NEW saw \in State, NEW result \in {"ok", "unknown", "failed"},
         tx[t].pc \in {"load", "save"},
         EndTransaction(t, saw, result)
  PROVE  Unlocked(t, saw, result)
<1>1. tx' = [tx EXCEPT ![t] = [pc |-> "ended", f |-> tx[t].f, saw |-> saw, result |-> result]]
  BY DEF EndTransaction, BlobInv, BlobTypes
<1>2. tx[t].f \in Callback
  BY TxFields DEF BlobInv, BlobTypes
<1>3. [pc |-> "ended", f |-> tx[t].f, saw |-> saw, result |-> result] \in TxRecord
  BY <1>2 DEF TxRecord
<1>4. lock' \in [Runtime -> Thread \cup {NoThread}]
  BY BlobAssumption, Zenon DEF EndTransaction, BlobInv, BlobTypes
<1>5. tx'[t].pc = "ended" /\ \A u \in Thread \ {t} : tx'[u] = tx[u]
  BY <1>1 DEF BlobInv, BlobTypes
<1>6. ASSUME NEW u \in Thread PROVE HoldsLock(u)'
  <2>1. CASE u = t
    BY <2>1, <1>5 DEF HoldsLock
  <2>2. CASE u # t
    <3>1. SUFFICES ASSUME tx[u].pc \in {"load", "save"} PROVE lock'[RuntimeOf[u]] = u
      BY <2>2, <1>5 DEF HoldsLock
    <3>2. lock[RuntimeOf[u]] = u /\ lock[RuntimeOf[t]] = t
      BY <3>1 DEF BlobInv, HoldsLock
    <3>3. RuntimeOf[u] # RuntimeOf[t]
      BY <2>2, <3>2
    <3>4. RuntimeOf[u] \in Runtime /\ RuntimeOf[t] \in Runtime
      BY BlobAssumption
    <3>5. QED
      BY <3>2, <3>3, <3>4 DEF EndTransaction, BlobInv, BlobTypes
  <2>3. QED
    BY <2>1, <2>2
<1>7. QED
  BY <1>1, <1>3, <1>4, <1>5, <1>6 DEF Unlocked

\* A write makes every other expectation stale, and only its own handle's lock holder can
\* have written.
LEMMA SaveKeeps ==
  ASSUME BlobInv, NEW t \in Thread, save_state_blob_atomically(t)
  PROVE  BlobInv'
<1>1. /\ tx[t].pc = "save" /\ tx[t].expected = revision
      /\ tx[t] \in [pc : {"save"}, f : Callback, saw : State, expected : Nat]
  BY TxFields DEF save_state_blob_atomically, BlobInv, BlobTypes
<1>2. PICK result \in {"ok", "unknown"} : EndTransaction(t, tx[t].saw, result)
  BY DEF save_state_blob_atomically
<1>3. /\ tx' = [tx EXCEPT ![t] = [pc |-> "ended", f |-> tx[t].f, saw |-> tx[t].saw, result |-> result]]
      /\ [pc |-> "ended", f |-> tx[t].f, saw |-> tx[t].saw, result |-> result] \in TxRecord
      /\ lock' \in [Runtime -> Thread \cup {NoThread}]
      /\ \A u \in Thread : HoldsLock(u)'
      /\ tx'[t].pc = "ended"
      /\ \A u \in Thread \ {t} : tx'[u] = tx[u]
  <2>1. tx[t].saw \in State /\ tx[t].pc \in {"load", "save"} /\ result \in {"ok", "unknown", "failed"}
    BY <1>1
  <2>2. Unlocked(t, tx[t].saw, result)
    BY <2>1, <1>2, EndKeeps
  <2>3. QED
    BY <2>2 DEF Unlocked
<1>4. /\ blob' = [exists |-> TRUE, version |-> VersionOf[RuntimeOf[t]], state |-> tx[t].f[tx[t].saw]]
      /\ revision' = revision + 1
      /\ writer' = RuntimeOf[t]
  BY DEF save_state_blob_atomically, Written
<1>5. tx[t].f[tx[t].saw] \in State
  BY <1>1 DEF BlobInv, ReadIsCurrent
<1>6. BlobTypes'
  <2>1. tx' \in [Thread -> TxRecord]
    BY <1>3 DEF BlobInv, BlobTypes
  <2>2. VersionOf[RuntimeOf[t]] \in Nat
    BY BlobAssumption
  <2>3. blob' \in [exists : BOOLEAN, version : Nat, state : State]
    BY <2>2, <1>4, <1>5
  <2>4. QED
    BY <1>3, <1>4, <2>1, <2>3 DEF BlobInv, BlobTypes
<1>7. ASSUME NEW u \in Thread PROVE ReadIsCurrent(u)' /\ ConflictForeign(u)'
  <2>1. CASE u = t
    BY <2>1, <1>3 DEF ReadIsCurrent, ConflictForeign
  <2>2. CASE u # t /\ tx[u].pc # "save"
    BY <2>2, <1>3 DEF ReadIsCurrent, ConflictForeign
  <2>3. CASE u # t /\ tx[u].pc = "save"
    <3>1. tx'[u] = tx[u]
      BY <2>3, <1>3
    <3>2. tx[u].expected \in Nat /\ revision \in Nat /\ tx[u].expected <= revision
          /\ tx[u].f[tx[u].saw] \in State
      BY <2>3, TxFields DEF BlobInv, BlobTypes, ReadIsCurrent
    <3>3. lock[RuntimeOf[u]] = u /\ lock[RuntimeOf[t]] = t
      BY <2>3, <1>1 DEF BlobInv, HoldsLock
    <3>4. RuntimeOf[t] # RuntimeOf[u]
      BY <2>3, <3>3
    <3>5. QED
      BY <3>1, <3>2, <3>4, <1>4 DEF ReadIsCurrent, ConflictForeign
  <2>4. QED
    BY <2>1, <2>2, <2>3
<1>8. QED
  BY <1>3, <1>6, <1>7 DEF BlobInv

\* The other steps.
LEMMA OtherStepsKeep ==
  ASSUME BlobInv, NEW t \in Thread,
         \/ \E f \in Callback : CallTransaction(t, f)
         \/ LockTransaction(t) \/ LoadAndRun(t) \/ LoadFails(t) \/ SaveFails(t) \/ ReturnResult(t)
  PROVE  BlobInv'
<1> USE BlobAssumption
<1>0. BlobTypes /\ tx[t] \in TxRecord /\ blob.state \in State
  BY DEF BlobInv, BlobTypes
<1>1. ASSUME NEW f \in Callback, CallTransaction(t, f) PROVE BlobInv'
  <2>1. [pc |-> "lock", f |-> f] \in TxRecord
    BY DEF TxRecord
  <2>2. tx'[t] = [pc |-> "lock", f |-> f] /\ \A u \in Thread \ {t} : tx'[u] = tx[u]
    BY <1>1, <1>0 DEF CallTransaction, BlobTypes
  <2>3. \A u \in Thread \ {t} : HoldsLock(u)'
    BY <2>2, <1>1 DEF BlobInv, HoldsLock, CallTransaction
  <2>4. ReadIsCurrent(t)' /\ HoldsLock(t)' /\ ConflictForeign(t)'
    BY <2>2 DEF ReadIsCurrent, HoldsLock, ConflictForeign
  <2>5. QED
    BY <1>1, <1>0, <2>1, <2>3, <2>4, OthersKept, Zenon DEF CallTransaction, BlobTypes
<1>2. ASSUME LockTransaction(t) PROVE BlobInv'
  <2>0. tx[t].f \in Callback
    BY <1>2, <1>0, TxFields DEF LockTransaction
  <2>1. [pc |-> "load", f |-> tx[t].f] \in TxRecord
    BY <2>0 DEF TxRecord
  <2>2. /\ tx' = [tx EXCEPT ![t] = [pc |-> "load", f |-> tx[t].f]]
        /\ tx'[t] = [pc |-> "load", f |-> tx[t].f] /\ \A u \in Thread \ {t} : tx'[u] = tx[u]
    BY <1>2, <1>0 DEF LockTransaction, BlobTypes
  <2>3. lock' \in [Runtime -> Thread \cup {NoThread}] /\ lock'[RuntimeOf[t]] = t
    BY <1>2, <1>0 DEF LockTransaction, BlobTypes
  <2>4. ASSUME NEW u \in Thread \ {t} PROVE HoldsLock(u)'
    <3>1. SUFFICES ASSUME tx[u].pc \in {"load", "save"} PROVE lock'[RuntimeOf[u]] = u
      BY <2>2 DEF HoldsLock
    <3>2. lock[RuntimeOf[u]] = u
      BY <3>1 DEF BlobInv, HoldsLock
    <3>3. RuntimeOf[u] # RuntimeOf[t]
      BY <3>2, <1>2 DEF LockTransaction
    <3>4. RuntimeOf[u] \in Runtime /\ RuntimeOf[t] \in Runtime
      OBVIOUS
    <3>5. QED
      BY <3>2, <3>3, <3>4, <1>2, <1>0 DEF LockTransaction, BlobTypes
  <2>5. ReadIsCurrent(t)' /\ HoldsLock(t)' /\ ConflictForeign(t)'
    BY <2>2, <2>3 DEF ReadIsCurrent, HoldsLock, ConflictForeign
  <2>6. QED
    BY <1>2, <2>1, <2>2, <2>3, <2>4, <2>5, OthersKept, Zenon DEF LockTransaction
<1>3. ASSUME NEW saw \in State, NEW result \in {"ok", "unknown", "failed"},
             tx[t].pc \in {"load", "save"}, EndTransaction(t, saw, result),
             UNCHANGED <<blob, revision, writer>>
      PROVE  BlobInv'
  <2>1. /\ tx' = [tx EXCEPT ![t] = [pc |-> "ended", f |-> tx[t].f, saw |-> saw, result |-> result]]
        /\ [pc |-> "ended", f |-> tx[t].f, saw |-> saw, result |-> result] \in TxRecord
        /\ lock' \in [Runtime -> Thread \cup {NoThread}]
        /\ \A u \in Thread : HoldsLock(u)'
        /\ tx'[t].pc = "ended"
    <3>1. Unlocked(t, saw, result)
      BY <1>3, EndKeeps
    <3>2. QED
      BY <3>1 DEF Unlocked
  <2>2. ReadIsCurrent(t)' /\ ConflictForeign(t)'
    BY <2>1 DEF ReadIsCurrent, ConflictForeign
  <2>3. QED
    BY <1>3, <2>1, <2>2, OthersKept, Zenon
<1>4. ASSUME LoadAndRun(t) PROVE BlobInv'
  <2>1. CASE \E result \in {"ok", "failed"} : EndTransaction(t, blob.state, result)
    BY <2>1, <1>4, <1>3, <1>0 DEF LoadAndRun
  <2>2. CASE /\ tx[t].f[blob.state] # CallbackError
             /\ tx' = [tx EXCEPT ![t] = [pc |-> "save", f |-> @.f, saw |-> blob.state, expected |-> revision]]
             /\ UNCHANGED lock
    <3>0. tx[t].f \in Callback /\ tx[t].f[blob.state] \in State
      BY <2>2, <1>4, <1>0, TxFields, CallbackResult DEF LoadAndRun
    <3>1. [pc |-> "save", f |-> tx[t].f, saw |-> blob.state, expected |-> revision] \in TxRecord
      BY <3>0, <1>0 DEF TxRecord, BlobTypes
    <3>2. /\ tx' = [tx EXCEPT ![t] = [pc |-> "save", f |-> tx[t].f, saw |-> blob.state, expected |-> revision]]
          /\ tx'[t] = [pc |-> "save", f |-> tx[t].f, saw |-> blob.state, expected |-> revision]
          /\ \A u \in Thread \ {t} : tx'[u] = tx[u]
      BY <2>2, <1>0 DEF BlobTypes
    <3>3. \A u \in Thread \ {t} : HoldsLock(u)'
      BY <3>2, <2>2 DEF BlobInv, HoldsLock
    <3>4. ReadIsCurrent(t)' /\ ConflictForeign(t)'
      BY <3>2, <3>0, <1>4, <1>0 DEF ReadIsCurrent, ConflictForeign, LoadAndRun, BlobTypes
    <3>5. HoldsLock(t)'
      BY <3>2, <2>2, <1>4 DEF BlobInv, HoldsLock, LoadAndRun
    <3>6. QED
      BY <3>1, <3>2, <3>3, <3>4, <3>5, <2>2, <1>4, <1>0, OthersKept, Zenon DEF LoadAndRun, BlobTypes
  <2>3. QED
    BY <1>4, <2>1, <2>2 DEF LoadAndRun
<1>5. ASSUME LoadFails(t) PROVE BlobInv'
  BY <1>5, <1>3 DEF LoadFails
<1>6. ASSUME SaveFails(t) PROVE BlobInv'
  <2>1. tx[t].saw \in State
    BY <1>6, <1>0, TxFields DEF SaveFails
  <2>2. QED
    BY <1>6, <1>3, <2>1 DEF SaveFails
<1>7. ASSUME ReturnResult(t) PROVE BlobInv'
  <2>1. NoTx \in TxRecord
    BY DEF TxRecord, NoTx
  <2>2. tx'[t].pc = "idle" /\ \A u \in Thread \ {t} : tx'[u] = tx[u]
    BY <1>7, <1>0 DEF ReturnResult, BlobTypes, NoTx
  <2>3. \A u \in Thread \ {t} : HoldsLock(u)'
    BY <2>2, <1>7 DEF BlobInv, HoldsLock, ReturnResult
  <2>4. ReadIsCurrent(t)' /\ HoldsLock(t)' /\ ConflictForeign(t)'
    BY <2>2 DEF ReadIsCurrent, HoldsLock, ConflictForeign
  <2>5. QED
    BY <1>7, <1>0, <2>1, <2>3, <2>4, OthersKept, Zenon DEF ReturnResult, BlobTypes
<1>8. QED
  BY <1>1, <1>2, <1>4, <1>5, <1>6, <1>7

\* Every step keeps the invariant.
LEMMA BlobStepInv == BlobInv /\ [BlobNext]_blobVars => BlobInv'
<1>1. ASSUME BlobInv, UNCHANGED blobVars PROVE BlobInv'
  BY <1>1 DEF BlobInv, BlobTypes, ReadIsCurrent, HoldsLock, ConflictForeign, blobVars
<1>2. QED
  BY <1>1, SaveKeeps, OtherStepsKeep DEF BlobNext

\* The invariant holds of every behaviour.
LEMMA BlobInvariant == BlobSpec => []BlobInv
BY BlobInitInv, BlobStepInv, PTL DEF BlobSpec

(***************************************************************************)
(* A handle never stands in its own way: for any number of handles and     *)
(* threads, a write is refused for its revision only after a write of      *)
(* another handle.                                                         *)
(***************************************************************************)
THEOREM ConflictTheorem == BlobSpec => []ConflictIsForeign
<1>1. BlobInv => ConflictIsForeign
  BY DEF BlobInv, ConflictForeign, ConflictIsForeign
<1>2. QED
  BY <1>1, BlobInvariant, PTL

----------------------------------------------------------------------------
(* The refinement.                                                        *)

\* The transactions of Transactions that the threads stand for.
Mapped == [t \in Thread |-> AbstractTxn(t)]

\* A step of one thread moves that thread's transaction only.
LEMMA MappedStep ==
  ASSUME BlobInv, NEW t \in Thread, NEW r, NEW q,
         tx' = [tx EXCEPT ![t] = r],
         AbstractTxn(t)' = q
  PROVE  Mapped' = [Mapped EXCEPT ![t] = q]
<1>1. ASSUME NEW u \in Thread \ {t} PROVE AbstractTxn(u)' = AbstractTxn(u)
  BY DEF AbstractTxn, BlobInv, BlobTypes
<1>2. Mapped' = [u \in Thread |-> AbstractTxn(u)']
  BY DEF Mapped
<1>3. QED
  BY <1>1, <1>2, Zenon DEF Mapped

\* The initial states map to the initial state.
LEMMA InitImplements == BlobInit => Atomic!TransactionsInit
BY DEF BlobInit, Atomic!TransactionsInit, Atomic!IdleTxn, AbstractTxn, NoTx

\* A step that ends a transaction is a commit, or an abort that stores nothing.
LEMMA EndImplements ==
  ASSUME BlobInv, NEW t \in Thread, NEW saw \in State, NEW result \in {"ok", "unknown", "failed"},
         tx[t].pc \in {"load", "save"},
         EndTransaction(t, saw, result)
  PROVE  /\ Mapped[t].pc = "running" /\ Mapped[t].f = tx[t].f
         /\ Mapped' = [Mapped EXCEPT ![t] =
              [pc |-> "ended", f |-> tx[t].f, saw |-> saw, result |-> result]]
<1>1. Mapped[t].pc = "running" /\ Mapped[t].f = tx[t].f
  BY DEF Mapped, AbstractTxn
<1>2. tx' = [tx EXCEPT ![t] = [pc |-> "ended", f |-> tx[t].f, saw |-> saw, result |-> result]]
  BY DEF EndTransaction, BlobInv, BlobTypes
<1>3. tx'[t] = [pc |-> "ended", f |-> tx[t].f, saw |-> saw, result |-> result]
  BY <1>2 DEF BlobInv, BlobTypes
<1>4. AbstractTxn(t)' = [pc |-> "ended", f |-> tx[t].f, saw |-> saw, result |-> result]
  BY <1>3 DEF AbstractTxn
<1>5. QED
  BY <1>1, <1>2, <1>4, MappedStep, Zenon

\* Every step of the blob store is a step of Transactions or leaves it as it is.
LEMMA StepImplements ==
  BlobInv /\ [BlobNext]_blobVars => [Atomic!TransactionsNext]_(Atomic!transactionVars)
<1> SUFFICES ASSUME BlobInv, [BlobNext]_blobVars
    PROVE  Atomic!TransactionsNext \/ (blob.state' = blob.state /\ Mapped' = Mapped)
  BY DEF Atomic!transactionVars, Mapped
<1> DEFINE Stutter == blob.state' = blob.state /\ Mapped' = Mapped
<1>0. BlobTypes /\ \A t \in Thread : tx[t] \in TxRecord
  BY DEF BlobInv, BlobTypes
<1>1. ASSUME NEW t \in Thread, NEW f \in Callback, CallTransaction(t, f)
      PROVE  Atomic!Begin(t, f)
  <2>1. AbstractTxn(t)' = [pc |-> "running", f |-> f] /\ Mapped[t].pc = "idle"
    BY <1>1, <1>0 DEF CallTransaction, AbstractTxn, Mapped, BlobTypes
  <2>2. Mapped' = [Mapped EXCEPT ![t] = [pc |-> "running", f |-> f]]
    BY <1>1, <2>1, MappedStep, Zenon DEF CallTransaction
  <2>3. QED
    BY <1>1, <2>1, <2>2 DEF Atomic!Begin, Atomic!Running, CallTransaction, Mapped
<1>2. ASSUME NEW t \in Thread, LockTransaction(t) PROVE Stutter
  <2>1. AbstractTxn(t)' = AbstractTxn(t)
    BY <1>2, <1>0 DEF LockTransaction, AbstractTxn, BlobTypes
  <2>2. Mapped' = [Mapped EXCEPT ![t] = AbstractTxn(t)]
    <3>1. tx' = [tx EXCEPT ![t] = [pc |-> "load", f |-> tx[t].f]]
      BY <1>2, <1>0 DEF LockTransaction, BlobTypes
    <3>2. QED
      BY <3>1, <2>1, MappedStep, Zenon
  <2>3. QED
    BY <1>2, <2>2, Zenon DEF LockTransaction, Mapped
<1>3. ASSUME NEW t \in Thread, NEW saw \in State, tx[t].pc \in {"load", "save"},
             EndTransaction(t, saw, "failed"), UNCHANGED blob
      PROVE  Atomic!Abort(t)
  <2>1. /\ Mapped[t].pc = "running" /\ Mapped[t].f = tx[t].f
        /\ Mapped' = [Mapped EXCEPT ![t] =
             [pc |-> "ended", f |-> tx[t].f, saw |-> saw, result |-> "failed"]]
    BY <1>3, EndImplements
  <2>2. QED
    BY <2>1, <1>3, Zenon DEF Atomic!Abort, Atomic!Ended, Mapped
<1>4. ASSUME NEW t \in Thread, NEW result \in {"ok", "unknown"}, tx[t].pc \in {"load", "save"},
             EndTransaction(t, blob.state, result),
             tx[t].f[blob.state] # CallbackError, blob.state' = tx[t].f[blob.state]
      PROVE  Atomic!Commit(t)
  <2>0. blob.state \in State /\ result \in {"ok", "unknown", "failed"}
    BY <1>0 DEF BlobTypes
  <2>1. /\ Mapped[t].pc = "running" /\ Mapped[t].f = tx[t].f
        /\ Mapped' = [Mapped EXCEPT ![t] =
             [pc |-> "ended", f |-> tx[t].f, saw |-> blob.state, result |-> result]]
    BY <1>4, <2>0, EndImplements
  <2>2. QED
    BY <2>1, <1>4, Zenon DEF Atomic!Commit, Atomic!Ended, Mapped
<1>5. ASSUME NEW t \in Thread, LoadAndRun(t) PROVE Atomic!TransactionsNext \/ Stutter
  <2>0. blob.state \in State /\ tx[t].pc = "load"
    BY <1>0, <1>5 DEF BlobTypes, LoadAndRun
  <2>1. CASE EndTransaction(t, blob.state, "failed")
    BY <2>0, <2>1, <1>3, <1>5 DEF LoadAndRun, Atomic!TransactionsNext
  <2>2. CASE /\ EndTransaction(t, blob.state, "ok")
             /\ tx[t].f[blob.state] # CallbackError /\ tx[t].f[blob.state] = blob.state
    BY <2>0, <2>2, <1>4, <1>5 DEF LoadAndRun, Atomic!TransactionsNext
  <2>3. CASE tx' = [tx EXCEPT ![t] = [pc |-> "save", f |-> @.f, saw |-> blob.state, expected |-> revision]]
    <3>1. AbstractTxn(t)' = AbstractTxn(t)
      BY <2>0, <2>3, <1>0 DEF AbstractTxn, BlobTypes
    <3>2. tx' = [tx EXCEPT ![t] = [pc |-> "save", f |-> tx[t].f, saw |-> blob.state, expected |-> revision]]
      BY <2>3, <1>0 DEF BlobTypes
    <3>3. Mapped' = [Mapped EXCEPT ![t] = AbstractTxn(t)]
      BY <3>1, <3>2, MappedStep, Zenon
    <3>4. QED
      BY <3>3, <1>5, Zenon DEF LoadAndRun, Mapped
  <2>4. QED
    BY <1>5, <2>1, <2>2, <2>3 DEF LoadAndRun
<1>6. ASSUME NEW t \in Thread, LoadFails(t) PROVE Atomic!Abort(t)
  BY <1>6, <1>3, BlobAssumption DEF LoadFails
<1>7. ASSUME NEW t \in Thread, SaveFails(t) PROVE Atomic!Abort(t)
  <2>1. tx[t].saw \in State /\ tx[t].pc \in {"load", "save"}
    BY <1>7, <1>0, TxFields DEF SaveFails
  <2>2. QED
    BY <2>1, <1>7, <1>3 DEF SaveFails
<1>8. ASSUME NEW t \in Thread, save_state_blob_atomically(t) PROVE Atomic!Commit(t)
  <2>1. tx[t].pc = "save" /\ blob.state = tx[t].saw /\ tx[t].f[tx[t].saw] \in State
    BY <1>8 DEF save_state_blob_atomically, BlobInv, ReadIsCurrent
  <2>2. blob.state' = tx[t].f[blob.state] /\ tx[t].f[blob.state] # CallbackError
    BY <1>8, <2>1, BlobAssumption DEF save_state_blob_atomically, Written
  <2>3. PICK result \in {"ok", "unknown"} : EndTransaction(t, blob.state, result)
    BY <1>8, <2>1 DEF save_state_blob_atomically
  <2>4. QED
    BY <2>1, <2>2, <2>3, <1>4
<1>9. ASSUME NEW t \in Thread, ReturnResult(t) PROVE Atomic!Return(t)
  <2>1. AbstractTxn(t)' = [pc |-> "idle"] /\ Mapped[t].pc = "ended"
    BY <1>9, <1>0 DEF ReturnResult, AbstractTxn, Mapped, BlobTypes, NoTx
  <2>2. Mapped' = [Mapped EXCEPT ![t] = [pc |-> "idle"]]
    BY <1>9, <2>1, MappedStep, Zenon DEF ReturnResult
  <2>3. QED
    BY <1>9, <2>1, <2>2 DEF Atomic!Return, Atomic!IdleTxn, ReturnResult, Mapped
<1>10. ASSUME UNCHANGED blobVars PROVE Stutter
  BY <1>10 DEF blobVars, Mapped, AbstractTxn
<1>11. QED
  BY <1>1, <1>2, <1>5, <1>6, <1>7, <1>8, <1>9, <1>10 DEF BlobNext, Atomic!TransactionsNext

(***************************************************************************)
(* FfiSdkStorage implements the StorageAdapter of Transactions: whatever   *)
(* the threads of however many handles do, its transactions are atomic.    *)
(***************************************************************************)
THEOREM BlobStoreImplements == BlobSpec => BlobStoreIsAtomic
BY InitImplements, StepImplements, BlobInvariant, PTL
   DEF BlobSpec, BlobStoreIsAtomic, Atomic!TransactionsSpec

-----------------------------------------------------------------------------

LinkState == [gen : Int, has : {"none", "handshake", "link"}]
QueuedMessage ==
  [id : Nat, to : Peer, status : MessageStatus, tried : BOOLEAN, sent : BOOLEAN,
   error : BOOLEAN]
StoreState ==
  [peer : [Peer -> PeerStates], link : [Peer -> LinkState], queue : Seq(QueuedMessage),
   next : Nat]

\* A snapshot is stored for the peer states that need one, and only for them; there is
\* none before the first generation.
Fits(state, l) ==
  /\ state = "Linked" <=> l.has = "link"
  /\ state = "Linking" <=> l.has = "handshake"
  /\ l.gen >= -1 /\ (l.gen = -1 => l.has = "none")
SnapshotsFit(b) == \A p \in Peer : Fits(b.peer[p], b.link[p])

\* The next message gets an id that no message has.
IdsGivenOut(b) == \A i \in DOMAIN b.queue : b.queue[i].id < b.next

GoodStore(b) == b \in StoreState /\ ValidBackup(b) /\ SnapshotsFit(b) /\ IdsGivenOut(b)

BackupInv == GoodStore(store) /\ GoodStore(saved)

LEMMA StoreDefaults ==
  /\ EmptyStore \in StoreState /\ EmptyStore.queue = <<>>
  /\ \A p \in Peer : EmptyStore.peer[p] = "Absent" /\ EmptyStore.link[p].has = "none"
BY DEF EmptyStore, StoreState, PeerStates, LinkState, NoLinkState

LEMMA QueuePositions ==
  ASSUME NEW q \in Seq(QueuedMessage)
  PROVE  /\ DOMAIN q = 1 .. Len(q) /\ Len(q) \in Nat
         /\ \A i \in DOMAIN q : q[i] \in QueuedMessage
BY ElementOfSeq, LenProperties

LEMMA QueueRewritten ==
  ASSUME NEW q \in Seq(QueuedMessage), NEW r, r = [i \in DOMAIN q |-> r[i]],
         \A i \in DOMAIN q : r[i] \in QueuedMessage
  PROVE  r \in Seq(QueuedMessage) /\ DOMAIN r = DOMAIN q
<1>1. Len(q) \in Nat /\ DOMAIN q = 1 .. Len(q)
  BY QueuePositions
<1>2. r \in [1 .. Len(q) -> QueuedMessage]
  BY <1>1
<1> QED  BY <1>1, <1>2, SeqDef

\* A peer is linked anew or loses its snapshots; the queue stays.
LEMMA PeerChanges ==
  ASSUME BackupInv, UNCHANGED saved, NEW p \in Peer, NEW state \in PeerStates,
         NEW l \in LinkState, Fits(state, l),
         store'.peer = [store.peer EXCEPT ![p] = state],
         store'.link = [store.link EXCEPT ![p] = l],
         store' = [peer |-> store'.peer, link |-> store'.link, queue |-> store.queue,
                   next |-> store.next]
  PROVE  BackupInv'
<1>1. store \in StoreState
  BY DEF BackupInv, GoodStore
<1>2. store'.queue = store.queue /\ store'.next = store.next
  OBVIOUS
<1>3. store' \in StoreState
  BY <1>1 DEF StoreState
<1>4. ValidBackup(store') /\ IdsGivenOut(store')
  BY <1>2 DEF BackupInv, GoodStore, ValidBackup, IdsGivenOut
<1>5. SnapshotsFit(store')
  BY <1>1 DEF BackupInv, GoodStore, SnapshotsFit, StoreState
<1> QED  BY <1>3, <1>4, <1>5 DEF BackupInv, GoodStore

\* SetLink writes both records of a peer, with the next generation.
LEMMA SetLinkKeeps ==
  ASSUME BackupInv, UNCHANGED saved, NEW p \in Peer, NEW state \in PeerStates,
         NEW has \in {"none", "handshake", "link"},
         state = "Linked" <=> has = "link", state = "Linking" <=> has = "handshake",
         store' = SetLink(store, p, state, has)
  PROVE  BackupInv'
<1> DEFINE l == [gen |-> store.link[p].gen + 1, has |-> has]
<1>1. store \in StoreState
  BY DEF BackupInv, GoodStore
<1>2. l \in LinkState /\ Fits(state, l)
  BY <1>1 DEF StoreState, LinkState, BackupInv, GoodStore, SnapshotsFit, Fits
<1>3. store' = [peer |-> [store.peer EXCEPT ![p] = state], link |-> [store.link EXCEPT ![p] = l],
                queue |-> store.queue, next |-> store.next]
  BY <1>1, Zenon DEF SetLink, StoreState
<1> HIDE DEF l
<1> QED  BY <1>2, <1>3, PeerChanges

LEMMA StartLinkKeeps == ASSUME BackupInv, NEW p \in Peer, StartLink(p) PROVE BackupInv'
BY SetLinkKeeps DEF StartLink, PeerStates

LEMMA CompleteLinkKeeps == ASSUME BackupInv, NEW p \in Peer, CompleteLink(p) PROVE BackupInv'
BY SetLinkKeeps DEF CompleteLink, PeerStates

\* mark_recovery_required, block_peer and unblock_peer
LEMMA DropLinkKeeps ==
  ASSUME BackupInv, NEW p \in Peer, NEW state \in {"RecoveryRequired", "Blocked", "NotLinked"},
         DropLink(p, state)
  PROVE  BackupInv'
<1>1. CASE store.link[p].gen # -1
  BY <1>1, SetLinkKeeps DEF DropLink, PeerStates
<1>2. CASE store.link[p].gen = -1
  <2>1. store \in StoreState /\ SnapshotsFit(store)
    BY DEF BackupInv, GoodStore
  <2>2. store' = [store EXCEPT !.peer[p] = state] /\ UNCHANGED saved
    BY <1>2 DEF DropLink
  <2>3. store' = [peer |-> [store.peer EXCEPT ![p] = state], link |-> store.link,
                  queue |-> store.queue, next |-> store.next]
    BY <2>1, <2>2 DEF StoreState
  <2>4. store.link[p] \in LinkState /\ Fits(state, store.link[p])
    BY <1>2, <2>1 DEF StoreState, SnapshotsFit, Fits
  <2>5. store.link = [store.link EXCEPT ![p] = store.link[p]]
    BY <2>1 DEF StoreState
  <2>6. /\ store'.peer = [store.peer EXCEPT ![p] = state]
        /\ store'.link = [store.link EXCEPT ![p] = store.link[p]]
        /\ store' = [peer |-> store'.peer, link |-> store'.link, queue |-> store.queue,
                     next |-> store.next]
    BY <2>3, <2>5
  <2>7. state \in PeerStates
    BY DEF PeerStates
  <2> QED  BY <2>2, <2>4, <2>6, <2>7, PeerChanges
<1> QED  BY <1>1, <1>2

\* The message gets an id that no message had.
LEMMA QueueKeeps == ASSUME BackupInv, NEW p \in Peer, Queue(p) PROVE BackupInv'
<1> DEFINE q == store.queue
           m == [id |-> store.next, to |-> p, status |-> "Pending", tried |-> FALSE,
                 sent |-> FALSE, error |-> FALSE]
<1>1. store \in StoreState /\ ValidBackup(store) /\ IdsGivenOut(store) /\ SnapshotsFit(store)
  BY DEF BackupInv, GoodStore
<1>2. m \in QueuedMessage /\ ValidStatus(m) /\ m.id = store.next
  BY <1>1 DEF StoreState, QueuedMessage, MessageStatus, ValidStatus
<1>3. /\ store' = [peer |-> store.peer, link |-> store.link, queue |-> Append(q, m),
                   next |-> store.next + 1]
      /\ UNCHANGED saved
  BY <1>1, Zenon DEF Queue, StoreState
<1>4. q \in Seq(QueuedMessage) /\ store.next \in Nat
  BY <1>1 DEF StoreState
<1> HIDE DEF m, q
<1>5. /\ Append(q, m) \in Seq(QueuedMessage)
      /\ DOMAIN q = 1 .. Len(q) /\ Len(q) \in Nat
      /\ DOMAIN Append(q, m) = 1 .. Len(q) + 1
      /\ \A i \in 1 .. Len(q) : Append(q, m)[i] = q[i] /\ q[i] \in QueuedMessage
      /\ Append(q, m)[Len(q) + 1] = m
  BY <1>2, <1>4, QueuePositions, AppendProperties, LenProperties
<1>6. store' \in StoreState
  BY <1>1, <1>3, <1>4, <1>5 DEF StoreState
<1>7. ASSUME NEW i \in DOMAIN q
      PROVE  q[i].id < store.next /\ q[i].id \in Nat /\ ValidStatus(q[i])
  BY <1>1, <1>5 DEF IdsGivenOut, ValidBackup, QueuedMessage, q
<1>8. IdsGivenOut(store')
  <2>1. ASSUME NEW i \in 1 .. Len(q) + 1 PROVE Append(q, m)[i].id < store.next + 1
    <3>1. CASE i = Len(q) + 1
      BY <1>2, <1>4, <1>5, <3>1
    <3>2. CASE i \in 1 .. Len(q)
      BY <1>4, <1>5, <1>7, <3>2
    <3> QED  BY <1>5, <3>1, <3>2
  <2> QED  BY <1>3, <1>5, <2>1 DEF IdsGivenOut
<1>9. ValidBackup(store')
  <2>1. ASSUME NEW i \in 1 .. Len(q) + 1, NEW j \in 1 .. Len(q) + 1,
               Append(q, m)[i].id = Append(q, m)[j].id
        PROVE  i = j
    <3>1. CASE i = Len(q) + 1 /\ j \in 1 .. Len(q)
      BY <1>2, <1>4, <1>5, <1>7, <2>1, <3>1
    <3>2. CASE j = Len(q) + 1 /\ i \in 1 .. Len(q)
      BY <1>2, <1>4, <1>5, <1>7, <2>1, <3>2
    <3>3. CASE i \in 1 .. Len(q) /\ j \in 1 .. Len(q)
      BY <1>1, <1>5, <2>1, <3>3 DEF ValidBackup, q
    <3> QED  BY <1>5, <3>1, <3>2, <3>3
  <2>2. ASSUME NEW i \in 1 .. Len(q) + 1 PROVE ValidStatus(Append(q, m)[i])
    <3>1. CASE i = Len(q) + 1
      BY <1>2, <1>5, <3>1
    <3>2. CASE i \in 1 .. Len(q)
      BY <1>5, <1>7, <3>2
    <3> QED  BY <1>5, <3>1, <3>2
  <2> QED  BY <1>3, <1>5, <2>1, <2>2 DEF ValidBackup
<1>10. SnapshotsFit(store')
  BY <1>1, <1>3 DEF SnapshotsFit
<1> QED  BY <1>3, <1>6, <1>8, <1>9, <1>10 DEF BackupInv, GoodStore

\* A message of the queue changes, and keeps its id and its recipient.
LEMMA MessageChanges ==
  ASSUME BackupInv, UNCHANGED saved, NEW i \in DOMAIN store.queue, NEW m \in QueuedMessage,
         m.id = store.queue[i].id, ValidStatus(m),
         store' = [peer |-> store.peer, link |-> store.link,
                   queue |-> [store.queue EXCEPT ![i] = m], next |-> store.next]
  PROVE  BackupInv'
<1> DEFINE q == store.queue
           r == [q EXCEPT ![i] = m]
<1>1. store \in StoreState /\ ValidBackup(store) /\ IdsGivenOut(store) /\ SnapshotsFit(store)
  BY DEF BackupInv, GoodStore
<1>2. q \in Seq(QueuedMessage) /\ store'.queue = r /\ store'.next = store.next
  BY <1>1 DEF StoreState
<1>3. \A j \in DOMAIN q : q[j] \in QueuedMessage
  BY <1>2, QueuePositions
<1>4. r \in Seq(QueuedMessage) /\ DOMAIN r = DOMAIN q
  BY <1>2, <1>3, QueueRewritten
<1>5. \A j \in DOMAIN q : r[j] = q[j] \/ (j = i /\ r[j] = m)
  OBVIOUS
<1>6. \A j \in DOMAIN q : r[j].id = q[j].id /\ ValidStatus(r[j])
  BY <1>1, <1>5 DEF ValidBackup
<1> HIDE DEF r
<1>7. store' \in StoreState
  BY <1>1, <1>2, <1>4 DEF StoreState
<1>8. ValidBackup(store') /\ IdsGivenOut(store')
  BY <1>1, <1>2, <1>4, <1>6, SMTT(20) DEF ValidBackup, IdsGivenOut
<1>9. SnapshotsFit(store')
  BY <1>1 DEF SnapshotsFit
<1> QED  BY <1>7, <1>8, <1>9 DEF BackupInv, GoodStore

LEMMA ClaimQueuedKeeps ==
  ASSUME BackupInv, NEW i \in DOMAIN store.queue, ClaimQueued(i) PROVE BackupInv'
<1> DEFINE m == [store.queue[i] EXCEPT !.status = "Sending", !.tried = TRUE, !.error = FALSE]
<1>1. /\ store \in StoreState /\ store.queue[i] \in QueuedMessage
      /\ ValidStatus(store.queue[i])
  BY QueuePositions, Zenon DEF BackupInv, GoodStore, StoreState, ValidBackup
<1>2. m \in QueuedMessage /\ m.id = store.queue[i].id /\ ValidStatus(m)
  BY <1>1, Zenon DEF ClaimQueued, QueuedMessage, MessageStatus, ValidStatus
<1>3. store' = [peer |-> store.peer, link |-> store.link,
                queue |-> [store.queue EXCEPT ![i] = m], next |-> store.next]
  BY <1>1, Zenon DEF ClaimQueued, StoreState, QueuedMessage
<1> HIDE DEF m
<1> QED  BY <1>2, <1>3, MessageChanges, Zenon DEF ClaimQueued

\* The marks of mark_outbound are those validate_outbound_private_status asks for.
LEMMA MarkedIsValid ==
  ASSUME NEW m \in QueuedMessage, ValidStatus(m), m.status = "Sending",
         NEW status \in {"Sent", "Failed", "Invalid", "RecoveryRequired"}
  PROVE  /\ mark_outbound(m, status) \in QueuedMessage
         /\ mark_outbound(m, status).id = m.id /\ mark_outbound(m, status).to = m.to
         /\ mark_outbound(m, status).status = status
         /\ ValidStatus(mark_outbound(m, status))
BY Zenon DEF mark_outbound, QueuedMessage, MessageStatus, SettledStatus, ValidStatus

LEMMA SettleQueuedKeeps ==
  ASSUME BackupInv, NEW i \in DOMAIN store.queue,
         NEW s \in {"Sent", "Failed", "Invalid", "RecoveryRequired"}, SettleQueued(i, s)
  PROVE  BackupInv'
<1>1. /\ store \in StoreState /\ store.queue[i] \in QueuedMessage
      /\ ValidStatus(store.queue[i])
  BY QueuePositions DEF BackupInv, GoodStore, StoreState, ValidBackup
<1>2. store' = [peer |-> store.peer, link |-> store.link,
                queue |-> [store.queue EXCEPT ![i] = mark_outbound(store.queue[i], s)],
                next |-> store.next]
  BY <1>1, Zenon DEF SettleQueued, StoreState
<1> QED  BY <1>1, <1>2, MarkedIsValid, MessageChanges, ZenonT(30) DEF SettleQueued

LEMMA SupersedeQueuedKeeps ==
  ASSUME BackupInv, NEW i \in DOMAIN store.queue, SupersedeQueued(i) PROVE BackupInv'
<1> DEFINE m == [store.queue[i] EXCEPT !.status = "Superseded", !.error = FALSE]
<1>1. /\ store \in StoreState /\ store.queue[i] \in QueuedMessage
      /\ ValidStatus(store.queue[i])
  BY QueuePositions DEF BackupInv, GoodStore, StoreState, ValidBackup
<1>2. m \in QueuedMessage /\ m.id = store.queue[i].id /\ ValidStatus(m)
  BY <1>1, Zenon DEF SupersedeQueued, QueuedMessage, MessageStatus, SettledStatus, ValidStatus
<1>3. store' = [peer |-> store.peer, link |-> store.link,
                queue |-> [store.queue EXCEPT ![i] = m], next |-> store.next]
  BY <1>1, Zenon DEF SupersedeQueued, StoreState, QueuedMessage
<1> HIDE DEF m
<1> QED  BY <1>2, <1>3, MessageChanges, Zenon DEF SupersedeQueued

\* What into_storage_state makes of a peer: it agrees with the snapshot that is left.
LEMMA ReconciledFits ==
  ASSUME NEW b, GoodStore(b), NEW p \in Peer
  PROVE  /\ reconciled_peer(b, p) \in PeerStates
         /\ cleared_link(b.link[p]) \in LinkState
         /\ Fits("RecoveryRequired", cleared_link(b.link[p]))
         /\ reconciled_peer(b, p) # "RecoveryRequired" => Fits(reconciled_peer(b, p), b.link[p])
<1>1. /\ b.peer[p] \in PeerStates /\ b.link[p] \in LinkState /\ Fits(b.peer[p], b.link[p])
  BY DEF GoodStore, StoreState, SnapshotsFit
<1>2. cleared_link(b.link[p]) \in LinkState /\ Fits("RecoveryRequired", cleared_link(b.link[p]))
  BY <1>1 DEF cleared_link, LinkState, Fits
<1>3. /\ FromLinkState(b, p) \in PeerStates
      /\ FromLinkState(b, p) # "RecoveryRequired" => Fits(FromLinkState(b, p), b.link[p])
  BY <1>1 DEF FromLinkState, restored_peer_state, PeerStates, LinkState, Fits
<1> QED  BY <1>2, <1>3 DEF reconciled_peer, PeerStates

\* The restored queue has the ids, the recipients and valid marks, and work that needs a
\* link needed it before.
LEMMA RestoredMessage ==
  ASSUME NEW m \in QueuedMessage, ValidStatus(m), NEW recovering \in SUBSET Peer
  PROVE  LET r == restored_message(m, recovering) IN
         /\ r \in QueuedMessage /\ r.id = m.id /\ r.to = m.to /\ ValidStatus(r)
         /\ outbound_status_requires_link(r) => outbound_status_requires_link(m)
<1>1. CASE m.status = "Sending" /\ m.to \in recovering
  BY <1>1, MarkedIsValid DEF restored_message, outbound_status_requires_link
<1>2. CASE ~(m.status = "Sending" /\ m.to \in recovering)
  BY <1>2 DEF restored_message
<1> QED  BY <1>1, <1>2

\* A restore of a good backup is a good state, and leaves no unlinked work unnoticed.
LEMMA RestoredIsGood ==
  ASSUME NEW b, GoodStore(b)
  PROVE  /\ GoodStore(into_storage_state(b))
         /\ \A p \in Peer : WorkWithoutLink(into_storage_state(b), p) =>
              into_storage_state(b).peer[p] \in {"Blocked", "RecoveryRequired"}
<1> DEFINE r == into_storage_state(b)
           states == [p \in Peer |-> reconciled_peer(b, p)]
           recovering == {p \in Peer : states[p] = "RecoveryRequired"}
           q == b.queue
<1>1. b \in StoreState /\ ValidBackup(b) /\ IdsGivenOut(b)
  BY DEF GoodStore
<1>2. q \in Seq(QueuedMessage) /\ b.next \in Nat /\ b.link \in [Peer -> LinkState]
  BY <1>1, SMTT(20) DEF StoreState
<1>3. /\ r.peer = states
      /\ r.link = [p \in Peer |-> IF p \in recovering THEN cleared_link(b.link[p]) ELSE b.link[p]]
      /\ r.queue = [i \in DOMAIN q |-> restored_message(q[i], recovering)]
      /\ r.next = IF b.next > next_outbound_id(q) THEN b.next ELSE next_outbound_id(q)
      /\ r = [peer |-> r.peer, link |-> r.link, queue |-> r.queue, next |-> r.next]
  BY DEF into_storage_state
<1> HIDE DEF r
<1>4. ASSUME NEW i \in DOMAIN q
      PROVE  /\ q[i] \in QueuedMessage /\ q[i].id < b.next
             /\ r.queue[i] \in QueuedMessage /\ r.queue[i].id = q[i].id
             /\ r.queue[i].to = q[i].to /\ ValidStatus(r.queue[i])
             /\ outbound_status_requires_link(r.queue[i]) => outbound_status_requires_link(q[i])
  <2>1. q[i] \in QueuedMessage /\ ValidStatus(q[i]) /\ q[i].id < b.next
    BY <1>1, <1>2, QueuePositions DEF ValidBackup, IdsGivenOut
  <2>2. recovering \in SUBSET Peer /\ r.queue[i] = restored_message(q[i], recovering)
    BY <1>3
  <2> HIDE DEF recovering
  <2> QED  BY <2>1, <2>2, RestoredMessage
<1>5. r.queue \in Seq(QueuedMessage) /\ DOMAIN r.queue = DOMAIN q
  BY <1>2, <1>3, <1>4, QueueRewritten, ZenonT(30)
<1>6. r.next = b.next
  <2>1. CASE q = <<>>
    BY <1>2, <1>3, <2>1 DEF next_outbound_id
  <2>2. CASE q # <<>>
    <3>1. Len(q) \in DOMAIN q
      BY <1>2, <2>2, QueuePositions, EmptySeq
    <3>2. q[Len(q)].id \in Nat /\ q[Len(q)].id < b.next
      BY <1>4, <3>1 DEF QueuedMessage
    <3> QED  BY <1>2, <1>3, <2>2, <3>2 DEF next_outbound_id
  <2> QED  BY <2>1, <2>2
<1>7. \A p \in Peer : /\ r.peer[p] \in PeerStates /\ r.link[p] \in LinkState
                      /\ Fits(r.peer[p], r.link[p])
  BY <1>2, <1>3, ReconciledFits
<1>8. r \in StoreState
  BY <1>2, <1>3, <1>5, <1>6, <1>7, Zenon DEF StoreState
<1>9. ValidBackup(r) /\ IdsGivenOut(r)
  BY <1>1, <1>4, <1>5, <1>6 DEF ValidBackup, IdsGivenOut
<1>10. ASSUME NEW p \in Peer, WorkWithoutLink(r, p)
       PROVE  r.peer[p] \in {"Blocked", "RecoveryRequired"}
  <2>1. r.peer[p] = reconciled_peer(b, p)
    BY <1>3
  <2>2. CASE reconciled_peer(b, p) = "RecoveryRequired"
    BY <2>1, <2>2
  <2>3. CASE reconciled_peer(b, p) # "RecoveryRequired"
    <3>1. r.link[p] = b.link[p]
      BY <1>3, <2>3
    <3>2. WorkWithoutLink(b, p)
      BY <1>4, <1>5, <1>10, <3>1 DEF WorkWithoutLink
    <3>3. b.peer[p] = "Blocked"
      BY <2>3, <3>2 DEF reconciled_peer
    <3> QED  BY <2>1, <3>3 DEF reconciled_peer, FromLinkState
  <2> QED  BY <2>2, <2>3
<1> QED  BY <1>7, <1>8, <1>9, <1>10 DEF GoodStore, SnapshotsFit, r

LEMMA BackupInitial == BackupInit => BackupInv
<1>1. GoodStore(EmptyStore)
  BY StoreDefaults DEF GoodStore, ValidBackup, SnapshotsFit, IdsGivenOut, Fits, EmptyStore,
     NoLinkState
<1> QED  BY <1>1, SMTT(20) DEF BackupInit, BackupInv

LEMMA BackupStep == ASSUME BackupInv, BackupNext PROVE BackupInv'
<1>1. CASE ExportState
  BY <1>1 DEF ExportState, BackupInv
<1>2. CASE RestoreState
  BY <1>2, RestoredIsGood DEF RestoreState, BackupInv
<1> QED
  BY <1>1, <1>2, StartLinkKeeps, CompleteLinkKeeps, DropLinkKeeps, QueueKeeps,
     ClaimQueuedKeeps, SettleQueuedKeeps, SupersedeQueuedKeeps DEF BackupNext

LEMMA BackupInvariant == BackupSpec => []BackupInv
<1>1. BackupInv /\ [BackupNext]_backupVars => BackupInv'
  BY BackupStep DEF backupVars, BackupInv
<1> QED  BY BackupInitial, <1>1, PTL DEF BackupSpec

\* A restore accepts whatever the runtime exports, and after any number of restores, of old
\* or new backups, the peers, their snapshots and the queue agree (into_storage_state,
\* reconcile_restored_linked_peers, validate_outbound_private_status): for any peers, any
\* number of messages and of generations.
THEOREM RestoredTheorem == BackupSpec => []RestoredRecordsAgree
<1>1. BackupInv => RestoredRecordsAgree
  <2> SUFFICES ASSUME BackupInv PROVE RestoredRecordsAgree
    OBVIOUS
  <2>1. GoodStore(store) /\ GoodStore(saved)
    BY DEF BackupInv
  <2>2. store = into_storage_state(saved) =>
          \A p \in Peer : WorkWithoutLink(store, p) => store.peer[p] \in {"Blocked", "RecoveryRequired"}
    BY <2>1, RestoredIsGood
  <2> QED  BY <2>1, <2>2 DEF RestoredRecordsAgree, GoodStore, SnapshotsFit, Fits
<1> QED  BY BackupInvariant, <1>1, PTL

=============================================================================
