------------------------------ MODULE AuthFlow ------------------------------
(***************************************************************************)
(* Signing in with an external signer: PubkySessionBootstrap and           *)
(* PubkyAuthRequest (paykit-sdk/src/pubky_session.rs) over the vendored    *)
(* PubkyAuthFlow, AuthSubscription and HTTP relay channels.                *)
(* The app shows an authorization URL and keeps it; a background poller    *)
(* long-polls the relay channel of that URL, verifies the signer's token,  *)
(* acknowledges it and hands it to the app, which exchanges it for a       *)
(* session.  The app may stop at any step and resume from the URL.         *)
(***************************************************************************)
EXTENDS Integers

CONSTANTS RootCap,      \* the capability of a key holder: "/" with every action
          Requests,     \* the capability lists apps ask for, normalised
          User, NoUser, \* identities, known by their key
          MaxPollFailures,  \* consecutive failures a poll gives up after, 3 in the code
          MaxRestarts,  \* bound: times the app stops
          MaxApprovals  \* bound: times a signer approves

ASSUME AuthConstants == NoUser \notin User

VARIABLES authUrl,    \* the URL the app keeps, or NoUrl
          letter,     \* the token on the relay channel, or NoToken
          claims,     \* whose companion claims have reached the claim channel of the URL
          signer,     \* an approval with a companion claim under way
          poller,     \* the background task
          delivered,  \* the subscription's channel of one
          app,        \* the app's request or call, what it required and what it got
          kept,       \* the exported session in the platform's storage, or NoToken
          restarts, approvals,
          approved,   \* history: a signer approved the flow
          excuse      \* history: why that came to nothing, if it did

authVars == <<authUrl, letter, claims, signer, poller, delivered, app, kept,
              restarts, approvals, approved, excuse>>

\* A token, and the session it is exchanged for: the granted capabilities, the identity,
\* and whether a companion claim belongs to the approval.
NoToken == [caps |-> {}, by |-> NoUser, companion |-> FALSE]
NoUrl == [channel |-> "none", caps |-> {}, claim |-> FALSE]
NoSigner == [pc |-> "idle", by |-> NoUser]
PollerOff == [pc |-> "off", failures |-> 0, token |-> NoToken]
NoDelivery == [kind |-> "none", token |-> NoToken]
NoApp == [pc |-> "none", required |-> {}, secret |-> NoUser, token |-> NoToken]

\* Where a token is once it has left the relay.
InTransit == poller.token # NoToken \/ delivered.token # NoToken \/ app.token # NoToken

-----------------------------------------------------------------------------
(* What a session must be able to do. *)

capability_covers(actual, required) == actual \in {RootCap, required}

validate_session_capabilities(actual, required) ==
  \A r \in required : \E c \in actual : capability_covers(c, r)

\* A local secret is optional; if there is one it is the session's.
validate_local_secret(session, secret) == secret \in {NoUser, session.by}

session_result(session, secret, required) ==
  IF validate_local_secret(session, secret)
     /\ validate_session_capabilities(session.caps, required)
  THEN [pc |-> "signed_in", required |-> required, secret |-> secret, token |-> session]
  ELSE [pc |-> "failed", required |-> required, secret |-> secret, token |-> NoToken]

\* bootstrap_result_to_ffi: the result carries the exported session for the platform to keep.
Exported(result) == IF result.pc = "signed_in" THEN result.token ELSE kept

-----------------------------------------------------------------------------
(* The app. *)

SpawnPoller == poller' = [PollerOff EXCEPT !.pc = "polling"] /\ delivered' = NoDelivery

\* Dropping the flow aborts the poller.
DropFlow ==
  /\ poller' = PollerOff /\ delivered' = NoDelivery
  /\ excuse' = IF InTransit /\ letter = NoToken THEN "stopped" ELSE excuse

\* sign_up and sign_in: the key holder gets a root session.
sign_in(user, required) ==
  /\ app.pc = "none" /\ authUrl = NoUrl
  /\ app' = session_result([caps |-> {RootCap}, by |-> user, companion |-> FALSE], user, required)
  /\ kept' = Exported(app')
  /\ UNCHANGED <<authUrl, letter, claims, signer, poller, delivered, restarts, approvals,
                 approved, excuse>>

\* import_session: an exported session is used again, with or without a local secret.
import_session(secret, required) ==
  /\ app.pc = "none" /\ authUrl = NoUrl /\ kept # NoToken
  /\ app' = session_result(kept, secret, required)
  /\ kept' = Exported(app')
  /\ UNCHANGED <<authUrl, letter, claims, signer, poller, delivered, restarts, approvals,
                 approved, excuse>>

\* start_auth: a fresh secret, hence fresh channels, and a running poller.  The app may
\* announce a companion claim in the URL.
start_auth(channel, caps, claim) ==
  /\ app.pc = "none" /\ authUrl = NoUrl
  /\ authUrl' = [channel |-> channel, caps |-> caps, claim |-> claim]
  /\ app' = [NoApp EXCEPT !.pc = "request"]
  /\ SpawnPoller
  /\ UNCHANGED <<letter, claims, signer, kept, restarts, approvals, approved, excuse>>

validate_auth_url_capabilities(expected) == authUrl.caps = expected

\* resume_auth: the URL must ask for exactly what the app expects.
resume_auth(expected) ==
  /\ app.pc = "none" /\ authUrl # NoUrl
  /\ validate_auth_url_capabilities(expected)
  /\ app' = [NoApp EXCEPT !.pc = "request"]
  /\ SpawnPoller
  /\ UNCHANGED <<authUrl, letter, claims, signer, kept, restarts, approvals, approved, excuse>>

\* complete takes the request out of its handle before it looks at anything, so that a
\* call that expects other capabilities has used up the request and dropped the flow.
complete(secret, required) ==
  /\ app.pc = "request"
  /\ \/ /\ validate_auth_url_capabilities(required)
        /\ app' = [app EXCEPT !.pc = "waiting", !.secret = secret, !.required = required]
        /\ UNCHANGED <<poller, delivered, excuse>>
     \/ /\ ~validate_auth_url_capabilities(required)
        /\ app' = [app EXCEPT !.pc = "failed"]
        /\ DropFlow
  /\ UNCHANGED <<authUrl, letter, claims, signer, kept, restarts, approvals, approved>>

\* await_approval takes the one delivery there is.
TakeDelivery ==
  /\ app.pc = "waiting" /\ delivered.kind # "none"
  /\ delivered' = NoDelivery
  /\ app' = IF delivered.kind = "error" THEN [app EXCEPT !.pc = "failed"]
            ELSE [app EXCEPT !.pc = "exchange", !.token = delivered.token]
  /\ UNCHANGED <<authUrl, letter, claims, signer, poller, kept, restarts, approvals, approved,
                 excuse>>

validate_session_exact_capabilities == app.token.caps = app.required

\* The rest of complete: the token is exchanged for a session, which is validated.  A
\* failure leaves no token behind.
ExchangeToken ==
  /\ app.pc = "exchange"
  /\ \/ app' = [app EXCEPT !.pc = "failed", !.token = NoToken]
     \/ /\ validate_session_exact_capabilities
        /\ app' = session_result(app.token, app.secret, app.required)
  /\ kept' = Exported(app')
  /\ excuse' = IF app'.pc = "failed" THEN "exchange" ELSE excuse
  /\ UNCHANGED <<authUrl, letter, claims, signer, poller, delivered, restarts, approvals, approved>>

\* The app stops, or drops its request; the URL stays with it.
AppStops ==
  /\ app.pc \in {"request", "waiting", "exchange", "failed"} /\ restarts < MaxRestarts
  /\ restarts' = restarts + 1
  /\ app' = NoApp /\ DropFlow
  /\ UNCHANGED <<authUrl, letter, claims, signer, kept, approvals, approved>>

\* A flow or a session that ended: the app deletes the URL.  What a signer still posts
\* to its channels nobody reads.
ForgetUrl ==
  /\ app.pc \in {"signed_in", "failed"}
  /\ authUrl' = NoUrl /\ letter' = NoToken /\ claims' = {} /\ signer' = NoSigner
  /\ app' = NoApp /\ poller' = PollerOff /\ delivered' = NoDelivery
  /\ approved' = FALSE /\ excuse' = "none"
  /\ UNCHANGED <<kept, restarts, approvals>>

-----------------------------------------------------------------------------
(* The signers and the relay. *)

\* PubkySigner::approve_auth: the capabilities of the URL are signed and posted.
PostToken(user, companion) ==
  /\ letter' = [caps |-> authUrl.caps, by |-> user, companion |-> companion]
  /\ approved' = TRUE /\ excuse' = "none"

\* approve_auth: the URL must ask for what the signer expects.  A post that fails without
\* effect changes nothing.
approve_auth(user, expected) ==
  /\ authUrl # NoUrl /\ approvals < MaxApprovals
  /\ validate_auth_url_capabilities(expected)
  /\ approvals' = approvals + 1
  /\ PostToken(user, FALSE)
  /\ UNCHANGED <<authUrl, claims, signer, poller, delivered, app, kept, restarts>>

\* parse_companion_auth_request: the URL announces the claim's type, once, and asks for
\* what the signer expects.
parse_companion_auth_request(expected) ==
  /\ authUrl # NoUrl /\ authUrl.claim
  /\ validate_auth_url_capabilities(expected)

\* approve_auth_with_companion_claim, up to the first request.
approve_auth_with_companion_claim(user, expected) ==
  /\ signer = NoSigner /\ approvals < MaxApprovals
  /\ parse_companion_auth_request(expected)
  /\ approvals' = approvals + 1
  /\ signer' = [pc |-> "deliver", by |-> user]
  /\ UNCHANGED <<authUrl, letter, claims, poller, delivered, app, kept, restarts, approved, excuse>>

\* Mutant: a claim that cannot be delivered does not end the approval.
deliver_companion_claim_BestEffort ==
  /\ signer.pc = "deliver"
  /\ claims' \in {claims, claims \cup {signer.by}}
  /\ signer' = [signer EXCEPT !.pc = "approve"]
  /\ UNCHANGED <<authUrl, letter, poller, delivered, app, kept, restarts, approvals, approved, excuse>>

\* deliver_companion_claim: posted to a channel of its own; a request that failed ends the
\* approval, whether it arrived or not.
deliver_companion_claim ==
  /\ signer.pc = "deliver"
  /\ \/ claims' = claims \cup {signer.by} /\ signer' = [signer EXCEPT !.pc = "approve"]
     \/ claims' \in {claims, claims \cup {signer.by}} /\ signer' = NoSigner
  /\ UNCHANGED <<authUrl, letter, poller, delivered, app, kept, restarts, approvals, approved, excuse>>

\* The normal approval after the claim; it may fail, with or without effect.
ApproveAfterClaim ==
  /\ signer.pc = "approve"
  /\ signer' = NoSigner
  /\ PostToken(signer.by, TRUE) \/ UNCHANGED <<letter, approved, excuse>>
  /\ UNCHANGED <<authUrl, claims, poller, delivered, app, kept, restarts, approvals>>

\* The relay keeps a message for its time to live.
LetterExpires ==
  /\ letter # NoToken
  /\ letter' = NoToken
  /\ excuse' = IF InTransit THEN excuse ELSE "expired"
  /\ UNCHANGED <<authUrl, claims, signer, poller, delivered, app, kept, restarts, approvals, approved>>

-----------------------------------------------------------------------------
(* The background poller. *)

\* poll: the inbox channel starts counting again after a timeout, the link
\* channel does not.
PollTimesOut ==
  /\ poller.pc = "polling"
  /\ poller' = [poller EXCEPT !.failures = IF authUrl.channel = "inbox" THEN 0 ELSE @]
  /\ UNCHANGED <<authUrl, letter, claims, signer, delivered, app, kept, restarts, approvals, approved, excuse>>

PollFails ==
  /\ poller.pc = "polling"
  /\ IF poller.failures + 1 >= MaxPollFailures
     THEN /\ poller' = [poller EXCEPT !.pc = "ended", !.failures = @ + 1]
          /\ delivered' = [NoDelivery EXCEPT !.kind = "error"]
     ELSE /\ poller' = [poller EXCEPT !.failures = @ + 1]
          /\ UNCHANGED delivered
  /\ UNCHANGED <<authUrl, letter, claims, signer, app, kept, restarts, approvals, approved, excuse>>

\* The GET is answered.  An inbox keeps the message until it is acknowledged, a
\* link hands it over.
PollReceives ==
  /\ poller.pc = "polling" /\ letter # NoToken
  /\ poller' = [poller EXCEPT !.pc = "verify", !.token = letter]
  /\ letter' = IF authUrl.channel = "inbox" THEN letter ELSE NoToken
  /\ UNCHANGED <<authUrl, claims, signer, delivered, app, kept, restarts, approvals, approved, excuse>>

\* Mutant: a failed acknowledgement ends the task without the token.
AckToken_Fatal ==
  /\ poller.pc = "verify"
  /\ \/ letter' = (IF authUrl.channel = "inbox" THEN NoToken ELSE letter)
        /\ poller' = [poller EXCEPT !.pc = "acked"] /\ UNCHANGED delivered
     \/ letter' = (IF authUrl.channel = "inbox" THEN NoToken ELSE letter)
        /\ poller' = [poller EXCEPT !.pc = "ended", !.token = NoToken]
        /\ delivered' = [NoDelivery EXCEPT !.kind = "error"]
  /\ UNCHANGED <<authUrl, claims, signer, app, kept, restarts, approvals, approved, excuse>>

\* Mutant: a failed acknowledgement starts the poll over.
AckToken_Repolls ==
  /\ poller.pc = "verify"
  /\ \/ letter' = (IF authUrl.channel = "inbox" THEN NoToken ELSE letter)
        /\ poller' = [poller EXCEPT !.pc = "acked"]
     \/ UNCHANGED letter /\ poller' = [PollerOff EXCEPT !.pc = "polling"]
  /\ UNCHANGED <<authUrl, claims, signer, delivered, app, kept, restarts, approvals, approved, excuse>>

\* ack: best effort, on a verified token.  The DELETE may be lost on either side.
AckToken ==
  /\ poller.pc = "verify"
  /\ \/ letter' = (IF authUrl.channel = "inbox" THEN NoToken ELSE letter)
     \/ UNCHANGED letter
  /\ poller' = [poller EXCEPT !.pc = "acked"]
  /\ UNCHANGED <<authUrl, claims, signer, delivered, app, kept, restarts, approvals, approved, excuse>>

\* The verified token goes to the subscription, after the acknowledgement.
SendToken ==
  /\ poller.pc = "acked"
  /\ delivered' = [kind |-> "token", token |-> poller.token]
  /\ poller' = [poller EXCEPT !.pc = "ended", !.token = NoToken]
  /\ UNCHANGED <<authUrl, letter, claims, signer, app, kept, restarts, approvals, approved, excuse>>

-----------------------------------------------------------------------------

AuthInit ==
  /\ authUrl = NoUrl /\ letter = NoToken /\ claims = {} /\ signer = NoSigner
  /\ poller = PollerOff /\ delivered = NoDelivery /\ app = NoApp /\ kept = NoToken
  /\ restarts = 0 /\ approvals = 0 /\ approved = FALSE /\ excuse = "none"

AuthNext ==
  \/ \E user \in User, caps \in Requests :
       sign_in(user, caps) \/ approve_auth(user, caps)
       \/ approve_auth_with_companion_claim(user, caps)
  \/ \E secret \in User \cup {NoUser}, caps \in Requests :
       import_session(secret, caps) \/ complete(secret, caps)
  \/ \E caps \in Requests, channel \in {"inbox", "link"}, claim \in BOOLEAN :
       start_auth(channel, caps, claim)
  \/ \E caps \in Requests : resume_auth(caps)
  \/ TakeDelivery \/ ExchangeToken \/ AppStops \/ ForgetUrl
  \/ deliver_companion_claim \/ ApproveAfterClaim \/ LetterExpires
  \/ PollTimesOut \/ PollFails \/ PollReceives \/ AckToken \/ SendToken

AuthSpec == AuthInit /\ [][AuthNext]_authVars

\* The background task and the app's call are polled by their executor until they are
\* done, and a relay that has a message answers the long poll with it.  Nothing is asked
\* of the signer, of failures or of the app's own calls.
AuthFairness ==
  /\ WF_authVars(PollReceives) /\ WF_authVars(AckToken) /\ WF_authVars(SendToken)
  /\ WF_authVars(TakeDelivery)

-----------------------------------------------------------------------------

(* An approval gets to the app: once the signer has approved, the token is *)
(* on the relay, with the poller, on its way to the app or with the app,   *)
(* unless the relay dropped it unread, the app stopped while it had left   *)
(* the relay, or the session exchange failed.  A lost acknowledgement is   *)
(* not among the reasons, and neither is a poller that gave up.            *)
ApprovalIsNotLost == approved /\ excuse = "none" => letter # NoToken \/ InTransit

(* "The claim is delivered before the normal AuthToken": wherever a token  *)
(* of an approval with a companion claim is, on the relay, with the poller, *)
(* on its way to the app or in its session, the claim of that identity has *)
(* reached the claim channel of the same request.                          *)
ClaimPrecedesToken ==
  \A token \in {letter, poller.token, delivered.token, app.token} :
    token.companion /\ authUrl # NoUrl => token.by \in claims

(* Nobody waits for good once the signer has approved, and nobody waits    *)
(* for a poller that has given up: await_approval returns a token or an    *)
(* error, unless the relay dropped the token or the app stopped meanwhile. *)
WaitingEnds ==
  /\ (app.pc = "waiting" /\ approved) ~> (app.pc # "waiting" \/ excuse # "none")
  /\ (app.pc = "waiting" /\ poller.pc = "ended") ~> app.pc # "waiting"

=============================================================================
