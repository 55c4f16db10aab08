---------------------------- MODULE MessageQueue ----------------------------
(***************************************************************************)
(* The outbound private messages of one counterparty receiver, and which   *)
(* of them is sent next: pure functions of the stored queue and of the two *)
(* retry thresholds the worker computed from its clock.  A queue is a      *)
(* sequence of records in the order of their outbound_message_id.          *)
(*                                                                         *)
(* Events keep their order.  Of the Private Payment Lists only the latest  *)
(* one matters, so an older list that was not sent is superseded; a send   *)
(* under way is not, since its message may have reached the counterparty.  *)
(***************************************************************************)
EXTENDS Integers, Sequences

Never == -1

Status == {"Pending", "Sending", "Sent", "Failed", "Invalid", "RecoveryRequired", "Superseded"}
Terminal == {"Sent", "Invalid", "RecoveryRequired", "Superseded"}

\* attempt is last_attempt_at; expires the earliest expiry of a list's
\* reservations, where it matters.
Message == [kind : {"event", "list"}, status : Status, attempt : Nat \cup {Never},
            expires : Nat \cup {Never}]

NewMessage(kind, expires) ==
  [kind |-> kind, status |-> "Pending", attempt |-> Never, expires |-> expires]

StaleSending(m, staleBefore) ==
  m.status = "Sending" /\ (m.attempt = Never \/ m.attempt <= staleBefore)

\* is_claimable_outbound_private_message
Claimable(m, staleBefore, retryAfter) ==
  \/ m.status = "Pending"
  \/ m.status = "Failed" /\ (m.attempt = Never \/ m.attempt <= retryAfter)
  \/ StaleSending(m, staleBefore)

\* A list that a later one makes outdated: a later list that was not given up.
Outdated(q, i) ==
  /\ q[i].kind = "list"
  /\ \E j \in DOMAIN q : /\ j > i
                         /\ q[j].kind = "list"
                         /\ q[j].status \notin {"Invalid", "RecoveryRequired", "Superseded"}

Supersedable(q, i, staleBefore, retryAfter) ==
  /\ Outdated(q, i)
  /\ q[i].status # "Sending"
  /\ Claimable(q[i], staleBefore, retryAfter)

\* supersede_outdated_private_payment_lists
Supersede(q, staleBefore, retryAfter) ==
  [i \in DOMAIN q |-> IF Supersedable(q, i, staleBefore, retryAfter)
                      THEN [q[i] EXCEPT !.status = "Superseded"] ELSE q[i]]

\* queued_outbound_private_messages
Open(q) == {i \in DOMAIN q : q[i].status \notin Terminal}
First(S) == CHOOSE i \in S : \A j \in S : i <= j

\* Mutant: a stale send is not picked up again.
HeadIsClaimable_NoStale(q, staleBefore, retryAfter) ==
  LET heads == {i \in Open(q) : ~Supersedable(q, i, staleBefore, retryAfter)}
  IN  /\ heads # {}
      /\ q[First(heads)].status # "Sending"
      /\ Claimable(q[First(heads)], staleBefore, retryAfter)

\* outbound_private_queue_head_is_claimable
HeadIsClaimable(q, staleBefore, retryAfter) ==
  LET heads == {i \in Open(q) : ~Supersedable(q, i, staleBefore, retryAfter)}
  IN  heads # {} /\ Claimable(q[First(heads)], staleBefore, retryAfter)

\* Mutant: a head that has to wait is passed over.
NextMessage_Skips(q, staleBefore, retryAfter) ==
  LET ready == {i \in Open(Supersede(q, staleBefore, retryAfter)) :
                  Claimable(q[i], staleBefore, retryAfter)}
  IN  IF ready # {} THEN First(ready) ELSE 0

\* claim_next_outbound_private_message: the head after superseding, 0 for none.
NextMessage(q, staleBefore, retryAfter) ==
  LET open == Open(Supersede(q, staleBefore, retryAfter))
  IN  IF open # {} /\ Claimable(q[First(open)], staleBefore, retryAfter)
      THEN First(open) ELSE 0

=============================================================================
