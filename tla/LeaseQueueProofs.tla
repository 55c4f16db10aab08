-------------------------- MODULE LeaseQueueProofs --------------------------
(***************************************************************************)
(* What the steps of the peer link operation lease do to the workers that  *)
(* hold it, and what the functions of MessageQueue return, for every queue *)
(* and every pair of retry thresholds: the lemmas on which the proofs      *)
(* about the operations under the lease, the outbound queue and the        *)
(* reservations rest.                                                      *)
(***************************************************************************)
EXTENDS PeerLease, MessageQueue, SequenceTheorems, WellFoundedInduction, TLAPS

-----------------------------------------------------------------------------
(* The lease                                                               *)

(***************************************************************************)
(* The steps that belong to the lease keep its type.                       *)
(***************************************************************************)
LEMMA LeaseStepType ==
  ASSUME LeaseTypeOK, NEW w \in Worker,
         \/ ClaimLease(w) \/ ReleaseLease(w) \/ DropLease(w)
         \/ ClearLease \/ AdvanceClock \/ UNCHANGED leaseVars
  PROVE  LeaseTypeOK'
BY LeaseConstants DEF LeaseTypeOK, ClaimLease, ReleaseLease, DropLease, ClearLease,
   AdvanceClock, leaseVars, NoLease

(***************************************************************************)
(* The lease steps keep the ids of the workers apart.                      *)
(***************************************************************************)
LEMMA LeaseStepUnique ==
  ASSUME LeaseTypeOK, LeaseUnique, NEW w \in Worker,
         \/ ClaimLease(w) \/ ReleaseLease(w) \/ DropLease(w)
         \/ ClearLease \/ AdvanceClock \/ UNCHANGED leaseVars
  PROVE  LeaseUnique'
<1>1. CASE ClaimLease(w)
  BY <1>1 DEF ClaimLease, LeaseUnique, LeaseTypeOK
<1>2. CASE ReleaseLease(w) \/ DropLease(w)
  BY <1>2 DEF ReleaseLease, DropLease, LeaseUnique, LeaseTypeOK, NoLease
<1>3. CASE ClearLease \/ AdvanceClock \/ UNCHANGED leaseVars
  BY <1>3 DEF ClearLease, AdvanceClock, leaseVars, LeaseUnique, LeaseTypeOK, NoLease
<1> QED
  BY <1>1, <1>2, <1>3

(***************************************************************************)
(* Two workers that pass require_peer_link_operation_lease are one.        *)
(***************************************************************************)
LEMMA LoneHolder ==
  ASSUME LeaseUnique, NEW v \in Worker, NEW w \in Worker, HoldsLease(v), HoldsLease(w)
  PROVE  v = w
BY DEF LeaseUnique, HoldsLease

(***************************************************************************)
(* claim_peer_link_operation makes the claimer the only holder.            *)
(***************************************************************************)
LEMMA ClaimerIsAlone ==
  ASSUME LeaseTypeOK, LeaseUnique, NEW w \in Worker, ClaimLease(w),
         NEW v \in Worker, HoldsLease(v)'
  PROVE  v = w
BY DEF ClaimLease, HoldsLease, LeaseUnique, LeaseTypeOK

(***************************************************************************)
(* A worker that ends its operation, or stops, holds the lease no more,    *)
(* and makes no other worker a holder.                                     *)
(***************************************************************************)
LEMMA LeavingMakesNoHolder ==
  ASSUME LeaseTypeOK, LeaseUnique, NEW w \in Worker, ReleaseLease(w) \/ DropLease(w),
         NEW v \in Worker, HoldsLease(v)'
  PROVE  v # w /\ HoldsLease(v)
<1>1. CASE ReleaseLease(w)
  BY <1>1 DEF ReleaseLease, HoldsLease, LeaseUnique, LeaseTypeOK, NoLease
<1>2. CASE DropLease(w)
  BY <1>2 DEF DropLease, HoldsLease, LeaseTypeOK
<1> QED
  BY <1>1, <1>2

-----------------------------------------------------------------------------
(* The queue                                                               *)

(***************************************************************************)
(* A queue is a function on its positions; a change that keeps every       *)
(* element a message keeps it a queue of the same length.                  *)
(***************************************************************************)
LEMMA QueueShape ==
  ASSUME NEW q \in Seq(Message)
  PROVE  /\ DOMAIN q = 1 .. Len(q) /\ Len(q) \in Nat
         /\ \A i \in DOMAIN q : q[i] \in Message
BY ElementOfSeq, LenProperties

LEMMA SameShape ==
  ASSUME NEW q \in Seq(Message), NEW r, r = [i \in DOMAIN q |-> r[i]],
         \A i \in DOMAIN q : r[i] \in Message
  PROVE  r \in Seq(Message) /\ DOMAIN r = DOMAIN q
<1>1. Len(q) \in Nat /\ DOMAIN q = 1 .. Len(q)
  BY QueueShape
<1>2. r \in [1 .. Len(q) -> Message]
  BY <1>1
<1> QED
  BY <1>1, <1>2, SeqDef

(***************************************************************************)
(* First picks the least member of a set of numbers that is not empty.     *)
(***************************************************************************)
LEMMA FirstIsLeast ==
  ASSUME NEW S, S \subseteq Nat, S # {}
  PROVE  First(S) \in S /\ \A j \in S : First(S) <= j
<1>1. \E x \in S : \A y \in S : ~(<<y, x>> \in OpToRel(<, Nat))
  BY NatLessThanWellFounded, WFMin
<1>2. PICK x \in S : \A y \in S : ~(<<y, x>> \in OpToRel(<, Nat))
  BY <1>1
<1>3. ASSUME NEW y \in S PROVE x <= y
  <2>1. x \in Nat /\ y \in Nat
    OBVIOUS
  <2>2. ASSUME y < x PROVE <<y, x>> \in OpToRel(<, Nat)
    <3>1. <<y, x>> \in Nat \X Nat /\ <<y, x>>[1] < <<y, x>>[2]
      BY <2>1, <2>2
    <3> QED
      BY <3>1, Zenon DEF OpToRel
  <2>3. ~(y < x)
    BY <1>2, <2>2, Zenon
  <2> QED
    BY <2>1, <2>3
<1> QED
  BY <1>3 DEF First

(***************************************************************************)
(* supersede_outdated_private_payment_lists changes only the status of     *)
(* messages that wait to be sent.                                          *)
(***************************************************************************)
LEMMA SupersedeType ==
  ASSUME NEW q \in Seq(Message), NEW s \in Int, NEW r \in Int
  PROVE  /\ Supersede(q, s, r) \in Seq(Message)
         /\ DOMAIN Supersede(q, s, r) = DOMAIN q
         /\ \A i \in DOMAIN q :
              \/ Supersede(q, s, r)[i] = q[i] /\ ~Supersedable(q, i, s, r)
              \/ /\ Supersedable(q, i, s, r)
                 /\ q[i].status \in {"Pending", "Failed"}
                 /\ Supersede(q, s, r)[i].status = "Superseded"
<1> DEFINE p == Supersede(q, s, r)
<1>1. p = [i \in DOMAIN q |-> p[i]]
  BY DEF Supersede
<1>2. ASSUME NEW i \in DOMAIN q
      PROVE  /\ p[i] \in Message
             /\ \/ p[i] = q[i] /\ ~Supersedable(q, i, s, r)
                \/ /\ Supersedable(q, i, s, r)
                   /\ q[i].status \in {"Pending", "Failed"}
                   /\ p[i].status = "Superseded"
  <2>1. q[i] \in Message
    BY QueueShape
  <2>2. CASE Supersedable(q, i, s, r)
    <3>1. q[i].status \in {"Pending", "Failed"}
      BY <2>2 DEF Supersedable, Claimable, StaleSending
    <3>2. p[i] = [q[i] EXCEPT !.status = "Superseded"]
      BY <2>2 DEF Supersede
    <3> QED
      BY <2>1, <2>2, <3>1, <3>2 DEF Message, Status
  <2>3. CASE ~Supersedable(q, i, s, r)
    BY <2>1, <2>3 DEF Supersede
  <2> QED
    BY <2>2, <2>3
<1> HIDE DEF p
<1>3. p \in Seq(Message) /\ DOMAIN p = DOMAIN q
  BY <1>1, <1>2, SameShape
<1> QED
  BY <1>2, <1>3 DEF p

(***************************************************************************)
(* What is open after superseding is what was open and not supersedable:   *)
(* outbound_private_queue_head_is_claimable, which skips, and              *)
(* claim_next_outbound_private_message, which supersedes, look at the same *)
(* messages.                                                               *)
(***************************************************************************)
LEMMA OpenAfterSupersede ==
  ASSUME NEW q \in Seq(Message), NEW s \in Int, NEW r \in Int
  PROVE  Open(Supersede(q, s, r)) = {i \in Open(q) : ~Supersedable(q, i, s, r)}
BY SupersedeType DEF Open, Terminal

(***************************************************************************)
(* The scan for receivers with something to send and the claim agree on    *)
(* every queue, whatever the two retry thresholds are.                     *)
(***************************************************************************)
LEMMA ScanAgreesWithClaim ==
  ASSUME NEW q \in Seq(Message), NEW s \in Int, NEW r \in Int
  PROVE  HeadIsClaimable(q, s, r) <=> NextMessage(q, s, r) # 0
<1> DEFINE heads == Open(Supersede(q, s, r))
<1>1. heads \subseteq Nat \ {0}
  BY SupersedeType, QueueShape DEF Open
<1>2. heads # {} => First(heads) # 0
  BY <1>1, FirstIsLeast
<1> QED
  BY <1>2, OpenAfterSupersede DEF HeadIsClaimable, NextMessage

(***************************************************************************)
(* The message claimed next is one of the queue, open, and not superseded. *)
(***************************************************************************)
LEMMA NextIsOpen ==
  ASSUME NEW q \in Seq(Message), NEW s \in Int, NEW r \in Int, NextMessage(q, s, r) # 0
  PROVE  /\ NextMessage(q, s, r) \in DOMAIN q
         /\ Supersede(q, s, r)[NextMessage(q, s, r)] = q[NextMessage(q, s, r)]
         /\ q[NextMessage(q, s, r)].status \notin Terminal
<1> DEFINE heads == Open(Supersede(q, s, r))
<1>1. heads \subseteq Nat
  BY SupersedeType, QueueShape DEF Open
<1>2. NextMessage(q, s, r) \in heads
  BY <1>1, FirstIsLeast DEF NextMessage
<1> QED
  BY <1>2, OpenAfterSupersede, SupersedeType DEF Open

(***************************************************************************)
(* A change of one message's status keeps the queue a queue.               *)
(***************************************************************************)
LEMMA StatusChange ==
  ASSUME NEW q \in Seq(Message), NEW i \in DOMAIN q, NEW t \in Status
  PROVE  /\ [q EXCEPT ![i].status = t] \in Seq(Message)
         /\ DOMAIN [q EXCEPT ![i].status = t] = DOMAIN q
         /\ [q EXCEPT ![i].status = t][i].status = t
         /\ \A j \in DOMAIN q : j # i => [q EXCEPT ![i].status = t][j] = q[j]
<1> DEFINE r == [q EXCEPT ![i].status = t]
<1>1. \A j \in DOMAIN q : q[j] \in Message
  BY QueueShape
<1>2. r[i] = [q[i] EXCEPT !.status = t]
  OBVIOUS
<1>3. r[i] \in Message /\ r[i].status = t
  BY <1>1, <1>2 DEF Message
<1>4. \A j \in DOMAIN q : j # i => r[j] = q[j]
  OBVIOUS
<1>5. r = [j \in DOMAIN q |-> r[j]]
  OBVIOUS
<1> HIDE DEF r
<1>6. r \in Seq(Message) /\ DOMAIN r = DOMAIN q
  BY <1>1, <1>3, <1>4, <1>5, SameShape
<1> QED
  BY <1>3, <1>4, <1>6 DEF r

(***************************************************************************)
(* The queue claim_next_outbound_private_message stores.                   *)
(***************************************************************************)
LEMMA ClaimedQueue ==
  ASSUME NEW q \in Seq(Message), NEW i \in DOMAIN q, NEW t \in Nat
  PROVE  LET r == [q EXCEPT ![i].status = "Sending", ![i].attempt = t]
         IN  /\ r \in Seq(Message)
             /\ DOMAIN r = DOMAIN q
             /\ r[i].status = "Sending"
             /\ \A j \in DOMAIN q : j # i => r[j] = q[j]
<1> DEFINE r == [q EXCEPT ![i].status = "Sending", ![i].attempt = t]
<1>1. \A j \in DOMAIN q : q[j] \in Message
  BY QueueShape
<1>2. r[i] = [q[i] EXCEPT !.status = "Sending", !.attempt = t]
  OBVIOUS
<1>3. r[i] \in Message /\ r[i].status = "Sending"
  BY <1>1, <1>2 DEF Message, Status
<1>4. \A j \in DOMAIN q : j # i => r[j] = q[j]
  OBVIOUS
<1>5. r = [j \in DOMAIN q |-> r[j]]
  OBVIOUS
<1> HIDE DEF r
<1>6. r \in Seq(Message) /\ DOMAIN r = DOMAIN q
  BY <1>1, <1>3, <1>4, <1>5, SameShape
<1> QED
  BY <1>3, <1>4, <1>6 DEF r

(***************************************************************************)
(* A message that is queued comes after those that were there.             *)
(***************************************************************************)
LEMMA AppendedQueue ==
  ASSUME NEW q \in Seq(Message), NEW k \in {"event", "list"}, NEW x \in Nat \cup {Never}
  PROVE  /\ Append(q, NewMessage(k, x)) \in Seq(Message)
         /\ DOMAIN q \subseteq DOMAIN Append(q, NewMessage(k, x))
         /\ \A i \in DOMAIN q : Append(q, NewMessage(k, x))[i] = q[i]
<1>1. NewMessage(k, x) \in Message
  BY DEF NewMessage, Message, Status
<1> HIDE DEF NewMessage
<1> QED
  BY <1>1, QueueShape, AppendProperties

(***************************************************************************)
(* Every message before the one claimed next is settled by then.           *)
(***************************************************************************)
LEMMA NextIsFirst ==
  ASSUME NEW q \in Seq(Message), NEW s \in Int, NEW r \in Int, NextMessage(q, s, r) # 0,
         NEW j \in DOMAIN q, j < NextMessage(q, s, r)
  PROVE  Supersede(q, s, r)[j].status \in Terminal
<1> DEFINE p == Supersede(q, s, r)
<1>1. Open(p) \subseteq Nat /\ DOMAIN p = DOMAIN q /\ j \in Nat
  BY SupersedeType, QueueShape DEF Open
<1>2. NextMessage(q, s, r) \in Open(p) /\ \A i \in Open(p) : NextMessage(q, s, r) <= i
  BY <1>1, FirstIsLeast DEF NextMessage
<1> HIDE DEF p
<1>3. j \notin Open(p)
  BY <1>1, <1>2
<1> QED
  BY <1>1, <1>3 DEF Open, p

(***************************************************************************)
(* No change of a message's status or last attempt makes a list an event,  *)
(* and only lists are superseded.                                          *)
(***************************************************************************)
LEMMA SupersedeKind ==
  ASSUME NEW q \in Seq(Message), NEW s \in Int, NEW r \in Int, NEW i \in DOMAIN q
  PROVE  /\ Supersede(q, s, r)[i].kind = q[i].kind
         /\ Supersede(q, s, r)[i] = q[i] \/ q[i].kind = "list"
<1>1. q[i] \in Message
  BY QueueShape
<1>2. CASE Supersedable(q, i, s, r)
  <2>1. Supersede(q, s, r)[i] = [q[i] EXCEPT !.status = "Superseded"]
    BY <1>2 DEF Supersede
  <2> QED
    BY <1>1, <1>2, <2>1 DEF Message, Supersedable, Outdated
<1>3. CASE ~Supersedable(q, i, s, r)
  BY <1>3 DEF Supersede
<1> QED
  BY <1>2, <1>3

LEMMA StatusKind ==
  ASSUME NEW q \in Seq(Message), NEW i \in DOMAIN q, NEW t, NEW j \in DOMAIN q
  PROVE  [q EXCEPT ![i].status = t][j].kind = q[j].kind
<1>1. q[j] \in Message
  BY QueueShape
<1>2. CASE i = j
  <2>1. [q EXCEPT ![i].status = t][j] = [q[j] EXCEPT !.status = t]
    BY <1>2
  <2> QED
    BY <1>1, <2>1 DEF Message
<1>3. CASE i # j
  BY <1>3
<1> QED
  BY <1>2, <1>3

=============================================================================
