------------------------- MODULE OutboundQueueProofs -------------------------
(***************************************************************************)
(* Proofs about the outbound private queue, for every queue, every set of  *)
(* workers and every bound.  Type correctness comes first, which says that *)
(* a worker's claimed message exists; then that settled messages stay      *)
(* settled, which rests on what the lease holder knows about the message   *)
(* it claimed (ClaimIsSending).                                            *)
(*                                                                         *)
(* What the counterparty reads rests on more: what the holder knows of the *)
(* stored link (LinkInv), how the writes made or intended from any         *)
(* checkpoint are ordered (WriteInv), and which of them the counterparty   *)
(* has read and the outbox still has (ReadInv, SlotInv).                   *)
(***************************************************************************)
EXTENDS OutboundQueue, LeaseQueueProofs

\* The steps at which a worker has a message claimed.
Claimed == {"ready", "put", "sent", "failed", "broken"}

\* The message a lease holder has claimed is still the one being sent.
ClaimIsSending ==
  \A w \in Worker : HoldsLease(w) /\ pc[w] \in Claimed => queue[job[w].msg].status = "Sending"

\* The inductive invariant.
IInv == LeaseUnique /\ ClaimIsSending

----------------------------------------------------------------------------
LEMMA LinkType ==
  /\ NoLink \in Link /\ Handshake \in Link
  /\ \A e \in Nat : NewLink(e) \in Link
  /\ \A l \in Link : [l EXCEPT !.sent = @ + 1] \in Link
<1>1. NoLink \in Link
  BY DEF NoLink, Link
<1>2. Handshake \in Link
  BY <1>1, Zenon DEF Handshake, Link
<1>3. \A e \in Nat : NewLink(e) \in Link
  BY <1>1 DEF NewLink, Link
<1>4. \A l \in Link : [l EXCEPT !.sent = @ + 1] \in Link
  BY DEF Link
<1> QED
  BY <1>1, <1>2, <1>3, <1>4

----------------------------------------------------------------------------
(***************************************************************************)
(* A transaction under the lease stores what it is given or nothing; the   *)
(* messages the workers claimed stay in the queue.                         *)
(***************************************************************************)
LEMMA CommitType ==
  ASSUME TypeOK, NEW w \in Worker, NEW q \in Seq(Message), NEW l \in Link, NEW n \in Step,
         Commit(w, q, l, n), DOMAIN queue \subseteq DOMAIN q,
         \A v \in Worker : v # w => job'[v] = job[v],
         n \in Claimed => job'[w].msg \in DOMAIN q
  PROVE  /\ queue' \in Seq(Message) /\ link' \in Link /\ pc' \in [Worker -> Step]
         /\ \A v \in Worker : pc'[v] \in Claimed => job'[v].msg \in DOMAIN queue'
<1>0. "release" \in Step /\ "release" \notin Claimed
  BY DEF Step, Claimed
<1>1. CASE HoldsLease(w)
  <2>1. queue' = q /\ link' = l /\ pc' = [pc EXCEPT ![w] = n]
    BY <1>1 DEF Commit, Goto
  <2> QED
    BY <2>1 DEF TypeOK, Claimed
<1>2. CASE ~HoldsLease(w)
  <2>1. queue' = queue /\ link' = link /\ pc' = [pc EXCEPT ![w] = "release"]
    BY <1>2 DEF Commit, Goto
  <2> QED
    BY <1>0, <2>1 DEF TypeOK, Claimed
<1> QED
  BY <1>1, <1>2

LEMMA GotoType ==
  ASSUME TypeOK, NEW w \in Worker, NEW n \in Step, Goto(w, n), UNCHANGED queue,
         \A v \in Worker : v # w => job'[v] = job[v],
         n \in Claimed => job'[w].msg \in DOMAIN queue
  PROVE  /\ queue' \in Seq(Message) /\ pc' \in [Worker -> Step]
         /\ \A v \in Worker : pc'[v] \in Claimed => job'[v].msg \in DOMAIN queue'
BY DEF TypeOK, Goto, Claimed

(***************************************************************************)
(* Every step of a worker keeps the types.                                 *)
(***************************************************************************)
LEMMA WorkerType ==
  ASSUME TypeOK, NEW w \in Worker, WorkerStep(w)
  PROVE  TypeOK'
<1> USE DEF netVars, storeVars
<1>0. /\ LeaseTypeOK /\ queue \in Seq(Message) /\ link \in Link
      /\ job[w] \in [msg : Nat, at : Nat, link : Link]
  BY DEF TypeOK
<1>a. StaleBefore \in Int /\ RetryAfter \in Int
  BY <1>0, QueueConstants DEF StaleBefore, RetryAfter, LeaseTypeOK
<1>b. ASSUME LeaseTypeOK', UNCHANGED <<epochs, netVars>>,
             queue' \in Seq(Message), link' \in Link, pc' \in [Worker -> Step],
             \A v \in Worker : pc'[v] \in Claimed => job'[v].msg \in DOMAIN queue',
             job' \in [Worker -> [msg : Nat, at : Nat, link : Link]]
      PROVE  TypeOK'
  BY <1>b DEF TypeOK, Claimed
<1>c. UNCHANGED leaseVars => LeaseTypeOK'
  BY <1>0, LeaseStepType
<1>d. UNCHANGED job => job' \in [Worker -> [msg : Nat, at : Nat, link : Link]]
  BY DEF TypeOK
<1>1. CASE Claim(w)
  <2>1. FirstUnderLease(w) \in Step \ Claimed
    BY <1>1 DEF Claim, FirstUnderLease, FirstStep, Step, Claimed
  <2>2. LeaseTypeOK'
    BY <1>0, <1>1, LeaseStepType DEF Claim
  <2> QED
    BY <1>0, <1>1, <1>b, <1>d, <2>1, <2>2, GotoType DEF Claim
<1>2. CASE ClaimRefused(w) \/ RestoreFails(w) \/ RelinkFails(w)
  <2>1. PICK n \in Step \ Claimed : Goto(w, n)
    BY <1>2 DEF ClaimRefused, RestoreFails, RelinkFails, Step, Claimed
  <2> QED
    BY <1>0, <1>2, <1>b, <1>c, <1>d, <2>1, GotoType DEF ClaimRefused, RestoreFails, RelinkFails
<1>3. CASE Release(w)
  <2>1. LeaseTypeOK'
    BY <1>0, <1>3, LeaseStepType DEF Release
  <2>2. /\ \A v \in Worker : v # w => job'[v] = job[v]
        /\ job' \in [Worker -> [msg : Nat, at : Nat, link : Link]]
    BY <1>3, LinkType DEF Release, TypeOK, NoJob
  <2>3. "idle" \in Step \ Claimed
    BY DEF Step, Claimed
  <2> QED
    BY <1>0, <1>3, <1>b, <2>1, <2>2, <2>3, GotoType DEF Release
<1>4. ASSUME NEW x \in Expiry, InsertList(w, x) PROVE TypeOK'
  <2>1. /\ Append(queue, NewMessage("list", x)) \in Seq(Message)
        /\ DOMAIN queue \subseteq DOMAIN Append(queue, NewMessage("list", x))
    BY <1>0, AppendedQueue, QueueConstants
  <2>2. "release" \in Step \ Claimed
    BY DEF Step, Claimed
  <2>3. CASE link = NoLink
    BY <1>0, <1>4, <1>b, <1>c, <1>d, <2>2, <2>3, GotoType DEF InsertList
  <2>4. CASE link # NoLink
    BY <1>0, <1>4, <1>b, <1>c, <1>d, <2>1, <2>2, <2>4, CommitType, Zenon DEF InsertList
  <2> QED
    BY <2>3, <2>4
<1>5. CASE Restore(w)
  <2>1. /\ \A v \in Worker : v # w => job'[v] = job[v]
        /\ job' \in [Worker -> [msg : Nat, at : Nat, link : Link]]
    BY <1>0, <1>5, Zenon DEF Restore, TypeOK
  <2>2. PICK n \in Step \ Claimed : Goto(w, n)
    BY <1>5 DEF Restore, Step, Claimed
  <2> QED
    BY <1>0, <1>5, <1>b, <1>c, <2>1, <2>2, GotoType DEF Restore
<1>6. CASE Mark(w) \/ SaveHandshake(w)
  <2>1. PICK l \in Link, n \in Step \ Claimed : Commit(w, queue, l, n)
    BY <1>6, LinkType DEF Mark, SaveHandshake, Step, Claimed
  <2> QED
    BY <1>0, <1>6, <1>b, <1>c, <1>d, <2>1, CommitType DEF Mark, SaveHandshake
<1>7. CASE ClaimNext(w)
  <2> DEFINE q == Supersede(queue, StaleBefore, RetryAfter)
             i == NextMessage(queue, StaleBefore, RetryAfter)
             r == [q EXCEPT ![i].status = "Sending", ![i].attempt = now]
  <2>1. q \in Seq(Message) /\ DOMAIN q = DOMAIN queue
    BY <1>0, <1>a, SupersedeType, Zenon
  <2>2. "ready" \in Step /\ "release" \in Step \ Claimed
    BY DEF Step, Claimed
  <2>3. CASE i # 0
    <3>1. i \in DOMAIN queue /\ i \in Nat /\ now \in Nat
      BY <1>0, <1>a, <2>3, NextIsOpen, QueueShape DEF LeaseTypeOK
    <3>2. r \in Seq(Message) /\ DOMAIN r = DOMAIN queue
      BY <2>1, <3>1, ClaimedQueue, Zenon
    <3>3. /\ Commit(w, r, link, "ready")
          /\ job' = [job EXCEPT ![w].msg = i, ![w].at = now]
          /\ UNCHANGED <<leaseVars, epochs, netVars>>
      BY <1>7, <2>3 DEF ClaimNext
    <3> HIDE DEF q, i, r
    <3>4. /\ \A v \in Worker : v # w => job'[v] = job[v]
          /\ job'[w].msg = i
          /\ job' \in [Worker -> [msg : Nat, at : Nat, link : Link]]
      BY <3>1, <3>3, Zenon DEF TypeOK
    <3> QED
      BY <1>0, <1>b, <1>c, <2>2, <3>1, <3>2, <3>3, <3>4, CommitType
  <2>4. CASE i = 0
    <3>1. Commit(w, q, link, "release") /\ UNCHANGED <<job, leaseVars, epochs, netVars>>
      BY <1>7, <2>4 DEF ClaimNext
    <3> HIDE DEF q
    <3> QED
      BY <1>0, <1>b, <1>c, <1>d, <2>1, <2>2, <3>1, CommitType
  <2> QED
    BY <2>3, <2>4
<1>8. CASE Ready(w) \/ RecordFailed(w) \/ RecordBroken(w)
  <2>1. job[w].msg \in DOMAIN queue
    BY <1>8 DEF Ready, RecordFailed, RecordBroken, TypeOK
  <2>2. UNCHANGED <<leaseVars, epochs, netVars, job>>
    BY <1>8 DEF Ready, RecordFailed, RecordBroken
  <2>3. CASE Ready(w) /\ Goto(w, "put") /\ UNCHANGED <<queue, link>>
    <3>1. "put" \in Step
      BY DEF Step
    <3> QED
      BY <1>0, <1>b, <1>c, <1>d, <2>1, <2>2, <2>3, <3>1, GotoType
  <2>4. CASE \E t \in {"Invalid", "Failed", "RecoveryRequired"}, l \in Link, n \in Step \ Claimed :
               Commit(w, [queue EXCEPT ![job[w].msg].status = t], l, n)
    <3>1. PICK t \in {"Invalid", "Failed", "RecoveryRequired"}, l \in Link, n \in Step \ Claimed :
            Commit(w, [queue EXCEPT ![job[w].msg].status = t], l, n)
      BY <2>4, Zenon
    <3>2. /\ [queue EXCEPT ![job[w].msg].status = t] \in Seq(Message)
          /\ DOMAIN [queue EXCEPT ![job[w].msg].status = t] = DOMAIN queue
      BY <1>0, <2>1, StatusChange, Zenon DEF Status
    <3> DEFINE q == [queue EXCEPT ![job[w].msg].status = t]
    <3> HIDE DEF q
    <3>3. q \in Seq(Message) /\ DOMAIN q = DOMAIN queue /\ Commit(w, q, l, n)
      BY <3>1, <3>2 DEF q
    <3> QED
      BY <1>b, <1>c, <1>d, <2>2, <3>3, CommitType
  <2>5. {"next", "release"} \subseteq Step \ Claimed
    BY DEF Step, Claimed
  <2> QED
    BY <1>0, <1>8, <2>3, <2>4, <2>5, LinkType, Zenon DEF Ready, RecordFailed, RecordBroken
<1>9. CASE RecordSent(w)
  <2> DEFINE l == [job[w].link EXCEPT !.sent = @ + 1]
             q == [queue EXCEPT ![job[w].msg].status = "Sent"]
  <2>1. l \in Link
    BY <1>0, LinkType
  <2>2. q \in Seq(Message) /\ DOMAIN q = DOMAIN queue
    <3>1. job[w].msg \in DOMAIN queue
      BY <1>9 DEF RecordSent, TypeOK
    <3> QED
      BY <1>0, <3>1, StatusChange, Zenon DEF Status
  <2>3. /\ Commit(w, q, l, "next") /\ job' = [job EXCEPT ![w].link = l]
        /\ UNCHANGED <<leaseVars, epochs, netVars>>
    BY <1>9 DEF RecordSent
  <2>4. "next" \in Step \ Claimed
    BY DEF Step, Claimed
  <2> HIDE DEF l, q
  <2>5. /\ \A v \in Worker : v # w => job'[v] = job[v]
        /\ job' \in [Worker -> [msg : Nat, at : Nat, link : Link]]
    BY <2>1, <2>3, Zenon DEF TypeOK
  <2> QED
    BY <1>b, <1>c, <2>1, <2>2, <2>3, <2>4, <2>5, CommitType
<1>10. CASE SendOk(w) \/ SendFails(w, "failed") \/ SendFails(w, "broken")
  <2>1. PICK n \in {"sent", "failed", "broken"} : Goto(w, n)
    BY <1>10 DEF SendOk, SendFails
  <2>2. n \in Step /\ job[w].msg \in DOMAIN queue
    BY <1>10 DEF SendOk, SendFails, Step, TypeOK
  <2>3. /\ queue' \in Seq(Message) /\ pc' \in [Worker -> Step]
        /\ \A v \in Worker : pc'[v] \in Claimed => job'[v].msg \in DOMAIN queue'
    BY <1>10, <2>1, <2>2, GotoType DEF SendOk, SendFails
  <2>4. job[w].link.epoch \in Nat /\ job[w].msg \in Nat
    BY <1>0 DEF Link
  <2>5. PutSlot(w) => /\ outbox' \in [Slot -> [epoch : Nat, msg : Nat]]
                      /\ written' \subseteq [epoch : Nat, slot : Slot, msg : Nat]
    BY <2>4 DEF PutSlot, TypeOK
  <2>6. /\ outbox' \in [Slot -> [epoch : Nat, msg : Nat]]
        /\ written' \subseteq [epoch : Nat, slot : Slot, msg : Nat]
    BY <1>10, <2>5 DEF SendOk, SendFails, TypeOK
  <2>7. UNCHANGED <<leaseVars, link, epochs, delivered, reader, job>>
    BY <1>10 DEF SendOk, SendFails
  <2> QED
    BY <1>c, <1>d, <2>3, <2>6, <2>7 DEF TypeOK, Claimed
<1>11. CASE ClearOutbox(w)
  <2>1. "saveHandshake" \in Step \ Claimed
    BY DEF Step, Claimed
  <2>2. /\ queue' \in Seq(Message) /\ pc' \in [Worker -> Step]
        /\ \A v \in Worker : pc'[v] \in Claimed => job'[v].msg \in DOMAIN queue'
    BY <1>11, <2>1, GotoType DEF ClearOutbox
  <2>3. outbox' \in [Slot -> [epoch : Nat, msg : Nat]]
    BY <1>11 DEF ClearOutbox, Empty
  <2> QED
    BY <1>11, <1>c, <1>d, <2>2, <2>3 DEF ClearOutbox, TypeOK, Claimed
<1>12. CASE SaveLink(w)
  <2>1. "release" \in Step \ Claimed
    BY DEF Step, Claimed
  <2>2. epochs + 1 \in Nat
    BY DEF TypeOK
  <2>3. NewLink(epochs + 1) \in Link
    BY <2>2, LinkType
  <2>4. Commit(w, queue, NewLink(epochs + 1), "release")
        /\ UNCHANGED <<leaseVars, outbox, delivered, written, job>>
    BY <1>12 DEF SaveLink
  <2>5. /\ queue' \in Seq(Message) /\ link' \in Link /\ pc' \in [Worker -> Step]
        /\ \A v \in Worker : pc'[v] \in Claimed => job'[v].msg \in DOMAIN queue'
    BY <1>0, <2>1, <2>3, <2>4, CommitType
  <2>6. epochs' \in Nat /\ reader' \in Nat
    BY <1>12, <2>2 DEF SaveLink, TypeOK
  <2> QED
    BY <1>c, <1>d, <2>4, <2>5, <2>6 DEF TypeOK, Claimed
<1> QED
  BY <1>1, <1>2, <1>3, <1>4, <1>5, <1>6, <1>7, <1>8, <1>9, <1>10, <1>11, <1>12 DEF WorkerStep

LEMMA InitType == Init => TypeOK
<1> SUFFICES ASSUME Init PROVE TypeOK
  OBVIOUS
<1>1. LeaseTypeOK
  BY DEF Init, LeaseInit, LeaseTypeOK, NoLease
<1>2. queue \in Seq(Message) /\ delivered \in Seq(Nat)
  BY EmptySeq DEF Init
<1>3. link \in Link /\ epochs \in Nat /\ reader \in Nat
  BY LinkType DEF Init
<1>4. outbox \in [Slot -> [epoch : Nat, msg : Nat]] /\ written = {}
  BY DEF Init, Empty
<1>5. /\ pc \in [Worker -> Step]
      /\ job \in [Worker -> [msg : Nat, at : Nat, link : Link]]
      /\ \A w \in Worker : pc[w] = "idle"
  BY LinkType DEF Init, Step, NoJob
<1> QED
  BY <1>1, <1>2, <1>3, <1>4, <1>5 DEF TypeOK

(***************************************************************************)
(* Every step keeps the types.                                             *)
(***************************************************************************)
LEMMA NextType == TypeOK /\ [Next]_vars => TypeOK'
<1> SUFFICES ASSUME TypeOK, [Next]_vars PROVE TypeOK'
  OBVIOUS
<1> USE DEF netVars, storeVars
<1>0. LeaseTypeOK /\ queue \in Seq(Message)
  BY DEF TypeOK
<1>1. ASSUME NEW w \in Worker, NEW o \in DOMAIN FirstStep, Begin(w, o) PROVE TypeOK'
  <2>1. o \in Step \ Claimed
    BY DEF FirstStep, Step, Claimed
  <2>2. /\ queue' \in Seq(Message) /\ pc' \in [Worker -> Step]
        /\ \A v \in Worker : pc'[v] \in Claimed => job'[v].msg \in DOMAIN queue'
    BY <1>1, <2>1, GotoType DEF Begin
  <2>3. LeaseTypeOK'
    BY <1>0, <1>1, LeaseStepType DEF Begin
  <2> QED
    BY <1>1, <2>2, <2>3 DEF Begin, TypeOK, Claimed
<1>2. ASSUME NEW w \in Worker, Crash(w) PROVE TypeOK'
  <2>1. LeaseTypeOK'
    BY <1>0, <1>2, LeaseStepType DEF Crash
  <2>2. /\ \A v \in Worker : v # w => job'[v] = job[v]
        /\ job' \in [Worker -> [msg : Nat, at : Nat, link : Link]]
    BY <1>2, LinkType DEF Crash, TypeOK, NoJob
  <2>3. "idle" \in Step \ Claimed
    BY DEF Step, Claimed
  <2>4. /\ queue' \in Seq(Message) /\ pc' \in [Worker -> Step]
        /\ \A v \in Worker : pc'[v] \in Claimed => job'[v].msg \in DOMAIN queue'
    BY <1>2, <2>2, <2>3, GotoType DEF Crash
  <2> QED
    BY <1>2, <2>1, <2>2, <2>4 DEF Crash, TypeOK, Claimed
<1>3. CASE EnqueueEvent
  <2>1. queue' \in Seq(Message) /\ DOMAIN queue \subseteq DOMAIN queue'
    BY <1>0, <1>3, AppendedQueue, Zenon DEF EnqueueEvent
  <2>2. LeaseTypeOK'
    BY <1>0, <1>3 DEF EnqueueEvent, LeaseTypeOK, leaseVars
  <2> QED
    BY <1>3, <2>1, <2>2 DEF EnqueueEvent, TypeOK
<1>4. CASE Deliver
  <2>1. outbox[reader].msg \in Nat /\ reader' \in Nat
    BY <1>4 DEF Deliver, TypeOK
  <2>2. delivered' \in Seq(Nat)
    BY <1>4, <2>1 DEF Deliver, TypeOK
  <2>3. LeaseTypeOK'
    BY <1>0, <1>4 DEF Deliver, LeaseTypeOK, leaseVars
  <2> QED
    BY <1>4, <2>1, <2>2, <2>3 DEF Deliver, TypeOK
<1>5. CASE Tick
  <2>1. LeaseTypeOK'
    BY <1>0, <1>5 DEF Tick, AdvanceClock, LeaseTypeOK
  <2> QED
    BY <1>5, <2>1 DEF Tick, TypeOK
<1>6. CASE UNCHANGED vars
  BY <1>6 DEF vars, leaseVars, TypeOK, LeaseTypeOK
<1> QED
  BY <1>1, <1>2, <1>3, <1>4, <1>5, <1>6, WorkerType DEF Next, Quiet

(***************************************************************************)
(* Type correctness: the queue stays a queue of well-formed records, and   *)
(* the message a worker of process_outbound_private_messages has claimed   *)
(* is always in it.                                                        *)
(***************************************************************************)
THEOREM TypeCorrect == Spec => []TypeOK
BY InitType, NextType, PTL DEF Spec

(***************************************************************************)
(* pending_outbound_private_counterparties never names a receiver with     *)
(* nothing to send and never leaves out one with something to send,        *)
(* although it skips outdated lists where the claim supersedes them.       *)
(***************************************************************************)
THEOREM PendingAgrees == Spec => []PendingIsClaimable
<1>1. TypeOK => PendingIsClaimable
  <2> SUFFICES ASSUME TypeOK PROVE PendingIsClaimable
    OBVIOUS
  <2>1. queue \in Seq(Message) /\ StaleBefore \in Int /\ RetryAfter \in Int
    BY QueueConstants DEF TypeOK, LeaseTypeOK, StaleBefore, RetryAfter
  <2> QED
    BY <2>1, ScanAgreesWithClaim DEF PendingIsClaimable
<1> QED
  BY <1>1, TypeCorrect, PTL

----------------------------------------------------------------------------
(***************************************************************************)
(* A step that stores no new status keeps the invariant, when a holder     *)
(* that comes to a step with a claim had one.                              *)
(***************************************************************************)
LEMMA ReadKeepsIInv ==
  ASSUME TypeOK, IInv, NEW w \in Worker, NEW n \in Step, Goto(w, n), UNCHANGED leaseVars,
         \A i \in DOMAIN queue : queue'[i] = queue[i],
         \A v \in Worker : v # w => job'[v] = job[v],
         n \in Claimed => pc[w] \in Claimed /\ job'[w] = job[w]
  PROVE  IInv'
<1>1. LeaseUnique'
  BY DEF IInv, LeaseUnique, leaseVars
<1>2. ASSUME NEW v \in Worker, HoldsLease(v)', pc'[v] \in Claimed
      PROVE  queue'[job'[v].msg].status = "Sending"
  <2>1. HoldsLease(v)
    BY <1>2 DEF HoldsLease, leaseVars
  <2>2. pc[v] \in Claimed /\ job'[v] = job[v]
    BY <1>2 DEF Goto, TypeOK
  <2>3. job[v].msg \in DOMAIN queue
    BY <2>2 DEF TypeOK, Claimed
  <2> QED
    BY <2>1, <2>2, <2>3 DEF IInv, ClaimIsSending
<1> QED
  BY <1>1, <1>2 DEF IInv, ClaimIsSending

(***************************************************************************)
(* A transaction under the lease keeps the invariant when it leaves the    *)
(* holder with a message that is being sent, or with none: nobody else     *)
(* passes the lease check, so nobody else's claim matters.                 *)
(***************************************************************************)
LEMMA CommitKeepsIInv ==
  ASSUME TypeOK, IInv, NEW w \in Worker, NEW q, NEW l, NEW n \in Step,
         Commit(w, q, l, n), UNCHANGED leaseVars,
         \A v \in Worker : v # w => job'[v] = job[v],
         n \in Claimed => q[job'[w].msg].status = "Sending"
  PROVE  IInv'
<1>1. CASE HoldsLease(w)
  <2>1. LeaseUnique'
    BY DEF IInv, LeaseUnique, leaseVars
  <2>2. queue' = q /\ Goto(w, n)
    BY <1>1 DEF Commit
  <2>3. ASSUME NEW v \in Worker, HoldsLease(v)', pc'[v] \in Claimed
        PROVE  queue'[job'[v].msg].status = "Sending"
    <3>1. HoldsLease(v)
      BY <2>3 DEF HoldsLease, leaseVars
    <3>2. v = w
      BY <1>1, <3>1, LoneHolder DEF IInv
    <3> QED
      BY <2>2, <2>3, <3>2 DEF Goto, TypeOK
  <2> QED
    BY <2>1, <2>3 DEF IInv, ClaimIsSending
<1>2. CASE ~HoldsLease(w)
  <2>1. Goto(w, "release") /\ UNCHANGED queue /\ "release" \in Step \ Claimed
    BY <1>2 DEF Commit, Step, Claimed
  <2> QED
    BY <2>1, ReadKeepsIInv
<1> QED
  BY <1>1, <1>2

(***************************************************************************)
(* Every step of a worker keeps the invariant.                             *)
(***************************************************************************)
LEMMA WorkerIInv ==
  ASSUME TypeOK, IInv, NEW w \in Worker, WorkerStep(w)
  PROVE  IInv'
<1> USE DEF netVars, storeVars
<1>0. LeaseTypeOK /\ LeaseUnique /\ queue \in Seq(Message)
  BY DEF TypeOK, IInv
<1>a. Step \ Claimed \subseteq Step /\ Claimed \subseteq Step
  BY DEF Step, Claimed
<1>b. /\ {"idle", "release", "mark", "next", "saveHandshake", "saveLink"} \subseteq Step \ Claimed
      /\ {"put", "sent", "failed", "broken", "ready"} \subseteq Claimed
  BY DEF Step, Claimed
<1>1. CASE Claim(w)
  <2>1. LeaseUnique'
    BY <1>0, <1>1, LeaseStepUnique DEF Claim
  <2>2. FirstUnderLease(w) \notin Claimed
    BY <1>1 DEF Claim, FirstUnderLease, FirstStep, Claimed
  <2>3. pc'[w] \notin Claimed
    BY <1>1, <2>2 DEF Claim, Goto, TypeOK
  <2>4. \A v \in Worker : HoldsLease(v)' => v = w
    BY <1>0, <1>1, ClaimerIsAlone DEF Claim
  <2> QED
    BY <2>1, <2>3, <2>4 DEF IInv, ClaimIsSending
<1>2. CASE Release(w)
  <2>1. LeaseUnique'
    BY <1>0, <1>2, LeaseStepUnique DEF Release
  <2>2. \A v \in Worker : HoldsLease(v)' =>
          HoldsLease(v) /\ pc'[v] = pc[v] /\ job'[v] = job[v]
    BY <1>0, <1>2, LeavingMakesNoHolder DEF Release, Goto, TypeOK
  <2> QED
    BY <1>2, <2>1, <2>2 DEF Release, IInv, ClaimIsSending
<1>3. CASE \/ ClaimRefused(w) \/ Restore(w) \/ RestoreFails(w) \/ RelinkFails(w)
           \/ ClearOutbox(w)
  <2>1. /\ \E n \in Step \ Claimed : Goto(w, n)
        /\ UNCHANGED <<leaseVars, queue>>
        /\ \A v \in Worker : v # w => job'[v] = job[v]
    BY <1>3, <1>b DEF ClaimRefused, Restore, RestoreFails, RelinkFails, ClearOutbox, TypeOK
  <2> QED
    BY <1>a, <2>1, ReadKeepsIInv
<1>4. CASE SendOk(w) \/ SendFails(w, "failed") \/ SendFails(w, "broken")
  <2>1. /\ \E n \in Claimed : Goto(w, n)
        /\ UNCHANGED <<leaseVars, queue, job>>
        /\ pc[w] \in Claimed
    BY <1>4, <1>b DEF SendOk, SendFails
  <2> QED
    BY <1>a, <2>1, ReadKeepsIInv
<1>5. ASSUME NEW x \in Expiry, InsertList(w, x) PROVE IInv'
  BY <1>5, <1>b, CommitKeepsIInv, ReadKeepsIInv DEF InsertList
<1>6. CASE Mark(w) \/ SaveHandshake(w) \/ SaveLink(w) \/ RecordFailed(w) \/ RecordBroken(w)
  <2>1. /\ \E q, l : \E n \in Step \ Claimed : Commit(w, q, l, n)
        /\ UNCHANGED <<leaseVars, job>>
    BY <1>6, <1>b DEF Mark, SaveHandshake, SaveLink, RecordFailed, RecordBroken
  <2> QED
    BY <1>a, <2>1, CommitKeepsIInv
<1>7. CASE RecordSent(w)
  <2>1. /\ \E q, l : Commit(w, q, l, "next")
        /\ UNCHANGED leaseVars
        /\ \A v \in Worker : v # w => job'[v] = job[v]
    BY <1>7 DEF RecordSent, TypeOK
  <2> QED
    BY <1>b, <2>1, CommitKeepsIInv
<1>8. CASE Ready(w)
  <2>1. UNCHANGED <<leaseVars, job>> /\ pc[w] \in Claimed
    BY <1>8, <1>b DEF Ready
  <2>2. \/ \E q, l : Commit(w, q, l, "next")
        \/ Goto(w, "put") /\ UNCHANGED queue
    BY <1>8 DEF Ready
  <2> QED
    BY <1>a, <1>b, <2>1, <2>2, CommitKeepsIInv, ReadKeepsIInv
<1>9. CASE ClaimNext(w)
  <2> DEFINE q == Supersede(queue, StaleBefore, RetryAfter)
             i == NextMessage(queue, StaleBefore, RetryAfter)
             r == [q EXCEPT ![i].status = "Sending", ![i].attempt = now]
  <2>1. StaleBefore \in Int /\ RetryAfter \in Int /\ now \in Nat
    BY <1>0, QueueConstants DEF StaleBefore, RetryAfter, LeaseTypeOK
  <2>2. q \in Seq(Message) /\ DOMAIN q = DOMAIN queue
    BY <1>0, <2>1, SupersedeType
  <2>3. CASE i # 0
    <3>1. i \in DOMAIN queue
      BY <1>0, <2>1, <2>2, <2>3, NextIsOpen
    <3>2. r[i].status = "Sending" /\ \A j \in DOMAIN queue : j # i => r[j] = q[j]
      BY <2>1, <2>2, <3>1, ClaimedQueue, Zenon
    <3>3. /\ Commit(w, r, link, "ready") /\ UNCHANGED leaseVars
          /\ job' = [job EXCEPT ![w].msg = i, ![w].at = now]
      BY <1>9, <2>3 DEF ClaimNext
    <3> HIDE DEF q, i, r
    <3>4. job'[w].msg = i /\ \A v \in Worker : v # w => job'[v] = job[v]
      BY <3>3 DEF TypeOK
    <3> QED
      BY <1>a, <1>b, <3>2, <3>3, <3>4, CommitKeepsIInv, Zenon
  <2>4. CASE i = 0
    <3>1. Commit(w, q, link, "release") /\ UNCHANGED <<leaseVars, job>>
      BY <1>9, <2>4 DEF ClaimNext
    <3> QED
      BY <1>b, <3>1, CommitKeepsIInv
  <2> QED
    BY <2>3, <2>4
<1> QED
  BY <1>1, <1>2, <1>3, <1>4, <1>5, <1>6, <1>7, <1>8, <1>9 DEF WorkerStep

(***************************************************************************)
(* The invariant holds initially and every step keeps it.                  *)
(***************************************************************************)
LEMMA InitIInv == Init => IInv
BY DEF Init, LeaseInit, NoLease, IInv, LeaseUnique, ClaimIsSending, HoldsLease

LEMMA NextIInv == TypeOK /\ IInv /\ [Next]_vars => IInv'
<1> SUFFICES ASSUME TypeOK, IInv, [Next]_vars PROVE IInv'
  OBVIOUS
<1> USE DEF netVars, storeVars
<1>0. LeaseTypeOK /\ LeaseUnique /\ queue \in Seq(Message)
  BY DEF TypeOK, IInv
<1>1. ASSUME NEW w \in Worker, NEW o \in DOMAIN FirstStep, Begin(w, o) PROVE IInv'
  <2>1. o \in Step /\ o \notin Claimed
    BY DEF FirstStep, Step, Claimed
  <2> QED
    BY <1>1, <2>1, ReadKeepsIInv DEF Begin
<1>2. ASSUME NEW w \in Worker, Crash(w) PROVE IInv'
  <2>1. LeaseUnique'
    BY <1>0, <1>2, LeaseStepUnique DEF Crash
  <2>2. \A v \in Worker : HoldsLease(v)' =>
          HoldsLease(v) /\ pc'[v] = pc[v] /\ job'[v] = job[v]
    BY <1>0, <1>2, LeavingMakesNoHolder DEF Crash, Goto, TypeOK
  <2> QED
    BY <1>2, <2>1, <2>2 DEF Crash, IInv, ClaimIsSending
<1>3. CASE EnqueueEvent
  <2>1. \A i \in DOMAIN queue : queue'[i] = queue[i]
    BY <1>0, <1>3, AppendedQueue DEF EnqueueEvent
  <2>2. LeaseUnique' /\ \A v \in Worker : HoldsLease(v)' <=> HoldsLease(v)
    BY <1>0, <1>3 DEF EnqueueEvent, leaseVars, LeaseUnique, HoldsLease
  <2> QED
    BY <1>3, <2>1, <2>2 DEF EnqueueEvent, IInv, ClaimIsSending, TypeOK, Claimed
<1>4. CASE Deliver \/ Tick \/ UNCHANGED vars
  <2>1. UNCHANGED <<lease, leaseSeq, held, queue, pc, job>>
    BY <1>4 DEF Deliver, Tick, AdvanceClock, vars, leaseVars
  <2> QED
    BY <2>1 DEF IInv, LeaseUnique, ClaimIsSending, HoldsLease
<1> QED
  BY <1>1, <1>2, <1>3, <1>4, WorkerIInv DEF Next, Quiet

LEMMA Invariance == Spec => [](TypeOK /\ IInv)
BY TypeCorrect, InitIInv, NextIInv, PTL DEF Spec

(***************************************************************************)
(* The queues a transaction of a worker may store: none gives a settled    *)
(* message another status, none supersedes a send under way.               *)
(***************************************************************************)
LEMMA WorkerSettles ==
  ASSUME TypeOK, IInv, NEW w \in Worker, WorkerStep(w)
  PROVE  Settling
<1> USE DEF netVars, storeVars
<1>0. queue \in Seq(Message) /\ LeaseTypeOK
  BY DEF TypeOK
<1>1. ASSUME \A i \in DOMAIN queue : queue'[i] = queue[i] PROVE Settling
  BY <1>1 DEF Settling, Terminal
<1>2. ASSUME NEW x \in Expiry, InsertList(w, x) PROVE Settling
  <2>1. \A i \in DOMAIN queue : Append(queue, NewMessage("list", x))[i] = queue[i]
    BY <1>0, AppendedQueue, QueueConstants
  <2> QED
    BY <1>1, <1>2, <2>1 DEF InsertList, Commit
<1>3. CASE ClaimNext(w)
  <2> DEFINE q == Supersede(queue, StaleBefore, RetryAfter)
             i == NextMessage(queue, StaleBefore, RetryAfter)
             r == [q EXCEPT ![i].status = "Sending", ![i].attempt = now]
  <2>1. StaleBefore \in Int /\ RetryAfter \in Int /\ now \in Nat
    BY <1>0, QueueConstants DEF StaleBefore, RetryAfter, LeaseTypeOK
  <2>2. /\ q \in Seq(Message) /\ DOMAIN q = DOMAIN queue
        /\ \A j \in DOMAIN queue : \/ q[j] = queue[j]
                                   \/ /\ queue[j].status \in {"Pending", "Failed"}
                                      /\ q[j].status = "Superseded"
    BY <1>0, <2>1, SupersedeType
  <2>3. CASE ~HoldsLease(w)
    BY <1>1, <1>3, <2>3 DEF ClaimNext, Commit
  <2>4. CASE HoldsLease(w) /\ i # 0
    <3>1. i \in DOMAIN queue /\ queue[i].status \notin Terminal
      BY <1>0, <2>1, <2>4, NextIsOpen, SMTT(20)
    <3>2. r[i].status = "Sending" /\ \A j \in DOMAIN queue : j # i => r[j] = q[j]
      BY <2>1, <2>2, <3>1, ClaimedQueue, Zenon
    <3>3. queue' = r
      BY <1>3, <2>4 DEF ClaimNext, Commit
    <3> HIDE DEF q, i, r
    <3> QED
      BY <2>2, <3>1, <3>2, <3>3 DEF Settling, Terminal
  <2>5. CASE HoldsLease(w) /\ i = 0
    <3>1. queue' = q
      BY <1>3, <2>5 DEF ClaimNext, Commit
    <3> HIDE DEF q
    <3> QED
      BY <2>2, <3>1 DEF Settling, Terminal
  <2> QED
    BY <2>3, <2>4, <2>5
<1>4. CASE Ready(w) \/ RecordSent(w) \/ RecordFailed(w) \/ RecordBroken(w)
  <2>1. pc[w] \in Claimed /\ job[w].msg \in DOMAIN queue
    BY <1>4 DEF Ready, RecordSent, RecordFailed, RecordBroken, Claimed, TypeOK
  <2>2. \/ UNCHANGED queue
        \/ /\ HoldsLease(w)
           /\ \E t \in Status \ {"Superseded"} : queue' = [queue EXCEPT ![job[w].msg].status = t]
    BY <1>4, Zenon DEF Ready, RecordSent, RecordFailed, RecordBroken, Commit, Status
  <2>3. ASSUME HoldsLease(w), NEW t \in Status \ {"Superseded"},
               queue' = [queue EXCEPT ![job[w].msg].status = t]
        PROVE  Settling
    <3>1. queue[job[w].msg].status = "Sending"
      BY <2>1, <2>3 DEF IInv, ClaimIsSending
    <3>2. /\ queue'[job[w].msg].status = t
          /\ \A j \in DOMAIN queue : j # job[w].msg => queue'[j] = queue[j]
      BY <1>0, <2>1, <2>3, StatusChange
    <3> QED
      BY <2>3, <3>1, <3>2 DEF Settling, Terminal
  <2> QED
    BY <1>1, <2>2, <2>3, Zenon
<1>5. CASE \/ Claim(w) \/ ClaimRefused(w) \/ Release(w) \/ Restore(w) \/ RestoreFails(w)
           \/ Mark(w) \/ SendOk(w) \/ SendFails(w, "failed") \/ SendFails(w, "broken")
           \/ ClearOutbox(w) \/ SaveHandshake(w) \/ SaveLink(w) \/ RelinkFails(w)
  <2>1. UNCHANGED queue
    BY <1>5 DEF Claim, ClaimRefused, Release, Restore, RestoreFails, Mark, SendOk, SendFails,
       ClearOutbox, SaveHandshake, SaveLink, RelinkFails, Commit
  <2> QED
    BY <1>1, <2>1
<1> QED
  BY <1>2, <1>3, <1>4, <1>5 DEF WorkerStep

(***************************************************************************)
(* A worker that learns of the outcome of its send late never overwrites   *)
(* the outcome another worker stored: record_private_send_success and      *)
(* record_private_send_error check the lease and not the status, and the   *)
(* holder's message is always the one being sent.                          *)
(***************************************************************************)
THEOREM SettledForGood == Spec => SettledStaysSettled
<1>1. TypeOK /\ IInv /\ [Next]_vars => [Settling]_vars
  <2> SUFFICES ASSUME TypeOK, IInv, Next PROVE Settling
    BY DEF Settling
  <2>1. ASSUME \A i \in DOMAIN queue : queue'[i] = queue[i] PROVE Settling
    BY <2>1 DEF Settling, Terminal
  <2>2. CASE EnqueueEvent
    BY <2>1, <2>2, AppendedQueue DEF EnqueueEvent, TypeOK
  <2>3. CASE Deliver \/ Tick \/ Quiet \/ \E w \in Worker : Crash(w) \/ \E o \in DOMAIN FirstStep : Begin(w, o)
    <3>1. UNCHANGED queue
      BY <2>3 DEF Deliver, Tick, Quiet, Crash, Begin, vars, storeVars
    <3> QED
      BY <2>1, <3>1
  <2> QED
    BY <2>2, <2>3, WorkerSettles DEF Next
<1> QED
  BY <1>1, Invariance, PTL DEF Spec, SettledStaysSettled

----------------------------------------------------------------------------
(* The links: what the lease holder knows of the stored snapshot.         *)

\* The steps of ensure_link_with_peer that follow the loss of a link.
Linking == {"clearOutbox", "saveHandshake", "saveLink"}

\* A holder that sends has the stored link, and one that links finds none.
LinkFits(w) ==
  HoldsLease(w) =>
    /\ pc[w] \in Claimed \cup {"next"} => job[w].link = link /\ link.epoch # 0
    /\ pc[w] \in Linking => link.epoch = 0

LinkInv ==
  /\ epochs \in 1 .. MaxEpoch /\ link.epoch \in {0, epochs}
  /\ \A w \in Worker : LinkFits(w)
  /\ MaxEpoch = 1 => \A w \in Worker : pc[w] = "clearOutbox" => link.epoch = 0

\* Steps that leave the stored link alone.
LEMMA LinkStays ==
  ASSUME TypeOK, LinkInv, NEW w \in Worker, NEW n, Goto(w, n), UNCHANGED <<link, epochs>>,
         \A v \in Worker : v # w => job'[v] = job[v] /\ (HoldsLease(v)' => HoldsLease(v)),
         LinkFits(w)', n = "clearOutbox" => link.epoch = 0
  PROVE  LinkInv'
<1>1. pc'[w] = n /\ \A v \in Worker : v # w => pc'[v] = pc[v]
  BY DEF TypeOK, Goto
<1>2. ASSUME NEW v \in Worker, v # w PROVE LinkFits(v)'
  BY <1>1, <1>2 DEF LinkInv, LinkFits
<1> QED
  BY <1>1, <1>2 DEF LinkInv

\* Transactions under the lease, which no other worker holds.
LEMMA LinkCommits ==
  ASSUME TypeOK, IInv, LinkInv, NEW w \in Worker, NEW q, NEW l, NEW n, Commit(w, q, l, n),
         UNCHANGED leaseVars, \A v \in Worker : v # w => job'[v] = job[v],
         n # "clearOutbox", ~HoldsLease(w) => epochs' = epochs,
         HoldsLease(w) => /\ LinkFits(w)' /\ epochs' \in 1 .. MaxEpoch /\ l.epoch \in {0, epochs'}
                          /\ MaxEpoch = 1 /\ link.epoch = 0 => l.epoch = 0
  PROVE  LinkInv'
<1>1. CASE ~HoldsLease(w)
  <2>1. Goto(w, "release") /\ UNCHANGED <<link, epochs>>
    BY <1>1 DEF Commit
  <2>2. \A v \in Worker : HoldsLease(v)' => HoldsLease(v)
    BY DEF HoldsLease, leaseVars
  <2>3. LinkFits(w)'
    BY <1>1, <2>2 DEF LinkFits
  <2> QED
    BY <2>1, <2>2, <2>3, LinkStays
<1>2. CASE HoldsLease(w)
  <2>1. link' = l /\ pc' = [pc EXCEPT ![w] = n]
    BY <1>2 DEF Commit, Goto
  <2>2. \A v \in Worker : HoldsLease(v)' => v = w
    BY <1>2, LoneHolder DEF IInv, HoldsLease, leaseVars
  <2>3. \A v \in Worker : LinkFits(v)'
    BY <1>2, <2>2 DEF LinkFits
  <2>4. pc'[w] = n /\ \A v \in Worker : v # w => pc'[v] = pc[v]
    BY <2>1 DEF TypeOK
  <2> QED
    BY <1>2, <2>1, <2>3, <2>4 DEF LinkInv
<1> QED
  BY <1>1, <1>2

\* Every step of a worker keeps it.
LEMMA WorkerLinks ==
  ASSUME TypeOK, IInv, LinkInv, NEW w \in Worker, WorkerStep(w)
  PROVE  LinkInv'
<1> USE DEF netVars, storeVars
<1>0. /\ pc \in [Worker -> Step] /\ job \in [Worker -> [msg : Nat, at : Nat, link : Link]]
      /\ LinkFits(w) /\ epochs \in 1 .. MaxEpoch /\ link.epoch \in {0, epochs} /\ link \in Link
      /\ MaxEpoch \in Nat
  BY QueueConstants DEF TypeOK, LinkInv
<1>1. UNCHANGED leaseVars => \A v \in Worker : HoldsLease(v)' <=> HoldsLease(v)
  BY DEF HoldsLease, leaseVars
<1>2. CASE Claim(w)
  <2>1. \A v \in Worker : v # w => ~HoldsLease(v)'
    BY <1>2, ClaimerIsAlone DEF Claim, TypeOK, IInv
  <2>2. /\ FirstUnderLease(w) \in Linking => link.epoch = 0
        /\ FirstUnderLease(w) \notin Claimed \cup {"next"}
    BY <1>2 DEF Claim, FirstUnderLease, FirstStep, HasLink, Linking, Claimed
  <2>3. /\ Goto(w, FirstUnderLease(w)) /\ UNCHANGED <<link, epochs, job>>
        /\ pc'[w] = FirstUnderLease(w)
    BY <1>0, <1>2 DEF Claim, Goto
  <2>4. LinkFits(w)'
    BY <2>2, <2>3 DEF LinkFits
  <2> QED
    BY <2>1, <2>2, <2>3, <2>4, LinkStays DEF Linking
<1>3. CASE Release(w)
  <2>1. \A v \in Worker : HoldsLease(v)' => v # w /\ HoldsLease(v)
    BY <1>3, LeavingMakesNoHolder DEF Release, TypeOK, IInv
  <2>2. LinkFits(w)' /\ \A v \in Worker : v # w => job'[v] = job[v]
    BY <1>0, <1>3, <2>1 DEF Release, LinkFits
  <2> QED
    BY <1>3, <2>1, <2>2, LinkStays DEF Release
<1>4. CASE ClaimRefused(w) \/ RestoreFails(w) \/ RelinkFails(w) \/ ClearOutbox(w) \/ Restore(w)
  <2>1. PICK n \in {"idle", "mark", "release", "saveHandshake", "next"} : Goto(w, n)
    BY <1>4 DEF ClaimRefused, RestoreFails, RelinkFails, ClearOutbox, Restore
  <2>2. pc'[w] = n /\ UNCHANGED <<leaseVars, link, epochs>> /\ \A v \in Worker : v # w => job'[v] = job[v]
    BY <1>0, <1>4, <2>1 DEF ClaimRefused, RestoreFails, RelinkFails, ClearOutbox, Restore, Goto
  <2>3. n = "next" => job'[w].link = link /\ link.epoch # 0
    BY <1>0, <1>4, <2>2
       DEF ClaimRefused, RestoreFails, RelinkFails, ClearOutbox, Restore, Goto, HasLink
  <2>4. n = "saveHandshake" => pc[w] = "clearOutbox"
    BY <1>0, <1>4, <2>2 DEF ClaimRefused, RestoreFails, RelinkFails, ClearOutbox, Restore, Goto
  <2>5. LinkFits(w)'
    BY <1>0, <1>1, <2>2, <2>3, <2>4 DEF LinkFits, Linking, Claimed
  <2> QED
    BY <1>1, <2>1, <2>2, <2>5, LinkStays
<1>5. CASE \/ SendOk(w) \/ SendFails(w, "failed") \/ SendFails(w, "broken")
           \/ Ready(w) /\ Goto(w, "put") /\ UNCHANGED <<queue, link>>
  <2>1. PICK n \in {"sent", "failed", "broken", "put"} : Goto(w, n)
    BY <1>5 DEF SendOk, SendFails
  <2>2. /\ pc'[w] = n /\ UNCHANGED <<leaseVars, link, epochs, job>> /\ pc[w] \in Claimed
        /\ n \in Claimed /\ n \notin Linking
    BY <1>0, <1>5, <2>1 DEF SendOk, SendFails, Ready, Goto, Claimed, Linking
  <2>3. LinkFits(w)'
    BY <1>0, <1>1, <2>2 DEF LinkFits
  <2> QED
    BY <1>1, <2>1, <2>2, <2>3, LinkStays
<1>6. ASSUME NEW q, NEW n \in {"ready", "next", "release"}, Commit(w, q, link, n),
             UNCHANGED <<leaseVars, epochs>>, \A v \in Worker : v # w => job'[v] = job[v],
             n # "release" => pc[w] \in Claimed \cup {"next"} /\ job'[w].link = job[w].link
      PROVE  LinkInv'
  <2>1. ASSUME HoldsLease(w) PROVE LinkFits(w)'
    <3>1. pc'[w] = n /\ link' = link
      BY <1>0, <1>6, <2>1 DEF Commit, Goto
    <3> QED
      BY <1>0, <1>6, <2>1, <3>1 DEF LinkFits, Linking, Claimed
  <2> QED
    BY <1>0, <1>6, <2>1, LinkCommits
<1>7. ASSUME NEW x \in Expiry, InsertList(w, x) PROVE LinkInv'
  <2>1. CASE link = NoLink
    <3>1. /\ Goto(w, "release") /\ UNCHANGED <<leaseVars, link, epochs, job>> /\ pc'[w] = "release"
      BY <1>0, <1>7, <2>1 DEF InsertList, Goto
    <3>2. LinkFits(w)'
      BY <3>1 DEF LinkFits, Claimed, Linking
    <3> QED
      BY <1>1, <3>1, <3>2, LinkStays
  <2>2. CASE link # NoLink
    BY <1>6, <1>7, <2>2 DEF InsertList
  <2> QED
    BY <2>1, <2>2
<1>8. CASE ClaimNext(w)
  <2>1. /\ \A v \in Worker : v # w => job'[v] = job[v]
        /\ job'[w].link = job[w].link
    BY <1>0, <1>8 DEF ClaimNext
  <2>2. \E q : \E n \in {"ready", "release"} : Commit(w, q, link, n)
    BY <1>8 DEF ClaimNext
  <2>3. pc[w] = "next" /\ UNCHANGED <<leaseVars, epochs>>
    BY <1>8 DEF ClaimNext
  <2> QED
    BY <1>6, <2>1, <2>2, <2>3
<1>9. CASE (Ready(w) /\ ~(Goto(w, "put") /\ UNCHANGED <<queue, link>>)) \/ RecordFailed(w)
  <2>1. \E q : \E n \in {"next", "release"} : Commit(w, q, link, n)
    BY <1>9 DEF Ready, RecordFailed
  <2>2. pc[w] \in Claimed /\ UNCHANGED <<leaseVars, epochs, job>>
    BY <1>9 DEF Ready, RecordFailed, Claimed
  <2> QED
    BY <1>6, <2>1, <2>2
<1>10. CASE Mark(w) \/ RecordBroken(w) \/ SaveHandshake(w)
  <2>0. \E q : \E l \in {NoLink, Handshake}, n \in {"release", "saveLink"} : Commit(w, q, l, n)
    BY <1>10 DEF Mark, RecordBroken, SaveHandshake
  <2>1. PICK q : \E l \in {NoLink, Handshake}, n \in {"release", "saveLink"} : Commit(w, q, l, n)
    BY <2>0
  <2>2. PICK l \in {NoLink, Handshake}, n \in {"release", "saveLink"} : Commit(w, q, l, n)
    BY <2>1
  <2>3. l.epoch = 0 /\ UNCHANGED <<leaseVars, epochs, job>>
    BY <1>10 DEF NoLink, Handshake, Mark, RecordBroken, SaveHandshake
  <2>4. ASSUME HoldsLease(w) PROVE LinkFits(w)'
    <3>1. link' = l /\ pc'[w] = n
      BY <1>0, <2>2, <2>4 DEF Commit, Goto
    <3> QED
      BY <2>2, <2>3, <3>1 DEF LinkFits, Claimed, Linking
  <2> QED
    BY <1>0, <2>2, <2>3, <2>4, LinkCommits
<1>11. CASE RecordSent(w)
  <2> DEFINE l == [job[w].link EXCEPT !.sent = @ + 1]
  <2>1. /\ pc[w] = "sent" /\ Commit(w, [queue EXCEPT ![job[w].msg].status = "Sent"], l, "next")
        /\ job' = [job EXCEPT ![w].link = l] /\ UNCHANGED <<leaseVars, epochs>>
    BY <1>11 DEF RecordSent
  <2>2. l.epoch = job[w].link.epoch
    BY <1>0 DEF Link
  <2> HIDE DEF l
  <2>3. job'[w].link = l /\ \A v \in Worker : v # w => job'[v] = job[v]
    BY <1>0, <2>1
  <2>4. HoldsLease(w) => l.epoch = link.epoch /\ link.epoch # 0
    BY <1>0, <2>1, <2>2 DEF LinkFits, Claimed
  <2>5. ASSUME HoldsLease(w) PROVE LinkFits(w)'
    <3>1. link' = l /\ pc'[w] = "next"
      BY <1>0, <2>1, <2>5 DEF Commit, Goto
    <3> QED
      BY <2>3, <2>4, <2>5, <3>1 DEF LinkFits, Linking
  <2> QED
    BY <1>0, <2>1, <2>3, <2>4, <2>5, LinkCommits
<1>12. CASE SaveLink(w)
  <2>1. /\ epochs < MaxEpoch /\ Commit(w, queue, NewLink(epochs + 1), "release")
        /\ epochs' = IF HoldsLease(w) THEN epochs + 1 ELSE epochs
        /\ UNCHANGED <<leaseVars, job>>
    BY <1>12 DEF SaveLink
  <2>2. NewLink(epochs + 1).epoch = epochs + 1
    BY DEF NewLink, NoLink
  <2>3. ASSUME HoldsLease(w) PROVE LinkFits(w)'
    <3>1. pc'[w] = "release"
      BY <1>0, <2>1, <2>3 DEF Commit, Goto
    <3> QED
      BY <3>1 DEF LinkFits, Claimed, Linking
  <2> QED
    BY <1>0, <2>1, <2>2, <2>3, LinkCommits
<1> QED
  BY <1>2, <1>3, <1>4, <1>5, <1>7, <1>8, <1>9, <1>10, <1>11, <1>12 DEF WorkerStep

LEMMA InitLinks == Init => LinkInv
<1> SUFFICES ASSUME Init PROVE LinkInv
  OBVIOUS
<1>1. epochs = 1 /\ link.epoch = 1 /\ \A w \in Worker : pc[w] = "idle"
  BY DEF Init, NewLink, NoLink
<1> QED
  BY <1>1, QueueConstants DEF LinkInv, LinkFits, Linking, Claimed

LEMMA NextLinks == TypeOK /\ IInv /\ LinkInv /\ [Next]_vars => LinkInv'
<1> SUFFICES ASSUME TypeOK, IInv, LinkInv, [Next]_vars PROVE LinkInv'
  OBVIOUS
<1> USE DEF netVars, storeVars
<1>1. ASSUME NEW w \in Worker, NEW o \in DOMAIN FirstStep, Begin(w, o) PROVE LinkInv'
  <2>1. o \notin Claimed \cup {"next"} \cup Linking /\ o # "clearOutbox"
    BY DEF FirstStep, Claimed, Linking
  <2>2. /\ pc'[w] = o /\ Goto(w, o) /\ UNCHANGED <<link, epochs, job>>
        /\ \A v \in Worker : HoldsLease(v)' => HoldsLease(v)
    BY <1>1 DEF Begin, Goto, TypeOK, HoldsLease, leaseVars
  <2>3. LinkFits(w)'
    BY <2>1, <2>2 DEF LinkFits
  <2> QED
    BY <2>1, <2>2, <2>3, LinkStays
<1>2. ASSUME NEW w \in Worker, Crash(w) PROVE LinkInv'
  <2>1. \A v \in Worker : HoldsLease(v)' => v # w /\ HoldsLease(v)
    BY <1>2, LeavingMakesNoHolder DEF Crash, TypeOK, IInv
  <2>2. LinkFits(w)' /\ \A v \in Worker : v # w => job'[v] = job[v]
    BY <1>2, <2>1 DEF Crash, LinkFits, TypeOK
  <2> QED
    BY <1>2, <2>1, <2>2, LinkStays DEF Crash
<1>3. CASE EnqueueEvent \/ Deliver \/ Tick \/ UNCHANGED vars
  <2>1. UNCHANGED <<lease, held, link, epochs, pc, job>>
    BY <1>3 DEF EnqueueEvent, Deliver, Tick, AdvanceClock, vars, leaseVars
  <2> QED
    BY <2>1 DEF LinkInv, LinkFits, HoldsLease
<1> QED
  BY <1>1, <1>2, <1>3, WorkerLinks DEF Next, Quiet

----------------------------------------------------------------------------
(* The writes: what was written from which checkpoint, or is going to be. *)

Gone(m) == m.status \in {"Invalid", "Superseded"}
Concluded == {"Sent", "RecoveryRequired"}

Intended(w) == [epoch |-> job[w].link.epoch, slot |-> job[w].link.sent, msg |-> job[w].msg]
Aiming == {"ready", "put"}
Writes == written \cup {Intended(w) : w \in {v \in Worker : pc[v] \in Aiming}}

\* A write is of the present checkpoint or an earlier one; what was queued before its
\* message is settled; and the checkpoint has moved on when its message is concluded.
WriteFits(a) ==
  /\ a.msg \in DOMAIN queue /\ a.epoch \in 1 .. epochs
  /\ a.epoch = link.epoch => a.slot <= link.sent
  /\ \A i \in DOMAIN queue : i < a.msg => queue[i].status \in Terminal
  /\ queue[a.msg].status \in Concluded /\ a.epoch = link.epoch => a.slot < link.sent

Before(a, b) == a.epoch < b.epoch \/ (a.epoch = b.epoch /\ a.slot < b.slot)

Ordered(a, b) ==
  /\ a.epoch = b.epoch /\ a.slot = b.slot /\ a.msg < b.msg => Gone(queue[a.msg])
  /\ Before(a, b) => a.msg <= b.msg

OnlyListsGone == \A i \in DOMAIN queue : Gone(queue[i]) => queue[i].kind = "list"

WriteInv ==
  /\ OnlyListsGone
  /\ \A a \in Writes : WriteFits(a)
  /\ \A a, b \in Writes : Ordered(a, b)

\* What a step may do to the queue and to the checkpoint: a message is concluded together
\* with the checkpoint's advance or the loss of the link.
NextSlot == link'.epoch = 0 \/ (link'.epoch = link.epoch /\ link'.sent = link.sent + 1)
Advances ==
  /\ DOMAIN queue \subseteq DOMAIN queue'
  /\ \A i \in DOMAIN queue :
       /\ queue'[i].kind = queue[i].kind
       /\ queue[i].status \in Terminal => queue'[i].status = queue[i].status
       /\ queue'[i].status \in Concluded /\ queue[i].status \notin Concluded => NextSlot
  /\ OnlyListsGone'
  /\ epochs <= epochs'
  /\ link' = link \/ NextSlot \/ (epochs < epochs' /\ link'.epoch = epochs')

\* The queue only grows.
LEMMA AppendAdvances ==
  ASSUME TypeOK, OnlyListsGone, NEW k \in {"event", "list"}, NEW x \in Nat \cup {Never},
         queue' = Append(queue, NewMessage(k, x)), UNCHANGED <<link, epochs>>
  PROVE  Advances
<1>1. queue \in Seq(Message) /\ epochs \in Nat
  BY DEF TypeOK
<1>2. /\ queue' \in Seq(Message) /\ DOMAIN queue \subseteq DOMAIN queue'
      /\ \A i \in DOMAIN queue : queue'[i] = queue[i]
  BY <1>1, AppendedQueue
<1>3. \A i \in DOMAIN queue' : i \in DOMAIN queue \/ queue'[i] = NewMessage(k, x)
  <2>1. NewMessage(k, x) \in Message
    BY DEF NewMessage, Message, Status
  <2> HIDE DEF NewMessage
  <2>2. /\ Len(queue) \in Nat /\ DOMAIN queue = 1 .. Len(queue)
        /\ DOMAIN queue' = 1 .. Len(queue) + 1 /\ queue'[Len(queue) + 1] = NewMessage(k, x)
    BY <1>1, <2>1, QueueShape, AppendProperties
  <2> QED
    BY <2>2
<1>4. OnlyListsGone'
  BY <1>2, <1>3 DEF OnlyListsGone, Gone, NewMessage
<1> QED
  BY <1>1, <1>2, <1>4 DEF Advances

\* Only the link changes.
LEMMA LinkAdvances ==
  ASSUME TypeOK, OnlyListsGone, UNCHANGED queue, epochs <= epochs',
         link' = link \/ NextSlot \/ (epochs < epochs' /\ link'.epoch = epochs')
  PROVE  Advances
BY DEF Advances, OnlyListsGone, Terminal

\* The holder stores an outcome of the message it is sending.
LEMMA OutcomeAdvances ==
  ASSUME TypeOK, IInv, OnlyListsGone, NEW w \in Worker, HoldsLease(w), pc[w] \in Claimed,
         NEW t \in Status \ {"Superseded"}, queue' = [queue EXCEPT ![job[w].msg].status = t],
         t = "Invalid" => queue[job[w].msg].kind = "list", UNCHANGED epochs,
         link' = link \/ NextSlot, t \in Concluded => NextSlot
  PROVE  Advances
<1> DEFINE i == job[w].msg
<1>1. i \in DOMAIN queue /\ queue \in Seq(Message) /\ epochs \in Nat /\ queue[i].status = "Sending"
  BY DEF TypeOK, IInv, ClaimIsSending, Claimed
<1> HIDE DEF i
<1>2. /\ DOMAIN queue' = DOMAIN queue /\ queue'[i].status = t
      /\ \A j \in DOMAIN queue : j # i => queue'[j] = queue[j]
      /\ \A j \in DOMAIN queue : queue'[j].kind = queue[j].kind
  BY <1>1, StatusChange, StatusKind DEF i
<1>3. OnlyListsGone'
  BY <1>1, <1>2 DEF OnlyListsGone, Gone, i
<1>4. ASSUME NEW j \in DOMAIN queue
      PROVE  /\ queue[j].status \in Terminal => queue'[j].status = queue[j].status
             /\ queue'[j].status \in Concluded /\ queue[j].status \notin Concluded => NextSlot
  <2>1. CASE j = i
    BY <1>1, <1>2, <2>1 DEF Terminal
  <2>2. CASE j # i
    BY <1>2, <2>2, Zenon
  <2> QED
    BY <2>1, <2>2
<1> HIDE DEF NextSlot
<1> QED
  BY <1>1, <1>2, <1>3, <1>4 DEF Advances

\* The queue claim_next_outbound_private_message stores.
LEMMA ClaimAdvances ==
  ASSUME TypeOK, OnlyListsGone, NEW w \in Worker, ClaimNext(w)
  PROVE  Advances
<1> DEFINE q == Supersede(queue, StaleBefore, RetryAfter)
           i == NextMessage(queue, StaleBefore, RetryAfter)
           r == [q EXCEPT ![i].status = "Sending", ![i].attempt = now]
<1>0. queue \in Seq(Message) /\ epochs \in Nat /\ now \in Nat
  BY DEF TypeOK, LeaseTypeOK
<1>1. StaleBefore \in Int /\ RetryAfter \in Int
  BY <1>0, QueueConstants DEF StaleBefore, RetryAfter
<1>2. /\ q \in Seq(Message) /\ DOMAIN q = DOMAIN queue
      /\ \A j \in DOMAIN queue :
           /\ q[j].kind = queue[j].kind
           /\ \/ q[j] = queue[j]
              \/ /\ queue[j].status \in {"Pending", "Failed"} /\ queue[j].kind = "list"
                 /\ q[j].status = "Superseded"
  BY <1>0, <1>1, SupersedeType, SupersedeKind
<1>3. UNCHANGED <<link, epochs>> /\ (queue' = queue \/ queue' = q \/ (i # 0 /\ queue' = r))
  BY DEF ClaimNext, Commit
<1>4. CASE queue' = queue
  <2> HIDE DEF q, i, r
  <2> QED
    BY <1>0, <1>3, <1>4, LinkAdvances
<1>5. CASE queue' = q
  <2> HIDE DEF q, i, r
  <2>1. OnlyListsGone'
    BY <1>2, <1>5 DEF OnlyListsGone, Gone
  <2> QED
    BY <1>0, <1>2, <1>3, <1>5, <2>1 DEF Advances, Terminal, Concluded
<1>6. CASE i # 0 /\ queue' = r
  <2>1. i \in DOMAIN queue /\ queue[i].status \notin Terminal /\ q[i] = queue[i]
    BY <1>0, <1>1, <1>6, NextIsOpen
  <2>2. /\ DOMAIN r = DOMAIN queue /\ r[i].status = "Sending" /\ r[i].kind = queue[i].kind
        /\ \A j \in DOMAIN queue : j # i => r[j] = q[j]
    <3>1. i \in DOMAIN q /\ q[i] \in Message
      BY <1>2, <2>1, QueueShape
    <3>2. DOMAIN r = DOMAIN q /\ \A j \in DOMAIN q : j # i => r[j] = q[j]
      OBVIOUS
    <3>3. r[i] = [q[i] EXCEPT !.status = "Sending", !.attempt = now]
      BY <3>1
    <3>4. r[i].status = "Sending" /\ r[i].kind = q[i].kind
      <4> HIDE DEF q, i, r
      <4> QED
        BY <3>1, <3>3 DEF Message
    <3> HIDE DEF q, i, r
    <3> QED
      BY <1>2, <2>1, <3>2, <3>4
  <2> HIDE DEF q, i, r
  <2>3. OnlyListsGone'
    BY <1>2, <1>6, <2>2 DEF OnlyListsGone, Gone
  <2> QED
    BY <1>0, <1>2, <1>3, <1>6, <2>1, <2>2, <2>3 DEF Advances, Terminal, Concluded
<1> QED
  BY <1>3, <1>4, <1>5, <1>6

\* Every step of a worker advances.
LEMMA WorkerAdvances ==
  ASSUME TypeOK, IInv, LinkInv, OnlyListsGone, NEW w \in Worker, WorkerStep(w)
  PROVE  Advances
<1> USE DEF netVars, storeVars
<1>0. /\ epochs \in Nat /\ LinkFits(w) /\ job[w].link \in Link /\ link \in Link
  BY DEF TypeOK, LinkInv
<1>1. CASE \/ Claim(w) \/ ClaimRefused(w) \/ Release(w) \/ Restore(w) \/ RestoreFails(w)
           \/ SendOk(w) \/ SendFails(w, "failed") \/ SendFails(w, "broken")
           \/ ClearOutbox(w) \/ RelinkFails(w)
  <2>1. UNCHANGED <<queue, link, epochs>>
    BY <1>1 DEF Claim, ClaimRefused, Release, Restore, RestoreFails, SendOk, SendFails, ClearOutbox,
       RelinkFails
  <2> QED
    BY <1>0, <2>1, LinkAdvances
<1>2. CASE Mark(w) \/ SaveHandshake(w) \/ SaveLink(w)
  <2>1. /\ UNCHANGED queue /\ (epochs' = epochs \/ epochs' = epochs + 1)
        /\ \/ link' = link \/ link' = NoLink \/ link' = Handshake
           \/ epochs' = epochs + 1 /\ link' = NewLink(epochs + 1)
    BY <1>2 DEF Mark, SaveHandshake, SaveLink, Commit
  <2>2. NoLink.epoch = 0 /\ Handshake.epoch = 0 /\ NewLink(epochs + 1).epoch = epochs + 1
    BY DEF NoLink, Handshake, NewLink
  <2> QED
    BY <1>0, <2>1, <2>2, LinkAdvances DEF NextSlot
<1>3. ASSUME NEW x \in Expiry, InsertList(w, x) PROVE Advances
  <2>1. UNCHANGED <<link, epochs>> /\ (queue' = queue \/ queue' = Append(queue, NewMessage("list", x)))
    BY <1>3 DEF InsertList, Commit
  <2> QED
    BY <1>0, <2>1, QueueConstants, AppendAdvances, LinkAdvances
<1>4. CASE Ready(w) \/ RecordFailed(w)
  <2>1. pc[w] \in Claimed /\ UNCHANGED <<link, epochs>>
    BY <1>4 DEF Ready, RecordFailed, Commit, Claimed
  <2>2. \/ UNCHANGED queue
        \/ /\ HoldsLease(w)
           /\ \E t \in {"Invalid", "Failed"} : /\ queue' = [queue EXCEPT ![job[w].msg].status = t]
                                               /\ t = "Invalid" => queue[job[w].msg].kind = "list"
    BY <1>4 DEF Ready, RecordFailed, Commit
  <2>3. {"Invalid", "Failed"} \subseteq Status \ ({"Superseded"} \cup Concluded)
    BY DEF Status, Concluded
  <2> QED
    BY <1>0, <2>1, <2>2, <2>3, LinkAdvances, OutcomeAdvances
<1>5. CASE RecordBroken(w)
  <2>1. pc[w] \in Claimed /\ UNCHANGED epochs /\ NoLink.epoch = 0
    BY <1>5 DEF RecordBroken, Claimed, NoLink
  <2>2. \/ UNCHANGED <<queue, link>>
        \/ /\ HoldsLease(w) /\ link' = NoLink
           /\ queue' = [queue EXCEPT ![job[w].msg].status = "RecoveryRequired"]
    BY <1>5 DEF RecordBroken, Commit
  <2>3. "RecoveryRequired" \in Status \ {"Superseded"}
    BY DEF Status
  <2> QED
    BY <1>0, <2>1, <2>2, <2>3, LinkAdvances, OutcomeAdvances DEF NextSlot
<1>6. CASE RecordSent(w)
  <2> DEFINE l == [job[w].link EXCEPT !.sent = @ + 1]
  <2>1. pc[w] \in Claimed /\ UNCHANGED epochs /\ "Sent" \in Status \ {"Superseded"}
    BY <1>6 DEF RecordSent, Claimed, Status
  <2>2. \/ UNCHANGED <<queue, link>>
        \/ /\ HoldsLease(w) /\ link' = l
           /\ queue' = [queue EXCEPT ![job[w].msg].status = "Sent"]
    BY <1>6 DEF RecordSent, Commit
  <2>3. l.epoch = job[w].link.epoch /\ l.sent = job[w].link.sent + 1
    BY <1>0 DEF Link
  <2>4. HoldsLease(w) => job[w].link = link
    BY <1>0, <2>1 DEF LinkFits
  <2> HIDE DEF l
  <2> QED
    BY <1>0, <2>1, <2>2, <2>3, <2>4, LinkAdvances, OutcomeAdvances DEF NextSlot
<1> QED
  BY <1>1, <1>2, <1>3, <1>4, <1>5, <1>6, ClaimAdvances DEF WorkerStep

LEMMA NextAdvances ==
  ASSUME TypeOK, IInv, LinkInv, OnlyListsGone, [Next]_vars
  PROVE  Advances
<1>1. epochs \in Nat
  BY DEF TypeOK
<1>2. CASE EnqueueEvent
  BY <1>2, AppendAdvances, Zenon DEF EnqueueEvent
<1>3. CASE \/ Deliver \/ Tick \/ UNCHANGED vars
           \/ \E w \in Worker : Crash(w) \/ \E o \in DOMAIN FirstStep : Begin(w, o)
  <2>1. UNCHANGED <<queue, link, epochs>>
    BY <1>3 DEF Deliver, Tick, vars, Crash, Begin, storeVars
  <2> QED
    BY <1>1, <2>1, LinkAdvances
<1> QED
  BY <1>2, <1>3, WorkerAdvances DEF Next, Quiet

\* A step that advances keeps what the invariant says of a write.
LEMMA WriteKept ==
  ASSUME TypeOK, TypeOK', Advances, NEW a \in [epoch : Nat, slot : Nat, msg : Nat], WriteFits(a)
  PROVE  WriteFits(a)'
<1>1. /\ link \in Link /\ link' \in Link /\ epochs \in Nat /\ epochs' \in Nat
      /\ queue \in Seq(Message) /\ queue' \in Seq(Message)
  BY DEF TypeOK
<1>2. /\ link.epoch \in Nat /\ link.sent \in Nat /\ link'.epoch \in Nat /\ link'.sent \in Nat
      /\ a.epoch \in Nat /\ a.slot \in Nat /\ a.msg \in Nat
  BY <1>1 DEF Link
<1>3. a.msg \in DOMAIN queue /\ a.msg \in DOMAIN queue' /\ a.epoch \in 1 .. epochs'
  BY <1>1, <1>2 DEF Advances, WriteFits
<1>4. a.epoch = link'.epoch =>
        a.epoch = link.epoch /\ (link' = link \/ (NextSlot /\ link'.sent = link.sent + 1))
  BY <1>1, <1>2 DEF Advances, WriteFits, NextSlot
<1>5. ASSUME NEW i \in DOMAIN queue', i < a.msg PROVE queue'[i].status \in Terminal
  <2>1. i \in DOMAIN queue
    BY <1>1, <1>2, <1>3, <1>5, QueueShape
  <2> QED
    BY <1>5, <2>1 DEF Advances, WriteFits
<1>6. a.epoch = link'.epoch => a.slot <= link'.sent
  BY <1>2, <1>4 DEF WriteFits
<1>7. ASSUME queue'[a.msg].status \in Concluded, a.epoch = link'.epoch
      PROVE  a.slot < link'.sent
  <2>1. CASE queue[a.msg].status \in Concluded
    BY <1>2, <1>4, <1>7, <2>1 DEF WriteFits
  <2>2. CASE queue[a.msg].status \notin Concluded
    <3>1. NextSlot
      BY <1>3, <1>7, <2>2 DEF Advances
    <3>2. link'.sent = link.sent + 1 /\ a.slot <= link.sent
      BY <1>2, <1>4, <1>7, <3>1 DEF NextSlot, WriteFits
    <3> QED
      BY <1>2, <3>2
  <2> QED
    BY <2>1, <2>2
<1> QED
  BY <1>3, <1>5, <1>6, <1>7 DEF WriteFits

LEMMA WritesType == TypeOK => Writes \subseteq [epoch : Nat, slot : Nat, msg : Nat]
<1> SUFFICES ASSUME TypeOK PROVE Writes \subseteq [epoch : Nat, slot : Nat, msg : Nat]
  OBVIOUS
<1>1. Slot \subseteq Nat
  BY DEF Slot
<1>2. \A w \in Worker : job[w] \in [msg : Nat, at : Nat, link : Link]
  BY DEF TypeOK
<1>3. \A w \in Worker : Intended(w) \in [epoch : Nat, slot : Nat, msg : Nat]
  BY <1>2 DEF Intended, Link
<1> QED
  BY <1>1, <1>3, Zenon DEF TypeOK, Writes

\* Old writes stay in order.
LEMMA OrderKept ==
  ASSUME Advances, NEW a, NEW b, WriteFits(a), Ordered(a, b)
  PROVE  Ordered(a, b)'
<1>1. a.msg \in DOMAIN queue
  BY DEF WriteFits
<1>2. Gone(queue[a.msg]) => Gone(queue'[a.msg])
  BY <1>1 DEF Advances, Gone, Terminal
<1> QED
  BY <1>2 DEF Ordered, Before, Gone

LEMMA WriteStep ==
  ASSUME TypeOK, TypeOK', WriteInv, Advances, Writes' \subseteq Writes
  PROVE  WriteInv'
<1>1. \A a \in Writes' : WriteFits(a)'
  BY WritesType, WriteKept DEF WriteInv
<1>2. \A a, b \in Writes' : Ordered(a, b)'
  BY OrderKept DEF WriteInv
<1> QED
  BY <1>1, <1>2 DEF WriteInv, Advances

\* A worker that does not take up another message adds nothing to what is to be written.
LEMMA NoNewWrite ==
  ASSUME TypeOK, NEW w \in Worker, NEW n, Goto(w, n),
         n \notin Aiming \/ (pc[w] \in Aiming /\ job'[w] = job[w]),
         \A v \in Worker : v # w => job'[v] = job[v],
         written' = written \/ (pc[w] = "put" /\ written' = written \cup {Intended(w)})
  PROVE  Writes' \subseteq Writes
<1>1. pc'[w] = n /\ \A v \in Worker : v # w => pc'[v] = pc[v]
  BY DEF TypeOK, Goto
<1>2. \A v \in Worker : pc'[v] \in Aiming => pc[v] \in Aiming /\ job'[v] = job[v]
  BY <1>1
<1>3. \A v \in Worker : pc'[v] \in Aiming => Intended(v)' = Intended(v)
  BY <1>2 DEF Intended
<1>4. pc[w] = "put" => Intended(w) \in Writes
  BY DEF Writes, Aiming
<1>5. written' \subseteq Writes
  BY <1>4 DEF Writes
<1> HIDE DEF Intended
<1> QED
  BY <1>2, <1>3, <1>5 DEF Writes

\* The holder takes up the first open message, for the slot its link has reached.
LEMMA ClaimWrites ==
  ASSUME TypeOK, TypeOK', LinkInv, WriteInv, NEW w \in Worker, ClaimNext(w), HoldsLease(w),
         NextMessage(queue, StaleBefore, RetryAfter) # 0
  PROVE  WriteInv'
<1> DEFINE q == Supersede(queue, StaleBefore, RetryAfter)
           i == NextMessage(queue, StaleBefore, RetryAfter)
           r == [q EXCEPT ![i].status = "Sending", ![i].attempt = now]
           n == [epoch |-> link.epoch, slot |-> link.sent, msg |-> i]
<1>0. /\ queue \in Seq(Message) /\ now \in Nat /\ pc \in [Worker -> Step] /\ link \in Link
      /\ job \in [Worker -> [msg : Nat, at : Nat, link : Link]] /\ pc[w] = "next"
  BY SMTT(20) DEF TypeOK, LeaseTypeOK, ClaimNext
<1>1. StaleBefore \in Int /\ RetryAfter \in Int
  BY <1>0, QueueConstants DEF StaleBefore, RetryAfter
<1>2. Advances
  BY ClaimAdvances DEF WriteInv
<1>3. /\ queue' = r /\ UNCHANGED <<link, epochs, written>> /\ Goto(w, "ready")
      /\ job' = [job EXCEPT ![w].msg = i, ![w].at = now]
  BY DEF ClaimNext, Commit, netVars
<1>4. i \in DOMAIN queue /\ \A j \in DOMAIN queue : j < i => q[j].status \in Terminal
  BY <1>0, <1>1, NextIsOpen, NextIsFirst
<1>5. q \in Seq(Message) /\ DOMAIN q = DOMAIN queue
  BY <1>0, <1>1, SupersedeType, Zenon
<1>6. DOMAIN r = DOMAIN q /\ \A j \in DOMAIN q : j # i => r[j] = q[j]
  OBVIOUS
<1>7. r[i].status = "Sending"
  <2>1. i \in DOMAIN q /\ q[i] \in Message
    BY <1>4, <1>5, QueueShape
  <2>2. r[i] = [q[i] EXCEPT !.status = "Sending", !.attempt = now]
    BY <2>1
  <2> HIDE DEF q, i, r
  <2> QED
    BY <2>1, <2>2 DEF Message
<1>8. i \in Nat \ {0} /\ DOMAIN queue' = DOMAIN queue /\ queue'[i].status = "Sending"
  <2> HIDE DEF q, r
  <2> QED
    BY <1>0, <1>3, <1>4, <1>5, <1>6, <1>7, QueueShape
<1>9. \A j \in DOMAIN queue : j < i => queue'[j].status \in Terminal
  <2>1. \A j \in DOMAIN queue : j < i => j # i
    BY <1>0, <1>8, QueueShape
  <2> HIDE DEF q, i, r
  <2> QED
    BY <1>3, <1>4, <1>5, <1>6, <2>1
<1>10. job[w].link = link /\ link.epoch # 0 /\ link.epoch = epochs
  BY <1>0 DEF LinkInv, LinkFits
<1>11. Writes' \subseteq Writes \cup {n}
  <2>1. pc'[w] = "ready" /\ \A v \in Worker : v # w => pc'[v] = pc[v]
    BY <1>0, <1>3 DEF Goto
  <2> HIDE DEF i, q, r
  <2>2. /\ job'[w].link = job[w].link /\ job'[w].msg = i
        /\ \A v \in Worker : v # w => job'[v] = job[v]
    BY <1>0, <1>3
  <2>3. Intended(w)' = n
    BY <1>10, <2>2 DEF Intended
  <2>4. \A v \in Worker : v # w => Intended(v)' = Intended(v)
    BY <2>2 DEF Intended
  <2> HIDE DEF Intended, n
  <2> QED
    BY <1>3, <2>1, <2>3, <2>4 DEF Writes
<1> HIDE DEF q, i, r
<1>n. n.epoch = link.epoch /\ n.slot = link.sent /\ n.msg = i
  OBVIOUS
<1> HIDE DEF n
<1>12. PICK c : c = n /\ c.epoch = link.epoch /\ c.slot = link.sent /\ c.msg = i
  BY <1>n
<1>13. link.epoch \in Nat /\ link.sent \in Nat /\ epochs \in Nat
  BY <1>0 DEF Link, TypeOK
<1>14. WriteFits(c)'
  BY <1>3, <1>4, <1>8, <1>9, <1>10, <1>12, <1>13 DEF WriteFits, Concluded
<1>15. \A a \in Writes : WriteFits(a)'
  BY <1>2, WritesType, WriteKept DEF WriteInv
<1>16. ASSUME NEW a \in Writes PROVE Ordered(a, c)' /\ Ordered(c, a)'
  <2>1. a.epoch \in Nat /\ a.slot \in Nat /\ a.msg \in Nat
    BY WritesType
  <2>2. a.msg <= i
    <3> SUFFICES ASSUME i < a.msg PROVE FALSE
      BY <1>8, <2>1
    <3>1. queue'[i].status \in Terminal
      BY <1>4, <1>8, <1>15 DEF WriteFits
    <3> QED
      BY <1>8, <3>1 DEF Terminal
  <2>3. ASSUME a.epoch = link.epoch, a.slot = link.sent, a.msg < i PROVE Gone(queue'[a.msg])
    <3>1. a.msg \in DOMAIN queue /\ queue'[a.msg].status \notin Concluded
      BY <1>3, <1>8, <1>13, <1>15, <2>3 DEF WriteFits
    <3> QED
      BY <1>9, <2>3, <3>1 DEF Gone, Terminal, Concluded
  <2>4. a.epoch <= link.epoch /\ (a.epoch = link.epoch => a.slot <= link.sent)
    BY <1>3, <1>10, <1>13, <1>15, <2>1 DEF WriteFits
  <2> QED
    BY <1>3, <1>8, <1>12, <1>13, <2>1, <2>2, <2>3, <2>4 DEF Ordered, Before
<1>17. Ordered(c, c)'
  BY <1>8, <1>12, <1>13 DEF Ordered, Before
<1>18. \A a, b \in Writes : Ordered(a, b)'
  BY <1>2, OrderKept DEF WriteInv
<1> QED
  <2>1. Writes' \subseteq Writes \cup {c}
    BY <1>11, <1>12
  <2> QED
    BY <1>2, <1>14, <1>15, <1>16, <1>17, <1>18, <2>1 DEF WriteInv, Advances

LEMMA NextWrites ==
  ASSUME TypeOK, TypeOK', IInv, LinkInv, WriteInv, [Next]_vars
  PROVE  WriteInv'
<1> USE DEF netVars, storeVars
<1>0. Advances
  BY NextAdvances DEF WriteInv
<1>a. job \in [Worker -> [msg : Nat, at : Nat, link : Link]]
  BY DEF TypeOK
<1>1. CASE EnqueueEvent \/ Deliver \/ Tick \/ UNCHANGED vars
  <2>1. UNCHANGED <<pc, job, written>>
    BY <1>1 DEF EnqueueEvent, Deliver, Tick, vars
  <2>2. Writes' = Writes
    BY <2>1 DEF Writes, Intended
  <2> QED
    BY <1>0, <2>2, WriteStep
<1>2. ASSUME NEW w \in Worker, Crash(w) \/ (\E o \in DOMAIN FirstStep : Begin(w, o)) PROVE WriteInv'
  <2>1. \E n : Goto(w, n) /\ n \notin Aiming
    BY <1>2 DEF Crash, Begin, FirstStep, Aiming
  <2>2. (\A v \in Worker : v # w => job'[v] = job[v]) /\ UNCHANGED written
    BY <1>a, <1>2 DEF Crash, Begin
  <2> QED
    BY <1>0, <2>1, <2>2, NoNewWrite, WriteStep
<1>3. ASSUME NEW w \in Worker, WorkerStep(w) PROVE WriteInv'
  <2>1. CASE \/ Claim(w) \/ ClaimRefused(w) \/ Release(w) \/ Restore(w) \/ RestoreFails(w) \/ Mark(w)
             \/ ClearOutbox(w) \/ SaveHandshake(w) \/ SaveLink(w) \/ RelinkFails(w)
             \/ \E x \in Expiry : InsertList(w, x)
    <3>1. \E n : Goto(w, n) /\ n \notin Aiming
      BY <2>1 DEF Claim, FirstUnderLease, FirstStep, ClaimRefused, Release, Restore, RestoreFails,
         Mark, ClearOutbox, SaveHandshake, SaveLink, RelinkFails, InsertList, Commit, Aiming
    <3>2. (\A v \in Worker : v # w => job'[v] = job[v]) /\ UNCHANGED written
      BY <1>a, <2>1 DEF Claim, ClaimRefused, Release, Restore, RestoreFails, Mark, ClearOutbox,
         SaveHandshake, SaveLink, RelinkFails, InsertList
    <3> QED
      BY <1>0, <3>1, <3>2, NoNewWrite, WriteStep
  <2>2. CASE RecordSent(w) \/ RecordFailed(w) \/ RecordBroken(w)
    <3>1. \E n : Goto(w, n) /\ n \notin Aiming
      BY <2>2 DEF RecordSent, RecordFailed, RecordBroken, Commit, Aiming
    <3>2. (\A v \in Worker : v # w => job'[v] = job[v]) /\ UNCHANGED written
      BY <1>a, <2>2 DEF RecordSent, RecordFailed, RecordBroken
    <3> QED
      BY <1>0, <3>1, <3>2, NoNewWrite, WriteStep
  <2>3. CASE Ready(w)
    <3>1. \E n : Goto(w, n)
      BY <2>3 DEF Ready, Commit
    <3>2. pc[w] \in Aiming /\ UNCHANGED <<job, written>>
      BY <2>3 DEF Ready, Aiming
    <3> QED
      BY <1>0, <3>1, <3>2, NoNewWrite, WriteStep
  <2>4. CASE SendOk(w) \/ SendFails(w, "failed") \/ SendFails(w, "broken")
    <3>1. \E n : Goto(w, n) /\ n \notin Aiming
      BY <2>4, SMTT(20) DEF SendOk, SendFails, Aiming
    <3>2. /\ pc[w] = "put" /\ UNCHANGED job
          /\ written' = written \/ written' = written \cup {Intended(w)}
      BY <2>4 DEF SendOk, SendFails, PutSlot, Intended
    <3> QED
      BY <1>0, <3>1, <3>2, NoNewWrite, WriteStep
  <2>5. CASE ClaimNext(w)
    <3>1. CASE HoldsLease(w) /\ NextMessage(queue, StaleBefore, RetryAfter) # 0
      BY <2>5, <3>1, ClaimWrites, SMTT(20)
    <3>2. CASE ~(HoldsLease(w) /\ NextMessage(queue, StaleBefore, RetryAfter) # 0)
      <4>1. Goto(w, "release") /\ UNCHANGED written
        BY <2>5, <3>2 DEF ClaimNext, Commit
      <4>2. \A v \in Worker : v # w => job'[v] = job[v]
        BY <1>a, <2>5 DEF ClaimNext
      <4>3. "release" \notin Aiming
        BY DEF Aiming
      <4> QED
        BY <1>0, <4>1, <4>2, <4>3, NoNewWrite, WriteStep
    <3> QED
      BY <3>1, <3>2
  <2> QED
    BY <1>3, <2>1, <2>2, <2>3, <2>4, <2>5 DEF WorkerStep
<1> QED
  BY <1>1, <1>2, <1>3 DEF Next, Quiet

LEMMA InitWrites == Init => WriteInv
<1> SUFFICES ASSUME Init PROVE WriteInv
  OBVIOUS
<1>1. Writes = {} /\ DOMAIN queue = {}
  BY DEF Init, Writes, Aiming
<1> QED
  BY <1>1 DEF WriteInv, OnlyListsGone

LEMMA WriteInvariance == Spec => [](TypeOK /\ IInv /\ LinkInv /\ WriteInv)
<1>1. Init => TypeOK /\ IInv /\ LinkInv /\ WriteInv
  BY InitType, InitIInv, InitLinks, InitWrites
<1>2. TypeOK /\ IInv /\ LinkInv /\ WriteInv /\ [Next]_vars => (TypeOK /\ IInv /\ LinkInv /\ WriteInv)'
  BY NextType, NextIInv, NextLinks, NextWrites
<1> QED
  BY <1>1, <1>2, PTL DEF Spec

\* OnlyGivenUpListsReplaced: the slot and the checkpoint of a message are stored in one
\* transaction by record_private_send_success, and claim_next_outbound_private_message takes
\* the first open message, so the only message another one follows in its slot is a Private
\* Payment List that was given up.  For every number of workers, messages and links, and
\* whichever writes land late or although they were reported as failed.
THEOREM SlotTheorem == Spec => []OnlyGivenUpListsReplaced
<1>1. TypeOK /\ WriteInv => OnlyGivenUpListsReplaced
  <2> SUFFICES ASSUME TypeOK, WriteInv, NEW a \in written, NEW b \in written,
                      a.epoch = b.epoch, a.slot = b.slot, a.msg < b.msg
               PROVE  queue[a.msg].kind = "list" /\ queue[a.msg].status \in {"Invalid", "Superseded"}
    BY DEF OnlyGivenUpListsReplaced
  <2>1. a \in Writes /\ b \in Writes
    BY DEF Writes
  <2>2. a.msg \in DOMAIN queue /\ Gone(queue[a.msg])
    BY <2>1 DEF WriteInv, WriteFits, Ordered
  <2> QED
    BY <2>2 DEF WriteInv, OnlyListsGone, Gone
<1> QED
  BY <1>1, WriteInvariance, PTL

----------------------------------------------------------------------------
(* The counterparty: what it has read, and what waits for it.             *)

\* The write at the reader's place of this link, or of an earlier link.
IsRead(a) == a.epoch < epochs \/ (a.epoch = epochs /\ a.slot < reader)

ReadInv ==
  /\ \A s \in Slot : outbox[s] # Empty =>
       [epoch |-> outbox[s].epoch, slot |-> s, msg |-> outbox[s].msg] \in written
  /\ \A i \in DOMAIN delivered : \E a \in written : a.msg = delivered[i] /\ IsRead(a)
  /\ \A s \in Nat : s < reader =>
       \E a \in written : /\ a.epoch = epochs /\ a.slot = s
                          /\ \E i \in DOMAIN delivered : delivered[i] = a.msg
  /\ DeliveredInOrder

\* The slots written over the present link still hold what was written last.
SlotInv ==
  link.epoch # 0 => \A a \in written : a.epoch = link.epoch => outbox[a.slot].epoch = a.epoch

\* Without a change of the outbox, the reader or the links.
LEMMA NothingRead ==
  ASSUME ReadInv, UNCHANGED <<outbox, delivered, reader, written, epochs>>
  PROVE  ReadInv'
BY DEF ReadInv, IsRead, DeliveredInOrder

\* The outbox is written to or cleared; what was written stays in the history.
LEMMA OutboxRead ==
  ASSUME ReadInv, UNCHANGED <<delivered, reader, epochs>>, written \subseteq written',
         \A s \in Slot : outbox'[s] # Empty =>
           [epoch |-> outbox'[s].epoch, slot |-> s, msg |-> outbox'[s].msg] \in written'
  PROVE  ReadInv'
BY DEF ReadInv, IsRead, DeliveredInOrder

LEMMA PutRead ==
  ASSUME TypeOK, ReadInv, NEW w \in Worker, PutSlot(w), UNCHANGED <<delivered, reader, epochs>>
  PROVE  ReadInv'
<1> DEFINE x == [epoch |-> job[w].link.epoch, msg |-> job[w].msg]
           p == job[w].link.sent
<1>1. /\ outbox' = [outbox EXCEPT ![p] = x] /\ outbox \in [Slot -> [epoch : Nat, msg : Nat]]
      /\ p \in Slot /\ written' = written \cup {[epoch |-> x.epoch, slot |-> p, msg |-> x.msg]}
  BY DEF PutSlot, TypeOK
<1> HIDE DEF x, p
<1>2. ASSUME NEW s \in Slot, outbox'[s] # Empty
      PROVE  [epoch |-> outbox'[s].epoch, slot |-> s, msg |-> outbox'[s].msg] \in written'
  <2>1. CASE s = p
    BY <1>1, <2>1
  <2>2. CASE s # p
    BY <1>1, <1>2, <2>2 DEF ReadInv
  <2> QED
    BY <2>1, <2>2
<1> QED
  BY <1>1, <1>2, OutboxRead, SMTT(20)

\* The counterparty reads the next slot: of the messages it has read, all were queued no
\* later than the one it finds there.
LEMMA DeliverRead ==
  ASSUME TypeOK, WriteInv, ReadInv, Deliver
  PROVE  ReadInv'
<1> DEFINE b == [epoch |-> outbox[reader].epoch, slot |-> reader, msg |-> outbox[reader].msg]
<1>0. /\ outbox \in [Slot -> [epoch : Nat, msg : Nat]] /\ reader \in Nat /\ delivered \in Seq(Nat)
      /\ epochs \in Nat /\ written \subseteq [epoch : Nat, slot : Slot, msg : Nat] /\ Slot \subseteq Nat
  BY DEF TypeOK, Slot
<1>1. /\ reader \in Slot /\ outbox[reader] # Empty /\ outbox[reader].epoch = epochs
      /\ delivered' = Append(delivered, outbox[reader].msg) /\ reader' = reader + 1
      /\ UNCHANGED <<epochs, outbox, written>>
  BY DEF Deliver, storeVars
<1>2. b \in written /\ outbox[reader].msg \in Nat
  BY <1>0, <1>1, SMTT(20) DEF ReadInv
<1>3. PICK c \in written : c.epoch = epochs /\ c.slot = reader /\ c.msg = outbox[reader].msg
  BY <1>1, <1>2
<1>4. /\ DOMAIN delivered = 1 .. Len(delivered) /\ Len(delivered) \in Nat
      /\ DOMAIN delivered' = 1 .. Len(delivered) + 1
      /\ \A i \in 1 .. Len(delivered) : delivered'[i] = delivered[i]
      /\ delivered'[Len(delivered) + 1] = c.msg
  BY <1>0, <1>1, <1>2, <1>3
<1>5. \A i \in DOMAIN delivered : delivered[i] <= c.msg
  <2> TAKE i \in DOMAIN delivered
  <2>1. PICK a \in written : a.msg = delivered[i] /\ IsRead(a)
    BY DEF ReadInv
  <2>2. Before(a, c)
    BY <1>3, <2>1 DEF Before, IsRead
  <2>3. a \in Writes /\ c \in Writes
    BY DEF Writes
  <2> QED
    BY <2>1, <2>2, <2>3 DEF WriteInv, Ordered
<1>6. \A a \in written : IsRead(a) => IsRead(a)'
  <2>1. \A a \in written : a.slot \in Nat
    BY <1>0
  <2> QED
    BY <1>0, <1>1, <2>1 DEF IsRead
<1>7. IsRead(c)'
  BY <1>0, <1>1, <1>3 DEF IsRead
<1>8. ASSUME NEW i \in DOMAIN delivered'
      PROVE  \E a \in written' : a.msg = delivered'[i] /\ IsRead(a)'
  <2>1. CASE i \in DOMAIN delivered
    BY <1>1, <1>4, <1>6, <2>1 DEF ReadInv
  <2>2. CASE i = Len(delivered) + 1
    BY <1>1, <1>4, <1>7, <2>2
  <2> QED
    BY <1>4, <2>1, <2>2
<1>9. ASSUME NEW s \in Nat, s < reader'
      PROVE  \E a \in written' : /\ a.epoch = epochs' /\ a.slot = s
                                 /\ \E i \in DOMAIN delivered' : delivered'[i] = a.msg
  <2>1. CASE s < reader
    <3>1. PICK a \in written, i \in DOMAIN delivered :
            a.epoch = epochs /\ a.slot = s /\ delivered[i] = a.msg
      BY <2>1 DEF ReadInv
    <3> QED
      BY <1>1, <1>4, <3>1
  <2>2. CASE s = reader
    BY <1>1, <1>3, <1>4, <2>2
  <2> QED
    BY <1>0, <1>1, <1>9, <2>1, <2>2, SMTT(20)
<1>10. DeliveredInOrder'
  <2> SUFFICES ASSUME NEW i \in DOMAIN delivered', NEW j \in DOMAIN delivered', i < j
               PROVE  delivered'[i] <= delivered'[j]
    BY DEF DeliveredInOrder
  <2>1. i \in DOMAIN delivered
    BY <1>4
  <2>2. CASE j \in DOMAIN delivered
    BY <1>4, <2>1, <2>2 DEF ReadInv, DeliveredInOrder
  <2>3. CASE j = Len(delivered) + 1
    BY <1>4, <1>5, <2>1, <2>3, SMTT(20)
  <2> QED
    BY <1>4, <2>2, <2>3
<1> QED
  BY <1>1, <1>8, <1>9, <1>10 DEF ReadInv

\* A fresh link: all writes are of an earlier one.
LEMMA RelinkRead ==
  ASSUME TypeOK, WriteInv, ReadInv, epochs' = epochs + 1, reader' = 0,
         UNCHANGED <<outbox, delivered, written>>
  PROVE  ReadInv'
<1>1. epochs \in Nat /\ \A a \in written : a \in Writes
  BY DEF TypeOK, Writes
<1>2. \A a \in written : IsRead(a)'
  BY <1>1 DEF WriteInv, WriteFits, IsRead
<1> QED
  BY <1>2 DEF ReadInv, DeliveredInOrder

LEMMA NextReads ==
  ASSUME TypeOK, WriteInv, ReadInv, [Next]_vars
  PROVE  ReadInv'
<1> USE DEF netVars, storeVars
<1>1. CASE \/ EnqueueEvent \/ Tick \/ UNCHANGED vars
           \/ \E w \in Worker : Crash(w) \/ \E o \in DOMAIN FirstStep : Begin(w, o)
  <2>1. UNCHANGED <<outbox, delivered, reader, written, epochs>>
    BY <1>1 DEF EnqueueEvent, Tick, vars, Crash, Begin
  <2> QED
    BY <2>1, NothingRead
<1>2. ASSUME NEW w \in Worker, WorkerStep(w) PROVE ReadInv'
  <2>1. CASE \/ Claim(w) \/ ClaimRefused(w) \/ Release(w) \/ Restore(w) \/ RestoreFails(w) \/ Mark(w)
             \/ SaveHandshake(w) \/ RelinkFails(w) \/ ClaimNext(w) \/ Ready(w)
             \/ RecordSent(w) \/ RecordFailed(w) \/ RecordBroken(w) \/ \E x \in Expiry : InsertList(w, x)
    <3>1. UNCHANGED <<outbox, delivered, reader, written, epochs>>
      BY <2>1 DEF Claim, ClaimRefused, Release, Restore, RestoreFails, Mark, SaveHandshake,
         RelinkFails, ClaimNext, Ready, RecordSent, RecordFailed, RecordBroken, InsertList
    <3> QED
      BY <3>1, NothingRead
  <2>2. CASE SendOk(w) \/ SendFails(w, "failed") \/ SendFails(w, "broken")
    <3>1. /\ UNCHANGED <<delivered, reader, epochs>>
          /\ UNCHANGED <<outbox, written>> \/ PutSlot(w)
      BY <2>2 DEF SendOk, SendFails
    <3> QED
      BY <3>1, PutRead, NothingRead
  <2>3. CASE ClearOutbox(w)
    BY <2>3, OutboxRead DEF ClearOutbox
  <2>4. CASE SaveLink(w)
    <3>1. /\ UNCHANGED <<outbox, delivered, written>>
          /\ (epochs' = epochs + 1 /\ reader' = 0) \/ UNCHANGED <<epochs, reader>>
      BY <2>4 DEF SaveLink
    <3> QED
      BY <3>1, RelinkRead, NothingRead
  <2> QED
    BY <1>2, <2>1, <2>2, <2>3, <2>4 DEF WorkerStep
<1> QED
  BY <1>1, <1>2, DeliverRead DEF Next, Quiet

LEMMA InitReads == Init => ReadInv /\ SlotInv
<1> SUFFICES ASSUME Init PROVE ReadInv /\ SlotInv
  OBVIOUS
<1>1. DOMAIN delivered = {} /\ reader = 0 /\ written = {} /\ \A s \in Slot : outbox[s] = Empty
  BY DEF Init
<1> QED
  BY <1>1 DEF ReadInv, SlotInv, DeliveredInOrder

LEMMA ReadInvariance == Spec => [](TypeOK /\ IInv /\ LinkInv /\ WriteInv /\ ReadInv)
<1>1. Init => ReadInv
  BY InitReads
<1>2. TypeOK /\ WriteInv /\ ReadInv /\ [Next]_vars => ReadInv'
  BY NextReads
<1> QED
  BY <1>1, <1>2, WriteInvariance, PTL DEF Spec

\* DeliveredInOrder: the counterparty reads messages in the order in which they were queued,
\* for every number of workers, messages and links, although a worker may stop between the
\* write to the homeserver and the transaction of record_private_send_success, a replaced
\* worker may write late, and a write reported as failed may land.
THEOREM OrderTheorem == Spec => []DeliveredInOrder
<1>1. ReadInv => DeliveredInOrder
  BY DEF ReadInv
<1> QED
  BY <1>1, ReadInvariance, PTL

\* Slots written over the present link are neither cleared nor taken by a write of an
\* earlier link.
LEMMA NextSlots ==
  ASSUME LateWrites => MaxEpoch = 1, TypeOK, IInv, LinkInv, WriteInv, SlotInv, [Next]_vars
  PROVE  SlotInv'
<1> USE DEF netVars, storeVars
<1>0. /\ outbox \in [Slot -> [epoch : Nat, msg : Nat]] /\ epochs \in Nat /\ link.epoch \in {0, epochs}
      /\ written \subseteq [epoch : Nat, slot : Slot, msg : Nat] /\ epochs \in 1 .. MaxEpoch
      /\ MaxEpoch \in Nat
  BY QueueConstants DEF TypeOK, LinkInv
<1>1. \A a \in written : a.epoch \in 1 .. epochs
  BY DEF WriteInv, WriteFits, Writes
<1>2. link'.epoch = link.epoch \/ link'.epoch = 0 \/ link'.epoch = epochs + 1 \/ link'.epoch > epochs
  BY <1>0, NextAdvances DEF Advances, NextSlot, WriteInv
<1>3. UNCHANGED <<outbox, written>> => SlotInv'
  BY <1>0, <1>1, <1>2 DEF SlotInv
<1>4. CASE \/ EnqueueEvent \/ Deliver \/ Tick \/ UNCHANGED vars
           \/ \E w \in Worker : Crash(w) \/ \E o \in DOMAIN FirstStep : Begin(w, o)
  BY <1>3, <1>4 DEF EnqueueEvent, Deliver, Tick, vars, Crash, Begin
<1>5. ASSUME NEW w \in Worker, WorkerStep(w) PROVE SlotInv'
  <2>1. CASE \/ Claim(w) \/ ClaimRefused(w) \/ Release(w) \/ Restore(w) \/ RestoreFails(w) \/ Mark(w)
             \/ SaveHandshake(w) \/ SaveLink(w) \/ RelinkFails(w) \/ ClaimNext(w) \/ Ready(w)
             \/ RecordSent(w) \/ RecordFailed(w) \/ RecordBroken(w) \/ \E x \in Expiry : InsertList(w, x)
    BY <1>3, <2>1 DEF Claim, ClaimRefused, Release, Restore, RestoreFails, Mark, SaveHandshake,
       SaveLink, RelinkFails, ClaimNext, Ready, RecordSent, RecordFailed, RecordBroken, InsertList
  <2>2. CASE SendOk(w) \/ SendFails(w, "failed") \/ SendFails(w, "broken")
    <3>1. pc[w] = "put" /\ UNCHANGED link /\ (UNCHANGED <<outbox, written>> \/ PutSlot(w))
      BY <2>2 DEF SendOk, SendFails
    <3> SUFFICES ASSUME PutSlot(w), link.epoch # 0 PROVE SlotInv'
      BY <1>3, <3>1 DEF SlotInv
    <3> DEFINE e == job[w].link.epoch
               p == job[w].link.sent
    <3>2. Intended(w) \in Writes /\ Intended(w).epoch = e
      BY <3>1 DEF Writes, Aiming, Intended
    <3>3. e \in 1 .. epochs
      <4> HIDE DEF e
      <4> QED
        BY <3>2 DEF WriteInv, WriteFits
    <3>4. e = link.epoch
      <4>1. CASE LateWrites
        BY <1>0, <3>3, <4>1, SMTT(20)
      <4>2. CASE HoldsLease(w)
        BY <3>1, <4>2 DEF LinkInv, LinkFits, Claimed
      <4> QED
        BY <4>1, <4>2 DEF PutSlot
    <3>5. /\ p \in Slot /\ outbox' = [outbox EXCEPT ![p] = [epoch |-> e, msg |-> job[w].msg]]
          /\ \A a \in written' : a \in written \/ a.slot = p
      BY DEF PutSlot
    <3> HIDE DEF e, p
    <3>6. outbox'[p].epoch = e /\ \A s \in Slot : s # p => outbox'[s] = outbox[s]
      BY <1>0, <3>5
    <3> QED
      BY <1>0, <3>1, <3>4, <3>5, <3>6 DEF SlotInv
  <2>3. CASE ClearOutbox(w)
    <3>1. pc[w] = "clearOutbox" /\ UNCHANGED link /\ (LateWrites \/ HoldsLease(w))
      BY <2>3 DEF ClearOutbox
    <3>2. link.epoch = 0
      BY <3>1 DEF LinkInv, LinkFits, Linking
    <3> QED
      BY <3>1, <3>2 DEF SlotInv
  <2> QED
    BY <1>5, <2>1, <2>2, <2>3, SMTT(20) DEF WorkerStep
<1> QED
  BY <1>4, <1>5 DEF Next, Quiet

\* SentIsNotLost: a message sent over the present link was read or waits in its slot, for
\* every number of workers, messages and links.  The hypothesis is the run's own: when a
\* replaced worker may still write, only one link is ever established; a late write of
\* clear_encrypted_link_outbox or of an earlier link could take a slot of a later one.
THEOREM SentTheorem == ASSUME LateWrites => MaxEpoch = 1 PROVE Spec => []SentIsNotLost
<1>1. Init => SlotInv
  BY InitReads
<1>2. TypeOK /\ IInv /\ LinkInv /\ WriteInv /\ SlotInv /\ [Next]_vars => SlotInv'
  BY NextSlots
<1>3. TypeOK /\ LinkInv /\ WriteInv /\ ReadInv /\ SlotInv => SentIsNotLost
  <2> SUFFICES ASSUME TypeOK, LinkInv, WriteInv, ReadInv, SlotInv, NEW a \in written,
                      a.epoch = link.epoch,
                      \A b \in written : b.epoch = a.epoch /\ b.slot = a.slot => b.msg = a.msg
               PROVE  \/ \E i \in DOMAIN delivered : delivered[i] = a.msg
                      \/ a.slot >= reader /\ outbox[a.slot] = [epoch |-> a.epoch, msg |-> a.msg]
    BY DEF SentIsNotLost
  <2>1. /\ outbox \in [Slot -> [epoch : Nat, msg : Nat]] /\ a.slot \in Slot /\ reader \in Nat
    BY DEF TypeOK
  <2>s. a.slot \in Nat
    BY <2>1 DEF Slot
  <2>2. a.epoch # 0 /\ a.epoch = epochs
    BY DEF WriteInv, WriteFits, Writes, LinkInv
  <2>3. outbox[a.slot].epoch = a.epoch /\ outbox[a.slot] # Empty
    BY <2>2 DEF SlotInv, Empty
  <2>4. outbox[a.slot].msg = a.msg
    <3> DEFINE b == [epoch |-> outbox[a.slot].epoch, slot |-> a.slot, msg |-> outbox[a.slot].msg]
    <3>1. b \in written
      BY <2>1, <2>3, SMTT(20) DEF ReadInv
    <3>2. b.epoch = a.epoch /\ b.slot = a.slot /\ b.msg = outbox[a.slot].msg
      BY <2>3
    <3> HIDE DEF b
    <3> QED
      BY <3>1, <3>2
  <2>5. outbox[a.slot] = [epoch |-> a.epoch, msg |-> a.msg]
    BY <2>1, <2>3, <2>4
  <2>6. CASE a.slot < reader
    <3>1. PICK b \in written : /\ b.epoch = epochs /\ b.slot = a.slot
                               /\ \E i \in DOMAIN delivered : delivered[i] = b.msg
      BY <2>s, <2>6 DEF ReadInv
    <3> QED
      BY <2>2, <3>1
  <2> QED
    BY <2>1, <2>s, <2>5, <2>6
<1> QED
  BY <1>1, <1>2, <1>3, ReadInvariance, PTL DEF Spec

=============================================================================
