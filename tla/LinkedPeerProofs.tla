-------------------------- MODULE LinkedPeerProofs --------------------------
(***************************************************************************)
(* Proofs about LinkedPeer for every set of workers and every bound.       *)
(* Type correctness comes first; the other properties follow from one      *)
(* inductive invariant, IInv, which adds to them what the lease holder     *)
(* knows about the stored records at each of its steps.  The marker that   *)
(* an app publishes for a contact follows, for any receiver paths, as long *)
(* as calls do not overlap.                                                *)
(***************************************************************************)
EXTENDS LinkedPeer, Contacts, LeaseQueueProofs

\* ensure_link_with_peer advances only while its loop has steps left.
StepsLeft == \A w \in Worker : pc[w] = "advance" /\ op[w] = "ensure" => steps[w] > 0

\* What a worker that still holds the lease knows about the stored records.
HolderKnows ==
  \A w \in Worker : HoldsLease(w) =>
    /\ pc[w] = "saveLinked" => HasLink(linkState)
    /\ pc[w] = "saveLinking" => HasHandshake(linkState)
    /\ pc[w] = "handshake" => HasHandshake(view[w]) /\ view[w] = linkState
    /\ pc[w] = "traffic" => HasLink(view[w]) /\ view[w] = linkState

\* A record that was never written holds no snapshot.
AbsentIsEmpty == ~Exists(linkState) => ~HasLink(linkState) /\ ~HasHandshake(linkState)

\* The inductive invariant.
IInv ==
  /\ LeaseUnique
  /\ LinkMatchesPeer
  /\ NoResurrectedSnapshot
  /\ AbsentIsEmpty
  /\ HolderKnows

----------------------------------------------------------------------------
(***************************************************************************)
(* The values the write actions store are records of their types.          *)
(***************************************************************************)
LEMMA StoredType ==
  ASSUME NEW g \in Nat \cup {-1}, NEW l \in Snapshot, NEW h \in Nat
  PROVE  /\ Stored(g, l, h) \in LinkRecord
         /\ Stored(g, l, h).gen = g
         /\ Stored(g, l, h).link = l
         /\ Stored(g, l, h).hs = h
BY DEF Stored, LinkRecord

LEMMA NoLinkType == NoLink \in Snapshot /\ NoLink.epoch = 0
BY DEF NoLink, Snapshot

(***************************************************************************)
(* clear_encrypted_link_state leaves a record of its type without          *)
(* snapshots, when a record that was never written had none.               *)
(***************************************************************************)
LEMMA ClearedType ==
  ASSUME NEW s \in LinkRecord
  PROVE  /\ Cleared(s) \in LinkRecord
         /\ Exists(s) <=> Exists(Cleared(s))
         /\ Exists(s) => /\ ~HasLink(Cleared(s)) /\ ~HasHandshake(Cleared(s))
                         /\ Cleared(s).gen = s.gen + 1
         /\ ~Exists(s) => Cleared(s) = s
<1>1. CASE Exists(s)
  <2>1. s.gen + 1 \in Nat
    BY <1>1 DEF Exists, LinkRecord
  <2>2. Cleared(s) = Stored(s.gen + 1, NoLink, 0)
    BY <1>1 DEF Cleared
  <2> QED
    BY <1>1, <2>1, <2>2, NoLinkType, StoredType DEF HasLink, HasHandshake, Exists
<1>2. CASE ~Exists(s)
  BY <1>2 DEF Cleared
<1> QED
  BY <1>1, <1>2

(***************************************************************************)
(* Write stores what it is given or nothing.                               *)
(***************************************************************************)
LEMMA WriteType ==
  ASSUME TypeOK, NEW w \in Worker, NEW p \in PeerState, NEW s \in LinkRecord,
         NEW n \in Step, Write(w, p, s, n)
  PROVE  /\ peer' \in PeerState
         /\ linkState' \in LinkRecord
         /\ pc' \in [Worker -> Step]
BY DEF Write, TypeOK, Goto, Step

LEMMA InitType == Init => TypeOK
BY NoLinkType, StoredType
   DEF Init, TypeOK, LeaseInit, LeaseTypeOK, NoLease, PeerState, Step, Operation, Absent

(***************************************************************************)
(* Every step of a worker keeps the types.                                 *)
(***************************************************************************)
LEMMA WorkerType ==
  ASSUME TypeOK, StepsLeft, NEW w \in Worker, WorkerStep(w)
  PROVE  TypeOK'
<1> USE DEF peerVars, Goto
<1>0. LeaseTypeOK
  BY DEF TypeOK
<1>1. CASE Claim(w)
  <2>1. FirstStep(op[w]) \in Step
    BY DEF TypeOK, FirstStep, Step, Operation
  <2> QED
    BY <1>1, <1>0, <2>1, LeaseStepType DEF Claim, TypeOK
<1>2. CASE ClaimRefused(w)
  BY <1>2, <1>0, LeaseStepType DEF ClaimRefused, TypeOK, Step
<1>3. CASE Release(w)
  BY <1>3, <1>0, LeaseStepType, NoLinkType, StoredType DEF Release, TypeOK, Step, Absent
<1>4. CASE Decide(w) \/ BeginHandshake(w) \/ Restart(w) \/ NetworkFails(w)
           \/ LinkBroken(w) \/ RestoreFails(w) \/ AdvanceFails(w)
  BY <1>4, <1>0, LeaseStepType
     DEF Decide, BeginHandshake, Restart, NetworkFails, LinkBroken, RestoreFails, AdvanceFails,
         TypeOK, Step
<1>5. CASE SaveLinked(w) \/ SaveLinking(w)
  BY <1>5, <1>0, LeaseStepType, WriteType
     DEF SaveLinked, SaveLinking, AfterPending, TypeOK, Step, PeerState
<1>6. CASE SaveHandshake(w)
  <2>1. Stored(linkState.gen + 1, NoLink, epochSeq + 1) \in LinkRecord
    <3>1. linkState.gen + 1 \in Nat /\ epochSeq + 1 \in Nat
      BY DEF TypeOK, LinkRecord
    <3> QED
      BY <3>1, NoLinkType, StoredType
  <2>2. AfterPending(w) \in Step /\ "Linking" \in PeerState
    BY DEF AfterPending, Step, PeerState
  <2> QED
    BY <1>6, <1>0, <2>1, <2>2, LeaseStepType, WriteType DEF SaveHandshake, TypeOK
<1>7. CASE AdvanceRead(w) \/ RestoreLink(w)
  <2>1. op[w] = "ensure" /\ AdvanceRead(w) => steps[w] - 1 \in Nat
    BY DEF StepsLeft, AdvanceRead, TypeOK
  <2> QED
    BY <1>7, <1>0, <2>1, LeaseStepType DEF AdvanceRead, RestoreLink, TypeOK, Step
<1>8. CASE HandshakePending(w) \/ HandshakeComplete(w)
  <2>1. view[w].gen + 1 \in Nat /\ view[w].hs \in Nat
    BY DEF TypeOK, LinkRecord
  <2>2. Stored(view[w].gen + 1, NoLink, view[w].hs) \in LinkRecord
    BY <2>1, NoLinkType, StoredType
  <2>3. [NoLink EXCEPT !.epoch = view[w].hs] \in Snapshot
    BY <2>1, NoLinkType DEF Snapshot
  <2>4. Stored(view[w].gen + 1, [NoLink EXCEPT !.epoch = view[w].hs], 0) \in LinkRecord
    BY <2>1, <2>3, StoredType
  <2>5. /\ AfterPending(w) \in Step /\ AfterReport(w) \in Step /\ "release" \in Step
        /\ CurrentPeerState \in PeerState /\ "Linking" \in PeerState /\ "Linked" \in PeerState
        /\ linkState \in LinkRecord
    BY DEF AfterPending, AfterReport, Step, PeerState, CurrentPeerState, TypeOK
  <2> QED
    BY <1>8, <1>0, <2>2, <2>4, <2>5, LeaseStepType, WriteType
       DEF HandshakePending, HandshakeComplete, TypeOK
<1>9. CASE MarkRecovery(w)
  <2>1. /\ Cleared(linkState) \in LinkRecord
        /\ "RecoveryRequired" \in PeerState /\ "restart" \in Step
    BY ClearedType DEF TypeOK, PeerState, Step
  <2> QED
    BY <1>9, <1>0, <2>1, LeaseStepType, WriteType DEF MarkRecovery, TypeOK
<1>10. CASE SendCommit(w) \/ ReceiveCommit(w)
  <2>1. view[w].gen + 1 \in Nat /\ view[w].link \in Snapshot
    BY DEF TypeOK, LinkRecord
  <2>2. /\ [view[w].link EXCEPT !.sent = @ + 1] \in Snapshot
        /\ [view[w].link EXCEPT !.rcvd = @ + 1] \in Snapshot
    BY <2>1 DEF Snapshot
  <2>3. /\ Stored(view[w].gen + 1, [view[w].link EXCEPT !.sent = @ + 1], 0) \in LinkRecord
        /\ Stored(view[w].gen + 1, [view[w].link EXCEPT !.rcvd = @ + 1], 0) \in LinkRecord
    BY <2>1, <2>2, StoredType
  <2>4. CASE SendCommit(w)
    BY <2>4, <1>0, <2>3, LeaseStepType DEF SendCommit, TypeOK, Step
  <2>5. CASE ReceiveCommit(w)
    BY <2>5, <1>0, <2>3, LeaseStepType DEF ReceiveCommit, TypeOK, Step
  <2> QED
    BY <1>10, <2>4, <2>5
<1>11. CASE BlockPeer(w) \/ UnblockPeer(w)
  BY <1>11, <1>0, LeaseStepType, ClearedType
     DEF BlockPeer, UnblockPeer, TypeOK, Step, PeerState
<1> QED
  BY <1>1, <1>2, <1>3, <1>4, <1>5, <1>6, <1>7, <1>8, <1>9, <1>10, <1>11 DEF WorkerStep

(***************************************************************************)
(* Every step keeps the types.                                             *)
(***************************************************************************)
LEMMA NextType == TypeOK /\ StepsLeft /\ [Next]_vars => TypeOK'
<1> SUFFICES ASSUME TypeOK, StepsLeft, [Next]_vars PROVE TypeOK'
  OBVIOUS
<1>0. LeaseTypeOK
  BY DEF TypeOK
<1>1. ASSUME NEW w \in Worker, NEW o \in Operation, Begin(w, o) PROVE TypeOK'
  BY <1>0, <1>1, LeaseStepType, LinkConstants
     DEF Begin, Goto, TypeOK, Step, peerVars
<1>2. ASSUME NEW w \in Worker, Crash(w) PROVE TypeOK'
  BY <1>0, <1>2, LeaseStepType, NoLinkType, StoredType
     DEF Crash, Goto, TypeOK, Step, Absent, peerVars
<1>3. CASE ClearPrivateState
  <2>1. LeaseTypeOK'
    BY <1>0, <1>3 DEF ClearPrivateState, ClearLease, LeaseTypeOK, NoLease
  <2>2. Absent \in LinkRecord
    BY NoLinkType, StoredType DEF Absent
  <2> QED
    BY <1>3, <2>1, <2>2 DEF ClearPrivateState, TypeOK, PeerState, workVars
<1>4. CASE Tick
  <2>1. LeaseTypeOK'
    BY <1>0, <1>4 DEF Tick, AdvanceClock, LeaseTypeOK
  <2> QED
    BY <1>4, <2>1 DEF Tick, TypeOK, peerVars, workVars
<1>5. CASE UNCHANGED vars
  BY <1>5 DEF vars, leaseVars, peerVars, workVars, TypeOK, LeaseTypeOK
<1> QED
  BY <1>1, <1>2, <1>3, <1>4, <1>5, WorkerType DEF Next, Quiet

(***************************************************************************)
(* A worker comes to an advance only with steps left, or for the           *)
(* advance_link_handshake operation.                                       *)
(***************************************************************************)
LEMMA NextStepsLeft == TypeOK /\ StepsLeft /\ [Next]_vars => StepsLeft'
<1> SUFFICES ASSUME TypeOK, StepsLeft, [Next]_vars PROVE StepsLeft'
  OBVIOUS
<1>1. ASSUME NEW w \in Worker, NEW n \in Step, Goto(w, n),
             \A v \in Worker : v # w => op'[v] = op[v] /\ steps'[v] = steps[v],
             n = "advance" /\ op'[w] = "ensure" => steps'[w] > 0
      PROVE  StepsLeft'
  BY <1>1 DEF StepsLeft, Goto, TypeOK
<1>2. ASSUME UNCHANGED <<pc, op, steps>> PROVE StepsLeft'
  BY <1>2 DEF StepsLeft
<1>a. \A w \in Worker : AfterPending(w) \in Step
                        /\ (AfterPending(w) = "advance" => op[w] # "ensure" \/ steps[w] > 0)
  BY DEF AfterPending, Step
<1>3. ASSUME NEW w \in Worker, NEW n \in Step, Goto(w, n), n # "advance", UNCHANGED <<op, steps>>
      PROVE  StepsLeft'
  BY <1>1, <1>3
<1>4. ASSUME NEW w \in Worker, NEW o \in Operation, Begin(w, o) PROVE StepsLeft'
  BY <1>1, <1>4 DEF Begin, TypeOK, Step
<1>5. ASSUME NEW w \in Worker, Claim(w) PROVE StepsLeft'
  <2>1. FirstStep(op[w]) \in Step /\ (FirstStep(op[w]) = "advance" => op[w] # "ensure")
    BY DEF FirstStep, TypeOK, Operation, Step
  <2> QED
    BY <1>1, <1>5, <2>1 DEF Claim
<1>6. ASSUME NEW w \in Worker, SaveLinking(w) \/ SaveHandshake(w) \/ HandshakePending(w) \/ HandshakeComplete(w)
      PROVE  StepsLeft'
  <2>1. UNCHANGED <<op, steps>> /\ (Goto(w, AfterPending(w)) \/ Goto(w, "release"))
    BY <1>6 DEF SaveLinking, SaveHandshake, HandshakePending, HandshakeComplete, AfterReport, Write
  <2>2. CASE Goto(w, AfterPending(w))
    BY <1>1, <1>a, <2>1, <2>2
  <2>3. CASE Goto(w, "release")
    BY <1>3, <2>1, <2>3 DEF Step
  <2> QED
    BY <2>1, <2>2, <2>3
<1>7. ASSUME NEW w \in Worker, AdvanceRead(w) PROVE StepsLeft'
  BY <1>1, <1>7 DEF AdvanceRead, TypeOK, Step
<1>8. ASSUME NEW w \in Worker,
             \/ ClaimRefused(w) \/ Release(w) \/ Crash(w) \/ Decide(w) \/ BeginHandshake(w)
             \/ SaveLinked(w) \/ RestoreFails(w) \/ AdvanceFails(w)
             \/ MarkRecovery(w) \/ Restart(w) \/ NetworkFails(w) \/ RestoreLink(w)
             \/ LinkBroken(w) \/ ReceiveCommit(w) \/ BlockPeer(w) \/ UnblockPeer(w)
      PROVE  StepsLeft'
  <2>1. UNCHANGED <<op, steps>> /\ \E n \in Step : Goto(w, n) /\ n # "advance"
    BY <1>8 DEF ClaimRefused, Release, Crash, Decide, BeginHandshake, SaveLinked,
       RestoreFails, AdvanceFails, MarkRecovery, Restart, NetworkFails,
       RestoreLink, LinkBroken, ReceiveCommit, BlockPeer, UnblockPeer, Write, Step
  <2> QED
    BY <1>3, <2>1
<1>9. ASSUME NEW w \in Worker, SendCommit(w) PROVE StepsLeft'
  BY <1>2, <1>3, <1>9 DEF SendCommit, Step
<1>10. CASE ClearPrivateState \/ Tick \/ Quiet \/ UNCHANGED vars
  BY <1>2, <1>10 DEF ClearPrivateState, Tick, Quiet, vars, workVars
<1> QED
  BY <1>4, <1>5, <1>6, <1>7, <1>8, <1>9, <1>10 DEF Next, WorkerStep

LEMMA TypeInvariance == Spec => [](TypeOK /\ StepsLeft)
<1>1. Init => StepsLeft
  BY DEF Init, StepsLeft
<1> QED
  BY <1>1, InitType, NextType, NextStepsLeft, PTL DEF Spec

(***************************************************************************)
(* Type correctness: whatever the workers do, the stored records stay of   *)
(* the shape the storage types of paykit-sdk give them, and the loop of    *)
(* ensure_link_with_peer never counts below zero.                          *)
(***************************************************************************)
THEOREM TypeCorrect == Spec => []TypeOK
BY TypeInvariance, PTL

----------------------------------------------------------------------------
(***************************************************************************)
(* A step that leaves the stored records alone and sends worker w to a     *)
(* step it has the knowledge for keeps the invariant.                      *)
(***************************************************************************)
LEMMA ReadKeepsIInv ==
  ASSUME TypeOK, IInv, NEW w \in Worker, NEW n \in Step,
         UNCHANGED peerVars, UNCHANGED leaseVars, Goto(w, n),
         \A v \in Worker : v # w => view'[v] = view[v],
         n = "saveLinked" => HasLink(linkState),
         n = "saveLinking" => HasHandshake(linkState),
         n = "handshake" => HasHandshake(linkState) /\ view'[w] = linkState,
         n = "traffic" => HasLink(linkState) /\ view'[w] = linkState
  PROVE  IInv'
<1>1. LeaseUnique' /\ LinkMatchesPeer' /\ NoResurrectedSnapshot' /\ AbsentIsEmpty'
  BY DEF IInv, LeaseUnique, LinkMatchesPeer, NoResurrectedSnapshot, AbsentIsEmpty,
     leaseVars, peerVars, HasLink, HasHandshake, Exists
<1>2. HolderKnows'
  <2> SUFFICES ASSUME NEW v \in Worker, HoldsLease(v)'
               PROVE  /\ pc'[v] = "saveLinked" => HasLink(linkState')
                      /\ pc'[v] = "saveLinking" => HasHandshake(linkState')
                      /\ pc'[v] = "handshake" => HasHandshake(view'[v]) /\ view'[v] = linkState'
                      /\ pc'[v] = "traffic" => HasLink(view'[v]) /\ view'[v] = linkState'
    BY DEF HolderKnows, HasLink, HasHandshake
  <2>1. HoldsLease(v) /\ linkState' = linkState
    BY DEF HoldsLease, leaseVars, peerVars
  <2>2. CASE v = w
    BY <2>1, <2>2 DEF Goto, TypeOK
  <2>3. CASE v # w
    <3>1. pc'[v] = pc[v] /\ view'[v] = view[v]
      BY <2>3 DEF Goto, TypeOK
    <3> QED
      BY <2>1, <3>1 DEF IInv, HolderKnows
  <2> QED
    BY <2>2, <2>3
<1> QED
  BY <1>1, <1>2 DEF IInv

(***************************************************************************)
(* A change of the stored records by the lease holder keeps the invariant  *)
(* when the new records agree with each other: nobody else holds the       *)
(* lease, so nobody else's knowledge is lost.                              *)
(***************************************************************************)
LEMMA HolderWriteKeepsIInv ==
  ASSUME TypeOK, IInv, NEW w \in Worker, HoldsLease(w), UNCHANGED leaseVars,
         NEW n \in Step, Goto(w, n),
         HasLink(linkState') <=> peer' = "Linked",
         HasHandshake(linkState') <=> peer' = "Linking",
         HasLink(linkState') => linkState'.link.epoch = epochSeq',
         HasHandshake(linkState') => linkState'.hs = epochSeq',
         ~Exists(linkState') => ~HasLink(linkState') /\ ~HasHandshake(linkState'),
         n \notin {"saveLinked", "saveLinking", "handshake"},
         n = "traffic" => HasLink(linkState') /\ view'[w] = linkState'
  PROVE  IInv'
<1>1. LeaseUnique'
  BY DEF IInv, LeaseUnique, leaseVars
<1>2. LinkMatchesPeer' /\ NoResurrectedSnapshot' /\ AbsentIsEmpty'
  BY DEF LinkMatchesPeer, NoResurrectedSnapshot, AbsentIsEmpty, HasLink, HasHandshake, Exists
<1>3. HolderKnows'
  <2> SUFFICES ASSUME NEW v \in Worker, HoldsLease(v)'
               PROVE  /\ pc'[v] = "saveLinked" => HasLink(linkState')
                      /\ pc'[v] = "saveLinking" => HasHandshake(linkState')
                      /\ pc'[v] = "handshake" => HasHandshake(view'[v]) /\ view'[v] = linkState'
                      /\ pc'[v] = "traffic" => HasLink(view'[v]) /\ view'[v] = linkState'
    BY DEF HolderKnows, HasLink, HasHandshake
  <2>1. HoldsLease(v)
    BY DEF HoldsLease, leaseVars
  <2>2. v = w
    BY <2>1, LoneHolder DEF IInv
  <2>3. pc'[v] = n
    BY <2>2 DEF Goto, TypeOK
  <2> QED
    BY <2>2, <2>3
<1> QED
  BY <1>1, <1>2, <1>3 DEF IInv

(***************************************************************************)
(* A transaction made with Write keeps the invariant when the records it   *)
(* would store agree with each other.                                      *)
(***************************************************************************)
LEMMA WriteKeepsIInv ==
  ASSUME TypeOK, IInv, NEW w \in Worker, NEW p, NEW s, NEW n \in Step,
         Write(w, p, s, n), UNCHANGED leaseVars, UNCHANGED view,
         n \notin {"saveLinked", "saveLinking", "handshake", "traffic"},
         ~Admitted(w) => epochSeq' = epochSeq,
         Admitted(w) => /\ HasLink(s) <=> p = "Linked"
                        /\ HasHandshake(s) <=> p = "Linking"
                        /\ HasLink(s) => s.link.epoch = epochSeq'
                        /\ HasHandshake(s) => s.hs = epochSeq'
                        /\ ~Exists(s) => ~HasLink(s) /\ ~HasHandshake(s)
  PROVE  IInv'
<1>1. CASE Admitted(w)
  <2>1. HoldsLease(w) /\ peer' = p /\ linkState' = s /\ Goto(w, n)
    BY <1>1 DEF Write, Admitted
  <2> QED
    BY <1>1, <2>1, HolderWriteKeepsIInv
<1>2. CASE ~Admitted(w)
  <2>1. UNCHANGED peerVars /\ Goto(w, "release") /\ "release" \in Step
    BY <1>2 DEF Write, peerVars, Step
  <2> QED
    BY <2>1, ReadKeepsIInv
<1> QED
  BY <1>1, <1>2

(***************************************************************************)
(* Every step of a worker keeps the invariant.                             *)
(***************************************************************************)
LEMMA WorkerIInv ==
  ASSUME TypeOK, IInv, NEW w \in Worker, WorkerStep(w)
  PROVE  IInv'
<1>0. LeaseTypeOK /\ LeaseUnique /\ linkState \in LinkRecord
  BY DEF TypeOK, IInv
<1>a. /\ "idle" \in Step /\ "release" \in Step /\ "restart" \in Step /\ "mark" \in Step
      /\ "advanceFailed" \in Step /\ "begin" \in Step /\ "saveLinked" \in Step /\ "saveLinking" \in Step
      /\ "initiate" \in Step /\ "handshake" \in Step /\ "traffic" \in Step /\ "advance" \in Step
  BY DEF Step
<1>b. /\ AfterPending(w) \in Step
      /\ AfterPending(w) \notin {"saveLinked", "saveLinking", "handshake", "traffic"}
  BY DEF AfterPending, Step
<1>1. CASE Claim(w)
  <2>1. LeaseUnique'
    BY <1>0, <1>1, LeaseStepUnique DEF Claim
  <2>2. LinkMatchesPeer' /\ NoResurrectedSnapshot' /\ AbsentIsEmpty'
    BY <1>1 DEF Claim, IInv, LinkMatchesPeer, NoResurrectedSnapshot, AbsentIsEmpty,
       peerVars, HasLink, HasHandshake, Exists
  <2>3. \A v \in Worker : HoldsLease(v)' => v = w
    BY <1>0, <1>1, ClaimerIsAlone DEF Claim
  <2>4. pc'[w] \notin {"saveLinked", "saveLinking", "handshake", "traffic"}
    BY <1>1 DEF Claim, Goto, FirstStep, TypeOK, Operation
  <2> QED
    BY <2>1, <2>2, <2>3, <2>4 DEF IInv, HolderKnows
<1>2. CASE ClaimRefused(w)
  BY <1>2, <1>a, ReadKeepsIInv DEF ClaimRefused
<1>3. CASE Release(w)
  <2>1. LeaseUnique'
    BY <1>0, <1>3, LeaseStepUnique DEF Release
  <2>2. LinkMatchesPeer' /\ NoResurrectedSnapshot' /\ AbsentIsEmpty'
    BY <1>3 DEF Release, IInv, LinkMatchesPeer, NoResurrectedSnapshot, AbsentIsEmpty,
       peerVars, HasLink, HasHandshake, Exists
  <2>3. \A v \in Worker : HoldsLease(v)' =>
          HoldsLease(v) /\ pc'[v] = pc[v] /\ view'[v] = view[v]
    BY <1>0, <1>3, LeavingMakesNoHolder DEF Release, Goto, TypeOK
  <2> QED
    BY <1>3, <2>1, <2>2, <2>3 DEF IInv, HolderKnows, Release, peerVars
<1>4. CASE Decide(w)
  BY <1>4, <1>a, ReadKeepsIInv DEF Decide
<1>5. CASE BeginHandshake(w)
  BY <1>5, <1>a, ReadKeepsIInv DEF BeginHandshake
<1>6. CASE Restart(w) \/ NetworkFails(w) \/ LinkBroken(w)
           \/ RestoreFails(w) \/ AdvanceFails(w)
  BY <1>6, <1>a, ReadKeepsIInv
     DEF Restart, NetworkFails, LinkBroken, RestoreFails, AdvanceFails
<1>7. CASE AdvanceRead(w)
  <2>1. view'[w] = linkState /\ \A v \in Worker : v # w => view'[v] = view[v]
    BY <1>7 DEF AdvanceRead, TypeOK
  <2> QED
    BY <1>7, <1>a, <2>1, ReadKeepsIInv DEF AdvanceRead
<1>8. CASE RestoreLink(w)
  <2>1. view'[w] = linkState /\ \A v \in Worker : v # w => view'[v] = view[v]
    BY <1>8 DEF RestoreLink, TypeOK
  <2> QED
    BY <1>8, <1>a, <2>1, ReadKeepsIInv DEF RestoreLink
<1>9. CASE SaveLinked(w)
  <2>1. Admitted(w) => HasLink(linkState)
    BY <1>9 DEF SaveLinked, Admitted, IInv, HolderKnows
  <2>2. Admitted(w) => /\ HasLink(linkState) /\ ~HasHandshake(linkState)
                       /\ linkState.link.epoch = epochSeq /\ Exists(linkState)
    BY <2>1 DEF IInv, LinkMatchesPeer, NoResurrectedSnapshot, AbsentIsEmpty
  <2> QED
    BY <1>9, <1>a, <2>2, WriteKeepsIInv DEF SaveLinked
<1>10. CASE SaveLinking(w)
  <2>1. Admitted(w) => HasHandshake(linkState)
    BY <1>10 DEF SaveLinking, Admitted, IInv, HolderKnows
  <2>2. Admitted(w) => /\ ~HasLink(linkState) /\ HasHandshake(linkState)
                       /\ linkState.hs = epochSeq /\ Exists(linkState)
    BY <2>1 DEF IInv, LinkMatchesPeer, NoResurrectedSnapshot, AbsentIsEmpty
  <2> QED
    BY <1>10, <1>a, <1>b, <2>2, WriteKeepsIInv DEF SaveLinking
<1>11. CASE SaveHandshake(w)
  <2> DEFINE s == Stored(linkState.gen + 1, NoLink, epochSeq + 1)
  <2>1. linkState.gen + 1 \in Nat /\ epochSeq + 1 \in Nat /\ epochSeq + 1 # 0
    BY <1>0 DEF TypeOK, LinkRecord
  <2>2. ~HasLink(s) /\ HasHandshake(s) /\ s.hs = epochSeq + 1 /\ Exists(s)
    BY <2>1, NoLinkType, StoredType DEF HasLink, HasHandshake, Exists
  <2>3. UNCHANGED leaseVars /\ UNCHANGED view /\ Write(w, "Linking", s, AfterPending(w))
        /\ epochSeq' = IF Admitted(w) THEN epochSeq + 1 ELSE epochSeq
    BY <1>11 DEF SaveHandshake
  <2> HIDE DEF s
  <2> QED
    BY <1>a, <1>b, <2>2, <2>3, WriteKeepsIInv
<1>12. CASE HandshakePending(w) \/ HandshakeComplete(w)
  <2>1. Admitted(w) => ~GenerationChanged(w) /\ view[w] = linkState /\ HasHandshake(linkState)
    BY <1>12 DEF HandshakePending, HandshakeComplete, Admitted, IInv, HolderKnows,
       GenerationChanged
  <2>2. view[w].gen + 1 \in Nat /\ view[w].hs \in Nat
    BY DEF TypeOK, LinkRecord
  <2>3. Admitted(w) => view[w].hs = epochSeq /\ view[w].hs # 0
    BY <2>1 DEF IInv, NoResurrectedSnapshot, HasHandshake
  <2>4. CASE ~Admitted(w)
    <3>1. UNCHANGED peerVars /\ UNCHANGED leaseVars /\ UNCHANGED view /\ Goto(w, "release")
      BY <1>12, <2>4 DEF HandshakePending, HandshakeComplete, Write, peerVars
    <3> QED
      BY <1>a, <3>1, ReadKeepsIInv
  <2>5. CASE Admitted(w) /\ HandshakePending(w)
    <3> DEFINE s == Stored(view[w].gen + 1, NoLink, view[w].hs)
    <3>1. ~HasLink(s) /\ HasHandshake(s) /\ s.hs = epochSeq /\ Exists(s)
      BY <2>2, <2>3, <2>5, NoLinkType, StoredType DEF HasLink, HasHandshake, Exists
    <3>2. UNCHANGED <<leaseVars, epochSeq, view>> /\ Write(w, "Linking", s, AfterPending(w))
      BY <2>1, <2>5 DEF HandshakePending
    <3> HIDE DEF s
    <3> QED
      BY <1>a, <1>b, <3>1, <3>2, WriteKeepsIInv
  <2>6. CASE Admitted(w) /\ HandshakeComplete(w)
    <3> DEFINE l == [NoLink EXCEPT !.epoch = view[w].hs]
               s == Stored(view[w].gen + 1, l, 0)
    <3>0. l \in Snapshot /\ l.epoch = view[w].hs
      BY <2>2, NoLinkType DEF Snapshot
    <3>a. s.gen = view[w].gen + 1 /\ s.link = l /\ s.hs = 0
      BY DEF Stored
    <3> HIDE DEF s, l
    <3>1. HasLink(s) /\ ~HasHandshake(s) /\ s.link.epoch = epochSeq /\ Exists(s)
      BY <2>2, <2>3, <2>6, <3>0, <3>a DEF HasLink, HasHandshake, Exists
    <3> USE DEF s, l
    <3>2. UNCHANGED <<leaseVars, epochSeq, view>> /\ Write(w, "Linked", s, "release")
      BY <2>1, <2>6 DEF HandshakeComplete
    <3> HIDE DEF s, l
    <3> QED
      BY <1>a, <3>1, <3>2, WriteKeepsIInv
  <2> QED
    BY <1>12, <2>4, <2>5, <2>6
<1>13. CASE MarkRecovery(w)
  <2>1. ~HasLink(Cleared(linkState)) /\ ~HasHandshake(Cleared(linkState))
    BY <1>0, ClearedType DEF IInv, AbsentIsEmpty
  <2> QED
    BY <1>13, <1>a, <2>1, WriteKeepsIInv DEF MarkRecovery
<1>14. CASE SendCommit(w) \/ ReceiveCommit(w)
  <2>1. HoldsLease(w) => /\ HasLink(linkState) /\ view[w] = linkState
                         /\ peer = "Linked" /\ linkState.link.epoch = epochSeq
    BY <1>14 DEF SendCommit, ReceiveCommit, IInv, HolderKnows, LinkMatchesPeer,
       NoResurrectedSnapshot
  <2>2. view[w].gen + 1 \in Nat /\ view[w].link \in Snapshot
    BY DEF TypeOK, LinkRecord
  <2>3. CASE ~HoldsLease(w)
    <3>1. UNCHANGED peerVars /\ UNCHANGED leaseVars /\ UNCHANGED view /\ Goto(w, "release")
      BY <1>14, <2>3 DEF SendCommit, ReceiveCommit, peerVars
    <3> QED
      BY <1>a, <3>1, ReadKeepsIInv
  <2>4. CASE HoldsLease(w) /\ SendCommit(w)
    <3> DEFINE l == [view[w].link EXCEPT !.sent = @ + 1]
               s == Stored(view[w].gen + 1, l, 0)
    <3>0. l \in Snapshot /\ l.epoch = view[w].link.epoch
      BY <2>2 DEF Snapshot
    <3>a. s.gen = view[w].gen + 1 /\ s.link = l /\ s.hs = 0
      BY DEF Stored
    <3> HIDE DEF s, l
    <3>1. HasLink(s) /\ ~HasHandshake(s) /\ s.link.epoch = epochSeq /\ Exists(s)
      BY <2>1, <2>2, <2>4, <3>0, <3>a DEF HasLink, HasHandshake, Exists
    <3> USE DEF s, l
    <3>2. /\ UNCHANGED <<leaseVars, epochSeq, peer>> /\ linkState' = s
          /\ view'[w] = s /\ Goto(w, "traffic")
      BY <2>4 DEF SendCommit, TypeOK, Goto
    <3> HIDE DEF s, l
    <3> QED
      BY <1>a, <2>1, <2>4, <3>1, <3>2, HolderWriteKeepsIInv
  <2>5. CASE HoldsLease(w) /\ ReceiveCommit(w)
    <3> DEFINE l == [view[w].link EXCEPT !.rcvd = @ + 1]
               s == Stored(view[w].gen + 1, l, 0)
    <3>0. l \in Snapshot /\ l.epoch = view[w].link.epoch
      BY <2>2 DEF Snapshot
    <3>a. s.gen = view[w].gen + 1 /\ s.link = l /\ s.hs = 0
      BY DEF Stored
    <3> HIDE DEF s, l
    <3>1. HasLink(s) /\ ~HasHandshake(s) /\ s.link.epoch = epochSeq /\ Exists(s)
      BY <2>1, <2>2, <2>5, <3>0, <3>a DEF HasLink, HasHandshake, Exists
    <3> USE DEF s, l
    <3>2. UNCHANGED <<leaseVars, epochSeq, peer>> /\ linkState' = s /\ Goto(w, "release")
      BY <2>5 DEF ReceiveCommit
    <3> HIDE DEF s, l
    <3> QED
      BY <1>a, <2>1, <2>5, <3>1, <3>2, HolderWriteKeepsIInv
  <2> QED
    BY <1>14, <2>3, <2>4, <2>5
<1>15. CASE BlockPeer(w) \/ UnblockPeer(w)
  <2>1. ~HasLink(Cleared(linkState)) /\ ~HasHandshake(Cleared(linkState))
    BY <1>0, ClearedType DEF IInv, AbsentIsEmpty
  <2>2. UNCHANGED <<leaseVars, epochSeq, view>> /\ Goto(w, "release")
    BY <1>15 DEF BlockPeer, UnblockPeer
  <2>3. CASE UNCHANGED <<peer, linkState>>
    BY <1>a, <2>2, <2>3, ReadKeepsIInv DEF peerVars
  <2>4. CASE ~UNCHANGED <<peer, linkState>>
    <3>1. /\ HoldsLease(w) /\ peer' \in {"Blocked", "NotLinked"}
          /\ linkState' = Cleared(linkState)
      BY <1>15, <2>4 DEF BlockPeer, UnblockPeer
    <3> QED
      BY <1>a, <2>1, <2>2, <3>1, HolderWriteKeepsIInv
  <2> QED
    BY <2>3, <2>4
<1> QED
  BY <1>1, <1>2, <1>3, <1>4, <1>5, <1>6, <1>7, <1>8, <1>9, <1>10, <1>11, <1>12, <1>13,
     <1>14, <1>15 DEF WorkerStep

(***************************************************************************)
(* The invariant holds initially and every step keeps it.                  *)
(***************************************************************************)
LEMMA InitIInv == Init => IInv
<1> SUFFICES ASSUME Init PROVE IInv
  OBVIOUS
<1>1. ~HasLink(linkState) /\ ~HasHandshake(linkState)
  BY NoLinkType, StoredType DEF Init, Absent, HasLink, HasHandshake
<1>2. \A w \in Worker : ~HoldsLease(w)
  BY DEF Init, LeaseInit, HoldsLease
<1>3. LeaseUnique
  BY DEF Init, LeaseInit, LeaseUnique, NoLease
<1> QED
  BY <1>1, <1>2, <1>3 DEF IInv, LinkMatchesPeer, NoResurrectedSnapshot, AbsentIsEmpty,
     HolderKnows, Init

LEMMA NextIInv == TypeOK /\ IInv /\ [Next]_vars => IInv'
<1> SUFFICES ASSUME TypeOK, IInv, [Next]_vars PROVE IInv'
  OBVIOUS
<1>0. LeaseTypeOK /\ LeaseUnique
  BY DEF TypeOK, IInv
<1>1. ASSUME NEW w \in Worker, NEW o \in Operation, Begin(w, o) PROVE IInv'
  <2>1. Goto(w, "claim") /\ "claim" \in Step
    BY <1>1 DEF Begin, Step
  <2> QED
    BY <1>1, <2>1, ReadKeepsIInv DEF Begin
<1>2. ASSUME NEW w \in Worker, Crash(w) PROVE IInv'
  <2>1. LeaseUnique'
    BY <1>0, <1>2, LeaseStepUnique DEF Crash
  <2>2. LinkMatchesPeer' /\ NoResurrectedSnapshot' /\ AbsentIsEmpty'
    BY <1>2 DEF Crash, IInv, LinkMatchesPeer, NoResurrectedSnapshot, AbsentIsEmpty,
       peerVars, HasLink, HasHandshake, Exists
  <2>3. \A v \in Worker : HoldsLease(v)' =>
          HoldsLease(v) /\ pc'[v] = pc[v] /\ view'[v] = view[v]
    BY <1>0, <1>2, LeavingMakesNoHolder DEF Crash, Goto, TypeOK
  <2> QED
    BY <1>2, <2>1, <2>2, <2>3 DEF IInv, HolderKnows, Crash, peerVars
<1>3. CASE ClearPrivateState
  <2>1. LeaseUnique'
    BY <1>0, <1>3 DEF ClearPrivateState, ClearLease, LeaseUnique, LeaseTypeOK, NoLease
  <2>2. ~HasLink(Absent) /\ ~HasHandshake(Absent)
    BY NoLinkType, StoredType DEF Absent, HasLink, HasHandshake
  <2>3. LinkMatchesPeer' /\ NoResurrectedSnapshot' /\ AbsentIsEmpty'
    BY <1>3, <2>2 DEF ClearPrivateState, LinkMatchesPeer, NoResurrectedSnapshot,
       AbsentIsEmpty
  <2>4. \A v \in Worker : ~HoldsLease(v)'
    BY <1>3 DEF ClearPrivateState, ClearLease, HoldsLease, NoLease
  <2> QED
    BY <2>1, <2>3, <2>4 DEF IInv, HolderKnows
<1>4. CASE Tick \/ UNCHANGED vars
  <2>1. UNCHANGED <<lease, leaseSeq, held, peerVars, workVars>>
    BY <1>4 DEF Tick, AdvanceClock, vars, leaseVars
  <2> QED
    BY <2>1 DEF IInv, LeaseUnique, LinkMatchesPeer, NoResurrectedSnapshot, AbsentIsEmpty,
       HolderKnows, HoldsLease, HasLink, HasHandshake, Exists, peerVars, workVars
<1> QED
  BY <1>1, <1>2, <1>3, <1>4, WorkerIInv DEF Next, Quiet

LEMMA Invariance == Spec => [](TypeOK /\ IInv)
BY TypeCorrect, InitIInv, NextIInv, PTL DEF Spec

(***************************************************************************)
(* The Linked Peer record and the Encrypted Link state record agree after  *)
(* every transaction, although most operations write only one of them.     *)
(***************************************************************************)
THEOREM RecordsAgree == Spec => []LinkMatchesPeer
BY Invariance, PTL DEF IInv

(***************************************************************************)
(* A worker that passes require_peer_link_operation_lease works on the     *)
(* record that is stored: what it read before its network call is not      *)
(* stale when it writes it back.                                           *)
(***************************************************************************)
THEOREM HolderIsFresh == Spec => []HolderViewFresh
<1>1. IInv => HolderViewFresh
  BY DEF IInv, HolderKnows, HolderViewFresh
<1> QED
  BY <1>1, Invariance, PTL

(***************************************************************************)
(* Only snapshots of the handshake saved last are ever stored, whatever    *)
(* replaced, crashed or slow workers do.                                   *)
(***************************************************************************)
THEOREM NoResurrection == Spec => []NoResurrectedSnapshot
BY Invariance, PTL DEF IInv

(***************************************************************************)
(* Every step leaves the stored link or moves it forward.                  *)
(***************************************************************************)
LEMMA StepForward == TypeOK /\ IInv /\ [Next]_vars => [SnapshotForward]_vars
<1> SUFFICES ASSUME TypeOK, IInv, [Next]_vars PROVE SnapshotForward
  OBVIOUS
<1>0. /\ linkState \in LinkRecord /\ linkState.link \in Snapshot /\ linkState.gen \in Int
      /\ linkState.link.sent \in Nat /\ linkState.link.rcvd \in Nat
  BY DEF TypeOK, LinkRecord, Snapshot
<1>1. CASE UNCHANGED linkState
  BY <1>0, <1>1 DEF SnapshotForward
<1>2. ASSUME linkState'.gen = linkState.gen + 1, ~HasLink(linkState')
      PROVE  SnapshotForward
  BY <1>0, <1>2 DEF SnapshotForward, HasLink
<1>3. ASSUME linkState' = Cleared(linkState) PROVE SnapshotForward
  BY <1>0, <1>1, <1>2, <1>3, ClearedType
<1>4. CASE ClearPrivateState
  <2>1. ~HasLink(linkState') /\ ~Exists(linkState')
    BY <1>4, NoLinkType, StoredType DEF ClearPrivateState, Absent, HasLink, Exists
  <2> QED
    BY <2>1 DEF SnapshotForward, HasLink
<1>5. ASSUME NEW w \in Worker, SaveHandshake(w) PROVE SnapshotForward
  <2>1. linkState.gen + 1 \in Nat /\ epochSeq + 1 \in Nat
    BY DEF TypeOK, LinkRecord
  <2>2. CASE Admitted(w)
    BY <1>2, <1>5, <2>1, <2>2, NoLinkType, StoredType DEF SaveHandshake, Write, HasLink
  <2>3. CASE ~Admitted(w)
    BY <1>1, <1>5, <2>3 DEF SaveHandshake, Write
  <2> QED
    BY <2>2, <2>3
<1>6. ASSUME NEW w \in Worker, HandshakePending(w) \/ HandshakeComplete(w)
      PROVE  SnapshotForward
  <2>1. CASE ~Admitted(w)
    BY <1>1, <1>6, <2>1 DEF HandshakePending, HandshakeComplete, Write
  <2>2. CASE Admitted(w)
    <3>1. ~GenerationChanged(w) /\ view[w] = linkState /\ ~HasLink(linkState)
      BY <1>6, <2>2 DEF HandshakePending, HandshakeComplete, Admitted, IInv, HolderKnows,
         GenerationChanged, LinkMatchesPeer
    <3>2. \E l, h : linkState' = Stored(linkState.gen + 1, l, h)
      BY <1>6, <2>2, <3>1 DEF HandshakePending, HandshakeComplete, Write
    <3>3. linkState'.gen = linkState.gen + 1
      BY <3>2 DEF Stored
    <3> QED
      BY <1>0, <3>1, <3>3 DEF SnapshotForward
  <2> QED
    BY <2>1, <2>2
<1>7. ASSUME NEW w \in Worker, SendCommit(w) \/ ReceiveCommit(w) PROVE SnapshotForward
  <2>1. CASE ~HoldsLease(w)
    BY <1>1, <1>7, <2>1 DEF SendCommit, ReceiveCommit
  <2>2. CASE HoldsLease(w)
    <3>1. view[w] = linkState
      BY <1>7, <2>2 DEF SendCommit, ReceiveCommit, IInv, HolderKnows
    <3>2. \/ linkState' = Stored(linkState.gen + 1, [linkState.link EXCEPT !.sent = @ + 1], 0)
          \/ linkState' = Stored(linkState.gen + 1, [linkState.link EXCEPT !.rcvd = @ + 1], 0)
      BY <1>7, <2>2, <3>1 DEF SendCommit, ReceiveCommit
    <3>3. linkState'.gen = linkState.gen + 1
      BY <3>2 DEF Stored
    <3>4. /\ linkState'.link.sent >= linkState.link.sent
          /\ linkState'.link.rcvd >= linkState.link.rcvd
      BY <1>0, <3>2 DEF Stored, Snapshot
    <3> QED
      BY <1>0, <3>3, <3>4 DEF SnapshotForward
  <2> QED
    BY <2>1, <2>2
<1>8. ASSUME NEW w \in Worker, MarkRecovery(w) \/ BlockPeer(w) \/ UnblockPeer(w)
      PROVE  SnapshotForward
  BY <1>1, <1>3, <1>8 DEF MarkRecovery, BlockPeer, UnblockPeer, Write
<1>9. ASSUME NEW w \in Worker, SaveLinked(w) \/ SaveLinking(w) PROVE SnapshotForward
  BY <1>1, <1>9 DEF SaveLinked, SaveLinking, Write
<1>10. ASSUME NEW w \in Worker,
              \/ Claim(w) \/ ClaimRefused(w) \/ Release(w) \/ Decide(w) \/ BeginHandshake(w)
              \/ AdvanceRead(w) \/ RestoreFails(w) \/ AdvanceFails(w) \/ Restart(w) \/ NetworkFails(w)
              \/ RestoreLink(w) \/ LinkBroken(w) \/ Crash(w) \/ (\E o \in Operation : Begin(w, o))
       PROVE  SnapshotForward
  BY <1>1, <1>10 DEF Claim, ClaimRefused, Release, Decide, BeginHandshake, AdvanceRead,
     RestoreFails, AdvanceFails, Restart, NetworkFails, RestoreLink, LinkBroken, Crash, Begin, peerVars
<1>11. CASE Tick \/ Quiet \/ UNCHANGED vars
  BY <1>1, <1>11 DEF Tick, Quiet, vars, peerVars
<1> QED
  BY <1>4, <1>5, <1>6, <1>7, <1>8, <1>9, <1>10, <1>11 DEF Next, WorkerStep

(***************************************************************************)
(* No step takes a stored Encrypted Link back to an earlier checkpoint.    *)
(***************************************************************************)
THEOREM NoRollback == Spec => SnapshotNeverRollsBack
BY Invariance, StepForward, PTL DEF Spec, SnapshotNeverRollsBack

(***************************************************************************)
(* An operation that was under way when the peer was blocked does not lift *)
(* the block: only unblock_peer under the lease and the clearing of the    *)
(* identity's state do.                                                    *)
(***************************************************************************)
THEOREM BlockHolds == Spec => BlockedUntilUnblocked
<1>1. TypeOK /\ IInv /\ [Next]_vars => [BlockKept]_vars
  <2> SUFFICES ASSUME TypeOK, IInv, [Next]_vars, peer = "Blocked", peer' # "Blocked"
               PROVE  \/ peer' = "Absent"
                      \/ /\ peer' = "NotLinked"
                         /\ \E w \in Worker : pc[w] = "unblock" /\ HoldsLease(w)
    BY DEF BlockKept
  <2>1. ASSUME NEW w \in Worker, WorkerStep(w)
        PROVE  pc[w] = "unblock" /\ HoldsLease(w) /\ peer' = "NotLinked"
    BY <2>1, SMTT(20) DEF WorkerStep, Claim, ClaimRefused, Release, Decide, BeginHandshake, SaveLinked,
       SaveLinking, SaveHandshake, AdvanceRead, HandshakePending, HandshakeComplete,
       RestoreFails, AdvanceFails, MarkRecovery, Restart, NetworkFails, RestoreLink, LinkBroken,
       SendCommit, ReceiveCommit, BlockPeer, UnblockPeer, Write, Admitted, peerVars
  <2> QED
    BY <2>1 DEF Next, Begin, Crash, ClearPrivateState, Tick, Quiet, vars, peerVars
<1> QED
  BY <1>1, Invariance, PTL DEF Spec, BlockedUntilUnblocked

-----------------------------------------------------------------------------
(* Contacts                                                                *)

ContactState ==
  [paths : SUBSET Receiver, status : MarkerStatus \cup {"None"}, at : Receiver \cup {NoPath},
   published : BOOLEAN, removed : BOOLEAN, error : BOOLEAN]
ContactCall == [pc : CallStep, path : Receiver \cup {NoPath}, had : BOOLEAN]

ContactTypes ==
  /\ contact \in ContactState
  /\ markers \in SUBSET (Receiver \cup {NoPath})
  /\ call \in [Caller -> ContactCall]

\* While the marker is put the record announces it, and while it is deleted the record
\* does not call it published; the record stays until then.
CallAnnounced(c) ==
  /\ call[c].pc \in {"put", "recordPublished"} =>
       contact.status = "PendingPublication" /\ contact.at = call[c].path
  /\ call[c].pc = "recordPublished" => call[c].path \in markers
  /\ call[c].pc = "pendRemoval" => MayHavePublicMarker(contact)
  /\ call[c].pc = "delete" => contact.status # "Published"

ContactInv ==
  /\ ContactTypes
  /\ \A c \in Caller : CallAnnounced(c)
  /\ contact.status \in {"None", "NotPublished", "Removed"} => ~contact.published
  /\ PublishedIsThere

LEMMA ContactDefaults ==
  /\ NoContact \in ContactState /\ NoContact.status = "None" /\ ~NoContact.published
  /\ Idle \in ContactCall /\ Idle.pc = "idle"
BY Zenon DEF NoContact, ContactState, Idle, ContactCall, CallStep

\* What each transition makes of a record.
LEMMA ContactTransitions ==
  ASSUME NEW rec \in ContactState, NEW path \in Receiver \cup {NoPath},
         NEW paths \in SUBSET Receiver
  PROVE  /\ FromUpdate(rec, paths) \in ContactState
         /\ FromUpdate(rec, paths).published = rec.published
         /\ FromUpdate(rec, paths).removed = rec.removed
         /\ \/ rec.status = "None" /\ FromUpdate(rec, paths).status = "NotPublished"
            \/ /\ FromUpdate(rec, paths).status = rec.status
               /\ FromUpdate(rec, paths).at = rec.at
         /\ PublicationPending(rec, path) \in ContactState
         /\ PublicationPending(rec, path).status = "PendingPublication"
         /\ PublicationPending(rec, path).at = path
         /\ MarkPublished(rec) \in ContactState
         /\ MarkPublished(rec).status = "Published" /\ MarkPublished(rec).at = rec.at
         /\ RemovalPending(rec, path) \in ContactState
         /\ RemovalPending(rec, path).status = "PendingRemoval"
         /\ MarkRemoved(rec) \in ContactState
         /\ MarkRemoved(rec).status = "Removed" /\ ~MarkRemoved(rec).published
         /\ MarkFailed(rec) \in ContactState /\ MarkFailed(rec).status = "Failed"
<1>1. /\ FromUpdate(rec, paths) \in ContactState
      /\ FromUpdate(rec, paths).published = rec.published
      /\ FromUpdate(rec, paths).removed = rec.removed
      /\ \/ rec.status = "None" /\ FromUpdate(rec, paths).status = "NotPublished"
         \/ /\ FromUpdate(rec, paths).status = rec.status
            /\ FromUpdate(rec, paths).at = rec.at
  <2>1. CASE rec = NoContact
    <3>1. FromUpdate(rec, paths) = [rec EXCEPT !.paths = paths, !.status = "NotPublished"]
      BY <2>1 DEF FromUpdate
    <3> QED  BY <2>1, <3>1, ContactDefaults, Zenon DEF ContactState, MarkerStatus
  <2>2. CASE rec # NoContact
    BY <2>2 DEF FromUpdate, ContactState
  <2> QED  BY <2>1, <2>2
<1>2. /\ PublicationPending(rec, path) \in ContactState
      /\ PublicationPending(rec, path).status = "PendingPublication"
      /\ PublicationPending(rec, path).at = path
  BY Zenon DEF PublicationPending, ContactState, MarkerStatus
<1>3. /\ MarkPublished(rec) \in ContactState
      /\ MarkPublished(rec).status = "Published" /\ MarkPublished(rec).at = rec.at
  BY Zenon DEF MarkPublished, ContactState, MarkerStatus
<1>4. /\ RemovalPending(rec, path) \in ContactState
      /\ RemovalPending(rec, path).status = "PendingRemoval"
  BY Zenon DEF RemovalPending, ContactState, MarkerStatus
<1>5. /\ MarkRemoved(rec) \in ContactState
      /\ MarkRemoved(rec).status = "Removed" /\ ~MarkRemoved(rec).published
  BY Zenon DEF MarkRemoved, ContactState, MarkerStatus
<1>6. MarkFailed(rec) \in ContactState /\ MarkFailed(rec).status = "Failed"
  BY Zenon DEF MarkFailed, ContactState, MarkerStatus
<1> QED  BY <1>1, <1>2, <1>3, <1>4, <1>5, <1>6

\* A call that goes to another step, its path kept or given.
LEMMA CallChanges ==
  ASSUME ContactTypes, NEW c \in Caller, NEW step \in CallStep
  PROVE  /\ [call EXCEPT ![c].pc = step] \in [Caller -> ContactCall]
         /\ [call EXCEPT ![c].pc = step][c].pc = step
         /\ [call EXCEPT ![c].pc = step][c].path = call[c].path
         /\ [call EXCEPT ![c] = Idle] \in [Caller -> ContactCall]
         /\ [call EXCEPT ![c] = Idle][c].pc = "idle"
         /\ \A path \in Receiver \cup {NoPath}, had \in BOOLEAN :
              [call EXCEPT ![c] = [pc |-> step, path |-> path, had |-> had]]
                \in [Caller -> ContactCall]
BY ContactDefaults DEF ContactTypes, ContactCall

\* Calls that are one transaction, beside the call that is under way.
LEMMA SaveContactKeeps ==
  ASSUME ContactInv, NEW paths \in SUBSET Receiver, SaveContact(paths)
  PROVE  ContactInv'
<1>1. contact \in ContactState /\ UNCHANGED <<markers, call>>
  BY DEF SaveContact, ContactInv, ContactTypes
<1>2. /\ contact' \in ContactState /\ contact'.published = contact.published
      /\ contact'.removed = contact.removed
      /\ \/ contact.status = "None" /\ contact'.status = "NotPublished"
         \/ contact'.status = contact.status /\ contact'.at = contact.at
  BY <1>1, ContactTransitions DEF SaveContact
<1>3. \A c \in Caller : CallAnnounced(c)'
  BY <1>1, <1>2 DEF ContactInv, CallAnnounced, MayHavePublicMarker
<1> QED  BY <1>1, <1>2, <1>3 DEF ContactInv, ContactTypes, PublishedIsThere

LEMMA RemoveContactKeeps == ASSUME ContactInv, RemoveContact PROVE ContactInv'
<1>1. /\ contact' = NoContact /\ UNCHANGED <<markers, call>>
      /\ contact.status \in {"NotPublished", "Removed"} /\ ~contact.published
  BY DEF RemoveContact, CanRemoveLocally, ContactInv
<1>2. ~MayHavePublicMarker(contact)
  BY <1>1 DEF MayHavePublicMarker
<1>3. \A c \in Caller : CallAnnounced(c)'
  BY <1>1, <1>2, ContactDefaults DEF ContactInv, CallAnnounced
<1> QED  BY <1>1, <1>3, ContactDefaults DEF ContactInv, ContactTypes, PublishedIsThere

LEMMA ReconfigureKeeps == ASSUME ContactInv, Reconfigure PROVE ContactInv'
BY DEF Reconfigure, ContactInv, ContactTypes, CallAnnounced, MayHavePublicMarker,
   PublishedIsThere

\* The only call moves, and what it leaves fits its step.
LEMMA OnlyCallMoves ==
  ASSUME \A c, d \in Caller : c = d, NEW c \in Caller, ContactTypes', CallAnnounced(c)',
         contact'.status \in {"None", "NotPublished", "Removed"} => ~contact'.published,
         PublishedIsThere'
  PROVE  ContactInv'
BY DEF ContactInv

\* The record announces the marker before the request.
LEMMA PublishKeeps ==
  ASSUME \A c, d \in Caller : c = d, ContactInv, NEW c \in Caller,
         NEW path \in Receiver \cup {NoPath}, Publish(c, path)
  PROVE  ContactInv'
<1>1. ContactTypes
  BY DEF ContactInv
<1>2. CASE sharing /\ Saved /\ path \in contact.paths
  <2>1. /\ contact' = PublicationPending(contact, path) /\ UNCHANGED markers
        /\ call' = [call EXCEPT ![c] = [pc |-> "put", path |-> path, had |-> TRUE]]
    BY <1>2 DEF Publish
  <2>2. /\ contact' \in ContactState /\ contact'.status = "PendingPublication"
        /\ contact'.at = path
    BY <1>1, <2>1, ContactTransitions, SMTT(20) DEF ContactTypes
  <2>3. ContactTypes'
    BY <1>1, <2>1, <2>2, CallChanges, Zenon DEF ContactTypes, CallStep
  <2>4. call'[c].pc = "put" /\ call'[c].path = path
    BY <1>1, <2>1 DEF ContactTypes
  <2> QED  BY <2>2, <2>3, <2>4, OnlyCallMoves DEF CallAnnounced, PublishedIsThere
<1>3. CASE ~(sharing /\ Saved /\ path \in contact.paths)
  <2>1. call' = [call EXCEPT ![c] = Idle] /\ UNCHANGED <<contact, markers>>
    BY <1>3 DEF Publish, Return
  <2>2. ContactTypes' /\ call'[c].pc = "idle"
    BY <1>1, <2>1, CallChanges, Zenon DEF ContactTypes, CallStep
  <2> QED  BY <2>1, <2>2, OnlyCallMoves DEF ContactInv, CallAnnounced, PublishedIsThere
<1> QED  BY <1>2, <1>3

LEMMA PutMarkerKeeps ==
  ASSUME \A c, d \in Caller : c = d, ContactInv, NEW c \in Caller, PutMarker(c)
  PROVE  ContactInv'
<1>1. /\ ContactTypes /\ call[c].pc = "put" /\ UNCHANGED contact
      /\ call[c].path \in Receiver \cup {NoPath}
      /\ contact.status = "PendingPublication" /\ contact.at = call[c].path
  BY DEF PutMarker, At, ContactInv, CallAnnounced, ContactTypes, ContactCall
<1>2. \/ /\ call' = [call EXCEPT ![c].pc = "recordPublished"]
         /\ markers' = markers \cup {call[c].path}
      \/ /\ call' = [call EXCEPT ![c].pc = "recordFailed"]
         /\ markers' \in {markers, markers \cup {call[c].path}}
  BY DEF PutMarker, Continue
<1>3. /\ ContactTypes' /\ call'[c].path = call[c].path
      /\ \/ call'[c].pc = "recordPublished" /\ call[c].path \in markers'
         \/ call'[c].pc = "recordFailed"
  <2>1. markers' \in SUBSET (Receiver \cup {NoPath}) /\ contact' \in ContactState
    BY <1>1, <1>2 DEF ContactTypes
  <2>2. /\ call' \in [Caller -> ContactCall] /\ call'[c].path = call[c].path
        /\ \/ call'[c].pc = "recordPublished" /\ call[c].path \in markers'
           \/ call'[c].pc = "recordFailed"
    BY <1>1, <1>2, ContactDefaults DEF ContactTypes, ContactCall, CallStep
  <2> QED  BY <2>1, <2>2 DEF ContactTypes
<1> QED  BY <1>1, <1>3, OnlyCallMoves DEF CallAnnounced, PublishedIsThere

LEMMA RecordKeeps ==
  ASSUME \A c, d \in Caller : c = d, ContactInv, NEW c \in Caller,
         RecordPublished(c) \/ RecordFailed(c) \/ RecordRemoved(c)
  PROVE  ContactInv'
<1>1. ContactTypes /\ contact \in ContactState /\ NoPath \in Receiver \cup {NoPath}
  BY DEF ContactInv, ContactTypes
<1>2. call' = [call EXCEPT ![c] = Idle] /\ UNCHANGED markers
  BY DEF RecordPublished, RecordFailed, RecordRemoved, Return
<1>3. \/ UNCHANGED contact
      \/ contact' = MarkFailed(contact)
      \/ contact' = MarkRemoved(contact)
      \/ contact' = MarkPublished(contact) /\ contact.at \in markers
  BY DEF RecordPublished, RecordFailed, RecordRemoved, At, ContactInv, CallAnnounced
<1>4. contact' \in ContactState
  BY <1>1, <1>3, ContactTransitions
<1>5. ContactTypes' /\ call'[c].pc = "idle"
  BY <1>1, <1>2, <1>4, CallChanges, Zenon DEF ContactTypes, CallStep
<1>6. /\ contact'.status \in {"None", "NotPublished", "Removed"} => ~contact'.published
      /\ PublishedIsThere'
  BY <1>1, <1>2, <1>3, ContactTransitions DEF ContactInv, PublishedIsThere
<1> QED  BY <1>5, <1>6, OnlyCallMoves DEF CallAnnounced

LEMMA RemovePublicKeeps ==
  ASSUME \A c, d \in Caller : c = d, ContactInv, NEW c \in Caller,
         NEW path \in Receiver \cup {NoPath}, remove_public_contact(c, path)
  PROVE  ContactInv'
<1>1. ContactTypes /\ UNCHANGED <<contact, markers>>
  BY DEF remove_public_contact, ContactInv
<1>2. \/ /\ MayHavePublicMarker(contact)
         /\ call' = [call EXCEPT ![c] = [pc |-> "pendRemoval", path |-> path, had |-> TRUE]]
      \/ call' = [call EXCEPT ![c] = Idle]
      \/ /\ ~MayHavePublicMarker(contact)
         /\ \E had \in BOOLEAN :
              call' = [call EXCEPT ![c] = [pc |-> "delete", path |-> path, had |-> had]]
  BY Zenon DEF remove_public_contact, Return, Saved
<1>3. ContactTypes'
  <2>1. \E new \in ContactCall : call' = [call EXCEPT ![c] = new]
    BY <1>1, <1>2, ContactDefaults, Zenon DEF ContactCall, CallStep
  <2> QED  BY <1>1, <2>1 DEF ContactTypes
<1>4. \/ call'[c].pc = "pendRemoval" /\ MayHavePublicMarker(contact)
      \/ call'[c].pc = "idle"
      \/ call'[c].pc = "delete" /\ contact.status # "Published"
  BY <1>1, <1>2, ContactDefaults DEF ContactTypes, MayHavePublicMarker
<1> QED
  BY <1>1, <1>3, <1>4, OnlyCallMoves DEF ContactInv, CallAnnounced, MayHavePublicMarker,
     PublishedIsThere

\* The removal is recorded before the request.
LEMMA MarkerPendRemovalKeeps ==
  ASSUME \A c, d \in Caller : c = d, ContactInv, NEW c \in Caller, PendRemoval(c)
  PROVE  ContactInv'
<1>1. /\ ContactTypes /\ call[c].path \in Receiver \cup {NoPath} /\ contact \in ContactState
      /\ MayHavePublicMarker(contact)
  BY DEF PendRemoval, At, ContactInv, CallAnnounced, ContactTypes, ContactCall
<1>2. Saved
  BY <1>1, ContactDefaults DEF Saved, MayHavePublicMarker
<1>3. /\ contact' = RemovalPending(contact, call[c].path) /\ UNCHANGED markers
      /\ call' = [call EXCEPT ![c].pc = "delete"]
  BY <1>2 DEF PendRemoval, Continue
<1>4. contact' \in ContactState /\ contact'.status = "PendingRemoval"
  BY <1>1, <1>3, ContactTransitions
<1>5. ContactTypes' /\ call'[c].pc = "delete"
  BY <1>1, <1>3, <1>4, CallChanges, Zenon DEF ContactTypes, CallStep
<1> QED  BY <1>4, <1>5, OnlyCallMoves DEF CallAnnounced, PublishedIsThere

LEMMA DeleteMarkerKeeps ==
  ASSUME \A c, d \in Caller : c = d, ContactInv, NEW c \in Caller, DeleteMarker(c)
  PROVE  ContactInv'
<1>1. /\ ContactTypes /\ call[c].pc = "delete" /\ UNCHANGED contact
      /\ contact.status # "Published"
  BY DEF DeleteMarker, At, ContactInv, CallAnnounced
<1>2. /\ markers' \in {markers, markers \ {call[c].path}}
      /\ \E step \in {"idle", "recordRemoved", "recordFailed"} : call' = [call EXCEPT ![c].pc = step]
  BY DEF DeleteMarker, Continue
<1>3. ContactTypes' /\ call'[c].pc \in {"idle", "recordRemoved", "recordFailed"}
  <2>1. markers' \in SUBSET (Receiver \cup {NoPath}) /\ contact' \in ContactState
    BY <1>1, <1>2 DEF ContactTypes
  <2>2. /\ call' \in [Caller -> ContactCall]
        /\ call'[c].pc \in {"idle", "recordRemoved", "recordFailed"}
    BY <1>1, <1>2, ContactDefaults DEF ContactTypes, ContactCall, CallStep
  <2> QED  BY <2>1, <2>2 DEF ContactTypes
<1> QED  BY <1>1, <1>3, OnlyCallMoves DEF ContactInv, CallAnnounced, PublishedIsThere

\* The sync goes to the call that the record asks for, and a call may stop anywhere.
LEMMA SyncOrStopKeeps ==
  ASSUME \A c, d \in Caller : c = d, ContactInv, NEW c \in Caller,
         SyncPublicContactMarkers(c) \/ CallerStops(c)
  PROVE  ContactInv'
<1>1. ContactTypes /\ contact.at \in Receiver \cup {NoPath} /\ UNCHANGED <<contact, markers>>
  BY DEF SyncPublicContactMarkers, CallerStops, ContactInv, ContactTypes, ContactState
<1>2. \/ call' = [call EXCEPT ![c] = Idle]
      \/ \E step \in {"remove", "publish", "recordFailed"} :
           call' = [call EXCEPT ![c] = [pc |-> step, path |-> contact.at, had |-> TRUE]]
  BY DEF SyncPublicContactMarkers, CallerStops, Return
<1>3. ContactTypes'
  <2>1. \E new \in ContactCall : call' = [call EXCEPT ![c] = new]
    BY <1>1, <1>2, ContactDefaults, Zenon DEF ContactCall, CallStep
  <2> QED  BY <1>1, <2>1 DEF ContactTypes
<1>4. call'[c].pc \in {"idle", "remove", "publish", "recordFailed"}
  BY <1>1, <1>2, ContactDefaults DEF ContactTypes
<1> QED  BY <1>1, <1>3, <1>4, OnlyCallMoves DEF ContactInv, CallAnnounced, PublishedIsThere

LEMMA ContactsStep ==
  ASSUME \A c, d \in Caller : c = d, ContactInv, ContactsNext
  PROVE  ContactInv'
<1>1. \A c \in Caller : call[c].path \in Receiver \cup {NoPath}
  BY DEF ContactInv, ContactTypes, ContactCall
<1>2. ASSUME NEW c \in Caller, CallSteps(c) PROVE ContactInv'
  BY <1>1, <1>2, PublishKeeps, PutMarkerKeeps, RecordKeeps, RemovePublicKeeps,
     MarkerPendRemovalKeeps, DeleteMarkerKeeps DEF CallSteps, PublishPending, RemovePending
<1>3. ASSUME NEW c \in Caller, NEW path \in Receiver,
             PublishPublicContact(c, path) \/ RemovePublicContact(c, path)
      PROVE  ContactInv'
  BY <1>3, PublishKeeps, RemovePublicKeeps DEF PublishPublicContact, RemovePublicContact
<1> QED
  BY <1>2, <1>3, SaveContactKeeps, RemoveContactKeeps, ReconfigureKeeps, SyncOrStopKeeps
     DEF ContactsNext

\* Calls that do not overlap leave no record that claims a marker the homeserver does not
\* have: through failed requests that took effect, stops between a request and its record,
\* saves of the contact in between and changes of policy (publish_public_contact,
\* remove_public_contact, sync_public_contact_markers), for any receiver paths.
THEOREM PublishedTheorem ==
  ASSUME \A c, d \in Caller : c = d
  PROVE  ContactsSpec => []PublishedIsThere
<1>1. ContactsInit => ContactInv
  BY ContactDefaults DEF ContactsInit, ContactInv, ContactTypes, CallAnnounced, PublishedIsThere
<1>2. ContactInv /\ [ContactsNext]_contactVars => ContactInv'
  <2>1. ContactInv /\ UNCHANGED contactVars => ContactInv'
    BY DEF contactVars, ContactInv, ContactTypes, CallAnnounced, MayHavePublicMarker,
       PublishedIsThere
  <2> QED  BY <2>1, ContactsStep
<1>3. ContactInv => PublishedIsThere
  BY DEF ContactInv
<1> QED  BY <1>1, <1>2, <1>3, PTL DEF ContactsSpec

=============================================================================
